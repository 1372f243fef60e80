------------------------------- MODULE MCEvents -------------------------------
(***************************************************************************)
(* A small instance of the event ingress for TLC.  One spec is debounced,  *)
(* with a dedupe window; the other has a cooldown and a longer window.     *)
(***************************************************************************)
EXTENDS CronEvents, TLC

CONSTANTS p1, p2, s1, s2, e1, e2, e3, a, b

KeysOfEvents == e1 :> a @@ e2 :> a @@ e3 :> b
HeardEvents == p1 :> {e1, e3} @@ p2 :> {e1, e2}
SpecMatches == s1 :> {e1, e2} @@ s2 :> {e1, e3}
Debounces == s1 :> 1 @@ s2 :> 0
DedupeWindows == s1 :> 1 @@ s2 :> 2
Cooldowns == s1 :> 0 @@ s2 :> 1
===============================================================================
