---------------------------- MODULE MCCapability ----------------------------
(***************************************************************************)
(* Small instances of the capability requests for TLC.                     *)
(***************************************************************************)
EXTENDS CapabilityRequests

CONSTANTS c1, c2, s1

OneClient == {c1}
TwoClients == {c1, c2}
OneSession == {s1}
=============================================================================
