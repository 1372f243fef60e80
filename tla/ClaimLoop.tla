----------------------------- MODULE ClaimLoop -----------------------------
(***************************************************************************)
(* The loop of claimDueRuns, statement by statement: CronStore describes   *)
(* its result without the loop, and the two must agree on every table the  *)
(* automations can reach.                                                  *)
(***************************************************************************)
EXTENDS CronAutomation

\* The rows nextDueRun selects from: due, with room now.
Candidates(rs, t) == {i \in Due(rs, t) : HasRoom(rs, i, {}, t)}

Earliest(rs, I) == CHOOSE i \in I : \A j \in I \ {i} : Before(rs, i, j)

(***************************************************************************)
(* Claim the first candidate, look again, until none is left or the limit  *)
(* is reached.  Result: the claimed rows in order, and the table.          *)
(***************************************************************************)
RECURSIVE Loop(_, _, _, _)
Loop(rs, claimed, base, t) ==
  IF Candidates(rs, t) = {} \/ Len(claimed) = ClaimLimit
  THEN <<claimed, rs>>
  ELSE LET i == Earliest(rs, Candidates(rs, t))
       IN  Loop(ClaimRuns(rs, <<i>>, base + Len(claimed), t),
                Append(claimed, i), base, t)

(* Whenever a runner is about to claim, the declarative claim list is the one
   list the loop of claimDueRuns produces, with the same rows and the same
   tokens, although the loop evaluates capacity again after each claim. *)
LoopClaimsList ==
  (\E r \in Runners : pc[r] = "claim") =>
    LET result == Loop(runs, <<>>, Len(execs), now)
    IN  /\ ClaimLists(runs, now) = {result[1]}
        /\ ClaimRuns(runs, result[1], Len(execs), now) = result[2]
=============================================================================
