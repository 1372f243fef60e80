------------------------------- MODULE MCAgenda -------------------------------
(***************************************************************************)
(* A small instance of the agenda for TLC: two tasks, one place for runs.  *)
(***************************************************************************)
EXTENDS AgendaTasks, TLC

CONSTANTS t1, t2

TaskSymmetry == Permutations(Tasks)
===============================================================================
