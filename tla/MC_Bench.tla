----------------------------- MODULE MC_Bench -----------------------------
(* Model-checking instance of Bench: both programs, two pids, at most two
   children, two rounds per child, rounds of one or two bytes. *)
EXTENDS Bench, TLC

CONSTANTS p1, p2

MC_Procs == {p1, p2}
=============================================================================
