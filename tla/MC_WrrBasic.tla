---------------------------- MODULE MC_WrrBasic ----------------------------
(* Model-checking instance of WrrBasic: three tasks, two rt_priority levels,
   t3 in a background group, foreground slices of two ticks. *)
EXTENDS WrrBasic, TLC

CONSTANTS t1, t2, t3

MC_Tasks == {t1, t2, t3}
MC_Prios == {1, 2}
MC_Background == {t3}
MC_Symmetry == Permutations({t1, t2})
=============================================================================
