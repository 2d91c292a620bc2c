---------------------------- MODULE MC_WrrGroup ----------------------------
(* Model-checking instance of WrrGroup: t1 in the root group, t2 and t3 in
   group g2 nested in the background group g1; two rt_priority levels;
   a two-bit time_slice. *)
EXTENDS WrrGroup, TLC

CONSTANTS t1, t2, t3, g1, g2

MC_Tasks == {t1, t2, t3}
MC_Groups == {g1, g2}
MC_GroupOf == (t1 :> NoEntity) @@ (t2 :> g2) @@ (t3 :> g2)
MC_ParentOf == (g1 :> NoEntity) @@ (g2 :> g1)
MC_BackGroups == {g1}
MC_Prios == {1, 2}
MC_Symmetry == Permutations({t2, t3})
=============================================================================
