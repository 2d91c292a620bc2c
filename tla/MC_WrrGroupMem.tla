--------------------------- MODULE MC_WrrGroupMem ---------------------------
(* Model-checking instance of WrrGroupMem: g2 nested in g1 nested in the
   root group, each created at most twice. *)
EXTENDS WrrGroupMem, TLC

CONSTANTS g1, g2

MC_Groups == {g1, g2}
MC_ParentOf == (g1 :> Root) @@ (g2 :> g1)
=============================================================================
