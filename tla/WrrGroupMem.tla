---------------------------- MODULE WrrGroupMem ----------------------------
(***************************************************************************)
(* The memory of the group variant's task groups (wrr_group.c):            *)
(* alloc_wrr_sched_group and free_wrr_sched_group, driven by the host's    *)
(* group creation (sched_create_group, which calls free_sched_group when   *)
(* an allocator fails) and destruction.  Group creation runs in process    *)
(* context under the cgroup mutex, so one call runs at a time.             *)
(*                                                                         *)
(* The heap is the set of live allocations; each is a record of its       *)
(* kind, its group and the creation (generation) of that group it belongs  *)
(* to.  Every kzalloc may fail.                                            *)
(***************************************************************************)
EXTENDS Naturals, FiniteSets

CONSTANTS
    Groups,     \* task groups the host may create
    Root,       \* root_task_group, allocated at boot and never freed
    ParentOf,   \* Groups -> Groups \cup {Root}: the cgroup parent
    NULL,
    MaxGen      \* bound on how often one group is created

ASSUME /\ Root \notin Groups /\ NULL \notin Groups
       /\ ParentOf \in [Groups -> Groups \cup {Root}]
       /\ MaxGen \in Nat \ {0}

VARIABLES
    heap,       \* the allocations not yet freed
    live,       \* groups that exist
    tg_wrr_rq,  \* tg->wrr_rq: the per-CPU array of wrr_rq pointers, or NULL
    tg_wrr_se,  \* tg->wrr_se: the per-CPU array of entity pointers, or NULL
    rq_of,      \* tg->wrr_rq[0], or NULL
    se_of,      \* tg->wrr_se[0], or NULL
    gen         \* creations of each group so far

vars == <<heap, live, tg_wrr_rq, tg_wrr_se, rq_of, se_of, gen>>

Kinds == {"rq_array", "se_array", "wrr_rq", "wrr_se"}

Obj(k, g, n) == [kind |-> k, tg |-> g, gen |-> n]

\* The kzalloc calls of alloc_wrr_sched_group in order; "none" is a run in
\* which all of them succeed.
AllocSites == {"rq_array", "se_array", "wrr_rq", "wrr_se", "none"}

-----------------------------------------------------------------------------

\* alloc_wrr_sched_group(tg, parent) when the kzalloc at site fail returns
\* NULL: the two pointer arrays, then one wrr_rq and one entity for CPU 0
\* (err_free_rq frees the wrr_rq when the entity allocation fails), then
\* init_wrr_rq and init_tg_wrr_entry store them in slot 0 of the arrays.
\* The result records the heap, tg's four fields and the return value.
alloc_wrr_sched_group(g, n, fail) ==
    LET o(k)    == Obj(k, g, n)
        arrays  == CASE fail = "rq_array" -> {}
                     [] fail = "se_array" -> {o("rq_array")}
                     [] OTHER             -> {o("rq_array"), o("se_array")}
        ok      == fail = "none"
    IN [heap   |-> heap \cup arrays \cup (IF ok THEN {o("wrr_rq"), o("wrr_se")} ELSE {}),
        arr_rq |-> IF fail = "rq_array" THEN NULL ELSE o("rq_array"),
        arr_se |-> IF fail \in {"rq_array", "se_array"} THEN NULL ELSE o("se_array"),
        rq     |-> IF ok THEN o("wrr_rq") ELSE NULL,
        se     |-> IF ok THEN o("wrr_se") ELSE NULL,
        ret    |-> IF ok THEN 1 ELSE 0]

\* free_wrr_sched_group(tg): kfree of the two arrays (kfree(NULL) is a no-op).
free_wrr_sched_group(h, arr_rq, arr_se) == h \ {arr_rq, arr_se}

-----------------------------------------------------------------------------

\* sched_create_group(parent): a new tg whose parent exists; on a failed
\* alloc_wrr_sched_group the host calls free_sched_group, which calls
\* free_wrr_sched_group and frees tg.
Create(g, fail) ==
    /\ g \notin live /\ gen[g] < MaxGen
    /\ ParentOf[g] \in live \cup {Root}
    /\ LET r == alloc_wrr_sched_group(g, gen[g] + 1, fail) IN
       IF r.ret = 1
       THEN /\ heap' = r.heap
            /\ live' = live \cup {g}
            /\ tg_wrr_rq' = [tg_wrr_rq EXCEPT ![g] = r.arr_rq]
            /\ tg_wrr_se' = [tg_wrr_se EXCEPT ![g] = r.arr_se]
            /\ rq_of' = [rq_of EXCEPT ![g] = r.rq]
            /\ se_of' = [se_of EXCEPT ![g] = r.se]
       ELSE /\ heap' = free_wrr_sched_group(r.heap, r.arr_rq, r.arr_se)
            /\ UNCHANGED <<live, tg_wrr_rq, tg_wrr_se, rq_of, se_of>>
    /\ gen' = [gen EXCEPT ![g] = @ + 1]

\* sched_destroy_group(tg) of a group without child groups: after the RCU
\* grace period free_sched_group calls free_wrr_sched_group and frees tg.
Destroy(g) ==
    /\ g \in live
    /\ \A c \in Groups : ParentOf[c] = g => c \notin live
    /\ heap' = free_wrr_sched_group(heap, tg_wrr_rq[g], tg_wrr_se[g])
    /\ live' = live \ {g}
    /\ tg_wrr_rq' = [tg_wrr_rq EXCEPT ![g] = NULL]
    /\ tg_wrr_se' = [tg_wrr_se EXCEPT ![g] = NULL]
    /\ rq_of' = [rq_of EXCEPT ![g] = NULL]
    /\ se_of' = [se_of EXCEPT ![g] = NULL]
    /\ UNCHANGED gen

Init ==
    /\ heap = {}
    /\ live = {}
    /\ tg_wrr_rq = [g \in Groups |-> NULL]
    /\ tg_wrr_se = [g \in Groups |-> NULL]
    /\ rq_of = [g \in Groups |-> NULL]
    /\ se_of = [g \in Groups |-> NULL]
    /\ gen = [g \in Groups |-> 0]

Next ==
    \/ \E g \in Groups, fail \in AllocSites : Create(g, fail)
    \/ \E g \in Groups : Destroy(g)

Spec == Init /\ [][Next]_vars

-----------------------------------------------------------------------------

TypeOK ==
    /\ heap \subseteq [kind : Kinds, tg : Groups, gen : 1..MaxGen]
    /\ live \subseteq Groups
    /\ gen \in [Groups -> 0..MaxGen]

\* Every allocation is reachable from an existing group through tg->wrr_rq,
\* tg->wrr_se or their slot 0: neither a failed alloc_wrr_sched_group
\* (whatever kzalloc fails) nor free_wrr_sched_group leaves memory behind.
NoLeak ==
    heap \subseteq UNION {{tg_wrr_rq[g], tg_wrr_se[g], rq_of[g], se_of[g]} : g \in live}
=============================================================================
