------------------------------ MODULE WrrGroup ------------------------------
(***************************************************************************)
(* The group weighted round-robin class of Bonus/RevisedWRR/wrr_group.c on *)
(* one CPU (a uniprocessor build), driven by the host scheduler core as in *)
(* WrrBasic: a step is one host event with the class hooks it calls.       *)
(*                                                                         *)
(* Every task group owns a wrr_rq (its my_q) and a group entity whose      *)
(* parent is the entity of the enclosing group (NULL below the root        *)
(* group).  The hooks walk a task's ancestor chain of entities.  The run-  *)
(* queue an entity is linked on is computed by wrr_rq_of_se, which calls   *)
(* task_rq() on its own uninitialised local; on a uniprocessor build       *)
(* task_rq() of anything is cpu_rq(0), so every entity resolves to the     *)
(* root run-queue rq->wrr.  The model translates the code as it runs on   *)
(* that build.                                                             *)
(***************************************************************************)
EXTENDS Integers, Sequences, SequencesExt, FiniteSets

CONSTANTS
    Tasks,          \* the tasks that may enter the WRR class
    Groups,         \* task groups other than the root group
    Root,           \* rq->wrr, the CPU's root run-queue
    NoEntity,       \* a NULL entity pointer (the parent of a top-level entity)
    NoWrr,          \* rq->curr when the CPU runs a fair-class task or idles
    GroupOf,        \* the task group of each task (NoEntity: the root group)
    ParentOf,       \* the enclosing group of each group (NoEntity: the root group)
    BackGroups,     \* top-level groups whose cgroup path starts with "/b"
    Prios,          \* rt_priority values sched_setscheduler may give tasks
    GroupSePrio,    \* what wrr_se_prio reads through container_of for a group entity
    GroupSeSlice,   \* time_slice of a group entity (kzalloc'd: 0)
    SliceBits,      \* width of p->wrr.time_slice
    HeadFlags,      \* ENQUEUE_HEAD values the host may pass on a class switch
    MAX_WRR_PRIO,
    WRR_FORE_TIMESLICE,
    WRR_BACK_TIMESLICE

Entities == Tasks \cup Groups
RQs == {Root} \cup Groups
Idx == Prios \cup {GroupSePrio}

ASSUME /\ Prios \subseteq 1..(MAX_WRR_PRIO - 1) /\ GroupSePrio \in 0..(MAX_WRR_PRIO - 1)
       /\ GroupOf \in [Tasks -> Groups \cup {NoEntity}]
       /\ ParentOf \in [Groups -> Groups \cup {NoEntity}]
       /\ BackGroups \subseteq Groups
       /\ SliceBits \in Nat \ {0} /\ HeadFlags \subseteq BOOLEAN /\ HeadFlags # {}
       /\ WRR_FORE_TIMESLICE \in 1..(2^SliceBits - 1)
       /\ WRR_BACK_TIMESLICE \in 1..(2^SliceBits - 1)
       /\ GroupSeSlice \in 0..(2^SliceBits - 1)

VARIABLES
    wrr_rq,         \* per run-queue: active.queue, active.bitmap, wrr_nr_running,
                    \* highest_prio.curr and whether leaf_wrr_rq_list is linked
    policy,         \* p->policy: "fair" or "wrr"
    rt_priority,    \* p->rt_priority (0 outside the WRR class)
    time_slice,     \* p->wrr.time_slice, as its SliceBits-bit pattern
    curr,           \* rq->curr
    need_resched,   \* TIF_NEED_RESCHED on rq->curr
    waited          \* history: ticks given to a same-level task while t waits

vars == <<wrr_rq, policy, rt_priority, time_slice, curr, need_resched, waited>>

-----------------------------------------------------------------------------
(* Entities and the ancestor chain.                                        *)

\* wrr_se->parent: a task's group entity, a group's enclosing group entity.
parent(e) == IF e \in Tasks THEN GroupOf[e] ELSE ParentOf[e]

\* for_each_sched_wrr_entity(wrr_se): the entity, its parent, ... to NULL.
RECURSIVE Chain(_)
Chain(e) == IF e = NoEntity THEN <<>> ELSE <<e>> \o Chain(parent(e))

\* The top-level group of a task's group; its cgroup path is "/<name>/...".
RECURSIVE TopGroup(_)
TopGroup(g) == IF ParentOf[g] = NoEntity THEN g ELSE TopGroup(ParentOf[g])

\* task_group_path(p->sched_task_group)[1] == 'b'.  The root group's path
\* is "/", whose character 1 is the terminating NUL.
IsBackground(t) == GroupOf[t] # NoEntity /\ TopGroup(GroupOf[t]) \in BackGroups

TimesliceOf(t) ==
    IF IsBackground(t) THEN WRR_BACK_TIMESLICE ELSE WRR_FORE_TIMESLICE

\* One full time slice of every other task: the longest t may wait for
\* tasks of its own level under round robin.
WaitBound(t) == FoldSet(LAMBDA u, acc : TimesliceOf(u) + acc, 0, Tasks \ {t})

\* wrr_rq_of_se: task_rq() on the uniprocessor build is always cpu_rq(0).
wrr_rq_of_se(e) == Root

\* group_wrr_rq: my_q, NULL for a task.
group_wrr_rq(e) == IF e \in Groups THEN e ELSE NoEntity

\* wrr_se_prio: rt_priority of the task containing the entity; for a group
\* entity container_of reads unrelated memory, the constant GroupSePrio.
wrr_se_prio(rtp, e) == IF e \in Tasks THEN rtp[e] ELSE GroupSePrio

\* on_wrr_rq: the entity's run_list is linked on some list.
on_wrr_rq(R, e) == \E rq \in RQs, p \in Idx : Contains(R[rq].queue[p], e)

\* sched_find_first_bit: MAX_WRR_PRIO when no bit is set.
FindFirstBit(bm) == IF bm = {} THEN MAX_WRR_PRIO ELSE Min(bm)

-----------------------------------------------------------------------------
(* The class hooks, as operators from a run-queue state R to the next.     *)
(* rtp is the rt_priority the hook reads.                                  *)

inc_wrr_prio(hp, prio) == IF prio < hp THEN prio ELSE hp

\* Mutant of dec_wrr_prio: the removed minimum is never recomputed.
dec_wrr_prio_stale(hp, n, bm, prio) ==
    IF n # 0 THEN hp ELSE MAX_WRR_PRIO

\* dec_wrr_prio, after wrr_nr_running was decremented to n and the bitmap
\* updated to bm.
dec_wrr_prio(hp, n, bm, prio) ==
    IF n # 0 THEN (IF prio = hp THEN FindFirstBit(bm) ELSE hp) ELSE MAX_WRR_PRIO

__enqueue_wrr_entity(R, rtp, e, head) ==
    LET rq  == wrr_rq_of_se(e)
        grq == group_wrr_rq(e)
        p   == wrr_se_prio(rtp, e)
    IN IF grq # NoEntity /\ R[grq].wrr_nr_running = 0 THEN R
       ELSE [R EXCEPT ![rq].leaf_listed = @ \/ R[rq].wrr_nr_running = 0,
                      ![rq].queue[p] = IF head THEN <<e>> \o @ ELSE Append(@, e),
                      ![rq].bitmap = @ \cup {p},
                      ![rq].wrr_nr_running = @ + 1,
                      ![rq].highest_prio = inc_wrr_prio(@, p)]

__dequeue_wrr_entity(R, rtp, e) ==
    LET rq   == wrr_rq_of_se(e)
        p    == wrr_se_prio(rtp, e)
        rest == Remove(R[rq].queue[p], e)
        bm   == IF rest = <<>> THEN R[rq].bitmap \ {p} ELSE R[rq].bitmap
        n    == R[rq].wrr_nr_running - 1
    IN [R EXCEPT ![rq] = [queue          |-> [@.queue EXCEPT ![p] = rest],
                          bitmap         |-> bm,
                          wrr_nr_running |-> n,
                          highest_prio   |-> dec_wrr_prio(@.highest_prio, n, bm, p),
                          leaf_listed    |-> @.leaf_listed /\ n # 0]]

\* dequeue_wrr_stack: unlink the chain top-down, from the outermost group.
dequeue_wrr_stack(R, rtp, e) ==
    FoldLeft(LAMBDA S, x : IF on_wrr_rq(S, x) THEN __dequeue_wrr_entity(S, rtp, x) ELSE S,
             R, Reverse(Chain(e)))

\* dequeue_wrr_entity: unlink the chain, then relink bottom-up every group
\* entity whose own run-queue still has runnable entities.
dequeue_wrr_entity(R, rtp, e) ==
    FoldLeft(LAMBDA S, x :
                 IF group_wrr_rq(x) # NoEntity /\ S[group_wrr_rq(x)].wrr_nr_running # 0
                 THEN __enqueue_wrr_entity(S, rtp, x, FALSE) ELSE S,
             dequeue_wrr_stack(R, rtp, e), Chain(e))

\* enqueue_wrr_entity: unlink the chain, then link it bottom-up.
enqueue_wrr_entity(R, rtp, e, head) ==
    FoldLeft(LAMBDA S, x : __enqueue_wrr_entity(S, rtp, x, head),
             dequeue_wrr_stack(R, rtp, e), Chain(e))

\* Mutant of requeue_wrr_entity: list_move, as if head were passed.
requeue_wrr_entity_head(R, rtp, rq, e) ==
    IF on_wrr_rq(R, e)
    THEN [R EXCEPT ![rq].queue[wrr_se_prio(rtp, e)] = <<e>> \o Remove(@, e)]
    ELSE R

\* requeue_wrr_entity(wrr_rq, se, 0): list_move_tail when linked.
requeue_wrr_entity(R, rtp, rq, e) ==
    IF on_wrr_rq(R, e)
    THEN [R EXCEPT ![rq].queue[wrr_se_prio(rtp, e)] = Append(Remove(@, e), e)]
    ELSE R

\* requeue_task_wrr(rq, p, 0): every entity of the chain to its list's tail.
requeue_task_wrr(R, rtp, t) ==
    FoldLeft(LAMBDA S, x : requeue_wrr_entity(S, rtp, wrr_rq_of_se(x), x), R, Chain(t))

\* pick_next_wrr_entity: the head of the first non-empty level.  An empty
\* bitmap is BUG_ON; a set bit over an empty list yields the list head.
pick_next_wrr_entity(R, rq) ==
    LET q == R[rq].queue[FindFirstBit(R[rq].bitmap)]
    IN IF R[rq].bitmap = {} \/ q = <<>> THEN NoWrr ELSE Head(q)

\* _pick_next_task_wrr: descend through group entities to a task.
RECURSIVE Descend(_, _)
Descend(R, rq) ==
    LET se == pick_next_wrr_entity(R, rq)
    IN IF se = NoWrr \/ group_wrr_rq(se) = NoEntity THEN se
       ELSE Descend(R, group_wrr_rq(se))

pick_next_task_wrr(R) ==
    IF R[Root].wrr_nr_running = 0 THEN NoWrr ELSE Descend(R, Root)

\* check_preempt_curr_wrr: reschedule when the woken task's rt_priority is
\* numerically greater than the running one's.
check_preempt_curr_wrr(t) ==
    need_resched' = (need_resched \/ rt_priority[t] > rt_priority[curr])

\* rt_priority of rq->curr; a fair or idle task has rt_priority 0.
CurrPrio == IF curr = NoWrr THEN 0 ELSE rt_priority[curr]

\* switched_to_wrr: the same comparison as check_preempt_curr_wrr, made
\* only when t is not rq->curr after the switch.
switched_to_wrr(t, p) ==
    need_resched' = (need_resched \/ (curr' # t /\ p > CurrPrio))

\* wrr_se->run_list.prev == wrr_se->run_list.next: alone on its list, or
\* on no list.
RunListAlone(R, rtp, e) ==
    LET q == R[wrr_rq_of_se(e)].queue[wrr_se_prio(rtp, e)]
    IN ~Contains(q, e) \/ Len(q) = 1

\* task_tick_wrr: --time_slice in SliceBits bits; on reaching 0 refill and,
\* when some entity of the chain is not alone, requeue the chain and ask for
\* a reschedule.
task_tick_wrr ==
    LET ts == (time_slice[curr] - 1) % 2^SliceBits IN
    \/ /\ ts # 0
       /\ time_slice' = [time_slice EXCEPT ![curr] = ts]
       /\ UNCHANGED <<wrr_rq, need_resched>>
    \/ /\ ts = 0
       /\ time_slice' = [time_slice EXCEPT ![curr] = TimesliceOf(curr)]
       /\ \A i \in DOMAIN Chain(curr) : RunListAlone(wrr_rq, rt_priority, Chain(curr)[i])
       /\ UNCHANGED <<wrr_rq, need_resched>>
    \/ /\ ts = 0
       /\ time_slice' = [time_slice EXCEPT ![curr] = TimesliceOf(curr)]
       /\ \E i \in DOMAIN Chain(curr) : ~RunListAlone(wrr_rq, rt_priority, Chain(curr)[i])
       /\ wrr_rq' = requeue_task_wrr(wrr_rq, rt_priority, curr)
       /\ need_resched' = TRUE

\* task_fork_wrr: p->wrr.time_slice = p->wrr.parent->time_slice.  The child
\* carries the parent task's wrr entity, so its parent is the entity of the
\* parent's task group, whose time_slice is GroupSeSlice.
task_fork_wrr(c) ==
    time_slice' = [time_slice EXCEPT ![c] = GroupSeSlice]

-----------------------------------------------------------------------------
(* The host events, as in WrrBasic.                                        *)

QueuedTasks == {t \in Tasks : on_wrr_rq(wrr_rq, t)}

\* schedule(): put_prev_task_wrr (accounting only), then pick on the
\* run-queue this step leaves.
Reschedule ==
    /\ curr' = pick_next_task_wrr(wrr_rq')
    /\ need_resched' = FALSE

\* waited of a task that runs or is not queued after the step is 0.
ClearWaited ==
    waited' = [t \in Tasks |-> IF t = curr' \/ ~on_wrr_rq(wrr_rq', t) THEN 0 ELSE waited[t]]

\* try_to_wake_up: enqueue_task_wrr, then check_preempt_curr.
Wake(t) ==
    /\ policy[t] = "wrr" /\ ~on_wrr_rq(wrr_rq, t)
    /\ wrr_rq' = enqueue_wrr_entity(wrr_rq, rt_priority, t, FALSE)
    /\ IF curr = NoWrr THEN need_resched' = TRUE ELSE check_preempt_curr_wrr(t)
    /\ UNCHANGED <<policy, rt_priority, time_slice, curr, waited>>

\* rq->curr blocks: dequeue_task_wrr, then schedule().
Sleep ==
    /\ curr \in Tasks
    /\ wrr_rq' = dequeue_wrr_entity(wrr_rq, rt_priority, curr)
    /\ Reschedule
    /\ ClearWaited
    /\ UNCHANGED <<policy, rt_priority, time_slice>>

\* The timer tick on a WRR rq->curr with no reschedule pending.
Tick ==
    /\ curr \in Tasks /\ ~need_resched
    /\ task_tick_wrr
    /\ waited' = [t \in Tasks |->
                    IF t # curr /\ t \in QueuedTasks /\ rt_priority[t] = rt_priority[curr]
                    THEN Min({waited[t] + 1, WaitBound(t) + 1}) ELSE waited[t]]
    /\ UNCHANGED <<policy, rt_priority, curr>>

\* sched_yield(): yield_task_wrr, then schedule().
Yield ==
    /\ curr \in Tasks
    /\ wrr_rq' = requeue_task_wrr(wrr_rq, rt_priority, curr)
    /\ UNCHANGED <<policy, rt_priority, time_slice>>
    /\ Reschedule
    /\ ClearWaited

\* The host honours a pending reschedule.
Schedule ==
    /\ need_resched
    /\ UNCHANGED <<wrr_rq, policy, rt_priority, time_slice>>
    /\ Reschedule
    /\ ClearWaited

\* sched_setscheduler(SCHED_WRR) or the PI deboost (ENQUEUE_HEAD) of a
\* runnable fair task: enqueue, then switched_to_wrr.
SwitchTo(t, p, head, running) ==
    /\ policy[t] = "fair"
    /\ running => curr = NoWrr
    /\ policy' = [policy EXCEPT ![t] = "wrr"]
    /\ rt_priority' = [rt_priority EXCEPT ![t] = p]
    /\ time_slice' = [time_slice EXCEPT ![t] = TimesliceOf(t)]
    /\ wrr_rq' = enqueue_wrr_entity(wrr_rq, rt_priority', t, head)
    /\ curr' = IF running THEN t ELSE curr
    /\ switched_to_wrr(t, p)
    /\ ClearWaited

\* sched_setscheduler(SCHED_NORMAL): dequeue a queued task; a running one
\* continues in the fair class with a reschedule requested.
LeaveClass(t) ==
    /\ policy[t] = "wrr"
    /\ policy' = [policy EXCEPT ![t] = "fair"]
    /\ rt_priority' = [rt_priority EXCEPT ![t] = 0]
    /\ \/ /\ on_wrr_rq(wrr_rq, t)
          /\ wrr_rq' = dequeue_wrr_entity(wrr_rq, rt_priority, t)
          /\ IF t = curr THEN curr' = NoWrr /\ need_resched' = TRUE
                         ELSE UNCHANGED <<curr, need_resched>>
       \/ /\ ~on_wrr_rq(wrr_rq, t)
          /\ UNCHANGED <<wrr_rq, curr, need_resched>>
    /\ ClearWaited
    /\ UNCHANGED time_slice

\* fork() by the running WRR task of a non-root group (in the root group
\* wrr.parent is NULL and task_fork_wrr dereferences it): sched_fork keeps
\* the class and rt_priority and calls task_fork_wrr, then
\* wake_up_new_task enqueues the child and calls check_preempt_curr.  A
\* task outside the class, in the same group, stands for the new child.
Fork(c) ==
    /\ curr \in Tasks /\ GroupOf[curr] # NoEntity
    /\ policy[c] = "fair" /\ c # curr /\ GroupOf[c] = GroupOf[curr]
    /\ policy' = [policy EXCEPT ![c] = "wrr"]
    /\ rt_priority' = [rt_priority EXCEPT ![c] = rt_priority[curr]]
    /\ task_fork_wrr(c)
    /\ wrr_rq' = enqueue_wrr_entity(wrr_rq, rt_priority', c, FALSE)
    /\ need_resched' = (need_resched \/ rt_priority'[c] > rt_priority[curr])
    /\ UNCHANGED <<curr, waited>>

\* prio_changed_wrr is empty.
prio_changed_wrr(t) == UNCHANGED need_resched

\* sched_setscheduler(SCHED_WRR, p) on a task of the class: a queued task is
\* dequeued along its chain and enqueued (flags 0) at its new rt_priority;
\* then only the empty prio_changed_wrr.
ChangePrio(t, p) ==
    /\ policy[t] = "wrr"
    /\ rt_priority' = [rt_priority EXCEPT ![t] = p]
    /\ wrr_rq' = IF on_wrr_rq(wrr_rq, t)
                 THEN enqueue_wrr_entity(dequeue_wrr_entity(wrr_rq, rt_priority, t),
                                         rt_priority', t, FALSE)
                 ELSE wrr_rq
    /\ prio_changed_wrr(t)
    /\ UNCHANGED <<policy, time_slice, curr>>
    /\ waited' = [u \in Tasks |-> IF u = t \/ u = curr \/ ~on_wrr_rq(wrr_rq', u) THEN 0 ELSE waited[u]]

EmptyRq == [queue |-> [p \in Idx |-> <<>>], bitmap |-> {}, wrr_nr_running |-> 0,
            highest_prio |-> MAX_WRR_PRIO, leaf_listed |-> FALSE]

Init ==
    /\ wrr_rq = [rq \in RQs |-> EmptyRq]
    /\ policy = [t \in Tasks |-> "fair"]
    /\ rt_priority = [t \in Tasks |-> 0]
    /\ time_slice = [t \in Tasks |-> TimesliceOf(t)]
    /\ curr = NoWrr
    /\ need_resched = FALSE
    /\ waited = [t \in Tasks |-> 0]

Next ==
    \/ \E t \in Tasks : Wake(t)
    \/ Sleep
    \/ Tick
    \/ Yield
    \/ Schedule
    \/ \E t \in Tasks, p \in Prios, head \in HeadFlags, running \in BOOLEAN :
          SwitchTo(t, p, head, running)
    \/ \E t \in Tasks : LeaveClass(t)
    \/ \E c \in Tasks : Fork(c)
    \/ \E t \in Tasks, p \in Prios : ChangePrio(t, p)

Spec == Init /\ [][Next]_vars

-----------------------------------------------------------------------------
(* Properties.                                                             *)

TypeOK ==
    /\ wrr_rq \in [RQs -> [queue : [Idx -> Seq(Entities)], bitmap : SUBSET Idx,
                           wrr_nr_running : Nat, highest_prio : Idx \cup {MAX_WRR_PRIO},
                           leaf_listed : BOOLEAN]]
    /\ policy \in [Tasks -> {"fair", "wrr"}]
    /\ rt_priority \in [Tasks -> Prios \cup {0}]
    /\ time_slice \in [Tasks -> 0..(2^SliceBits - 1)]
    /\ curr \in Tasks \cup {NoWrr}
    /\ need_resched \in BOOLEAN
    /\ waited \in [Tasks -> Nat]

LinkedEntities(rq) == {e \in Entities : \E p \in Idx : Contains(wrr_rq[rq].queue[p], e)}

\* Every run-queue after every hook, along the walks of the ancestor chain:
\* a bit is set exactly when its list is non-empty, wrr_nr_running counts
\* the linked entries, the cached highest_prio is the first set bit (the
\* lazy recompute of dec_wrr_prio and the min of inc_wrr_prio), the leaf
\* list is linked exactly while the run-queue has entries, no entity is
\* linked twice or on two run-queues, every queued task sits on the list of
\* its own rt_priority, and a running WRR task is linked.
RunQueueConsistent ==
    /\ \A rq \in RQs :
        /\ \A p \in Idx : p \in wrr_rq[rq].bitmap <=> wrr_rq[rq].queue[p] # <<>>
        /\ wrr_rq[rq].wrr_nr_running =
              FoldFunction(LAMBDA q, acc : Len(q) + acc, 0, wrr_rq[rq].queue)
        /\ wrr_rq[rq].wrr_nr_running = Cardinality(LinkedEntities(rq))
        /\ wrr_rq[rq].highest_prio = FindFirstBit(wrr_rq[rq].bitmap)
        /\ wrr_rq[rq].leaf_listed <=> wrr_rq[rq].wrr_nr_running > 0
    /\ \A rq1, rq2 \in RQs : rq1 # rq2 => LinkedEntities(rq1) \cap LinkedEntities(rq2) = {}
    /\ \A t \in QueuedTasks :
          policy[t] = "wrr" /\ Contains(wrr_rq[wrr_rq_of_se(t)].queue[rt_priority[t]], t)
    /\ curr \in Tasks => curr \in QueuedTasks

\* The group hierarchy of the design: a group entity is linked exactly
\* while some task below it is runnable (enqueue_wrr_entity links the
\* ancestor chain, dequeue_wrr_entity unlinks an emptied group).
GroupMembership ==
    \A g \in Groups :
        on_wrr_rq(wrr_rq, g) <=>
            \E t \in QueuedTasks : \E i \in DOMAIN Chain(t) : Chain(t)[i] = g

\* Round robin within a level: while t waits, tasks of its rt_priority get
\* at most one full time slice each (task_tick_wrr, task_fork_wrr).
RoundRobinWait ==
    \A t \in Tasks : waited[t] <= WaitBound(t)

\* On the uniprocessor build the class implements the abstract ready queue
\* on the root run-queue: every walk of the ancestor chain (enqueue,
\* dequeue, requeue, the tick's requeue, fork) changes the lists as one
\* abstract step, and the CPU only ever goes to the head of the most urgent
\* non-empty list, whatever the highest_prio cache and the pick descent do.
RQ == INSTANCE ReadyQueue WITH
        Prios   <- Idx,
        Idle    <- NoWrr,
        members <- {t \in Tasks : policy[t] = "wrr"},
        lists   <- wrr_rq[Root].queue,
        running <- curr

ReadyQueueRefined == RQ!Spec
=============================================================================
