------------------------------ MODULE WrrBasic ------------------------------
(***************************************************************************)
(* The basic weighted round-robin scheduling class of                      *)
(* Basic/src/kernel/wrr_basic.c on one CPU, driven by the host scheduler   *)
(* core.  Every hook runs under the run-queue lock, so a step of this      *)
(* module is one host event together with the class hooks the core calls   *)
(* for it (wake-up = enqueue + check_preempt_curr, schedule() =            *)
(* put_prev + pick_next, ...).                                             *)
(*                                                                         *)
(* The priority array keeps one FIFO list per rt_priority and a bitmap of  *)
(* the non-empty lists; pick_next takes the head of the list of the lowest *)
(* set bit, so a numerically lower rt_priority is the more urgent one.     *)
(* The running task stays linked on its list while it runs.                *)
(***************************************************************************)
EXTENDS Integers, Sequences, SequencesExt, FiniteSets

CONSTANTS
    Tasks,              \* the tasks that may enter the WRR class
    Prios,              \* rt_priority values sched_setscheduler may give them
    NoWrr,              \* rq->curr when the CPU runs a fair-class task or idles
    Background,         \* tasks whose task group path is "/b..."
    HeadFlags,          \* ENQUEUE_HEAD values the host may pass on a class switch
    WRR_FORE_TIMESLICE,
    WRR_BACK_TIMESLICE,
    MaxClock            \* bound on rq->clock_task

ASSUME /\ Prios \subseteq Nat /\ 0 \notin Prios
       /\ NoWrr \notin Tasks
       /\ Background \subseteq Tasks
       /\ HeadFlags \subseteq BOOLEAN /\ HeadFlags # {}
       /\ WRR_FORE_TIMESLICE \in Nat \ {0} /\ WRR_BACK_TIMESLICE \in Nat \ {0}
       /\ MaxClock \in Nat

VARIABLES
    queue,          \* wrr_rq->active.queue: rt_priority -> list of tasks
    bitmap,         \* wrr_rq->active.bitmap, as the set of its set bits
    wrr_nr_running, \* wrr_rq->wrr_nr_running
    leaf_listed,    \* wrr_rq->leaf_wrr_rq_list is linked on rq->leaf_wrr_rq_list
    policy,         \* p->policy: "fair" (runnable in the fair class) or "wrr"
    rt_priority,    \* p->rt_priority (0 outside the WRR class)
    time_slice,     \* p->wrr.time_slice
    curr,           \* rq->curr
    need_resched,   \* TIF_NEED_RESCHED on rq->curr
    outranked,      \* history: rq->curr left below a queued task by a priority change
    clock,          \* rq->clock_task
    exec_start,     \* p->se.exec_start
    sum_exec_runtime, \* p->se.sum_exec_runtime
    ran             \* history: clock time t spent as the WRR rq->curr

vars == <<queue, bitmap, wrr_nr_running, leaf_listed, policy, rt_priority,
          time_slice, curr, need_resched, outranked, clock, exec_start,
          sum_exec_runtime, ran>>

acct == <<clock, exec_start, sum_exec_runtime, ran>>

-----------------------------------------------------------------------------
(* Helpers over the run-queue.                                             *)

\* list_empty(&wrr_se->run_list) is false: t is linked on some list.
OnRq(t) == \E p \in Prios : Contains(queue[p], t)

Queued == {t \in Tasks : OnRq(t)}

\* rt_priority of rq->curr as the class hooks read it; a fair or idle task
\* has rt_priority 0.
CurrPrio == IF curr = NoWrr THEN 0 ELSE rt_priority[curr]

\* task_group_path(tg)[1] == 'b': the task belongs to a background group.
IsBackground(t) == t \in Background

\* The refill of task_tick_wrr: the foreground or background constant.
TimesliceOf(t) ==
    IF IsBackground(t) THEN WRR_BACK_TIMESLICE ELSE WRR_FORE_TIMESLICE

\* wrr_se->run_list.prev == wrr_se->run_list.next: t is the only entry of
\* its list, or (list_del_init) on no list at all.
RunListAlone(t) ==
    LET q == queue[rt_priority[t]] IN ~Contains(q, t) \/ Len(q) = 1

-----------------------------------------------------------------------------
(* The class hooks.                                                        *)

\* The run-queue as one value: the hooks below are operators from one such
\* record to the next, and SetRq makes a record the next state.
Rq == [queue |-> queue, bitmap |-> bitmap, nr |-> wrr_nr_running, leaf |-> leaf_listed]

SetRq(r) ==
    /\ queue' = r.queue
    /\ bitmap' = r.bitmap
    /\ wrr_nr_running' = r.nr
    /\ leaf_listed' = r.leaf

\* enqueue_wrr_entity + enqueue_task_wrr: link on the list of priority p at
\* the head or the tail, set the bit, count the task.
enqueue_task_wrr(r, t, p, head) ==
    [queue  |-> [r.queue EXCEPT ![p] = IF head THEN <<t>> \o @ ELSE Append(@, t)],
     bitmap |-> r.bitmap \cup {p},
     nr     |-> r.nr + 1,
     leaf   |-> r.nr = 0 \/ r.leaf]

\* Mutant of dequeue_task_wrr: the __clear_bit of an emptied list is lost.
dequeue_task_wrr_keepbit(r, t, p) ==
    [queue  |-> [r.queue EXCEPT ![p] = Remove(@, t)],
     bitmap |-> r.bitmap,
     nr     |-> r.nr - 1,
     leaf   |-> r.nr - 1 # 0 /\ r.leaf]

\* dequeue_wrr_entity + dequeue_task_wrr for a task whose wrr_se_prio is p:
\* unlink, clear the bit when the list became empty, uncount, unlink the
\* leaf list when the class is empty.
dequeue_task_wrr(r, t, p) ==
    LET rest == Remove(r.queue[p], t) IN
    [queue  |-> [r.queue EXCEPT ![p] = rest],
     bitmap |-> IF rest = <<>> THEN r.bitmap \ {p} ELSE r.bitmap,
     nr     |-> r.nr - 1,
     leaf   |-> r.nr - 1 # 0 /\ r.leaf]

\* Mutant of requeue_task_wrr: list_move instead of list_move_tail, the task
\* goes back to the head of its list.
requeue_task_wrr_head(t) ==
    [queue EXCEPT ![rt_priority[t]] = <<t>> \o Remove(@, t)]

\* requeue_task_wrr(rq, t, 0): list_move_tail on the list of t's priority
\* (every caller passes head = 0).
requeue_task_wrr(t) ==
    [queue EXCEPT ![rt_priority[t]] = Append(Remove(@, t), t)]

\* check_preempt_curr_wrr: reschedule when the woken task's rt_priority is
\* numerically greater than the running one's.
check_preempt_curr_wrr(t) ==
    need_resched' = (need_resched \/ rt_priority[t] > rt_priority[curr])

\* switched_to_wrr: a task that joined the class while runnable and is not
\* rq->curr after the switch preempts when its rt_priority is numerically
\* lower than curr's.
switched_to_wrr(t, p) ==
    need_resched' = (need_resched \/ (curr' # t /\ p < CurrPrio))

\* prio_changed_wrr is empty: a change of rt_priority never asks for a
\* reschedule.
prio_changed_wrr(t) == UNCHANGED need_resched

\* pick_next_task_wrr on the given run-queue: NULL when nothing is counted,
\* else the head of the list of the first set bit.  A bit whose list is
\* empty makes list_entry() return the list head itself, not a task.
pick_next_task_wrr(q, bm, n) ==
    IF n = 0 \/ bm = {} \/ q[Min(bm)] = <<>> THEN NoWrr ELSE Head(q[Min(bm)])

\* Mutant of task_tick_wrr: a post-decrement test, if (p->wrr.time_slice--),
\* so the slice is stored at 0 and refilled one tick later.
task_tick_wrr_postdec ==
    \/ /\ time_slice[curr] # 0
       /\ time_slice' = [time_slice EXCEPT ![curr] = @ - 1]
       /\ UNCHANGED <<queue, need_resched>>
    \/ /\ time_slice[curr] = 0
       /\ time_slice' = [time_slice EXCEPT ![curr] = TimesliceOf(curr)]
       /\ IF RunListAlone(curr) THEN UNCHANGED <<queue, need_resched>>
          ELSE queue' = requeue_task_wrr(curr) /\ need_resched' = TRUE

\* Mutant of task_tick_wrr: the expired task is requeued but
\* set_tsk_need_resched is missing, so it keeps the CPU.
task_tick_wrr_noresched ==
    LET ts == time_slice[curr] - 1 IN
    \/ /\ ts # 0
       /\ time_slice' = [time_slice EXCEPT ![curr] = ts]
       /\ UNCHANGED <<queue, need_resched>>
    \/ /\ ts = 0
       /\ time_slice' = [time_slice EXCEPT ![curr] = TimesliceOf(curr)]
       /\ queue' = IF RunListAlone(curr) THEN queue ELSE requeue_task_wrr(curr)
       /\ UNCHANGED need_resched

\* task_tick_wrr on rq->curr: count down, and on expiry refill and, unless
\* alone on its list, move to the tail and ask for a reschedule.
task_tick_wrr ==
    LET ts == time_slice[curr] - 1 IN
    \/ /\ ts # 0
       /\ time_slice' = [time_slice EXCEPT ![curr] = ts]
       /\ UNCHANGED <<queue, need_resched>>
    \/ /\ ts = 0
       /\ time_slice' = [time_slice EXCEPT ![curr] = TimesliceOf(curr)]
       /\ RunListAlone(curr)
       /\ UNCHANGED <<queue, need_resched>>
    \/ /\ ts = 0
       /\ time_slice' = [time_slice EXCEPT ![curr] = TimesliceOf(curr)]
       /\ ~RunListAlone(curr)
       /\ queue' = requeue_task_wrr(curr)
       /\ need_resched' = TRUE

\* Mutant of the accounting: pick_next_task_wrr and set_curr_task_wrr do
\* not set exec_start.
Account_nostamp(started) ==
    /\ sum_exec_runtime' =
          IF curr \in Tasks
          THEN [sum_exec_runtime EXCEPT ![curr] = @ + (clock - exec_start[curr])]
          ELSE sum_exec_runtime
    /\ exec_start' = [t \in Tasks |-> IF t = curr THEN clock ELSE exec_start[t]]
    /\ UNCHANGED <<clock, ran>>

\* update_curr_wrr: a WRR rq->curr is charged the clock time since its
\* exec_start, which restarts (delta_exec never falls below 0: the clock
\* never goes back); then pick_next_task_wrr stamps exec_start of the
\* tasks in started, the one it picks.
Account(started) ==
    /\ sum_exec_runtime' =
          IF curr \in Tasks
          THEN [sum_exec_runtime EXCEPT ![curr] = @ + (clock - exec_start[curr])]
          ELSE sum_exec_runtime
    /\ exec_start' = [t \in Tasks |-> IF t \in started \cup {curr} THEN clock ELSE exec_start[t]]
    /\ UNCHANGED <<clock, ran>>

\* set_curr_task_wrr: t becomes rq->curr of the class without a pick.
set_curr_task_wrr(t) ==
    /\ exec_start' = [exec_start EXCEPT ![t] = clock]
    /\ UNCHANGED <<clock, sum_exec_runtime, ran>>

-----------------------------------------------------------------------------
(* The host events.                                                        *)

\* Time passes: rq->clock_task advances while rq->curr runs.
ClockAdvance ==
    /\ clock < MaxClock
    /\ clock' = clock + 1
    /\ ran' = IF curr \in Tasks THEN [ran EXCEPT ![curr] = @ + 1] ELSE ran
    /\ UNCHANGED <<queue, bitmap, wrr_nr_running, leaf_listed, policy, rt_priority,
                   time_slice, curr, need_resched, outranked, exec_start, sum_exec_runtime>>

\* schedule(): put_prev_task_wrr (runtime accounting only), then the first
\* class with a runnable task picks, on the run-queue this step leaves.
Reschedule ==
    /\ curr' = pick_next_task_wrr(queue', bitmap', wrr_nr_running')
    /\ need_resched' = FALSE

\* The history outranked: set to rq->curr by a sched_setscheduler within
\* the class after which rq->curr keeps running below a queued task, and
\* cleared when the CPU changes hands.
RecordOutranked ==
    outranked' =
        IF curr' # curr THEN NoWrr
        ELSE IF /\ curr \in Tasks /\ policy' = policy /\ rt_priority' # rt_priority
                /\ \E u \in Queued' : rt_priority'[u] < rt_priority'[curr]
             THEN curr
             ELSE outranked

\* try_to_wake_up: enqueue (flags without ENQUEUE_HEAD), then
\* check_preempt_curr: the class hook when curr is a WRR task, else a
\* reschedule because WRR is above the fair and idle classes.
Wake(t) ==
    /\ policy[t] = "wrr" /\ ~OnRq(t)
    /\ SetRq(enqueue_task_wrr(Rq, t, rt_priority[t], FALSE))
    /\ IF curr = NoWrr THEN need_resched' = TRUE ELSE check_preempt_curr_wrr(t)
    /\ UNCHANGED <<policy, rt_priority, time_slice, curr, outranked>> /\ UNCHANGED acct

\* rq->curr blocks: schedule() dequeues it and picks the next task.
Sleep ==
    /\ curr \in Tasks
    /\ SetRq(dequeue_task_wrr(Rq, curr, rt_priority[curr]))
    /\ Reschedule
    /\ Account({curr'})
    /\ UNCHANGED <<policy, rt_priority, time_slice>>
    /\ RecordOutranked

\* The timer tick on a WRR rq->curr.  The host reschedules on the way out
\* of the interrupt, so no tick reaches a task with a reschedule pending.
Tick ==
    /\ curr \in Tasks /\ ~need_resched
    /\ task_tick_wrr
    /\ Account({})
    /\ UNCHANGED <<bitmap, wrr_nr_running, leaf_listed, policy, rt_priority, curr>>
    /\ RecordOutranked

\* sched_yield(): yield_task_wrr requeues rq->curr, then schedule().
Yield ==
    /\ curr \in Tasks
    /\ queue' = requeue_task_wrr(curr)
    /\ UNCHANGED <<bitmap, wrr_nr_running, leaf_listed, policy, rt_priority, time_slice>>
    /\ Reschedule
    /\ Account({curr'})
    /\ RecordOutranked

\* The host honours a pending reschedule.
Schedule ==
    /\ need_resched
    /\ UNCHANGED <<queue, bitmap, wrr_nr_running, leaf_listed, policy, rt_priority, time_slice>>
    /\ Reschedule
    /\ Account({curr'})
    /\ RecordOutranked

\* sched_setscheduler(SCHED_WRR, p) on a runnable fair task, or the PI
\* deboost of rt_mutex_setprio (ENQUEUE_HEAD): enqueue, then switched_to.
\* When t is the running fair task, set_curr_task_wrr makes it rq->curr.
SwitchTo(t, p, head, running) ==
    /\ policy[t] = "fair"
    /\ running => curr = NoWrr
    /\ policy' = [policy EXCEPT ![t] = "wrr"]
    /\ rt_priority' = [rt_priority EXCEPT ![t] = p]
    /\ time_slice' = [time_slice EXCEPT ![t] = TimesliceOf(t)]
    /\ SetRq(enqueue_task_wrr(Rq, t, p, head))
    /\ curr' = IF running THEN t ELSE curr
    /\ switched_to_wrr(t, p)
    /\ IF running THEN set_curr_task_wrr(t) ELSE UNCHANGED acct
    /\ RecordOutranked

\* sched_setscheduler(SCHED_NORMAL, p): a queued task is dequeued; when it
\* was rq->curr it keeps running as a fair task and switched_to_fair asks
\* for a reschedule.  A sleeping task only changes policy.
LeaveClass(t) ==
    /\ policy[t] = "wrr"
    /\ policy' = [policy EXCEPT ![t] = "fair"]
    /\ rt_priority' = [rt_priority EXCEPT ![t] = 0]
    /\ \/ /\ OnRq(t)
          /\ SetRq(dequeue_task_wrr(Rq, t, rt_priority[t]))
          /\ IF t = curr THEN curr' = NoWrr /\ need_resched' = TRUE
                         ELSE UNCHANGED <<curr, need_resched>>
          /\ Account({})
       \/ /\ ~OnRq(t)
          /\ UNCHANGED <<queue, bitmap, wrr_nr_running, leaf_listed, curr, need_resched>>
          /\ UNCHANGED acct
    /\ UNCHANGED time_slice
    /\ RecordOutranked

\* sched_setscheduler(SCHED_WRR, p) on a task already in the class: a
\* queued task is dequeued at its old priority and enqueued (flags 0) at the
\* new one; put_prev/set_curr keep a running task rq->curr; the class is
\* unchanged, so check_class_changed only calls prio_changed_wrr.
ChangePrio(t, p) ==
    /\ policy[t] = "wrr"
    /\ rt_priority' = [rt_priority EXCEPT ![t] = p]
    /\ IF OnRq(t)
       THEN /\ SetRq(enqueue_task_wrr(dequeue_task_wrr(Rq, t, rt_priority[t]), t, p, FALSE))
            /\ Account({})
       ELSE UNCHANGED <<queue, bitmap, wrr_nr_running, leaf_listed>> /\ UNCHANGED acct
    /\ prio_changed_wrr(t)
    /\ UNCHANGED <<policy, time_slice, curr>>
    /\ RecordOutranked

Init ==
    /\ queue = [p \in Prios |-> <<>>]
    /\ bitmap = {}
    /\ wrr_nr_running = 0
    /\ leaf_listed = FALSE
    /\ policy = [t \in Tasks |-> "fair"]
    /\ rt_priority = [t \in Tasks |-> 0]
    /\ time_slice = [t \in Tasks |-> TimesliceOf(t)]
    /\ curr = NoWrr
    /\ need_resched = FALSE
    /\ outranked = NoWrr
    /\ clock = 0
    /\ exec_start = [t \in Tasks |-> 0]
    /\ sum_exec_runtime = [t \in Tasks |-> 0]
    /\ ran = [t \in Tasks |-> 0]

Next ==
    \/ \E t \in Tasks : Wake(t)
    \/ Sleep
    \/ Tick
    \/ Yield
    \/ Schedule
    \/ \E t \in Tasks, p \in Prios, head \in HeadFlags, running \in BOOLEAN :
          SwitchTo(t, p, head, running)
    \/ \E t \in Tasks : LeaveClass(t)
    \/ \E t \in Tasks, p \in Prios : ChangePrio(t, p)
    \/ ClockAdvance

Spec == Init /\ [][Next]_vars

\* The timer interrupt keeps arriving while a WRR task runs, and a pending
\* reschedule is honoured on the next return from interrupt: both are
\* weakly fair.  The other events come from tasks and user space and may
\* never happen.
FairSpec == Spec /\ WF_vars(Tick) /\ WF_vars(Schedule)

-----------------------------------------------------------------------------
(* Properties.                                                             *)

TypeOK ==
    /\ queue \in [Prios -> Seq(Tasks)]
    /\ bitmap \subseteq Prios
    /\ wrr_nr_running \in Nat
    /\ leaf_listed \in BOOLEAN
    /\ policy \in [Tasks -> {"fair", "wrr"}]
    /\ rt_priority \in [Tasks -> Prios \cup {0}]
    /\ time_slice \in [Tasks -> Nat \ {0}]
    /\ curr \in Tasks \cup {NoWrr}
    /\ need_resched \in BOOLEAN
    /\ outranked \in Tasks \cup {NoWrr}
    /\ clock \in 0..MaxClock
    /\ exec_start \in [Tasks -> 0..MaxClock]
    /\ sum_exec_runtime \in [Tasks -> Nat] /\ ran \in [Tasks -> Nat]

\* The priority array after every hook: a bit is set exactly when its list
\* is non-empty, wrr_nr_running counts the linked tasks, each WRR task is
\* linked at most once and only on the list of its own rt_priority, the
\* leaf list is linked exactly while the class has tasks, and rq->curr, when
\* a WRR task, is linked (enqueue/dequeue/requeue/tick/switch hooks).
RunQueueConsistent ==
    /\ \A p \in Prios : p \in bitmap <=> queue[p] # <<>>
    /\ wrr_nr_running = Cardinality(Queued)
    /\ wrr_nr_running = FoldFunction(LAMBDA q, acc : Len(q) + acc, 0, queue)
    /\ \A t \in Queued : policy[t] = "wrr" /\ Contains(queue[rt_priority[t]], t)
    /\ leaf_listed <=> wrr_nr_running > 0
    /\ curr \in Tasks => curr \in Queued

\* Every task is charged exactly the time it held the CPU as a WRR task:
\* its sum_exec_runtime, plus for rq->curr the time since exec_start, is
\* the clock time it ran.  update_curr_wrr's charges on dequeue, tick and
\* put_prev are right only if every way a task becomes rq->curr (a pick,
\* a switch of the running task into the class) restarts exec_start.
ChargedRuntime ==
    \A t \in Tasks :
        sum_exec_runtime[t] + (IF t = curr THEN clock - exec_start[t] ELSE 0) = ran[t]

\* A step that links a task more urgent than the running WRR task, which
\* keeps running, requests a reschedule (check_preempt_curr_wrr on wake-up,
\* switched_to_wrr on a class switch).
UrgentArrivalPreempts ==
    [][\A t \in Tasks :
         (/\ ~OnRq(t) /\ OnRq(t)'
          /\ curr \in Tasks /\ curr' = curr
          /\ rt_priority'[t] < rt_priority[curr]) => need_resched']_vars

\* The class implements the abstract ready queue: under the mapping below
\* every step of the hooks and the host is a step of ReadyQueue, so the
\* bitmap and counter that pick_next_task_wrr reads always lead it to the
\* head of the most urgent non-empty list, wake-ups and expiries link at
\* the tail, and the running task is always linked.
RQ == INSTANCE ReadyQueue WITH
        Idle    <- NoWrr,
        members <- {t \in Tasks : policy[t] = "wrr"},
        lists   <- queue,
        running <- curr

ReadyQueueRefined == RQ!Spec

\* A step of sched_setscheduler: some task changes class or rt_priority.
ClassChange ==
    policy' # policy \/ rt_priority' # rt_priority

\* No starvation of the most urgent task: once the host stops changing
\* classes and priorities, a queued WRR task that no queued task outranks
\* eventually runs, leaves the run-queue, or is outranked.  This needs
\* check_preempt_curr_wrr and switched_to_wrr to request the reschedule
\* that task_tick_wrr does not (it requeues only a task that shares its
\* list), and pick_next_task_wrr to serve the most urgent list.
MostUrgentRuns ==
    (<>[][~ClassChange]_vars) =>
        \A t \in Tasks :
            (t \in Queued /\ \A u \in Queued : rt_priority[t] <= rt_priority[u])
                ~> (curr = t \/ t \notin Queued \/ \E u \in Queued : rt_priority[u] < rt_priority[t])

\* A priority change does not strand the CPU: once classes and priorities
\* stop changing, a running task that sched_setscheduler left below a
\* queued task (itself demoted, or the queued one raised) eventually gives
\* up the CPU.  dequeue/enqueue request no reschedule, so this rests on
\* prio_changed_wrr, and on task_tick_wrr, which requeues and reschedules
\* only a task that shares its list.
PrioChangeHandsOver ==
    (<>[][~ClassChange]_vars) => (outranked \in Tasks ~> outranked = NoWrr)
=============================================================================
