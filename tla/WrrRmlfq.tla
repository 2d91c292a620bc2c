------------------------------ MODULE WrrRmlfq ------------------------------
(***************************************************************************)
(* The random multi-level-feedback WRR class of                            *)
(* Bonus/RevisedWRR/wrr_RMLFQ.c on one CPU, driven by the host scheduler   *)
(* core as in WrrBasic.  The list index of a task is                       *)
(* prio = MaxPrio - rt_priority (99 - rt_priority in the code); the lowest *)
(* set bit runs first.  The index range is cut into Bands stages of        *)
(* StageWidth levels (10 and 10 in the code).  Each requeue draws a random *)
(* unsigned r and moves the task one stage down (prio - StageWidth), one   *)
(* stage up (prio + StageWidth) or keeps it, comparing r against           *)
(* thresholds computed from its stage and its counter p->times.            *)
(***************************************************************************)
EXTENDS Integers, Sequences, SequencesExt, FiniteSets

CONSTANTS
    Tasks, NoWrr, Background,
    Prios,              \* rt_priority values sched_setscheduler may give
    Bands, StageWidth,  \* 10 stages of 10 levels in the code
    RandBits,           \* width of the random unsigned int (32)
    ConstWraps,         \* UNSIGNED_MAX * int is computed modulo 2^RandBits
    WRR_FORE_TIMESLICE,
    WRR_BACK_TIMESLICE

MaxPrio == Bands * StageWidth - 1
Levels == 0..MaxPrio
UNSIGNED_MAX == 2^RandBits - 1
Draws == 0..UNSIGNED_MAX

ASSUME /\ Bands \in Nat \ {0, 1} /\ StageWidth \in Nat \ {0}
       /\ Prios \subseteq Levels
       /\ NoWrr \notin Tasks /\ Background \subseteq Tasks
       /\ RandBits \in Nat \ {0} /\ ConstWraps \in BOOLEAN
       /\ WRR_FORE_TIMESLICE \in Nat \ {0} /\ WRR_BACK_TIMESLICE \in Nat \ {0}

VARIABLES
    queue, bitmap, wrr_nr_running, leaf_listed, policy, rt_priority,
    time_slice, curr, need_resched,
    times           \* p->times: requeues spent in the current stage

vars == <<queue, bitmap, wrr_nr_running, leaf_listed, policy, rt_priority,
          time_slice, curr, need_resched, times>>

-----------------------------------------------------------------------------
OnRq(t) == \E p \in Levels : Contains(queue[p], t)
Queued == {t \in Tasks : OnRq(t)}

\* wrr_task_prio / wrr_se_prio: the list index, 99 - rt_priority.
wrr_task_prio(t) == MaxPrio - rt_priority[t]

\* wrr_task_prio(rq->curr): a fair or idle task has rt_priority 0.
CurrPrio == IF curr = NoWrr THEN MaxPrio ELSE wrr_task_prio(curr)

IsBackground(t) == t \in Background

\* C division truncates toward zero.
CDiv(a, b) == IF a >= 0 THEN a \div b ELSE -((-a) \div b)

\* (k * UNSIGNED_MAX / 10) for the int k of the code.  Where the constant
\* 4294967295 is an unsigned long of 32 bits (gnu89 on a 32-bit target),
\* k is converted to unsigned and the product wraps; where it is a 64-bit
\* long the arithmetic is exact and signed.
Threshold(k) ==
    IF ConstWraps
    THEN (((k % 2^RandBits) * UNSIGNED_MAX) % 2^RandBits) \div 10
    ELSE CDiv(k * UNSIGNED_MAX, 10)

\* Mutant of stage_target: the demotion test r <= threshold.
stage_target_le(r, s, prio) ==
    CASE r <= Threshold(s + prio \div (2 * StageWidth))
            -> IF prio > StageWidth - 1 THEN prio - StageWidth ELSE prio
      [] r > Threshold(5 - s + prio \div (2 * StageWidth))
            -> IF prio < (Bands - 1) * StageWidth THEN prio + StageWidth ELSE prio
      [] OTHER -> prio

\* The index requeue_task_wrr moves a task at index prio with p->times = s
\* to for the draw r: one stage down below the first threshold, one stage
\* up above the second, saturating at the first and last stage.
stage_target(r, s, prio) ==
    CASE r < Threshold(s + prio \div (2 * StageWidth))
            -> IF prio > StageWidth - 1 THEN prio - StageWidth ELSE prio
      [] r > Threshold(5 - s + prio \div (2 * StageWidth))
            -> IF prio < (Bands - 1) * StageWidth THEN prio + StageWidth ELSE prio
      [] OTHER -> prio

\* Mutant of requeue_task_wrr: the old level's bit is never cleared.
requeue_task_wrr_keepbit(t, r) ==
    LET prio   == wrr_task_prio(t)
        target == stage_target(r, times[t], prio)
        stays  == /\ r >= Threshold(times[t] + prio \div (2 * StageWidth))
                  /\ r <= Threshold(5 - times[t] + prio \div (2 * StageWidth))
    IN /\ times' = [times EXCEPT ![t] = IF stays THEN @ + 1 ELSE 1]
       /\ queue' = [queue EXCEPT ![prio] = Remove(@, t), ![target] = Append(@, t)]
       /\ bitmap' = bitmap \cup {target}
       /\ rt_priority' = [rt_priority EXCEPT ![t] = MaxPrio - target]

\* Mutant of requeue_task_wrr: a migration resets p->times to 0.
requeue_task_wrr_times0(t, r) ==
    LET prio   == wrr_task_prio(t)
        target == stage_target(r, times[t], prio)
        stays  == /\ r >= Threshold(times[t] + prio \div (2 * StageWidth))
                  /\ r <= Threshold(5 - times[t] + prio \div (2 * StageWidth))
        rest   == Remove(queue[prio], t)
    IN /\ times' = [times EXCEPT ![t] = IF stays THEN @ + 1 ELSE 0]
       /\ queue' = [queue EXCEPT ![prio] = rest, ![target] = Append(@, t)]
       /\ bitmap' = IF target # prio /\ rest = <<>>
                    THEN (bitmap \ {prio}) \cup {target}
                    ELSE bitmap \cup {target}
       /\ rt_priority' = [rt_priority EXCEPT ![t] = MaxPrio - target]

\* Mutant of requeue_task_wrr: list_add instead of list_add_tail, the task
\* goes to the head of its target list.
requeue_task_wrr_head(t, r) ==
    LET prio   == wrr_task_prio(t)
        target == stage_target(r, times[t], prio)
        stays  == /\ r >= Threshold(times[t] + prio \div (2 * StageWidth))
                  /\ r <= Threshold(5 - times[t] + prio \div (2 * StageWidth))
        rest   == Remove(queue[prio], t)
    IN /\ times' = [times EXCEPT ![t] = IF stays THEN @ + 1 ELSE 1]
       /\ queue' = [queue EXCEPT ![prio] = rest, ![target] = <<t>> \o @]
       /\ bitmap' = IF target # prio /\ rest = <<>>
                    THEN (bitmap \ {prio}) \cup {target}
                    ELSE bitmap \cup {target}
       /\ rt_priority' = [rt_priority EXCEPT ![t] = MaxPrio - target]

\* requeue_task_wrr(rq, t, 0) with the draw r: the move, the bitmap update,
\* the new rt_priority and the times counter (reset on a migration, also a
\* saturated one; incremented when the draw falls between the thresholds).
requeue_task_wrr(t, r) ==
    LET prio   == wrr_task_prio(t)
        target == stage_target(r, times[t], prio)
        stays  == /\ r >= Threshold(times[t] + prio \div (2 * StageWidth))
                  /\ r <= Threshold(5 - times[t] + prio \div (2 * StageWidth))
        rest   == Remove(queue[prio], t)
    IN /\ times' = [times EXCEPT ![t] = IF stays THEN @ + 1 ELSE 1]
       /\ queue' = [queue EXCEPT ![prio] = rest, ![target] = Append(@, t)]
       /\ bitmap' = IF target # prio /\ rest = <<>>
                    THEN (bitmap \ {prio}) \cup {target}
                    ELSE bitmap \cup {target}
       /\ rt_priority' = [rt_priority EXCEPT ![t] = MaxPrio - target]

\* The run-queue as one value, as in WrrBasic.
Rq == [queue |-> queue, bitmap |-> bitmap, nr |-> wrr_nr_running, leaf |-> leaf_listed]

SetRq(r) ==
    /\ queue' = r.queue
    /\ bitmap' = r.bitmap
    /\ wrr_nr_running' = r.nr
    /\ leaf_listed' = r.leaf

\* enqueue_task_wrr at list index p.
enqueue_task_wrr(r, t, p, head) ==
    [queue  |-> [r.queue EXCEPT ![p] = IF head THEN <<t>> \o @ ELSE Append(@, t)],
     bitmap |-> r.bitmap \cup {p},
     nr     |-> r.nr + 1,
     leaf   |-> r.nr = 0 \/ r.leaf]

\* dequeue_task_wrr of a task at list index p.
dequeue_task_wrr(r, t, p) ==
    LET rest == Remove(r.queue[p], t) IN
    [queue  |-> [r.queue EXCEPT ![p] = rest],
     bitmap |-> IF rest = <<>> THEN r.bitmap \ {p} ELSE r.bitmap,
     nr     |-> r.nr - 1,
     leaf   |-> r.nr - 1 # 0 /\ r.leaf]

\* check_preempt_curr_wrr: the woken task has the lower index.
check_preempt_curr_wrr(t) ==
    need_resched' = (need_resched \/ wrr_task_prio(t) < wrr_task_prio(curr))

\* switched_to_wrr(rq, t) for a task joining with rt_priority p; rq->curr
\* is read after the switch, so a running task never preempts itself.
switched_to_wrr(t, p) ==
    need_resched' = (need_resched \/ (curr' # t /\ MaxPrio - p < CurrPrio))

\* prio_changed_wrr is empty.
prio_changed_wrr(t) == UNCHANGED need_resched

pick_next_task_wrr(q, bm, n) ==
    IF n = 0 \/ bm = {} \/ q[Min(bm)] = <<>> THEN NoWrr ELSE Head(q[Min(bm)])

\* The refill of task_tick_wrr: a foreground task gets the foreground
\* constant times its stage + 1, a background task the background constant.
TimesliceOf(t) ==
    IF IsBackground(t) THEN WRR_BACK_TIMESLICE
    ELSE WRR_FORE_TIMESLICE * (wrr_task_prio(t) \div StageWidth + 1)

\* get_rr_interval_wrr(rq, t): the interval sched_rr_get_interval reports.
get_rr_interval_wrr(t) ==
    IF IsBackground(t) THEN WRR_BACK_TIMESLICE
    ELSE WRR_FORE_TIMESLICE * (wrr_task_prio(t) \div StageWidth + 1)

\* Mutant of task_tick_wrr: set_tsk_need_resched is missing after the
\* requeue, so the expired task keeps the CPU wherever it migrated.
task_tick_wrr_noresched ==
    LET ts == time_slice[curr] - 1 IN
    \/ /\ ts # 0
       /\ time_slice' = [time_slice EXCEPT ![curr] = ts]
       /\ UNCHANGED <<queue, bitmap, rt_priority, times, need_resched>>
    \/ /\ ts = 0
       /\ time_slice' = [time_slice EXCEPT ![curr] = TimesliceOf(curr)]
       /\ UNCHANGED need_resched
       /\ \E r \in Draws : requeue_task_wrr(curr, r)

\* task_tick_wrr on rq->curr: count down; on expiry refill from the current
\* stage, ask for a reschedule and requeue with a fresh draw.
task_tick_wrr ==
    LET ts == time_slice[curr] - 1 IN
    \/ /\ ts # 0
       /\ time_slice' = [time_slice EXCEPT ![curr] = ts]
       /\ UNCHANGED <<queue, bitmap, rt_priority, times, need_resched>>
    \/ /\ ts = 0
       /\ time_slice' = [time_slice EXCEPT ![curr] = TimesliceOf(curr)]
       /\ need_resched' = TRUE
       /\ \E r \in Draws : requeue_task_wrr(curr, r)

-----------------------------------------------------------------------------
(* The host events, as in WrrBasic.                                        *)

Reschedule ==
    /\ curr' = pick_next_task_wrr(queue', bitmap', wrr_nr_running')
    /\ need_resched' = FALSE

Wake(t) ==
    /\ policy[t] = "wrr" /\ ~OnRq(t)
    /\ SetRq(enqueue_task_wrr(Rq, t, wrr_task_prio(t), FALSE))
    /\ IF curr = NoWrr THEN need_resched' = TRUE ELSE check_preempt_curr_wrr(t)
    /\ UNCHANGED <<policy, rt_priority, time_slice, curr, times>>

Sleep ==
    /\ curr \in Tasks
    /\ SetRq(dequeue_task_wrr(Rq, curr, wrr_task_prio(curr)))
    /\ Reschedule
    /\ UNCHANGED <<policy, rt_priority, time_slice, times>>

Tick ==
    /\ curr \in Tasks /\ ~need_resched
    /\ task_tick_wrr
    /\ UNCHANGED <<wrr_nr_running, leaf_listed, policy, curr>>

\* sched_yield(): yield_task_wrr is requeue_task_wrr, draw included.
Yield ==
    /\ curr \in Tasks
    /\ \E r \in Draws :
          /\ requeue_task_wrr(curr, r)
          /\ UNCHANGED <<wrr_nr_running, leaf_listed, policy, time_slice>>
          /\ Reschedule

Schedule ==
    /\ need_resched
    /\ UNCHANGED <<queue, bitmap, wrr_nr_running, leaf_listed, policy,
                   rt_priority, time_slice, times>>
    /\ Reschedule

SwitchTo(t, p, head, running) ==
    /\ policy[t] = "fair"
    /\ running => curr = NoWrr
    /\ policy' = [policy EXCEPT ![t] = "wrr"]
    /\ rt_priority' = [rt_priority EXCEPT ![t] = p]
    /\ time_slice' = [time_slice EXCEPT ![t] = TimesliceOf(t)']
    /\ SetRq(enqueue_task_wrr(Rq, t, MaxPrio - p, head))
    /\ curr' = IF running THEN t ELSE curr
    /\ switched_to_wrr(t, p)
    /\ UNCHANGED <<times>>

LeaveClass(t) ==
    /\ policy[t] = "wrr"
    /\ policy' = [policy EXCEPT ![t] = "fair"]
    /\ rt_priority' = [rt_priority EXCEPT ![t] = 0]
    /\ \/ /\ OnRq(t)
          /\ SetRq(dequeue_task_wrr(Rq, t, wrr_task_prio(t)))
          /\ IF t = curr THEN curr' = NoWrr /\ need_resched' = TRUE
                         ELSE UNCHANGED <<curr, need_resched>>
       \/ /\ ~OnRq(t)
          /\ UNCHANGED <<queue, bitmap, wrr_nr_running, leaf_listed, curr, need_resched>>
    /\ UNCHANGED <<time_slice, times>>

\* sched_setscheduler(SCHED_WRR, p) on a task of the class: dequeued at its
\* old index and enqueued at the tail of 99 - p when queued; p->times and
\* the slice are left alone; then only the empty prio_changed_wrr.
ChangePrio(t, p) ==
    /\ policy[t] = "wrr"
    /\ rt_priority' = [rt_priority EXCEPT ![t] = p]
    /\ IF OnRq(t)
       THEN SetRq(enqueue_task_wrr(dequeue_task_wrr(Rq, t, wrr_task_prio(t)), t, MaxPrio - p, FALSE))
       ELSE UNCHANGED <<queue, bitmap, wrr_nr_running, leaf_listed>>
    /\ prio_changed_wrr(t)
    /\ UNCHANGED <<policy, time_slice, curr, times>>

Init ==
    /\ queue = [p \in Levels |-> <<>>]
    /\ bitmap = {}
    /\ wrr_nr_running = 0
    /\ leaf_listed = FALSE
    /\ policy = [t \in Tasks |-> "fair"]
    /\ rt_priority = [t \in Tasks |-> 0]
    /\ time_slice = [t \in Tasks |-> WRR_FORE_TIMESLICE]
    /\ curr = NoWrr
    /\ need_resched = FALSE
    /\ times = [t \in Tasks |-> 1]

Next ==
    \/ \E t \in Tasks : Wake(t)
    \/ Sleep
    \/ Tick
    \/ Yield
    \/ Schedule
    \/ \E t \in Tasks, p \in Prios, head \in BOOLEAN, running \in BOOLEAN :
          SwitchTo(t, p, head, running)
    \/ \E t \in Tasks : LeaveClass(t)
    \/ \E t \in Tasks, p \in Prios : ChangePrio(t, p)

Spec == Init /\ [][Next]_vars

\* Weak fairness of the timer tick and of a pending reschedule, as in
\* WrrBasic; user-space events need not happen.
FairSpec == Spec /\ WF_vars(Tick) /\ WF_vars(Schedule)

-----------------------------------------------------------------------------
(* Properties.                                                             *)

TypeOK ==
    /\ queue \in [Levels -> Seq(Tasks)]
    /\ bitmap \subseteq Levels
    /\ wrr_nr_running \in Nat
    /\ leaf_listed \in BOOLEAN
    /\ policy \in [Tasks -> {"fair", "wrr"}]
    /\ rt_priority \in [Tasks -> Levels]
    /\ time_slice \in [Tasks -> Nat \ {0}]
    /\ curr \in Tasks \cup {NoWrr}
    /\ need_resched \in BOOLEAN
    /\ times \in [Tasks -> Nat \ {0}]

\* The priority array after every hook, stage migrations included: a bit is
\* set exactly when its list is non-empty, wrr_nr_running counts the linked
\* tasks, each is linked once and on the list of its current
\* 99 - rt_priority, the leaf list is linked exactly while the class has
\* tasks, and a running WRR task is linked (requeue_task_wrr's bitmap
\* updates, enqueue/dequeue).
RunQueueConsistent ==
    /\ \A p \in Levels : p \in bitmap <=> queue[p] # <<>>
    /\ wrr_nr_running = Cardinality(Queued)
    /\ wrr_nr_running = FoldFunction(LAMBDA q, acc : Len(q) + acc, 0, queue)
    /\ \A t \in Queued : policy[t] = "wrr" /\ Contains(queue[wrr_task_prio(t)], t)
    /\ leaf_listed <=> wrr_nr_running > 0
    /\ curr \in Tasks => curr \in Queued

\* The move the design prescribes for a draw r of a task at index prio with
\* counter s, in the integers: one stage down when r < (s + stage/2) * RANGE / 10,
\* else one stage up when r > (5 - s + stage/2) * RANGE / 10, saturating at
\* the first and last stage.
DesignMove(r, s, prio) ==
    LET half == (prio \div StageWidth) \div 2 IN
    CASE r < ((s + half) * UNSIGNED_MAX) \div 10
            -> IF prio >= StageWidth THEN -StageWidth ELSE 0
      [] r > ((5 - s + half) * UNSIGNED_MAX) \div 10
            -> IF prio < (Bands - 1) * StageWidth THEN StageWidth ELSE 0
      [] OTHER -> 0

\* For every queued task and every draw, requeue_task_wrr's threshold
\* arithmetic moves the task where the design's thresholds prescribe.
MigrationFollowsThresholds ==
    \A t \in Queued, r \in Draws :
        LET prio == wrr_task_prio(t) IN
        stage_target(r, times[t], prio) = prio + DesignMove(r, times[t], prio)

\* A tick that refills the running task's slice gives it the slice of the
\* stage it is requeued to, the interval get_rr_interval_wrr then reports
\* (task_tick_wrr's refill and requeue).
RefillUsesNewStage ==
    [][Tick /\ time_slice'[curr] # time_slice[curr] - 1
         => time_slice'[curr] = get_rr_interval_wrr(curr)']_vars

\* The class implements the abstract ready queue over its list indices:
\* every migration, wake-up and expiry links at the tail, and whenever the
\* CPU is handed out the bitmap leads pick_next_task_wrr to the head of the
\* lowest non-empty index.
RQ == INSTANCE ReadyQueue WITH
        Prios   <- Levels,
        Idle    <- NoWrr,
        members <- {t \in Tasks : policy[t] = "wrr"},
        lists   <- queue,
        running <- curr

ReadyQueueRefined == RQ!Spec

\* A step of sched_setscheduler: a class switch or a priority change.
ClassChange ==
    \E t \in Tasks :
        \/ LeaveClass(t)
        \/ \E p \in Prios : ChangePrio(t, p)
        \/ \E p \in Prios, head, running \in BOOLEAN : SwitchTo(t, p, head, running)

\* No starvation of the most urgent task: once the host stops changing
\* classes and priorities, a queued task with the lowest list index
\* eventually runs, leaves the run-queue or is outranked, whatever stages
\* the random draws move the running task to (check_preempt_curr_wrr,
\* switched_to_wrr, and the reschedule task_tick_wrr requests on every
\* expiry).
MostUrgentRuns ==
    (<>[][~ClassChange]_vars) =>
        \A t \in Tasks :
            (t \in Queued /\ \A u \in Queued : wrr_task_prio(t) <= wrr_task_prio(u))
                ~> (curr = t \/ t \notin Queued \/ \E u \in Queued : wrr_task_prio(u) < wrr_task_prio(t))
=============================================================================
