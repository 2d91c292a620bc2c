# TLA+ models of the WRR Linux scheduling classes

This directory holds TLC-checkable models of the three scheduling classes in `src/Source Code`:

- the basic weighted round robin (`Basic/src/kernel/wrr_basic.c`);
- the randomised multi-level-feedback variant (`Bonus/RevisedWRR/wrr_RMLFQ.c`);
- the group-hierarchy variant (`Bonus/RevisedWRR/wrr_group.c`);

and of the two benchmark drivers that exercise them (`Bonus/benchmark_cpubound/jni/cpu_bound.c`, `Bonus/benchmark_mixed/jni/mixed.c`).

## The system

Each file is a Linux 3.4 `sched_class`. Its parts and how they interact:

- **The host scheduler core** (not in the repository) calls the hooks with the run-queue lock held, on one CPU at a time. It calls them on these events:
  - wake-up: `enqueue_task` + `check_preempt_curr`;
  - block: `dequeue_task` + `schedule()`;
  - timer tick: `task_tick`;
  - `sched_yield`: `yield_task` + `schedule()`;
  - `schedule()`: `put_prev_task` + `pick_next_task`;
  - `sched_setscheduler` into the class: `enqueue_task` + `switched_to`;
  - `sched_setscheduler` out of the class: `dequeue_task`;
  - `sched_setscheduler` within the class (a new `rt_priority`): `dequeue_task` + `enqueue_task`, then `prio_changed`, which is empty in all three files;
  - `fork()`: `task_fork`, then `enqueue_task` + `check_preempt_curr`;
  - cgroup creation and destruction: `alloc_wrr_sched_group` and `free_wrr_sched_group` (group variant).
- **The priority array** (`wrr_rq->active`) has one FIFO list per level and a bitmap of the non-empty levels. `wrr_nr_running` counts the linked entries, and the leaf-list link is kept while the array is non-empty. `pick_next` takes the head of the first set bit.
- **Time slices**: `task_tick` decrements `p->wrr.time_slice`. At 0 it refills from a foreground or background constant, decided by character 1 of the task group's cgroup path. If other tasks share the list, it moves the task to the tail and requests a reschedule. The running task stays linked on its list.
- **RMLFQ migration**: the list index is `99 - rt_priority`. `requeue_task_wrr` draws a random `r` and moves the task one stage (10 levels) down or up, or keeps it there. The choice compares `r` with two thresholds built from the stage and `p->times`. The refill grows with the stage.
- **Benchmark drivers**: user-space programs. `main` parses its arguments, moves itself to SCHED_FIFO, SCHED_RR or SCHED_WRR at the maximum priority, forks `child_count` children that inherit the policy, and reaps them in fork order with `waitpid`. A `cpu_bound` child runs `calcE` and exits. A `mixed` child runs `CHILD_ITERATIONS` rounds of `CPU()` and `IO()`. Each `IO()` reopens the source file and copies `transfer_size / CHILD_ITERATIONS` bytes in reads of `block_size`.
- **Group hierarchy**: every task group has a run-queue and an entity. The hooks walk the ancestor chain of entities: enqueue bottom-up, dequeue top-down and then relink. A `highest_prio` cache is kept per run-queue. `pick_next` descends through group entities to a task.

## Modules

| Module | Models | State (VARIABLES) | Actions |
|---|---|---|---|
| `ReadyQueue` | the abstract ready queue every class promises (spec §4) | `members`, `lists` (one FIFO per level), `running` | `Join`, `Leave`, `Arrive`, `Block`, `Rotate`, `Move`, `Dispatch` |
| `WrrBasic` | `wrr_basic.c` | `queue`, `bitmap`, `wrr_nr_running`, `leaf_listed`; per task `policy`, `rt_priority`, `time_slice`; `curr`, `need_resched`; a history `outranked` (the running task a priority change left below a queued task); `clock`, `exec_start`, `sum_exec_runtime` and a history `ran` (time as `curr`) | `Wake`, `Sleep`, `Tick`, `Yield`, `Schedule`, `SwitchTo`, `LeaveClass`, `ChangePrio`, `ClockAdvance` |
| `WrrRmlfq` | `wrr_RMLFQ.c` | as `WrrBasic`, plus `times` (`p->times`) | the same; `Tick` and `Yield` choose the random draw with `\E r \in Draws` |
| `WrrGroup` | `wrr_group.c`, scheduling hooks | `wrr_rq`, a function from run-queues (root and one per group) to their records; per task `policy`, `rt_priority`, `time_slice`; `curr`, `need_resched`; a history counter `waited` (ticks given to a same-level peer while a task waits) | the same, plus `Fork` |
| `WrrGroupMem` | `wrr_group.c`, `alloc_wrr_sched_group` / `free_wrr_sched_group` | `heap` (live allocations), `live` groups, `tg->wrr_rq`, `tg->wrr_se` and their slot 0, a creation count per group | `Create(g, fail)` with a failure at any `kzalloc`, `Destroy(g)` |
| `Bench` | `cpu_bound.c` and `mixed.c` | `args` (the parsed arguments and the source file's length), main's `pc` and loop counter `i`, the `children` array; per pid `cpc` (where the child is), `status`, `round`, `off` (read offset), `tot_bytes` | `Start(ok)` (parser + `sched_setscheduler`), `Fork(ok)`, `Wait`; per child `Cpu`, `OpenFiles(ok)`, `CopyBlock(ok)`, `CloseFiles(ok)`; `ok = FALSE` is the failing call and ends the process in `exit(1)` |
| `MC_*` | instances for TLC | model values for tasks and groups | |

How the modules are built:

- **Hooks are operators named after the C functions.** Examples: `enqueue_task_wrr`, `dequeue_task_wrr`, `requeue_task_wrr`, `check_preempt_curr_wrr`, `switched_to_wrr`, `pick_next_task_wrr`, `task_tick_wrr`. In `WrrGroup` the run-queue hooks are pure operators from one `wrr_rq` value to the next. The chain walks are `FoldLeft` over the chain. `Chain`, `TopGroup` and the pick descent `Descend` are `RECURSIVE`.
- **The run-queue hooks are pure operators** from one run-queue value to the next (`Rq`/`SetRq` in the flat modules), so that a host event calling two of them, such as `ChangePrio` (dequeue at the old priority, enqueue at the new), composes them in the code's order.
- **Refinement:** each class module instantiates `ReadyQueue` with `INSTANCE ... WITH`. The refinement mapping is `lists <- queue` (the root run-queue's lists in `WrrGroup`), `running <- curr`, `members <- {t : policy[t] = "wrr"}` and `Idle <- NoWrr`. `ReadyQueueRefined == RQ!Spec` is checked as a PROPERTY. It says that the bitmap, counter and pick descent only ever hand the CPU to the head of the most urgent non-empty list, and that every list change is a tail link, a head link on a class switch, an unlink or a move to a tail.
- **Host actions compose the hooks the core calls for one event.** The host is modelled from the hook contract, because its code is not in the repository; PROJECT.json marks these definitions spec_modelled.
- **Guards:**
  - A tick needs a WRR `curr` and no reschedule pending, because the core reschedules on the return from the interrupt.
  - `curr = NoWrr` stands for a running fair or idle task. Its `rt_priority` is 0, which is what the hooks read.
- **What is abstracted:**
  - The runtime accounting of `update_curr_wrr`, `put_prev_task_wrr` and `set_curr_task_wrr` in `WrrRmlfq` and `WrrGroup`. No decision reads it, and the lines are the same as in `wrr_basic.c`, where `WrrBasic` models them: `Account(started)` is `update_curr_wrr` followed by the `exec_start` stamp of `pick_next_task_wrr`, and `set_curr_task_wrr(t)` is the stamp of a task switched into the class while running.
  - The path string of `task_group_path`, reduced to the foreground/background predicate it decides.
  - `printk` output.
- **RMLFQ scaling:**
  - `Bands` x `StageWidth` levels stand for 10 x 10.
  - Draws are `RandBits`-bit numbers.
  - `Threshold` computes `k * UNSIGNED_MAX / 10` either exactly or modulo `2^RandBits`, selected by `ConstWraps`. The modulo form is what a 32-bit gnu89 build does, where `4294967295` is an `unsigned long`.
- **`WrrGroup` models a uniprocessor build.** `wrr_rq_of_se` calls `task_rq()` on an uninitialised local. On UP that is always `cpu_rq(0)`, so every entity resolves to the root run-queue. On SMP the read is undefined and not modelled.
- **Other `WrrGroup` constants:**
  - `GroupSePrio` is what `container_of` reads for a group entity.
  - `GroupSeSlice` is the kzalloc'd 0 of the group entity's slice.
  - `SliceBits` is the width of `time_slice`; the decrement wraps modulo `2^SliceBits`. The kernel builds with `-fno-strict-overflow`.

## Runs

| Run | cfg | Expect | Shows |
|---|---|---|---|
| basic_consistency | `MC_WrrBasic.cfg` | pass | `TypeOK`, `RunQueueConsistent` (bitmap ⇔ non-empty list, count = linked tasks, each task on the list of its own `rt_priority`, leaf list ⇔ non-empty, running WRR task linked), `ChargedRuntime` (`sum_exec_runtime`, plus the running time since `exec_start` for `curr`, equals the clock time the task ran), `ReadyQueueRefined` |
| basic_rr | `MC_WrrBasic_rr.cfg` | violation | `PrioChangeHandsOver` under `FairSpec`: `sched_setscheduler` demotes the running task below a queued one, leaving it alone on its new level. The empty `prio_changed_wrr` requests no reschedule, and `task_tick_wrr` never requeues a lone task, so the more urgent task waits forever. TLC's trace ends in stuttering: the lone background task's ticks refill its one-tick slice to the same value, so they change nothing |
| basic_starve | `MC_WrrBasic_live.cfg` | violation | `MostUrgentRuns` under `FairSpec`: a task switched in while a fair or idle task runs waits forever, because `switched_to_wrr` compares with `rt_priority` 0 |
| basic_wake | `MC_WrrBasic_wake.cfg` | violation | `UrgentArrivalPreempts`: `check_preempt_curr_wrr` uses `>` while pick serves the lowest value |
| rmlfq_core | `MC_WrrRmlfq.cfg` | pass | under `FairSpec`: `TypeOK`, `RunQueueConsistent`, `MigrationFollowsThresholds` with exact arithmetic, `MostUrgentRuns`, `ReadyQueueRefined` |
| rmlfq_wrap | `MC_WrrRmlfq_wrap.cfg` | violation | `MigrationFollowsThresholds`: the wrapped threshold product moves tasks against the design |
| rmlfq_refill | `MC_WrrRmlfq_refill.cfg` | violation | `RefillUsesNewStage`: the refill uses the stage before the migration |
| group_consistency | `MC_WrrGroup.cfg` | pass | `RunQueueConsistent`: on the root run-queue, bitmap, lists, count and leaf list agree, `highest_prio` = first set bit, and no entity is on two run-queues. The clauses on group run-queues hold trivially on this build, where those run-queues stay empty (see group_members). `ReadyQueueRefined` on the root run-queue |
| group_members | `MC_WrrGroup_members.cfg` | violation | `GroupMembership`: group entities are never linked, so the hierarchy collapses |
| group_fork_rr | `MC_WrrGroup_forkrr.cfg` | violation | `RoundRobinWait`: a forked child inherits the group entity's slice 0, which wraps |
| group_mem | `MC_WrrGroupMem.cfg` | violation | `NoLeak`: `free_wrr_sched_group` frees only the pointer arrays, so the `wrr_rq` and entity of every destroyed group leak; a failed allocation leaks nothing |
| bench | `MC_Bench.cfg` | pass | under `FairSpec`, over valid and invalid arguments and any failing call: `TypeOK`; `ReapedOnReturn` (when `main` returns 0 it has forked `child_count` children and reaped every one); `Terminates` (when every read of the copy loop returns data, every process ends) |

`Terminates` is conditional on `ReadsProgress`: `block_size > 0` and a source file at least one round long. Without that condition, the `mixed` copy loop reads 0 bytes forever and never leaves. The parser accepts `block_size` 0 (line 178). The model contains that behaviour, and the README and hazard list record it, but no run reports it, for lack of a run slot. The RMLFQ `yield_task_wrr` divergence had a violation run (`YieldKeepsPriority`) in an earlier version; it gave up its slot to `bench`. It is visible in one step of the code: yield goes through `requeue_task_wrr`, which may migrate the caller.

`PrioChangeHandsOver` has the same antecedent as `MostUrgentRuns`, below. The step that sets the history `outranked` is a priority change, and a priority change may come before the suffix in which nothing changes. The property is about priority changes only: a wake-up or class switch that leaves a more urgent task queued does not set `outranked`, and those cases are `basic_wake` and `basic_starve`. No source promises round robin across priority changes of the running task, so the project makes no round-robin claim for the basic class.

`MostUrgentRuns` is a liveness property. It has the form `(<>[][~ClassChange]_vars) => (ready ~> served)`. Once the host stops changing classes and priorities, a queued task that no queued task outranks eventually runs, leaves the run-queue, or is outranked. The antecedent is needed because repeated head enqueues (PI deboosts) or priority changes may legitimately overtake a waiting task forever.

Every property of a passing run has a mutant in PROJECT.json: a plausible bug in the mapped definition that TLC catches under the run's cfg. The mutants are:
- the lost `__clear_bit`;
- the post-decrement tick;
- `list_move` instead of `list_move_tail` in the requeue (all three modules);
- the `times` reset to 0;
- the `<=` threshold test;
- the missing `set_tsk_need_resched` on expiry (RMLFQ);
- the `highest_prio` that is not recomputed;
- `pick_next_task_wrr` and `set_curr_task_wrr` without their `exec_start` stamp;
- a failed `write` whose -1 is added to `tot_bytes`, the wait loop that starts from the fork loop's final counter, and the copy loop run while `tot_bytes <=` the round size (benchmark).

## Bounds

- **WrrBasic:**
  - Three tasks, one of them background, and two levels.
  - Slices of 2 and 1 ticks.
  - Head and tail class switches.
  - Symmetry over the two foreground tasks in the safety runs. The liveness runs have none.
  - `MaxClock` 1 in the consistency run: the clock advances once, which is enough to have a task charged for time it spent waiting if a stamp is missing. The other runs use 0.
  - This reaches every hook outcome: a requeue behind a peer and an expiry alone; a switch while fair, idle or WRR runs; an exit of a running or queued task.
- **WrrRmlfq:**
  - Two tasks.
  - Three stages of two levels, 4-bit draws and slices of 1 tick.
  - `Prios = {1, 4}` start the tasks in different stages. Every draw is enumerated, so every stay, up and down move, and both saturations, happen.
- **WrrGroupMem:**
  - `g2` is nested in `g1`; each group is created at most twice, and every `kzalloc` failure site is enumerated.
  - The host may stop creating and destroying groups at any time, so a state with nothing left to do is not a deadlock (`CHECK_DEADLOCK FALSE`).
- **WrrGroup:**
  - `t1` is in the root group, and `t2` and `t3` are in `g2`, nested in the background group `g1`. This gives chains of length 1 and 3.
  - Two levels and a 2-bit `time_slice`.
- **Bench:**
  - Both programs, two pids, `MAX_CHILDREN` 2 and `CHILD_ITERATIONS` 2 (100 in the code).
  - Arguments: `child_count` in {0, 1, 2, 3}, so both range checks fail somewhere. `block_size` in {0, 1, 2} and `transfer_size` in {1, 4}. This gives a rejected `transfer_size < block_size`, rounds of 0 bytes (`1 / 2`) and rounds of 2 bytes that need one or two reads. Source files of 1, 2 or 3 bytes, so a file is shorter than, equal to, or longer than a round.
  - Termination is reached, so a terminal state stutters (`Finished`), and a stuck process is still reported as a deadlock.
  - No symmetry, because the run checks liveness.
- **Run time:** each passing run finishes in seconds.

## Fairness

`FairSpec == Spec /\ WF_vars(Tick) /\ WF_vars(Schedule)` in `WrrBasic` and `WrrRmlfq`. The liveness runs use it, and the safety runs use `Spec`.
- **`Tick`:** the timer interrupt keeps arriving while a WRR task runs.
- **`Schedule`:** a set `need_resched` is honoured on the next return from interrupt or preemption point.
- **Everything else** comes from tasks or user space: wake-ups, blocking, yields, `sched_setscheduler` and fork. None of it is required to happen.
- **Bench** assumes weak fairness for each process's successful steps: `WF_vars(Start(TRUE) \/ Fork(TRUE) \/ Wait)` and `WF_vars(Child(c, TRUE))`. All its processes share one real-time policy. Each of them blocks, in `waitpid` or in I/O, or ends after finitely many steps, so each runnable one is eventually run. Failures are not fair: no call is assumed ever to fail, and a read that returns 0 is a stutter that fairness cannot force past.
- **No fair-class events are modelled.** Nothing reschedules a running fair or idle task except a WRR wake-up or a class exit. In Linux 3.4, CFS checks tick preemption only when more than one fair task is runnable, and the idle loop waits for `need_resched`.

## Not modelled, and what is left

- **SMP behaviour:** load balancing, the shared `group_path` buffer and the undefined read of `wrr_rq_of_se` on SMP. The hooks are empty, or the behaviour is out of a one-CPU model.
- **Fork in the flat variants:** `task_fork_wrr` is empty there. What slice a child starts with depends on `sched_fork` in `core.c`, which is not in the repository. The group variant models fork only for tasks of non-root groups, since for the root group `task_fork_wrr` dereferences a NULL `wrr.parent`.
- **Liveness of the group variant:** its `check_preempt_curr_wrr` (line 295) uses the same inverted comparison as the basic class. `MostUrgentRuns` would fail there for the reason `basic_wake` shows. Its `switched_to_wrr` compares with `>`, so unlike the basic class it does preempt a fair or idle `curr`.
- **`rt_priority` 0 for SCHED_WRR:** whether it is admitted is decided in `core.c`. The models draw `rt_priority` from 1 up. In RMLFQ, index 99 would tie with a fair `curr` in `switched_to_wrr`.
- **Accounting:** `exec_max` and `cpuacct_charge`, which nothing reads. The accounting of the two Bonus variants is the same code as the basic class, and adding it is out of reach at these bounds. With the `WrrBasic` accounting added at `MaxClock` 1, `rmlfq_core` grew to 290k states and took about 3 minutes. `group_consistency` grew from 59k to 810k distinct states and took 5m15s, over the five-minute limit before its mutant is even run.
- **Tooling:** `benchmark.c` formats command lines for the drivers and runs them with `popen`; it does not compile, because `ret` is undeclared at line 71. `testfile.c` makes three scheduling syscalls once and prints the results. Neither has state of its own to check.
- **Benchmark details:** file contents, the Monte-Carlo arithmetic, and short writes (a write that returns less than it was given, as on a full disk). Concurrent children overwrite the same destination file from offset 0; nothing depends on its contents.
- **The benchmark's exit status:** `waitpid` is called with a NULL status, so `main` returns 0 even when children ended in `exit(1)`. The model records each child's status, but no run checks it, for lack of a run slot.
