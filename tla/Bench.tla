------------------------------- MODULE Bench -------------------------------
(***************************************************************************)
(* The benchmark drivers benchmark_cpubound/jni/cpu_bound.c and            *)
(* benchmark_mixed/jni/mixed.c: main parses its arguments, moves itself to *)
(* the chosen real-time policy, forks child_count children that inherit    *)
(* it, and waits for them one by one in fork order with waitpid.  A        *)
(* cpu_bound child runs calcE and exits; a mixed child runs               *)
(* CHILD_ITERATIONS rounds of CPU() and IO(), where IO() copies            *)
(* transfer_size / CHILD_ITERATIONS bytes of the source file to the        *)
(* destination, block_size bytes per read, reopening both files each       *)
(* round.                                                                  *)
(*                                                                         *)
(* The computation is one step; file contents are abstracted to the       *)
(* source file's length and each child's read offset and byte count.       *)
(* Every call that can fail (sched_setscheduler, fork, malloc, open, read, *)
(* write, close) may fail, and each failure ends the process in exit(1).   *)
(***************************************************************************)
EXTENDS Integers, Sequences, SequencesExt, FiniteSets

CONSTANTS
    Programs,           \* subset of {"cpu_bound", "mixed"}
    Procs,              \* the pids fork may return
    ChildCountArgs,     \* argv[3] values
    BlockArgs,          \* argv[4] values (mixed)
    TransferArgs,       \* argv[5] values (mixed)
    FileSizes,          \* lengths of the source file argv[6]
    MAX_CHILDREN,
    CHILD_ITERATIONS

ASSUME /\ Programs \subseteq {"cpu_bound", "mixed"}
       /\ ChildCountArgs \subseteq Nat /\ BlockArgs \subseteq Nat
       /\ TransferArgs \subseteq Nat /\ FileSizes \subseteq Nat
       /\ MAX_CHILDREN <= Cardinality(Procs)
       /\ CHILD_ITERATIONS \in Nat \ {0}

VARIABLES
    args,       \* [prog, argsOK, child_count, block_size, transfer_size, size]
    pc,         \* main: "start", "fork", "wait", "done" (return 0) or "exit1"
    i,          \* main's loop counter
    children,   \* the children array, as the sequence of pids filled so far
    cpc,        \* pid -> "none", "cpu", "io", "copy", "exited" or "reaped"
    status,     \* pid -> its exit status
    round,      \* pid -> rounds of childTask done
    off,        \* pid -> read offset in the source file
    tot_bytes   \* pid -> bytes written in this IO() call

vars == <<args, pc, i, children, cpc, status, round, off, tot_bytes>>

\* transfer_size / CHILD_ITERATIONS: the bytes one IO() call copies.
Chunk == args.transfer_size \div CHILD_ITERATIONS

ExitCodes == {0, 1}

\* Mutant: the copy loop runs while tot_bytes <= transfer_size.
Copying_le(c) == tot_bytes[c] <= Chunk

\* The condition of IO()'s copy loop.
Copying(c) == tot_bytes[c] < Chunk

Exit(c, code) ==
    /\ cpc' = [cpc EXCEPT ![c] = "exited"]
    /\ status' = [status EXCEPT ![c] = code]

-----------------------------------------------------------------------------

\* The checks of cpu_bound's parser(): argsOK stands for the argc,
\* iterations and policy-name checks.
parser_cpu_bound == args.argsOK /\ args.child_count \in 1..MAX_CHILDREN

\* mixed's parser() adds the block and transfer sizes (atoi of a negative
\* size is out of Nat); a file name that is too long is only reported.
parser_mixed == parser_cpu_bound /\ args.transfer_size >= args.block_size

\* parser() and sched_setscheduler(0, policy, &param), each failure ending
\* in exit(1); sched_get_priority_max is the host's, so the call may fail.
Start(ok) ==
    /\ pc = "start"
    /\ LET valid == IF args.prog = "mixed" THEN parser_mixed ELSE parser_cpu_bound
       IN pc' = IF valid /\ ok THEN "fork" ELSE "exit1"
    /\ UNCHANGED <<args, i, children, cpc, status, round, off, tot_bytes>>

\* Mutant: the wait loop starts from the fork loop's final counter.
Fork_noreset(ok) ==
    /\ ok /\ pc = "fork"
    /\ \E c \in Procs :
          /\ cpc[c] = "none"
          /\ cpc' = [cpc EXCEPT ![c] = "cpu"]
          /\ children' = Append(children, c)
          /\ i' = i + 1
          /\ pc' = IF i + 1 = args.child_count THEN "done" ELSE "fork"
    /\ UNCHANGED <<args, status, round, off, tot_bytes>>

\* One iteration of the fork loop: the child starts in childTask (calcE),
\* the parent stores its pid; a failed fork exits the parent with the
\* children forked so far still running.
Fork(ok) ==
    /\ pc = "fork"
    /\ \/ /\ ok
          /\ \E c \in Procs :
             /\ cpc[c] = "none"
             /\ cpc' = [cpc EXCEPT ![c] = "cpu"]
             /\ children' = Append(children, c)
             /\ i' = IF i + 1 = args.child_count THEN 0 ELSE i + 1
             /\ pc' = IF i + 1 = args.child_count THEN "wait" ELSE "fork"
       \/ /\ ~ok /\ pc' = "exit1"
          /\ UNCHANGED <<i, children, cpc>>
    /\ UNCHANGED <<args, status, round, off, tot_bytes>>

\* waitpid(children[i], NULL, 0) blocks until that child has exited and
\* reaps it; after the last one main frees the array and returns 0.
Wait ==
    /\ pc = "wait"
    /\ cpc[children[i + 1]] = "exited"
    /\ cpc' = [cpc EXCEPT ![children[i + 1]] = "reaped"]
    /\ i' = i + 1
    /\ pc' = IF i + 1 = args.child_count THEN "done" ELSE "wait"
    /\ UNCHANGED <<args, children, status, round, off, tot_bytes>>

-----------------------------------------------------------------------------

\* calcE (cpu_bound), or CPU() of a round of childTask (mixed).
Cpu(c) ==
    /\ cpc[c] = "cpu"
    /\ IF args.prog = "cpu_bound"
       THEN Exit(c, 0)
       ELSE /\ cpc' = [cpc EXCEPT ![c] = "io"]
            /\ UNCHANGED status
    /\ UNCHANGED <<args, pc, i, children, round, off, tot_bytes>>

\* The start of IO(): malloc of the buffer and the two open calls.
OpenFiles(c, ok) ==
    /\ cpc[c] = "io"
    /\ \/ /\ ok /\ cpc' = [cpc EXCEPT ![c] = "copy"]
          /\ off' = [off EXCEPT ![c] = 0]
          /\ tot_bytes' = [tot_bytes EXCEPT ![c] = 0]
          /\ UNCHANGED status
       \/ /\ ~ok /\ Exit(c, 1)
          /\ UNCHANGED <<off, tot_bytes>>
    /\ UNCHANGED <<args, pc, i, children, round>>

\* Mutant: a failed write's -1 is added to tot_bytes.
CopyBlock_nowritecheck(c, ok) ==
    /\ ~ok /\ cpc[c] = "copy"
    /\ Copying(c)
    /\ LET n == IF args.block_size <= args.size - off[c]
                THEN args.block_size ELSE args.size - off[c]
       IN /\ off' = [off EXCEPT ![c] = @ + n]
          /\ tot_bytes' = [tot_bytes EXCEPT ![c] = @ + (IF n > 0 THEN -1 ELSE 0)]
    /\ UNCHANGED <<cpc, status, args, pc, i, children, round>>

\* One iteration of the copy loop: read of up to block_size bytes (0 at end
\* of file), then, if it read something, write of what was read.
CopyBlock(c, ok) ==
    /\ cpc[c] = "copy"
    /\ Copying(c)
    /\ LET n == IF args.block_size <= args.size - off[c]
                THEN args.block_size ELSE args.size - off[c]
       IN \/ /\ ~ok /\ Exit(c, 1)                   \* read or write failed
             /\ UNCHANGED <<off, tot_bytes>>
          \/ /\ ok /\ off' = [off EXCEPT ![c] = @ + n]
             /\ tot_bytes' = [tot_bytes EXCEPT ![c] = @ + n]
             /\ UNCHANGED <<cpc, status>>
    /\ UNCHANGED <<args, pc, i, children, round>>

\* The end of IO() (the two close calls and free), and the end of the round;
\* after CHILD_ITERATIONS rounds the child calls exit(0).
CloseFiles(c, ok) ==
    /\ cpc[c] = "copy"
    /\ ~Copying(c)
    /\ \/ /\ ok /\ round[c] + 1 = CHILD_ITERATIONS
          /\ Exit(c, 0)
       \/ /\ ok /\ round[c] + 1 < CHILD_ITERATIONS
          /\ cpc' = [cpc EXCEPT ![c] = "cpu"]
          /\ UNCHANGED status
       \/ ~ok /\ Exit(c, 1)                          \* close failed
    /\ round' = [round EXCEPT ![c] = @ + 1]
    /\ UNCHANGED <<args, pc, i, children, off, tot_bytes>>

-----------------------------------------------------------------------------

Args ==
    [prog : Programs, argsOK : BOOLEAN, child_count : ChildCountArgs,
     block_size : BlockArgs, transfer_size : TransferArgs, size : FileSizes]

Init ==
    /\ args \in Args
    /\ pc = "start"
    /\ i = 0
    /\ children = <<>>
    /\ cpc = [c \in Procs |-> "none"]
    /\ status = [c \in Procs |-> 0]
    /\ round = [c \in Procs |-> 0]
    /\ off = [c \in Procs |-> 0]
    /\ tot_bytes = [c \in Procs |-> 0]

\* Every process has ended: main returned or exited and no child runs.
Finished ==
    /\ pc \in {"done", "exit1"}
    /\ \A c \in Procs : cpc[c] \in {"none", "exited", "reaped"}

\* A step of child c; ok is FALSE when the call it makes fails.
Child(c, ok) == Cpu(c) \/ OpenFiles(c, ok) \/ CopyBlock(c, ok) \/ CloseFiles(c, ok)

Next ==
    \/ \E ok \in BOOLEAN : Start(ok) \/ Fork(ok) \/ \E c \in Procs : Child(c, ok)
    \/ Wait
    \/ Finished /\ UNCHANGED vars

Spec == Init /\ [][Next]_vars

\* Every process that can run eventually does: the children and main are
\* processes of one real-time policy, and each of them blocks or ends after
\* finitely many steps unless it loops in IO().  Only the calls that
\* succeed are fair: no call is assumed ever to fail.
FairSpec ==
    /\ Spec
    /\ WF_vars(Start(TRUE) \/ Fork(TRUE) \/ Wait)
    /\ \A c \in Procs : WF_vars(Child(c, TRUE))
-----------------------------------------------------------------------------

TypeOK ==
    /\ pc \in {"start", "fork", "wait", "done", "exit1"}
    /\ i \in 0..MAX_CHILDREN
    /\ children \in Seq(Procs) /\ IsInjective(children)
    /\ cpc \in [Procs -> {"none", "cpu", "io", "copy", "exited", "reaped"}]
    /\ status \in [Procs -> ExitCodes]
    /\ round \in [Procs -> 0..CHILD_ITERATIONS]
    /\ off \in [Procs -> Nat] /\ tot_bytes \in [Procs -> Nat]

\* When main returns 0 it has forked child_count children and every one of
\* them has exited and been reaped by the waitpid loop: the fork loop's
\* counter, reused by the wait loop, and the order of the two loops are
\* what guarantee it.
ReapedOnReturn ==
    pc = "done" =>
        /\ Len(children) = args.child_count
        /\ \A j \in 1..Len(children) : cpc[children[j]] = "reaped"

\* Every read of IO()'s copy loop returns data until the round's bytes are
\* copied: a positive block_size and a source file at least one round long.
ReadsProgress ==
    args.prog = "cpu_bound" \/ (args.block_size > 0 /\ args.size >= Chunk)

\* When every read makes progress, the benchmark ends: main returns or
\* exits and every child it forked exits, whatever call fails.
Terminates == ReadsProgress => <>Finished
=============================================================================
