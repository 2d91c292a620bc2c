----------------------------- MODULE ReadyQueue -----------------------------
(***************************************************************************)
(* What a priority-array scheduling class promises its host, with no       *)
(* bitmap, counter or time slice: the members of the class that are        *)
(* runnable sit in one FIFO list per priority level (the running one       *)
(* included), and whenever the CPU is handed out it goes to the head of    *)
(* the most urgent (numerically lowest) non-empty list, or to the fair or  *)
(* idle class (Idle) when every list is empty.                             *)
(***************************************************************************)
EXTENDS Integers, Sequences, SequencesExt, FiniteSets

CONSTANTS Tasks, Prios, Idle

VARIABLES
    members,    \* tasks whose policy is the class
    lists,      \* level -> FIFO of the runnable members at that level
    running     \* the member on the CPU, or Idle

vars == <<members, lists, running>>

Linked(t) == \E p \in Prios : Contains(lists[p], t)

LevelOf(t) == CHOOSE p \in Prios : Contains(lists[p], t)

\* The task the CPU is handed to when the lists are l.
Best(l) ==
    LET busy == {p \in Prios : l[p] # <<>>} IN
    IF busy = {} THEN Idle ELSE Head(l[Min(busy)])

Unlink(l, t) == [p \in Prios |-> Remove(l[p], t)]

Link(l, t, p, head) == [l EXCEPT ![p] = IF head THEN <<t>> \o @ ELSE Append(@, t)]

\* A runnable task enters the class, linked at the head or the tail of its
\* level; if it was running outside the class it may keep the CPU, and the
\* CPU may be handed out anew.
Join(t) ==
    /\ t \notin members
    /\ members' = members \cup {t}
    /\ \E p \in Prios, head \in BOOLEAN : lists' = Link(lists, t, p, head)
    /\ running' \in {running, Best(lists')} \cup (IF running = Idle THEN {t} ELSE {})

\* A member leaves the class; if it was running, the CPU leaves the class.
Leave(t) ==
    /\ t \in members
    /\ members' = members \ {t}
    /\ lists' = Unlink(lists, t)
    /\ running' = IF running = t THEN Idle ELSE running

\* A sleeping member becomes runnable at the tail of its level.
Arrive(t) ==
    /\ t \in members /\ ~Linked(t)
    /\ \E p \in Prios : lists' = Link(lists, t, p, FALSE)
    /\ running' \in {running, Best(lists')}
    /\ UNCHANGED members

\* The running member blocks and the CPU is handed out.
Block ==
    /\ running # Idle
    /\ lists' = Unlink(lists, running)
    /\ running' = Best(lists')
    /\ UNCHANGED members

\* The running member goes to the tail of its level (expiry, yield).
Rotate ==
    /\ running # Idle
    /\ lists' = Link(Unlink(lists, running), running, LevelOf(running), FALSE)
    /\ running' \in {running, Best(lists')}
    /\ UNCHANGED members

\* A member moves to the tail of some level (a priority change, a stage
\* migration); the CPU may be handed out.
Move(t) ==
    /\ Linked(t)
    /\ \E p \in Prios : lists' = Link(Unlink(lists, t), t, p, FALSE)
    /\ running' \in {running, Best(lists')}
    /\ UNCHANGED members

\* The CPU is handed out.
Dispatch ==
    /\ running' = Best(lists)
    /\ UNCHANGED <<members, lists>>

Init ==
    /\ members = {}
    /\ lists = [p \in Prios |-> <<>>]
    /\ running = Idle

Next ==
    \/ \E t \in Tasks : Join(t) \/ Leave(t) \/ Arrive(t) \/ Move(t)
    \/ Block
    \/ Rotate
    \/ Dispatch

Spec == Init /\ [][Next]_vars
=============================================================================
