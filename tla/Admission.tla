------------------------------ MODULE Admission ------------------------------
(***************************************************************************)
(* What ResourceQueue promises its callers, without tickets, locks or      *)
(* callbacks: a resource with Slots parallel places, a bounded waiting     *)
(* room, and no slot given to a newcomer past the people already waiting.  *)
(***************************************************************************)
EXTENDS Naturals, FiniteSets

CONSTANTS Threads, Slots, MaxWaiting

VARIABLE status    \* per thread "out", "waiting" or "in"

In      == {t \in Threads : status[t] = "in"}
Waiting == {t \in Threads : status[t] = "waiting"}

Init == status = [t \in Threads |-> "out"]

\* A free slot that nobody waits for.
Enter(t) ==
    /\ status[t] = "out"
    /\ Waiting = {}
    /\ Cardinality(In) < Slots
    /\ status' = [status EXCEPT ![t] = "in"]

\* Only behind a full resource or other waiters, and only while there is room to wait.
Enqueue(t) ==
    /\ status[t] = "out"
    /\ Waiting # {} \/ Cardinality(In) >= Slots
    /\ Cardinality(Waiting) < MaxWaiting
    /\ status' = [status EXCEPT ![t] = "waiting"]

Grant(t) ==
    /\ status[t] = "waiting"
    /\ Cardinality(In) < Slots
    /\ status' = [status EXCEPT ![t] = "in"]

GiveUp(t) ==
    /\ status[t] = "waiting"
    /\ status' = [status EXCEPT ![t] = "out"]

Leave(t) ==
    /\ status[t] = "in"
    /\ status' = [status EXCEPT ![t] = "out"]

Next == \E t \in Threads : Enter(t) \/ Enqueue(t) \/ Grant(t) \/ GiveUp(t) \/ Leave(t)

Spec == Init /\ [][Next]_status
=============================================================================
