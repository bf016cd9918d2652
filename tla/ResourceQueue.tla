---------------------------- MODULE ResourceQueue ----------------------------
(***************************************************************************)
(* ResourceQueue of vaf/core/fair_queue.py: threads that want one of a     *)
(* resource's slots for a blocking call.                                   *)
(*                                                                         *)
(* A thread is at the statement pc[t].  Each section the code runs under   *)
(* its condition's lock is one step, and so is each callback outside it;   *)
(* only the grant loop of _release takes several steps, with the lock      *)
(* held: `granting` is the thread in that loop, and every other locked     *)
(* section waits for it.                                                   *)
(*                                                                         *)
(*   out      not in the queue                                             *)
(*   check    top of the waiting loop, before its locked section           *)
(*   tell     calling on_wait with the place                               *)
(*   ask      asking cancelled()                                           *)
(*   quit     cancelled() said yes; about to look at the ticket again      *)
(*   park     about to wait on the condition                               *)
(*   wait     waiting on the condition, at most poll_s                     *)
(*   unwind   an exception is leaving the loop                             *)
(*   handon   the exception found the ticket granted                       *)
(*   welcome  granted after a wait; calling on_wait with place 0           *)
(*   in       inside the with block                                        *)
(*   leaving  __exit__ ran, _release is about to take the lock             *)
(*                                                                         *)
(* Clock readings, metrics and the text of a refusal are left out.         *)
(***************************************************************************)
EXTENDS Naturals, FiniteSets

CONSTANTS Threads, Persons,
          PersonOf,     \* whom a thread asks for
          Slots, MaxWaiting, MaxWaitingPerKey,
          Leavers,      \* threads with a deadline, a cancelled() or a callback that
                        \* may raise a BaseException; the others wait for ever
          NoThread

ASSUME ResourceQueueAssumption ==
    /\ IsFiniteSet(Threads)
    /\ IsFiniteSet(Persons)
    /\ PersonOf \in [Threads -> Persons]
    /\ Slots \in Nat \ {0}
    /\ MaxWaiting \in Nat
    /\ MaxWaitingPerKey \in Nat
    /\ Leavers \subseteq Threads
    /\ NoThread \notin Threads

VARIABLES pc,
          order,      \* the tickets that wait, in fair order
          granted,    \* threads whose ticket is marked granted
          running,    \* _running
          held,       \* threads with this queue in their thread-local _held
          granting    \* the thread inside the grant loop, NoThread when the lock is free

vars == <<pc, order, granted, running, held, granting>>

RR == INSTANCE RoundRobin WITH Items <- Threads, Keys <- Persons, KeyOf <- PersonOf

InLoop  == {"check", "tell", "ask", "quit", "park", "wait"}
Places  == InLoop \cup {"out", "unwind", "handon", "welcome", "in", "leaving"}

Queued   == RR!Queued(order)
HasRoom  == running < Slots
LockFree == granting = NoThread

Goto(t, place) == pc' = [pc EXCEPT ![t] = place]

Init ==
    /\ pc = [t \in Threads |-> "out"]
    /\ order = RR!EmptyOrder
    /\ granted = {}
    /\ running = 0
    /\ held = {}
    /\ granting = NoThread

-----------------------------------------------------------------------------
(* _acquire, up to the waiting loop.  A call from inside the with block finds *)
(* the queue in _held and changes nothing (RuntimeError).                     *)

\* Mutant: _held is not consulted, a thread may wait for the slot it holds.
AdmittableNested(t) == pc[t] \in {"out", "in"} /\ LockFree

Admittable(t) == pc[t] \in {"out", "in"} /\ t \notin held /\ LockFree

\* The fast path: a free slot and nobody waiting.
FastPath(t) ==
    /\ Admittable(t)
    /\ HasRoom /\ Queued = {}
    /\ running' = running + 1
    /\ held' = held \cup {t}
    /\ Goto(t, "in")
    /\ UNCHANGED <<order, granted, granting>>

\* Full, by the person's own share or in total: refused before it has a ticket.
IsFull(t) ==
    \/ Cardinality(RR!QueuedOf(order, PersonOf[t])) >= MaxWaitingPerKey
    \/ Cardinality(Queued) >= MaxWaiting

Enqueue(t) ==
    /\ Admittable(t)
    /\ ~(HasRoom /\ Queued = {})
    /\ ~IsFull(t)
    /\ order' = RR!Push(order, t)
    /\ granted' = granted \ {t}
    /\ Goto(t, "check")
    /\ UNCHANGED <<running, held, granting>>

-----------------------------------------------------------------------------
(* The waiting loop. *)

\* Granted: leave the loop, and note the slot before on_wait(0) is called.
CheckGranted(t) ==
    /\ pc[t] = "check" /\ LockFree
    /\ t \in granted
    /\ held' = held \cup {t}
    /\ Goto(t, "welcome")
    /\ UNCHANGED <<order, granted, running, granting>>

\* Not granted: go on to on_wait, or refuse because the deadline passed.
CheckWaiting(t) ==
    /\ pc[t] = "check" /\ LockFree
    /\ t \notin granted
    /\ Goto(t, "tell") \/ (t \in Leavers /\ Goto(t, "unwind"))
    /\ UNCHANGED <<order, granted, running, held, granting>>

\* on_wait: its Exceptions are swallowed, a BaseException is not.
Tell(t) ==
    /\ pc[t] = "tell"
    /\ Goto(t, "ask") \/ (t \in Leavers /\ Goto(t, "unwind"))
    /\ UNCHANGED <<order, granted, running, held, granting>>

Ask(t) ==
    /\ pc[t] = "ask"
    /\ Goto(t, "park") \/ (t \in Leavers /\ pc' \in {[pc EXCEPT ![t] = "quit"],
                                                     [pc EXCEPT ![t] = "unwind"]})
    /\ UNCHANGED <<order, granted, running, held, granting>>

\* cancelled() said yes: refused, unless a slot was granted in the meantime.
Quit(t) ==
    /\ pc[t] = "quit" /\ LockFree
    /\ IF t \in granted
       THEN Goto(t, "welcome") /\ held' = held \cup {t}
       ELSE Goto(t, "unwind") /\ UNCHANGED held
    /\ UNCHANGED <<order, granted, running, granting>>

Park(t) ==
    /\ pc[t] = "park" /\ LockFree
    /\ Goto(t, IF t \in granted THEN "check" ELSE "wait")
    /\ UNCHANGED <<order, granted, running, held, granting>>

\* Notified, or poll_s is over; a signal may also raise out of the wait.
Wake(t) ==
    /\ pc[t] = "wait" /\ LockFree
    /\ Goto(t, "check") \/ (t \in Leavers /\ Goto(t, "unwind"))
    /\ UNCHANGED <<order, granted, running, held, granting>>

\* Mutant of the except clause: a slot granted at the last instant is lost.
UnwindLosesGrant(t) ==
    /\ pc[t] = "unwind" /\ LockFree
    /\ Goto(t, "out") /\ order' = RR!Drop(order, {t})
    /\ UNCHANGED <<granted, running, held, granting>>

\* The except clause: the ticket leaves the order, unless it was granted in the
\* instant the thread failed.
Unwind(t) ==
    /\ pc[t] = "unwind" /\ LockFree
    /\ IF t \in granted
       THEN Goto(t, "handon") /\ UNCHANGED order
       ELSE Goto(t, "out") /\ order' = RR!Drop(order, {t})
    /\ UNCHANGED <<granted, running, held, granting>>

\* Mutant: a failing on_wait(0) does not give the slot back.
WelcomeKeepsSlot(t) ==
    /\ pc[t] = "welcome"
    /\ \/ Goto(t, "in") /\ UNCHANGED held
       \/ t \in Leavers /\ Goto(t, "out") /\ held' = held \ {t}
    /\ UNCHANGED <<order, granted, running, granting>>

\* on_wait(0): a BaseException there gives the slot back.
Welcome(t) ==
    /\ pc[t] = "welcome"
    /\ \/ Goto(t, "in") /\ UNCHANGED held
       \/ t \in Leavers /\ Goto(t, "handon") /\ held' = held \ {t}
    /\ UNCHANGED <<order, granted, running, granting>>

-----------------------------------------------------------------------------
(* Giving the slot back. *)

Exit(t) ==
    /\ pc[t] = "in"
    /\ held' = held \ {t}
    /\ Goto(t, "leaving")
    /\ UNCHANGED <<order, granted, running, granting>>

\* _release takes the lock and frees the slot; GrantOne and GrantDone are its loop.
Release(t) ==
    /\ pc[t] \in {"leaving", "handon"} /\ LockFree
    /\ running' = running - 1
    /\ granted' = granted \ {t}
    /\ granting' = t
    /\ UNCHANGED <<pc, order, held>>

GrantOne(t) ==
    /\ granting = t
    /\ HasRoom
    /\ \E i \in Queued :
          /\ RR!IsNext(order, Queued, i)
          /\ order' = RR!Serve(order, i)
          /\ granted' = granted \cup {i}
    /\ running' = running + 1
    /\ UNCHANGED <<pc, held, granting>>

\* Mutant: a freed slot is not offered to the waiters.
GrantDoneEarly(t) ==
    /\ granting = t
    /\ granting' = NoThread
    /\ Goto(t, "out")
    /\ UNCHANGED <<order, granted, running, held>>

GrantDone(t) ==
    /\ granting = t
    /\ ~HasRoom \/ Queued = {}
    /\ granting' = NoThread
    /\ Goto(t, "out")
    /\ UNCHANGED <<order, granted, running, held>>

-----------------------------------------------------------------------------
Waits(t)  == \/ CheckGranted(t) \/ CheckWaiting(t) \/ Tell(t) \/ Ask(t) \/ Quit(t)
             \/ Park(t) \/ Wake(t) \/ Unwind(t) \/ Welcome(t)

Frees(t)  == Release(t) \/ GrantOne(t) \/ GrantDone(t)

Next == \E t \in Threads :
            FastPath(t) \/ Enqueue(t) \/ Waits(t) \/ Exit(t) \/ Frees(t)

Spec == Init /\ [][Next]_vars

\* A runnable thread runs on and is not starved of the lock, the condition's wait
\* ends by its poll, and the blocking call inside a slot returns.  Nobody has to ask.
Fairness == \A t \in Threads : SF_vars(Waits(t)) /\ SF_vars(Frees(t)) /\ WF_vars(Exit(t))

FairSpec == Spec /\ Fairness

-----------------------------------------------------------------------------
(* Properties *)

TypeOK ==
    /\ pc \in [Threads -> Places]
    /\ order \in RR!Orders
    /\ granted \subseteq Threads
    /\ running \in Nat
    /\ held \subseteq Threads
    /\ granting \in Threads \cup {NoThread}

\* The threads a slot is counted for: inside the block or giving it back, or marked
\* granted and not yet aware of it.
Owners == granted \cup {t \in Threads : pc[t] \in {"in", "leaving"} /\ granting # t}

\* Every counted slot has exactly one owner, through every race of a grant with a
\* timeout, a cancel or a failing callback: no slot leaks, none is freed twice.
SlotsAccounted == running = Cardinality(Owners) /\ running <= Slots

\* No lost grant: whoever waits, waits because every slot is taken.
NoIdleSlot == LockFree /\ Queued # {} => running = Slots

\* A ticket is in the order exactly while its thread is in the waiting loop without
\* a grant; a thread that left has no ticket that could still be granted.
TicketsMatchThreads ==
    Queued = {t \in Threads : pc[t] \in InLoop \cup {"unwind"} /\ t \notin granted}

\* The waiting room and one person's share of it are never exceeded.
WaitingRoomBounded ==
    /\ Cardinality(Queued) <= MaxWaiting
    /\ \A p \in Persons : Cardinality(RR!QueuedOf(order, p)) <= MaxWaitingPerKey

\* _held names the queue exactly for threads that own a slot they know of, so a
\* nested call is refused and a later one is not.
HeldMeansInside == held = {t \in Threads : pc[t] \in {"welcome", "in"}}

\* Nobody inside a slot calls in again and waits for itself, everyone who waits
\* is served or leaves, and one without deadline or cancel is served.
WaitEnds == \A t \in Threads : pc[t] = "check" ~> pc[t] \in {"in", "out"}

PatientIsServed == \A t \in Threads \ Leavers : pc[t] = "check" ~> pc[t] = "in"

-----------------------------------------------------------------------------
(* Refinement: the promise to callers. *)

Status ==
    [t \in Threads |->
        IF t \in Owners THEN "in"
        ELSE IF t \in Queued THEN "waiting" ELSE "out"]

Promise == INSTANCE Admission WITH status <- Status

\* The queue behaves as Admission says.
Admits == Promise!Spec
=============================================================================
