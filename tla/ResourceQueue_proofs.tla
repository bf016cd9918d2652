------------------------ MODULE ResourceQueue_proofs ------------------------
(***************************************************************************)
(* Proofs about ResourceQueue for any number of threads, people and slots. *)
(*                                                                         *)
(* IInv is inductive.  The counter of slots is right (SlotsAccounted) only *)
(* because a waiting ticket belongs to a waiting thread                    *)
(* (TicketsMatchThreads), a grant is known to a thread that can still use  *)
(* or return it (GrantsAreLive), and a thread inside is known as such      *)
(* (HeldMeansInside), so these are proved together.                        *)
(*                                                                         *)
(* The order itself is RoundRobin's, on ranks.  The last sections prove    *)
(* about FairOrder, which keeps the code's numbers and stamps, that nobody *)
(* is overtaken twice and that it acts on the ranks as RoundRobin does:    *)
(* FairInv says that numbers and stamps are each given once, by arrival    *)
(* and by service, and that a key served while another waited has the      *)
(* younger stamp.  Of the pops themselves, run to the end, they prove that *)
(* a limited copy pops the same (a pop takes at most one entry off any     *)
(* line's beginning) and that an entry's place is the one by rounds (no    *)
(* key is ever popped more than a round ahead of one that waits: InRounds).*)
(***************************************************************************)
EXTENDS ResourceQueue, FairOrder, FiniteSetTheorems, SequenceTheorems, WellFoundedInduction, TLAPS

\* Where a granted thread can be, and that the grant loop runs for a thread that
\* has given its own slot up.
GrantsAreLive ==
    /\ \A t \in granted : pc[t] \notin {"out"}
    /\ \A t \in Threads : pc[t] \in {"welcome", "handon"} /\ granting # t => t \in granted
    /\ granting # NoThread =>
          /\ granting \notin granted
          /\ pc[granting] \in {"leaving", "handon"}

IInv == TypeOK /\ TicketsMatchThreads /\ HeldMeansInside /\ GrantsAreLive /\ SlotsAccounted

-----------------------------------------------------------------------------
(* The order operators *)

\* The instances' Cardinality is Cardinality.
LEMMA SameCardinality ==
  /\ \A S : RR!Cardinality(S) = Cardinality(S)
  /\ \A S : Promise!Cardinality(S) = Cardinality(S)
  BY DEF RR!Cardinality, Promise!Cardinality, Cardinality

\* Every set of threads is finite.
LEMMA FiniteThreads ==
  ASSUME NEW S \in SUBSET Threads
  PROVE  IsFiniteSet(S) /\ Cardinality(S) \in Nat
  BY ResourceQueueAssumption, FS_Subset, FS_CardinalityType

\* Sets of items and sets of keys can be counted, as the order operators count them.
Countable ==
    /\ PersonOf \in [Threads -> Persons]
    /\ \A S \in SUBSET Threads : RR!Cardinality(S) \in Nat /\ (S # {} => RR!Cardinality(S) > 0)
    /\ \A S \in SUBSET Persons : RR!Cardinality(S) \in Nat /\ (S # {} => RR!Cardinality(S) > 0)
    /\ \A S, T \in SUBSET Threads :
          S \subseteq T => \/ S = T
                          \/ RR!Cardinality(S) < RR!Cardinality(T)

\* Threads and people are finite sets.
LEMMA OrdersCount == Countable
<1>1. \A S \in SUBSET Threads : Cardinality(S) \in Nat /\ (S # {} => Cardinality(S) > 0)
  BY ResourceQueueAssumption, FS_Subset, FS_CardinalityType, FS_EmptySet
<1>2. \A S \in SUBSET Persons : Cardinality(S) \in Nat /\ (S # {} => Cardinality(S) > 0)
  BY ResourceQueueAssumption, FS_Subset, FS_CardinalityType, FS_EmptySet
<1>3. ASSUME NEW T \in SUBSET Threads, NEW S \in SUBSET T, S # T
      PROVE  Cardinality(S) < Cardinality(T)
  <2>1. IsFiniteSet(T)
    BY FiniteThreads
  <2>2. Cardinality(S) <= Cardinality(T) /\ Cardinality(S) # Cardinality(T)
    BY <1>3, <2>1, FS_Subset
  <2> QED
    BY <2>2, FiniteThreads
<1> QED
  BY <1>1, <1>2, <1>3, SameCardinality, ResourceQueueAssumption DEF Countable

-----------------------------------------------------------------------------
(* What push, drop and serve do to the waiting items of an order *)

\* Replacing the counters of _rank by their ranks keeps what is zero and what is
\* not.
LEMMA RanksKeepZero ==
  ASSUME NEW D, NEW f \in [D -> Nat],
         \A S \in SUBSET D : RR!Cardinality(S) \in Nat /\ (S # {} => RR!Cardinality(S) > 0)
  PROVE  /\ RR!Ranks(f) \in [D -> Nat]
         /\ \A x \in D : RR!Ranks(f)[x] > 0 <=> f[x] > 0
<1> DEFINE Below(x) == {y \in D : f[y] > 0 /\ f[y] <= f[x]}
<1>1. \A x \in D : RR!Cardinality(Below(x)) \in Nat
  OBVIOUS
<1>2. ASSUME NEW x \in D, f[x] > 0
      PROVE  RR!Cardinality(Below(x)) > 0
  <2>1. x \in Below(x)
    BY <1>2
  <2> QED
    BY <2>1
<1> QED
  BY <1>1, <1>2 DEF RR!Ranks

\* FairOrder.push: the pushed item joins the waiting ones and nobody leaves.
LEMMA PushQueues ==
  ASSUME NEW o \in RR!Orders, NEW i \in Threads
  PROVE  /\ RR!Push(o, i) \in RR!Orders
         /\ RR!Queued(RR!Push(o, i)) = RR!Queued(o) \cup {i}
<1> DEFINE place == RR!Cardinality(RR!Queued(o)) + 1
<1>1. place \in Nat \ {0}
  BY OrdersCount DEF RR!Queued, Countable
<1>2. RR!Push(o, i) = [o EXCEPT !.line[i] = place]
  BY DEF RR!Push
<1> HIDE DEF place
<1>3. RR!Push(o, i) \in RR!Orders
  BY <1>1, <1>2 DEF RR!Orders
<1>4. \A x \in Threads : RR!Push(o, i).line[x] = IF x = i THEN place ELSE o.line[x]
  BY <1>2 DEF RR!Orders
<1> QED
  BY <1>1, <1>3, <1>4 DEF RR!Queued

\* FairOrder.remove_where: exactly the dropped items leave.
LEMMA DropUnqueues ==
  ASSUME NEW o \in RR!Orders, NEW S \in SUBSET Threads
  PROVE  /\ RR!Drop(o, S) \in RR!Orders
         /\ RR!Queued(RR!Drop(o, S)) = RR!Queued(o) \ S
<1>1. CASE S \cap RR!Queued(o) = {}
  BY <1>1 DEF RR!Drop
<1>2. CASE S \cap RR!Queued(o) # {}
  <2> DEFINE line == [i \in Threads |-> IF i \in S THEN 0 ELSE o.line[i]]
  <2>1. line \in [Threads -> Nat]
    BY DEF RR!Orders
  <2>2. /\ RR!Ranks(line) \in [Threads -> Nat]
        /\ \A x \in Threads : RR!Ranks(line)[x] > 0 <=> line[x] > 0
    BY <2>1, RanksKeepZero, OrdersCount DEF Countable
  <2>3. RR!Drop(o, S) = [line |-> RR!Ranks(line), served |-> RR!Forgetting(line, o.served)]
    BY <1>2 DEF RR!Drop
  <2>4. RR!Forgetting(line, o.served) \in [Persons -> Nat]
    BY DEF RR!Forgetting, RR!Orders
  <2> HIDE DEF line
  <2>5. RR!Queued(RR!Drop(o, S)) = {x \in Threads : line[x] > 0}
    BY <2>2, <2>3 DEF RR!Queued
  <2>6. {x \in Threads : line[x] > 0} = RR!Queued(o) \ S
    BY DEF RR!Queued, line
  <2> QED
    BY <2>2, <2>3, <2>4, <2>5, <2>6 DEF RR!Orders
<1> QED
  BY <1>1, <1>2

\* FairOrder.pop: exactly the served item leaves.
LEMMA ServeUnqueues ==
  ASSUME NEW o \in RR!Orders, NEW i \in Threads
  PROVE  /\ RR!Serve(o, i) \in RR!Orders
         /\ RR!Queued(RR!Serve(o, i)) = RR!Queued(o) \ {i}
<1> DEFINE line   == [o.line EXCEPT ![i] = 0]
           sv     == [o.served EXCEPT ![PersonOf[i]] = RR!Cardinality(Persons) + 1]
<1>1. line \in [Threads -> Nat]
  BY DEF RR!Orders
<1>2. sv \in [Persons -> Nat]
  BY OrdersCount DEF RR!Orders, Countable
<1>3. /\ RR!Ranks(line) \in [Threads -> Nat]
      /\ \A x \in Threads : RR!Ranks(line)[x] > 0 <=> line[x] > 0
  BY <1>1, RanksKeepZero, OrdersCount DEF Countable
<1>4. RR!Ranks(sv) \in [Persons -> Nat]
  BY <1>2, RanksKeepZero, OrdersCount DEF Countable
<1>5. RR!Serve(o, i) = [line |-> RR!Ranks(line),
                     served |-> RR!Forgetting(line, RR!Ranks(sv))]
  BY DEF RR!Serve
<1>6. RR!Forgetting(line, RR!Ranks(sv)) \in [Persons -> Nat]
  BY <1>4 DEF RR!Forgetting
<1>7. {x \in Threads : line[x] > 0} = RR!Queued(o) \ {i}
  BY DEF RR!Queued, RR!Orders
<1> HIDE DEF line, sv
<1>8. RR!Queued(RR!Serve(o, i)) = {x \in Threads : line[x] > 0}
  BY <1>3, <1>5 DEF RR!Queued
<1> QED
  BY <1>3, <1>5, <1>6, <1>7, <1>8 DEF RR!Orders

-----------------------------------------------------------------------------
(* The inductive invariant *)

\* The queue starts empty, with every slot free and nobody inside.
LEMMA InitIInv == Init => IInv
<1> SUFFICES ASSUME Init PROVE IInv
  OBVIOUS
<1> USE DEF Init, RR!EmptyOrder, RR!Orders
<1>1. Queued = {} /\ Owners = {}
  BY DEF Queued, RR!Queued, Owners
<1> QED
  BY <1>1, FS_EmptySet, ResourceQueueAssumption
     DEF IInv, TypeOK, TicketsMatchThreads, HeldMeansInside, GrantsAreLive,
         SlotsAccounted, Places, InLoop

\* A step that moves one thread between places where it owns what it owned before
\* keeps the accounts.
LEMMA SameOwners ==
  ASSUME SlotsAccounted, running' = running, Owners' = Owners
  PROVE  SlotsAccounted'
  BY DEF SlotsAccounted

\* Every section of _acquire, __exit__ and _release keeps the invariant.
LEMMA StepIInv == IInv /\ [Next]_vars => IInv'
<1> SUFFICES ASSUME IInv, [Next]_vars PROVE IInv'
  OBVIOUS
<1> USE ResourceQueueAssumption
<1>0. /\ TypeOK /\ TicketsMatchThreads /\ HeldMeansInside /\ GrantsAreLive /\ SlotsAccounted
      /\ Owners \in SUBSET Threads
  BY DEF IInv, Owners, TypeOK
<1>1. ASSUME NEW t \in Threads, FastPath(t) PROVE IInv'
  <2> USE <1>0, <1>1 DEF FastPath, Admittable, Goto, LockFree, HasRoom
  <2>1. pc[t] = "out" /\ t \notin Owners
    BY DEF HeldMeansInside, GrantsAreLive, Owners
  <2>2. Owners' = Owners \cup {t}
    BY <2>1 DEF Owners, TypeOK
  <2>3. SlotsAccounted'
    BY <2>1, <2>2, FiniteThreads, FS_AddElement DEF SlotsAccounted, TypeOK
  <2>4. TypeOK'
    BY DEF TypeOK, Places
  <2>5. TicketsMatchThreads' /\ HeldMeansInside' /\ GrantsAreLive'
    BY <2>1 DEF TicketsMatchThreads, HeldMeansInside, GrantsAreLive, TypeOK, InLoop, Queued
  <2> QED
    BY <2>3, <2>4, <2>5 DEF IInv
<1>2. ASSUME NEW t \in Threads, Enqueue(t) PROVE IInv'
  <2> USE <1>0, <1>2 DEF Enqueue, Admittable, Goto, LockFree
  <2>1. pc[t] = "out" /\ t \notin granted
    BY DEF HeldMeansInside, GrantsAreLive
  <2>2. order' \in RR!Orders /\ Queued' = Queued \cup {t}
    BY OrdersCount, PushQueues DEF TypeOK, Queued
  <2>3. Owners' = Owners
    BY <2>1 DEF Owners, TypeOK
  <2>4. SlotsAccounted'
    BY <2>3, SameOwners
  <2>5. TypeOK'
    BY <2>2 DEF TypeOK, Places, InLoop
  <2>6. TicketsMatchThreads' /\ HeldMeansInside' /\ GrantsAreLive'
    BY <2>1, <2>2 DEF TicketsMatchThreads, HeldMeansInside, GrantsAreLive, TypeOK, InLoop
  <2> QED
    BY <2>4, <2>5, <2>6 DEF IInv
<1>3. ASSUME NEW t \in Threads, CheckGranted(t) PROVE IInv'
  <2> USE <1>0, <1>3 DEF CheckGranted, Goto, LockFree
  <2>1. Owners' = Owners
    BY DEF Owners, TypeOK
  <2>2. SlotsAccounted' /\ TypeOK'
    BY <2>1, SameOwners DEF TypeOK, Places
  <2>3. TicketsMatchThreads' /\ HeldMeansInside' /\ GrantsAreLive'
    BY DEF TicketsMatchThreads, HeldMeansInside, GrantsAreLive, TypeOK, InLoop, Queued
  <2> QED
    BY <2>2, <2>3 DEF IInv
<1>4. ASSUME NEW t \in Threads,
             CheckWaiting(t) \/ Tell(t) \/ Ask(t) \/ Park(t) \/ Wake(t)
      PROVE IInv'
  <2>1. /\ pc[t] \in InLoop
        /\ \E place \in InLoop \cup {"unwind"} : pc' = [pc EXCEPT ![t] = place]
        /\ UNCHANGED <<order, granted, running, held, granting>>
    BY <1>4 DEF CheckWaiting, Tell, Ask, Park, Wake, Goto, InLoop
  <2>2. PICK place \in InLoop \cup {"unwind"} : pc' = [pc EXCEPT ![t] = place]
    BY <2>1
  <2>3. Owners' = Owners
    BY <1>0, <2>1, <2>2 DEF Owners, TypeOK, InLoop
  <2>4. SlotsAccounted' /\ TypeOK'
    BY <1>0, <2>1, <2>2, <2>3, SameOwners DEF TypeOK, Places, InLoop
  <2>5. TicketsMatchThreads' /\ HeldMeansInside' /\ GrantsAreLive'
    BY <1>0, <2>1, <2>2
       DEF TicketsMatchThreads, HeldMeansInside, GrantsAreLive, TypeOK, InLoop, Queued
  <2> QED
    BY <2>4, <2>5 DEF IInv
<1>5. ASSUME NEW t \in Threads, Quit(t) PROVE IInv'
  <2> USE <1>0, <1>5 DEF Quit, Goto, LockFree
  <2>1. Owners' = Owners
    BY DEF Owners, TypeOK
  <2>2. SlotsAccounted' /\ TypeOK'
    BY <2>1, SameOwners DEF TypeOK, Places
  <2>3. TicketsMatchThreads' /\ HeldMeansInside' /\ GrantsAreLive'
    BY DEF TicketsMatchThreads, HeldMeansInside, GrantsAreLive, TypeOK, InLoop, Queued
  <2> QED
    BY <2>2, <2>3 DEF IInv
<1>6. ASSUME NEW t \in Threads, Unwind(t) PROVE IInv'
  <2> USE <1>0, <1>6 DEF Unwind, Goto, LockFree
  <2>1. Owners' = Owners
    BY DEF Owners, TypeOK
  <2>2. order' \in RR!Orders /\ Queued' = (IF t \in granted THEN Queued ELSE Queued \ {t})
    BY OrdersCount, DropUnqueues DEF TypeOK, Queued
  <2>3. SlotsAccounted' /\ TypeOK'
    BY <2>1, <2>2, SameOwners DEF TypeOK, Places
  <2>4. TicketsMatchThreads' /\ HeldMeansInside' /\ GrantsAreLive'
    BY <2>2 DEF TicketsMatchThreads, HeldMeansInside, GrantsAreLive, TypeOK, InLoop
  <2> QED
    BY <2>3, <2>4 DEF IInv
<1>7. ASSUME NEW t \in Threads, Welcome(t) PROVE IInv'
  <2> USE <1>0, <1>7 DEF Welcome, Goto
  <2>1. t \in granted
    BY DEF GrantsAreLive
  <2>2. Owners' = Owners
    BY <2>1 DEF Owners, TypeOK
  <2>3. SlotsAccounted' /\ TypeOK'
    BY <2>2, SameOwners DEF TypeOK, Places
  <2>4. TicketsMatchThreads' /\ HeldMeansInside' /\ GrantsAreLive'
    BY <2>1 DEF TicketsMatchThreads, HeldMeansInside, GrantsAreLive, TypeOK, InLoop, Queued
  <2> QED
    BY <2>3, <2>4 DEF IInv
<1>8. ASSUME NEW t \in Threads, Exit(t) PROVE IInv'
  <2> USE <1>0, <1>8 DEF Exit, Goto
  <2>1. Owners' = Owners
    BY DEF Owners, TypeOK
  <2>2. SlotsAccounted' /\ TypeOK'
    BY <2>1, SameOwners DEF TypeOK, Places
  <2>3. TicketsMatchThreads' /\ HeldMeansInside' /\ GrantsAreLive'
    BY DEF TicketsMatchThreads, HeldMeansInside, GrantsAreLive, TypeOK, InLoop, Queued
  <2> QED
    BY <2>2, <2>3 DEF IInv
<1>9. ASSUME NEW t \in Threads, Release(t) PROVE IInv'
  <2> USE <1>0, <1>9 DEF Release, LockFree
  <2>1. t \in Owners
    BY DEF Owners, GrantsAreLive
  <2>2. Owners' = Owners \ {t}
    BY DEF Owners, TypeOK
  <2>3. Cardinality(Owners) # 0
    BY <2>1, FiniteThreads, FS_EmptySet
  <2>3a. Cardinality(Owners \ {t}) = Cardinality(Owners) - 1 /\ Cardinality(Owners) \in Nat
    BY <2>1, FiniteThreads, FS_RemoveElement
  <2>4. running' \in Nat /\ SlotsAccounted'
    BY <2>2, <2>3, <2>3a DEF SlotsAccounted, TypeOK
  <2>5. TypeOK'
    BY <2>4 DEF TypeOK
  <2>6. TicketsMatchThreads' /\ HeldMeansInside' /\ GrantsAreLive'
    BY DEF TicketsMatchThreads, HeldMeansInside, GrantsAreLive, TypeOK, InLoop, Queued
  <2> QED
    BY <2>4, <2>5, <2>6 DEF IInv
<1>10. ASSUME NEW t \in Threads, GrantOne(t) PROVE IInv'
  <2> USE <1>0, <1>10 DEF GrantOne, HasRoom
  <2>1. PICK i \in Queued : order' = RR!Serve(order, i) /\ granted' = granted \cup {i}
    OBVIOUS
  <2>2. i \in Threads /\ i \notin granted /\ pc[i] \in InLoop \cup {"unwind"}
    BY DEF TicketsMatchThreads
  <2>3. order' \in RR!Orders /\ Queued' = Queued \ {i}
    BY <2>1, <2>2, OrdersCount, ServeUnqueues DEF TypeOK, Queued
  <2>4. i \notin Owners /\ Owners' = Owners \cup {i}
    BY <2>1, <2>2 DEF Owners, TypeOK, InLoop
  <2>5. SlotsAccounted'
    BY <2>4, FiniteThreads, FS_AddElement DEF SlotsAccounted, TypeOK
  <2>6. TypeOK'
    BY <2>1, <2>2, <2>3 DEF TypeOK
  <2>7. TicketsMatchThreads' /\ HeldMeansInside'
    BY <2>1, <2>2, <2>3 DEF TicketsMatchThreads, HeldMeansInside, TypeOK, InLoop
  <2>8. GrantsAreLive'
    BY <2>1, <2>2 DEF GrantsAreLive, TypeOK, InLoop
  <2> QED
    BY <2>5, <2>6, <2>7, <2>8 DEF IInv
<1>11. ASSUME NEW t \in Threads, GrantDone(t) PROVE IInv'
  <2> USE <1>0, <1>11 DEF GrantDone, Goto
  <2>1. t \notin granted /\ pc[t] \in {"leaving", "handon"}
    BY DEF GrantsAreLive
  <2>2. Owners' = Owners
    BY <2>1 DEF Owners, TypeOK
  <2>3. SlotsAccounted' /\ TypeOK'
    BY <2>2, SameOwners DEF TypeOK, Places
  <2>4. TicketsMatchThreads' /\ HeldMeansInside' /\ GrantsAreLive'
    BY <2>1 DEF TicketsMatchThreads, HeldMeansInside, GrantsAreLive, TypeOK, InLoop, Queued
  <2> QED
    BY <2>3, <2>4 DEF IInv
<1>12. CASE UNCHANGED vars
  BY <1>0, <1>12
     DEF vars, IInv, TypeOK, TicketsMatchThreads, HeldMeansInside, GrantsAreLive,
         SlotsAccounted, Owners, Queued
<1> QED
  BY <1>1, <1>2, <1>3, <1>4, <1>5, <1>6, <1>7, <1>8, <1>9, <1>10, <1>11, <1>12
     DEF Next, Waits, Frees

\* The invariant holds in every reachable state.
LEMMA Invariance == Spec => []IInv
  BY InitIInv, StepIInv, PTL DEF Spec

\* The state keeps its types.
THEOREM TypeCorrect == Spec => []TypeOK
<1>1. IInv => TypeOK
  BY DEF IInv
<1> QED
  BY <1>1, Invariance, PTL

\* For any number of slots, threads and people: every counted slot has exactly one
\* owner, and never more than Slots are out, whatever timeout, cancel or failing
\* callback races a grant.
THEOREM SlotsAreAccounted == Spec => []SlotsAccounted
<1>1. IInv => SlotsAccounted
  BY DEF IInv
<1> QED
  BY <1>1, Invariance, PTL

\* A ticket waits exactly while its thread does.
THEOREM TicketsAreThreads == Spec => []TicketsMatchThreads
<1>1. IInv => TicketsMatchThreads
  BY DEF IInv
<1> QED
  BY <1>1, Invariance, PTL

\* _held names the queue exactly inside, so only a nested call is refused.
THEOREM HeldIsInside == Spec => []HeldMeansInside
<1>1. IInv => HeldMeansInside
  BY DEF IInv
<1> QED
  BY <1>1, Invariance, PTL

-----------------------------------------------------------------------------
(* No idle slot, and the bounds of the waiting room *)

\* A slot is never left free while somebody waits for it.
THEOREM NoSlotIdles == Spec => []NoIdleSlot
<1>1. Init => NoIdleSlot
  BY DEF Init, NoIdleSlot, Queued, RR!Queued, RR!EmptyOrder
<1>2. IInv /\ NoIdleSlot /\ [Next]_vars => NoIdleSlot'
  <2> SUFFICES ASSUME IInv, NoIdleSlot, [Next]_vars PROVE NoIdleSlot'
    OBVIOUS
  <2>0. TypeOK /\ running <= Slots
    BY DEF IInv, SlotsAccounted
  <2> USE <2>0, ResourceQueueAssumption DEF NoIdleSlot, LockFree
  <2>1. ASSUME NEW t \in Threads, FastPath(t) PROVE NoIdleSlot'
    BY <2>1 DEF FastPath, Queued
  <2>2. ASSUME NEW t \in Threads, Enqueue(t) PROVE NoIdleSlot'
    BY <2>2 DEF Enqueue, Admittable, HasRoom, TypeOK
  <2>3. ASSUME NEW t \in Threads, Unwind(t) PROVE NoIdleSlot'
    <3>1. Queued' \subseteq Queued
      BY <2>3, OrdersCount, DropUnqueues DEF Unwind, TypeOK, Queued
    <3> QED
      BY <2>3, <3>1 DEF Unwind
  <2>4. ASSUME NEW t \in Threads,
               \/ CheckGranted(t) \/ CheckWaiting(t) \/ Tell(t) \/ Ask(t) \/ Quit(t)
               \/ Park(t) \/ Wake(t) \/ Welcome(t) \/ Exit(t)
        PROVE NoIdleSlot'
    <3>1. UNCHANGED <<order, running, granting>>
      BY <2>4 DEF CheckGranted, CheckWaiting, Tell, Ask, Quit, Park, Wake, Welcome, Exit
    <3> QED
      BY <3>1 DEF Queued
  <2>5. ASSUME NEW t \in Threads, Release(t) \/ GrantOne(t) PROVE NoIdleSlot'
    BY <2>5 DEF Release, GrantOne
  <2>6. ASSUME NEW t \in Threads, GrantDone(t) PROVE NoIdleSlot'
    BY <2>6 DEF GrantDone, HasRoom, Queued, TypeOK
  <2>7. CASE UNCHANGED vars
    BY <2>7 DEF vars, Queued
  <2> QED
    BY <2>1, <2>2, <2>3, <2>4, <2>5, <2>6, <2>7 DEF Next, Waits, Frees
<1> QED
  BY <1>1, <1>2, Invariance, PTL DEF Spec

\* Removing waiters keeps both bounds.
LEMMA FewerStayBounded ==
  ASSUME TypeOK, WaitingRoomBounded, Queued' \subseteq Queued
  PROVE  WaitingRoomBounded'
<1>1. Queued \in SUBSET Threads
  BY DEF Queued, RR!Queued
<1>2. Cardinality(Queued') <= Cardinality(Queued)
  BY <1>1, FiniteThreads, FS_Subset
<1>3. ASSUME NEW p \in Persons
      PROVE  Cardinality(RR!QueuedOf(order, p)') <= Cardinality(RR!QueuedOf(order, p))
  <2>1. RR!QueuedOf(order, p)' \subseteq RR!QueuedOf(order, p)
    BY DEF RR!QueuedOf, Queued
  <2>2. RR!QueuedOf(order, p) \in SUBSET Threads
    BY <1>1 DEF RR!QueuedOf, Queued
  <2> QED
    BY <2>1, <2>2, FiniteThreads, FS_Subset
<1>4. /\ Cardinality(Queued) \in Nat /\ Cardinality(Queued') \in Nat
      /\ \A p \in Persons : /\ Cardinality(RR!QueuedOf(order, p)) \in Nat
                            /\ Cardinality(RR!QueuedOf(order, p)') \in Nat
  <2>1. Queued' \in SUBSET Threads
    BY <1>1
  <2>2. \A p \in Persons : RR!QueuedOf(order, p) \in SUBSET Threads
    BY <1>1 DEF RR!QueuedOf, Queued
  <2>3. \A p \in Persons : RR!QueuedOf(order, p)' \in SUBSET Threads
    BY <2>1 DEF RR!QueuedOf, Queued
  <2> QED
    BY <1>1, <2>1, <2>2, <2>3, FiniteThreads
<1> QED
  BY <1>2, <1>3, <1>4, ResourceQueueAssumption DEF WaitingRoomBounded

\* Neither the waiting room nor one person's share of it is ever exceeded.
THEOREM RoomIsBounded == Spec => []WaitingRoomBounded
<1>1. Init => WaitingRoomBounded
  <2> SUFFICES ASSUME Init PROVE WaitingRoomBounded
    OBVIOUS
  <2>1. Queued = {} /\ \A p \in Persons : RR!QueuedOf(order, p) = {}
    BY DEF Init, Queued, RR!Queued, RR!QueuedOf, RR!EmptyOrder
  <2> QED
    BY <2>1, FS_EmptySet, ResourceQueueAssumption DEF WaitingRoomBounded
<1>2. IInv /\ WaitingRoomBounded /\ [Next]_vars => WaitingRoomBounded'
  <2> SUFFICES ASSUME IInv, WaitingRoomBounded, [Next]_vars PROVE WaitingRoomBounded'
    OBVIOUS
  <2>0. TypeOK /\ TicketsMatchThreads /\ HeldMeansInside
    BY DEF IInv
  <2>1. ASSUME NEW t \in Threads, Enqueue(t) PROVE WaitingRoomBounded'
    <3>1. Queued' = Queued \cup {t}
      BY <2>0, <2>1, OrdersCount, PushQueues DEF Enqueue, TypeOK, Queued
    <3>2. Queued \in SUBSET Threads /\ t \notin Queued
      BY <2>0, <2>1 DEF Enqueue, Admittable, HeldMeansInside, TicketsMatchThreads, InLoop
    <3>3. Cardinality(Queued') = Cardinality(Queued) + 1 /\ Cardinality(Queued) \in Nat
      BY <3>1, <3>2, FiniteThreads, FS_AddElement
    <3>4. Cardinality(Queued') <= MaxWaiting
      BY <2>1, <3>3, ResourceQueueAssumption DEF Enqueue, IsFull
    <3>5. ASSUME NEW p \in Persons
          PROVE  Cardinality(RR!QueuedOf(order, p)') <= MaxWaitingPerKey
      <4>1. RR!QueuedOf(order, p)' =
              IF PersonOf[t] = p THEN RR!QueuedOf(order, p) \cup {t} ELSE RR!QueuedOf(order, p)
        BY <3>1 DEF RR!QueuedOf, Queued
      <4>2. RR!QueuedOf(order, p) \in SUBSET Threads /\ t \notin RR!QueuedOf(order, p)
        BY <3>2 DEF RR!QueuedOf, Queued
      <4>3. Cardinality(RR!QueuedOf(order, p) \cup {t}) = Cardinality(RR!QueuedOf(order, p)) + 1
        BY <4>2, FiniteThreads, FS_AddElement
      <4>4. Cardinality(RR!QueuedOf(order, p)) \in Nat
        BY <4>2, FiniteThreads
      <4>5. CASE PersonOf[t] = p
        <5>1. ~(Cardinality(RR!QueuedOf(order, p)) >= MaxWaitingPerKey)
          BY <2>1, <4>5 DEF Enqueue, IsFull
        <5> QED
          BY <4>1, <4>3, <4>4, <4>5, <5>1, ResourceQueueAssumption
      <4>6. CASE PersonOf[t] # p
        BY <4>1, <4>6 DEF WaitingRoomBounded
      <4> QED
        BY <4>5, <4>6
    <3> QED
      BY <3>4, <3>5 DEF WaitingRoomBounded
  <2>2. ASSUME NEW t \in Threads, Unwind(t) \/ GrantOne(t) PROVE WaitingRoomBounded'
    <3>1. Queued' \subseteq Queued
      <4>1. CASE Unwind(t)
        BY <2>0, <4>1, OrdersCount, DropUnqueues DEF Unwind, TypeOK, Queued
      <4>2. CASE GrantOne(t)
        <5>1. PICK i \in Queued : order' = RR!Serve(order, i)
          BY <4>2 DEF GrantOne
        <5>2. i \in Threads
          BY DEF Queued, RR!Queued
        <5> QED
          BY <2>0, <5>1, <5>2, OrdersCount, ServeUnqueues DEF TypeOK, Queued
      <4> QED
        BY <2>2, <4>1, <4>2
    <3> QED
      BY <2>0, <3>1, FewerStayBounded
  <2>3. CASE UNCHANGED order
    BY <2>0, <2>3, FewerStayBounded DEF Queued
  <2> QED
    BY <2>1, <2>2, <2>3
       DEF Next, Waits, Frees, vars, FastPath, CheckGranted, CheckWaiting, Tell, Ask, Quit,
           Park, Wake, Welcome, Exit, Release, GrantDone
<1> QED
  BY <1>1, <1>2, Invariance, PTL DEF Spec

-----------------------------------------------------------------------------
(* The queue implements Admission. *)

\* A thread waits exactly with its ticket in the order, and is in with its slot.
LEMMA StatusSets ==
  ASSUME IInv
  PROVE  Promise!In = Owners /\ Promise!Waiting = Queued
<1>1. Queued \in SUBSET Threads /\ Owners \in SUBSET Threads /\ Queued \cap Owners = {}
  BY DEF IInv, TypeOK, TicketsMatchThreads, Owners, InLoop
<1> QED
  BY <1>1 DEF Promise!In, Promise!Waiting, Status

\* A step between states of the invariant is one of Admission's or changes no status.
LEMMA StepAdmits == IInv /\ IInv' /\ [Next]_vars => [Promise!Next]_Status
<1> SUFFICES ASSUME IInv, IInv', [Next]_vars PROVE [Promise!Next]_Status
  OBVIOUS
<1>0. /\ TypeOK /\ TicketsMatchThreads /\ HeldMeansInside /\ GrantsAreLive
      /\ running = Cardinality(Owners)
      /\ Promise!In = Owners /\ Promise!Waiting = Queued
      /\ Owners \in SUBSET Threads
  BY StatusSets DEF IInv, SlotsAccounted, Owners, TypeOK
<1>1. ASSUME NEW t \in Threads, FastPath(t) PROVE Promise!Enter(t)
  <2>1. pc[t] = "out" /\ t \notin Owners /\ t \notin Queued
    BY <1>0, <1>1 DEF FastPath, Admittable, HeldMeansInside, GrantsAreLive, Owners, LockFree
  <2>1a. Owners' = Owners \cup {t}
    BY <1>0, <1>1, <2>1, ResourceQueueAssumption DEF FastPath, Admittable, Goto, Owners, TypeOK, LockFree
  <2>1b. Queued' = Queued
    BY <1>1 DEF FastPath, Queued
  <2>2. Owners' = Owners \cup {t} /\ Queued' = Queued
    BY <2>1a, <2>1b
  <2>3. Status[t] = "out" /\ Status' = [Status EXCEPT ![t] = "in"]
    BY <2>1, <2>2 DEF Status
  <2>4. Queued = {} /\ running < Slots
    BY <1>1 DEF FastPath, HasRoom
  <2> QED
    BY <1>0, <2>3, <2>4, SameCardinality DEF Promise!Enter
<1>2. ASSUME NEW t \in Threads, Enqueue(t) PROVE Promise!Enqueue(t)
  <2>1. pc[t] = "out" /\ t \notin Owners
    BY <1>0, <1>2 DEF Enqueue, Admittable, HeldMeansInside, GrantsAreLive, Owners, LockFree
  <2>2. t \notin Queued
    BY <1>0, <2>1 DEF TicketsMatchThreads, InLoop
  <2>3. Owners' = Owners
    BY <1>0, <1>2, <2>1 DEF Enqueue, Admittable, Goto, Owners, TypeOK, LockFree
  <2>4. Queued' = Queued \cup {t}
    BY <1>0, <1>2, OrdersCount, PushQueues DEF Enqueue, TypeOK, Queued
  <2>5. Status[t] = "out" /\ Status' = [Status EXCEPT ![t] = "waiting"]
    BY <2>1, <2>2, <2>3, <2>4 DEF Status
  <2>6. /\ Queued # {} \/ running >= Slots
        /\ Cardinality(Queued) < MaxWaiting
    <3>1. Queued \in SUBSET Threads
      BY DEF Queued, RR!Queued
    <3> QED
      BY <1>0, <1>2, <3>1, FiniteThreads, ResourceQueueAssumption
         DEF Enqueue, IsFull, HasRoom, TypeOK
  <2> QED
    BY <1>0, <2>5, <2>6, SameCardinality DEF Promise!Enqueue
<1>3. ASSUME NEW t \in Threads, Unwind(t) PROVE [Promise!Next]_Status
  <2>1. Owners' = Owners
    BY <1>0, <1>3 DEF Unwind, Goto, Owners, TypeOK
  <2>2. CASE t \in granted
    BY <1>3, <2>1, <2>2 DEF Unwind, Status, Queued
  <2>3. CASE t \notin granted
    <3>1. Queued' = Queued \ {t}
      BY <1>0, <1>3, <2>3, OrdersCount, DropUnqueues DEF Unwind, TypeOK, Queued
    <3>2. t \in Queued /\ t \notin Owners
      BY <1>0, <1>3, <2>3 DEF Unwind, TicketsMatchThreads, Owners, InLoop
    <3>3. Status[t] = "waiting" /\ Status' = [Status EXCEPT ![t] = "out"]
      BY <2>1, <3>1, <3>2 DEF Status
    <3> QED
      BY <3>3 DEF Promise!Next, Promise!GiveUp
  <2> QED
    BY <2>2, <2>3
<1>4. ASSUME NEW t \in Threads, Release(t) PROVE Promise!Leave(t)
  <2>0. pc[t] \in {"leaving", "handon"} /\ granting = NoThread
    BY <1>4 DEF Release, LockFree
  <2>0a. t \in Owners /\ t \notin Queued
    BY <1>0, <2>0, ResourceQueueAssumption
       DEF Owners, GrantsAreLive, TicketsMatchThreads, InLoop
  <2>0b. Owners' = Owners \ {t}
    BY <1>0, <1>4, <2>0, ResourceQueueAssumption DEF Release, Owners, TypeOK
  <2>0c. Queued' = Queued
    BY <1>4 DEF Release, Queued
  <2>1. t \in Owners /\ Owners' = Owners \ {t} /\ Queued' = Queued /\ t \notin Queued
    BY <2>0a, <2>0b, <2>0c
  <2>2. Status[t] = "in" /\ Status' = [Status EXCEPT ![t] = "out"]
    BY <2>1 DEF Status
  <2> QED
    BY <2>2 DEF Promise!Leave
<1>5. ASSUME NEW t \in Threads, GrantOne(t) PROVE \E i \in Threads : Promise!Grant(i)
  <2>1. PICK i \in Queued : order' = RR!Serve(order, i) /\ granted' = granted \cup {i}
    BY <1>5 DEF GrantOne
  <2>2. i \in Threads /\ i \notin granted /\ pc[i] \in InLoop \cup {"unwind"}
    BY <1>0 DEF TicketsMatchThreads
  <2>3. Queued' = Queued \ {i}
    BY <1>0, <2>1, <2>2, OrdersCount, ServeUnqueues DEF TypeOK, Queued
  <2>4. i \notin Owners /\ Owners' = Owners \cup {i}
    BY <1>0, <1>5, <2>1, <2>2 DEF GrantOne, Owners, TypeOK, InLoop
  <2>5. Status[i] = "waiting" /\ Status' = [Status EXCEPT ![i] = "in"]
    BY <2>2, <2>3, <2>4 DEF Status
  <2>6. running < Slots
    BY <1>5 DEF GrantOne, HasRoom
  <2>7. Promise!Grant(i)
    BY <1>0, <2>5, <2>6, SameCardinality DEF Promise!Grant
  <2> QED
    BY <2>2, <2>7
<1>6. ASSUME NEW t \in Threads,
             \/ CheckGranted(t) \/ CheckWaiting(t) \/ Tell(t) \/ Ask(t) \/ Quit(t)
             \/ Park(t) \/ Wake(t) \/ Welcome(t) \/ Exit(t) \/ GrantDone(t)
      PROVE UNCHANGED Status
  <2>1. Owners' = Owners
    <3>1. CASE GrantDone(t)
      BY <1>0, <3>1, ResourceQueueAssumption DEF GrantDone, Goto, Owners, TypeOK, GrantsAreLive
    <3>2. CASE Welcome(t)
      BY <1>0, <3>2, ResourceQueueAssumption DEF Welcome, Goto, Owners, TypeOK, GrantsAreLive
    <3>3. CASE Exit(t)
      BY <1>0, <3>3 DEF Exit, Goto, Owners, TypeOK
    <3>4. CASE CheckGranted(t) \/ Quit(t)
      BY <1>0, <3>4 DEF CheckGranted, Quit, Goto, Owners, TypeOK
    <3>5. CASE CheckWaiting(t) \/ Tell(t) \/ Ask(t) \/ Park(t) \/ Wake(t)
      <4>1. /\ pc[t] \in InLoop
            /\ \E place \in InLoop \cup {"unwind"} : pc' = [pc EXCEPT ![t] = place]
            /\ UNCHANGED <<granted, granting>>
        BY <3>5 DEF CheckWaiting, Tell, Ask, Park, Wake, Goto, InLoop
      <4> QED
        BY <1>0, <4>1 DEF Owners, TypeOK, InLoop
    <3> QED
      BY <1>6, <3>1, <3>2, <3>3, <3>4, <3>5
  <2>2. Queued' = Queued
    BY <1>6 DEF CheckGranted, CheckWaiting, Tell, Ask, Quit, Park, Wake, Welcome, Exit,
                GrantDone, Queued
  <2> QED
    BY <2>1, <2>2 DEF Status
<1>7. CASE UNCHANGED vars
  BY <1>7 DEF vars, Status, Owners, Queued
<1> QED
  BY <1>1, <1>2, <1>3, <1>4, <1>5, <1>6, <1>7 DEF Next, Waits, Frees, Promise!Next

\* ResourceQueue implements Admission: no newcomer takes a slot past a waiter, and
\* slots and waiting room keep their limits, for every interleaving.
THEOREM QueueAdmits == Spec => Admits
<1>1. Init => Promise!Init
  <2> SUFFICES ASSUME Init PROVE Promise!Init
    OBVIOUS
  <2>1. Owners = {} /\ Queued = {}
    BY DEF Init, Owners, Queued, RR!Queued, RR!EmptyOrder
  <2> QED
    BY <2>1 DEF Promise!Init, Status
<1> QED
  BY <1>1, StepAdmits, Invariance, PTL DEF Spec, Admits, Promise!Spec

-----------------------------------------------------------------------------
(* FairOrder, the data behind the order of the tickets, for any items and keys.         *)
(* Where the stamps matter, every key has room for its own (Roomy).                     *)

\* The instances' Cardinality is Cardinality.
LEMMA SameCounts ==
  ASSUME NEW S
  PROVE  ByRank!Cardinality(S) = Cardinality(S)
  BY DEF ByRank!Cardinality, Cardinality

\* A set of numbers has a least one.
LEMMA LeastOf ==
  ASSUME NEW S \in SUBSET Nat, S # {}
  PROVE  \E n \in S : \A m \in S : n <= m
<1>1. PICK n \in S : \A m \in S : ~(<<m, n>> \in OpToRel(<, Nat))
  BY WFMin, NatLessThanWellFounded
<1>2. \A m \in S : ~(m < n)
  BY <1>1 DEF OpToRel
<1> QED
  BY <1>2

Place(D, x) == Cardinality({y \in D : y <= x})

\* The places of a finite set of numbers by size, each taken once.
LEMMA Placed ==
  ASSUME NEW D \in SUBSET Nat, IsFiniteSet(D)
  PROVE  /\ Cardinality(D) \in Nat
         /\ \A x \in D : Place(D, x) \in 1..Cardinality(D)
         /\ \A x, y \in D : x < y => Place(D, x) < Place(D, y)
         /\ \A p \in 1..Cardinality(D) : \E x \in D : Place(D, x) = p
<1> DEFINE Upto(x) == {y \in D : y <= x}
           N == Cardinality(D)
<1>1. N \in Nat
  BY FS_CardinalityType
<1>2. ASSUME NEW x \in D PROVE Place(D, x) \in 1..N
  <2>1. Upto(x) \in SUBSET D /\ x \in Upto(x)
    OBVIOUS
  <2>2. IsFiniteSet(Upto(x)) /\ Cardinality(Upto(x)) <= N
    BY <2>1, FS_Subset
  <2>3. Cardinality(Upto(x)) \in Nat /\ Cardinality(Upto(x)) # 0
    BY <2>1, <2>2, FS_CardinalityType, FS_EmptySet
  <2> QED
    BY <1>1, <2>2, <2>3 DEF Place
<1>3. ASSUME NEW x \in D, NEW y \in D, x < y PROVE Place(D, x) < Place(D, y)
  <2>1. Upto(x) \in SUBSET Upto(y) /\ Upto(x) # Upto(y) /\ Upto(y) \in SUBSET D
    <3>1. x \in Nat /\ y \in Nat /\ D \subseteq Nat
      OBVIOUS
    <3>2. y \in Upto(y) /\ y \notin Upto(x)
      BY <1>3, <3>1
    <3>3. \A z \in Upto(x) : z \in Upto(y)
      BY <1>3, <3>1
    <3> QED
      BY <3>2, <3>3
  <2>2. IsFiniteSet(Upto(y))
    BY <2>1, FS_Subset
  <2>3. Cardinality(Upto(x)) <= Cardinality(Upto(y)) /\ Cardinality(Upto(x)) # Cardinality(Upto(y))
    BY <2>1, <2>2, FS_Subset
  <2>4. Place(D, x) \in Int /\ Place(D, y) \in Int
    BY <1>1, <1>2
  <2> QED
    BY <2>3, <2>4 DEF Place
<1>4. ASSUME NEW p \in 1..N PROVE \E x \in D : Place(D, x) = p
  <2> DEFINE f == [x \in D |-> Place(D, x)]
  <2>1. f \in Injection(D, 1..N)
    <3>1. \A x, y \in D : x # y => Place(D, x) # Place(D, y)
      <4> SUFFICES ASSUME NEW x \in D, NEW y \in D, x # y PROVE Place(D, x) # Place(D, y)
        OBVIOUS
      <4>1. x < y \/ y < x
        OBVIOUS
      <4>2. Place(D, x) \in Int /\ Place(D, y) \in Int
        BY <1>1, <1>2
      <4> QED
        BY <1>3, <4>1, <4>2
    <3>2. f \in [D -> 1..N]
      BY <1>2
    <3> QED
      BY <3>1, <3>2 DEF Injection, IsInjective
  <2>2. IsFiniteSet(1..N) /\ Cardinality(1..N) = N
    BY <1>1, FS_Interval
  <2>3. f \in Surjection(D, 1..N)
    BY <2>1, <2>2, FS_Injection
  <2> QED
    BY <2>3 DEF Surjection
<1> QED
  BY <1>1, <1>2, <1>3, <1>4

-----------------------------------------------------------------------------
(* What stays of a line *)

\* Of the line q without the items of S, w is left, each entry in its order: at tells
\* where it was.
Thins(q, w, S) ==
    \E at \in [DOMAIN w -> DOMAIN q] :
       /\ \A p \in DOMAIN w : w[p] = q[at[p]] /\ q[at[p]].item \notin S
       /\ \A p, r \in DOMAIN w : p < r => at[p] < at[r]
       /\ \A x \in DOMAIN q : q[x].item \notin S => \E p \in DOMAIN w : at[p] = x

\* What remove_where and pop leave of a line.
LEMMA Stays ==
  ASSUME NEW E, NEW q \in Seq(E), NEW S, NEW w, w = Without(q, S)
  PROVE  /\ w \in Seq(E)
         /\ Thins(q, w, S)
<1> DEFINE kept == {x \in DOMAIN q : q[x].item \notin S}
           N == Cardinality(kept)
           at == [p \in 1..N |-> CHOOSE x \in kept : Place(kept, x) = p]
<1>1. kept \in SUBSET (1..Len(q)) /\ Len(q) \in Nat
  OBVIOUS
<1>2. kept \in SUBSET Nat /\ IsFiniteSet(kept)
  <2>1. IsFiniteSet(1..Len(q))
    BY <1>1, FS_Interval
  <2> QED
    BY <1>1, <2>1, FS_Subset
<1>3. w = [p \in 1..N |-> q[CHOOSE x \in kept : Place(kept, x) = p]]
  BY DEF Without, Place
<1>4. /\ N \in Nat
      /\ \A x \in kept : Place(kept, x) \in 1..N
      /\ \A x, y \in kept : x < y => Place(kept, x) < Place(kept, y)
      /\ \A p \in 1..N : \E x \in kept : Place(kept, x) = p
  BY <1>2, Placed
<1>5. \A x \in kept : x \in DOMAIN q /\ q[x].item \notin S
  OBVIOUS
<1>6. \A x \in DOMAIN q : q[x].item \notin S => x \in kept
  OBVIOUS
<1> HIDE DEF kept, N
<1>7. \A p \in 1..N : at[p] \in kept /\ Place(kept, at[p]) = p
  BY <1>4
<1>8. \A p \in 1..N : w[p] = q[at[p]]
  BY <1>3
<1>9. DOMAIN w = 1..N /\ Len(w) = N /\ w \in Seq(E)
  <2>1. \A p \in 1..N : w[p] \in E
    BY <1>5, <1>7, <1>8
  <2>2. w = [p \in 1..N |-> w[p]]
    BY <1>3
  <2>3. w \in [1..N -> E]
    BY <2>1, <2>2
  <2> QED
    BY <1>4, <2>3
<1>10. at \in [DOMAIN w -> DOMAIN q]
  BY <1>5, <1>7, <1>9
<1> HIDE DEF at
<1>11. ASSUME NEW p \in 1..N, NEW r \in 1..N, p < r PROVE at[p] < at[r]
  <2>1. at[p] \in kept /\ at[r] \in kept /\ at[p] \in Nat /\ at[r] \in Nat
    BY <1>2, <1>7
  <2>2. Place(kept, at[p]) = p /\ Place(kept, at[r]) = r
    BY <1>7
  <2>3. ~(at[r] < at[p]) /\ at[p] # at[r]
    BY <1>4, <1>11, <2>1, <2>2
  <2> QED
    BY <2>1, <2>3
<1>12. ASSUME NEW x \in kept PROVE \E p \in 1..N : at[p] = x
  <2> DEFINE p == Place(kept, x)
  <2>1. p \in 1..N /\ at[p] \in kept /\ Place(kept, at[p]) = p
    BY <1>4, <1>7
  <2>2. x \in Nat /\ at[p] \in Nat
    BY <1>2, <2>1
  <2>3. ~(x < at[p]) /\ ~(at[p] < x)
    BY <1>4, <2>1, <2>2
  <2> QED
    BY <2>1, <2>2, <2>3
<1>13. /\ \A p \in DOMAIN w : w[p] = q[at[p]] /\ q[at[p]].item \notin S
       /\ \A p, r \in DOMAIN w : p < r => at[p] < at[r]
       /\ \A x \in DOMAIN q : q[x].item \notin S => \E p \in DOMAIN w : at[p] = x
  BY <1>5, <1>6, <1>7, <1>8, <1>9, <1>11, <1>12
<1> QED
  BY <1>9, <1>10, <1>13 DEF Thins


\* A line that holds none of S.
LEMMA Untouched ==
  ASSUME NEW E, NEW q \in Seq(E), NEW S, \A x \in DOMAIN q : q[x].item \notin S
  PROVE  Thins(q, q, S)
<1> DEFINE at == [p \in DOMAIN q |-> p]
<1>1. /\ at \in [DOMAIN q -> DOMAIN q]
      /\ \A p \in DOMAIN q : at[p] = p
  OBVIOUS
<1> HIDE DEF at
<1> QED
  BY <1>1 DEF Thins

\* The entries lie under their keys by arrival, and no two have the same number or
\* the same item.
Numbered(qs) ==
    /\ qs \in [Keys -> Seq(Entries)]
    /\ \A k \in Keys : \A x \in DOMAIN qs[k] : KeyOf[qs[k][x].item] = k /\ qs[k][x].n > 0
    /\ \A k \in Keys : \A x, y \in DOMAIN qs[k] : x < y => qs[k][x].n < qs[k][y].n
    /\ \A k, l \in Keys : \A x \in DOMAIN qs[k], y \in DOMAIN qs[l] :
          qs[k][x].n = qs[l][y].n \/ qs[k][x].item = qs[l][y].item => k = l /\ x = y

\* An entry that waits.
Entry(qs, e) == \E k \in Keys : \E x \in DOMAIN qs[k] : e = qs[k][x]

\* A line, its places and its items.
LEMMA LinesAreTyped ==
  ASSUME NEW qs \in [Keys -> Seq(Entries)], NEW k \in Keys
  PROVE  /\ qs[k] \in Seq(Entries) /\ Len(qs[k]) \in Nat
         /\ DOMAIN qs[k] = 1..Len(qs[k])
         /\ (qs[k] = <<>> <=> DOMAIN qs[k] = {})
         /\ \A x \in DOMAIN qs[k] : /\ qs[k][x] \in Entries
                                    /\ qs[k][x].n \in Nat /\ qs[k][x].item \in Items
                                    /\ qs[k][x] = [n |-> qs[k][x].n, item |-> qs[k][x].item]
         /\ ItemsIn(qs[k]) = {qs[k][x].item : x \in DOMAIN qs[k]}
<1>1. qs[k] \in Seq(Entries)
  OBVIOUS
<1>2. /\ Len(qs[k]) \in Nat /\ DOMAIN qs[k] = 1..Len(qs[k])
      /\ \A x \in DOMAIN qs[k] : qs[k][x] \in Entries
      /\ (qs[k] = <<>> <=> Len(qs[k]) = 0)
  BY <1>1
<1>3. \A e \in Entries : /\ e.n \in Nat /\ e.item \in Items
                         /\ e = [n |-> e.n, item |-> e.item]
  BY DEF Entries
<1>4. ItemsIn(qs[k]) = {qs[k][x].item : x \in 1..Len(qs[k])}
  BY DEF ItemsIn
<1>5. qs[k] = <<>> <=> DOMAIN qs[k] = {}
  <2>1. \A n \in Nat : n = 0 <=> 1..n = {}
    <3>1. \A n \in Nat : n # 0 => 1 \in 1..n
      OBVIOUS
    <3>2. 1..0 = {}
      OBVIOUS
    <3> QED
      BY <3>1, <3>2
  <2> QED
    BY <1>2, <2>1
<1>6. \A x \in DOMAIN qs[k] : /\ qs[k][x] \in Entries
                              /\ qs[k][x].n \in Nat /\ qs[k][x].item \in Items
                              /\ qs[k][x] = [n |-> qs[k][x].n, item |-> qs[k][x].item]
  BY <1>2, <1>3
<1>7. ItemsIn(qs[k]) = {qs[k][x].item : x \in DOMAIN qs[k]}
  BY <1>2, <1>4
<1> QED
  BY <1>1, <1>2, <1>5, <1>6, <1>7

\* An entry that waits has a number and an item.
LEMMA EntriesAreTyped ==
  ASSUME NEW qs, Numbered(qs), NEW e, Entry(qs, e)
  PROVE  /\ e.n \in Nat /\ e.n > 0 /\ e.item \in Items
         /\ e = [n |-> e.n, item |-> e.item]
<1>1. PICK k \in Keys : \E x \in DOMAIN qs[k] : e = qs[k][x]
  BY DEF Entry
<1>2. qs \in [Keys -> Seq(Entries)] /\ e.n > 0
  BY <1>1 DEF Numbered
<1>3. \A x \in DOMAIN qs[k] : qs[k][x] \in Entries
  BY <1>2
<1>4. e \in Entries
  BY <1>1, <1>3
<1> QED
  BY <1>2, <1>4 DEF Entries

\* Lines that are thinned stay numbered, and exactly the items of S have left.
LEMMA ThinnedNumbered ==
  ASSUME NEW qs, NEW rs, Numbered(qs), rs \in [Keys -> Seq(Entries)], NEW S,
         \A k \in Keys : Thins(qs[k], rs[k], S)
  PROVE  /\ Numbered(rs)
         /\ \A e : Entry(rs, e) <=> Entry(qs, e) /\ e.item \notin S
<1>1. qs \in [Keys -> Seq(Entries)]
  BY DEF Numbered
<1>2. \A k \in Keys : \A x \in DOMAIN rs[k] :
        \E y \in DOMAIN qs[k] : rs[k][x] = qs[k][y] /\ qs[k][y].item \notin S
  BY DEF Thins
<1>3. \A k \in Keys : \A x \in DOMAIN qs[k] :
        qs[k][x].item \notin S => \E p \in DOMAIN rs[k] : rs[k][p] = qs[k][x]
  BY DEF Thins
<1>4. ASSUME NEW k \in Keys, NEW x \in DOMAIN rs[k], NEW y \in DOMAIN rs[k], x < y
      PROVE  rs[k][x].n < rs[k][y].n
  <2>1. PICK at \in [DOMAIN rs[k] -> DOMAIN qs[k]] :
           /\ \A p \in DOMAIN rs[k] : rs[k][p] = qs[k][at[p]] /\ qs[k][at[p]].item \notin S
           /\ \A p, r \in DOMAIN rs[k] : p < r => at[p] < at[r]
    BY DEF Thins
  <2> QED
    BY <1>4, <2>1 DEF Numbered
<1>5. ASSUME NEW k \in Keys, NEW l \in Keys, NEW x \in DOMAIN rs[k], NEW y \in DOMAIN rs[l],
             rs[k][x].n = rs[l][y].n \/ rs[k][x].item = rs[l][y].item
      PROVE  k = l /\ x = y
  <2>1. k = l
    BY <1>2, <1>5 DEF Numbered
  <2>2. PICK at \in [DOMAIN rs[k] -> DOMAIN qs[k]] :
           /\ \A p \in DOMAIN rs[k] : rs[k][p] = qs[k][at[p]] /\ qs[k][at[p]].item \notin S
           /\ \A p, r \in DOMAIN rs[k] : p < r => at[p] < at[r]
    BY DEF Thins
  <2>3. at[x] = at[y]
    BY <1>5, <2>1, <2>2 DEF Numbered
  <2>4. x \in Nat /\ y \in Nat /\ DOMAIN qs[k] \subseteq Nat
    BY <1>1, <2>1, LinesAreTyped
  <2>5. at[x] \in Nat /\ ~(at[x] < at[x])
    BY <2>2, <2>4
  <2>6. ~(x < y) /\ ~(y < x)
    BY <2>1, <2>2, <2>3, <2>5
  <2> QED
    BY <2>1, <2>4, <2>6
<1>6. Numbered(rs)
  BY <1>2, <1>4, <1>5 DEF Numbered
<1>7. \A e : Entry(rs, e) <=> Entry(qs, e) /\ e.item \notin S
  BY <1>2, <1>3 DEF Entry
<1> QED
  BY <1>6, <1>7

-----------------------------------------------------------------------------
(* Which item is picked *)

\* A key has an accepted item when one of its entries is.
LEMMA AcceptedKeys ==
  ASSUME NEW qs, Numbered(qs), NEW E, NEW k
  PROVE  k \in KeysWith(qs, E) <=> k \in Keys /\ \E x \in DOMAIN qs[k] : qs[k][x].item \in E
<1>1. ASSUME k \in Keys PROVE ItemsIn(qs[k]) = {qs[k][x].item : x \in DOMAIN qs[k]}
  <2>1. qs \in [Keys -> Seq(Entries)]
    BY DEF Numbered
  <2> QED
    BY <1>1, <2>1, LinesAreTyped
<1>2. k \in KeysWith(qs, E) <=> k \in Keys /\ ItemsIn(qs[k]) \cap E # {}
  BY DEF KeysWith
<1> QED
  BY <1>1, <1>2

\* The first accepted entry of a line exists, and has the least number of those.
LEMMA FirstAccepted ==
  ASSUME NEW qs, Numbered(qs), NEW E, NEW k \in KeysWith(qs, E)
  PROVE  LET x == FirstIn(qs[k], E)
         IN  /\ x \in DOMAIN qs[k] /\ qs[k][x].item \in E
             /\ \A y \in DOMAIN qs[k] : qs[k][y].item \in E /\ y # x => qs[k][x].n < qs[k][y].n
<1> DEFINE T == {x \in DOMAIN qs[k] : qs[k][x].item \in E}
<1>1. /\ k \in Keys /\ qs \in [Keys -> Seq(Entries)]
      /\ DOMAIN qs[k] = 1..Len(qs[k]) /\ Len(qs[k]) \in Nat
      /\ T # {} /\ T \subseteq Nat
  <2>1. k \in Keys /\ T # {} /\ qs \in [Keys -> Seq(Entries)]
    BY AcceptedKeys DEF Numbered
  <2>2. DOMAIN qs[k] = 1..Len(qs[k]) /\ Len(qs[k]) \in Nat
    BY <2>1, LinesAreTyped
  <2>3. T \subseteq Nat
    BY <2>2
  <2> QED
    BY <2>1, <2>2, <2>3
<1> HIDE DEF T
<1>2. PICK x \in T : \A y \in T : x <= y
  BY <1>1, LeastOf
<1>3. /\ x \in 1..Len(qs[k]) /\ qs[k][x].item \in E
      /\ \A y \in 1..(x-1) : qs[k][y].item \notin E
  <2>1. \A y \in 1..(x-1) : y \in DOMAIN qs[k] /\ ~(x <= y)
    BY <1>1, <1>2 DEF T
  <2> QED
    BY <1>1, <1>2, <2>1 DEF T
<1> DEFINE f == FirstIn(qs[k], E)
<1>4. /\ f \in 1..Len(qs[k]) /\ qs[k][f].item \in E
      /\ \A y \in 1..(f-1) : qs[k][y].item \notin E
  BY <1>3 DEF FirstIn
<1> HIDE DEF f
<1>5. ASSUME NEW y \in DOMAIN qs[k], qs[k][y].item \in E, y # f PROVE qs[k][f].n < qs[k][y].n
  <2>1. f < y
    BY <1>1, <1>4, <1>5
  <2> QED
    BY <1>1, <1>4, <2>1 DEF Numbered
<1> QED
  BY <1>1, <1>4, <1>5 DEF f

\* Of the keys with an accepted item one is best.
LEMMA BestIsBest ==
  ASSUME NEW qs, Numbered(qs), NEW sv \in [Keys -> Nat], NEW E, KeysWith(qs, E) # {}
  PROVE  LET b == BestKey(qs, sv, E)
         IN  /\ b \in KeysWith(qs, E)
             /\ \A a \in KeysWith(qs, E) \ {b} : RanksBefore(qs, sv, E, b, a)
<1> DEFINE K == KeysWith(qs, E)
           num(k) == qs[k][FirstIn(qs[k], E)].n
           L == {k \in K : \A l \in K : sv[k] <= sv[l]}
<1>1. K \subseteq Keys /\ \A k \in K : sv[k] \in Nat
  BY DEF KeysWith
<1>2. \A k \in K : num(k) \in Nat
  BY <1>1, FirstAccepted, LinesAreTyped DEF Numbered
<1>3. ASSUME NEW k \in K, NEW l \in K, num(k) = num(l) PROVE k = l
  <2>1. \A j \in K : FirstIn(qs[j], E) \in DOMAIN qs[j]
    BY FirstAccepted
  <2> QED
    BY <1>1, <1>3, <2>1 DEF Numbered
<1> HIDE DEF K, num
<1>4. L # {}
  <2> DEFINE S == {sv[k] : k \in K}
  <2>1. S \in SUBSET Nat /\ S # {}
    BY <1>1 DEF K
  <2>2. PICK n \in S : \A m \in S : n <= m
    BY <2>1, LeastOf
  <2>3. PICK k \in K : sv[k] = n
    OBVIOUS
  <2> QED
    BY <2>2, <2>3
<1>5. PICK b \in L : \A a \in L : num(b) <= num(a)
  <2> DEFINE S == {num(k) : k \in L}
  <2>1. S \in SUBSET Nat /\ S # {}
    BY <1>2, <1>4
  <2>2. PICK n \in S : \A m \in S : n <= m
    BY <2>1, LeastOf
  <2>3. PICK k \in L : num(k) = n
    OBVIOUS
  <2> QED
    BY <2>2, <2>3
<1>6. \A a \in K \ {b} : sv[b] < sv[a] \/ (sv[b] = sv[a] /\ num(b) < num(a))
  <2> TAKE a \in K \ {b}
  <2>1. b \in K /\ sv[b] <= sv[a] /\ sv[a] \in Nat /\ sv[b] \in Nat /\ num(a) \in Nat /\ num(b) \in Nat
    BY <1>1, <1>2
  <2>2. CASE sv[b] = sv[a]
    <3>1. a \in L
      BY <2>2
    <3> QED
      BY <1>3, <1>5, <2>1, <2>2, <3>1
  <2> QED
    BY <2>1, <2>2
<1>7. \A a \in K \ {b} : RanksBefore(qs, sv, E, b, a)
  BY <1>6 DEF RanksBefore, num
<1>8. b \in K
  OBVIOUS
<1> QED
  BY <1>7, <1>8 DEF BestKey, K

\* The entry x of key b holds the item i of E, and goes before all others of E.
GoesFirst(qs, sv, E, i, b, x) ==
    /\ qs[b][x].item = i /\ i \in Items /\ i \in E /\ KeyOf[i] = b
    /\ \A a \in Keys : \A y \in DOMAIN qs[a] :
          qs[a][y].item \in E \ {i} =>
             \/ sv[b] < sv[a]
             \/ sv[b] = sv[a] /\ qs[b][x].n < qs[a][y].n

\* The picked item is the first accepted one of the best key.
LEMMA PickIsBest ==
  ASSUME NEW qs, Numbered(qs), NEW sv \in [Keys -> Nat], NEW E, KeysWith(qs, E) # {},
         NEW i, i = Picked(qs, sv, E)
  PROVE  \E b \in KeysWith(qs, E) : \E x \in DOMAIN qs[b] :
            b \in Keys /\ GoesFirst(qs, sv, E, i, b, x)
<1> DEFINE b == BestKey(qs, sv, E)
           x == FirstIn(qs[b], E)
<1>1. /\ b \in KeysWith(qs, E)
      /\ \A a \in KeysWith(qs, E) \ {b} : RanksBefore(qs, sv, E, b, a)
  BY BestIsBest
<1>2. b \in Keys /\ i = qs[b][x].item
  BY <1>1 DEF KeysWith, Picked
<1> HIDE DEF b
<1>3. /\ x \in DOMAIN qs[b] /\ i \in E
      /\ \A y \in DOMAIN qs[b] : qs[b][y].item \in E /\ y # x => qs[b][x].n < qs[b][y].n
  BY <1>1, <1>2, FirstAccepted
<1>4. i \in Items /\ KeyOf[i] = b
  <2>1. qs[b][x].item \in Items
    BY <1>2, <1>3, LinesAreTyped DEF Numbered
  <2>2. KeyOf[qs[b][x].item] = b
    BY <1>2, <1>3 DEF Numbered
  <2> QED
    BY <1>2, <2>1, <2>2
<1>5. ASSUME NEW a \in Keys, NEW y \in DOMAIN qs[a], qs[a][y].item \in E \ {i}
      PROVE  sv[b] < sv[a] \/ (sv[b] = sv[a] /\ qs[b][x].n < qs[a][y].n)
  <2>1. CASE a = b
    BY <1>2, <1>3, <1>5, <2>1
  <2>2. CASE a # b
    <3>1. a \in KeysWith(qs, E)
      BY <1>5, AcceptedKeys
    <3> DEFINE z == FirstIn(qs[a], E)
    <3>2. z \in DOMAIN qs[a] /\ (y # z => qs[a][z].n < qs[a][y].n)
      BY <1>5, <3>1, FirstAccepted
    <3>3. sv[b] < sv[a] \/ (sv[b] = sv[a] /\ qs[b][x].n < qs[a][z].n)
      BY <1>1, <2>2, <3>1 DEF RanksBefore
    <3> HIDE DEF x, z
    <3>4. qs[b][x].n \in Nat /\ qs[a][z].n \in Nat /\ qs[a][y].n \in Nat
      BY <1>2, <1>3, <3>2, LinesAreTyped DEF Numbered
    <3> QED
      BY <3>2, <3>3, <3>4
  <2> QED
    BY <2>1, <2>2
<1> HIDE DEF x
<1> QED
  BY <1>1, <1>2, <1>3, <1>4, <1>5 DEF GoesFirst

-----------------------------------------------------------------------------
(* Nobody is overtaken twice *)

\* What the lines and the stamps are: arrivals and stamps given so far are bounded by their
\* counters, and no stamp is given twice.
FairTypes ==
    /\ Numbered(queues)
    /\ arrivals \in Nat /\ stamp \in Nat
    /\ \A e : Entry(queues, e) => e.n <= arrivals
    /\ served \in [Keys -> Nat]
    /\ \A k \in Keys : served[k] <= stamp
    /\ \A j, k \in Keys : served[j] = served[k] /\ served[j] > 0 => j = k
    /\ (\A k \in Keys : queues[k] = <<>>) => \A k \in Keys : served[k] = 0

\* A key that was served while another waited has the younger stamp.
FairTurns ==
    /\ turns \in [Keys -> [Keys -> Nat]]
    /\ \A a, b \in Keys :
          /\ turns[a][b] <= 1
          /\ turns[a][b] > 0 => queues[a] # <<>> /\ served[a] < served[b]

FairInv == FairTypes /\ FairTurns

\* Every key has room for its stamp.
Roomy == FairOrderAssumption /\ MaxStamps >= Cardinality(Keys)

\* Stamps not above n, each given to one key, and none while nobody waits.
StampsFit(qs, sv, n) ==
    /\ sv \in [Keys -> Nat] /\ \A k \in Keys : sv[k] <= n
    /\ \A j, k \in Keys : sv[j] = sv[k] /\ sv[j] > 0 => j = k
    /\ (\A k \in Keys : qs[k] = <<>>) => \A k \in Keys : sv[k] = 0

\* _trim takes stamps away and changes none.
LEMMA TrimFits ==
  ASSUME NEW qs, NEW n \in Nat, NEW sv \in [Keys -> Nat], \A k \in Keys : sv[k] <= n,
         \A j, k \in Keys : sv[j] = sv[k] /\ sv[j] > 0 => j = k
  PROVE  StampsFit(qs, Trim(qs, sv), n)
<1> DEFINE t == Trim(qs, sv)
<1>1. t \in [Keys -> Nat] /\ \A k \in Keys : t[k] = 0 \/ t[k] = sv[k]
  BY DEF Trim
<1>2. (\A k \in Keys : qs[k] = <<>>) => \A k \in Keys : t[k] = 0
  BY DEF Trim, WaitingKeys
<1> HIDE DEF t
<1>3. \A k \in Keys : t[k] <= n
  BY <1>1
<1>4. \A j, k \in Keys : t[j] = t[k] /\ t[j] > 0 => j = k
  BY <1>1
<1> QED
  BY <1>1, <1>2, <1>3, <1>4 DEF t, StampsFit

\* _trim with room for all: it forgets everything when nobody waits, else nothing.
LEMMA TrimsAtOnce ==
  ASSUME Roomy, NEW qs, NEW sv \in [Keys -> Nat]
  PROVE  Trim(qs, sv) = IF \A k \in Keys : qs[k] = <<>> THEN [k \in Keys |-> 0] ELSE sv
<1> DEFINE stamped == {k \in Keys : sv[k] > 0}
           idle == stamped \ WaitingKeys(qs)
           excess == IF Cardinality(stamped) > MaxStamps
                     THEN Cardinality(stamped) - MaxStamps ELSE 0
           dropped == {k \in idle : Cardinality({l \in idle : sv[l] < sv[k]}) < excess}
<1>1. Trim(qs, sv) = IF WaitingKeys(qs) = {} THEN [k \in Keys |-> 0]
                          ELSE [k \in Keys |-> IF k \in dropped THEN 0 ELSE sv[k]]
  BY DEF Trim
<1>2. IsFiniteSet(Keys)
  BY FairOrderAssumption
<1>3. Cardinality(stamped) <= Cardinality(Keys) /\ Cardinality(stamped) \in Nat /\ Cardinality(Keys) \in Nat
  <2>1. stamped \in SUBSET Keys
    OBVIOUS
  <2> HIDE DEF stamped
  <2> QED
    BY <1>2, <2>1, FS_Subset, FS_CardinalityType
<1>4. excess = 0
  BY <1>3 DEF Roomy, FairOrderAssumption
<1>5. dropped = {}
  <2>1. \A S \in SUBSET Keys : Cardinality(S) \in Nat
    BY <1>2, FS_Subset, FS_CardinalityType
  <2>2. \A k \in idle : {l \in idle : sv[l] < sv[k]} \in SUBSET Keys
    OBVIOUS
  <2> HIDE DEF idle, excess
  <2> QED
    BY <1>4, <2>1, <2>2
<1>6. WaitingKeys(qs) = {} <=> \A k \in Keys : qs[k] = <<>>
  BY DEF WaitingKeys
<1> HIDE DEF dropped
<1> QED
  BY <1>1, <1>5, <1>6

\* What waits, as entries.
LEMMA WaitingAreEntries ==
  ASSUME NEW qs, Numbered(qs)
  PROVE  \A i : i \in Waiting(qs) <=> \E e : Entry(qs, e) /\ e.item = i
<1>1. \A k \in Keys : ItemsIn(qs[k]) = {qs[k][x].item : x \in DOMAIN qs[k]}
  <2>1. qs \in [Keys -> Seq(Entries)]
    BY DEF Numbered
  <2> QED
    BY <2>1, LinesAreTyped
<1> QED
  BY <1>1 DEF Waiting, Entry

\* push puts one entry, with the newest number, at the end of its key's line.
LEMMA Pushes ==
  ASSUME FairOrderAssumption, FairTypes, NEW i \in Items, Push(i)
  PROVE  /\ Numbered(queues') /\ arrivals' \in Nat /\ arrivals' = arrivals + 1
         /\ \A e : Entry(queues, e)' <=> Entry(queues, e) \/ e = [n |-> arrivals + 1, item |-> i]
         /\ \A k \in Keys : queues[k] # <<>> => queues'[k] # <<>>
         /\ \A e : Entry(queues, e) => e.item # i
<1> DEFINE k == KeyOf[i]
           new == [n |-> arrivals + 1, item |-> i]
           q == queues[k]
<1>1. k \in Keys
  BY FairOrderAssumption
<1>2. new \in Entries /\ new.n = arrivals + 1 /\ new.item = i
  BY DEF FairTypes, Entries
<1>3. queues \in [Keys -> Seq(Entries)]
  BY DEF FairTypes, Numbered
<1>4. q \in Seq(Entries) /\ Len(q) \in Nat /\ DOMAIN q = 1..Len(q)
  BY <1>1, <1>3
<1>5. queues' = [queues EXCEPT ![k] = Append(q, new)]
  BY <1>1, <1>3 DEF Push, Joined
<1>6. \A e : Entry(queues, e) => e.item # i
  BY WaitingAreEntries DEF Push, FairTypes
<1> HIDE DEF k, new, q
<1> DEFINE r == Append(q, new)
<1>7. /\ r \in Seq(Entries) /\ DOMAIN r = 1..(Len(q) + 1)
      /\ \A x \in 1..Len(q) : r[x] = q[x]
      /\ r[Len(q) + 1] = new
  BY <1>2, <1>4
<1> HIDE DEF r
<1>8. /\ queues' \in [Keys -> Seq(Entries)]
      /\ queues'[k] = r /\ \A l \in Keys \ {k} : queues'[l] = queues[l]
  BY <1>1, <1>3, <1>5, <1>7 DEF r
<1>9. \A l \in Keys : \A x \in DOMAIN queues'[l] :
         \/ x \in DOMAIN queues[l] /\ queues'[l][x] = queues[l][x]
         \/ l = k /\ x = Len(q) + 1 /\ queues'[l][x] = new
  BY <1>4, <1>7, <1>8 DEF q
<1>10. \A l \in Keys : \A x \in DOMAIN queues[l] : x \in DOMAIN queues'[l] /\ queues'[l][x] = queues[l][x]
  <2>1. \A x \in DOMAIN q : x \in DOMAIN r /\ r[x] = q[x]
    BY <1>4, <1>7
  <2> QED
    BY <1>8, <2>1 DEF q
<1>11. Len(q) + 1 \in DOMAIN queues'[k] /\ queues'[k][Len(q) + 1] = new
  BY <1>4, <1>7, <1>8
<1>12. \A e : Entry(queues, e)' <=> Entry(queues, e) \/ e = new
  BY <1>1, <1>9, <1>10, <1>11 DEF Entry
<1>13. \A l \in Keys : \A x \in DOMAIN queues[l] :
          /\ queues[l][x].n < new.n /\ queues[l][x].n \in Nat /\ queues[l][x].n > 0
          /\ queues[l][x].item # i /\ KeyOf[queues[l][x].item] = l
  <2> TAKE l \in Keys
  <2> TAKE x \in DOMAIN queues[l]
  <2>1. Entry(queues, queues[l][x])
    BY DEF Entry
  <2>2. queues[l][x].n <= arrivals /\ arrivals \in Nat /\ queues[l][x].n > 0 /\ KeyOf[queues[l][x].item] = l
    BY <2>1 DEF FairTypes, Numbered
  <2>3. queues[l][x].n \in Nat
    BY <1>3, LinesAreTyped
  <2> QED
    BY <1>2, <1>6, <2>1, <2>2, <2>3
<1>14. \A l \in Keys : \A x \in DOMAIN queues'[l] : KeyOf[queues'[l][x].item] = l /\ queues'[l][x].n > 0
  BY <1>2, <1>9, <1>13 DEF k, FairTypes
<1>15. ASSUME NEW l \in Keys, NEW x \in DOMAIN queues'[l], NEW y \in DOMAIN queues'[l], x < y
       PROVE  queues'[l][x].n < queues'[l][y].n
  <2>1. x # Len(q) + 1 \/ l # k
    <3>1. l = k => y <= Len(q) + 1
      BY <1>4, <1>7, <1>8
    <3>2. l = k => y \in Nat
      BY <1>4, <1>7, <1>8
    <3> QED
      BY <1>4, <1>15, <3>1, <3>2
  <2>2. x \in DOMAIN queues[l] /\ queues'[l][x] = queues[l][x]
    BY <1>9, <2>1
  <2>3. CASE y \in DOMAIN queues[l] /\ queues'[l][y] = queues[l][y]
    BY <1>15, <2>2, <2>3 DEF FairTypes, Numbered
  <2>4. CASE queues'[l][y] = new
    BY <1>13, <2>2, <2>4
  <2> QED
    BY <1>9, <2>3, <2>4
<1>16. ASSUME NEW l \in Keys, NEW m \in Keys, NEW x \in DOMAIN queues'[l], NEW y \in DOMAIN queues'[m],
              queues'[l][x].n = queues'[m][y].n \/ queues'[l][x].item = queues'[m][y].item
       PROVE  l = m /\ x = y
  <2>1. CASE l = k /\ x = Len(q) + 1 /\ queues'[l][x] = new
    <3>1. ~(y \in DOMAIN queues[m] /\ queues'[m][y] = queues[m][y])
      BY <1>2, <1>13, <1>16, <2>1
    <3> QED
      BY <1>9, <2>1, <3>1
  <2>2. CASE m = k /\ y = Len(q) + 1 /\ queues'[m][y] = new
    <3>1. ~(x \in DOMAIN queues[l] /\ queues'[l][x] = queues[l][x])
      BY <1>2, <1>13, <1>16, <2>2
    <3> QED
      BY <1>9, <2>2, <3>1
  <2>3. CASE x \in DOMAIN queues[l] /\ queues'[l][x] = queues[l][x] /\ y \in DOMAIN queues[m] /\ queues'[m][y] = queues[m][y]
    BY <1>16, <2>3 DEF FairTypes, Numbered
  <2> QED
    BY <1>9, <2>1, <2>2, <2>3
<1>17. Numbered(queues')
  BY <1>8, <1>14, <1>15, <1>16 DEF Numbered
<1>18. \A l \in Keys : queues[l] # <<>> => queues'[l] # <<>>
  <2>1. \A l \in Keys : queues[l] # <<>> => \E x : x \in DOMAIN queues[l]
    BY <1>3, LinesAreTyped
  <2>2. \A l \in Keys : (\E x : x \in DOMAIN queues'[l]) => queues'[l] # <<>>
    BY <1>8, LinesAreTyped
  <2> QED
    BY <1>10, <2>1, <2>2
<1>19. arrivals' = arrivals + 1 /\ arrivals' \in Nat
  BY DEF Push, FairTypes
<1> QED
  BY <1>6, <1>12, <1>17, <1>18, <1>19 DEF new

\* remove_where takes out the entries of S and no others.
LEMMA Removes ==
  ASSUME FairTypes, NEW S, RemoveWhere(S)
  PROVE  /\ Numbered(queues')
         /\ \A e : Entry(queues, e)' <=> Entry(queues, e) /\ e.item \notin S
         /\ served' = Trim(queues', served)
         /\ Roomy => served' = IF \A k \in Keys : queues'[k] = <<>> THEN [k \in Keys |-> 0] ELSE served
<1>1. Numbered(queues) /\ queues \in [Keys -> Seq(Entries)] /\ served \in [Keys -> Nat]
  BY DEF FairTypes, Numbered
<1>2. queues' = [k \in Keys |-> Without(queues[k], S)]
  BY DEF RemoveWhere
<1>3. \A k \in Keys : /\ Without(queues[k], S) \in Seq(Entries)
                      /\ Thins(queues[k], Without(queues[k], S), S)
  BY <1>1, Stays
<1>4. /\ queues' \in [Keys -> Seq(Entries)]
      /\ \A k \in Keys : Thins(queues[k], queues'[k], S)
  BY <1>2, <1>3
<1>5. served' = Trim(queues', served)
  BY DEF RemoveWhere
<1>6. Roomy => served' = IF \A k \in Keys : queues'[k] = <<>> THEN [k \in Keys |-> 0] ELSE served
  BY <1>1, <1>5, TrimsAtOnce
<1> QED
  BY <1>1, <1>4, <1>5, <1>6, ThinnedNumbered

\* pop takes out the entry of its item and stamps its key.
LEMMA Takes ==
  ASSUME FairTypes, NEW E, Pop(E)
  PROVE  \E b \in Keys : \E x \in DOMAIN queues[b] :
           LET i == queues[b][x].item
               sv == [served EXCEPT ![b] = stamp + 1]
               could == KeysWith(queues, E)
           IN  /\ b \in could /\ GoesFirst(queues, served, E, i, b, x)
               /\ \A a \in could : served[b] <= served[a]
               /\ Numbered(queues')
               /\ \A e : Entry(queues, e)' <=> Entry(queues, e) /\ e.item # i
               /\ sv \in [Keys -> Nat]
               /\ served' = Trim(queues', sv)
               /\ stamp' = stamp + 1 /\ arrivals' = arrivals
               /\ turns' = [a \in Keys |-> [c \in Keys |->
                              IF queues'[a] = <<>> \/ a = b THEN 0
                              ELSE IF c = b /\ a \in could THEN turns[a][c] + 1
                              ELSE turns[a][c]]]
<1> DEFINE i == Picked(queues, served, E)
           could == KeysWith(queues, E)
<1>1. Numbered(queues) /\ queues \in [Keys -> Seq(Entries)] /\ served \in [Keys -> Nat] /\ stamp \in Nat
  BY DEF FairTypes, Numbered
<1>2. could # {} /\ i = Picked(queues, served, E)
  BY DEF Pop
<1> HIDE DEF i
<1>3. PICK b \in could : \E x \in DOMAIN queues[b] :
            b \in Keys /\ GoesFirst(queues, served, E, i, b, x)
  BY <1>1, <1>2, PickIsBest
<1>4. PICK x \in DOMAIN queues[b] : b \in Keys /\ GoesFirst(queues, served, E, i, b, x)
  BY <1>3
<1>40. /\ queues[b][x].item = i /\ i \in Items /\ i \in E /\ KeyOf[i] = b
       /\ \A a \in Keys : \A y \in DOMAIN queues[a] :
             queues[a][y].item \in E \ {i} => served[b] <= served[a]
  BY <1>1, <1>4 DEF GoesFirst
<1> DEFINE sv == [served EXCEPT ![b] = stamp + 1]
<1> USE DEF i
<1>5. /\ queues' = [queues EXCEPT ![b] = Without(@, {i})]
      /\ served' = Trim(queues', Stamped(served, b, stamp + 1))
      /\ stamp' = stamp + 1 /\ arrivals' = arrivals
      /\ turns' = Counted([a \in Keys |-> [c \in Keys |->
                     IF a = b THEN 0
                     ELSE IF c = b /\ a \in could THEN turns[a][c] + 1
                     ELSE turns[a][c]]], queues')
  BY <1>4, <1>40 DEF Pop
<1>6. sv \in [Keys -> Nat] /\ Stamped(served, b, stamp + 1) = sv
  BY <1>1, <1>4 DEF Stamped
<1>7. served' = Trim(queues', sv)
  BY <1>5, <1>6
<1>8. turns' = [a \in Keys |-> [c \in Keys |->
                  IF queues'[a] = <<>> \/ a = b THEN 0
                  ELSE IF c = b /\ a \in could THEN turns[a][c] + 1
                  ELSE turns[a][c]]]
  BY <1>5 DEF Counted
<1>9. \A a \in could : served[b] <= served[a]
  <2> TAKE a \in could
  <2>1. a \in Keys /\ \E y \in DOMAIN queues[a] : queues[a][y].item \in E
    BY <1>1, AcceptedKeys
  <2>2. PICK y \in DOMAIN queues[a] : queues[a][y].item \in E
    BY <2>1
  <2>3. CASE queues[a][y].item = i
    BY <1>1, <1>4, <1>40, <2>1, <2>2, <2>3 DEF Numbered
  <2>4. CASE queues[a][y].item # i
    BY <1>1, <1>4, <1>40, <2>1, <2>2, <2>4
  <2> QED
    BY <2>3, <2>4
<1> HIDE DEF i, sv
<1>10. /\ queues' \in [Keys -> Seq(Entries)]
       /\ queues'[b] = Without(queues[b], {i}) /\ \A k \in Keys \ {b} : queues'[k] = queues[k]
  <2>1. Without(queues[b], {i}) \in Seq(Entries)
    BY <1>1, <1>4, Stays
  <2> QED
    BY <1>1, <1>4, <1>5, <2>1
<1>11. \A k \in Keys : Thins(queues[k], queues'[k], {i})
  <2> TAKE k \in Keys
  <2>1. CASE k = b
    BY <1>1, <1>10, <2>1, Stays
  <2>2. CASE k # b
    <3>1. \A y \in DOMAIN queues[k] : queues[k][y].item \notin {i}
      BY <1>1, <1>4, <1>40, <2>2 DEF Numbered
    <3>2. queues'[k] = queues[k] /\ queues[k] \in Seq(Entries)
      BY <1>1, <1>10, <2>2
    <3> QED
      BY <3>1, <3>2, Untouched
  <2> QED
    BY <2>1, <2>2
<1>12. /\ Numbered(queues')
       /\ \A e : Entry(queues, e)' <=> Entry(queues, e) /\ e.item \notin {i}
  BY <1>1, <1>10, <1>11, ThinnedNumbered
<1> HIDE DEF could
<1>13. /\ b \in KeysWith(queues, E) /\ GoesFirst(queues, served, E, queues[b][x].item, b, x)
       /\ \A e : Entry(queues, e)' <=> Entry(queues, e) /\ e.item # queues[b][x].item
  BY <1>4, <1>40, <1>12 DEF could
<1> QED
  BY <1>4, <1>5, <1>6, <1>7, <1>8, <1>9, <1>12, <1>13 DEF sv, could

\* With room for every key's stamp the stamps stay, until nobody waits.
LEMMA StampsStay ==
  ASSUME Roomy, FairTypes, NEW b \in Keys, served' = Trim(queues', [served EXCEPT ![b] = stamp + 1])
  PROVE  served' = IF \A k \in Keys : queues'[k] = <<>> THEN [k \in Keys |-> 0]
                   ELSE [served EXCEPT ![b] = stamp + 1]
<1> DEFINE sv == [served EXCEPT ![b] = stamp + 1]
<1>1. sv \in [Keys -> Nat] /\ served' = Trim(queues', sv)
  BY DEF FairTypes
<1> HIDE DEF sv
<1>2. served' = IF \A k \in Keys : queues'[k] = <<>> THEN [k \in Keys |-> 0] ELSE sv
  BY <1>1, TrimsAtOnce
<1> QED
  BY <1>2 DEF sv

\* A key has nothing waiting when no entry of its own waits.
LEMMA EmptyKeys ==
  ASSUME NEW qs, Numbered(qs), NEW k \in Keys
  PROVE  qs[k] # <<>> <=> \E e : Entry(qs, e) /\ KeyOf[e.item] = k
<1>1. qs[k] # <<>> <=> \E x : x \in DOMAIN qs[k]
  <2>1. qs \in [Keys -> Seq(Entries)]
    BY DEF Numbered
  <2> QED
    BY <2>1, LinesAreTyped
<1> QED
  BY <1>1 DEF Entry, Numbered

\* The order starts empty.
LEMMA FairInvInit == FairOrderAssumption /\ OrderInit => FairInv
<1> SUFFICES ASSUME OrderInit PROVE FairInv
  OBVIOUS
<1>1. \A k \in Keys : queues[k] = <<>>
  BY DEF OrderInit
<1>2. queues \in [Keys -> Seq(Entries)]
  BY DEF OrderInit
<1>3. \A k \in Keys : DOMAIN queues[k] = {}
  BY <1>1, <1>2, LinesAreTyped
<1>4. Numbered(queues) /\ \A e : ~Entry(queues, e)
  BY <1>2, <1>3 DEF Numbered, Entry
<1> QED
  BY <1>4 DEF OrderInit, FairInv, FairTypes, FairTurns

\* Every call keeps the entries numbered and the stamps apart.
LEMMA FairTypesNext == ASSUME FairOrderAssumption, FairTypes, [OrderNext]_orderVars PROVE FairTypes'
<1>0. FairTypes
  OBVIOUS
<1>1. ASSUME NEW i \in Items, Push(i) PROVE FairTypes'
  <2>1. /\ Numbered(queues') /\ arrivals' \in Nat /\ arrivals' = arrivals + 1
        /\ \A e : Entry(queues, e)' <=> Entry(queues, e) \/ e = [n |-> arrivals + 1, item |-> i]
        /\ \A k \in Keys : queues[k] # <<>> => queues'[k] # <<>>
    BY <1>1, Pushes DEF Roomy, FairInv
  <2>2. stamp' = stamp /\ served' = served
    BY <1>1 DEF Push
  <2>3. \A e : Entry(queues, e)' => e.n <= arrivals'
    <3> SUFFICES ASSUME NEW e, Entry(queues, e)' PROVE e.n <= arrivals'
      OBVIOUS
    <3>1. CASE Entry(queues, e)
      <4>1. e.n \in Nat
        BY <1>0, <3>1, EntriesAreTyped DEF FairTypes
      <4> QED
        BY <1>0, <2>1, <3>1, <4>1 DEF FairTypes
    <3>2. CASE e = [n |-> arrivals + 1, item |-> i]
      BY <1>0, <2>1, <3>2 DEF FairTypes
    <3> QED
      BY <2>1, <3>1, <3>2
  <2> QED
    BY <1>0, <2>1, <2>2, <2>3 DEF FairTypes
<1>2. ASSUME NEW E, Pop(E) PROVE FairTypes'
  <2>1. PICK b \in Keys : \E x \in DOMAIN queues[b] :
               LET sv == [served EXCEPT ![b] = stamp + 1]
               IN  /\ Numbered(queues')
                   /\ \A e : Entry(queues, e)' <=> Entry(queues, e) /\ e.item # queues[b][x].item
                   /\ sv \in [Keys -> Nat]
                   /\ served' = Trim(queues', sv)
                   /\ stamp' = stamp + 1 /\ arrivals' = arrivals
    BY <1>2, Takes
  <2>2. StampsFit(queues', served', stamp')
    <3> DEFINE sv == [served EXCEPT ![b] = stamp + 1]
    <3>1. sv \in [Keys -> Nat] /\ served' = Trim(queues', sv)
      BY <2>1
    <3>2. /\ \A k \in Keys : sv[k] <= stamp'
          /\ \A j, k \in Keys : sv[j] = sv[k] /\ sv[j] > 0 => j = k
      BY <1>0, <2>1 DEF FairTypes
    <3>3. stamp' \in Nat
      BY <1>0, <2>1 DEF FairTypes
    <3> HIDE DEF sv
    <3> QED
      BY <3>1, <3>2, <3>3, TrimFits
  <2> QED
    BY <1>0, <2>1, <2>2 DEF FairTypes, StampsFit
<1>3. ASSUME NEW S, RemoveWhere(S) PROVE FairTypes'
  <2>1. /\ Numbered(queues')
        /\ \A e : Entry(queues, e)' <=> Entry(queues, e) /\ e.item \notin S
        /\ served' = Trim(queues', served)
    BY <1>0, <1>3, Removes
  <2>2. stamp' = stamp /\ arrivals' = arrivals
    BY <1>3 DEF RemoveWhere
  <2>3. StampsFit(queues', served', stamp')
    BY <1>0, <2>1, <2>2, TrimFits DEF FairTypes
  <2> QED
    BY <1>0, <2>1, <2>2, <2>3 DEF FairTypes, StampsFit
<1>4. CASE Probe
  <2>1. /\ queues' = queues /\ stamp' = stamp /\ arrivals' = arrivals + 1
        /\ served' = Trim(queues, served)
    BY <1>4 DEF Probe
  <2>2. StampsFit(queues', served', stamp')
    BY <1>0, <2>1, TrimFits DEF FairTypes
  <2>3. \A e : Entry(queues, e)' => e.n <= arrivals'
    <3> SUFFICES ASSUME NEW e, Entry(queues, e) PROVE e.n <= arrivals'
      BY <2>1 DEF Entry
    <3>1. e.n \in Nat
      BY <1>0, EntriesAreTyped DEF FairTypes
    <3> QED
      BY <1>0, <2>1, <3>1 DEF FairTypes
  <2> QED
    BY <1>0, <2>1, <2>2, <2>3 DEF FairTypes, StampsFit
<1>5. CASE UNCHANGED orderVars
  BY <1>0, <1>5 DEF orderVars, FairTypes, Entry
<1> QED
  BY <1>1, <1>2, <1>3, <1>4, <1>5 DEF OrderNext

\* Every call keeps the younger stamp with the key that was served.
LEMMA FairTurnsNext == ASSUME Roomy, FairInv, FairTypes', [OrderNext]_orderVars PROVE FairTurns'
<1>0. FairTypes /\ FairTurns
  BY DEF FairInv
<1>1. ASSUME NEW i \in Items, Push(i) PROVE FairTurns'
  <2>1. \A k \in Keys : queues[k] # <<>> => queues'[k] # <<>>
    BY <1>1, Pushes DEF Roomy, FairInv
  <2>2. turns' = turns /\ served' = served
    BY <1>1 DEF Push
  <2> QED
    BY <1>0, <2>1, <2>2 DEF FairTurns
<1>2. ASSUME NEW E, Pop(E) PROVE FairTurns'
  <2> DEFINE could == KeysWith(queues, E)
  <2>1. PICK b \in Keys :
               /\ \A a \in could : served[b] <= served[a]
               /\ served' = Trim(queues', [served EXCEPT ![b] = stamp + 1])
               /\ turns' = [a \in Keys |-> [c \in Keys |->
                              IF queues'[a] = <<>> \/ a = b THEN 0
                              ELSE IF c = b /\ a \in could THEN turns[a][c] + 1
                              ELSE turns[a][c]]]
    BY <1>0, <1>2, Takes
  <2> HIDE DEF could
  <2>4. served' = IF \A k \in Keys : queues'[k] = <<>> THEN [k \in Keys |-> 0]
                  ELSE [served EXCEPT ![b] = stamp + 1]
    BY <1>0, <2>1, StampsStay
  <2>2. turns' \in [Keys -> [Keys -> Nat]]
    BY <1>0, <2>1 DEF FairTurns
  <2>3. ASSUME NEW a \in Keys, NEW c \in Keys
        PROVE  turns'[a][c] <= 1 /\ (turns'[a][c] > 0 => queues'[a] # <<>> /\ served'[a] < served'[c])
    <3>1. CASE queues'[a] = <<>> \/ a = b
      BY <2>1, <3>1
    <3>2. CASE ~(queues'[a] = <<>> \/ a = b)
      <4>1. served'[a] = served[a] /\ served'[b] = stamp + 1 /\ (c # b => served'[c] = served[c])
        BY <1>0, <2>4, <3>2 DEF FairTypes
      <4>2. served[a] <= stamp /\ served[c] <= stamp /\ stamp \in Nat /\ served[a] \in Nat /\ served[c] \in Nat
        BY <1>0 DEF FairTypes
      <4>3. /\ turns[a][c] \in Nat /\ turns[a][c] <= 1
            /\ turns[a][c] > 0 => served[a] < served[c]
        BY <1>0 DEF FairTurns
      <4>4. turns'[a][c] = IF c = b /\ a \in could THEN turns[a][c] + 1 ELSE turns[a][c]
        BY <2>1, <3>2
      <4>5. CASE c = b /\ a \in could
        <5>1. turns[a][c] = 0
          BY <2>1, <4>2, <4>3, <4>5
        <5> QED
          BY <3>2, <4>1, <4>2, <4>4, <4>5, <5>1
      <4>6. CASE ~(c = b /\ a \in could)
        BY <3>2, <4>1, <4>2, <4>3, <4>4, <4>6
      <4> QED
        BY <4>5, <4>6
    <3> QED
      BY <3>1, <3>2
  <2> QED
    BY <2>2, <2>3 DEF FairTurns
<1>3. ASSUME NEW S, RemoveWhere(S) PROVE FairTurns'
  <2>1. served' = IF \A k \in Keys : queues'[k] = <<>> THEN [k \in Keys |-> 0] ELSE served
    BY <1>0, <1>3, Removes
  <2>2. turns' = [a \in Keys |-> IF queues'[a] = <<>> THEN [b \in Keys |-> 0] ELSE turns[a]]
    BY <1>3 DEF RemoveWhere, Counted
  <2>3. turns' \in [Keys -> [Keys -> Nat]]
    BY <1>0, <2>2 DEF FairTurns
  <2> QED
    BY <1>0, <2>1, <2>2, <2>3 DEF FairTurns
<1>4. CASE Probe
  <2>1. queues' = queues /\ turns' = turns /\ served' = Trim(queues, served)
    BY <1>4 DEF Probe
  <2>2. served' = IF \A k \in Keys : queues[k] = <<>> THEN [k \in Keys |-> 0] ELSE served
    BY <1>0, <2>1, TrimsAtOnce DEF FairTypes
  <2> QED
    BY <1>0, <2>1, <2>2 DEF FairTurns
<1>5. CASE UNCHANGED orderVars
  BY <1>0, <1>5 DEF orderVars, FairTurns
<1> QED
  BY <1>1, <1>2, <1>3, <1>4, <1>5 DEF OrderNext

\* While an item of a key could be taken, no other key is served twice before it:
\* the stamp of the one that was served is younger, and the older stamp goes first
\* (FairOrder.pop, fair_queue.py:151).
THEOREM NobodyIsOvertakenTwice == ASSUME Roomy PROVE OrderSpec => []BoundedOvertaking
<1>1. OrderInit => FairInv
  BY FairInvInit DEF Roomy
<1>2. FairInv /\ [OrderNext]_orderVars => FairInv'
  BY FairTypesNext, FairTurnsNext DEF FairInv, Roomy
<1>3. FairInv => BoundedOvertaking
  BY DEF FairInv, FairTurns, BoundedOvertaking
<1> QED
  BY <1>1, <1>2, <1>3, PTL DEF OrderSpec

-----------------------------------------------------------------------------
(* Only the order of the counters is read *)

\* Ranks are ordered as the counters they replace.
LEMMA RanksAreOrdered ==
  ASSUME NEW D, IsFiniteSet(D), NEW f \in [D -> Nat], NEW r, r = ByRank!Ranks(f)
  PROVE  /\ r \in [D -> Nat]
         /\ \A x \in D : r[x] = 0 <=> f[x] = 0
         /\ \A x, y \in D : f[x] < f[y] <=> r[x] < r[y]
         /\ \A x \in D : r[x] <= Cardinality(D)
<1> DEFINE Below(x) == {y \in D : f[y] > 0 /\ f[y] <= f[x]}
<1>1. r = [x \in D |-> IF f[x] = 0 THEN 0 ELSE Cardinality(Below(x))]
  BY SameCounts DEF ByRank!Ranks
<1>2. \A x \in D : Below(x) \in SUBSET D
  OBVIOUS
<1>3. \A x \in D : Cardinality(Below(x)) \in Nat /\ Cardinality(Below(x)) <= Cardinality(D)
                   /\ (Below(x) # {} => Cardinality(Below(x)) > 0)
  BY <1>2, FS_Subset, FS_CardinalityType, FS_EmptySet
<1>4. \A x \in D : f[x] > 0 => x \in Below(x)
  OBVIOUS
<1>5. ASSUME NEW x \in D, NEW y \in D, f[x] < f[y] PROVE Cardinality(Below(x)) < Cardinality(Below(y))
  <2>1. f[x] \in Nat /\ f[y] \in Nat
    OBVIOUS
  <2>2. Below(x) \subseteq Below(y) /\ y \in Below(y) /\ y \notin Below(x)
    BY <1>5
  <2>3. IsFiniteSet(Below(y)) /\ Below(x) \in SUBSET Below(y) /\ Below(x) # Below(y)
    BY <1>2, <2>2, FS_Subset
  <2>4. Cardinality(Below(x)) <= Cardinality(Below(y)) /\ Cardinality(Below(x)) # Cardinality(Below(y))
    BY <2>3, FS_Subset
  <2> QED
    BY <1>3, <2>4
<1>6. \A x, y \in D : f[x] = f[y] => Below(x) = Below(y)
  OBVIOUS
<1>7. Cardinality(D) \in Nat
  BY FS_CardinalityType
<1>8. \A x \in D : f[x] \in Nat
  OBVIOUS
<1> HIDE DEF Below
<1>9. \A x \in D : /\ r[x] \in Nat /\ r[x] <= Cardinality(D)
                   /\ r[x] = 0 <=> f[x] = 0
                   /\ r[x] = IF f[x] = 0 THEN 0 ELSE Cardinality(Below(x))
  BY <1>1, <1>3, <1>4, <1>7, <1>8
<1>10. \A x, y \in D : f[x] < f[y] => r[x] < r[y]
  BY <1>5, <1>8, <1>9
<1>11. \A x, y \in D : f[x] = f[y] => r[x] = r[y]
  BY <1>6, <1>9
<1>12. \A x, y \in D : f[x] < f[y] <=> r[x] < r[y]
  BY <1>8, <1>9, <1>10, <1>11
<1> QED
  BY <1>1, <1>9, <1>12

\* Counters in the same order have the same ranks.
LEMMA SameOrderSameRanks ==
  ASSUME NEW D, NEW f \in [D -> Nat], NEW g \in [D -> Nat],
         \A x \in D : f[x] = 0 <=> g[x] = 0,
         \A x, y \in D : f[x] > 0 /\ f[y] > 0 => (f[x] < f[y] <=> g[x] < g[y])
  PROVE  ByRank!Ranks(f) = ByRank!Ranks(g)
<1>1. ASSUME NEW x \in D, f[x] # 0
      PROVE  {y \in D : f[y] > 0 /\ f[y] <= f[x]} = {y \in D : g[y] > 0 /\ g[y] <= g[x]}
  <2>1. \A y \in D : f[y] \in Nat /\ g[y] \in Nat
    OBVIOUS
  <2>2. \A y \in D : (f[y] > 0 /\ f[y] <= f[x]) <=> (g[y] > 0 /\ g[y] <= g[x])
    BY <1>1, <2>1
  <2> QED
    BY <2>2
<1>2. /\ ByRank!Ranks(f) = [x \in D |-> IF f[x] = 0 THEN 0 ELSE
                                ByRank!Cardinality({y \in D : f[y] > 0 /\ f[y] <= f[x]})]
      /\ ByRank!Ranks(g) = [x \in D |-> IF g[x] = 0 THEN 0 ELSE
                                ByRank!Cardinality({y \in D : g[y] > 0 /\ g[y] <= g[x]})]
  BY DEF ByRank!Ranks
<1>3. ASSUME NEW x \in D PROVE ByRank!Ranks(f)[x] = ByRank!Ranks(g)[x]
  BY <1>1, <1>2
<1> QED
  BY <1>2, <1>3

\* A counter above all others ranks behind them, and leaves their ranks.
LEMMA NewestRank ==
  ASSUME NEW D, IsFiniteSet(D), NEW f \in [D -> Nat], NEW i \in D, f[i] = 0,
         NEW g \in [D -> Nat], \A x \in D : f[x] < g[i], \A x \in D \ {i} : g[x] = f[x],
         NEW P \in SUBSET D, \A x \in D : x \in P <=> f[x] > 0
  PROVE  \A x \in D : ByRank!Ranks(g)[x] = IF x = i THEN Cardinality(P) + 1 ELSE ByRank!Ranks(f)[x]
<1>1. g \in [D -> Nat] /\ f[i] < g[i] /\ \A x \in D \ {i} : g[x] = f[x]
  OBVIOUS
<1>2. /\ ByRank!Ranks(f) = [x \in D |-> IF f[x] = 0 THEN 0 ELSE
                                Cardinality({y \in D : f[y] > 0 /\ f[y] <= f[x]})]
      /\ ByRank!Ranks(g) = [x \in D |-> IF g[x] = 0 THEN 0 ELSE
                                Cardinality({y \in D : g[y] > 0 /\ g[y] <= g[x]})]
  BY SameCounts DEF ByRank!Ranks
<1>3. ASSUME NEW x \in D \ {i} PROVE ByRank!Ranks(g)[x] = ByRank!Ranks(f)[x]
  <2>1. \A y \in D : (g[y] > 0 /\ g[y] <= g[x]) <=> (f[y] > 0 /\ f[y] <= f[x])
    <3>1. ~(g[i] <= g[x]) /\ ~(f[i] > 0)
      BY <1>1, <1>3
    <3> QED
      BY <1>1, <1>3, <3>1
  <2>2. {y \in D : g[y] > 0 /\ g[y] <= g[x]} = {y \in D : f[y] > 0 /\ f[y] <= f[x]}
    BY <2>1
  <2> QED
    BY <1>1, <1>2, <2>2
<1>4. ByRank!Ranks(g)[i] = Cardinality(P) + 1
  <2>1. g[i] > 0 /\ \A y \in D : y # i => f[y] < g[i]
    BY <1>1
  <2>2. {y \in D : g[y] > 0 /\ g[y] <= g[i]} = P \cup {i}
    BY <1>1, <2>1
  <2>3. IsFiniteSet(P) /\ i \notin P
    BY FS_Subset
  <2>4. Cardinality(P \cup {i}) = Cardinality(P) + 1
    BY <2>3, FS_AddElement
  <2> QED
    BY <1>1, <1>2, <2>1, <2>2, <2>4
<1> QED
  BY <1>3, <1>4

\* The arrival number of each item that waits.
NumbersOf(qs) ==
    [i \in Items |->
        IF i \in Waiting(qs)
        THEN (CHOOSE e \in {qs[KeyOf[i]][x] : x \in 1..Len(qs[KeyOf[i]])} : e.item = i).n
        ELSE 0]

\* They are those of the entries, and positive exactly for the items that wait.
LEMMA NumbersAre ==
  ASSUME NEW qs, Numbered(qs)
  PROVE  /\ NumbersOf(qs) \in [Items -> Nat]
         /\ \A e : Entry(qs, e) => NumbersOf(qs)[e.item] = e.n
         /\ \A i \in Items : NumbersOf(qs)[i] > 0 <=> i \in Waiting(qs)
<1>1. ASSUME NEW i \in Items, i \in Waiting(qs)
      PROVE  \E e : Entry(qs, e) /\ e.item = i /\ NumbersOf(qs)[i] = e.n
  <2>1. PICK e : Entry(qs, e) /\ e.item = i
    BY <1>1, WaitingAreEntries
  <2>2. PICK k \in Keys : \E x \in DOMAIN qs[k] : e = qs[k][x]
    BY <2>1 DEF Entry
  <2>3. k = KeyOf[i]
    BY <2>1, <2>2 DEF Numbered
  <2>4. DOMAIN qs[k] = 1..Len(qs[k])
    <3>1. qs \in [Keys -> Seq(Entries)]
      BY DEF Numbered
    <3> QED
      BY <3>1, LinesAreTyped
  <2> DEFINE T == {qs[k][x] : x \in 1..Len(qs[k])}
             c == CHOOSE d \in T : d.item = i
  <2>5. e \in T /\ e.item = i
    BY <2>1, <2>2, <2>4
  <2>6. c \in T /\ c.item = i
    BY <2>5
  <2>7. Entry(qs, c)
    BY <2>4, <2>6 DEF Entry
  <2>8. NumbersOf(qs)[i] = c.n
    BY <1>1, <2>3 DEF NumbersOf
  <2> HIDE DEF c
  <2> QED
    BY <2>6, <2>7, <2>8
<1>2. \A i \in Items : i \notin Waiting(qs) => NumbersOf(qs)[i] = 0
  BY DEF NumbersOf
<1>3. \A i \in Items : /\ NumbersOf(qs)[i] \in Nat
                       /\ NumbersOf(qs)[i] > 0 <=> i \in Waiting(qs)
  BY <1>1, <1>2, EntriesAreTyped
<1>4. ASSUME NEW e, Entry(qs, e) PROVE NumbersOf(qs)[e.item] = e.n
  <2>1. e.item \in Items /\ e.item \in Waiting(qs)
    BY <1>4, EntriesAreTyped, WaitingAreEntries
  <2>2. PICK d : Entry(qs, d) /\ d.item = e.item /\ NumbersOf(qs)[e.item] = d.n
    BY <1>1, <2>1
  <2>3. d = e
    BY <1>4, <2>2 DEF Entry, Numbered
  <2> QED
    BY <2>2, <2>3
<1>5. NumbersOf(qs) = [i \in Items |-> NumbersOf(qs)[i]]
  BY DEF NumbersOf
<1> QED
  BY <1>3, <1>4, <1>5

\* The counters as ranks.
LEMMA AbstractIs ==
  Abstract = [line |-> ByRank!Ranks(NumbersOf(queues)), served |-> ByRank!Ranks(served)]
  BY DEF Abstract, NumbersOf

\* The numbers that stay when the items of S leave.
LEMMA NumbersLeft ==
  ASSUME Numbered(queues), Numbered(queues'), NEW S,
         \A e : Entry(queues, e)' <=> Entry(queues, e) /\ e.item \notin S
  PROVE  NumbersOf(queues') = [i \in Items |-> IF i \in S THEN 0 ELSE NumbersOf(queues)[i]]
<1>1. /\ NumbersOf(queues) \in [Items -> Nat]
      /\ \A e : Entry(queues, e) => NumbersOf(queues)[e.item] = e.n
      /\ \A i \in Items : NumbersOf(queues)[i] > 0 <=> i \in Waiting(queues)
  BY NumbersAre
<1>2. /\ NumbersOf(queues') \in [Items -> Nat]
      /\ \A e : Entry(queues', e) => NumbersOf(queues')[e.item] = e.n
      /\ \A i \in Items : NumbersOf(queues')[i] > 0 <=> i \in Waiting(queues')
  BY NumbersAre
<1>3. \A e : Entry(queues', e) <=> Entry(queues, e) /\ e.item \notin S
  BY DEF Entry
<1>4. /\ \A i : i \in Waiting(queues) <=> \E e : Entry(queues, e) /\ e.item = i
      /\ \A i : i \in Waiting(queues') <=> \E e : Entry(queues', e) /\ e.item = i
  BY WaitingAreEntries
<1>5. ASSUME NEW i \in Items
      PROVE  NumbersOf(queues')[i] = IF i \in S THEN 0 ELSE NumbersOf(queues)[i]
  <2>1. CASE i \in Waiting(queues')
    <3>1. PICK e : Entry(queues', e) /\ e.item = i
      BY <1>4, <2>1
    <3> QED
      BY <1>1, <1>2, <1>3, <3>1
  <2>2. CASE i \notin Waiting(queues')
    <3>1. NumbersOf(queues')[i] = 0
      BY <1>2, <2>2
    <3>2. i \notin S => i \notin Waiting(queues)
      BY <1>3, <1>4, <2>2
    <3>3. i \notin S => NumbersOf(queues)[i] = 0
      BY <1>1, <3>2
    <3> QED
      BY <3>1, <3>3
  <2> QED
    BY <2>1, <2>2
<1> QED
  BY <1>2, <1>5

\* Nobody waits when all numbers are zero.
LEMMA NobodyWaits ==
  ASSUME NEW qs, Numbered(qs)
  PROVE  (\A k \in Keys : qs[k] = <<>>) <=> \A i \in Items : NumbersOf(qs)[i] = 0
<1>1. (\A k \in Keys : qs[k] = <<>>) <=> ~\E e : Entry(qs, e)
  <2>1. \A e : Entry(qs, e) => KeyOf[e.item] \in Keys
    BY DEF Entry, Numbered
  <2> QED
    BY <2>1, EmptyKeys
<1>2. /\ NumbersOf(qs) \in [Items -> Nat]
      /\ \A i \in Items : NumbersOf(qs)[i] > 0 <=> i \in Waiting(qs)
  BY NumbersAre
<1>3. (\E e : Entry(qs, e)) <=> \E i \in Items : i \in Waiting(qs)
  BY WaitingAreEntries, EntriesAreTyped
<1> QED
  BY <1>1, <1>2, <1>3

\* Ranks of nothing.
LEMMA NoRanks ==
  ASSUME NEW D PROVE ByRank!Ranks([x \in D |-> 0]) = [x \in D |-> 0]
  BY DEF ByRank!Ranks

\* What FairInv says of the numbers, and who waits in the ranks.
LEMMA OrderTyped ==
  ASSUME Roomy, FairInv
  PROVE  /\ IsFiniteSet(Items) /\ IsFiniteSet(Keys)
         /\ Numbered(queues) /\ served \in [Keys -> Nat] /\ stamp \in Nat /\ arrivals \in Nat
         /\ NumbersOf(queues) \in [Items -> Nat]
         /\ \A i \in Items : NumbersOf(queues)[i] <= arrivals
         /\ ByRank!Queued(Abstract) = Waiting(queues)
         /\ Waiting(queues) \subseteq Items
<1>1. Numbered(queues) /\ served \in [Keys -> Nat] /\ stamp \in Nat /\ arrivals \in Nat
  BY DEF FairInv, FairTypes
<1>2. /\ NumbersOf(queues) \in [Items -> Nat]
      /\ \A e : Entry(queues, e) => NumbersOf(queues)[e.item] = e.n
      /\ \A i \in Items : NumbersOf(queues)[i] > 0 <=> i \in Waiting(queues)
  BY <1>1, NumbersAre
<1>3. IsFiniteSet(Items) /\ IsFiniteSet(Keys)
  BY FairOrderAssumption
<1>4. \A i \in Items : ByRank!Ranks(NumbersOf(queues))[i] > 0 <=> i \in Waiting(queues)
  <2> DEFINE r == ByRank!Ranks(NumbersOf(queues))
  <2>1. r \in [Items -> Nat] /\ \A i \in Items : r[i] = 0 <=> NumbersOf(queues)[i] = 0
    BY <1>2, <1>3, RanksAreOrdered
  <2> HIDE DEF r
  <2>2. \A i \in Items : r[i] > 0 <=> NumbersOf(queues)[i] > 0
    BY <1>2, <2>1
  <2> QED
    BY <1>2, <2>2 DEF r
<1>5. Waiting(queues) \subseteq Items
  BY <1>1, WaitingAreEntries, EntriesAreTyped
<1>6. ByRank!Queued(Abstract) = Waiting(queues)
  BY <1>4, <1>5, AbstractIs DEF ByRank!Queued
<1>7. ASSUME NEW i \in Items PROVE NumbersOf(queues)[i] <= arrivals
  <2>1. CASE i \in Waiting(queues)
    <3>1. PICK e : Entry(queues, e) /\ e.item = i
      BY <1>1, <2>1, WaitingAreEntries
    <3> QED
      BY <1>2, <3>1 DEF FairInv, FairTypes
  <2>2. CASE i \notin Waiting(queues)
    BY <1>1, <1>2, <2>2
  <2> QED
    BY <2>1, <2>2
<1> QED
  BY <1>1, <1>2, <1>3, <1>5, <1>6, <1>7

\* push, on ranks.
LEMMA PushIsPush ==
  ASSUME Roomy, FairInv, NEW i \in Items, Push(i)
  PROVE  Abstract' = ByRank!Push(Abstract, i)
<1>1. /\ IsFiniteSet(Items) /\ Numbered(queues) /\ arrivals \in Nat
      /\ NumbersOf(queues) \in [Items -> Nat]
      /\ \A j \in Items : NumbersOf(queues)[j] <= arrivals
      /\ ByRank!Queued(Abstract) = Waiting(queues)
      /\ Waiting(queues) \subseteq Items
  BY OrderTyped
<1>2. /\ Numbered(queues')
      /\ \A e : Entry(queues, e)' <=> Entry(queues, e) \/ e = [n |-> arrivals + 1, item |-> i]
  BY Pushes DEF Roomy, FairInv
<1>3. \A e : Entry(queues', e) <=> Entry(queues, e) \/ e = [n |-> arrivals + 1, item |-> i]
  BY <1>2 DEF Entry
<1>4. i \notin Waiting(queues) /\ served' = served
  BY DEF Push
<1> DEFINE f == NumbersOf(queues)
           g == NumbersOf(queues')
<1>5. /\ f \in [Items -> Nat] /\ \A e : Entry(queues, e) => f[e.item] = e.n
      /\ \A j \in Items : f[j] > 0 <=> j \in Waiting(queues)
  BY <1>1, NumbersAre
<1>6. /\ g \in [Items -> Nat] /\ \A e : Entry(queues', e) => g[e.item] = e.n
      /\ \A j \in Items : g[j] > 0 <=> j \in Waiting(queues')
  BY <1>2, NumbersAre
<1>7. /\ \A j : j \in Waiting(queues) <=> \E e : Entry(queues, e) /\ e.item = j
      /\ \A j : j \in Waiting(queues') <=> \E e : Entry(queues', e) /\ e.item = j
  BY <1>1, <1>2, WaitingAreEntries
<1> HIDE DEF f, g
<1>8. g[i] = arrivals + 1 /\ f[i] = 0
  <2> DEFINE new == [n |-> arrivals + 1, item |-> i]
  <2>1. Entry(queues', new) /\ new.item = i /\ new.n = arrivals + 1
    BY <1>3
  <2> HIDE DEF new
  <2> QED
    BY <1>4, <1>5, <1>6, <2>1
<1>9. ASSUME NEW j \in Items \ {i} PROVE g[j] = f[j]
  <2>1. CASE j \in Waiting(queues)
    <3>1. PICK e : Entry(queues, e) /\ e.item = j
      BY <1>7, <2>1
    <3> QED
      BY <1>3, <1>5, <1>6, <3>1
  <2>2. CASE j \notin Waiting(queues)
    <3>1. j \notin Waiting(queues')
      BY <1>3, <1>7, <1>9, <2>2
    <3> QED
      BY <1>5, <1>6, <2>2, <3>1
  <2> QED
    BY <2>1, <2>2
<1>10. g = [f EXCEPT ![i] = arrivals + 1]
  BY <1>5, <1>6, <1>8, <1>9
<1>11. \A j \in Items : f[j] < arrivals + 1
  BY <1>1, <1>5 DEF f
<1> DEFINE W == Waiting(queues)
<1> HIDE DEF W
<1>12. \A j \in Items : ByRank!Ranks(g)[j] = IF j = i THEN Cardinality(W) + 1 ELSE ByRank!Ranks(f)[j]
  <2>1. \A j \in Items : j \in W <=> f[j] > 0
    BY <1>5 DEF W
  <2>2. W \in SUBSET Items
    BY <1>1 DEF W
  <2>3. g \in [Items -> Nat] /\ f \in [Items -> Nat] /\ f[i] = 0
    BY <1>5, <1>6, <1>8
  <2>4. \A j \in Items : f[j] < g[i]
    BY <1>8, <1>11
  <2>5. \A j \in Items \ {i} : g[j] = f[j]
    BY <1>9
  <2>6. IsFiniteSet(Items)
    BY <1>1
  <2> QED
    BY ONLY <2>1, <2>2, <2>3, <2>4, <2>5, <2>6, i \in Items, NewestRank
<1>13. ByRank!Ranks(g) = [ByRank!Ranks(f) EXCEPT ![i] = Cardinality(W) + 1]
  <2>1. ByRank!Ranks(g) \in [Items -> Nat] /\ ByRank!Ranks(f) \in [Items -> Nat]
    BY <1>1, <1>5, <1>6, RanksAreOrdered
  <2> QED
    BY <1>12, <2>1
<1>14. Abstract = [line |-> ByRank!Ranks(f), served |-> ByRank!Ranks(served)]
  BY AbstractIs DEF f
<1>15. Abstract' = [line |-> ByRank!Ranks(g), served |-> ByRank!Ranks(served)]
  BY <1>4 DEF Abstract, NumbersOf, g
<1>16. ByRank!Cardinality(ByRank!Queued(Abstract)) = Cardinality(W)
  BY <1>1, SameCounts DEF W
<1> QED
  BY <1>13, <1>14, <1>15, <1>16 DEF ByRank!Push

\* remove_where, on ranks.
LEMMA RemoveIsDrop ==
  ASSUME Roomy, FairInv, NEW S, RemoveWhere(S)
  PROVE  Abstract' = ByRank!Drop(Abstract, S)
<1>1. /\ IsFiniteSet(Items) /\ Numbered(queues) /\ served \in [Keys -> Nat]
      /\ NumbersOf(queues) \in [Items -> Nat]
      /\ ByRank!Queued(Abstract) = Waiting(queues)
  BY OrderTyped
<1>2. /\ Numbered(queues')
      /\ \A e : Entry(queues, e)' <=> Entry(queues, e) /\ e.item \notin S
      /\ served' = IF \A k \in Keys : queues'[k] = <<>> THEN [k \in Keys |-> 0] ELSE served
  BY Removes DEF FairInv
<1> DEFINE f == NumbersOf(queues)
           g == NumbersOf(queues')
           r == ByRank!Ranks(f)
           line == [i \in Items |-> IF i \in S THEN 0 ELSE r[i]]
<1>3. g = [i \in Items |-> IF i \in S THEN 0 ELSE f[i]]
  BY <1>1, <1>2, NumbersLeft
<1>4. f \in [Items -> Nat] /\ ((\A k \in Keys : queues'[k] = <<>>) <=> \A i \in Items : g[i] = 0)
  BY <1>1, <1>2, NobodyWaits
<1>5. Abstract = [line |-> r, served |-> ByRank!Ranks(served)]
  BY AbstractIs
<1>6. Abstract' = [line |-> ByRank!Ranks(g), served |-> ByRank!Ranks(served')]
  BY DEF Abstract, NumbersOf
<1> HIDE DEF f, g
<1>7. /\ r \in [Items -> Nat]
      /\ \A i \in Items : r[i] = 0 <=> f[i] = 0
      /\ \A i, j \in Items : f[i] < f[j] <=> r[i] < r[j]
  BY <1>1, <1>4, RanksAreOrdered
<1> HIDE DEF r
<1>8. /\ g \in [Items -> Nat] /\ line \in [Items -> Nat]
      /\ \A i \in Items : line[i] = 0 <=> g[i] = 0
      /\ \A i, j \in Items : line[i] > 0 /\ line[j] > 0 => (line[i] < line[j] <=> g[i] < g[j])
  BY <1>3, <1>4, <1>7
<1>9. ByRank!Ranks(line) = ByRank!Ranks(g)
  BY <1>8, SameOrderSameRanks
<1>10. ByRank!Forgetting(line, ByRank!Ranks(served)) = ByRank!Ranks(served')
  <2>1. (\A i \in Items : line[i] = 0) <=> \A k \in Keys : queues'[k] = <<>>
    BY <1>4, <1>8
  <2> HIDE DEF line
  <2> QED
    BY <1>2, <2>1, NoRanks DEF ByRank!Forgetting
<1>11. S \cap ByRank!Queued(Abstract) # {}
  BY <1>1 DEF RemoveWhere
<1>12. ByRank!Drop(Abstract, S)
          = [line |-> ByRank!Ranks(line), served |-> ByRank!Forgetting(line, ByRank!Ranks(served))]
  BY <1>5, <1>11 DEF ByRank!Drop
<1> QED
  BY <1>6, <1>9, <1>10, <1>12

\* pop, on ranks.
LEMMA PopIsServe ==
  ASSUME Roomy, FairInv, NEW E \in SUBSET Waiting(queues), Pop(E)
  PROVE  E # {} /\ Abstract' = ByRank!Serve(Abstract, ByRank!Next(Abstract, E))
<1>0. FairTypes
  BY DEF FairInv
<1>1. /\ IsFiniteSet(Items) /\ IsFiniteSet(Keys) /\ Numbered(queues)
      /\ served \in [Keys -> Nat] /\ stamp \in Nat
      /\ NumbersOf(queues) \in [Items -> Nat]
      /\ ByRank!Queued(Abstract) = Waiting(queues)
      /\ Waiting(queues) \subseteq Items
  BY OrderTyped
<1>2. PICK b \in Keys : \E x \in DOMAIN queues[b] :
               /\ b \in KeysWith(queues, E)
               /\ GoesFirst(queues, served, E, queues[b][x].item, b, x)
               /\ Numbered(queues')
               /\ \A e : Entry(queues, e)' <=> Entry(queues, e) /\ e.item # queues[b][x].item
               /\ served' = Trim(queues', [served EXCEPT ![b] = stamp + 1])
  BY <1>0, Takes
<1>3. PICK x \in DOMAIN queues[b] :
               /\ GoesFirst(queues, served, E, queues[b][x].item, b, x)
               /\ Numbered(queues')
               /\ \A e : Entry(queues, e)' <=> Entry(queues, e) /\ e.item # queues[b][x].item
               /\ served' = IF \A k \in Keys : queues'[k] = <<>> THEN [k \in Keys |-> 0]
                            ELSE [served EXCEPT ![b] = stamp + 1]
  BY <1>0, <1>2, StampsStay
<1> DEFINE i == queues[b][x].item
           f == NumbersOf(queues)
           g == NumbersOf(queues')
           r == ByRank!Ranks(f)
           sr == ByRank!Ranks(served)
           o == [line |-> r, served |-> sr]
<1>4. /\ i \in Items /\ i \in E /\ KeyOf[i] = b /\ Entry(queues, queues[b][x])
      /\ \A a \in Keys : \A y \in DOMAIN queues[a] :
            queues[a][y].item \in E \ {i} =>
               \/ served[b] < served[a]
               \/ served[b] = served[a] /\ queues[b][x].n < queues[a][y].n
  BY <1>3 DEF GoesFirst, Entry
<1>5. g = [j \in Items |-> IF j \in {i} THEN 0 ELSE f[j]]
  <2>1. \A e : Entry(queues, e)' <=> Entry(queues, e) /\ e.item \notin {i}
    BY <1>3
  <2> QED
    BY <1>1, <1>3, <2>1, NumbersLeft
<1>6. Abstract = o
  BY AbstractIs
<1>7. Abstract' = [line |-> ByRank!Ranks(g), served |-> ByRank!Ranks(served')]
  BY DEF Abstract, NumbersOf
<1>8. /\ f \in [Items -> Nat]
      /\ \A e : Entry(queues, e) => f[e.item] = e.n
      /\ (\A k \in Keys : queues'[k] = <<>>) <=> \A j \in Items : g[j] = 0
  BY <1>1, <1>3, NumbersAre, NobodyWaits
<1>9. f[i] = queues[b][x].n
  BY <1>4, <1>8
<1>10. ASSUME NEW j \in E \ {i} PROVE \/ served[KeyOf[i]] < served[KeyOf[j]]
                                      \/ served[KeyOf[i]] = served[KeyOf[j]] /\ f[i] < f[j]
  <2>1. PICK e : Entry(queues, e) /\ e.item = j
    BY <1>1, WaitingAreEntries
  <2>2. PICK a \in Keys : \E y \in DOMAIN queues[a] : e = queues[a][y]
    BY <2>1 DEF Entry
  <2>3. KeyOf[j] = a
    BY <1>1, <2>1, <2>2 DEF Numbered
  <2>4. f[j] = e.n
    BY <1>8, <2>1
  <2> HIDE DEF f, i
  <2> QED
    BY <1>4, <1>9, <2>1, <2>2, <2>3, <2>4
<1> HIDE DEF i, f, g
<1>11. /\ r \in [Items -> Nat]
       /\ \A j \in Items : r[j] = 0 <=> f[j] = 0
       /\ \A j, k \in Items : f[j] < f[k] <=> r[j] < r[k]
  BY <1>1, <1>8, RanksAreOrdered
<1>12. /\ sr \in [Keys -> Nat]
       /\ \A k \in Keys : sr[k] = 0 <=> served[k] = 0
       /\ \A k, l \in Keys : served[k] < served[l] <=> sr[k] < sr[l]
       /\ \A k \in Keys : sr[k] <= Cardinality(Keys)
  BY <1>1, RanksAreOrdered
<1> HIDE DEF r, sr
<1>13. \A k \in Keys, l \in Keys : served[k] = served[l] <=> sr[k] = sr[l]
  BY <1>1, <1>12
<1>14. E \cap ByRank!Queued(o) = E /\ E \subseteq Items /\ KeyOf \in [Items -> Keys]
  BY <1>1, <1>6, FairOrderAssumption
<1>15. \A j \in E \ {i} : ByRank!Ahead(o, i, j)
  <2> TAKE j \in E \ {i}
  <2>1. j \in Items /\ KeyOf[i] \in Keys /\ KeyOf[j] \in Keys
    BY <1>4, <1>14
  <2> QED
    BY <1>4, <1>10, <1>11, <1>12, <1>13, <2>1 DEF ByRank!Ahead
<1>16. ByRank!IsNext(o, E, i)
  BY <1>4, <1>14, <1>15 DEF ByRank!IsNext
<1>17. ASSUME NEW j \in Items, ByRank!IsNext(o, E, j) PROVE j = i
  <2>1. j \in E /\ (j # i => ByRank!Ahead(o, j, i))
    BY <1>4, <1>14, <1>17 DEF ByRank!IsNext
  <2>2. KeyOf[i] \in Keys /\ KeyOf[j] \in Keys
    BY <1>4, <1>14
  <2>3. j # i => ~(ByRank!Ahead(o, j, i) /\ ByRank!Ahead(o, i, j))
    BY <1>4, <1>11, <1>12, <2>2 DEF ByRank!Ahead
  <2> QED
    BY <1>15, <2>1, <2>3
<1>18. ByRank!Next(o, E) = i
  BY <1>4, <1>16, <1>17 DEF ByRank!Next
<1> DEFINE line == [r EXCEPT ![i] = 0]
           sv == [sr EXCEPT ![b] = Cardinality(Keys) + 1]
           sw == [served EXCEPT ![b] = stamp + 1]
<1>19. /\ g \in [Items -> Nat] /\ line \in [Items -> Nat]
       /\ \A j \in Items : line[j] = 0 <=> g[j] = 0
       /\ \A j, k \in Items : line[j] > 0 /\ line[k] > 0 => (line[j] < line[k] <=> g[j] < g[k])
  BY <1>4, <1>5, <1>8, <1>11
<1>20. ByRank!Ranks(line) = ByRank!Ranks(g)
  BY <1>19, SameOrderSameRanks
<1>21. /\ sv \in [Keys -> Nat] /\ sw \in [Keys -> Nat]
       /\ \A k \in Keys : sv[k] = 0 <=> sw[k] = 0
       /\ \A k, l \in Keys : sv[k] > 0 /\ sv[l] > 0 => (sv[k] < sv[l] <=> sw[k] < sw[l])
  <2>1. Cardinality(Keys) \in Nat
    BY <1>1, FS_CardinalityType
  <2>2. \A k \in Keys : served[k] <= stamp /\ served[k] \in Nat /\ sr[k] \in Nat
    BY <1>1, <1>12 DEF FairInv, FairTypes
  <2> QED
    BY <1>1, <1>12, <2>1, <2>2
<1>22. served' = IF \A j \in Items : line[j] = 0 THEN [k \in Keys |-> 0] ELSE sw
  BY <1>3, <1>8, <1>19
<1> HIDE DEF line, sv, sw
<1>23. ByRank!Ranks(sv) = ByRank!Ranks(sw)
  BY <1>21, SameOrderSameRanks
<1>24. ByRank!Forgetting(line, ByRank!Ranks(sv)) = ByRank!Ranks(served')
  BY <1>22, <1>23, NoRanks DEF ByRank!Forgetting
<1>25. ByRank!Serve(o, i)
          = [line |-> ByRank!Ranks(line), served |-> ByRank!Forgetting(line, ByRank!Ranks(sv))]
  BY <1>4, SameCounts DEF ByRank!Serve, line, sv
<1> QED
  BY <1>4, <1>6, <1>7, <1>18, <1>20, <1>24, <1>25

\* Each call does to the ranks what RoundRobin does: nothing but the order of the
\* numbers and stamps decides (FairOrder.push, pop, remove_where, fair_queue.py:136).
THEOREM CountersAreRanks == ASSUME Roomy PROVE OrderSpec => ActsAsRoundRobin
<1> DEFINE A == \A old \in {Abstract}, new \in {Abstract'} :
                  \/ new = old
                  \/ \E i \in Items \ Waiting(queues) : new = ByRank!Push(old, i)
                  \/ \E E \in SUBSET ByRank!Queued(old) :
                        E # {} /\ new = ByRank!Serve(old, ByRank!Next(old, E))
                  \/ \E S \in SUBSET ByRank!Queued(old) : new = ByRank!Drop(old, S)
<1>1. ASSUME FairInv, [OrderNext]_orderVars PROVE A
  <2>0. ByRank!Queued(Abstract) = Waiting(queues)
    BY <1>1, OrderTyped
  <2>1. ASSUME NEW i \in Items, Push(i) PROVE A
    <3>1. Abstract' = ByRank!Push(Abstract, i)
      BY <1>1, <2>1, PushIsPush
    <3>2. i \notin Waiting(queues)
      BY <2>1 DEF Push
    <3> QED
      BY <3>1, <3>2
  <2>2. ASSUME NEW E \in SUBSET Waiting(queues), Pop(E) PROVE A
    <3>1. E # {} /\ Abstract' = ByRank!Serve(Abstract, ByRank!Next(Abstract, E))
      BY <1>1, <2>2, PopIsServe
    <3> QED
      BY <2>0, <3>1
  <2>3. ASSUME NEW S \in SUBSET Waiting(queues), RemoveWhere(S) PROVE A
    <3>1. Abstract' = ByRank!Drop(Abstract, S)
      BY <1>1, <2>3, RemoveIsDrop
    <3> QED
      BY <2>0, <3>1
  <2>4. CASE Probe
    <3>1. queues' = queues /\ served' = Trim(queues, served)
      BY <2>4 DEF Probe
    <3>2. served' = served
      <4>1. served' = IF \A k \in Keys : queues[k] = <<>> THEN [k \in Keys |-> 0] ELSE served
        BY <1>1, <3>1, TrimsAtOnce DEF FairInv, FairTypes
      <4> QED
        BY <1>1, <4>1 DEF FairInv, FairTypes
    <3>3. Abstract' = Abstract
      BY <3>1, <3>2 DEF Abstract
    <3> QED
      BY <3>3
  <2>5. CASE UNCHANGED orderVars
    <3>1. Abstract' = Abstract
      BY <2>5 DEF orderVars, Abstract
    <3> QED
      BY <3>1
  <2> HIDE DEF A
  <2> QED
    BY <1>1, <2>1, <2>2, <2>3, <2>4, <2>5 DEF OrderNext
<1>2. OrderInit => FairInv
  BY FairInvInit DEF Roomy
<1>3. FairInv /\ [OrderNext]_orderVars => FairInv'
  BY FairTypesNext, FairTurnsNext DEF FairInv, Roomy
<1>4. FairInv /\ [OrderNext]_orderVars => [A]_orderVars
  BY <1>1
<1> QED
  BY <1>2, <1>3, <1>4, PTL DEF OrderSpec, ActsAsRoundRobin

-----------------------------------------------------------------------------
(* The pops of everyone *)

\* The state of a simulation of pops (Pops) before the first.
Start(qs, sv) == [left |-> qs, sv |-> sv, out |-> <<>>]

\* One pop, the n-th, from the state s of the simulation.
After(s, st, n) ==
    IF WaitingKeys(s.left) = {} THEN s
    ELSE [left |-> [s.left EXCEPT ![KeyOf[Picked(s.left, s.sv, Items)]] = Tail(@)],
          sv   |-> Stamped(s.sv, KeyOf[Picked(s.left, s.sv, Items)], st + n),
          out  |-> Append(s.out, Picked(s.left, s.sv, Items))]

\* f is the simulation of d pops.
Walks(f, qs, sv, st, d) ==
    f = [n \in 0..d |-> IF n = 0 THEN Start(qs, sv) ELSE After(f[n-1], st, n)]

\* There is one of any length.
LEMMA WalkExists ==
  ASSUME NEW d \in Nat, NEW qs, NEW sv, NEW st
  PROVE  \E f : Walks(f, qs, sv, st, d)
<1> DEFINE None == {n \in Nat : \A f : ~Walks(f, qs, sv, st, n)}
<1> SUFFICES ASSUME d \in None PROVE FALSE
  OBVIOUS
<1>1. None \in SUBSET Nat /\ None # {}
  OBVIOUS
<1>2. PICK n \in None : \A m \in None : n <= m
  BY <1>1, LeastOf
<1>3. CASE n = 0
  <2> DEFINE f == [m \in 0..0 |-> Start(qs, sv)]
  <2>1. f = [m \in 0..0 |-> IF m = 0 THEN Start(qs, sv) ELSE After(f[m-1], st, m)]
    OBVIOUS
  <2> QED
    BY <1>2, <1>3, <2>1 DEF Walks
<1>4. CASE n # 0
  <2>1. n - 1 \in Nat /\ n - 1 \notin None
    BY <1>2, <1>4
  <2>2. PICK f : Walks(f, qs, sv, st, n - 1)
    BY <2>1
  <2> DEFINE g == [m \in 0..n |-> IF m = n THEN After(f[n-1], st, n) ELSE f[m]]
  <2>3. \A m \in 0..(n-1) : /\ m \in 0..n /\ m # n /\ g[m] = f[m]
                            /\ f[m] = IF m = 0 THEN Start(qs, sv) ELSE After(f[m-1], st, m)
    BY <2>1, <2>2 DEF Walks
  <2>4. g[n] = After(g[n-1], st, n)
    BY <1>4, <2>1
  <2>5. \A m \in 0..n : g[m] = IF m = 0 THEN Start(qs, sv) ELSE After(g[m-1], st, m)
    <3> TAKE m \in 0..n
    <3>1. CASE m = n
      BY <1>4, <2>4, <3>1
    <3>2. CASE m # n
      <4>1. m \in 0..(n-1) /\ (m # 0 => m - 1 \in 0..(n-1))
        BY <3>2
      <4> HIDE DEF g
      <4> QED
        BY <2>3, <4>1
    <3> QED
      BY <3>1, <3>2
  <2>6. g = [m \in 0..n |-> g[m]]
    OBVIOUS
  <2> HIDE DEF g
  <2>7. Walks(g, qs, sv, st, n)
    BY <2>5, <2>6 DEF Walks
  <2> QED
    BY <1>2, <2>7
<1> QED
  BY <1>3, <1>4

\* What a simulation takes is what its last state has taken.
LEMMA PopsWalk ==
  ASSUME NEW d \in Nat, NEW qs, NEW sv, NEW st
  PROVE  \E f : Walks(f, qs, sv, st, d) /\ Pops(qs, sv, st, d) = f[d].out
<1> DEFINE f == CHOOSE g : Walks(g, qs, sv, st, d)
<1>1. Walks(f, qs, sv, st, d)
  BY WalkExists
<1>2. Pops(qs, sv, st, d) = f[d].out
  BY DEF Pops, Walks, Start, After
<1> QED
  BY <1>1, <1>2

\* Induction up to d over a set.
LEMMA UpTo ==
  ASSUME NEW d \in Nat, NEW S, 0 \in S, \A m \in 0..(d-1) : m \in S => m + 1 \in S
  PROVE  \A m \in 0..d : m \in S
<1> DEFINE Missed == {m \in 0..d : m \notin S}
<1> SUFFICES ASSUME Missed # {} PROVE FALSE
  OBVIOUS
<1>1. PICK n \in Missed : \A m \in Missed : n <= m
  <2>1. Missed \in SUBSET Nat
    OBVIOUS
  <2> QED
    BY <2>1, LeastOf
<1>2. n # 0 /\ n - 1 \in 0..(d-1) /\ n - 1 \in 0..d /\ ~(n <= n - 1)
  BY <1>1
<1>3. n - 1 \in S
  BY <1>1, <1>2
<1> QED
  BY <1>1, <1>2, <1>3

\* The head of a goes before the head of b.
HeadBefore(qs, sv, a, b) ==
    sv[a] < sv[b] \/ (sv[a] = sv[b] /\ qs[a][1].n < qs[b][1].n)

\* A line that is not empty has a head, and it is the first accepted entry when all are.
LEMMA Heads ==
  ASSUME NEW qs, Numbered(qs), NEW k \in Keys, qs[k] # <<>>
  PROVE  /\ 1 \in DOMAIN qs[k] /\ FirstIn(qs[k], Items) = 1 /\ k \in KeysWith(qs, Items)
<1>1. qs \in [Keys -> Seq(Entries)]
  BY DEF Numbered
<1>2. 1 \in DOMAIN qs[k] /\ qs[k][1].item \in Items /\ DOMAIN qs[k] \subseteq Nat
  <2>1. Len(qs[k]) \in Nat /\ DOMAIN qs[k] = 1..Len(qs[k]) /\ DOMAIN qs[k] # {}
    BY <1>1, LinesAreTyped
  <2>2. 1 \in DOMAIN qs[k] /\ DOMAIN qs[k] \subseteq Nat
    BY <2>1
  <2> QED
    BY <1>1, <2>2, LinesAreTyped
<1>3. k \in KeysWith(qs, Items)
  BY <1>2, AcceptedKeys
<1>4. LET x == FirstIn(qs[k], Items)
      IN  x \in DOMAIN qs[k] /\ (1 # x => qs[k][x].n < qs[k][1].n)
  BY <1>2, <1>3, FirstAccepted
<1> DEFINE x == FirstIn(qs[k], Items)
<1>5. x \in DOMAIN qs[k] /\ (1 # x => qs[k][x].n < qs[k][1].n)
  BY <1>4
<1> HIDE DEF x
<1>6. 1 # x => 1 < x
  BY <1>1, <1>5, LinesAreTyped
<1>7. 1 # x => qs[k][1].n < qs[k][x].n
  BY <1>2, <1>5, <1>6 DEF Numbered
<1>8. qs[k][1].n \in Nat /\ qs[k][x].n \in Nat
  BY <1>1, <1>2, <1>5, LinesAreTyped
<1>9. x = 1
  BY <1>5, <1>7, <1>8
<1> QED
  BY <1>2, <1>3, <1>9 DEF x

\* Without its head a line is thinned by the head's item.
LEMMA TailThins ==
  ASSUME NEW qs, Numbered(qs), NEW b \in Keys, qs[b] # <<>>
  PROVE  /\ [qs EXCEPT ![b] = Tail(@)] \in [Keys -> Seq(Entries)]
         /\ Len(Tail(qs[b])) = Len(qs[b]) - 1
         /\ \A x \in DOMAIN Tail(qs[b]) : x + 1 \in DOMAIN qs[b] /\ Tail(qs[b])[x] = qs[b][x+1]
         /\ \A k \in Keys : Thins(qs[k], [qs EXCEPT ![b] = Tail(@)][k], {qs[b][1].item})
<1> DEFINE w == Tail(qs[b])
           i == qs[b][1].item
<1>1. qs \in [Keys -> Seq(Entries)]
  BY DEF Numbered
<1>2. /\ qs[b] \in Seq(Entries) /\ Len(qs[b]) \in Nat /\ Len(qs[b]) # 0
      /\ DOMAIN qs[b] = 1..Len(qs[b])
  BY <1>1
<1>3. /\ w \in Seq(Entries) /\ Len(w) = Len(qs[b]) - 1 /\ DOMAIN w = 1..(Len(qs[b]) - 1)
      /\ \A x \in 1..(Len(qs[b]) - 1) : w[x] = qs[b][x+1]
  BY <1>2
<1>4. \A x \in DOMAIN w : x + 1 \in DOMAIN qs[b] /\ w[x] = qs[b][x+1]
  BY <1>2, <1>3
<1>5. [qs EXCEPT ![b] = Tail(@)] \in [Keys -> Seq(Entries)]
  BY <1>1, <1>3
<1> HIDE DEF w
<1>6. Thins(qs[b], w, {i})
  <2> DEFINE at == [p \in DOMAIN w |-> p + 1]
  <2>1. at \in [DOMAIN w -> DOMAIN qs[b]]
    BY <1>4
  <2>2. \A p \in DOMAIN w : w[p] = qs[b][at[p]] /\ qs[b][at[p]].item # i
    <3> TAKE p \in DOMAIN w
    <3>1. p + 1 \in DOMAIN qs[b] /\ 1 \in DOMAIN qs[b] /\ p + 1 # 1
      BY <1>2, <1>3
    <3>2. qs[b][p+1].item # i
      BY <3>1 DEF Numbered
    <3> QED
      BY <1>4, <3>2
  <2>3. \A p, r \in DOMAIN w : p < r => at[p] < at[r]
    BY <1>2, <1>3
  <2>4. \A x \in DOMAIN qs[b] : qs[b][x].item # i => \E p \in DOMAIN w : at[p] = x
    <3> TAKE x \in DOMAIN qs[b]
    <3> HAVE qs[b][x].item # i
    <3>1. x - 1 \in DOMAIN w /\ (x - 1) + 1 = x
      BY <1>2, <1>3
    <3> QED
      BY <3>1
  <2> HIDE DEF at, i
  <2> QED
    BY <2>1, <2>2, <2>3, <2>4 DEF Thins
<1>7. ASSUME NEW k \in Keys, k # b PROVE Thins(qs[k], qs[k], {i})
  <2>1. qs[k] \in Seq(Entries)
    BY <1>1
  <2>2. \A x \in DOMAIN qs[k] : qs[k][x].item # i
    BY <1>2, <1>7 DEF Numbered
  <2> QED
    BY <2>1, <2>2, Untouched
<1>8. \A k \in Keys : [qs EXCEPT ![b] = Tail(@)][k] = IF k = b THEN w ELSE qs[k]
  BY <1>1 DEF w
<1> QED
  BY <1>3, <1>4, <1>5, <1>6, <1>7, <1>8 DEF w

\* A state of the simulation.
Popping(s) == Numbered(s.left) /\ s.sv \in [Keys -> Nat] /\ s.out \in Seq(Items)

\* The item i at the head of its key's line goes before all other heads.
Leads(s, i) ==
    /\ i \in Items /\ KeyOf[i] \in Keys /\ i \in Waiting(s.left)
    /\ s.left[KeyOf[i]] # <<>> /\ s.left[KeyOf[i]][1].item = i
    /\ \A a \in Keys \ {KeyOf[i]} :
          s.left[a] # <<>> => HeadBefore(s.left, s.sv, KeyOf[i], a)

\* From s to t, i is popped, under the stamp new.
PoppedFrom(s, t, new, i) ==
    /\ Leads(s, i)
    /\ t.left = [s.left EXCEPT ![KeyOf[i]] = Tail(@)]
    /\ t.sv   = [s.sv EXCEPT ![KeyOf[i]] = new]
    /\ t.out  = Append(s.out, i)
    /\ Popping(t)
    /\ Waiting(t.left) = Waiting(s.left) \ {i}

\* One pop takes the item that leads.
LEMMA OnePop ==
  ASSUME NEW s, Popping(s), WaitingKeys(s.left) # {}, NEW st \in Nat, NEW n \in Nat
  PROVE  \E i \in Items : PoppedFrom(s, After(s, st, n), st + n, i)
<1> DEFINE qs == s.left
           sv == s.sv
           i == Picked(qs, sv, Items)
           t == After(s, st, n)
<1>1. Numbered(qs) /\ sv \in [Keys -> Nat] /\ qs \in [Keys -> Seq(Entries)]
  BY DEF Popping, Numbered
<1>2. KeysWith(qs, Items) # {}
  <2>1. PICK k \in Keys : qs[k] # <<>>
    BY DEF WaitingKeys
  <2> QED
    BY <1>1, <2>1, Heads
<1> HIDE DEF qs, sv
<1>3. PICK b \in KeysWith(qs, Items) : \E x \in DOMAIN qs[b] :
            b \in Keys /\ GoesFirst(qs, sv, Items, i, b, x)
  BY <1>1, <1>2, PickIsBest
<1>4. PICK x \in DOMAIN qs[b] : b \in Keys /\ GoesFirst(qs, sv, Items, i, b, x)
  BY <1>3
<1> HIDE DEF i
<1>5. i \in Items /\ KeyOf[i] = b /\ qs[b][x].item = i
  BY <1>4 DEF GoesFirst
<1>6. qs[b] # <<>> /\ 1 \in DOMAIN qs[b] /\ DOMAIN qs[b] \subseteq Nat
  <2>1. qs[b] # <<>> /\ DOMAIN qs[b] = 1..Len(qs[b])
    BY <1>1, <1>4, LinesAreTyped
  <2> QED
    BY <1>1, <1>4, <2>1, Heads
<1>7. \A a \in Keys : \A y \in DOMAIN qs[a] : qs[a][y].item \in Items
  BY <1>1, LinesAreTyped
<1>8. x = 1
  <2>1. CASE qs[b][1].item = i
    BY <1>1, <1>4, <1>5, <1>6, <2>1 DEF Numbered
  <2>2. CASE qs[b][1].item # i
    <3>1. sv[b] < sv[b] \/ qs[b][x].n < qs[b][1].n
      BY <1>4, <1>6, <1>7, <2>2 DEF GoesFirst
    <3>2. sv[b] \in Nat /\ qs[b][x].n \in Nat /\ qs[b][1].n \in Nat
      BY <1>1, <1>4, <1>6, LinesAreTyped
    <3>3. 1 < x => qs[b][1].n < qs[b][x].n
      BY <1>1, <1>4, <1>6 DEF Numbered
    <3>4. x = 1 \/ 1 < x
      BY <1>1, <1>4, LinesAreTyped
    <3> QED
      BY <3>1, <3>2, <3>3, <3>4
  <2> QED
    BY <2>1, <2>2
<1>9. ASSUME NEW a \in Keys \ {b}, qs[a] # <<>> PROVE HeadBefore(qs, sv, b, a)
  <2>1. 1 \in DOMAIN qs[a]
    BY <1>1, <1>9, Heads
  <2>2. qs[a][1].item \in Items \ {i}
    BY <1>1, <1>4, <1>5, <1>7, <1>9, <2>1 DEF Numbered
  <2> QED
    BY <1>4, <1>8, <2>1, <2>2 DEF GoesFirst, HeadBefore
<1>10. \A j : j \in Waiting(qs) <=> \E e : Entry(qs, e) /\ e.item = j
  BY <1>1, WaitingAreEntries
<1>11. i \in Waiting(qs)
  BY <1>4, <1>5, <1>10 DEF Entry
<1>12. Leads(s, i)
  BY <1>4, <1>5, <1>6, <1>8, <1>9, <1>11 DEF Leads, qs, sv
<1>13. /\ t.left = [qs EXCEPT ![b] = Tail(@)] /\ t.sv = [sv EXCEPT ![b] = st + n]
       /\ t.out = Append(s.out, i)
  BY <1>5 DEF After, Stamped, qs, sv, i
<1> DEFINE rs == [qs EXCEPT ![b] = Tail(@)]
<1>14. /\ rs \in [Keys -> Seq(Entries)]
       /\ \A k \in Keys : Thins(qs[k], rs[k], {i})
  BY <1>1, <1>4, <1>5, <1>6, <1>8, TailThins
<1> HIDE DEF rs
<1>15. Numbered(rs) /\ \A e : Entry(rs, e) <=> Entry(qs, e) /\ e.item \notin {i}
  BY <1>1, <1>14, ThinnedNumbered
<1>16. Waiting(rs) = Waiting(qs) \ {i}
  BY <1>10, <1>15, WaitingAreEntries
<1>17. [sv EXCEPT ![b] = st + n] \in [Keys -> Nat] /\ Append(s.out, i) \in Seq(Items)
  <2>1. st + n \in Nat /\ s.out \in Seq(Items)
    BY DEF Popping
  <2>2. [sv EXCEPT ![b] = st + n] \in [Keys -> Nat]
    BY <1>1, <2>1
  <2>3. Append(s.out, i) \in Seq(Items)
    BY <1>5, <2>1
  <2> QED
    BY <2>2, <2>3
<1>18. Popping(t) /\ Waiting(t.left) = Waiting(qs) \ {i}
  BY <1>13, <1>15, <1>16, <1>17 DEF Popping, rs
<1> HIDE DEF t
<1> QED
  BY <1>5, <1>12, <1>13, <1>18 DEF t, qs, sv, PoppedFrom

\* The pops of all who wait: after m of them m items are taken, each in its place, and
\* the others wait.
LEMMA WalkTakes ==
  ASSUME FairOrderAssumption, NEW qs, Numbered(qs), NEW sv \in [Keys -> Nat], NEW st \in Nat,
         NEW N, N = Cardinality(Waiting(qs)), NEW f, Walks(f, qs, sv, st, N)
  PROVE  /\ N \in Nat /\ f[0] = Start(qs, sv) /\ Waiting(f[N].left) = {}
         /\ \A m \in 0..N : /\ Popping(f[m]) /\ Len(f[m].out) = m
                            /\ Waiting(f[m].left) \subseteq Waiting(qs)
                            /\ \A x \in 1..m : f[m].out[x] = f[x].out[x]
         /\ \A m \in 0..(N-1) : \E i \in Items : PoppedFrom(f[m], f[m+1], st + (m + 1), i)
<1> DEFINE Right(m) ==
             /\ Popping(f[m]) /\ Len(f[m].out) = m
             /\ Waiting(f[m].left) \subseteq Waiting(qs)
             /\ Cardinality(Waiting(f[m].left)) = N - m
             /\ \A x \in 1..m : f[m].out[x] = f[x].out[x]
           S == {m \in 0..N : Right(m)}
<1>1. IsFiniteSet(Waiting(qs)) /\ N \in Nat
  <2>1. Waiting(qs) \subseteq Items
    BY WaitingAreEntries, EntriesAreTyped
  <2>2. IsFiniteSet(Items)
    BY DEF FairOrderAssumption
  <2>3. IsFiniteSet(Waiting(qs))
    BY <2>1, <2>2, FS_Subset
  <2> QED
    BY <2>3, FS_CardinalityType
<1>2. f[0] = Start(qs, sv) /\ \A m \in 0..(N-1) : f[m+1] = After(f[m], st, m + 1)
  BY <1>1 DEF Walks
<1>3. 0 \in S
  <2>1. Popping(f[0]) /\ f[0].left = qs /\ Len(f[0].out) = 0
    BY <1>2 DEF Start, Popping
  <2> QED
    BY <1>1, <2>1
<1> HIDE DEF Right
<1>4. ASSUME NEW m \in 0..(N-1), m \in S
      PROVE  m + 1 \in S /\ \E i \in Items : PoppedFrom(f[m], f[m+1], st + (m + 1), i)
  <2>1. Right(m) /\ m \in Nat /\ m + 1 \in 0..N /\ N - m # 0 /\ m + 1 \in Nat
    BY <1>1, <1>4
  <2>2. Waiting(f[m].left) # {}
    BY <2>1, FS_EmptySet DEF Right
  <2>3. WaitingKeys(f[m].left) # {}
    <3>1. PICK e : Entry(f[m].left, e)
      BY <2>1, <2>2, WaitingAreEntries DEF Right, Popping
    <3>2. PICK k \in Keys : DOMAIN f[m].left[k] # {}
      BY <3>1 DEF Entry
    <3>3. f[m].left \in [Keys -> Seq(Entries)]
      BY <2>1 DEF Right, Popping, Numbered
    <3>4. f[m].left[k] # <<>>
      BY <3>2, <3>3, LinesAreTyped
    <3> QED
      BY <3>4 DEF WaitingKeys
  <2>4. PICK i \in Items : PoppedFrom(f[m], f[m+1], st + (m + 1), i)
    <3>1. Popping(f[m])
      BY <2>1 DEF Right
    <3>2. \E i \in Items : PoppedFrom(f[m], After(f[m], st, m + 1), st + (m + 1), i)
      BY <2>1, <2>3, <3>1, OnePop
    <3> QED
      BY <1>2, <3>2
  <2>5. Popping(f[m+1]) /\ f[m+1].out = Append(f[m].out, i)
    BY <2>4 DEF PoppedFrom
  <2>6. f[m].out \in Seq(Items) /\ Len(f[m].out) = m
    BY <2>1 DEF Right, Popping
  <2>7. /\ Len(f[m+1].out) = m + 1
        /\ \A x \in 1..m : f[m+1].out[x] = f[m].out[x]
    BY <2>5, <2>6
  <2>8. \A x \in 1..(m+1) : f[m+1].out[x] = f[x].out[x]
    <3> TAKE x \in 1..(m+1)
    <3>1. CASE x = m + 1
      BY <3>1
    <3>2. CASE x # m + 1
      <4>1. x \in 1..m
        BY <2>1, <3>2
      <4> QED
        BY <2>1, <2>7, <4>1 DEF Right
    <3> QED
      BY <3>1, <3>2
  <2>9. Waiting(f[m+1].left) = Waiting(f[m].left) \ {i} /\ i \in Waiting(f[m].left)
    BY <2>4 DEF PoppedFrom, Leads
  <2>10. Cardinality(Waiting(f[m+1].left)) = N - (m + 1) /\ Waiting(f[m+1].left) \subseteq Waiting(qs)
    <3>1. IsFiniteSet(Waiting(f[m].left)) /\ Cardinality(Waiting(f[m].left)) = N - m
      BY <1>1, <2>1, FS_Subset DEF Right
    <3>2. Cardinality(Waiting(f[m].left) \ {i}) = Cardinality(Waiting(f[m].left)) - 1
      BY <2>9, <3>1, FS_RemoveElement
    <3> QED
      BY <1>1, <2>1, <2>9, <3>1, <3>2 DEF Right
  <2>11. Right(m + 1)
    BY <2>5, <2>7, <2>8, <2>10 DEF Right
  <2> QED
    BY <2>1, <2>4, <2>11
<1>5. \A m \in 0..N : m \in S
  <2>1. \A m \in 0..(N-1) : m \in S => m + 1 \in S
    BY <1>4
  <2> HIDE DEF S
  <2> QED
    BY <1>1, <1>3, <2>1, UpTo
<1>6. \A m \in 0..(N-1) : \E i \in Items : PoppedFrom(f[m], f[m+1], st + (m + 1), i)
  <2> TAKE m \in 0..(N-1)
  <2>1. m \in S
    <3> HIDE DEF S
    <3> QED
      BY <1>1, <1>5
  <2> QED
    BY <1>4, <2>1
<1>7. Waiting(f[N].left) = {}
  <2>1. Right(N) /\ N - N = 0
    BY <1>1, <1>5
  <2>2. IsFiniteSet(Waiting(f[N].left)) /\ Cardinality(Waiting(f[N].left)) = 0
    BY <1>1, <2>1, FS_Subset DEF Right
  <2> QED
    BY <2>2, FS_EmptySet
<1> QED
  BY <1>1, <1>2, <1>5, <1>6, <1>7 DEF Right

\* Of the line q, w is the beginning: all of it, or at least r entries.
Begins(q, w, r) ==
    /\ Len(w) <= Len(q) /\ (Len(w) = Len(q) \/ Len(w) >= r)
    /\ \A x \in 1..Len(w) : w[x] = q[x]

\* The two simulations agree, and the limited one still has r entries of each key.
Agree(s, u, r) ==
    /\ u.sv = s.sv /\ u.out = s.out /\ Popping(u)
    /\ \A k \in Keys : Begins(s.left[k], u.left[k], r)

\* copy(limit): each key keeps the beginning of its line.
LEMMA LimitedBegins ==
  ASSUME NEW qs, Numbered(qs), NEW n \in Nat
  PROVE  Numbered(Limited(qs, n)) /\ \A k \in Keys : Begins(qs[k], Limited(qs, n)[k], n)
<1> DEFINE ws == Limited(qs, n)
<1>1. qs \in [Keys -> Seq(Entries)]
  BY DEF Numbered
<1>2. ASSUME NEW k \in Keys
      PROVE  /\ ws[k] \in Seq(Entries) /\ DOMAIN ws[k] = 1..Len(ws[k])
             /\ DOMAIN qs[k] = 1..Len(qs[k])
             /\ Begins(qs[k], ws[k], n)
  <2> DEFINE c == IF Len(qs[k]) < n THEN Len(qs[k]) ELSE n
  <2>1. qs[k] \in Seq(Entries) /\ Len(qs[k]) \in Nat /\ DOMAIN qs[k] = 1..Len(qs[k])
    BY <1>1
  <2>2. c \in Nat /\ c <= Len(qs[k]) /\ (c = Len(qs[k]) \/ c >= n)
    BY <2>1
  <2>3. ws[k] = SubSeq(qs[k], 1, c)
    BY DEF Limited
  <2> HIDE DEF c, ws
  <2>4. /\ ws[k] \in Seq(Entries) /\ Len(ws[k]) = c
        /\ \A x \in 1..c : ws[k][x] = qs[k][x]
    BY <2>1, <2>2, <2>3
  <2> QED
    BY <2>1, <2>2, <2>4 DEF Begins
<1>3. ws \in [Keys -> Seq(Entries)]
  BY <1>2 DEF Limited
<1> HIDE DEF ws
<1>4. \A k \in Keys : \A x \in DOMAIN ws[k] : x \in DOMAIN qs[k] /\ ws[k][x] = qs[k][x]
  <2> TAKE k \in Keys
  <2>1. Len(ws[k]) \in Nat /\ Len(qs[k]) \in Nat
    BY <1>1, <1>2
  <2> QED
    BY <1>2, <2>1 DEF Begins
<1>5. Numbered(ws)
  BY <1>3, <1>4 DEF Numbered
<1> QED
  BY <1>2, <1>5 DEF ws

\* Lines that begin alike have the same heads.
LEMMA SameHeads ==
  ASSUME NEW s, NEW u, Popping(s), NEW r \in Nat, r > 0, Agree(s, u, r), NEW k \in Keys
  PROVE  /\ s.left[k] = <<>> <=> u.left[k] = <<>>
         /\ s.left[k] # <<>> => u.left[k][1] = s.left[k][1] /\ s.left[k][1].n \in Nat
<1>1. s.left \in [Keys -> Seq(Entries)] /\ u.left \in [Keys -> Seq(Entries)]
  BY DEF Agree, Popping, Numbered
<1>2. /\ Len(s.left[k]) \in Nat /\ Len(u.left[k]) \in Nat
      /\ (s.left[k] = <<>> <=> Len(s.left[k]) = 0) /\ (u.left[k] = <<>> <=> Len(u.left[k]) = 0)
  BY <1>1
<1>3. Begins(s.left[k], u.left[k], r)
  BY DEF Agree
<1>4. s.left[k] # <<>> => 1 \in DOMAIN s.left[k]
  BY Heads DEF Popping
<1>5. s.left[k] # <<>> => s.left[k][1].n \in Nat
  BY <1>1, <1>4, LinesAreTyped
<1> QED
  BY <1>2, <1>3, <1>5 DEF Begins

\* A pop of each takes the same item.
LEMMA PoppedAlike ==
  ASSUME NEW s, NEW u, NEW t, NEW v, Popping(s), NEW r \in Nat, r > 0, Agree(s, u, r),
         NEW new, NEW i, NEW j, PoppedFrom(s, t, new, i), PoppedFrom(u, v, new, j)
  PROVE  Agree(t, v, r - 1)
<1> DEFINE a == KeyOf[i]
           b == KeyOf[j]
<1>1. /\ a \in Keys /\ s.left[a] # <<>> /\ s.left[a][1].item = i
      /\ \A k \in Keys \ {a} : s.left[k] # <<>> => HeadBefore(s.left, s.sv, a, k)
  BY DEF PoppedFrom, Leads
<1>2. /\ b \in Keys /\ u.left[b] # <<>> /\ u.left[b][1].item = j
      /\ \A k \in Keys \ {b} : u.left[k] # <<>> => HeadBefore(u.left, u.sv, b, k)
  BY DEF PoppedFrom, Leads
<1> HIDE DEF a, b
<1>3. u.left[a] # <<>> /\ u.left[a][1] = s.left[a][1] /\ s.left[a][1].n \in Nat
  BY <1>1, SameHeads
<1>4. s.left[b] # <<>> /\ u.left[b][1] = s.left[b][1] /\ s.left[b][1].n \in Nat
  BY <1>2, SameHeads
<1>5. u.sv = s.sv /\ s.sv[a] \in Nat /\ s.sv[b] \in Nat
  BY <1>1, <1>2 DEF Agree, Popping
<1>6. a = b
  <2> SUFFICES ASSUME a # b PROVE FALSE
    OBVIOUS
  <2>1. HeadBefore(s.left, s.sv, a, b) /\ HeadBefore(u.left, u.sv, b, a)
    BY <1>1, <1>2, <1>3, <1>4
  <2> QED
    BY <1>3, <1>4, <1>5, <2>1 DEF HeadBefore
<1>7. i = j
  BY <1>1, <1>2, <1>3, <1>6
<1>8. v.sv = t.sv /\ v.out = t.out /\ Popping(v)
  BY <1>5, <1>7 DEF PoppedFrom, Agree
<1>9. /\ t.left = [s.left EXCEPT ![a] = Tail(@)] /\ v.left = [u.left EXCEPT ![a] = Tail(@)]
      /\ s.left \in [Keys -> Seq(Entries)] /\ u.left \in [Keys -> Seq(Entries)]
  BY <1>7 DEF PoppedFrom, Agree, Popping, Numbered, a
<1>10. ASSUME NEW k \in Keys PROVE Begins(t.left[k], v.left[k], r - 1)
  <2>1. Begins(s.left[k], u.left[k], r)
    BY DEF Agree
  <2>2. /\ s.left[k] \in Seq(Entries) /\ u.left[k] \in Seq(Entries)
        /\ Len(s.left[k]) \in Nat /\ Len(u.left[k]) \in Nat
    BY <1>9
  <2>3. CASE k = a
    <3> DEFINE q == s.left[a]
               w == u.left[a]
    <3>1. q \in Seq(Entries) /\ w \in Seq(Entries) /\ q # <<>> /\ w # <<>>
      BY <1>1, <1>3, <1>9
    <3>2. t.left[k] = Tail(q) /\ v.left[k] = Tail(w)
      BY <1>1, <1>9, <2>3
    <3>3. /\ Len(q) \in Nat /\ Len(w) \in Nat
          /\ Len(w) <= Len(q) /\ (Len(w) = Len(q) \/ Len(w) >= r)
          /\ \A x \in 1..Len(w) : w[x] = q[x]
      BY <2>1, <2>2, <2>3 DEF Begins
    <3> HIDE DEF q, w
    <3>4. /\ Len(Tail(q)) = Len(q) - 1 /\ Len(Tail(w)) = Len(w) - 1
          /\ \A x \in 1..(Len(q) - 1) : Tail(q)[x] = q[x+1]
          /\ \A x \in 1..(Len(w) - 1) : Tail(w)[x] = w[x+1]
      BY <3>1
    <3>5. \A x \in 1..(Len(w) - 1) : Tail(w)[x] = Tail(q)[x]
      <4> TAKE x \in 1..(Len(w) - 1)
      <4>1. x \in 1..(Len(q) - 1) /\ x + 1 \in 1..Len(w)
        BY <3>3
      <4> QED
        BY <3>3, <3>4, <4>1
    <3> QED
      BY <3>2, <3>3, <3>4, <3>5 DEF Begins
  <2>4. CASE k # a
    <3>1. t.left[k] = s.left[k] /\ v.left[k] = u.left[k]
      BY <1>9, <2>4
    <3> QED
      BY <2>1, <2>2, <3>1 DEF Begins
  <2> QED
    BY <2>3, <2>4
<1> QED
  BY <1>8, <1>10 DEF Agree

\* The pops of a copy that keeps n entries of each key agree with those of the whole
\* order for n pops.
LEMMA WalksAgree ==
  ASSUME FairOrderAssumption, NEW qs, Numbered(qs), NEW sv \in [Keys -> Nat], NEW st \in Nat,
         NEW N, N = Cardinality(Waiting(qs)), NEW f, Walks(f, qs, sv, st, N),
         NEW n \in 1..N, NEW g, Walks(g, Limited(qs, n), sv, st, n)
  PROVE  g[n].out = f[n].out
<1>1. /\ N \in Nat /\ f[0] = Start(qs, sv)
      /\ \A m \in 0..N : Popping(f[m])
      /\ \A m \in 0..(N-1) : \E i \in Items : PoppedFrom(f[m], f[m+1], st + (m + 1), i)
  BY WalkTakes
<1>2. n \in Nat /\ n <= N
  BY <1>1
<1>3. g[0] = Start(Limited(qs, n), sv) /\ \A m \in 0..(n-1) : g[m+1] = After(g[m], st, m + 1)
  BY <1>2 DEF Walks
<1> DEFINE S == {m \in 0..n : Agree(f[m], g[m], n - m)}
<1>4. 0 \in S
  <2>1. Numbered(Limited(qs, n)) /\ \A k \in Keys : Begins(qs[k], Limited(qs, n)[k], n)
    BY <1>2, LimitedBegins
  <2>2. Agree(f[0], g[0], n)
    BY <1>1, <1>3, <2>1 DEF Start, Agree, Popping
  <2> QED
    BY <1>2, <2>2
<1>5. ASSUME NEW m \in 0..(n-1), m \in S PROVE m + 1 \in S
  <2>1. /\ m \in 0..(N-1) /\ m \in 0..N /\ m + 1 \in 0..n /\ n - m \in Nat /\ n - m > 0
        /\ (n - m) - 1 = n - (m + 1) /\ m + 1 \in Nat /\ Agree(f[m], g[m], n - m)
    BY <1>1, <1>2, <1>5
  <2>2. PICK i \in Items : PoppedFrom(f[m], f[m+1], st + (m + 1), i)
    BY <1>1, <2>1
  <2>3. WaitingKeys(g[m].left) # {}
    <3>1. KeyOf[i] \in Keys /\ f[m].left[KeyOf[i]] # <<>>
      BY <2>2 DEF PoppedFrom, Leads
    <3>2. Popping(f[m])
      BY <1>1, <2>1
    <3>3. g[m].left[KeyOf[i]] # <<>>
      <4> DEFINE k == KeyOf[i]
                 r == n - m
      <4>1. k \in Keys /\ f[m].left[k] # <<>> /\ r \in Nat /\ r > 0 /\ Agree(f[m], g[m], r)
        BY <2>1, <3>1
      <4> HIDE DEF k, r
      <4>2. f[m].left[k] = <<>> <=> g[m].left[k] = <<>>
        BY <3>2, <4>1, SameHeads
      <4> QED
        BY <4>1, <4>2 DEF k
    <3> QED
      BY <3>1, <3>3 DEF WaitingKeys
  <2>4. PICK j \in Items : PoppedFrom(g[m], g[m+1], st + (m + 1), j)
    <3>1. Popping(g[m])
      BY <2>1 DEF Agree
    <3>2. \E j \in Items : PoppedFrom(g[m], After(g[m], st, m + 1), st + (m + 1), j)
      BY <2>1, <2>3, <3>1, OnePop
    <3> QED
      BY <1>3, <3>2
  <2>5. Agree(f[m+1], g[m+1], (n - m) - 1)
    BY <1>1, <2>1, <2>2, <2>4, PoppedAlike
  <2> QED
    BY <2>1, <2>5
<1>6. n \in S
  <2> HIDE DEF S
  <2>1. \A m \in 0..n : m \in S
    BY <1>2, <1>4, <1>5, UpTo
  <2> QED
    BY <1>2, <2>1
<1> QED
  BY <1>6 DEF Agree

\* FairOrder.copy: the first n pops of a copy limited to n entries per key are the first n
\* pops of the whole order.
LEMMA LimitedPops ==
  ASSUME FairOrderAssumption, NEW qs, Numbered(qs), NEW sv \in [Keys -> Nat], NEW st \in Nat,
         NEW n \in 1..Cardinality(Waiting(qs))
  PROVE  Pops(Limited(qs, n), sv, st, n) = SubSeq(Pops(qs, sv, st, Cardinality(Waiting(qs))), 1, n)
<1> DEFINE N == Cardinality(Waiting(qs))
<1>1. N \in Nat
  <2>1. Waiting(qs) \subseteq Items /\ IsFiniteSet(Items)
    BY WaitingAreEntries, EntriesAreTyped DEF FairOrderAssumption
  <2> QED
    BY <2>1, FS_Subset, FS_CardinalityType
<1>2. n \in Nat /\ n \in 1..N /\ n <= N /\ n \in 0..N /\ N \in 0..N
  BY <1>1
<1>3. PICK f : Walks(f, qs, sv, st, N) /\ Pops(qs, sv, st, N) = f[N].out
  BY <1>1, PopsWalk
<1>4. PICK g : Walks(g, Limited(qs, n), sv, st, n) /\ Pops(Limited(qs, n), sv, st, n) = g[n].out
  BY <1>2, PopsWalk
<1>5. g[n].out = f[n].out
  BY <1>3, <1>4, WalksAgree
<1>6. \A m \in 0..N : /\ Popping(f[m]) /\ Len(f[m].out) = m
                      /\ \A x \in 1..m : f[m].out[x] = f[x].out[x]
  BY <1>3, WalkTakes
<1> HIDE DEF N
<1>7. /\ f[N].out \in Seq(Items) /\ Len(f[N].out) = N
      /\ f[n].out \in Seq(Items) /\ Len(f[n].out) = n
  BY <1>2, <1>6 DEF Popping
<1>8. \A x \in 1..n : f[n].out[x] = f[N].out[x]
  <2> TAKE x \in 1..n
  <2>1. x \in 1..N
    BY <1>1, <1>2
  <2> QED
    BY <1>2, <1>6, <2>1
<1>9. f[n].out = SubSeq(f[N].out, 1, n)
  BY <1>1, <1>2, <1>7, <1>8
<1> QED
  BY <1>3, <1>4, <1>5, <1>9 DEF N

\* The lines stay numbered and the stamps apart, whatever room there is for stamps.
LEMMA FairTypesAlways == OrderSpec => []FairTypes
<1>1. OrderInit => FairTypes
  BY FairOrderAssumption, FairInvInit DEF FairInv
<1>2. FairTypes /\ [OrderNext]_orderVars => FairTypes'
  BY FairOrderAssumption, FairTypesNext
<1> QED
  BY <1>1, <1>2, PTL DEF OrderSpec

\* The counters of turns are numbers, and no more arrive than the bound says.
TurnsTyped == turns \in [Keys -> [Keys -> Nat]] /\ arrivals \in 0..MaxArrivals

\* FairOrder is well typed for any items, keys and bounds.
THEOREM OrderTypeCorrect == OrderSpec => []OrderTypeOK
<1>1. OrderInit => TurnsTyped
  BY FairOrderAssumption DEF OrderInit, TurnsTyped
<1>2. FairTypes /\ TurnsTyped /\ [OrderNext]_orderVars => TurnsTyped'
  <2> SUFFICES ASSUME FairTypes, TurnsTyped, [OrderNext]_orderVars PROVE TurnsTyped'
    OBVIOUS
  <2>1. \A tn \in [Keys -> [Keys -> Nat]] : \A qs : Counted(tn, qs) \in [Keys -> [Keys -> Nat]]
    BY DEF Counted
  <2>2. ASSUME NEW i \in Items, Push(i) PROVE TurnsTyped'
    BY <2>2, FairOrderAssumption DEF TurnsTyped, Push
  <2>3. ASSUME NEW E, Pop(E) PROVE TurnsTyped'
    <3> DEFINE k == KeyOf[Picked(queues, served, E)]
               tn == [a \in Keys |-> [b \in Keys |->
                        IF a = k THEN 0
                        ELSE IF b = k /\ a \in KeysWith(queues, E) THEN turns[a][b] + 1
                        ELSE turns[a][b]]]
    <3>1. tn \in [Keys -> [Keys -> Nat]]
      BY DEF TurnsTyped
    <3>2. turns' = Counted(tn, queues') /\ arrivals' = arrivals
      BY <2>3, Zenon DEF Pop
    <3> QED
      BY <2>1, <3>1, <3>2 DEF TurnsTyped
  <2>4. ASSUME NEW S, RemoveWhere(S) PROVE TurnsTyped'
    BY <2>1, <2>4 DEF TurnsTyped, RemoveWhere
  <2>5. CASE Probe
    BY <2>5, FairOrderAssumption DEF TurnsTyped, Probe
  <2>6. CASE UNCHANGED orderVars
    BY <2>6 DEF TurnsTyped, orderVars
  <2> QED
    BY <2>2, <2>3, <2>4, <2>5, <2>6 DEF OrderNext
<1>3. FairTypes /\ TurnsTyped => OrderTypeOK
  <2> SUFFICES ASSUME FairTypes, TurnsTyped PROVE OrderTypeOK
    OBVIOUS
  <2>1. served \in [Keys -> 0..stamp]
    BY DEF FairTypes
  <2>2. ASSUME NEW k \in Keys, NEW x \in 1..Len(queues[k])
        PROVE  /\ KeyOf[queues[k][x].item] = k
               /\ queues[k][x].n <= arrivals
               /\ x > 1 => queues[k][x-1].n < queues[k][x].n
    <3>1. /\ queues[k] \in Seq(Entries) /\ DOMAIN queues[k] = 1..Len(queues[k])
          /\ Len(queues[k]) \in Nat
      BY LinesAreTyped DEF FairTypes, Numbered
    <3>2. x > 1 => x - 1 \in 1..Len(queues[k]) /\ x - 1 < x
      BY <3>1
    <3>3. Entry(queues, queues[k][x])
      BY <3>1 DEF Entry
    <3> QED
      BY <3>1, <3>2, <3>3 DEF FairTypes, Numbered
  <2> QED
    BY <2>1, <2>2 DEF OrderTypeOK, TurnsTyped, FairTypes, Numbered
<1> QED
  BY <1>1, <1>2, <1>3, FairTypesAlways, PTL DEF OrderSpec

\* A copy limited to n items per key pops the same first n items as the full order
\* (FairOrder.copy, fair_queue.py:266, "which is all the next limit pops can reach").
THEOREM CopiesPopTheSame == OrderSpec => []LimitedCopyPopsTheSame
<1>1. FairTypes => LimitedCopyPopsTheSame
  BY FairOrderAssumption, LimitedPops DEF FairTypes, LimitedCopyPopsTheSame, PickOrder
<1> QED
  BY <1>1, FairTypesAlways, PTL

-----------------------------------------------------------------------------
(* Places are by rounds *)

\* The place of j in its key's line.
NthIn(qs, j) == CHOOSE x \in 1..Len(qs[KeyOf[j]]) : qs[KeyOf[j]][x].item = j

\* j is of an earlier round than i, or of the same round and its key goes first.
Earlier(qs, sv, j, i) ==
    \/ NthIn(qs, j) < NthIn(qs, i)
    \/ NthIn(qs, j) = NthIn(qs, i) /\ KeyOf[j] # KeyOf[i] /\ HeadBefore(qs, sv, KeyOf[j], KeyOf[i])

\* An item's place is the place of its entry.
LEMMA NthIs ==
  ASSUME NEW qs, Numbered(qs), NEW k \in Keys, NEW x \in DOMAIN qs[k]
  PROVE  LET j == qs[k][x].item IN KeyOf[j] = k /\ NthIn(qs, j) = x /\ x \in Nat
<1> DEFINE j == qs[k][x].item
<1>1. KeyOf[j] = k /\ x \in 1..Len(qs[k]) /\ Len(qs[k]) \in Nat /\ DOMAIN qs[k] = 1..Len(qs[k])
  <2>1. qs \in [Keys -> Seq(Entries)] /\ KeyOf[j] = k
    BY DEF Numbered
  <2> QED
    BY <2>1, LinesAreTyped
<1>2. \A y \in 1..Len(qs[k]) : qs[k][y].item = j => y = x
  BY <1>1 DEF Numbered
<1> QED
  BY <1>1, <1>2 DEF NthIn

\* Two heads are in one order or the other.
LEMMA OneHeadFirst ==
  ASSUME NEW qs, Numbered(qs), NEW sv \in [Keys -> Nat], NEW a \in Keys, NEW b \in Keys, a # b,
         qs[a] # <<>>, qs[b] # <<>>
  PROVE  HeadBefore(qs, sv, a, b) <=> ~HeadBefore(qs, sv, b, a)
<1>1. 1 \in DOMAIN qs[a] /\ 1 \in DOMAIN qs[b] /\ qs \in [Keys -> Seq(Entries)]
  BY Heads DEF Numbered
<1>2. qs[a][1].n \in Nat /\ qs[b][1].n \in Nat
  BY <1>1, LinesAreTyped
<1>3. qs[a][1].n # qs[b][1].n
  BY <1>1 DEF Numbered
<1>4. sv[a] \in Nat /\ sv[b] \in Nat
  OBVIOUS
<1> QED
  BY <1>2, <1>3, <1>4 DEF HeadBefore

\* Of the line qs[k], what is gone and what is left.
Gone(qs, s, k) == Len(qs[k]) - Len(s.left[k])

\* The simulation goes by rounds: of two keys, none is more than a round ahead, and the
\* next is the one that is behind or went first.
InRounds(qs, sv, s, now) ==
    /\ \A k \in Keys : /\ Len(s.left[k]) <= Len(qs[k]) /\ s.sv[k] <= now
                       /\ \A x \in DOMAIN s.left[k] :
                             Gone(qs, s, k) + x \in DOMAIN qs[k] /\ s.left[k][x] = qs[k][Gone(qs, s, k) + x]
    /\ \A a, b \in Keys :
          a # b /\ s.left[a] # <<>> /\ s.left[b] # <<>> =>
             /\ HeadBefore(s.left, s.sv, a, b) <=>
                   \/ Gone(qs, s, a) < Gone(qs, s, b)
                   \/ Gone(qs, s, a) = Gone(qs, s, b) /\ HeadBefore(qs, sv, a, b)
             /\ \/ Gone(qs, s, a) <= Gone(qs, s, b)
                \/ Gone(qs, s, a) = Gone(qs, s, b) + 1 /\ HeadBefore(qs, sv, a, b)

\* What has been taken from a line.
LEMMA GoneIs ==
  ASSUME NEW qs, Numbered(qs), NEW sv, NEW s, Popping(s), NEW now, InRounds(qs, sv, s, now), NEW k \in Keys
  PROVE  /\ Gone(qs, s, k) \in Nat
         /\ s.left[k] # <<>> => qs[k] # <<>>
<1>1. qs \in [Keys -> Seq(Entries)] /\ s.left \in [Keys -> Seq(Entries)]
  BY DEF Popping, Numbered
<1>2. Len(qs[k]) \in Nat /\ Len(s.left[k]) \in Nat /\ Len(s.left[k]) <= Len(qs[k])
  BY <1>1 DEF InRounds
<1>3. (s.left[k] = <<>> <=> Len(s.left[k]) = 0) /\ (qs[k] = <<>> <=> Len(qs[k]) = 0)
  BY <1>1
<1> QED
  BY <1>2, <1>3 DEF Gone

\* A pop takes the item that is earliest of those that are left.
LEMMA PopIsEarliest ==
  ASSUME NEW qs, Numbered(qs), NEW sv \in [Keys -> Nat], NEW s, Popping(s), NEW now \in Nat,
         InRounds(qs, sv, s, now), NEW i, Leads(s, i)
  PROVE  \A j \in Waiting(s.left) \ {i} : Earlier(qs, sv, i, j)
<1> DEFINE k == KeyOf[i]
           g(a) == Gone(qs, s, a)
<1>1. /\ k \in Keys /\ s.left[k] # <<>> /\ s.left[k][1].item = i
      /\ \A a \in Keys \ {k} : s.left[a] # <<>> => HeadBefore(s.left, s.sv, k, a)
  BY DEF Leads
<1>2. Numbered(s.left)
  BY DEF Popping
<1>3. 1 \in DOMAIN s.left[k]
  BY <1>1, <1>2, Heads
<1>4. \A a \in Keys : \A x \in DOMAIN s.left[a] : g(a) + x \in DOMAIN qs[a] /\ s.left[a][x] = qs[a][g(a) + x]
  BY DEF InRounds
<1>5. \A a \in Keys : g(a) \in Nat
  BY GoneIs
<1>6. \A a, b \in Keys : a # b /\ s.left[a] # <<>> /\ s.left[b] # <<>> /\ HeadBefore(s.left, s.sv, a, b) =>
                   g(a) < g(b) \/ (g(a) = g(b) /\ HeadBefore(qs, sv, a, b))
  BY DEF InRounds
<1> HIDE DEF g, k
<1>7. NthIn(qs, i) = g(k) + 1
  <2>1. g(k) + 1 \in DOMAIN qs[k] /\ qs[k][g(k) + 1].item = i
    BY <1>1, <1>3, <1>4
  <2> QED
    BY <1>1, <2>1, NthIs
<1>8. ASSUME NEW j \in Waiting(s.left) \ {i} PROVE Earlier(qs, sv, i, j)
  <2>1. PICK a \in Keys : \E x \in DOMAIN s.left[a] : s.left[a][x].item = j
    <3>1. PICK e : Entry(s.left, e) /\ e.item = j
      BY <1>2, WaitingAreEntries
    <3> QED
      BY <3>1 DEF Entry
  <2>2. PICK x \in DOMAIN s.left[a] : s.left[a][x].item = j
    BY <2>1
  <2>3. g(a) + x \in DOMAIN qs[a] /\ qs[a][g(a) + x].item = j
    BY <1>4, <2>2
  <2>4. KeyOf[j] = a /\ NthIn(qs, j) = g(a) + x
    BY <2>3, NthIs
  <2>5. x \in Nat /\ x > 0 /\ s.left[a] # <<>>
    <3>1. s.left \in [Keys -> Seq(Entries)]
      BY <1>2 DEF Numbered
    <3>2. DOMAIN s.left[a] = 1..Len(s.left[a]) /\ s.left[a] # <<>>
      BY <2>2, <3>1, LinesAreTyped
    <3> QED
      BY <3>2
  <2>6. CASE a = k
    <3>1. x # 1
      BY <1>1, <2>2, <2>6
    <3>2. NthIn(qs, i) < NthIn(qs, j)
      BY <1>5, <1>7, <2>4, <2>5, <2>6, <3>1
    <3> QED
      BY <3>2 DEF Earlier
  <2>7. CASE a # k
    <3>1. g(k) < g(a) \/ (g(k) = g(a) /\ HeadBefore(qs, sv, k, a))
      BY <1>1, <1>6, <2>5, <2>7
    <3>2. g(k) \in Nat /\ g(a) \in Nat
      BY <1>1, <1>5
    <3>3. NthIn(qs, i) < NthIn(qs, j) \/ (NthIn(qs, i) = NthIn(qs, j) /\ HeadBefore(qs, sv, k, a))
      BY <1>7, <2>4, <2>5, <3>1, <3>2
    <3> QED
      BY <2>4, <2>7, <3>3 DEF Earlier, k
  <2> QED
    BY <2>6, <2>7
<1> QED
  BY <1>8

\* A pop keeps the rounds.
LEMMA RoundsGoOn ==
  ASSUME NEW qs, Numbered(qs), NEW sv \in [Keys -> Nat], NEW s, Popping(s), NEW now \in Nat,
         InRounds(qs, sv, s, now), NEW t, NEW i, PoppedFrom(s, t, now + 1, i)
  PROVE  InRounds(qs, sv, t, now + 1)
<1> DEFINE k == KeyOf[i]
           g(a) == Gone(qs, s, a)
           h(a) == Gone(qs, t, a)
           B(a, b) == HeadBefore(qs, sv, a, b)
<1>1. /\ k \in Keys /\ s.left[k] # <<>>
      /\ \A a \in Keys \ {k} : s.left[a] # <<>> => HeadBefore(s.left, s.sv, k, a)
      /\ t.left = [s.left EXCEPT ![k] = Tail(@)] /\ t.sv = [s.sv EXCEPT ![k] = now + 1]
  BY DEF PoppedFrom, Leads
<1>2. /\ Numbered(s.left) /\ s.left \in [Keys -> Seq(Entries)] /\ s.sv \in [Keys -> Nat]
      /\ qs \in [Keys -> Seq(Entries)]
  BY DEF Popping, Numbered
<1>3. /\ Len(t.left[k]) = Len(s.left[k]) - 1
      /\ \A x \in DOMAIN t.left[k] : x + 1 \in DOMAIN s.left[k] /\ t.left[k][x] = s.left[k][x+1]
      /\ t.sv[k] = now + 1
  BY <1>1, <1>2, TailThins
<1>4. \A a \in Keys \ {k} : t.left[a] = s.left[a] /\ t.sv[a] = s.sv[a]
  BY <1>1, <1>2
<1>5. \A a \in Keys : g(a) \in Nat /\ (s.left[a] # <<>> => qs[a] # <<>>)
  BY GoneIs
<1>6. \A a \in Keys : /\ Len(s.left[a]) \in Nat /\ Len(qs[a]) \in Nat /\ Len(s.left[a]) <= Len(qs[a])
                      /\ s.sv[a] \in Nat /\ s.sv[a] <= now
                      /\ \A x \in DOMAIN s.left[a] : /\ g(a) + x \in DOMAIN qs[a] /\ s.left[a][x] = qs[a][g(a) + x]
                                                     /\ x \in Nat
  BY <1>2 DEF InRounds
<1>7. h(k) = g(k) + 1 /\ \A a \in Keys \ {k} : h(a) = g(a)
  <2>1. h(k) = g(k) + 1
    <3>1. /\ Len(qs[k]) \in Nat /\ Len(s.left[k]) \in Nat
          /\ Len(t.left[k]) = Len(s.left[k]) - 1
      BY <1>1, <1>3, <1>6
    <3> HIDE DEF k
    <3> QED
      BY <3>1 DEF Gone
  <2>2. \A a \in Keys \ {k} : h(a) = g(a)
    BY <1>4 DEF Gone
  <2> QED
    BY <2>1, <2>2
<1>8. \A a, b \in Keys :
        a # b /\ s.left[a] # <<>> /\ s.left[b] # <<>> =>
           /\ HeadBefore(s.left, s.sv, a, b) <=> g(a) < g(b) \/ (g(a) = g(b) /\ B(a, b))
           /\ g(a) <= g(b) \/ (g(a) = g(b) + 1 /\ B(a, b))
           /\ B(a, b) <=> ~B(b, a)
  BY <1>5, OneHeadFirst DEF InRounds
<1> HIDE DEF g, h, B, k
<1>9. ASSUME NEW a \in Keys
      PROVE  /\ Len(t.left[a]) <= Len(qs[a]) /\ t.sv[a] <= now + 1
             /\ \A x \in DOMAIN t.left[a] : h(a) + x \in DOMAIN qs[a] /\ t.left[a][x] = qs[a][h(a) + x]
  <2>1. CASE a = k
    <3>1. \A x \in DOMAIN t.left[a] : x \in Nat
      <4>1. t.left[a] \in Seq(Entries)
        BY <1>1, <1>2, <2>1
      <4> QED
        BY <4>1
    <3>2. ASSUME NEW x \in DOMAIN t.left[a]
          PROVE  h(a) + x \in DOMAIN qs[a] /\ t.left[a][x] = qs[a][h(a) + x]
      <4>1. h(a) + x = g(a) + (x + 1)
        BY <1>5, <1>7, <2>1, <3>1
      <4> QED
        BY <1>3, <1>6, <2>1, <4>1
    <3> QED
      BY <1>3, <1>6, <2>1, <3>2
  <2>2. CASE a # k
    BY <1>4, <1>6, <1>7, <2>2
  <2> QED
    BY <2>1, <2>2
<1>10. ASSUME NEW a \in Keys, NEW b \in Keys, a # b, t.left[a] # <<>>, t.left[b] # <<>>
       PROVE  /\ HeadBefore(t.left, t.sv, a, b) <=> h(a) < h(b) \/ (h(a) = h(b) /\ B(a, b))
              /\ h(a) <= h(b) \/ (h(a) = h(b) + 1 /\ B(a, b))
  <2>1. s.left[a] # <<>> /\ s.left[b] # <<>>
    BY <1>1, <1>4, <1>10
  <2>2. g(a) \in Nat /\ g(b) \in Nat
    BY <1>5
  <2>3. CASE b = k
    <3>1. HeadBefore(t.left, t.sv, a, b)
      BY <1>3, <1>4, <1>6, <1>10, <2>3 DEF HeadBefore
    <3>2. g(a) <= g(b) \/ (g(a) = g(b) + 1 /\ B(a, b))
      BY <1>8, <1>10, <2>1
    <3>3. h(a) = g(a) /\ h(b) = g(b) + 1
      BY <1>7, <1>10, <2>3
    <3> QED
      BY <2>2, <3>1, <3>2, <3>3
  <2>4. CASE a = k
    <3>1. ~HeadBefore(t.left, t.sv, a, b)
      BY <1>3, <1>4, <1>6, <1>10, <2>4 DEF HeadBefore
    <3>2. g(a) < g(b) \/ (g(a) = g(b) /\ B(a, b))
      BY <1>1, <1>8, <1>10, <2>1, <2>4
    <3>3. h(a) = g(a) + 1 /\ h(b) = g(b)
      BY <1>7, <1>10, <2>4
    <3>4. (g(b) <= g(a) \/ (g(b) = g(a) + 1 /\ B(b, a))) /\ (B(a, b) <=> ~B(b, a))
      BY <1>8, <1>10, <2>1
    <3> QED
      BY <2>2, <3>1, <3>2, <3>3, <3>4
  <2>5. CASE a # k /\ b # k
    <3>1. HeadBefore(t.left, t.sv, a, b) <=> HeadBefore(s.left, s.sv, a, b)
      BY <1>4, <2>5 DEF HeadBefore
    <3>2. h(a) = g(a) /\ h(b) = g(b)
      BY <1>7, <2>5
    <3> QED
      BY <1>8, <1>10, <2>1, <3>1, <3>2
  <2> QED
    BY <2>3, <2>4, <2>5
<1> QED
  BY <1>9, <1>10 DEF InRounds, h, B

\* The simulation takes all who wait, the earlier ones first.
LEMMA WalkByRounds ==
  ASSUME FairOrderAssumption, NEW qs, Numbered(qs), NEW sv \in [Keys -> Nat], NEW st \in Nat,
         \A k \in Keys : sv[k] <= st,
         NEW N, N = Cardinality(Waiting(qs)), NEW f, Walks(f, qs, sv, st, N)
  PROVE  /\ \A j \in Waiting(qs) : \E x \in 1..N : f[N].out[x] = j
         /\ \A x \in 1..N : f[N].out[x] \in Waiting(qs)
         /\ \A x, y \in 1..N : x < y => Earlier(qs, sv, f[N].out[x], f[N].out[y])
<1>1. /\ N \in Nat /\ f[0] = Start(qs, sv) /\ Waiting(f[N].left) = {}
      /\ \A m \in 0..N : /\ Popping(f[m]) /\ Len(f[m].out) = m
                         /\ Waiting(f[m].left) \subseteq Waiting(qs)
                         /\ \A x \in 1..m : f[m].out[x] = f[x].out[x]
      /\ \A m \in 0..(N-1) : \E i \in Items : PoppedFrom(f[m], f[m+1], st + (m + 1), i)
  <2>0. N \in Nat /\ f[0] = Start(qs, sv)
    BY WalkTakes
  <2>1. Waiting(f[N].left) = {}
    BY WalkTakes
  <2>2. \A m \in 0..(N-1) : \E i \in Items : PoppedFrom(f[m], f[m+1], st + (m + 1), i)
    BY WalkTakes
  <2>3. ASSUME NEW m \in 0..N
        PROVE  /\ Popping(f[m]) /\ Len(f[m].out) = m
               /\ Waiting(f[m].left) \subseteq Waiting(qs)
               /\ \A x \in 1..m : f[m].out[x] = f[x].out[x]
    <3>1. Popping(f[m]) /\ Len(f[m].out) = m
      BY WalkTakes
    <3>2. Waiting(f[m].left) \subseteq Waiting(qs)
      BY WalkTakes
    <3>3. \A x \in 1..m : f[m].out[x] = f[x].out[x]
      BY WalkTakes
    <3> QED
      BY <3>1, <3>2, <3>3
  <2> QED
    BY <2>0, <2>1, <2>2, <2>3
<1> DEFINE P(x) == f[x].out[x]
           Right(m) ==
             /\ InRounds(qs, sv, f[m], st + m)
             /\ \A j \in Waiting(qs) : j \in Waiting(f[m].left) \/ \E x \in 1..m : P(x) = j
             /\ \A x \in 1..m : \A j \in Waiting(f[m].left) : Earlier(qs, sv, P(x), j)
           S == {m \in 0..N : Right(m)}
<1>2. 0 \in S
  <2>1. f[0].left = qs /\ f[0].sv = sv
    BY <1>1 DEF Start
  <2>2. \A k \in Keys : /\ Len(qs[k]) \in Nat /\ Gone(qs, f[0], k) = 0
                        /\ \A x \in DOMAIN qs[k] : 0 + x = x
    <3>1. qs \in [Keys -> Seq(Entries)]
      BY DEF Numbered
    <3> QED
      BY <2>1, <3>1 DEF Gone
  <2>3. InRounds(qs, sv, f[0], st + 0)
    BY <2>1, <2>2 DEF InRounds
  <2> QED
    BY <1>1, <2>1, <2>3
<1> HIDE DEF P
<1>3. ASSUME NEW m \in 0..(N-1) PROVE \E i \in Items : PoppedFrom(f[m], f[m+1], st + (m + 1), i) /\ P(m+1) = i
  <2>1. PICK i \in Items : PoppedFrom(f[m], f[m+1], st + (m + 1), i)
    BY <1>1
  <2>2. f[m+1].out = Append(f[m].out, i) /\ f[m].out \in Seq(Items) /\ Len(f[m].out) = m
    <3>1. m \in 0..N
      BY <1>1
    <3> QED
      BY <1>1, <2>1, <3>1 DEF PoppedFrom, Popping
  <2>3. f[m+1].out[m+1] = i
    BY <2>2
  <2> QED
    BY <2>1, <2>3 DEF P
<1>4. ASSUME NEW m \in 0..(N-1), m \in S PROVE m + 1 \in S
  <2>1. /\ Right(m) /\ Popping(f[m]) /\ m \in Nat /\ m + 1 \in 0..N
        /\ (st + m) + 1 = st + (m + 1) /\ st + m \in Nat
    BY <1>1, <1>4
  <2>2. PICK i \in Items : PoppedFrom(f[m], f[m+1], st + (m + 1), i) /\ P(m+1) = i
    BY <1>3
  <2>3. InRounds(qs, sv, f[m+1], st + (m + 1))
    BY <2>1, <2>2, RoundsGoOn
  <2>4. Leads(f[m], i) /\ Waiting(f[m+1].left) = Waiting(f[m].left) \ {i}
    BY <2>2 DEF PoppedFrom
  <2>5. \A j \in Waiting(f[m].left) \ {i} : Earlier(qs, sv, i, j)
    BY <2>1, <2>4, PopIsEarliest
  <2>6. \A x \in 1..(m+1) : x \in 1..m \/ x = m + 1
    BY <2>1
  <2>7. \A x \in 1..m : x \in 1..(m+1)
    BY <2>1
  <2>8. \A j \in Waiting(qs) : j \in Waiting(f[m+1].left) \/ \E x \in 1..(m+1) : P(x) = j
    <3> TAKE j \in Waiting(qs)
    <3>1. CASE j = i
      <4>1. m + 1 \in 1..(m+1)
        BY <2>1
      <4> QED
        BY <2>2, <3>1, <4>1
    <3>2. CASE j # i
      BY <2>1, <2>4, <2>7, <3>2
    <3> QED
      BY <3>1, <3>2
  <2>9. \A x \in 1..(m+1) : \A j \in Waiting(f[m+1].left) : Earlier(qs, sv, P(x), j)
    <3> TAKE x \in 1..(m+1)
    <3> TAKE j \in Waiting(f[m+1].left)
    <3> QED
      BY <2>1, <2>2, <2>4, <2>5, <2>6
  <2> QED
    BY <2>1, <2>3, <2>8, <2>9
<1>5. \A m \in 0..N : m \in S
  <2> HIDE DEF S
  <2> QED
    BY <1>1, <1>2, <1>4, UpTo
<1>6. \A x \in 1..N : x \in 0..N /\ x \in Nat /\ x - 1 \in 0..(N-1) /\ x - 1 \in 0..N /\ (x - 1) + 1 = x
  BY <1>1
<1>7. \A x \in 1..N : f[N].out[x] = P(x)
  <2>1. N \in 0..N
    BY <1>1
  <2> QED
    BY <1>1, <2>1 DEF P
<1>8. \A x \in 1..N : P(x) \in Waiting(f[x-1].left)
  <2> TAKE x \in 1..N
  <2>1. PICK i \in Items : PoppedFrom(f[x-1], f[(x-1)+1], st + ((x-1) + 1), i) /\ P((x-1)+1) = i
    BY <1>3, <1>6
  <2> QED
    BY <1>6, <2>1 DEF PoppedFrom, Leads
<1>9. \A j \in Waiting(qs) : \E x \in 1..N : P(x) = j
  <2>1. N \in 0..N
    BY <1>1
  <2>2. Right(N)
    BY <1>5, <2>1
  <2> QED
    BY <1>1, <2>2
<1>10. \A x, y \in 1..N : x < y => Earlier(qs, sv, P(x), P(y))
  <2> TAKE x, y \in 1..N
  <2> HAVE x < y
  <2>1. x \in 1..(y-1) /\ y - 1 \in 0..N
    BY <1>6
  <2>2. Right(y - 1)
    BY <1>5, <2>1
  <2> QED
    BY <1>8, <2>1, <2>2
<1>11. \A x \in 1..N : f[N].out[x] \in Waiting(qs)
  BY <1>1, <1>6, <1>7, <1>8
<1>12. \A j \in Waiting(qs) : \E x \in 1..N : f[N].out[x] = j
  BY <1>7, <1>9
<1>13. \A x, y \in 1..N : x < y => Earlier(qs, sv, f[N].out[x], f[N].out[y])
  BY <1>7, <1>10
<1> QED
  BY <1>11, <1>12, <1>13

\* Earlier is an order of those who wait.
LEMMA EarlierOnce ==
  ASSUME NEW qs, Numbered(qs), NEW sv \in [Keys -> Nat], NEW i \in Waiting(qs), NEW j \in Waiting(qs)
  PROVE  Earlier(qs, sv, i, j) => ~Earlier(qs, sv, j, i)
<1>1. \A l \in Waiting(qs) : KeyOf[l] \in Keys /\ qs[KeyOf[l]] # <<>> /\ NthIn(qs, l) \in Nat
  <2> TAKE l \in Waiting(qs)
  <2>1. PICK e : Entry(qs, e) /\ e.item = l
    BY WaitingAreEntries
  <2>2. PICK k \in Keys : \E x \in DOMAIN qs[k] : e = qs[k][x]
    BY <2>1 DEF Entry
  <2>3. PICK x \in DOMAIN qs[k] : e = qs[k][x]
    BY <2>2
  <2>4. KeyOf[l] = k /\ NthIn(qs, l) = x /\ x \in Nat
    BY <2>1, <2>3, NthIs
  <2>5. qs[k] # <<>>
    BY <2>3, LinesAreTyped DEF Numbered
  <2> QED
    BY <2>4, <2>5
<1>2. KeyOf[i] # KeyOf[j] => (HeadBefore(qs, sv, KeyOf[i], KeyOf[j]) <=> ~HeadBefore(qs, sv, KeyOf[j], KeyOf[i]))
  BY <1>1, OneHeadFirst
<1> QED
  BY <1>1, <1>2 DEF Earlier

\* An item's place is behind exactly the earlier items.
LEMMA PlaceCountsEarlier ==
  ASSUME FairOrderAssumption, FairTypes, NEW i \in Waiting(queues)
  PROVE  Position(i) = 1 + Cardinality({j \in Waiting(queues) : Earlier(queues, served, j, i)})
<1> DEFINE W == Waiting(queues)
           N == Cardinality(W)
           E(j, l) == Earlier(queues, served, j, l)
           B == {j \in W : E(j, i)}
<1>1. /\ Numbered(queues) /\ served \in [Keys -> Nat] /\ stamp \in Nat
      /\ \A k \in Keys : served[k] <= stamp
  BY DEF FairTypes
<1>2. N \in Nat
  <2>1. W \subseteq Items /\ IsFiniteSet(Items)
    BY <1>1, WaitingAreEntries, EntriesAreTyped DEF FairOrderAssumption
  <2> QED
    BY <2>1, FS_Subset, FS_CardinalityType
<1>3. PICK f : Walks(f, queues, served, stamp, N) /\ PickOrder = f[N].out
  BY <1>2, PopsWalk DEF PickOrder
<1> DEFINE P == f[N].out
<1>4. Len(P) = N
  <2>1. N \in 0..N
    BY <1>2
  <2> QED
    BY <1>1, <1>3, <2>1, WalkTakes
<1>5. /\ \A j \in W : \E x \in 1..N : P[x] = j
      /\ \A x \in 1..N : P[x] \in W
      /\ \A x, y \in 1..N : x < y => E(P[x], P[y])
  BY <1>1, <1>3, WalkByRounds
<1>6. \A j, l \in W : E(j, l) => ~E(l, j)
  BY <1>1, EarlierOnce
<1> HIDE DEF N, P, W, E
<1>7. i \in W
  BY DEF W
<1>8. \A x, y \in 1..N : P[x] = P[y] => x = y
  <2> TAKE x, y \in 1..N
  <2> HAVE P[x] = P[y]
  <2>1. ~(x < y) /\ ~(y < x)
    BY <1>5, <1>6
  <2> QED
    BY <1>2, <2>1
<1>9. PICK x \in 1..N : P[x] = i
  BY <1>5, <1>7
<1>10. Position(i) = x
  BY <1>3, <1>4, <1>8, <1>9 DEF Position, P
<1>11. x \in Nat /\ x - 1 \in Nat /\ 1 + (x - 1) = x /\ x <= N
  BY <1>2, <1>9
<1>12. \A y \in 1..(x-1) : y \in 1..N /\ y < x
  BY <1>2, <1>11
<1> DEFINE b == [y \in 1..(x-1) |-> P[y]]
<1>13. b \in Bijection(1..(x-1), B)
  <2>1. \A y \in 1..(x-1) : P[y] \in B
    BY <1>5, <1>9, <1>12
  <2>2. ASSUME NEW j \in B PROVE \E y \in 1..(x-1) : b[y] = j
    <3>1. PICK y \in 1..N : P[y] = j
      BY <1>5
    <3>2. E(P[y], P[x])
      BY <1>9, <3>1
    <3>3. ~(x < y) /\ y # x
      BY <1>5, <1>6, <1>9, <3>2
    <3>4. y \in 1..(x-1)
      BY <1>2, <1>9, <3>3
    <3> QED
      BY <3>1, <3>4
  <2>3. b \in [1..(x-1) -> B]
    BY <2>1
  <2>4. \A y, z \in 1..(x-1) : b[y] = b[z] => y = z
    BY <1>8, <1>12
  <2> HIDE DEF b, B
  <2> QED
    BY <2>2, <2>3, <2>4 DEF Bijection, Injection, Surjection, IsInjective
<1>14. IsFiniteSet(1..(x-1)) /\ Cardinality(1..(x-1)) = x - 1
  BY <1>11, FS_Interval
<1>15. Cardinality(B) = x - 1
  <2> DEFINE D == 1..(x-1)
  <2>1. ExistsBijection(D, B)
    BY <1>13, Zenon DEF ExistsBijection
  <2>2. IsFiniteSet(D) /\ Cardinality(D) = x - 1
    BY <1>14
  <2> HIDE DEF b, B, D
  <2>3. Cardinality(B) = Cardinality(D)
    BY <2>1, <2>2, FS_Bijection
  <2> QED
    BY <2>2, <2>3
<1> QED
  BY <1>10, <1>11, <1>15 DEF W, E

\* An item's place is its place by rounds: whoever waits longer in line of its own key goes
\* a round later (position, fair_queue.py:232).
THEOREM PlacesAreByRounds == OrderSpec => []PositionIsByRounds
<1>1. ASSUME FairTypes, NEW i \in Waiting(queues) PROVE Position(i) = PlaceByRounds(i)
  <2> DEFINE KeyBefore(a, b) == a # b /\ RanksBefore(queues, served, Items, a, b)
             A == {j \in Waiting(queues) :
                     \/ NthIn(queues, j) < NthIn(queues, i)
                     \/ NthIn(queues, j) = NthIn(queues, i) /\ KeyBefore(KeyOf[j], KeyOf[i])}
  <2>1. PlaceByRounds(i) = 1 + Cardinality(A)
    BY DEF PlaceByRounds, NthIn
  <2>2. \A j \in Waiting(queues) : KeyOf[j] \in Keys /\ FirstIn(queues[KeyOf[j]], Items) = 1
    <3> TAKE j \in Waiting(queues)
    <3>1. PICK e : Entry(queues, e) /\ e.item = j
      BY <1>1, WaitingAreEntries DEF FairTypes
    <3>2. PICK k \in Keys : \E x \in DOMAIN queues[k] : e = queues[k][x]
      BY <3>1 DEF Entry
    <3>3. KeyOf[j] = k
      BY <1>1, <3>1, <3>2 DEF FairTypes, Numbered
    <3>4. queues[k] # <<>>
      BY <1>1, <3>2, LinesAreTyped DEF FairTypes, Numbered
    <3> QED
      BY <1>1, <3>3, <3>4, Heads DEF FairTypes
  <2>3. \A j \in Waiting(queues) : RanksBefore(queues, served, Items, KeyOf[j], KeyOf[i])
                                     <=> HeadBefore(queues, served, KeyOf[j], KeyOf[i])
    BY <1>1, <2>2 DEF RanksBefore, HeadBefore
  <2>4. A = {j \in Waiting(queues) : Earlier(queues, served, j, i)}
    BY <2>3 DEF Earlier
  <2> QED
    BY <1>1, <2>1, <2>4, PlaceCountsEarlier, FairOrderAssumption
<1>2. FairTypes => PositionIsByRounds
  BY <1>1 DEF PositionIsByRounds
<1> QED
  BY <1>2, FairTypesAlways, PTL

=============================================================================
