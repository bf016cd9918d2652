-------------------------- MODULE TaskQueue_proofs --------------------------
(***************************************************************************)
(* Proofs about TaskQueue for any number of workers, chats and tasks.      *)
(*                                                                         *)
(* One turn per chat holds as long as every worker is up before the first  *)
(* turn (LateStarters = {}) and every turn ends with task_done or with its *)
(* thread (Careless = {}); README.md shows that it needs both.  It is not  *)
(* inductive by itself: a session in flight must have one owner, a         *)
(* worker's entry or the drain's claim (OneOwner), and a worker that runs  *)
(* a turn must still own its session (TurnsAreOwned).  With it the queue   *)
(* implements ChatTurns.                                                   *)
(*                                                                         *)
(* The order of a chat's turns needs no assumption: a chat's own line and  *)
(* the fair orders hold the same tasks, each once, and the line is in the  *)
(* order of their ranks (LinesInv).                                        *)
(*                                                                         *)
(* What the waiting turns hear of their places is module PlaceReports,     *)
(* which has the orders, budgets and lines of Selection, as TaskQueue has, *)
(* and the reports beside them.  No place that is out of date stays        *)
(* (OldPlacesGo), and every place is the one in the order in which the     *)
(* whole queue would be taken (PlacesStayTrue): the sections in between    *)
(* show that picks on copies which leave out each person's tasks beyond    *)
(* the first Counted of a band are the picks on whole copies (Thinned,     *)
(* AlikeFor), and that chats which are not looked at have not moved.       *)
(***************************************************************************)
EXTENDS TaskQueue, PlaceReports, FiniteSetTheorems, SequenceTheorems,
        WellFoundedInduction, TLAPS

Summing == {"results", "summary", "settled"}

Types ==
    /\ orders \in [Bands -> RR!Orders]
    /\ inflight \subseteq Sessions
    /\ byWorker \in [Workers -> Tasks \cup {NoTask}]
    /\ budget \in [Classes -> Nat]
    /\ stops \subseteq Sessions
    /\ phase \in [Workers -> Phases]
    /\ turn \in [Workers -> Tasks \cup {NoTask}]
    /\ claim \in Sessions \cup {NoSession}
    /\ pressing \in Sessions \cup {NoSession}
    /\ meant \in [Tasks -> {"no", "queued", "turn"}]

\* Everybody is up, a turn runs where the worker's phase says so, and only the
\* drainer drains.
Phased ==
    /\ \A w \in Workers : phase[w] # "off"
    /\ \A w \in Workers : turn[w] # NoTask <=> phase[w] \in Turning
    /\ \A w \in Workers : phase[w] \in Summing \cup {"drain"} => w = Drainer
    /\ claim # NoSession => phase[Drainer] \in Summing

\* A running turn is its worker's entry; an entry without one is a dead worker's.
TurnsAreOwned ==
    \A w \in Workers :
        /\ turn[w] # NoTask => byWorker[w] = turn[w]
        /\ byWorker[w] # NoTask /\ turn[w] = NoTask => phase[w] = "dead"

\* Every entry and the claim hold a session in flight, each its own.
OneOwner ==
    /\ \A w \in Workers : byWorker[w] # NoTask =>
          /\ SessionOf[byWorker[w]] \in inflight
          /\ SessionOf[byWorker[w]] # claim
    /\ \A v, w \in Workers :
          v # w /\ byWorker[v] # NoTask /\ byWorker[w] # NoTask =>
              SessionOf[byWorker[v]] # SessionOf[byWorker[w]]
    /\ claim # NoSession => claim \in inflight

\* A waiting task has not met a stop in a turn.
WaitingAreUnmet == \A t \in Queued : meant[t] # "turn"

IInv == Types /\ Phased /\ TurnsAreOwned /\ OneOwner /\ WaitingAreUnmet /\ StopReachesTurn

-----------------------------------------------------------------------------
(* The order operators *)

\* The instance's Cardinality is Cardinality.
LEMMA SameCardinality == \A S : RR!Cardinality(S) = Cardinality(S)
  BY DEF RR!Cardinality, Cardinality

\* A finite set's subsets can be counted.
LEMMA FiniteCounts ==
  ASSUME NEW D, IsFiniteSet(D), NEW S \in SUBSET D
  PROVE  /\ Cardinality(S) \in Nat /\ (S # {} => Cardinality(S) > 0)
         /\ \A T \in SUBSET S : T = S \/ Cardinality(T) < Cardinality(S)
<1>1. IsFiniteSet(S)
  BY FS_Subset
<1>2. Cardinality(S) \in Nat /\ (Cardinality(S) = 0 <=> S = {})
  BY <1>1, FS_CardinalityType, FS_EmptySet
<1>3. ASSUME NEW T \in SUBSET S, T # S PROVE Cardinality(T) < Cardinality(S)
  <2>1. IsFiniteSet(T) /\ Cardinality(T) <= Cardinality(S) /\ Cardinality(T) # Cardinality(S)
    BY <1>1, <1>3, FS_Subset
  <2>2. Cardinality(T) \in Nat
    BY <2>1, FS_CardinalityType
  <2> QED
    BY <1>2, <2>1, <2>2
<1> QED
  BY <1>2, <1>3

\* Sets of items and sets of keys can be counted, as the order operators count them.
Countable ==
    /\ PersonOf \in [Tasks -> Persons]
    /\ \A S \in SUBSET Tasks : RR!Cardinality(S) \in Nat /\ (S # {} => RR!Cardinality(S) > 0)
    /\ \A S \in SUBSET Persons : RR!Cardinality(S) \in Nat /\ (S # {} => RR!Cardinality(S) > 0)
    /\ \A S, T \in SUBSET Tasks :
          S \subseteq T => \/ S = T
                          \/ RR!Cardinality(S) < RR!Cardinality(T)

\* Tasks and people are finite sets.
LEMMA OrdersCount == Countable
  BY FiniteCounts, SameCardinality, SelectionAssumption DEF Countable

-----------------------------------------------------------------------------
(* What push, drop and serve do to the waiting items of an order *)

\* An order in which nobody waits is an order, and its queue is empty
\* (FairOrder.__init__).
LEMMA EmptyIsEmpty == RR!EmptyOrder \in RR!Orders /\ RR!Queued(RR!EmptyOrder) = {}
  BY DEF RR!EmptyOrder, RR!Orders, RR!Queued

\* Replacing the counters of _rank by their ranks keeps what is zero and what is
\* not.
LEMMA RanksKeepZero ==
  ASSUME NEW D, NEW f \in [D -> Nat],
         \A S \in SUBSET D : RR!Cardinality(S) \in Nat /\ (S # {} => RR!Cardinality(S) > 0)
  PROVE  /\ RR!Ranks(f) \in [D -> Nat]
         /\ \A x \in D : RR!Ranks(f)[x] > 0 <=> f[x] > 0
<1> DEFINE Below(x) == {y \in D : f[y] > 0 /\ f[y] <= f[x]}
<1>1. \A x \in D : RR!Cardinality(Below(x)) \in Nat
  OBVIOUS
<1>2. ASSUME NEW x \in D, f[x] > 0
      PROVE  RR!Cardinality(Below(x)) > 0
  <2>1. x \in Below(x)
    BY <1>2
  <2> QED
    BY <2>1
<1> QED
  BY <1>1, <1>2 DEF RR!Ranks

\* FairOrder.push: the pushed item joins the waiting ones and nobody leaves.
LEMMA PushQueues ==
  ASSUME NEW o \in RR!Orders, NEW i \in Tasks
  PROVE  /\ RR!Push(o, i) \in RR!Orders
         /\ RR!Queued(RR!Push(o, i)) = RR!Queued(o) \cup {i}
<1> DEFINE place == RR!Cardinality(RR!Queued(o)) + 1
<1>1. place \in Nat \ {0}
  BY OrdersCount DEF RR!Queued, Countable
<1>2. RR!Push(o, i) = [o EXCEPT !.line[i] = place]
  BY DEF RR!Push
<1> HIDE DEF place
<1>3. RR!Push(o, i) \in RR!Orders
  BY <1>1, <1>2 DEF RR!Orders
<1>4. \A x \in Tasks : RR!Push(o, i).line[x] = IF x = i THEN place ELSE o.line[x]
  BY <1>2 DEF RR!Orders
<1> QED
  BY <1>1, <1>3, <1>4 DEF RR!Queued

\* FairOrder.remove_where: exactly the dropped items leave.
LEMMA DropUnqueues ==
  ASSUME NEW o \in RR!Orders, NEW S \in SUBSET Tasks
  PROVE  /\ RR!Drop(o, S) \in RR!Orders
         /\ RR!Queued(RR!Drop(o, S)) = RR!Queued(o) \ S
<1>1. CASE S \cap RR!Queued(o) = {}
  BY <1>1 DEF RR!Drop
<1>2. CASE S \cap RR!Queued(o) # {}
  <2> DEFINE line == [i \in Tasks |-> IF i \in S THEN 0 ELSE o.line[i]]
  <2>1. line \in [Tasks -> Nat]
    BY DEF RR!Orders
  <2>2. /\ RR!Ranks(line) \in [Tasks -> Nat]
        /\ \A x \in Tasks : RR!Ranks(line)[x] > 0 <=> line[x] > 0
    BY <2>1, RanksKeepZero, OrdersCount DEF Countable
  <2>3. RR!Drop(o, S) = [line |-> RR!Ranks(line), served |-> RR!Forgetting(line, o.served)]
    BY <1>2 DEF RR!Drop
  <2>4. RR!Forgetting(line, o.served) \in [Persons -> Nat]
    BY DEF RR!Forgetting, RR!Orders
  <2> HIDE DEF line
  <2>5. RR!Queued(RR!Drop(o, S)) = {x \in Tasks : line[x] > 0}
    BY <2>2, <2>3 DEF RR!Queued
  <2>6. \A x \in Tasks : line[x] > 0 <=> (o.line[x] > 0 /\ x \notin S)
    BY DEF line
  <2>7. RR!Drop(o, S) \in RR!Orders
    BY <2>2, <2>3, <2>4 DEF RR!Orders
  <2> QED
    BY <2>5, <2>6, <2>7 DEF RR!Queued
<1> QED
  BY <1>1, <1>2

\* FairOrder.pop: exactly the served item leaves.
LEMMA ServeUnqueues ==
  ASSUME NEW o \in RR!Orders, NEW i \in Tasks
  PROVE  /\ RR!Serve(o, i) \in RR!Orders
         /\ RR!Queued(RR!Serve(o, i)) = RR!Queued(o) \ {i}
<1> DEFINE line   == [o.line EXCEPT ![i] = 0]
           served == [o.served EXCEPT ![PersonOf[i]] = RR!Cardinality(Persons) + 1]
<1>1. line \in [Tasks -> Nat]
  BY DEF RR!Orders
<1>2. served \in [Persons -> Nat]
  BY OrdersCount DEF RR!Orders, Countable
<1>3. /\ RR!Ranks(line) \in [Tasks -> Nat]
      /\ \A x \in Tasks : RR!Ranks(line)[x] > 0 <=> line[x] > 0
  BY <1>1, RanksKeepZero, OrdersCount DEF Countable
<1>4. RR!Ranks(served) \in [Persons -> Nat]
  BY <1>2, RanksKeepZero, OrdersCount DEF Countable
<1>5. RR!Serve(o, i) = [line |-> RR!Ranks(line),
                     served |-> RR!Forgetting(line, RR!Ranks(served))]
  BY DEF RR!Serve
<1>6. RR!Forgetting(line, RR!Ranks(served)) \in [Persons -> Nat]
  BY <1>4 DEF RR!Forgetting
<1>7. {x \in Tasks : line[x] > 0} = RR!Queued(o) \ {i}
  BY DEF RR!Queued, RR!Orders
<1> HIDE DEF line, served
<1>8. RR!Queued(RR!Serve(o, i)) = {x \in Tasks : line[x] > 0}
  BY <1>3, <1>5 DEF RR!Queued
<1> QED
  BY <1>3, <1>5, <1>6, <1>7, <1>8 DEF RR!Orders

-----------------------------------------------------------------------------
(* Arrivals: the ranks of the waiting items are small, and keep their order.  *)

Compact(o) == \A i \in Tasks : o.line[i] <= RR!Cardinality(RR!Queued(o))

\* Ranks are ordered as the counters they replace, and none exceeds their number.
LEMMA RanksKeepOrder ==
  ASSUME NEW f \in [Tasks -> Nat]
  PROVE  /\ \A x, y \in Tasks : 0 < f[x] /\ f[x] < f[y] => RR!Ranks(f)[x] < RR!Ranks(f)[y]
         /\ \A x \in Tasks : RR!Ranks(f)[x] <= RR!Cardinality({y \in Tasks : RR!Ranks(f)[y] > 0})
<1> DEFINE Below(x) == {y \in Tasks : f[y] > 0 /\ f[y] <= f[x]}
           Placed   == {y \in Tasks : f[y] > 0}
<1>1. \A x \in Tasks : RR!Ranks(f)[x] = IF f[x] = 0 THEN 0 ELSE RR!Cardinality(Below(x))
  BY DEF RR!Ranks
<1>2. ASSUME NEW x \in Tasks, NEW y \in Tasks, 0 < f[x], f[x] < f[y]
      PROVE  RR!Ranks(f)[x] < RR!Ranks(f)[y]
  <2>1. Below(x) \subseteq Below(y) /\ y \in Below(y) /\ y \notin Below(x)
    BY <1>2
  <2>2. RR!Cardinality(Below(x)) < RR!Cardinality(Below(y))
    BY <2>1, OrdersCount DEF Countable
  <2>3. f[x] # 0 /\ f[y] # 0
    BY <1>2
  <2> HIDE DEF Below
  <2> QED
    BY <1>1, <2>2, <2>3
<1>3. {y \in Tasks : RR!Ranks(f)[y] > 0} = Placed
  BY RanksKeepZero, OrdersCount DEF Countable
<1>4. ASSUME NEW x \in Tasks PROVE RR!Ranks(f)[x] <= RR!Cardinality(Placed)
  <2>1. Below(x) \subseteq Placed /\ RR!Cardinality(Placed) \in Nat /\ RR!Cardinality(Below(x)) \in Nat
    BY OrdersCount DEF Countable
  <2>2. RR!Cardinality(Below(x)) <= RR!Cardinality(Placed)
    BY <2>1, OrdersCount DEF Countable
  <2> HIDE DEF Below, Placed
  <2> QED
    BY <1>1, <2>1, <2>2
<1> HIDE DEF Placed
<1> QED
  BY <1>2, <1>3, <1>4

\* FairOrder.push: the pushed item comes after all that wait, which keep their
\* places.
LEMMA PushGoesLast ==
  ASSUME NEW o \in RR!Orders, Compact(o), NEW i \in Tasks \ RR!Queued(o)
  PROVE  /\ Compact(RR!Push(o, i))
         /\ \A j \in RR!Queued(o) : /\ RR!Push(o, i).line[j] = o.line[j]
                                 /\ o.line[j] < RR!Push(o, i).line[i]
<1> DEFINE place == RR!Cardinality(RR!Queued(o)) + 1
<1>1. RR!Queued(o) \in SUBSET Tasks /\ RR!Queued(o) \cup {i} \in SUBSET Tasks
  BY DEF RR!Queued
<1>2. place \in Nat /\ place <= RR!Cardinality(RR!Queued(o) \cup {i})
  BY <1>1, OrdersCount DEF Countable
<1>3. \A x \in Tasks : RR!Push(o, i).line[x] = IF x = i THEN place ELSE o.line[x]
  BY DEF RR!Push, RR!Orders
<1>4. \A x \in Tasks : o.line[x] \in Nat /\ o.line[x] < place
  BY <1>1, OrdersCount DEF Compact, RR!Orders, Countable
<1>5. RR!Queued(RR!Push(o, i)) = RR!Queued(o) \cup {i}
  BY PushQueues
<1> HIDE DEF place
<1>6. RR!Cardinality(RR!Queued(o) \cup {i}) \in Nat
  BY <1>1, OrdersCount DEF Countable
<1>7. Compact(RR!Push(o, i))
  BY <1>2, <1>3, <1>4, <1>5, <1>6 DEF Compact
<1> QED
  BY <1>1, <1>3, <1>4, <1>7

\* FairOrder.remove_where: those who stay keep their order.
LEMMA DropKeepsOrder ==
  ASSUME NEW o \in RR!Orders, Compact(o), NEW S \in SUBSET Tasks
  PROVE  /\ Compact(RR!Drop(o, S))
         /\ \A i, j \in RR!Queued(o) \ S :
               o.line[i] < o.line[j] => RR!Drop(o, S).line[i] < RR!Drop(o, S).line[j]
<1>1. CASE S \cap RR!Queued(o) = {}
  BY <1>1 DEF RR!Drop
<1>2. CASE S \cap RR!Queued(o) # {}
  <2> DEFINE line == [i \in Tasks |-> IF i \in S THEN 0 ELSE o.line[i]]
  <2>1. line \in [Tasks -> Nat]
    BY DEF RR!Orders
  <2>2. RR!Drop(o, S).line = RR!Ranks(line)
    BY <1>2 DEF RR!Drop
  <2>3. \A i \in RR!Queued(o) \ S : i \in Tasks /\ line[i] = o.line[i] /\ line[i] > 0
    BY DEF RR!Queued
  <2> HIDE DEF line
  <2> QED
    BY <2>1, <2>2, <2>3, RanksKeepOrder DEF Compact, RR!Queued
<1> QED
  BY <1>1, <1>2

\* FairOrder.pop: those who stay keep their order.
LEMMA ServeKeepsOrder ==
  ASSUME NEW o \in RR!Orders, Compact(o), NEW k \in Tasks
  PROVE  /\ Compact(RR!Serve(o, k))
         /\ \A i, j \in RR!Queued(o) \ {k} :
               o.line[i] < o.line[j] => RR!Serve(o, k).line[i] < RR!Serve(o, k).line[j]
<1> DEFINE line == [o.line EXCEPT ![k] = 0]
<1>1. line \in [Tasks -> Nat]
  BY DEF RR!Orders
<1>2. RR!Serve(o, k).line = RR!Ranks(line)
  BY DEF RR!Serve
<1>3. \A i \in RR!Queued(o) \ {k} : i \in Tasks /\ line[i] = o.line[i] /\ line[i] > 0
  BY DEF RR!Queued, RR!Orders
<1> HIDE DEF line
<1> QED
  BY <1>1, <1>2, <1>3, RanksKeepOrder DEF Compact, RR!Queued

\* A push of one task, seen as a change of the waiting set.
LEMMA PushesOne ==
  ASSUME orders \in [Bands -> RR!Orders], NEW t \in Tasks,
         orders' = [orders EXCEPT ![Band(t)] = RR!Push(@, t)]
  PROVE  orders' \in [Bands -> RR!Orders] /\ Queued' = Queued \cup {t}
<1> DEFINE o == orders[Band(t)]
<1>1. Band(t) \in Bands /\ o \in RR!Orders
  BY DEF Bands
<1>2. /\ RR!Push(o, t) \in RR!Orders
      /\ RR!Queued(RR!Push(o, t)) = RR!Queued(o) \cup {t}
  BY <1>1, PushQueues
<1>3. \A b \in Bands : orders'[b] = IF b = Band(t) THEN RR!Push(o, t) ELSE orders[b]
  OBVIOUS
<1>4. orders' \in [Bands -> RR!Orders]
  BY <1>2
<1>5. \A u \in Tasks : Band(u) \in Bands
  BY DEF Bands
<1> HIDE DEF o
<1> QED
  BY <1>1, <1>2, <1>3, <1>4, <1>5 DEF Queued, o

LEMMA AddQueues ==
  ASSUME Types, NEW t \in Tasks, Add(t)
  PROVE  orders' \in [Bands -> RR!Orders] /\ Queued' = Queued \cup {t}
  BY PushesOne DEF Add, Types

\* A service of one task, seen so.
LEMMA ServesOne ==
  ASSUME orders \in [Bands -> RR!Orders], NEW t \in Tasks,
         orders' = [orders EXCEPT ![Band(t)] = RR!Serve(@, t)]
  PROVE  orders' \in [Bands -> RR!Orders] /\ Queued' = Queued \ {t}
<1> DEFINE o == orders[Band(t)]
<1>1. Band(t) \in Bands /\ o \in RR!Orders
  BY DEF Bands
<1>2. /\ RR!Serve(o, t) \in RR!Orders
      /\ RR!Queued(RR!Serve(o, t)) = RR!Queued(o) \ {t}
  BY <1>1, ServeUnqueues
<1>3. \A b \in Bands : orders'[b] = IF b = Band(t) THEN RR!Serve(o, t) ELSE orders[b]
  OBVIOUS
<1>4. orders' \in [Bands -> RR!Orders]
  BY <1>2
<1>5. \A u \in Tasks : Band(u) \in Bands
  BY DEF Bands
<1> HIDE DEF o
<1> QED
  BY <1>1, <1>2, <1>3, <1>4, <1>5 DEF Queued, o

\* Dropping a set of tasks from every band, seen as a change of the waiting set.
LEMMA DropsQueued ==
  ASSUME orders \in [Bands -> RR!Orders], NEW S \in SUBSET Tasks,
         orders' = [b \in Bands |-> RR!Drop(orders[b], S)]
  PROVE  orders' \in [Bands -> RR!Orders] /\ Queued' = Queued \ S
<1>1. \A b \in Bands : /\ RR!Drop(orders[b], S) \in RR!Orders
                       /\ RR!Queued(RR!Drop(orders[b], S)) = RR!Queued(orders[b]) \ S
  BY DropUnqueues
<1>2. \A u \in Tasks : Band(u) \in Bands
  BY DEF Bands
<1> QED
  BY <1>1, <1>2 DEF Queued

\* Take, seen as the choice of one waiting task of a chat that is not busy.
LEMMA TakeIsOne ==
  ASSUME Types, NEW w \in Workers, NEW busy, NEW entries, Take(w, busy, entries)
  PROVE  \E t \in Queued :
           /\ SessionOf[t] \notin busy
           /\ orders' \in [Bands -> RR!Orders]
           /\ Queued' = Queued \ {t}
           /\ inflight' = busy \cup {SessionOf[t]}
           /\ byWorker' = [entries EXCEPT ![w] = t]
           /\ turn' = [turn EXCEPT ![w] = t]
           /\ phase' = [phase EXCEPT ![w] = "setup"]
           /\ TaskIsNext(Eligible(busy), t)
           /\ budget' = Spend(Eligible(busy), t)
<1>1. PICK t \in Eligible(busy) :
        /\ TaskIsNext(Eligible(busy), t)
        /\ orders' = [orders EXCEPT ![Band(t)] = RR!Serve(@, t)]
        /\ inflight' = busy \cup {SessionOf[t]}
        /\ byWorker' = [entries EXCEPT ![w] = t]
        /\ budget' = Spend(Eligible(busy), t)
        /\ turn' = [turn EXCEPT ![w] = t]
        /\ phase' = [phase EXCEPT ![w] = "setup"]
  BY DEF Take, Goto
<1>2. t \in Queued /\ t \in Tasks /\ SessionOf[t] \notin busy
  BY DEF Eligible, Queued
<1>3. orders' \in [Bands -> RR!Orders] /\ Queued' = Queued \ {t}
  BY <1>1, <1>2, ServesOne DEF Types
<1> QED
  BY <1>1, <1>2, <1>3

\* The class whose turn it is has budget left once fresh budgets are counted, so
\* spending keeps budgets natural numbers.
LEMMA SpendKeepsNat ==
  ASSUME budget \in [Classes -> Nat], NEW E \in SUBSET Tasks, NEW t \in Tasks,
         TaskIsNext(E, t)
  PROVE  Spend(E, t) \in [Classes -> Nat]
<1>1. CASE Legacy
  BY <1>1 DEF Spend
<1>2. CASE ~Legacy
  <2>1. ClassIsNext(E, ClassOf[t]) /\ ClassOf[t] \in Classes
    BY <1>2, SelectionAssumption DEF TaskIsNext, BandIsNext, Band
  <2>2. Share(E) \in [Classes -> Nat]
    BY SelectionAssumption DEF Share
  <2>3. Share(E)[ClassOf[t]] > 0
    BY <2>1, SelectionAssumption DEF ClassIsNext, Share, FreshBudget, Spendable
  <2> QED
    BY <1>2, <2>1, <2>2, <2>3 DEF Spend
<1> QED
  BY <1>1, <1>2

-----------------------------------------------------------------------------
(* The inductive invariant *)

\* Initially nothing is in flight and no worker has a turn.
LEMMA InitIInv ==
  ASSUME LateStarters = {}, Init
  PROVE  IInv
<1>1. orders \in [Bands -> RR!Orders]
  BY EmptyIsEmpty DEF Init
<1>2. Types
  BY <1>1, SelectionAssumption DEF Init, Types, Phases
<1> QED
  BY <1>2 DEF Init, IInv, Phased, TurnsAreOwned, OneOwner, WaitingAreUnmet,
     StopReachesTurn, Turning, Summing, Queued

\* A worker takes a task while the sessions and entries it sees are consistent:
\* those of dead workers freed, all others kept.
LEMMA TakeKeepsIInv ==
  ASSUME IInv, NEW w \in Workers, phase[w] \in {"idle", "waiting"},
         NEW busy \in SUBSET inflight, NEW entries \in [Workers -> Tasks \cup {NoTask}],
         \A v \in Workers : \/ entries[v] = byWorker[v]
                            \/ entries[v] = NoTask /\ phase[v] = "dead",
         \A v \in Workers : entries[v] # NoTask => SessionOf[entries[v]] \in busy,
         claim # NoSession => claim \in busy,
         Take(w, busy, entries),
         UNCHANGED <<stops, claim, pressing, meant>>
  PROVE  IInv'
<1> USE SelectionAssumption, TaskQueueAssumption
<1>0. Types /\ Phased /\ TurnsAreOwned /\ OneOwner /\ WaitingAreUnmet /\ StopReachesTurn
  BY DEF IInv
<1>1. PICK t \in Queued :
        /\ SessionOf[t] \notin busy
        /\ orders' \in [Bands -> RR!Orders]
        /\ Queued' = Queued \ {t}
        /\ inflight' = busy \cup {SessionOf[t]}
        /\ byWorker' = [entries EXCEPT ![w] = t]
        /\ turn' = [turn EXCEPT ![w] = t]
        /\ phase' = [phase EXCEPT ![w] = "setup"]
        /\ TaskIsNext(Eligible(busy), t)
        /\ budget' = Spend(Eligible(busy), t)
  BY <1>0, TakeIsOne
<1>2. t \in Tasks /\ t # NoTask /\ Eligible(busy) \subseteq Tasks
  BY DEF Queued, Eligible
<1>3. turn[w] = NoTask /\ entries[w] = NoTask
  BY <1>0 DEF Phased, Turning, TurnsAreOwned
<1>4. Types'
  <2>1. budget' \in [Classes -> Nat]
    BY <1>0, <1>1, <1>2, SpendKeepsNat DEF Types
  <2>2. SessionOf[t] \in Sessions
    BY <1>2
  <2>3. turn' \in [Workers -> Tasks \cup {NoTask}] /\ byWorker' \in [Workers -> Tasks \cup {NoTask}]
    BY <1>0, <1>1, <1>2 DEF Types
  <2>4. phase' \in [Workers -> Phases]
    BY <1>0, <1>1 DEF Types, Phases
  <2> QED
    BY <1>0, <1>1, <2>1, <2>2, <2>3, <2>4 DEF Types
<1>5. Phased'
  BY <1>0, <1>1, <1>2 DEF Phased, Types, Turning, Summing
<1>6. TurnsAreOwned'
  BY <1>0, <1>1, <1>2, <1>3 DEF TurnsAreOwned, Types, Phased, Turning
<1>7. OneOwner'
  <2>1. \A v \in Workers \ {w} : byWorker'[v] = entries[v]
    BY <1>1
  <2>2. byWorker'[w] = t
    BY <1>1
  <2>3. SessionOf[t] # claim
    BY <1>1, <1>2
  <2>4. \A v \in Workers : entries[v] # NoTask => entries[v] = byWorker[v]
    OBVIOUS
  <2> QED
    BY <1>0, <1>1, <1>2, <2>1, <2>2, <2>3, <2>4 DEF OneOwner
<1>8. WaitingAreUnmet'
  BY <1>0, <1>1 DEF WaitingAreUnmet
<1>9. StopReachesTurn'
  BY <1>0, <1>1, <1>2 DEF StopReachesTurn, WaitingAreUnmet, ChatOf, Types
<1> QED
  BY <1>4, <1>5, <1>6, <1>7, <1>8, <1>9 DEF IInv

\* A dead worker's session is nobody else's: freeing it frees no running turn.
LEMMA AskFreesTheDead ==
  ASSUME IInv, NEW w \in Workers, phase[w] = "idle"
  PROVE  /\ FreedBy(w) \in SUBSET inflight
         /\ Entries \in [Workers -> Tasks \cup {NoTask}]
         /\ \A v \in Workers : \/ Entries[v] = byWorker[v]
                               \/ Entries[v] = NoTask /\ phase[v] = "dead"
         /\ \A v \in Workers : Entries[v] # NoTask => SessionOf[Entries[v]] \in FreedBy(w)
         /\ claim # NoSession => claim \in FreedBy(w)
<1>0. Types /\ Phased /\ TurnsAreOwned /\ OneOwner
  BY DEF IInv
<1>1. byWorker[w] = NoTask
  BY <1>0 DEF Phased, TurnsAreOwned, Turning
<1>2. EndedBy(w) = Stale
  BY <1>1 DEF EndedBy
<1>3. Entries \in [Workers -> Tasks \cup {NoTask}]
  BY <1>0 DEF Entries, Types
<1>4. \A v \in Workers : Entries[v] = IF v \in Stale THEN NoTask ELSE byWorker[v]
  BY DEF Entries
<1>5. \A v \in Workers : Entries[v] # NoTask => SessionOf[Entries[v]] \in FreedBy(w)
  BY <1>0, <1>2, <1>4 DEF FreedBy, SessionsOf, Stale, OneOwner
<1>6. claim # NoSession => claim \in FreedBy(w)
  BY <1>0, <1>2 DEF FreedBy, SessionsOf, Stale, OneOwner
<1> QED
  BY <1>2, <1>3, <1>4, <1>5, <1>6 DEF FreedBy, Stale

\* A step inside worker w's turn that consumes at most its own chat's stop.
LEMMA TurnKeepsIInv ==
  ASSUME IInv, NEW w \in Workers, phase[w] \in {"setup", "chat"},
         NEW p \in {"chat", "ending"}, Goto(w, p), SameQueue,
         stops' \in {stops, stops \ {ChatOf(w)}},
         p = "chat" => stops' = stops
  PROVE  IInv'
<1> USE SelectionAssumption, TaskQueueAssumption
<1>0. Types /\ Phased /\ TurnsAreOwned /\ OneOwner /\ WaitingAreUnmet /\ StopReachesTurn
  BY DEF IInv
<1>1. phase' = [phase EXCEPT ![w] = p] /\ p \in Turning
  BY DEF Goto, Turning
<1>2. Types' /\ OneOwner' /\ WaitingAreUnmet'
  <2>1. phase' \in [Workers -> Phases]
    BY <1>0, <1>1 DEF Types, Phases
  <2> QED
    BY <1>0, <2>1 DEF SameQueue, Types, OneOwner, WaitingAreUnmet, Queued
<1>3. Phased'
  BY <1>0, <1>1 DEF SameQueue, Phased, Types, Turning, Summing
<1>4. TurnsAreOwned'
  BY <1>0, <1>1 DEF SameQueue, TurnsAreOwned, Types, Phased, Turning
<1>5. StopReachesTurn'
  <2> SUFFICES ASSUME NEW v \in Workers, phase'[v] \in {"setup", "chat"},
                      meant'[turn'[v]] = "turn"
               PROVE  ChatOf(v)' \in stops'
    BY DEF StopReachesTurn
  <2>1. turn' = turn /\ ChatOf(v)' = ChatOf(v) /\ meant' = meant
    BY DEF SameQueue, ChatOf
  <2>2. CASE v = w
    BY <1>0, <1>1, <2>1, <2>2 DEF Types, StopReachesTurn
  <2>3. CASE v # w
    <3>1. phase[v] \in {"setup", "chat"}
      BY <1>1, <2>3, <1>0 DEF Types
    <3>2. turn[v] # NoTask /\ turn[w] # NoTask
      BY <3>1, <1>0 DEF Phased, Turning
    <3>3. ChatOf(v) # ChatOf(w)
      BY <2>3, <3>2, <1>0 DEF TurnsAreOwned, OneOwner, ChatOf
    <3> QED
      BY <1>0, <2>1, <3>1, <3>3 DEF StopReachesTurn
  <2> QED
    BY <2>2, <2>3
<1> QED
  BY <1>2, <1>3, <1>4, <1>5, <1>0 DEF IInv

\* A step of the drain between its claim and its release, or past an empty pass.
LEMMA DrainKeepsIInv ==
  ASSUME IInv, NEW w \in Workers,
         NEW p \in {"idle", "summary", "settled"}, Goto(w, p), SameQueue,
         \/ phase[w] = "drain" /\ p = "idle"
         \/ phase[w] \in Summing /\ p # "idle",
         MayTakeStop
  PROVE  IInv'
<1> USE SelectionAssumption, TaskQueueAssumption
<1>0. Types /\ Phased /\ TurnsAreOwned /\ OneOwner /\ WaitingAreUnmet /\ StopReachesTurn
  BY DEF IInv
<1>1. phase' = [phase EXCEPT ![w] = p]
  BY DEF Goto
<1>2. Types' /\ OneOwner' /\ WaitingAreUnmet'
  <2>1. phase' \in [Workers -> Phases]
    BY <1>0, <1>1 DEF Types, Phases
  <2> QED
    BY <1>0, <2>1 DEF SameQueue, MayTakeStop, Types, OneOwner, WaitingAreUnmet, Queued
<1>3. Phased'
  BY <1>0, <1>1 DEF SameQueue, Phased, Types, Turning, Summing
<1>4. TurnsAreOwned'
  BY <1>0, <1>1 DEF SameQueue, TurnsAreOwned, Types, Phased, Turning, Summing
<1>5. StopReachesTurn'
  <2> SUFFICES ASSUME NEW v \in Workers, phase'[v] \in {"setup", "chat"},
                      meant'[turn'[v]] = "turn"
               PROVE  ChatOf(v)' \in stops'
    BY DEF StopReachesTurn
  <2>1. turn' = turn /\ ChatOf(v)' = ChatOf(v) /\ meant' = meant
    BY DEF SameQueue, ChatOf
  <2>2. phase[v] \in {"setup", "chat"}
    BY <1>0, <1>1 DEF Types
  <2>3. ChatOf(v) \in stops /\ ChatOf(v) # claim
    BY <1>0, <2>1, <2>2 DEF StopReachesTurn, Phased, Turning, TurnsAreOwned, OneOwner, ChatOf
  <2> QED
    BY <2>1, <2>3 DEF MayTakeStop
<1> QED
  BY <1>2, <1>3, <1>4, <1>5 DEF IInv

\* Every section of the queue and every end of a turn keeps the invariant, when
\* workers are up and end their turns.
LEMMA StepIInv ==
  ASSUME LateStarters = {}, Careless = {}, IInv, [Next]_vars
  PROVE  IInv'
<1> USE SelectionAssumption, TaskQueueAssumption
<1>0. Types /\ Phased /\ TurnsAreOwned /\ OneOwner /\ WaitingAreUnmet /\ StopReachesTurn
  BY DEF IInv
<1>1. ASSUME NEW t \in Tasks, Add(t) PROVE IInv'
  <2>1. orders' \in [Bands -> RR!Orders] /\ Queued' = Queued \cup {t}
    BY <1>0, <1>1, AddQueues
  <2>2. /\ meant' = [meant EXCEPT ![t] = IF pressing = SessionOf[t] THEN "queued" ELSE "no"]
        /\ UNCHANGED <<inflight, byWorker, budget, stops, phase, turn, claim, pressing>>
        /\ \A w \in Workers : turn[w] # t
    BY <1>1 DEF Add, Over
  <2>3. Types'
    BY <1>0, <2>1, <2>2 DEF Types
  <2>4. WaitingAreUnmet'
    BY <1>0, <2>1, <2>2 DEF WaitingAreUnmet, Types
  <2>5. StopReachesTurn'
    BY <1>0, <2>2 DEF StopReachesTurn, ChatOf, Types
  <2> QED
    BY <1>0, <2>2, <2>3, <2>4, <2>5 DEF IInv, Phased, TurnsAreOwned, OneOwner
<1>2. ASSUME NEW s \in Sessions, RequestStop(s) PROVE IInv'
  <2>1. /\ stops' = stops \cup {s}
        /\ pressing' = s
        /\ UNCHANGED <<orders, inflight, byWorker, budget, phase, turn, claim>>
        /\ Queued' = Queued
    BY <1>2 DEF RequestStop, Queued
  <2>2. meant' \in [Tasks -> {"no", "queued", "turn"}]
    BY <1>0, <1>2 DEF RequestStop, Types
  <2>3. \A t \in Queued : meant'[t] # "turn"
    BY <1>0, <1>2 DEF RequestStop, WaitingAreUnmet, Queued
  <2>4. \A t \in Tasks : meant'[t] = "turn" => meant[t] = "turn" \/ SessionOf[t] = s
    BY <1>2 DEF RequestStop
  <2>5. \A w \in Workers : phase[w] \in {"setup", "chat"} => turn[w] \in Tasks
    BY <1>0 DEF Types, Phased, Turning
  <2>6. StopReachesTurn'
    BY <1>0, <2>1, <2>4, <2>5 DEF StopReachesTurn, ChatOf
  <2> QED
    BY <1>0, <2>1, <2>2, <2>3, <2>6
       DEF IInv, Types, Phased, TurnsAreOwned, OneOwner, WaitingAreUnmet
<1>3. ASSUME DropQueued PROVE IInv'
  <2> DEFINE dropped == {t \in Queued : SessionOf[t] = pressing}
  <2>1. orders' \in [Bands -> RR!Orders] /\ Queued' = Queued \ dropped
    <3>1. orders' = [b \in Bands |-> RR!Drop(orders[b], dropped)]
      BY <1>3 DEF DropQueued
    <3>2. dropped \in SUBSET Tasks
      BY DEF Queued
    <3> HIDE DEF dropped
    <3> QED
      BY <1>0, <3>1, <3>2, DropsQueued DEF Types
  <2>2. UNCHANGED <<inflight, byWorker, budget, stops, phase, turn, claim, meant>>
        /\ pressing' = NoSession
    BY <1>3 DEF DropQueued
  <2> HIDE DEF dropped
  <2> QED
    BY <1>0, <2>1, <2>2 DEF IInv, Types, Phased, TurnsAreOwned, OneOwner,
       WaitingAreUnmet, StopReachesTurn, ChatOf
<1>4. ASSUME NEW w \in Workers, AskAndTake(w) PROVE IInv'
  <2>1. phase[w] = "idle" /\ Take(w, FreedBy(w), Entries)
        /\ UNCHANGED <<stops, claim, pressing, meant>>
    BY <1>4 DEF AskAndTake
  <2> QED
    BY <2>1, AskFreesTheDead, TakeKeepsIInv
<1>5. ASSUME NEW w \in Workers, AskAndWait(w) PROVE IInv'
  <2>1. /\ phase[w] = "idle"
        /\ inflight' = FreedBy(w) /\ byWorker' = Entries
        /\ phase' = [phase EXCEPT ![w] = "waiting"]
        /\ UNCHANGED <<orders, budget, stops, turn, claim, pressing, meant>>
    BY <1>5 DEF AskAndWait, Goto
  <2>2. Types'
    BY <1>0, <2>1, AskFreesTheDead DEF Types, Phases
  <2>3. Phased'
    BY <1>0, <2>1 DEF Phased, Types, Turning, Summing
  <2>4. TurnsAreOwned'
    BY <1>0, <2>1, AskFreesTheDead DEF TurnsAreOwned, Types, Phased, Turning
  <2>5. OneOwner'
    BY <1>0, <2>1, AskFreesTheDead DEF OneOwner
  <2>6. WaitingAreUnmet' /\ StopReachesTurn'
    BY <1>0, <2>1 DEF WaitingAreUnmet, StopReachesTurn, Queued, ChatOf, Types
  <2> QED
    BY <2>2, <2>3, <2>4, <2>5, <2>6 DEF IInv
<1>6. ASSUME NEW w \in Workers, WakeAndTake(w) PROVE IInv'
  <2>1. phase[w] = "waiting" /\ Take(w, inflight, byWorker)
        /\ UNCHANGED <<stops, claim, pressing, meant>>
    BY <1>6 DEF WakeAndTake
  <2> QED
    BY <1>0, <2>1, TakeKeepsIInv DEF OneOwner, Types
<1>7. ASSUME NEW w \in Workers, GiveUp(w) PROVE IInv'
  <2>1. /\ phase[w] = "waiting"
        /\ phase' = [phase EXCEPT ![w] = IF w = Drainer THEN "drain" ELSE "idle"]
        /\ UNCHANGED <<orders, inflight, byWorker, budget, stops, turn, claim, pressing, meant>>
    BY <1>7 DEF GiveUp, Goto
  <2>2. Types'
    BY <1>0, <2>1 DEF Types, Phases
  <2>3. Phased' /\ TurnsAreOwned'
    BY <1>0, <2>1 DEF Phased, TurnsAreOwned, Types, Turning, Summing
  <2>4. OneOwner' /\ WaitingAreUnmet' /\ StopReachesTurn'
    BY <1>0, <2>1 DEF OneOwner, WaitingAreUnmet, StopReachesTurn, Queued, ChatOf, Types
  <2> QED
    BY <2>2, <2>3, <2>4 DEF IInv
<1>8. ASSUME NEW w \in Workers,
             Skip(w) \/ BeginChat(w) \/ FailLoad(w) \/ EndEarly(w)
               \/ Halt(w) \/ Finish(w) \/ FailChat(w)
      PROVE  IInv'
  <2>1. CASE BeginChat(w)
    BY <2>1, TurnKeepsIInv DEF BeginChat
  <2>2. CASE Skip(w)
    BY <2>2, TurnKeepsIInv DEF Skip
  <2>3. CASE FailLoad(w)
    BY <2>3, TurnKeepsIInv DEF FailLoad
  <2>4. CASE EndEarly(w)
    BY <2>4, TurnKeepsIInv DEF EndEarly
  <2>5. CASE Halt(w)
    BY <2>5, TurnKeepsIInv DEF Halt
  <2>6. CASE Finish(w)
    BY <2>6, TurnKeepsIInv DEF Finish
  <2>7. CASE FailChat(w)
    BY <2>7, TurnKeepsIInv DEF FailChat
  <2> QED
    BY <1>8, <2>1, <2>2, <2>3, <2>4, <2>5, <2>6, <2>7
<1>9. ASSUME NEW w \in Workers, Done(w) PROVE IInv'
  <2>1. phase[w] = "ending" /\ turn[w] # NoTask /\ byWorker[w] = turn[w]
    BY <1>0, <1>9 DEF Done, Phased, Turning, TurnsAreOwned
  <2>2. /\ inflight' = inflight \ {SessionOf[byWorker[w]]}
        /\ byWorker' = [byWorker EXCEPT ![w] = NoTask]
        /\ turn' = [turn EXCEPT ![w] = NoTask]
        /\ phase' = [phase EXCEPT ![w] = "idle"]
        /\ UNCHANGED <<orders, budget, stops, claim, pressing, meant>>
    BY <1>9, <2>1 DEF Done, Goto
  <2>3. Types'
    BY <1>0, <2>2 DEF Types, Phases
  <2>4. Phased' /\ TurnsAreOwned'
    BY <1>0, <2>1, <2>2 DEF Phased, TurnsAreOwned, Types, Turning, Summing
  <2>5. OneOwner'
    BY <1>0, <2>1, <2>2 DEF OneOwner, Types
  <2>6. WaitingAreUnmet' /\ StopReachesTurn'
    BY <1>0, <2>2 DEF WaitingAreUnmet, StopReachesTurn, Queued, ChatOf, Types
  <2> QED
    BY <2>3, <2>4, <2>5, <2>6 DEF IInv
<1>10. ASSUME NEW w \in Workers, Die(w) PROVE IInv'
  <2>1. /\ phase[w] \in Turning
        /\ turn' = [turn EXCEPT ![w] = NoTask]
        /\ phase' = [phase EXCEPT ![w] = "dead"]
        /\ UNCHANGED <<orders, inflight, byWorker, budget, stops, claim, pressing, meant>>
    BY <1>10 DEF Die, Goto
  <2>2. Types'
    BY <1>0, <2>1 DEF Types, Phases
  <2>3. Phased' /\ TurnsAreOwned'
    BY <1>0, <2>1 DEF Phased, TurnsAreOwned, Types, Turning, Summing
  <2>4. OneOwner' /\ WaitingAreUnmet' /\ StopReachesTurn'
    BY <1>0, <2>1 DEF OneOwner, WaitingAreUnmet, StopReachesTurn, Queued, ChatOf, Types
  <2> QED
    BY <2>2, <2>3, <2>4 DEF IInv
<1>11. ASSUME NEW w \in Workers, NEW s \in Sessions, Claim(w, s) PROVE IInv'
  <2>1. /\ phase[w] = "drain" /\ s \notin inflight
        /\ inflight' = inflight \cup {s} /\ claim' = s
        /\ phase' = [phase EXCEPT ![w] = "results"]
        /\ UNCHANGED <<orders, byWorker, budget, stops, turn, pressing, meant>>
    BY <1>11 DEF Claim, Goto
  <2>2. Types'
    BY <1>0, <2>1 DEF Types, Phases
  <2>3. Phased' /\ TurnsAreOwned'
    BY <1>0, <2>1 DEF Phased, TurnsAreOwned, Types, Turning, Summing
  <2>4. OneOwner'
    BY <1>0, <2>1 DEF OneOwner, Types
  <2>5. WaitingAreUnmet' /\ StopReachesTurn'
    BY <1>0, <2>1 DEF WaitingAreUnmet, StopReachesTurn, Queued, ChatOf, Types
  <2> QED
    BY <2>2, <2>3, <2>4, <2>5 DEF IInv
<1>12. ASSUME NEW w \in Workers, NoClaim(w) \/ HandleResults(w) \/ Summarise(w)
       PROVE  IInv'
  <2>1. CASE NoClaim(w)
    BY <2>1, DrainKeepsIInv DEF NoClaim, MayTakeStop
  <2>2. CASE HandleResults(w)
    BY <2>2, DrainKeepsIInv DEF HandleResults, Summing
  <2>3. CASE Summarise(w)
    BY <2>3, DrainKeepsIInv DEF Summarise, Summing
  <2> QED
    BY <1>12, <2>1, <2>2, <2>3
<1>13. ASSUME NEW w \in Workers, ReleaseClaim(w) PROVE IInv'
  <2>1. /\ phase[w] = "settled"
        /\ inflight' = inflight \ {claim} /\ claim' = NoSession
        /\ phase' = [phase EXCEPT ![w] = "idle"]
        /\ UNCHANGED <<orders, byWorker, budget, stops, turn, pressing, meant>>
    BY <1>13 DEF ReleaseClaim, Goto
  <2>2. Types'
    BY <1>0, <2>1 DEF Types, Phases
  <2>3. Phased' /\ TurnsAreOwned'
    BY <1>0, <2>1 DEF Phased, TurnsAreOwned, Types, Turning, Summing
  <2>4. OneOwner'
    BY <1>0, <2>1 DEF OneOwner, Types
  <2>5. WaitingAreUnmet' /\ StopReachesTurn'
    BY <1>0, <2>1 DEF WaitingAreUnmet, StopReachesTurn, Queued, ChatOf, Types
  <2> QED
    BY <2>2, <2>3, <2>4, <2>5 DEF IInv
<1>14. ASSUME NEW w \in Workers, Start(w) \/ Miss(w) PROVE IInv'
  BY <1>0, <1>14 DEF Start, Miss, Phased
<1>15. CASE UNCHANGED vars
  BY <1>0, <1>15 DEF vars, IInv, Types, Phased, TurnsAreOwned, OneOwner,
     WaitingAreUnmet, StopReachesTurn, Queued, ChatOf
<1> QED
  BY <1>1, <1>2, <1>3, <1>4, <1>5, <1>6, <1>7, <1>8, <1>9, <1>10, <1>11, <1>12,
     <1>13, <1>14, <1>15 DEF Next, Stop, Work, Ask, Turn, DrainPass

\* IInv holds in every behaviour whose workers are up and end their turns.
LEMMA Invariance ==
  ASSUME LateStarters = {}, Careless = {}
  PROVE  Spec => []IInv
<1>1. Init => IInv
  BY InitIInv
<1>2. IInv /\ [Next]_vars => IInv'
  BY StepIInv
<1> QED
  BY <1>1, <1>2, PTL DEF Spec

\* With every worker up and every turn ended by task_done or with its thread, two
\* turns of one chat never run together, nor a turn beside the drain's summary
\* (get, task_done, try_claim_session, _cleanup_stale_inflight_locked).
THEOREM OneTurnAtATime ==
  ASSUME LateStarters = {}, Careless = {}
  PROVE  Spec => []OneTurnPerChat
<1>1. IInv => OneTurnPerChat
  BY DEF IInv, OneTurnPerChat, TurnsAreOwned, OneOwner, ChatOf
<1> QED
  BY <1>1, Invariance, PTL

\* Under the same conditions no other turn and no drain pass consumes the stop a
\* running turn has yet to look at (should_stop, clear_stop).
THEOREM StopsReachTheirTurn ==
  ASSUME LateStarters = {}, Careless = {}
  PROVE  Spec => []StopReachesTurn
<1>1. IInv => StopReachesTurn
  BY DEF IInv
<1> QED
  BY <1>1, Invariance, PTL

-----------------------------------------------------------------------------
(* The class budgets *)

\* The budgets stay natural numbers, whatever the workers do.
BudgetOK == budget \in [Classes -> Nat]

\* With _select_locked charging the chosen class, every task another class gets
\* brings a class with a free chat closer to its turn.
LEMMA SpendingComesCloser ==
  ASSUME BudgetOK, ~Legacy, NEW E \in SUBSET Queued, NEW t \in E, TaskIsNext(E, t),
         NEW c \in Classes, c # ClassOf[t],
         NEW u \in E, ClassOf[u] = c,
         budget' = Spend(E, t)
  PROVE  Distance(c)' < Distance(c)
<1> USE SelectionAssumption, TaskQueueAssumption
<1> DEFINE d == ClassOf[t]
<1>1. t \in Tasks /\ u \in Tasks /\ d \in Classes
  BY DEF Queued
<1>2. ClassIsNext(E, d)
  BY <1>1 DEF TaskIsNext, BandIsNext, Band
<1>3. c \in Available(E)
  <2>1. Band(u) \in Bands /\ Band(u)[1] = c /\ u \in Waiting(E, Band(u))
    BY <1>1 DEF Bands, Band, Waiting, Queued
  <2> QED
    BY <2>1 DEF Available
<1>4. budget' = [Share(E) EXCEPT ![d] = @ - 1]
  BY DEF Spend
<1> HIDE DEF d
<1>5. CASE FreshBudget(E)
  <2>1. budget[c] = 0
    BY <1>3, <1>5 DEF FreshBudget, Spendable, BudgetOK
  <2>2. budget' = [Weight EXCEPT ![d] = @ - 1]
    BY <1>4, <1>5 DEF Share
  <2>3. Weight \in [Classes -> Nat \ {0}] /\ Weight[c] > 0
    OBVIOUS
  <2>4. Total(budget)' = Total(Weight) - 1 /\ budget'[c] = Weight[c]
    BY <1>1, <2>2, <2>3, c # d DEF Total, Classes, d
  <2>5. Total(budget) \in Nat /\ Total(Weight) \in Nat
    BY <2>3 DEF Total, BudgetOK, Classes
  <2> QED
    BY <2>1, <2>3, <2>4, <2>5 DEF Distance
<1>6. CASE ~FreshBudget(E)
  <2>1. d \in Spendable(E)
    BY <1>2, <1>6 DEF ClassIsNext
  <2>2. budget' = [budget EXCEPT ![d] = @ - 1]
    BY <1>4, <1>6 DEF Share
  <2>3. Total(budget)' = Total(budget) - 1 /\ budget'[c] = budget[c]
    BY <1>1, <2>2, c # d DEF Total, Classes, d, BudgetOK
  <2>4. Total(budget) \in Nat /\ budget[c] \in Nat /\ Total(Weight) \in Nat /\ Weight[c] \in Nat
    BY DEF Total, BudgetOK, Classes
  <2> QED
    BY <2>3, <2>4 DEF Distance
<1> QED
  BY <1>5, <1>6

\* The initial state has its types.
LEMMA InitTypes == Init => Types
<1> SUFFICES ASSUME Init PROVE Types
  OBVIOUS
<1>1. orders \in [Bands -> RR!Orders]
  BY EmptyIsEmpty DEF Init
<1> QED
  BY <1>1, SelectionAssumption DEF Init, Types, Phases

\* Taking a task keeps the types, from whatever sessions and entries get() sees.
LEMMA TakeKeepsTypes ==
  ASSUME Types, NEW w \in Workers, NEW busy \in SUBSET Sessions,
         NEW entries \in [Workers -> Tasks \cup {NoTask}], Take(w, busy, entries),
         UNCHANGED <<stops, claim, pressing, meant>>
  PROVE  Types'
<1> USE SelectionAssumption, TaskQueueAssumption
<1>1. PICK t \in Queued :
        /\ orders' \in [Bands -> RR!Orders]
        /\ inflight' = busy \cup {SessionOf[t]}
        /\ byWorker' = [entries EXCEPT ![w] = t]
        /\ turn' = [turn EXCEPT ![w] = t]
        /\ phase' = [phase EXCEPT ![w] = "setup"]
        /\ TaskIsNext(Eligible(busy), t)
        /\ budget' = Spend(Eligible(busy), t)
  BY TakeIsOne
<1>2. t \in Tasks /\ SessionOf[t] \in Sessions /\ Eligible(busy) \subseteq Tasks
  BY DEF Queued, Eligible
<1>3. budget' \in [Classes -> Nat]
  BY <1>1, <1>2, SpendKeepsNat DEF Types
<1>4. phase' \in [Workers -> Phases]
  BY <1>1 DEF Types, Phases
<1>5. turn' \in [Workers -> Tasks \cup {NoTask}] /\ byWorker' \in [Workers -> Tasks \cup {NoTask}]
  BY <1>1, <1>2 DEF Types
<1> QED
  BY <1>1, <1>2, <1>3, <1>4, <1>5 DEF Types

\* Every step keeps the types, whoever starts late or misses task_done.
LEMMA StepTypes == Types /\ [Next]_vars => Types'
<1> SUFFICES ASSUME Types, [Next]_vars PROVE Types'
  OBVIOUS
<1> USE SelectionAssumption, TaskQueueAssumption
<1>1. ASSUME NEW t \in Tasks, Add(t) PROVE Types'
  BY <1>1, AddQueues DEF Add, Types
<1>2. ASSUME NEW s \in Sessions, RequestStop(s) PROVE Types'
  BY <1>2 DEF RequestStop, Types
<1>3. ASSUME DropQueued PROVE Types'
  <2>1. orders' = [b \in Bands |-> RR!Drop(orders[b], {t \in Queued : SessionOf[t] = pressing})]
    BY <1>3 DEF DropQueued
  <2>2. {t \in Queued : SessionOf[t] = pressing} \in SUBSET Tasks
    BY DEF Queued
  <2>3. orders' \in [Bands -> RR!Orders]
    BY <2>1, <2>2, DropsQueued DEF Types
  <2> QED
    BY <1>3, <2>3 DEF DropQueued, Types
<1>4. ASSUME NEW w \in Workers, Ask(w) PROVE Types'
  <2>1. Entries \in [Workers -> Tasks \cup {NoTask}] /\ FreedBy(w) \in SUBSET Sessions
    BY DEF Entries, FreedBy, Types
  <2>2. CASE AskAndTake(w)
    BY <2>1, <2>2, TakeKeepsTypes DEF AskAndTake
  <2>3. CASE WakeAndTake(w)
    BY <2>3, TakeKeepsTypes DEF WakeAndTake, Types
  <2>4. CASE AskAndWait(w)
    BY <2>1, <2>4 DEF AskAndWait, Goto, Types, Phases
  <2>5. CASE GiveUp(w)
    BY <2>5 DEF GiveUp, Goto, Types, Phases
  <2> QED
    BY <1>4, <2>2, <2>3, <2>4, <2>5 DEF Ask
<1>5. ASSUME NEW w \in Workers, Turn(w) PROVE Types'
  <2>1. phase' \in [Workers -> Phases]
    BY <1>5 DEF Turn, Skip, BeginChat, FailLoad, EndEarly, Halt, Finish, FailChat, Done,
       Goto, Types, Phases
  <2>2. CASE Done(w)
    BY <2>1, <2>2 DEF Done, Types
  <2>3. CASE ~Done(w)
    BY <1>5, <2>1, <2>3 DEF Turn, Skip, BeginChat, FailLoad, EndEarly, Halt, Finish,
       FailChat, SameQueue, Types
  <2> QED
    BY <2>2, <2>3
<1>6. ASSUME NEW w \in Workers, DrainPass(w) PROVE Types'
  <2>1. phase' \in [Workers -> Phases]
    BY <1>6 DEF DrainPass, Claim, NoClaim, HandleResults, Summarise, ReleaseClaim, Goto,
       Types, Phases
  <2>2. CASE \E s \in Sessions : Claim(w, s)
    BY <2>1, <2>2 DEF Claim, Types
  <2>3. CASE ReleaseClaim(w)
    BY <2>1, <2>3 DEF ReleaseClaim, Types
  <2>4. CASE NoClaim(w) \/ HandleResults(w) \/ Summarise(w)
    BY <2>1, <2>4 DEF NoClaim, HandleResults, Summarise, MayTakeStop, SameQueue, Types
  <2> QED
    BY <1>6, <2>2, <2>3, <2>4 DEF DrainPass
<1>7. ASSUME NEW w \in Workers, Start(w) \/ Miss(w) \/ Die(w) PROVE Types'
  BY <1>7 DEF Start, Miss, Die, Goto, Types, Phases
<1>8. CASE UNCHANGED vars
  BY <1>8 DEF vars, Types
<1> QED
  BY <1>1, <1>2, <1>3, <1>4, <1>5, <1>6, <1>7, <1>8 DEF Next, Stop, Work

\* A step in which worker w comes by a task is w's get().
LEMMA TakingIsTake ==
  ASSUME Types, Next, NEW w \in Workers, Takes(w)
  PROVE  \E busy, entries : Take(w, busy, entries)
<1>1. PICK v \in Workers : AskAndTake(v) \/ WakeAndTake(v)
  BY DEF Takes, Next, Stop, Work, Ask, Turn, DrainPass, Add, RequestStop, DropQueued,
     AskAndWait, GiveUp, Skip, BeginChat, FailLoad, EndEarly, Halt, Finish, FailChat,
     Done, Miss, Die, Start, Claim, NoClaim, HandleResults, Summarise, ReleaseClaim,
     SameQueue, Types
<1>2. PICK busy, entries : Take(v, busy, entries)
  BY <1>1 DEF AskAndTake, WakeAndTake
<1>3. PICK t \in Queued : turn' = [turn EXCEPT ![v] = t]
  BY <1>2, TakeIsOne
<1>4. v = w
  BY <1>3 DEF Takes, Types
<1> QED
  BY <1>2, <1>4

\* The share of a class under weighted_fair is kept by every behaviour, also one
\* whose workers start late or miss task_done (_select_locked).
THEOREM SharesAreKept == Spec => ClassComesCloser
<1>1. Types /\ Next =>
        \A c \in Classes, w \in Workers :
           /\ ~Legacy /\ Takes(w) /\ ClassOf[turn'[w]] # c
           /\ \E u \in Queued : ClassOf[u] = c /\ SessionOf[u] \notin inflight'
           => Distance(c)' < Distance(c)
  <2> SUFFICES ASSUME Types, Next, NEW c \in Classes, NEW w \in Workers,
                      ~Legacy, Takes(w), ClassOf[turn'[w]] # c,
                      NEW u \in Queued, ClassOf[u] = c, SessionOf[u] \notin inflight'
               PROVE  Distance(c)' < Distance(c)
    OBVIOUS
  <2>1. PICK busy, entries : Take(w, busy, entries)
    BY TakingIsTake
  <2>2. PICK t \in Queued :
          /\ SessionOf[t] \notin busy
          /\ inflight' = busy \cup {SessionOf[t]}
          /\ turn' = [turn EXCEPT ![w] = t]
          /\ TaskIsNext(Eligible(busy), t)
          /\ budget' = Spend(Eligible(busy), t)
    BY <2>1, TakeIsOne
  <2>3. t \in Eligible(busy) /\ u \in Eligible(busy) /\ Eligible(busy) \in SUBSET Queued
    BY <2>2 DEF Eligible
  <2>4. ClassOf[t] # c
    BY <2>2 DEF Types
  <2> QED
    BY <2>2, <2>3, <2>4, SpendingComesCloser DEF BudgetOK, Types
<1> QED
  BY <1>1, InitTypes, StepTypes, PTL DEF Spec, ClassComesCloser

-----------------------------------------------------------------------------
(* The chats' lines *)

\* A sequence without the element at place i.
LEMMA Cut ==
  ASSUME NEW S, NEW s \in Seq(S), NEW i \in 1..Len(s), NEW r,
         r = SubSeq(s, 1, i - 1) \o SubSeq(s, i + 1, Len(s))
  PROVE  /\ r \in Seq(S) /\ Len(r) = Len(s) - 1
         /\ \A j \in 1..(Len(s) - 1) : r[j] = IF j < i THEN s[j] ELSE s[j + 1]
<1> DEFINE a == SubSeq(s, 1, i - 1)
           b == SubSeq(s, i + 1, Len(s))
<1>1. a \in Seq(S) /\ Len(a) = i - 1 /\ \A j \in 1..(i - 1) : a[j] = s[j]
  OBVIOUS
<1>2. b \in Seq(S) /\ Len(b) = Len(s) - i /\ \A j \in 1..(Len(s) - i) : b[j] = s[j + i]
  OBVIOUS
<1>3. r = a \o b
  OBVIOUS
<1> HIDE DEF a, b
<1>4. r \in Seq(S) /\ Len(r) = Len(a) + Len(b)
  BY ONLY <1>1, <1>2, <1>3, ConcatProperties
<1>5. Len(s) \in Nat /\ i \in 1..Len(s)
  OBVIOUS
<1>6. Len(r) = Len(s) - 1
  BY ONLY <1>1, <1>2, <1>4, <1>5
<1>7. ASSUME NEW j \in 1..(Len(s) - 1)
      PROVE  r[j] = IF j < i THEN s[j] ELSE s[j + 1]
  <2>1. j \in 1..(Len(a) + Len(b))
    BY ONLY <1>1, <1>2, <1>5, j \in 1..(Len(s) - 1)
  <2>2. r[j] = IF j <= Len(a) THEN a[j] ELSE b[j - Len(a)]
    BY ONLY <1>1, <1>2, <1>3, <2>1, ConcatProperties
  <2>3. CASE j < i
    BY ONLY <1>1, <1>5, <2>2, <2>3, j \in 1..(Len(s) - 1)
  <2>4. CASE ~(j < i)
    <3>1. j - (i - 1) \in 1..(Len(s) - i) /\ j - (i - 1) + i = j + 1 /\ ~(j <= i - 1)
      BY ONLY <1>5, <2>4, j \in 1..(Len(s) - 1)
    <3> QED
      BY ONLY <1>1, <1>2, <2>2, <2>4, <3>1
  <2> QED
    BY <2>3, <2>4
<1> QED
  BY <1>4, <1>6, <1>7

\* deque.remove of a task that is there once: the others keep their order.
LEMMA RemovesOne ==
  ASSUME NEW s \in Seq(Tasks), IsInjective(s), NEW i \in 1..Len(s), NEW r,
         r = RemoveFirst(s, s[i])
  PROVE  /\ r \in Seq(Tasks) /\ Len(r) = Len(s) - 1
         /\ \A j \in 1..(Len(s) - 1) : r[j] = IF j < i THEN s[j] ELSE s[j + 1]
<1>1. {k \in 1..Len(s) : s[k] = s[i]} = {i}
  BY DEF IsInjective
<1>2. \A k \in Int : Min({k}) = k
  BY DEF Min
<1>3. SelectInSeq(s, LAMBDA v : v = s[i]) = i
  BY <1>1, <1>2 DEF SelectInSeq
<1>4. r = SubSeq(s, 1, i - 1) \o SubSeq(s, i + 1, Len(s))
  BY <1>3 DEF RemoveFirst, RemoveAt
<1> QED
  BY ONLY <1>4, Cut, s \in Seq(Tasks), i \in 1..Len(s)

\* The line a task has left: the others, in their order.
LEMMA LeftLine ==
  ASSUME NEW s \in Seq(Tasks), IsInjective(s), NEW t \in Range(s), NEW r,
         r = RemoveFirst(s, t)
  PROVE  /\ r \in Seq(Tasks) /\ Range(r) = Range(s) \ {t} /\ IsInjective(r)
         /\ \A j, k \in DOMAIN r : j < k =>
               \E l, m \in DOMAIN s : l < m /\ r[j] = s[l] /\ r[k] = s[m]
<1>1. PICK i \in 1..Len(s) : s[i] = t
  BY DEF Range
<1>2. /\ r \in Seq(Tasks) /\ Len(r) = Len(s) - 1
      /\ \A j \in 1..(Len(s) - 1) : r[j] = IF j < i THEN s[j] ELSE s[j + 1]
  BY <1>1, RemovesOne
<1> DEFINE from(j) == IF j < i THEN j ELSE j + 1
<1>3. \A j \in DOMAIN r : from(j) \in DOMAIN s /\ from(j) # i /\ r[j] = s[from(j)]
  BY <1>2
<1>4. \A j, k \in DOMAIN r : /\ j < k => from(j) < from(k)
                             /\ from(j) = from(k) => j = k
  BY <1>2
<1>5. \A l \in DOMAIN s : l # i => \E j \in DOMAIN r : from(j) = l
  <2> TAKE l \in DOMAIN s
  <2>1. CASE l < i
    BY <1>2, <2>1
  <2>2. CASE l > i
    <3>1. l - 1 \in DOMAIN r /\ from(l - 1) = l
      BY <1>2, <2>2
    <3> QED
      BY <3>1
  <2> QED
    BY <2>1, <2>2
<1> HIDE DEF from
<1>6. IsInjective(r)
  BY <1>3, <1>4 DEF IsInjective
<1>7. Range(r) = Range(s) \ {t}
  BY <1>1, <1>3, <1>5 DEF Range, IsInjective
<1> QED
  BY <1>2, <1>3, <1>4, <1>6, <1>7

\* The line a task has joined: it comes last.
LEMMA JoinedLine ==
  ASSUME NEW s \in Seq(Tasks), IsInjective(s), NEW t \in Tasks \ Range(s), NEW r,
         r = Append(s, t)
  PROVE  /\ r \in Seq(Tasks) /\ Range(r) = Range(s) \cup {t} /\ IsInjective(r)
         /\ \A j, k \in DOMAIN r : j < k =>
               /\ j \in DOMAIN s /\ r[j] = s[j]
               /\ r[k] = t \/ (k \in DOMAIN s /\ r[k] = s[k])
<1>1. /\ r \in Seq(Tasks) /\ Len(r) = Len(s) + 1
      /\ \A j \in 1..Len(s) : r[j] = s[j]
      /\ r[Len(s) + 1] = t
  OBVIOUS
<1>2. IsInjective(r)
  BY <1>1 DEF IsInjective, Range
<1>3. Range(r) = Range(s) \cup {t}
  BY <1>1 DEF Range
<1> QED
  BY <1>1, <1>2, <1>3

\* Where a waiting task is in its band's order of arrival.
Place(o, t) == o[Band(t)].line[t]

Compacts == \A b \in Bands : Compact(orders[b])

\* A chat's line lists the tasks of a band in their order of arrival.
InArrivalOrder ==
    \A s \in Sessions : \A i, j \in DOMAIN chatLine[s] :
        i < j /\ Band(chatLine[s][i]) = Band(chatLine[s][j]) =>
            Place(orders, chatLine[s][i]) < Place(orders, chatLine[s][j])

LinesInv ==
    /\ Types /\ chatLine \in [Sessions -> Seq(Tasks)]
    /\ Compacts /\ LinesMatchOrders /\ InArrivalOrder

\* Add: those who wait keep their places, and the new task comes after them.
LEMMA AddArrives ==
  ASSUME Types, Compacts, NEW t \in Tasks \ Queued, Add(t)
  PROVE  /\ Compacts'
         /\ \A u \in Queued : /\ Place(orders', u) = Place(orders, u)
                              /\ Band(u) = Band(t) => Place(orders', u) < Place(orders', t)
<1> DEFINE o == orders[Band(t)]
<1>1. Band(t) \in Bands /\ o \in RR!Orders /\ Compact(o) /\ t \in Tasks \ RR!Queued(o)
  BY DEF Bands, Types, Compacts, Queued
<1>2. /\ Compact(RR!Push(o, t))
      /\ \A u \in RR!Queued(o) : /\ RR!Push(o, t).line[u] = o.line[u]
                                 /\ o.line[u] < RR!Push(o, t).line[t]
  BY <1>1, OrdersCount, PushGoesLast
<1>3. \A b \in Bands : orders'[b] = IF b = Band(t) THEN RR!Push(o, t) ELSE orders[b]
  BY DEF Add, Types
<1>4. Compacts'
  BY <1>2, <1>3 DEF Compacts
<1>5. ASSUME NEW u \in Queued
      PROVE  Place(orders', u) = Place(orders, u) /\ (Band(u) = Band(t) => Place(orders', u) < Place(orders', t))
  <2>1. Band(u) \in Bands /\ u \in RR!Queued(orders[Band(u)])
    BY DEF Queued, Bands
  <2> HIDE DEF o
  <2>2. orders'[Band(t)] = RR!Push(o, t)
    BY <1>1, <1>3
  <2>3. CASE Band(u) = Band(t)
    BY <1>2, <2>1, <2>2, <2>3 DEF Place, o
  <2>4. CASE Band(u) # Band(t)
    BY <1>3, <2>1, <2>4 DEF Place
  <2> QED
    BY <2>3, <2>4
<1> QED
  BY <1>4, <1>5

\* Those who stay keep their order: nobody but the tasks of S leaves.
PlacesKept(S) ==
    \A u, v \in Queued \ S :
        Band(u) = Band(v) /\ Place(orders, u) < Place(orders, v) => Place(orders', u) < Place(orders', v)

LEMMA DropKeepsPlaces ==
  ASSUME Types, Compacts, NEW S \in SUBSET Tasks,
         orders' = [b \in Bands |-> RR!Drop(orders[b], S)]
  PROVE  Compacts' /\ PlacesKept(S)
<1>1. \A b \in Bands :
        /\ Compact(RR!Drop(orders[b], S))
        /\ \A u, v \in RR!Queued(orders[b]) \ S :
              orders[b].line[u] < orders[b].line[v]
                  => RR!Drop(orders[b], S).line[u] < RR!Drop(orders[b], S).line[v]
  BY OrdersCount, DropKeepsOrder DEF Types, Compacts
<1>2. \A u \in Queued : Band(u) \in Bands /\ u \in RR!Queued(orders[Band(u)])
  BY DEF Queued, Bands
<1> QED
  BY <1>1, <1>2 DEF Compacts, PlacesKept, Place

LEMMA ServeKeepsPlaces ==
  ASSUME Types, Compacts, NEW t \in Tasks,
         orders' = [orders EXCEPT ![Band(t)] = RR!Serve(@, t)]
  PROVE  Compacts' /\ PlacesKept({t})
<1> DEFINE o == orders[Band(t)]
<1>1. Band(t) \in Bands /\ o \in RR!Orders /\ Compact(o)
  BY DEF Bands, Types, Compacts
<1>2. /\ Compact(RR!Serve(o, t))
      /\ \A u, v \in RR!Queued(o) \ {t} :
            o.line[u] < o.line[v] => RR!Serve(o, t).line[u] < RR!Serve(o, t).line[v]
  BY <1>1, OrdersCount, ServeKeepsOrder
<1>3. \A b \in Bands : orders'[b] = IF b = Band(t) THEN RR!Serve(o, t) ELSE orders[b]
  BY DEF Types
<1>4. \A u \in Queued : Band(u) \in Bands /\ u \in RR!Queued(orders[Band(u)])
  BY DEF Queued, Bands
<1> HIDE DEF o
<1>5. Compacts'
  BY <1>2, <1>3 DEF Compacts
<1>6. ASSUME NEW u \in Queued \ {t}, NEW v \in Queued \ {t}, Band(u) = Band(v), Place(orders, u) < Place(orders, v)
      PROVE  Place(orders', u) < Place(orders', v)
  <2>1. CASE Band(u) = Band(t)
    BY <1>1, <1>2, <1>3, <1>4, <1>6, <2>1 DEF Place, o
  <2>2. CASE Band(u) # Band(t)
    BY <1>3, <1>4, <1>6, <2>2 DEF Place
  <2> QED
    BY <2>1, <2>2
<1> QED
  BY <1>5, <1>6 DEF PlacesKept

\* Only add, get and drop_queued_tasks_for_session change an order or a line.
LEMMA LinesFrame ==
  ASSUME LinesInv, Types', UNCHANGED <<orders, chatLine>>
  PROVE  LinesInv'
  BY DEF LinesInv, Compacts, LinesMatchOrders, InArrivalOrder, Place, Queued

LEMMA LinesInit == Init => LinesInv
<1> SUFFICES ASSUME Init PROVE LinesInv
  OBVIOUS
<1>1. Types
  BY InitTypes
<1>2. chatLine = [s \in Sessions |-> <<>>] /\ \A b \in Bands : orders[b] = RR!EmptyOrder
  BY DEF Init
<1>3. Compacts
  <2>1. RR!EmptyOrder \in RR!Orders /\ RR!Queued(RR!EmptyOrder) = {}
    BY EmptyIsEmpty
  <2>2. RR!Cardinality({}) \in Nat
    BY OrdersCount DEF Countable
  <2>3. \A t \in Tasks : RR!EmptyOrder.line[t] = 0
    BY DEF RR!EmptyOrder
  <2>4. Compact(RR!EmptyOrder)
    BY <2>1, <2>2, <2>3 DEF Compact
  <2> QED
    BY <1>2, <2>4 DEF Compacts
<1>4. Queued = {}
  <2>1. \A t \in Tasks : Band(t) \in Bands
    BY DEF Bands
  <2> QED
    BY <1>2, <2>1, EmptyIsEmpty DEF Queued
<1>5. \A s \in Sessions : chatLine[s] = <<>> /\ Range(chatLine[s]) = {} /\ IsInjective(chatLine[s])
  BY <1>2 DEF Range, IsInjective
<1>6. LinesMatchOrders
  BY <1>4, <1>5 DEF LinesMatchOrders
<1>7. InArrivalOrder
  BY <1>5 DEF InArrivalOrder
<1>8. chatLine \in [Sessions -> Seq(Tasks)]
  BY <1>2
<1> QED
  BY <1>1, <1>3, <1>6, <1>7, <1>8 DEF LinesInv

\* add keeps the lines.
LEMMA AddKeepsLines ==
  ASSUME LinesInv, Types', NEW t \in Tasks, Add(t)
  PROVE  LinesInv'
<1> DEFINE c == SessionOf[t]
           r == Append(chatLine[c], t)
<1>0. /\ Types /\ chatLine \in [Sessions -> Seq(Tasks)] /\ Compacts
      /\ LinesMatchOrders /\ InArrivalOrder
  BY DEF LinesInv
<1>1. t \notin Queued /\ c \in Sessions
  BY SelectionAssumption DEF Add, Over
<1>2. Queued' = Queued \cup {t}
  BY <1>0, AddQueues
<1>3. /\ Compacts'
      /\ \A u \in Queued : /\ Place(orders', u) = Place(orders, u)
                           /\ Band(u) = Band(t) => Place(orders', u) < Place(orders', t)
  BY <1>0, <1>1, AddArrives
<1>4. chatLine' = [chatLine EXCEPT ![c] = r]
  BY <1>1 DEF Add
<1>5. /\ chatLine[c] \in Seq(Tasks) /\ IsInjective(chatLine[c])
      /\ Range(chatLine[c]) \subseteq Queued /\ t \notin Range(chatLine[c])
  BY <1>0, <1>1 DEF LinesMatchOrders
<1>6. /\ r \in Seq(Tasks) /\ Range(r) = Range(chatLine[c]) \cup {t} /\ IsInjective(r)
      /\ \A j, k \in DOMAIN r : j < k =>
            /\ j \in DOMAIN chatLine[c] /\ r[j] = chatLine[c][j]
            /\ r[k] = t \/ (k \in DOMAIN chatLine[c] /\ r[k] = chatLine[c][k])
  <2> DEFINE l == chatLine[c]
  <2>1. l \in Seq(Tasks) /\ IsInjective(l) /\ t \in Tasks \ Range(l) /\ r = Append(l, t)
    BY <1>5
  <2> HIDE DEF l, r
  <2>2. /\ r \in Seq(Tasks) /\ Range(r) = Range(l) \cup {t} /\ IsInjective(r)
        /\ \A j, k \in DOMAIN r : j < k =>
              /\ j \in DOMAIN l /\ r[j] = l[j]
              /\ r[k] = t \/ (k \in DOMAIN l /\ r[k] = l[k])
    <3>1. \A x \in Seq(Tasks) : IsInjective(x) => \A y \in Tasks \ Range(x) :
             LET z == Append(x, y)
             IN  /\ z \in Seq(Tasks) /\ Range(z) = Range(x) \cup {y} /\ IsInjective(z)
                 /\ \A j, k \in DOMAIN z : j < k =>
                      /\ j \in DOMAIN x /\ z[j] = x[j]
                      /\ z[k] = y \/ (k \in DOMAIN x /\ z[k] = x[k])
      BY JoinedLine
    <3> QED
      BY <2>1, <3>1
  <2> QED
    BY <2>2 DEF l
<1> HIDE DEF r
<1>7. /\ chatLine'[c] = r
      /\ \A s \in Sessions \ {c} : chatLine'[s] = chatLine[s]
  BY <1>0, <1>1, <1>4
<1>8. chatLine' \in [Sessions -> Seq(Tasks)]
  BY <1>0, <1>1, <1>4, <1>6
<1>9. LinesMatchOrders'
  BY <1>0, <1>1, <1>2, <1>6, <1>7 DEF LinesMatchOrders
<1>10. InArrivalOrder'
  <2> SUFFICES ASSUME NEW s \in Sessions, NEW i \in DOMAIN chatLine'[s], NEW j \in DOMAIN chatLine'[s],
                      i < j, Band(chatLine'[s][i]) = Band(chatLine'[s][j])
               PROVE  Place(orders', chatLine'[s][i]) < Place(orders', chatLine'[s][j])
    BY DEF InArrivalOrder
  <2>0. \A k \in DOMAIN chatLine[s] : chatLine[s][k] \in Queued
    BY <1>0 DEF LinesMatchOrders, Range
  <2>1. CASE s # c
    BY <1>0, <1>3, <1>7, <2>0, <2>1 DEF InArrivalOrder
  <2>2. CASE s = c
    <3>1. i \in DOMAIN chatLine[c] /\ r[i] = chatLine[c][i] /\ r[i] \in Queued
      BY <1>6, <1>7, <2>0, <2>2
    <3>2. CASE r[j] = t
      BY <1>3, <1>7, <2>2, <3>1, <3>2
    <3>3. CASE j \in DOMAIN chatLine[c] /\ r[j] = chatLine[c][j]
      <4>1. Place(orders, r[i]) < Place(orders, r[j]) /\ r[j] \in Queued
        BY <1>0, <1>1, <1>7, <2>0, <2>2, <3>1, <3>3 DEF InArrivalOrder
      <4> QED
        BY <1>3, <1>7, <2>2, <3>1, <4>1
    <3> QED
      BY <1>6, <1>7, <2>2, <3>2, <3>3
  <2> QED
    BY <2>1, <2>2
<1> QED
  BY <1>3, <1>8, <1>9, <1>10 DEF LinesInv

\* Tasks leave: each line keeps, in their order, those that stay.
LEMMA LeavingKeepsLines ==
  ASSUME LinesInv, Types', Compacts', NEW S \in SUBSET Tasks, PlacesKept(S),
         Queued' = Queued \ S, chatLine' \in [Sessions -> Seq(Tasks)],
         \A s \in Sessions :
            /\ Range(chatLine'[s]) = Range(chatLine[s]) \ S /\ IsInjective(chatLine'[s])
            /\ \A j, k \in DOMAIN chatLine'[s] : j < k =>
                  \E l, m \in DOMAIN chatLine[s] :
                      l < m /\ chatLine'[s][j] = chatLine[s][l] /\ chatLine'[s][k] = chatLine[s][m]
  PROVE  LinesInv'
<1>1. LinesMatchOrders'
  BY DEF LinesInv, LinesMatchOrders
<1>2. ASSUME NEW s \in Sessions, NEW i \in DOMAIN chatLine'[s], NEW j \in DOMAIN chatLine'[s],
             i < j, Band(chatLine'[s][i]) = Band(chatLine'[s][j])
      PROVE  Place(orders', chatLine'[s][i]) < Place(orders', chatLine'[s][j])
  <2>1. PICK l \in DOMAIN chatLine[s], m \in DOMAIN chatLine[s] :
           l < m /\ chatLine'[s][i] = chatLine[s][l] /\ chatLine'[s][j] = chatLine[s][m]
    BY <1>2
  <2>2. Place(orders, chatLine[s][l]) < Place(orders, chatLine[s][m])
    BY <1>2, <2>1 DEF LinesInv, InArrivalOrder
  <2>3. chatLine'[s][i] \in Queued \ S /\ chatLine'[s][j] \in Queued \ S
    <3>1. chatLine'[s][i] \in Range(chatLine'[s]) /\ chatLine'[s][j] \in Range(chatLine'[s])
      BY <1>2 DEF Range
    <3> QED
      BY <3>1 DEF LinesInv, LinesMatchOrders
  <2> QED
    BY <1>2, <2>1, <2>2, <2>3 DEF PlacesKept
<1>3. InArrivalOrder'
  BY <1>2 DEF InArrivalOrder
<1> QED
  BY <1>1, <1>3 DEF LinesInv

\* drop_queued_tasks_for_session keeps the lines.
LEMMA DropKeepsLines ==
  ASSUME LinesInv, Types', DropQueued
  PROVE  LinesInv'
<1> DEFINE S == {t \in Queued : SessionOf[t] = pressing}
<1>0. /\ Types /\ chatLine \in [Sessions -> Seq(Tasks)] /\ Compacts
      /\ LinesMatchOrders /\ InArrivalOrder
  BY DEF LinesInv
<1>1. S \in SUBSET Tasks /\ orders' = [b \in Bands |-> RR!Drop(orders[b], S)]
  BY DEF DropQueued, Queued
<1>2. Compacts' /\ PlacesKept(S) /\ Queued' = Queued \ S
  <2> HIDE DEF S
  <2> QED
    BY <1>0, <1>1, DropKeepsPlaces, DropsQueued DEF Types
<1>3. pressing \in Sessions /\ chatLine' = [chatLine EXCEPT ![pressing] = <<>>]
  BY <1>0 DEF DropQueued, Types
<1>4. chatLine' \in [Sessions -> Seq(Tasks)]
  BY <1>0, <1>3
<1>5. ASSUME NEW s \in Sessions
      PROVE  /\ Range(chatLine'[s]) = Range(chatLine[s]) \ S /\ IsInjective(chatLine'[s])
             /\ \A j, k \in DOMAIN chatLine'[s] : j < k =>
                   \E l, m \in DOMAIN chatLine[s] :
                       l < m /\ chatLine'[s][j] = chatLine[s][l] /\ chatLine'[s][k] = chatLine[s][m]
  <2>1. CASE s = pressing
    <3>1. chatLine'[s] = <<>> /\ Range(chatLine[s]) = S
      BY <1>0, <1>3, <2>1 DEF LinesMatchOrders
    <3>2. Range(chatLine'[s]) = {} /\ IsInjective(chatLine'[s]) /\ DOMAIN chatLine'[s] = {}
      BY <3>1 DEF Range, IsInjective
    <3> QED
      BY <3>1, <3>2
  <2>2. CASE s # pressing
    <3>1. chatLine'[s] = chatLine[s]
      BY <1>0, <1>3, <2>2
    <3>2. Range(chatLine[s]) \cap S = {} /\ IsInjective(chatLine[s])
      BY <1>0, <2>2 DEF LinesMatchOrders
    <3> QED
      BY <3>1, <3>2
  <2> QED
    BY <2>1, <2>2
<1> HIDE DEF S
<1> QED
  BY <1>1, <1>2, <1>4, <1>5, LeavingKeepsLines

\* get keeps the lines, whichever sessions and entries it sees.
LEMMA TakeKeepsLines ==
  ASSUME LinesInv, Types', NEW w \in Workers, NEW busy, NEW entries, Take(w, busy, entries)
  PROVE  LinesInv'
<1>0. /\ Types /\ chatLine \in [Sessions -> Seq(Tasks)] /\ Compacts
      /\ LinesMatchOrders /\ InArrivalOrder
  BY DEF LinesInv
<1>1. PICK t \in Eligible(busy) :
        /\ orders' = [orders EXCEPT ![Band(t)] = RR!Serve(@, t)]
        /\ chatLine' = [chatLine EXCEPT ![SessionOf[t]] = RemoveFirst(@, t)]
        /\ turn' = [turn EXCEPT ![w] = t]
  BY DEF Take
<1>2. t \in Queued /\ t \in Tasks /\ SessionOf[t] \in Sessions
  BY SelectionAssumption DEF Eligible, Queued
<1>3. PICK u \in Queued : Queued' = Queued \ {u} /\ turn' = [turn EXCEPT ![w] = u]
  BY <1>0, TakeIsOne
<1>4. Queued' = Queued \ {t}
  BY <1>0, <1>1, <1>3 DEF Types
<1>5. Compacts' /\ PlacesKept({t})
  BY <1>0, <1>1, <1>2, ServeKeepsPlaces
<1> DEFINE c == SessionOf[t]
           r == RemoveFirst(chatLine[c], t)
<1>6. t \in Range(chatLine[c]) /\ IsInjective(chatLine[c]) /\ chatLine[c] \in Seq(Tasks)
  BY <1>0, <1>2 DEF LinesMatchOrders
<1>7. /\ r \in Seq(Tasks) /\ Range(r) = Range(chatLine[c]) \ {t} /\ IsInjective(r)
      /\ \A j, k \in DOMAIN r : j < k =>
            \E l, m \in DOMAIN chatLine[c] : l < m /\ r[j] = chatLine[c][l] /\ r[k] = chatLine[c][m]
  BY <1>6, LeftLine
<1>8. chatLine' = [chatLine EXCEPT ![c] = r]
  BY <1>1, <1>2
<1> HIDE DEF r
<1>9. chatLine' \in [Sessions -> Seq(Tasks)]
  BY <1>0, <1>7, <1>8
<1>10. ASSUME NEW s \in Sessions
       PROVE  /\ Range(chatLine'[s]) = Range(chatLine[s]) \ {t} /\ IsInjective(chatLine'[s])
              /\ \A j, k \in DOMAIN chatLine'[s] : j < k =>
                    \E l, m \in DOMAIN chatLine[s] :
                        l < m /\ chatLine'[s][j] = chatLine[s][l] /\ chatLine'[s][k] = chatLine[s][m]
  <2>1. CASE s = c
    BY <1>0, <1>7, <1>8, <2>1
  <2>2. CASE s # c
    <3>1. chatLine'[s] = chatLine[s]
      BY <1>0, <1>8, <2>2
    <3>2. t \notin Range(chatLine[s]) /\ IsInjective(chatLine[s])
      BY <1>0, <2>2 DEF LinesMatchOrders
    <3> QED
      BY <3>1, <3>2
  <2> QED
    BY <2>1, <2>2
<1> QED
  BY <1>2, <1>4, <1>5, <1>9, <1>10, LeavingKeepsLines

LEMMA LinesNext == LinesInv /\ [Next]_vars => LinesInv'
<1> SUFFICES ASSUME LinesInv, [Next]_vars PROVE LinesInv'
  OBVIOUS
<1>1. Types'
  BY StepTypes DEF LinesInv
<1>2. ASSUME NEW t \in Tasks, Add(t) PROVE LinesInv'
  BY <1>1, <1>2, AddKeepsLines
<1>3. CASE DropQueued
  BY <1>1, <1>3, DropKeepsLines
<1>4. ASSUME NEW w \in Workers, AskAndTake(w) \/ WakeAndTake(w) PROVE LinesInv'
  BY <1>1, <1>4, TakeKeepsLines DEF AskAndTake, WakeAndTake
<1>5. CASE UNCHANGED <<orders, chatLine>>
  BY <1>1, <1>5, LinesFrame
<1>6. ASSUME NEW w \in Workers, Work(w) \/ Miss(w) \/ Die(w)
      PROVE  AskAndTake(w) \/ WakeAndTake(w) \/ UNCHANGED <<orders, chatLine>>
  BY <1>6 DEF Work, Ask, Turn, DrainPass, AskAndWait, GiveUp, Skip, BeginChat, FailLoad, EndEarly,
     Halt, Finish, FailChat, Done, Miss, Die, Start, Claim, NoClaim, HandleResults, Summarise,
     ReleaseClaim, SameQueue
<1>7. (\E s \in Sessions : RequestStop(s)) \/ UNCHANGED vars => UNCHANGED <<orders, chatLine>>
  BY DEF RequestStop, vars
<1> QED
  BY <1>2, <1>3, <1>4, <1>5, <1>6, <1>7 DEF Next, Stop

\* What a chat's own line says, has_queued and the place of a reload among it, is
\* what the orders hold, in every behaviour (add, _unqueue_locked, drop).
THEOREM LinesAreTheOrders == Spec => []LinesMatchOrders
<1>1. LinesInv => LinesMatchOrders
  BY DEF LinesInv
<1> QED
  BY <1>1, LinesInit, LinesNext, PTL DEF Spec

\* The queue takes the turns of one person and band of a chat in the order in
\* which they came, in every behaviour (FairOrder.pop under _select_locked).
THEOREM TurnsKeepTheirOrder == Spec => ChatTurnsInOrder
<1>1. ASSUME LinesInv, Next, NEW w \in Workers, Takes(w),
             NEW i \in DOMAIN chatLine[SessionOf[turn'[w]]],
             NEW j \in DOMAIN chatLine[SessionOf[turn'[w]]],
             i < j, chatLine[SessionOf[turn'[w]]][j] = turn'[w]
      PROVE  LET t == turn'[w]
                 u == chatLine[SessionOf[t]][i]
             IN  PersonOf[u] # PersonOf[t] \/ Band(u) # Band(t)
  <2>0. Types
    BY <1>1 DEF LinesInv
  <2>1. PICK busy, entries : Take(w, busy, entries)
    BY <1>1, <2>0, TakingIsTake
  <2>2. PICK t \in Queued :
          /\ SessionOf[t] \notin busy
          /\ turn' = [turn EXCEPT ![w] = t]
          /\ TaskIsNext(Eligible(busy), t)
    BY <2>0, <2>1, TakeIsOne
  <2>3. turn'[w] = t /\ SessionOf[t] \in Sessions
    BY <2>0, <2>2, SelectionAssumption DEF Types, Queued
  <2> DEFINE u == chatLine[SessionOf[t]][i]
  <2>4. u \in Queued /\ SessionOf[u] = SessionOf[t]
    BY <1>1, <2>3 DEF LinesInv, LinesMatchOrders, Range
  <2> HIDE DEF u
  <2>5. ASSUME PersonOf[u] = PersonOf[t], Band(u) = Band(t) PROVE FALSE
    <3>1. orders[Band(t)].line[u] < orders[Band(t)].line[t]
      BY <1>1, <2>3, <2>5 DEF LinesInv, InArrivalOrder, Place, u
    <3>2. u # t /\ u \in (Eligible(busy) \cap RR!Queued(orders[Band(t)])) \ {t}
      BY <1>1, <2>2, <2>3, <2>4, <2>5 DEF LinesInv, LinesMatchOrders, IsInjective, Eligible, Queued, u
    <3>3. RR!Ahead(orders[Band(t)], t, u)
      BY <2>2, <3>2 DEF TaskIsNext, RR!IsNext
    <3>4. orders[Band(t)] \in RR!Orders /\ t \in Tasks /\ u \in Tasks /\ PersonOf[t] \in Persons
      BY <2>0, <2>2, <2>4, SelectionAssumption DEF Types, Queued, Bands
    <3>5. /\ orders[Band(t)].served[PersonOf[t]] \in Nat
          /\ orders[Band(t)].line[t] \in Nat /\ orders[Band(t)].line[u] \in Nat
      BY <3>4 DEF RR!Orders
    <3> QED
      BY <2>5, <3>1, <3>3, <3>5 DEF RR!Ahead
  <2> QED
    BY <2>3, <2>5 DEF u
<1>2. LinesInv /\ [Next]_vars =>
        [\A w \in Workers : Takes(w) =>
           LET t    == turn'[w]
               line == chatLine[SessionOf[t]]
           IN  \A i, j \in DOMAIN line :
                 i < j /\ line[j] = t =>
                     PersonOf[line[i]] # PersonOf[t] \/ Band(line[i]) # Band(t)]_vars
  BY <1>1
<1> QED
  BY <1>2, LinesInit, LinesNext, PTL DEF Spec, ChatTurnsInOrder

\* A task is only taken while every waiting one of a lower priority number waits
\* for a chat that is busy, under the plain policy (_select_locked).
THEOREM PriorityIsKept ==
  ASSUME Legacy
  PROVE  Spec => LowerPriorityFirst
<1>1. ASSUME Types, Next, NEW w \in Workers, Takes(w), NEW u \in Queued,
             PriorityOf[u] < PriorityOf[turn'[w]]
      PROVE  SessionOf[u] \in inflight' \ {SessionOf[turn'[w]]}
  <2>1. PICK busy, entries : Take(w, busy, entries)
    BY <1>1, TakingIsTake
  <2>2. PICK t \in Queued :
          /\ SessionOf[t] \notin busy
          /\ inflight' = busy \cup {SessionOf[t]}
          /\ turn' = [turn EXCEPT ![w] = t]
          /\ TaskIsNext(Eligible(busy), t)
    BY <1>1, <2>1, TakeIsOne
  <2>3. turn'[w] = t
    BY <1>1, <2>2 DEF Types
  <2>4. SUFFICES ASSUME SessionOf[u] \notin busy PROVE FALSE
    BY <2>2, <2>3
  <2>5. u \in Waiting(Eligible(busy), Band(u)) /\ Band(u) \in Bands
    BY <2>4 DEF Eligible, Waiting, Queued, Bands
  <2>6. Band(u)[1] = Band(t)[1] /\ Band(u)[2] = PriorityOf[u] /\ Band(t)[2] = PriorityOf[t]
    BY DEF Band
  <2>7. PriorityOf[t] <= PriorityOf[u]
    BY <2>2, <2>5, <2>6 DEF TaskIsNext, BandIsNext
  <2>8. PriorityOf[t] \in Nat /\ PriorityOf[u] \in Nat
    BY <2>2, SelectionAssumption DEF Queued
  <2> QED
    BY <1>1, <2>3, <2>7, <2>8
<1>2. Types /\ [Next]_vars =>
        [\A w \in Workers : Takes(w) =>
           \A u \in Queued :
               PriorityOf[u] < PriorityOf[turn'[w]] =>
                   SessionOf[u] \in inflight' \ {SessionOf[turn'[w]]}]_vars
  BY <1>1
<1> QED
  BY <1>2, InitTypes, StepTypes, PTL DEF Spec, LowerPriorityFirst

-----------------------------------------------------------------------------
(* The promise to the chats *)

\* What runs in a chat: the drain's summary, the turn of a worker, or nothing.
RunningIsKnown ==
    \A s \in Sessions :
        /\ s = claim => Running(s) = Summary
        /\ \A w \in Workers : turn[w] # NoTask /\ ChatOf(w) = s => Running(s) = turn[w]
        /\ s # claim /\ (\A w \in Workers : turn[w] # NoTask => ChatOf(w) # s)
               => Running(s) = NoTask

LEMMA KnownRunning == IInv => RunningIsKnown
<1> SUFFICES ASSUME IInv, NEW s \in Sessions
             PROVE  /\ s = claim => Running(s) = Summary
                    /\ \A w \in Workers : turn[w] # NoTask /\ ChatOf(w) = s => Running(s) = turn[w]
                    /\ s # claim /\ (\A w \in Workers : turn[w] # NoTask => ChatOf(w) # s)
                           => Running(s) = NoTask
  BY DEF RunningIsKnown
<1>1. ASSUME NEW w \in Workers, turn[w] # NoTask, ChatOf(w) = s
      PROVE  Running(s) = turn[w]
  <2>1. s # claim
    BY <1>1 DEF IInv, TurnsAreOwned, OneOwner, ChatOf
  <2>2. \A v \in Workers : turn[v] # NoTask /\ ChatOf(v) = s => v = w
    BY <1>1 DEF IInv, TurnsAreOwned, OneOwner, ChatOf
  <2> QED
    BY <1>1, <2>1, <2>2 DEF Running
<1> QED
  BY <1>1 DEF Running

\* A step that gives worker w the turn y, or takes its turn, in chat c.
LEMMA OneChatChanges ==
  ASSUME RunningIsKnown, RunningIsKnown', claim' = claim, turn \in [Workers -> Tasks \cup {NoTask}],
         NEW w \in Workers, NEW y, turn' = [turn EXCEPT ![w] = y],
         NEW c \in Sessions, c # claim,
         turn[w] # NoTask => ChatOf(w) = c,
         y # NoTask => SessionOf[y] = c,
         \A v \in Workers \ {w} : turn[v] # NoTask => ChatOf(v) # c
  PROVE  [s \in Sessions |-> Running(s)]' = [[s \in Sessions |-> Running(s)] EXCEPT ![c] = y]
<1>1. \A v \in Workers : turn'[v] = IF v = w THEN y ELSE turn[v]
  OBVIOUS
<1>2. \A v \in Workers : ChatOf(v)' = SessionOf[turn'[v]] /\ ChatOf(v) = SessionOf[turn[v]]
  BY DEF ChatOf
<1>3. ASSUME NEW s \in Sessions
      PROVE  Running(s)' = IF s = c THEN y ELSE Running(s)
  <2>1. CASE s = claim
    BY <2>1 DEF RunningIsKnown
  <2>2. CASE s # claim /\ \E v \in Workers : turn'[v] # NoTask /\ ChatOf(v)' = s
    <3>1. PICK v \in Workers : turn'[v] # NoTask /\ ChatOf(v)' = s
      BY <2>2
    <3>2. Running(s)' = turn'[v]
      BY <3>1 DEF RunningIsKnown
    <3>3. CASE v = w
      BY <1>1, <1>2, <3>1, <3>2, <3>3
    <3>4. CASE v # w
      <4>1. turn[v] # NoTask /\ ChatOf(v) = s /\ s # c
        BY <1>1, <1>2, <3>1, <3>4
      <4> QED
        BY <1>1, <3>2, <3>4, <4>1 DEF RunningIsKnown
    <3> QED
      BY <3>3, <3>4
  <2>3. CASE s # claim /\ \A v \in Workers : turn'[v] # NoTask => ChatOf(v)' # s
    <3>1. Running(s)' = NoTask
      BY <2>3 DEF RunningIsKnown
    <3>2. CASE s = c
      BY <1>1, <1>2, <2>3, <3>1, <3>2
    <3>3. CASE s # c
      <4>1. \A v \in Workers : turn[v] # NoTask => ChatOf(v) # s
        BY <1>1, <1>2, <2>3, <3>3
      <4> QED
        BY <2>3, <3>1, <3>3, <4>1 DEF RunningIsKnown
    <3> QED
      BY <3>2, <3>3
  <2> QED
    BY <2>1, <2>2, <2>3
<1> QED
  BY <1>3

\* Nothing changes for the chats when no turn and no claim does.
LEMMA SameRunning ==
  ASSUME UNCHANGED <<turn, claim>>
  PROVE  [s \in Sessions |-> Running(s)]' = [s \in Sessions |-> Running(s)]
  BY DEF Running, ChatOf

\* A get() that takes a task begins its turn in a chat where nothing runs.
LEMMA TakeBegins ==
  ASSUME IInv, RunningIsKnown, RunningIsKnown', NEW w \in Workers, turn[w] = NoTask,
         NEW busy, NEW entries, Take(w, busy, entries), claim' = claim,
         claim # NoSession => claim \in busy,
         \A v \in Workers : turn[v] # NoTask => ChatOf(v) \in busy
  PROVE  \E t \in Tasks : Promise!Begin(t)
<1>0. Types
  BY DEF IInv
<1>1. PICK t \in Queued :
        /\ SessionOf[t] \notin busy
        /\ Queued' = Queued \ {t}
        /\ turn' = [turn EXCEPT ![w] = t]
  BY <1>0, TakeIsOne
<1>2. t \in Tasks /\ SessionOf[t] \in Sessions /\ SessionOf[t] # claim
  BY <1>1, SelectionAssumption, TaskQueueAssumption DEF Queued
<1>3. \A v \in Workers : turn[v] # NoTask => ChatOf(v) # SessionOf[t]
  BY <1>1
<1>4. Running(SessionOf[t]) = NoTask
  BY <1>2, <1>3 DEF RunningIsKnown
<1>5. [s \in Sessions |-> Running(s)]' = [[s \in Sessions |-> Running(s)] EXCEPT ![SessionOf[t]] = t]
  BY <1>0, <1>1, <1>2, <1>3, OneChatChanges DEF Types
<1> QED
  BY <1>1, <1>2, <1>4, <1>5 DEF Promise!Begin

\* The end of worker w's turn ends what runs in its chat.
LEMMA TurnEnds ==
  ASSUME IInv, RunningIsKnown, RunningIsKnown', NEW w \in Workers, turn[w] # NoTask,
         turn' = [turn EXCEPT ![w] = NoTask], claim' = claim, Queued' = Queued
  PROVE  \E s \in Sessions : Promise!End(s)
<1> DEFINE c == ChatOf(w)
<1>0. turn \in [Workers -> Tasks \cup {NoTask}] /\ turn[w] \in Tasks
  BY DEF IInv, Types
<1>1. c \in Sessions /\ c # claim /\ \A v \in Workers \ {w} : turn[v] # NoTask => ChatOf(v) # c
  BY <1>0, SelectionAssumption DEF IInv, TurnsAreOwned, OneOwner, ChatOf
<1>2. Running(c) = turn[w]
  BY <1>1 DEF RunningIsKnown
<1>3. [s \in Sessions |-> Running(s)]' = [[s \in Sessions |-> Running(s)] EXCEPT ![c] = NoTask]
  BY <1>0, <1>1, OneChatChanges
<1> HIDE DEF c
<1> QED
  BY <1>1, <1>2, <1>3 DEF Promise!End

\* A change of the claim in chat c, from or to the summary that runs there.
LEMMA ClaimChanges ==
  ASSUME RunningIsKnown, RunningIsKnown', UNCHANGED turn,
         NEW c \in Sessions, \A v \in Workers : turn[v] # NoTask => ChatOf(v) # c,
         \/ claim \notin Sessions /\ claim' = c
         \/ claim = c /\ claim' \notin Sessions
  PROVE  [s \in Sessions |-> Running(s)]' =
             [[s \in Sessions |-> Running(s)] EXCEPT ![c] = IF claim' = c THEN Summary ELSE NoTask]
<1>1. \A v \in Workers : ChatOf(v)' = ChatOf(v)
  BY DEF ChatOf
<1>2. ASSUME NEW s \in Sessions
      PROVE  Running(s)' = IF s = c THEN IF claim' = c THEN Summary ELSE NoTask ELSE Running(s)
  <2>1. CASE s = c
    BY <1>1, <2>1 DEF RunningIsKnown
  <2>2. CASE s # c
    BY <1>1, <2>2 DEF RunningIsKnown
  <2> QED
    BY <2>1, <2>2
<1> QED
  BY <1>2

\* Every section of the queue is a step of the promise or none.
LEMMA StepKeepsPromise ==
  ASSUME LateStarters = {}, Careless = {}, IInv, RunningIsKnown, RunningIsKnown', [Next]_vars
  PROVE  [Promise!Next]_(Promise!vars)
<1> USE SelectionAssumption, TaskQueueAssumption
<1>0. Types /\ Phased /\ TurnsAreOwned /\ OneOwner
  BY DEF IInv
<1>a. turn \in [Workers -> Tasks \cup {NoTask}] /\ claim \in Sessions \cup {NoSession}
  BY <1>0 DEF Types
<1>b. \A v \in Workers : turn[v] # NoTask => ChatOf(v) \in inflight /\ ChatOf(v) # claim
  BY <1>0 DEF TurnsAreOwned, OneOwner, ChatOf
<1>1. ASSUME Queued' = Queued, UNCHANGED <<turn, claim>>
      PROVE  UNCHANGED Promise!vars
  BY <1>1, SameRunning DEF Promise!vars
<1>2. ASSUME NEW t \in Tasks, Add(t)
      PROVE  Promise!Submit(t)
  <2>1. Queued' = Queued \cup {t} /\ t \notin Queued /\ UNCHANGED <<turn, claim>>
    BY <1>0, <1>2, AddQueues DEF Add, Over
  <2>2. \A w \in Workers : turn[w] # t
    BY <1>2 DEF Add, Over
  <2>3. \A s \in Sessions : Running(s) # t
    BY <2>2 DEF Running
  <2> QED
    BY <2>1, <2>3, SameRunning DEF Promise!Submit
<1>3. ASSUME DropQueued
      PROVE  \E s \in Sessions : Promise!Withdraw(s)
  <2> DEFINE dropped == {t \in Queued : SessionOf[t] = pressing}
  <2>1. orders' = [b \in Bands |-> RR!Drop(orders[b], dropped)] /\ dropped \in SUBSET Tasks
    BY <1>3 DEF DropQueued, Queued
  <2>2. Queued' = Queued \ dropped
    <3> HIDE DEF dropped
    <3> QED
      BY <1>0, <2>1, DropsQueued DEF Types
  <2>3. Queued' = {t \in Queued : SessionOf[t] # pressing} /\ pressing \in Sessions
    BY <1>0, <1>3, <2>2 DEF DropQueued, Types
  <2>4. UNCHANGED <<turn, claim>>
    BY <1>3 DEF DropQueued
  <2> QED
    BY <2>3, <2>4, SameRunning DEF Promise!Withdraw
<1>4. ASSUME NEW w \in Workers, AskAndTake(w)
      PROVE  \E t \in Tasks : Promise!Begin(t)
  <2>1. phase[w] = "idle" /\ Take(w, FreedBy(w), Entries) /\ claim' = claim
    BY <1>4 DEF AskAndTake
  <2>2. turn[w] = NoTask
    BY <1>0, <2>1 DEF Phased, Turning
  <2>3. \A v \in Workers : turn[v] # NoTask => Entries[v] = turn[v] /\ turn[v] \in Tasks
    BY <1>0, <1>a, <2>1, AskFreesTheDead DEF Phased, Turning, TurnsAreOwned
  <2>4. \A v \in Workers : turn[v] # NoTask => ChatOf(v) \in FreedBy(w)
    BY <2>1, <2>3, AskFreesTheDead DEF ChatOf
  <2> QED
    BY <2>1, <2>2, <2>4, AskFreesTheDead, TakeBegins
<1>5. ASSUME NEW w \in Workers, WakeAndTake(w)
      PROVE  \E t \in Tasks : Promise!Begin(t)
  <2>1. phase[w] = "waiting" /\ Take(w, inflight, byWorker) /\ claim' = claim
    BY <1>5 DEF WakeAndTake
  <2>2. turn[w] = NoTask /\ (claim # NoSession => claim \in inflight)
    BY <1>0, <2>1 DEF Phased, Turning, OneOwner
  <2> QED
    BY <1>b, <2>1, <2>2, TakeBegins
<1>6. ASSUME NEW w \in Workers, Done(w) \/ Die(w)
      PROVE  \E s \in Sessions : Promise!End(s)
  <2>1. turn[w] # NoTask
    BY <1>0, <1>6 DEF Done, Die, Phased, Turning
  <2>2. turn' = [turn EXCEPT ![w] = NoTask] /\ claim' = claim /\ Queued' = Queued
    BY <1>6 DEF Done, Die, Queued
  <2> QED
    BY <2>1, <2>2, TurnEnds
<1>7. ASSUME NEW w \in Workers, NEW s \in Sessions, Claim(w, s)
      PROVE  Promise!Summarise(s)
  <2>1. claim = NoSession /\ claim' = s /\ UNCHANGED turn /\ Queued' = Queued /\ s \notin inflight
    BY <1>0, <1>7 DEF Claim, Phased, Summing, Queued
  <2>2. \A v \in Workers : turn[v] # NoTask => ChatOf(v) # s
    BY <1>b, <2>1
  <2>3. Running(s) = NoTask
    BY <2>1, <2>2 DEF RunningIsKnown
  <2>4. [c \in Sessions |-> Running(c)]' = [[c \in Sessions |-> Running(c)] EXCEPT ![s] = Summary]
    BY <2>1, <2>2, ClaimChanges
  <2> QED
    BY <2>1, <2>3, <2>4 DEF Promise!Summarise
<1>8. ASSUME NEW w \in Workers, ReleaseClaim(w), claim # NoSession
      PROVE  Promise!End(claim)
  <2> DEFINE c == claim
  <2>1. c \in Sessions /\ claim' = NoSession /\ UNCHANGED turn /\ Queued' = Queued
    BY <1>a, <1>8 DEF ReleaseClaim, Queued
  <2>2. Running(c) = Summary
    BY <2>1 DEF RunningIsKnown
  <2>3. [s \in Sessions |-> Running(s)]' = [[s \in Sessions |-> Running(s)] EXCEPT ![c] = NoTask]
    BY <1>b, <2>1, ClaimChanges
  <2> QED
    BY <2>1, <2>2, <2>3 DEF Promise!End
<1>9. ASSUME NEW w \in Workers, Work(w) \/ Miss(w) \/ Die(w)
      PROVE  \/ AskAndTake(w) \/ WakeAndTake(w) \/ Done(w) \/ Die(w)
             \/ \E s \in Sessions : Claim(w, s)
             \/ ReleaseClaim(w) /\ claim # NoSession
             \/ UNCHANGED <<orders, turn, claim>>
  BY <1>0, <1>9 DEF Work, Ask, Turn, DrainPass, AskAndWait, GiveUp, Skip, BeginChat, FailLoad, EndEarly,
     Halt, Finish, FailChat, Miss, Start, NoClaim, HandleResults, Summarise, ReleaseClaim, SameQueue, Phased
<1>10. UNCHANGED <<orders, turn, claim>> => UNCHANGED Promise!vars
  BY <1>1 DEF Queued
<1>11. (\E s \in Sessions : RequestStop(s)) \/ UNCHANGED vars => UNCHANGED <<orders, turn, claim>>
  BY DEF RequestStop, vars
<1> QED
  BY <1>a, <1>2, <1>3, <1>4, <1>5, <1>6, <1>7, <1>8, <1>9, <1>10, <1>11 DEF Next, Stop, Promise!Next

LEMMA InitKeepsPromise ==
  ASSUME LateStarters = {}, Init
  PROVE  Promise!Init
<1>1. IInv
  BY InitIInv
<1>2. Queued = {}
  <2>1. \A t \in Tasks : Band(t) \in Bands
    BY DEF Bands
  <2> QED
    BY <2>1, EmptyIsEmpty DEF Init, Queued
<1>3. \A s \in Sessions : Running(s) = NoTask
  BY SelectionAssumption, TaskQueueAssumption DEF Init, Running
<1> QED
  BY <1>2, <1>3 DEF Promise!Init

\* The queue implements ChatTurns: a turn begins at most once or is withdrawn,
\* and in one chat one thing runs at a time, when every worker is up and ends its
\* turns (add, get, task_done, try_claim_session, drop_queued_tasks_for_session).
THEOREM ImplementsChatTurns ==
  ASSUME LateStarters = {}, Careless = {}
  PROVE  Spec => KeepsPromise
<1>1. Init => Promise!Init
  BY InitKeepsPromise
<1>2. IInv => RunningIsKnown
  BY KnownRunning
<1>3. IInv /\ RunningIsKnown /\ RunningIsKnown' /\ [Next]_vars => [Promise!Next]_(Promise!vars)
  BY StepKeepsPromise
<1> QED
  BY <1>1, <1>2, <1>3, Invariance, PTL DEF Spec, KeepsPromise, Promise!Spec

-----------------------------------------------------------------------------
(* What waiting turns hear: the newest report *)

\* What the last place that concerns a turn is, and the batches that hold one.
Says(t) == IF fate[t] = "taken" /\ last[t] # NoPlace THEN 0 ELSE last[t]
Mine(t) == {b \in due : t \in DOMAIN b.reports}

\* The turn has heard it, or the newest batch that concerns it says it.
WillHear(t) ==
    \/ /\ heard[t] = Says(t)
       /\ \A b \in Mine(t) : b.seq <= delivered[t]
    \/ \E b \in Mine(t) : /\ b.seq > delivered[t] /\ b.reports[t] = Says(t)
                          /\ \A c \in Mine(t) : c.seq <= b.seq

ReportTypes ==
    /\ orders \in [Bands -> RR!Orders]
    /\ watch \in [Sessions -> Seq(Tasks)]
    /\ DOMAIN last = Tasks /\ DOMAIN heard = Tasks
    /\ delivered \in [Tasks -> Nat]
    /\ fate \in [Tasks -> {"new", "queued", "taken", "dropped"}]
    /\ seq \in Nat
    /\ \A b \in due : b.seq \in Nat /\ b.seq < seq
    /\ \A b, c \in due : b.seq = c.seq => b = c
    /\ \A t \in Tasks : delivered[t] < seq

\* A chat watches its watched turns that are queued.
WatchedWait ==
    /\ \A s \in Sessions : /\ IsInjective(watch[s])
                           /\ Range(watch[s]) = {t \in Watched : SessionOf[t] = s /\ fate[t] = "queued"}
    /\ \A t \in Tasks : t \in Queued <=> fate[t] = "queued"

ReportInv ==
    /\ ReportTypes /\ WatchedWait /\ Watched \subseteq Tasks
    /\ \A t \in Watched : fate[t] = "new" => last[t] = NoPlace /\ heard[t] = NoPlace /\ Mine(t) = {}
    /\ \A t \in Watched : fate[t] \in {"queued", "taken"} => WillHear(t)

\* What _recompute_locked does to the reports of the turns that wait: those of D are
\* in a new batch.
Recomputed(D, started) ==
    /\ DOMAIN last' = Tasks /\ seq' = seq + 1
    /\ \A t \in Tasks \ D : last'[t] = last[t]
    /\ \/ D \cup started = {} /\ due' = due
       \/ \E new : /\ due' = due \cup {new} /\ new.seq = seq
                   /\ DOMAIN new.reports = D \cup started
                   /\ \A t \in D : new.reports[t] = last'[t]
                   /\ \A t \in started \ D : new.reports[t] = 0

Reporting(watch_) == {Head(watch_[s]) : s \in {s \in Sessions : watch_[s] # <<>>}}

LEMMA RecomputeReports ==
  ASSUME ReportTypes, NEW o, NEW b, NEW watch_ \in [Sessions -> Seq(Tasks)], NEW sh, NEW touched,
         NEW started \in SUBSET Tasks,
         Recompute(o, b, watch_, sh, touched, started)
  PROVE  \E D \in SUBSET (Reporting(watch_) \cap Tasks) : Recomputed(D, started)
<1>1. PICK moves : /\ moves = Moves(o, b, watch_, sh, touched)
                   /\ last' = Overlaid(moves.places, last)
                   /\ seq' = seq + 1
                   /\ due' = LET reports == Overlaid(moves.places, [t \in started |-> 0])
                             IN  IF DOMAIN reports = {} THEN due
                                 ELSE due \cup {[seq |-> seq, reports |-> reports]}
  BY DEF Recompute
<1> DEFINE D == DOMAIN moves.places
           reports == Overlaid(moves.places, [t \in started |-> 0])
<1>2. D \subseteq Reporting(watch_)
  BY <1>1 DEF Moves, Heads, Reporting
<1>3. Reporting(watch_) \subseteq Tasks
  BY DEF Reporting
<1>4. /\ DOMAIN reports = D \cup started
      /\ \A t \in D : reports[t] = moves.places[t]
      /\ \A t \in started \ D : reports[t] = 0
  BY DEF Overlaid
<1>5. /\ DOMAIN last' = Tasks
      /\ \A t \in Tasks : last'[t] = IF t \in D THEN moves.places[t] ELSE last[t]
  BY <1>1, <1>2, <1>3 DEF Overlaid, ReportTypes
<1>6. \/ D \cup started = {} /\ due' = due
      \/ due' = due \cup {[seq |-> seq, reports |-> reports]}
  BY <1>1, <1>4
<1> HIDE DEF D, reports
<1>7. \A t \in D : reports[t] = last'[t]
  BY <1>2, <1>3, <1>4, <1>5
<1>8. \/ D \cup started = {} /\ due' = due
      \/ \E new : /\ due' = due \cup {new} /\ new.seq = seq
                  /\ DOMAIN new.reports = D \cup started
                  /\ \A t \in D : new.reports[t] = last'[t]
                  /\ \A t \in started \ D : new.reports[t] = 0
  <2> DEFINE new == [seq |-> seq, reports |-> reports]
  <2>1. new.seq = seq /\ new.reports = reports
    OBVIOUS
  <2> HIDE DEF new
  <2>2. CASE due' = due \cup {new}
    BY <1>4, <1>7, <2>1, <2>2
  <2> QED
    BY <1>6, <2>2 DEF new
<1>9. Recomputed(D, started)
  BY <1>1, <1>5, <1>8 DEF Recomputed
<1> QED
  BY <1>2, <1>3, <1>9

\* A new batch is the newest of those it concerns, and nothing changes for others.
LEMMA NewBatchSays ==
  ASSUME ReportTypes, NEW D \in SUBSET Tasks, NEW started \in SUBSET Tasks,
         Recomputed(D, started), heard' = heard, delivered' = delivered,
         NEW t \in Tasks,
         t \in D => fate'[t] = "queued",
         t \in started \ D => fate'[t] = "taken" /\ last[t] # NoPlace,
         t \notin D \cup started => WillHear(t) /\ Says(t)' = Says(t)
  PROVE  WillHear(t)'
<1>1. CASE t \notin D \cup started
  <2>1. Mine(t)' = Mine(t)
    BY <1>1 DEF Recomputed, Mine
  <2> QED
    BY <1>1, <2>1 DEF WillHear
<1>2. CASE t \in D \cup started
  <2>1. PICK new : /\ due' = due \cup {new} /\ new.seq = seq
                   /\ DOMAIN new.reports = D \cup started
                   /\ \A u \in D : new.reports[u] = last'[u]
                   /\ \A u \in started \ D : new.reports[u] = 0
    BY <1>2 DEF Recomputed
  <2>2. new.reports[t] = Says(t)'
    BY <1>2, <2>1 DEF Says, Recomputed
  <2>3. new \in Mine(t)' /\ \A c \in Mine(t)' : c.seq <= new.seq
    BY <1>2, <2>1 DEF Mine, ReportTypes
  <2>4. new.seq > delivered'[t]
    BY <2>1 DEF ReportTypes
  <2> QED
    BY <2>2, <2>3, <2>4 DEF WillHear
<1> QED
  BY <1>1, <1>2

\* The types of what _recompute_locked writes.
LEMMA RecomputeTypes ==
  ASSUME ReportTypes, NEW D \in SUBSET Tasks, NEW started \in SUBSET Tasks,
         Recomputed(D, started), delivered' = delivered
  PROVE  /\ DOMAIN last' = Tasks /\ seq' \in Nat
         /\ \A b \in due' : b.seq \in Nat /\ b.seq < seq'
         /\ \A b, c \in due' : b.seq = c.seq => b = c
         /\ \A t \in Tasks : delivered'[t] < seq'
<1>1. seq' = seq + 1 /\ seq \in Nat /\ DOMAIN last' = Tasks
  BY DEF Recomputed, ReportTypes
<1>2. PICK new : new.seq = seq /\ due' \subseteq due \cup {new}
  <2>1. CASE due' = due
    <3>1. [seq |-> seq].seq = seq
      OBVIOUS
    <3> QED
      BY <2>1, <3>1
  <2> QED
    BY <2>1 DEF Recomputed
<1> QED
  BY <1>1, <1>2 DEF ReportTypes

\* What add, get and a drop do to a turn that waits, or waited.
LEMMA ReportStep ==
  ASSUME ReportInv, NEW started \in SUBSET Tasks,
         orders' \in [Bands -> RR!Orders], watch' \in [Sessions -> Seq(Tasks)],
         fate' \in [Tasks -> {"new", "queued", "taken", "dropped"}],
         WatchedWait', heard' = heard, delivered' = delivered,
         \/ \E D \in SUBSET (Reporting(watch') \cap Tasks) : Recomputed(D, started)
         \/ last' = last /\ seq' = seq /\ due' = due /\ started = {},
         \A t \in started : fate'[t] = "taken" /\ last[t] # NoPlace,
         \A t \in Tasks \ started :
            \/ fate'[t] = fate[t]
            \/ fate[t] = "new" /\ fate'[t] = "queued"
            \/ fate[t] = "queued" /\ fate'[t] = "taken" /\ (t \in Watched => last[t] = NoPlace)
            \/ fate'[t] = "dropped"
  PROVE  ReportInv'
<1>0. ReportTypes /\ Watched \subseteq Tasks
  BY DEF ReportInv
<1>1. ASSUME NEW t \in Watched, fate'[t] \in {"queued", "taken"}, t \notin started
      PROVE  WillHear(t) /\ (last'[t] = last[t] => Says(t)' = Says(t))
  <2>1. CASE fate'[t] = fate[t]
    BY <1>1, <2>1 DEF ReportInv, Says
  <2>2. CASE fate[t] = "new" /\ fate'[t] = "queued"
    BY <2>2 DEF ReportInv, Says, WillHear
  <2>3. CASE fate[t] = "queued" /\ fate'[t] = "taken" /\ last[t] = NoPlace
    BY <1>1, <2>3 DEF ReportInv, Says
  <2> QED
    BY <1>0, <1>1, <2>1, <2>2, <2>3
<1>2. ASSUME NEW D \in SUBSET (Reporting(watch') \cap Tasks), Recomputed(D, started)
      PROVE  ReportInv'
  <2>1. ReportTypes'
    <3>1. /\ DOMAIN last' = Tasks /\ seq' \in Nat
          /\ \A b \in due' : b.seq \in Nat /\ b.seq < seq'
          /\ \A b, c \in due' : b.seq = c.seq => b = c
          /\ \A t \in Tasks : delivered'[t] < seq'
      BY <1>0, <1>2, RecomputeTypes
    <3> QED
      BY <1>0, <3>1 DEF ReportTypes
  <2>2. \A t \in D : t \in Tasks /\ fate'[t] = "queued"
    <3> TAKE t \in D
    <3>1. PICK s \in Sessions : watch'[s] # <<>> /\ t = Head(watch'[s])
      BY DEF Reporting
    <3>2. t \in Range(watch'[s])
      BY <3>1 DEF Range
    <3> QED
      BY <3>1, <3>2 DEF WatchedWait
  <2>3. ASSUME NEW t \in Watched, fate'[t] = "new"
        PROVE  last'[t] = NoPlace /\ heard'[t] = NoPlace /\ Mine(t)' = {}
    <3>1. t \notin D \cup started /\ fate[t] = "new"
      BY <1>0, <2>2, <2>3
    <3>2. last'[t] = last[t] /\ Mine(t)' = Mine(t)
      BY <1>0, <1>2, <3>1 DEF Recomputed, Mine
    <3> QED
      BY <3>1, <3>2 DEF ReportInv
  <2>4. ASSUME NEW t \in Watched, fate'[t] \in {"queued", "taken"}
        PROVE  WillHear(t)'
    <3>1. t \notin D \cup started => WillHear(t) /\ Says(t)' = Says(t)
      BY <1>0, <1>1, <1>2, <2>4 DEF Recomputed
    <3> QED
      BY <1>0, <1>2, <2>2, <3>1, NewBatchSays
  <2> QED
    BY <1>0, <2>1, <2>3, <2>4 DEF ReportInv
<1>3. CASE last' = last /\ seq' = seq /\ due' = due /\ started = {}
  <2>1. ReportTypes'
    BY <1>0, <1>3 DEF ReportTypes
  <2>2. ASSUME NEW t \in Watched PROVE Mine(t)' = Mine(t)
    BY <1>3 DEF Mine
  <2>3. ASSUME NEW t \in Watched, fate'[t] = "new"
        PROVE  last'[t] = NoPlace /\ heard'[t] = NoPlace /\ Mine(t)' = {}
    BY <1>3, <2>2, <2>3 DEF ReportInv
  <2>4. ASSUME NEW t \in Watched, fate'[t] \in {"queued", "taken"}
        PROVE  WillHear(t)'
    BY <1>1, <1>3, <2>2, <2>4 DEF WillHear
  <2> QED
    BY <1>0, <2>1, <2>3, <2>4 DEF ReportInv
<1> QED
  BY <1>2, <1>3

LEMMA ReportsAdd ==
  ASSUME ReportInv, NEW t \in Tasks, AddPlaces(t)
  PROVE  ReportInv'
<1> DEFINE s      == SessionOf[t]
           watch_ == IF t \in Watched THEN [watch EXCEPT ![s] = Append(@, t)] ELSE watch
<1>0. ReportTypes /\ WatchedWait /\ s \in Sessions
  BY SelectionAssumption DEF ReportInv
<1>1. /\ fate[t] = "new" /\ fate' = [fate EXCEPT ![t] = "queued"]
      /\ orders' = [orders EXCEPT ![Band(t)] = RR!Push(@, t)]
      /\ watch' = watch_ /\ delivered' = delivered /\ heard' = heard
  BY DEF AddPlaces
<1>2. orders' \in [Bands -> RR!Orders] /\ Queued' = Queued \cup {t}
  BY <1>0, <1>1, PushesOne DEF ReportTypes
<1>3. t \notin Range(watch[s])
  BY <1>0, <1>1 DEF WatchedWait
<1>4. watch' \in [Sessions -> Seq(Tasks)]
  BY <1>0, <1>1 DEF ReportTypes
<1>5. fate' \in [Tasks -> {"new", "queued", "taken", "dropped"}]
  BY <1>0, <1>1 DEF ReportTypes
<1>6. WatchedWait'
  <2>1. ASSUME NEW c \in Sessions
        PROVE  /\ IsInjective(watch'[c])
               /\ Range(watch'[c]) = {u \in Watched : SessionOf[u] = c /\ fate'[u] = "queued"}
    <3>1. CASE c = s /\ t \in Watched
      <4>1. watch'[c] = Append(watch[c], t)
        BY <1>0, <1>1, <3>1 DEF ReportTypes
      <4>2. IsInjective(watch'[c]) /\ Range(watch'[c]) = Range(watch[c]) \cup {t}
        <5>1. watch[c] \in Seq(Tasks) /\ IsInjective(watch[c]) /\ t \in Tasks \ Range(watch[c])
          BY <1>0, <1>3, <3>1 DEF ReportTypes, WatchedWait
        <5> QED
          BY <4>1, <5>1, JoinedLine
      <4> QED
        BY <1>0, <1>1, <3>1, <4>2 DEF ReportTypes, WatchedWait
    <3>2. CASE ~(c = s /\ t \in Watched)
      <4>1. watch'[c] = watch[c]
        BY <1>0, <1>1, <3>2 DEF ReportTypes
      <4> QED
        BY <1>0, <1>1, <3>2, <4>1 DEF ReportTypes, WatchedWait
    <3> QED
      BY <3>1, <3>2
  <2>2. \A u \in Tasks : u \in Queued' <=> fate'[u] = "queued"
    BY <1>0, <1>1, <1>2 DEF ReportTypes, WatchedWait
  <2> QED
    BY <2>1, <2>2 DEF WatchedWait
<1>7. \/ \E D \in SUBSET (Reporting(watch') \cap Tasks) : Recomputed(D, {})
      \/ last' = last /\ seq' = seq /\ due' = due /\ {} = {}
  <2>1. \/ last' = last /\ seq' = seq /\ due' = due
        \/ \E o, b, sh, touched : Recompute(o, b, watch_, sh, touched, {})
    BY DEF AddPlaces
  <2> HIDE DEF watch_
  <2> QED
    BY <1>0, <1>1, <1>4, <2>1, RecomputeReports
<1>8. \A u \in Tasks \ {} : \/ fate'[u] = fate[u]
                            \/ fate[u] = "new" /\ fate'[u] = "queued"
  BY <1>0, <1>1 DEF ReportTypes
<1>9. {} \in SUBSET Tasks
  OBVIOUS
<1> HIDE DEF s, watch_
<1> QED
  BY ONLY ReportInv, <1>1, <1>2, <1>4, <1>5, <1>6, <1>7, <1>8, <1>9, ReportStep

LEMMA ReportsTake ==
  ASSUME ReportInv, NEW E \in EligibleSets, NEW t \in E, TakePlaces(t, E)
  PROVE  ReportInv'
<1> DEFINE s       == SessionOf[t]
           watch_  == [watch EXCEPT ![s] = RemoveFirst(@, t)]
           started == IF t \in Watched /\ last[t] # NoPlace THEN {t} ELSE {}
<1>0. /\ ReportTypes /\ WatchedWait /\ Watched \subseteq Tasks
      /\ t \in Queued /\ t \in Tasks /\ s \in Sessions
  BY SelectionAssumption DEF ReportInv, EligibleSets, Queued
<1>1. /\ fate' = [fate EXCEPT ![t] = "taken"]
      /\ orders' = [orders EXCEPT ![Band(t)] = RR!Serve(@, t)]
      /\ watch' = watch_ /\ delivered' = delivered /\ heard' = heard
  BY <1>0 DEF TakePlaces
<1>2. orders' \in [Bands -> RR!Orders] /\ Queued' = Queued \ {t}
  BY <1>0, <1>1, ServesOne DEF ReportTypes
<1>3. fate[t] = "queued" /\ (t \in Range(watch[s]) <=> t \in Watched)
  BY <1>0 DEF WatchedWait
<1>4. /\ watch'[s] \in Seq(Tasks) /\ IsInjective(watch'[s])
      /\ Range(watch'[s]) = Range(watch[s]) \ {t}
  <2> DEFINE r == RemoveFirst(watch[s], t)
  <2>1. watch'[s] = r
    BY <1>0, <1>1 DEF ReportTypes
  <2>2. watch[s] \in Seq(Tasks) /\ IsInjective(watch[s])
    BY <1>0 DEF ReportTypes, WatchedWait
  <2>3. CASE t \in Range(watch[s])
    BY <2>1, <2>2, <2>3, LeftLine
  <2>4. CASE t \notin Range(watch[s])
    <3>1. r = watch[s]
      BY <2>2, <2>4 DEF RemoveFirst, Range
    <3> QED
      BY <2>1, <2>2, <2>4, <3>1
  <2> QED
    BY <2>3, <2>4
<1>5. watch' \in [Sessions -> Seq(Tasks)] /\ \A c \in Sessions \ {s} : watch'[c] = watch[c]
  BY <1>0, <1>1, <1>4 DEF ReportTypes
<1>6. /\ fate' \in [Tasks -> {"new", "queued", "taken", "dropped"}]
      /\ \A u \in Tasks : fate'[u] = IF u = t THEN "taken" ELSE fate[u]
  BY <1>0, <1>1 DEF ReportTypes
<1> HIDE DEF s, watch_
<1>7. WatchedWait'
  <2>1. ASSUME NEW c \in Sessions
        PROVE  /\ IsInjective(watch'[c])
               /\ Range(watch'[c]) = {u \in Watched : SessionOf[u] = c /\ fate'[u] = "queued"}
    <3>1. CASE c = s
      BY <1>0, <1>4, <1>6, <3>1 DEF WatchedWait
    <3>2. CASE c # s
      <4>1. \A u \in Watched : SessionOf[u] = c => fate'[u] = fate[u]
        BY <1>0, <1>6, <3>2 DEF s
      <4> QED
        <5>1. watch'[c] = watch[c]
          BY <1>5, <3>2
        <5>2. {u \in Watched : SessionOf[u] = c /\ fate'[u] = "queued"}
                  = {u \in Watched : SessionOf[u] = c /\ fate[u] = "queued"}
          BY <4>1
        <5> QED
          BY <1>0, <5>1, <5>2 DEF WatchedWait
    <3> QED
      BY <3>1, <3>2
  <2>2. \A u \in Tasks : u \in Queued' <=> fate'[u] = "queued"
    BY <1>0, <1>2, <1>6 DEF WatchedWait
  <2> QED
    BY <2>1, <2>2 DEF WatchedWait
<1>8. \/ \E D \in SUBSET (Reporting(watch') \cap Tasks) : Recomputed(D, started)
      \/ last' = last /\ seq' = seq /\ due' = due /\ started = {}
  <2>1. \/ /\ last' = last /\ seq' = seq /\ due' = due
           /\ \A c \in Sessions : watch[c] = <<>>
        \/ \E o, b, sh, touched : Recompute(o, b, watch', sh, touched, started)
    BY <1>1 DEF TakePlaces, Heads, watch_, s
  <2>2. (\A c \in Sessions : watch[c] = <<>>) => started = {}
    BY <1>0, <1>3 DEF Range
  <2>3. started \in SUBSET Tasks
    BY <1>0
  <2> HIDE DEF started
  <2> QED
    BY <1>0, <1>5, <2>1, <2>2, <2>3, RecomputeReports
<1>9. /\ started \in SUBSET Tasks
      /\ \A u \in started : fate'[u] = "taken" /\ last[u] # NoPlace
      /\ \A u \in Tasks \ started :
            \/ fate'[u] = fate[u]
            \/ fate[u] = "queued" /\ fate'[u] = "taken" /\ (u \in Watched => last[u] = NoPlace)
  BY <1>0, <1>3, <1>6
<1> HIDE DEF started
<1> QED
  BY ONLY ReportInv, <1>1, <1>2, <1>5, <1>6, <1>7, <1>8, <1>9, ReportStep

LEMMA ReportsDrop ==
  ASSUME ReportInv, NEW s \in Sessions, DropPlaces(s)
  PROVE  ReportInv'
<1> DEFINE dropped == {t \in Queued : SessionOf[t] = s}
<1>0. /\ ReportTypes /\ WatchedWait /\ Watched \subseteq Tasks
      /\ dropped \in SUBSET Tasks
  BY DEF ReportInv, Queued
<1>1. /\ fate' = [t \in Tasks |-> IF t \in dropped THEN "dropped" ELSE fate[t]]
      /\ orders' = [b \in Bands |-> RR!Drop(orders[b], dropped)]
      /\ watch' = [watch EXCEPT ![s] = <<>>] /\ delivered' = delivered /\ heard' = heard
  BY DEF DropPlaces
<1>2. orders' \in [Bands -> RR!Orders] /\ Queued' = Queued \ dropped
  <2> HIDE DEF dropped
  <2> QED
    BY <1>0, <1>1, DropsQueued DEF ReportTypes
<1>3. /\ watch' \in [Sessions -> Seq(Tasks)] /\ watch'[s] = <<>>
      /\ \A c \in Sessions \ {s} : watch'[c] = watch[c]
  BY <1>0, <1>1 DEF ReportTypes
<1>4. /\ fate' \in [Tasks -> {"new", "queued", "taken", "dropped"}]
      /\ \A t \in Tasks : fate'[t] = IF t \in dropped THEN "dropped" ELSE fate[t]
  BY <1>0, <1>1 DEF ReportTypes
<1>5. WatchedWait'
  <2>1. ASSUME NEW c \in Sessions
        PROVE  /\ IsInjective(watch'[c])
               /\ Range(watch'[c]) = {t \in Watched : SessionOf[t] = c /\ fate'[t] = "queued"}
    <3>1. CASE c = s
      <4>1. IsInjective(watch'[c]) /\ Range(watch'[c]) = {}
        BY <1>3, <3>1 DEF IsInjective, Range
      <4>2. \A t \in Watched : ~(SessionOf[t] = c /\ fate'[t] = "queued")
        BY <1>0, <1>4, <3>1 DEF WatchedWait
      <4> QED
        BY <4>1, <4>2
    <3>2. CASE c # s
      BY <1>0, <1>3, <1>4, <3>2 DEF WatchedWait
    <3> QED
      BY <3>1, <3>2
  <2>2. \A t \in Tasks : t \in Queued' <=> fate'[t] = "queued"
    BY <1>0, <1>2, <1>4 DEF WatchedWait
  <2> QED
    BY <2>1, <2>2 DEF WatchedWait
<1>6. {} \in SUBSET Tasks
  OBVIOUS
<1>7. \E D \in SUBSET (Reporting(watch') \cap Tasks) : Recomputed(D, {})
  <2>1. \E o, b, sh, touched : Recompute(o, b, watch', sh, touched, {})
    BY <1>1 DEF DropPlaces
  <2> QED
    BY <1>0, <1>3, <1>6, <2>1, RecomputeReports
<1>8. \A t \in Tasks \ {} : fate'[t] = fate[t] \/ fate'[t] = "dropped"
  BY <1>4
<1> HIDE DEF dropped
<1> QED
  BY ONLY ReportInv, <1>1, <1>2, <1>3, <1>4, <1>5, <1>6, <1>7, <1>8, ReportStep

\* A batch is delivered: what is older than what its turn has heard changes nothing.
LEMMA ReportsDeliver ==
  ASSUME ReportInv, NEW batch \in due, Deliver(batch)
  PROVE  ReportInv'
<1> DEFINE fresh == {t \in DOMAIN batch.reports : batch.seq > delivered[t]}
<1>0. ReportTypes /\ WatchedWait /\ Watched \subseteq Tasks
  BY DEF ReportInv
<1>1. /\ due' = due \ {batch}
      /\ delivered' = [t \in Tasks |-> IF t \in fresh THEN batch.seq ELSE delivered[t]]
      /\ heard' = [t \in Tasks |-> IF t \in fresh THEN batch.reports[t] ELSE heard[t]]
      /\ orders' = orders /\ watch' = watch /\ last' = last /\ seq' = seq /\ fate' = fate
  BY DEF Deliver, FreshOf
<1>2. ReportTypes'
  BY <1>0, <1>1 DEF ReportTypes
<1>3. WatchedWait'
  BY <1>0, <1>1 DEF WatchedWait, Queued
<1>4. ASSUME NEW t \in Watched
      PROVE  Mine(t)' = Mine(t) \ {batch} /\ Says(t)' = Says(t) /\ t \in Tasks
  BY <1>0, <1>1 DEF Mine, Says
<1>5. ASSUME NEW t \in Watched, fate[t] = "new"
      PROVE  last'[t] = NoPlace /\ heard'[t] = NoPlace /\ Mine(t)' = {}
  <2>1. t \notin DOMAIN batch.reports
    BY <1>5 DEF ReportInv, Mine
  <2> QED
    BY <1>1, <1>4, <1>5, <2>1 DEF ReportInv
<1>6. ASSUME NEW t \in Watched, WillHear(t)
      PROVE  WillHear(t)'
  <2>1. CASE batch \notin Mine(t)
    <3>1. Mine(t)' = Mine(t) /\ heard'[t] = heard[t] /\ delivered'[t] = delivered[t]
      BY <1>1, <1>4, <2>1 DEF Mine
    <3> QED
      BY <1>4, <1>6, <3>1 DEF WillHear
  <2>2. CASE batch \in Mine(t) /\ t \notin fresh
    <3>1. heard'[t] = heard[t] /\ delivered'[t] = delivered[t]
      BY <1>1, <1>4, <2>2
    <3>2. ~(batch.seq > delivered[t])
      BY <2>2 DEF Mine
    <3> QED
      BY <1>4, <1>6, <3>1, <3>2 DEF WillHear
  <2>3. CASE batch \in Mine(t) /\ t \in fresh
    <3>1. /\ heard'[t] = batch.reports[t] /\ delivered'[t] = batch.seq
          /\ batch.seq > delivered[t]
      BY <1>1, <1>4, <2>3
    <3>2. PICK b \in Mine(t) : /\ b.seq > delivered[t] /\ b.reports[t] = Says(t)
                               /\ \A c \in Mine(t) : c.seq <= b.seq
      BY <1>0, <1>4, <1>6, <2>3, <3>1 DEF WillHear, ReportTypes
    <3>3. \A c \in Mine(t) : c \in due /\ c.seq \in Nat
      BY <1>0 DEF Mine, ReportTypes
    <3>4. CASE b = batch
      BY <1>4, <3>1, <3>2, <3>4 DEF WillHear
    <3>5. CASE b # batch
      <4>1. b.seq > batch.seq
        BY <1>0, <2>3, <3>2, <3>3, <3>5 DEF ReportTypes
      <4> QED
        BY <1>4, <3>1, <3>2, <3>5, <4>1 DEF WillHear
    <3> QED
      BY <3>4, <3>5
  <2> QED
    BY <2>1, <2>2, <2>3
<1> QED
  BY <1>0, <1>1, <1>2, <1>3, <1>5, <1>6 DEF ReportInv

LEMMA ReportInit ==
  ASSUME Watched \subseteq Tasks, PlacesInit
  PROVE  ReportInv
<1>1. /\ orders = [b \in Bands |-> RR!EmptyOrder]
      /\ watch = [s \in Sessions |-> <<>>]
      /\ seq = 1 /\ due = {}
      /\ last = [t \in Tasks |-> NoPlace] /\ heard = [t \in Tasks |-> NoPlace]
      /\ delivered = [t \in Tasks |-> 0] /\ fate = [t \in Tasks |-> "new"]
  BY DEF PlacesInit, RR!EmptyOrder, RR!EmptyOrder
<1>2. orders \in [Bands -> RR!Orders] /\ Queued = {}
  <2>1. \A t \in Tasks : Band(t) \in Bands
    BY DEF Bands
  <2> QED
    BY <1>1, <2>1, EmptyIsEmpty DEF Queued
<1>3. ReportTypes
  BY <1>1, <1>2 DEF ReportTypes
<1>4. WatchedWait
  <2>1. \A s \in Sessions : watch[s] = <<>>
    BY <1>1
  <2>2. IsInjective(<<>>) /\ Range(<<>>) = {}
    BY DEF IsInjective, Range
  <2>3. \A t \in Tasks : fate[t] # "queued"
    BY <1>1
  <2> QED
    BY <1>2, <2>1, <2>2, <2>3 DEF WatchedWait
<1> QED
  BY <1>1, <1>3, <1>4 DEF ReportInv, Mine

LEMMA ReportNext == ReportInv /\ [PlacesNext]_(placesVars) => ReportInv'
<1> SUFFICES ASSUME ReportInv, [PlacesNext]_(placesVars) PROVE ReportInv'
  OBVIOUS
<1>1. CASE PlacesNext
  BY <1>1, ReportsAdd, ReportsTake, ReportsDrop, ReportsDeliver DEF PlacesNext
<1>2. CASE UNCHANGED placesVars
  BY <1>2 DEF placesVars, ReportInv, ReportTypes, WatchedWait, Queued, Mine, Says, WillHear
<1> QED
  BY <1>1, <1>2

\* Once the last batch that concerns a watched turn is delivered, what it has heard
\* is its last place, or 0 if a worker took it, in whatever order the threads
\* delivered their batches (_deliver).
THEOREM OldPlacesGo == PlacesSpec => []NoOldPlaceStays
<1>1. Watched \subseteq Tasks
  BY PlaceReportsAssumption DEF PlaceReportsAssumption
<1>2. ReportInv => NoOldPlaceStays
  <2> SUFFICES ASSUME ReportInv, NEW t \in Watched, fate[t] \in {"queued", "taken"},
                      \A batch \in due : t \notin DOMAIN batch.reports
               PROVE  heard[t] = Says(t)
    BY DEF NoOldPlaceStays, Says
  <2>1. WillHear(t) /\ Mine(t) = {}
    BY DEF ReportInv, Mine
  <2> QED
    BY <2>1 DEF WillHear
<1> QED
  BY <1>1, <1>2, ReportInit, ReportNext, PTL DEF PlacesSpec

-----------------------------------------------------------------------------
(* Orders whose places are all different *)

\* A set of numbers has a least one.
LEMMA LeastOf ==
  ASSUME NEW S \in SUBSET Nat, S # {}
  PROVE  \E n \in S : \A m \in S : n <= m
<1>1. PICK n \in S : \A m \in S : ~(<<m, n>> \in OpToRel(<, Nat))
  BY WFMin, NatLessThanWellFounded
<1>2. \A m \in S : ~(m < n)
  BY <1>1 DEF OpToRel
<1> QED
  BY <1>2

\* The waiting tasks have different places, and no stamp is above the number of people.
Sound(o) ==
    /\ o \in RR!Orders /\ Compact(o)
    /\ \A i, j \in RR!Queued(o) : o.line[i] = o.line[j] => i = j
    /\ \A p \in Persons : o.served[p] <= Cardinality(Persons)

\* Ranks compare as the numbers they replace, and none is above how many there are.
LEMMA RanksCompare ==
  ASSUME NEW D, IsFiniteSet(D), NEW f \in [D -> Nat]
  PROVE  /\ RR!Ranks(f) \in [D -> Nat]
         /\ \A x \in D : /\ RR!Ranks(f)[x] > 0 <=> f[x] > 0
                         /\ RR!Ranks(f)[x] <= Cardinality(D)
         /\ \A x, y \in D : RR!Ranks(f)[x] < RR!Ranks(f)[y] <=> f[x] < f[y]
<1> DEFINE Below(x) == {y \in D : f[y] > 0 /\ f[y] <= f[x]}
           r == RR!Ranks(f)
<1>1. \A x \in D : /\ Below(x) \in SUBSET D
                   /\ Cardinality(Below(x)) \in Nat /\ Cardinality(Below(x)) <= Cardinality(D)
                   /\ f[x] > 0 => Cardinality(Below(x)) > 0
  <2> TAKE x \in D
  <2>1. Below(x) \in SUBSET D /\ D \in SUBSET D
    OBVIOUS
  <2>2. /\ Cardinality(D) \in Nat
        /\ \A T \in SUBSET D : T = D \/ Cardinality(T) < Cardinality(D)
    BY <2>1, FiniteCounts
  <2>3. Cardinality(Below(x)) \in Nat /\ (Below(x) # {} => Cardinality(Below(x)) > 0)
    BY <2>1, FiniteCounts
  <2>4. f[x] > 0 => x \in Below(x)
    OBVIOUS
  <2> HIDE DEF Below
  <2>5. Cardinality(Below(x)) <= Cardinality(D)
    BY <2>1, <2>2, <2>3
  <2> QED
    BY <2>1, <2>3, <2>4, <2>5
<1>2. r = [x \in D |-> IF f[x] = 0 THEN 0 ELSE Cardinality(Below(x))]
  BY SameCardinality DEF RR!Ranks
<1>3. \A x, y \in D : 0 < f[x] /\ f[x] < f[y] => Cardinality(Below(x)) < Cardinality(Below(y))
  <2> TAKE x, y \in D
  <2> HAVE 0 < f[x] /\ f[x] < f[y]
  <2>1. Below(x) \in SUBSET Below(y) /\ Below(y) \in SUBSET D /\ Below(x) # Below(y)
    <3>1. y \in Below(y) /\ y \notin Below(x)
      OBVIOUS
    <3>2. \A z \in Below(x) : z \in Below(y)
      OBVIOUS
    <3> QED
      BY <3>1, <3>2
  <2> HIDE DEF Below
  <2> QED
    BY <2>1, FiniteCounts
<1>4. \A x, y \in D : f[x] = f[y] => Below(x) = Below(y)
  OBVIOUS
<1> DEFINE c == [x \in D |-> Cardinality(Below(x))]
<1>5. \A x \in D : c[x] \in Nat /\ c[x] <= Cardinality(D) /\ (f[x] > 0 => c[x] > 0)
  BY <1>1
<1>6. \A x, y \in D : /\ 0 < f[x] /\ f[x] < f[y] => c[x] < c[y]
                      /\ f[x] = f[y] => c[x] = c[y]
  BY <1>3, <1>4
<1>7. r = [x \in D |-> IF f[x] = 0 THEN 0 ELSE c[x]]
  BY <1>2
<1>8. Cardinality(D) \in Nat
  BY FS_CardinalityType
<1> HIDE DEF c, r, Below
<1>9. /\ r \in [D -> Nat]
      /\ \A x \in D : (r[x] > 0 <=> f[x] > 0) /\ r[x] <= Cardinality(D)
  BY <1>5, <1>7, <1>8
<1>10. ASSUME NEW x \in D, NEW y \in D PROVE r[x] < r[y] <=> f[x] < f[y]
  <2>1. f[x] \in Nat /\ f[y] \in Nat /\ c[x] \in Nat /\ c[y] \in Nat
    BY <1>5
  <2>2. f[x] < f[y] => r[x] < r[y]
    BY <1>5, <1>6, <1>7, <2>1
  <2>3. f[y] < f[x] => r[y] < r[x]
    BY <1>5, <1>6, <1>7, <2>1
  <2>4. f[x] = f[y] => r[x] = r[y]
    BY <1>6, <1>7
  <2>5. r[x] \in Nat /\ r[y] \in Nat
    BY <1>9
  <2> QED
    BY <2>1, <2>2, <2>3, <2>4, <2>5
<1> QED
  BY <1>9, <1>10 DEF r

\* An order without anybody, and one that somebody joins.
LEMMA EmptyIsSound == Sound(RR!EmptyOrder)
<1>1. RR!EmptyOrder \in RR!Orders /\ RR!Queued(RR!EmptyOrder) = {}
  BY EmptyIsEmpty
<1>2. Cardinality(Persons) \in Nat
  BY FS_CardinalityType, SelectionAssumption
<1>3. \A i \in Tasks : RR!EmptyOrder.line[i] = 0
  BY DEF RR!EmptyOrder
<1>4. \A p \in Persons : RR!EmptyOrder.served[p] = 0
  BY DEF RR!EmptyOrder
<1>5. RR!Cardinality(RR!Queued(RR!EmptyOrder)) \in Nat
  BY <1>1, OrdersCount DEF Countable
<1> QED
  BY <1>1, <1>2, <1>3, <1>4, <1>5 DEF Sound, Compact

LEMMA PushIsSound ==
  ASSUME NEW o, Sound(o), NEW t \in Tasks \ RR!Queued(o)
  PROVE  /\ Sound(RR!Push(o, t))
         /\ RR!Queued(RR!Push(o, t)) = RR!Queued(o) \cup {t}
<1>1. o \in RR!Orders /\ Compact(o)
  BY DEF Sound
<1> DEFINE n == RR!Push(o, t)
<1>2. n \in RR!Orders /\ RR!Queued(n) = RR!Queued(o) \cup {t}
  BY <1>1, PushQueues
<1>3. /\ Compact(n)
      /\ \A j \in RR!Queued(o) : n.line[j] = o.line[j] /\ o.line[j] < n.line[t]
  BY <1>1, PushGoesLast
<1>4. n.served = o.served
  BY <1>1 DEF RR!Push, RR!Orders
<1>5. \A j \in RR!Queued(o) : o.line[j] \in Nat
  BY <1>1 DEF RR!Queued, RR!Orders
<1> HIDE DEF n
<1>6. \A i, j \in RR!Queued(n) : n.line[i] = n.line[j] => i = j
  <2> TAKE i, j \in RR!Queued(n)
  <2>1. n.line[t] \in Nat
    BY <1>2 DEF RR!Orders
  <2> QED
    BY <1>2, <1>3, <1>5, <2>1 DEF Sound
<1> QED
  BY <1>2, <1>3, <1>4, <1>6 DEF Sound, n

\* Those who stay after a drop keep their order, and the stamps are kept while somebody stays.
LEMMA DropIsSound ==
  ASSUME NEW o, Sound(o), NEW S \in SUBSET Tasks
  PROVE  /\ Sound(RR!Drop(o, S))
         /\ RR!Queued(RR!Drop(o, S)) = RR!Queued(o) \ S
         /\ \A i, j \in RR!Queued(o) \ S :
               RR!Drop(o, S).line[i] < RR!Drop(o, S).line[j] <=> o.line[i] < o.line[j]
         /\ RR!Queued(o) \ S # {} => RR!Drop(o, S).served = o.served
<1>1. o \in RR!Orders /\ Compact(o)
  BY DEF Sound
<1> DEFINE n == RR!Drop(o, S)
<1>2. n \in RR!Orders /\ RR!Queued(n) = RR!Queued(o) \ S
  BY <1>1, DropUnqueues
<1>3. Compact(n)
  BY <1>1, DropKeepsOrder
<1>4. CASE S \cap RR!Queued(o) = {}
  BY <1>1, <1>2, <1>4 DEF RR!Drop
<1>5. CASE S \cap RR!Queued(o) # {}
  <2> DEFINE line == [i \in Tasks |-> IF i \in S THEN 0 ELSE o.line[i]]
  <2>1. line \in [Tasks -> Nat]
    BY <1>1 DEF RR!Orders
  <2>2. n = [line |-> RR!Ranks(line), served |-> RR!Forgetting(line, o.served)]
    BY <1>5 DEF RR!Drop
  <2>3. \A i \in RR!Queued(o) \ S : i \in Tasks /\ line[i] = o.line[i] /\ line[i] > 0
    BY DEF RR!Queued
  <2>4. n.line = RR!Ranks(line) /\ n.served = RR!Forgetting(line, o.served)
    BY <2>2
  <2> HIDE DEF line, n
  <2>5. \A i, j \in Tasks : RR!Ranks(line)[i] < RR!Ranks(line)[j] <=> line[i] < line[j]
    BY <2>1, RanksCompare, SelectionAssumption
  <2>6. \A i, j \in RR!Queued(o) \ S : n.line[i] < n.line[j] <=> o.line[i] < o.line[j]
    BY <2>3, <2>4, <2>5
  <2>7. RR!Queued(o) \ S # {} => n.served = o.served
    BY <2>3, <2>4 DEF RR!Forgetting
  <2>8. \A p \in Persons : n.served[p] <= Cardinality(Persons)
    <3>1. Cardinality(Persons) \in Nat
      BY FS_CardinalityType, SelectionAssumption
    <3> QED
      BY <2>4, <3>1 DEF RR!Forgetting, Sound
  <2>9. \A i, j \in RR!Queued(n) : n.line[i] = n.line[j] => i = j
    <3> TAKE i, j \in RR!Queued(n)
    <3>1. n.line[i] \in Nat /\ n.line[j] \in Nat /\ o.line[i] \in Nat /\ o.line[j] \in Nat
      BY <1>1, <1>2 DEF RR!Orders, RR!Queued
    <3> QED
      BY <1>2, <2>6, <3>1 DEF Sound
  <2> QED
    BY <1>2, <1>3, <2>6, <2>7, <2>8, <2>9 DEF Sound, n
<1> QED
  BY <1>4, <1>5

\* Those who stay after a service keep their order, and while somebody stays the served
\* task's person comes after every other.
LEMMA ServeIsSound ==
  ASSUME NEW o, Sound(o), NEW t \in RR!Queued(o)
  PROVE  /\ Sound(RR!Serve(o, t))
         /\ RR!Queued(RR!Serve(o, t)) = RR!Queued(o) \ {t}
         /\ \A i, j \in RR!Queued(o) \ {t} :
               RR!Serve(o, t).line[i] < RR!Serve(o, t).line[j] <=> o.line[i] < o.line[j]
         /\ RR!Queued(o) \ {t} # {} =>
               \A p, q \in Persons :
                  RR!Serve(o, t).served[p] < RR!Serve(o, t).served[q]
                    <=> p # PersonOf[t] /\ (q = PersonOf[t] \/ o.served[p] < o.served[q])
<1>1. o \in RR!Orders /\ Compact(o) /\ t \in Tasks
  BY DEF Sound, RR!Queued
<1> DEFINE n == RR!Serve(o, t)
           line == [o.line EXCEPT ![t] = 0]
           top == RR!Cardinality(Persons) + 1
           served == [o.served EXCEPT ![PersonOf[t]] = top]
<1>2. n \in RR!Orders /\ RR!Queued(n) = RR!Queued(o) \ {t}
  BY <1>1, ServeUnqueues
<1>3. Compact(n)
  BY <1>1, ServeKeepsOrder
<1>4. n = [line |-> RR!Ranks(line), served |-> RR!Forgetting(line, RR!Ranks(served))]
  BY DEF RR!Serve
<1>5. n.line = RR!Ranks(line) /\ n.served = RR!Forgetting(line, RR!Ranks(served))
  BY <1>4
<1>6. line \in [Tasks -> Nat] /\ \A i \in RR!Queued(o) \ {t} : i \in Tasks /\ line[i] = o.line[i] /\ line[i] > 0
  BY <1>1 DEF RR!Orders, RR!Queued
<1>7. top \in Nat /\ top = Cardinality(Persons) + 1 /\ Cardinality(Persons) \in Nat
  BY SameCardinality, FS_CardinalityType, SelectionAssumption
<1> HIDE DEF line, n, top
<1>8. served \in [Persons -> Nat] /\ PersonOf[t] \in Persons
  BY <1>1, <1>7, SelectionAssumption DEF RR!Orders
<1>9. \A p \in Persons : served[p] = IF p = PersonOf[t] THEN top ELSE o.served[p]
  BY <1>1 DEF RR!Orders
<1> HIDE DEF served
<1>10. \A i, j \in Tasks : RR!Ranks(line)[i] < RR!Ranks(line)[j] <=> line[i] < line[j]
  BY <1>6, RanksCompare, SelectionAssumption
<1>11. /\ \A p \in Persons : RR!Ranks(served)[p] <= Cardinality(Persons)
       /\ \A p, q \in Persons : RR!Ranks(served)[p] < RR!Ranks(served)[q] <=> served[p] < served[q]
  BY <1>8, RanksCompare, SelectionAssumption
<1>12. \A i, j \in RR!Queued(o) \ {t} : n.line[i] < n.line[j] <=> o.line[i] < o.line[j]
  BY <1>5, <1>6, <1>10
<1>13. \A i, j \in RR!Queued(n) : n.line[i] = n.line[j] => i = j
  <2> TAKE i, j \in RR!Queued(n)
  <2>1. n.line[i] \in Nat /\ n.line[j] \in Nat /\ o.line[i] \in Nat /\ o.line[j] \in Nat
    BY <1>1, <1>2 DEF RR!Orders, RR!Queued
  <2> QED
    BY <1>2, <1>12, <2>1 DEF Sound
<1>14. \A p \in Persons : n.served[p] <= Cardinality(Persons)
  BY <1>5, <1>7, <1>11 DEF RR!Forgetting
<1>15. ASSUME RR!Queued(o) \ {t} # {}, NEW p \in Persons, NEW q \in Persons
       PROVE  n.served[p] < n.served[q]
                <=> p # PersonOf[t] /\ (q = PersonOf[t] \/ o.served[p] < o.served[q])
  <2>1. n.served = RR!Ranks(served)
    BY <1>5, <1>6, <1>15 DEF RR!Forgetting
  <2>2. /\ o.served[p] \in Nat /\ o.served[p] < top
        /\ o.served[q] \in Nat /\ o.served[q] < top
    BY <1>1, <1>7 DEF Sound, RR!Orders
  <2>3. n.served[p] < n.served[q] <=> served[p] < served[q]
    BY <1>11, <2>1
  <2>4. CASE p = PersonOf[t]
    BY <1>7, <1>9, <2>2, <2>3, <2>4
  <2>5. CASE p # PersonOf[t] /\ q = PersonOf[t]
    BY <1>7, <1>9, <2>2, <2>3, <2>5
  <2>6. CASE p # PersonOf[t] /\ q # PersonOf[t]
    BY <1>9, <2>3, <2>6
  <2> QED
    BY <2>4, <2>5, <2>6
<1> QED
  BY <1>2, <1>3, <1>12, <1>13, <1>14, <1>15 DEF Sound, n

-----------------------------------------------------------------------------
(* The choice of the next task, on orders and a budget that are copies *)

\* Every order is sound and holds tasks of its own band only.
Housed(o) ==
    /\ o \in [Bands -> RR!Orders]
    /\ \A b \in Bands : Sound(o[b]) /\ \A t \in RR!Queued(o[b]) : Band(t) = b

\* The tasks in the orders o, and the bands that have one.
Everyone(o) == {t \in Tasks : t \in RR!Queued(o[Band(t)])}
Filled(o)   == {b \in Bands : RR!Queued(o[b]) # {}}

\* Which band is next depends on the bands that have a task and the budgets (_select_locked).
Ready(F)     == {c \in Classes : \E b \in F : b[1] = c}
Fresh(F, bu) == {c \in Ready(F) : bu[c] > 0} = {}
ShareOf(F, bu) == IF Fresh(F, bu) THEN Weight ELSE bu
Candidate(F, bu) == IF Fresh(F, bu) THEN Ready(F) ELSE {c \in Ready(F) : bu[c] > 0}
BandChosen(F, bu, b) ==
    /\ b \in F
    /\ Legacy \/ (/\ b[1] \in Candidate(F, bu)
                  /\ \A d \in Candidate(F, bu) : GoesFirst(ShareOf(F, bu), b[1], d))
    /\ \A c \in F : c[1] = b[1] => b[2] <= c[2]
Spent(F, bu, t) ==
    IF Legacy THEN bu ELSE [ShareOf(F, bu) EXCEPT ![ClassOf[t]] = @ - 1]

\* In a band the task that is ahead of all others is next.
Foremost(o, t) == t \in RR!Queued(o) /\ \A j \in RR!Queued(o) \ {t} : RR!Ahead(o, t, j)

\* Selection's choice is this one.
LEMMA ChoiceIs ==
  ASSUME NEW o, Housed(o), NEW bu
  PROVE  /\ At(o, bu)!Queued = Everyone(o)
         /\ \A t \in Tasks : /\ At(o, bu)!TaskIsNext(Everyone(o), t)
                                  <=> BandChosen(Filled(o), bu, Band(t)) /\ Foremost(o[Band(t)], t)
                             /\ At(o, bu)!Spend(Everyone(o), t) = Spent(Filled(o), bu, t)
<1> DEFINE E == Everyone(o)
           F == Filled(o)
<1>1. At(o, bu)!Queued = E
  BY DEF At!Queued, At!RR!Queued, RR!Queued, At!Band, Band, Everyone
<1>2. ASSUME NEW b \in Bands PROVE E \cap RR!Queued(o[b]) = RR!Queued(o[b])
  BY DEF Everyone, Housed, RR!Queued
<1>3. \A b \in Bands : At(o, bu)!Waiting(E, b) = RR!Queued(o[b])
  BY <1>2 DEF At!Waiting, At!RR!Queued, RR!Queued
<1>4. At(o, bu)!Bands = Bands /\ At(o, bu)!Classes = Classes
  BY DEF At!Bands, At!Band, Bands, Band, At!Classes, Classes
<1>5. At(o, bu)!Available(E) = Ready(F)
  BY <1>3, <1>4 DEF At!Available, Ready, Filled
<1>6. At(o, bu)!FreshBudget(E) <=> Fresh(F, bu)
  BY <1>5 DEF At!FreshBudget, At!Spendable, Fresh
<1>7. At(o, bu)!Share(E) = ShareOf(F, bu)
  BY <1>6 DEF At!Share, ShareOf
<1>8. ASSUME NEW c
      PROVE  At(o, bu)!ClassIsNext(E, c) <=> /\ c \in Candidate(F, bu)
                                             /\ \A d \in Candidate(F, bu) : GoesFirst(ShareOf(F, bu), c, d)
  <2>1. \A s, d : At(o, bu)!GoesFirst(s, c, d) <=> GoesFirst(s, c, d)
    BY DEF At!GoesFirst, GoesFirst, At!ClassName, ClassName
  <2>2. Candidate(F, bu) = IF At(o, bu)!FreshBudget(E) THEN At(o, bu)!Available(E)
                           ELSE At(o, bu)!Spendable(E)
    BY <1>5, <1>6 DEF Candidate, At!Spendable
  <2> HIDE DEF E, F
  <2> QED
    BY <1>7, <2>1, <2>2 DEF At!ClassIsNext
<1>9. ASSUME NEW t \in Tasks
      PROVE  /\ At(o, bu)!TaskIsNext(E, t) <=> BandChosen(F, bu, Band(t)) /\ Foremost(o[Band(t)], t)
             /\ At(o, bu)!Spend(E, t) = Spent(F, bu, t)
  <2> DEFINE b == Band(t)
  <2>1. b \in Bands /\ At(o, bu)!Band(t) = b
    BY DEF Bands, At!Band, Band
  <2>2. F \subseteq Bands /\ \A c \in Bands : c \in F <=> At(o, bu)!Waiting(E, c) # {}
    BY <1>3 DEF Filled
  <2>3. E \cap RR!Queued(o[b]) = RR!Queued(o[b])
    BY <1>2, <2>1
  <2> HIDE DEF b, E, F
  <2>4. At(o, bu)!BandIsNext(E, b) <=> BandChosen(F, bu, b)
    BY <1>4, <1>8, <2>1, <2>2 DEF At!BandIsNext, BandChosen
  <2>5. At(o, bu)!RR!IsNext(o[b], E, t) <=> Foremost(o[b], t)
    BY <2>3 DEF At!RR!IsNext, At!RR!Queued, RR!Queued, At!RR!Ahead, RR!Ahead, Foremost
  <2>6. At(o, bu)!Spend(E, t) = Spent(F, bu, t)
    BY <1>7 DEF At!Spend, Spent
  <2> QED
    BY <2>1, <2>4, <2>5, <2>6 DEF At!TaskIsNext, b
<1> QED
  BY <1>1, <1>9

\* Only one task can be foremost, and only one band next.
LEMMA OneForemost ==
  ASSUME NEW o, Sound(o), NEW t, Foremost(o, t), NEW u, Foremost(o, u)
  PROVE  t = u
<1>1. /\ t \in Tasks /\ u \in Tasks /\ o \in RR!Orders
      /\ PersonOf[t] \in Persons /\ PersonOf[u] \in Persons
  BY SelectionAssumption DEF Foremost, RR!Queued, Sound
<1>2. /\ o.served[PersonOf[t]] \in Nat /\ o.served[PersonOf[u]] \in Nat
      /\ o.line[t] \in Nat /\ o.line[u] \in Nat
  BY <1>1 DEF RR!Orders
<1>3. t # u => RR!Ahead(o, t, u) /\ RR!Ahead(o, u, t)
  BY DEF Foremost
<1> QED
  BY <1>2, <1>3 DEF RR!Ahead

LEMMA OneBandChosen ==
  ASSUME NEW F \in SUBSET Bands, NEW bu \in [Classes -> Nat],
         NEW b, BandChosen(F, bu, b), NEW c, BandChosen(F, bu, c)
  PROVE  b = c
<1>1. /\ b \in F /\ c \in F
      /\ \E t \in Tasks : b = Band(t)
      /\ \E t \in Tasks : c = Band(t)
  BY DEF BandChosen, Bands
<1>2. /\ b = <<b[1], b[2]>> /\ b[2] \in Nat /\ c = <<c[1], c[2]>> /\ c[2] \in Nat
      /\ Legacy => b[1] = c[1]
  BY <1>1, SelectionAssumption DEF Band
<1>3. b[1] = c[1]
  <2>1. CASE Legacy
    BY <1>2, <2>1
  <2>2. CASE ~Legacy
    <3> DEFINE s == ShareOf(F, bu)
    <3>1. s \in [Classes -> Nat]
      BY SelectionAssumption DEF ShareOf
    <3>2. b[1] \in Classes /\ c[1] \in Classes
      BY <1>1, <2>2, SelectionAssumption DEF Band
    <3>3. GoesFirst(s, b[1], c[1]) /\ GoesFirst(s, c[1], b[1])
      BY <2>2 DEF BandChosen
    <3> HIDE DEF s
    <3> QED
      BY <3>1, <3>2, <3>3 DEF GoesFirst, ClassName, Classes
  <2> QED
    BY <2>1, <2>2
<1>4. b[2] <= c[2] /\ c[2] <= b[2]
  BY <1>1, <1>3 DEF BandChosen
<1> QED
  BY <1>2, <1>3, <1>4

\* While somebody waits in a band there is a foremost task.
LEMMA SomeForemost ==
  ASSUME NEW o, Sound(o), RR!Queued(o) # {}
  PROVE  \E t : Foremost(o, t)
<1> DEFINE Q == RR!Queued(o)
           Turns == {o.served[PersonOf[i]] : i \in Q}
<1>1. o \in RR!Orders /\ \A i \in Q : /\ i \in Tasks /\ PersonOf[i] \in Persons
                                      /\ o.served[PersonOf[i]] \in Nat /\ o.line[i] \in Nat
  BY SelectionAssumption DEF Sound, RR!Queued, RR!Orders
<1>2. PICK n \in Turns : \A m \in Turns : n <= m
  <2>1. Turns \in SUBSET Nat /\ Turns # {}
    BY <1>1
  <2> QED
    BY <2>1, LeastOf
<1> DEFINE Firsts == {i \in Q : o.served[PersonOf[i]] = n}
           Places_ == {o.line[i] : i \in Firsts}
<1>3. PICK p \in Places_ : \A m \in Places_ : p <= m
  <2>1. Places_ \in SUBSET Nat /\ Places_ # {}
    BY <1>1, <1>2
  <2> QED
    BY <2>1, LeastOf
<1>4. PICK t \in Firsts : o.line[t] = p
  BY <1>3
<1>5. ASSUME NEW j \in Q \ {t} PROVE RR!Ahead(o, t, j)
  <2>1. n <= o.served[PersonOf[j]]
    BY <1>2
  <2>2. CASE n < o.served[PersonOf[j]]
    BY <1>4, <2>2 DEF RR!Ahead
  <2>3. CASE n = o.served[PersonOf[j]]
    <3>1. p <= o.line[j] /\ o.line[j] # o.line[t]
      BY <1>3, <1>4, <2>3 DEF Sound
    <3> QED
      BY <1>1, <1>4, <2>3, <3>1 DEF RR!Ahead
  <2> QED
    BY <1>1, <1>4, <2>1, <2>2, <2>3
<1> QED
  BY <1>4, <1>5 DEF Foremost

\* Of the classes of a set one goes first.
LEMMA SomeClassFirst ==
  ASSUME NEW C \in SUBSET Classes, C # {}, NEW s \in [Classes -> Nat]
  PROVE  \E c \in C : \A d \in C : GoesFirst(s, c, d)
<1>1. /\ C \subseteq {"automation", "background", "interactive"}
      /\ s["automation"] \in Nat /\ s["background"] \in Nat /\ s["interactive"] \in Nat
  BY DEF Classes
<1>2. ASSUME NEW c \in Classes, NEW d \in Classes
      PROVE  GoesFirst(s, c, d) \/ GoesFirst(s, d, c)
  BY <1>1 DEF GoesFirst, ClassName, Classes
<1>3. ASSUME NEW c \in Classes, NEW d \in Classes, NEW e \in Classes,
             GoesFirst(s, c, d), GoesFirst(s, d, e)
      PROVE  GoesFirst(s, c, e)
  <2>1. ClassName(c) \in Nat /\ ClassName(d) \in Nat /\ ClassName(e) \in Nat
    BY DEF ClassName, Classes
  <2>2. s[c] \in Nat /\ s[d] \in Nat /\ s[e] \in Nat
    OBVIOUS
  <2> QED
    BY <1>3, <2>1, <2>2 DEF GoesFirst
<1>4. \A c \in C : c = "automation" \/ c = "background" \/ c = "interactive"
  BY <1>1
<1>5. ASSUME NEW c \in C, NEW d \in C
      PROVE  \E e \in C : GoesFirst(s, e, d) /\ \A x \in C : GoesFirst(s, c, x) => GoesFirst(s, e, x)
  <2>1. CASE GoesFirst(s, c, d)
    BY <2>1
  <2>2. CASE GoesFirst(s, d, c)
    <3>1. GoesFirst(s, d, d)
      BY <1>2
    <3>2. \A x \in C : GoesFirst(s, c, x) => GoesFirst(s, d, x)
      BY <1>3, <2>2
    <3> QED
      BY <3>1, <3>2
  <2> QED
    BY <1>2, <2>1, <2>2
<1>6. PICK a \in C : "automation" \in C => GoesFirst(s, a, "automation")
  BY <1>5
<1>7. PICK b \in C : /\ "automation" \in C => GoesFirst(s, b, "automation")
                     /\ "background" \in C => GoesFirst(s, b, "background")
  <2>1. CASE "background" \in C
    BY <1>5, <1>6, <2>1
  <2>2. CASE "background" \notin C
    BY <1>6, <2>2
  <2> QED
    BY <2>1, <2>2
<1>8. PICK c \in C : /\ "automation" \in C => GoesFirst(s, c, "automation")
                     /\ "background" \in C => GoesFirst(s, c, "background")
                     /\ "interactive" \in C => GoesFirst(s, c, "interactive")
  <2>1. CASE "interactive" \in C
    BY <1>5, <1>7, <2>1
  <2>2. CASE "interactive" \notin C
    BY <1>7, <2>2
  <2> QED
    BY <2>1, <2>2
<1> QED
  BY <1>4, <1>8

\* While somebody waits there is a next band.
LEMMA SomeBandChosen ==
  ASSUME NEW F \in SUBSET Bands, F # {}, NEW bu \in [Classes -> Nat]
  PROVE  \E b \in F : BandChosen(F, bu, b)
<1>1. \A b \in F : \E t \in Tasks : b = Band(t)
  BY DEF Bands
<1>2. \A b \in F : b[2] \in Nat /\ (~Legacy => b[1] \in Ready(F))
  BY <1>1, SelectionAssumption DEF Band, Ready
<1>3. ASSUME NEW c, \E b \in F : b[1] = c
      PROVE  \E b \in F : b[1] = c /\ \A d \in F : d[1] = b[1] => b[2] <= d[2]
  <2> DEFINE L == {b[2] : b \in {b \in F : b[1] = c}}
  <2>1. L \in SUBSET Nat /\ L # {}
    BY <1>2, <1>3
  <2>2. PICK n \in L : \A m \in L : n <= m
    BY <2>1, LeastOf
  <2>3. PICK b \in F : b[1] = c /\ b[2] = n
    BY <2>2
  <2> QED
    BY <2>2, <2>3
<1>4. CASE Legacy
  <2>1. PICK a \in F : TRUE
    OBVIOUS
  <2>2. PICK b \in F : b[1] = a[1] /\ \A d \in F : d[1] = b[1] => b[2] <= d[2]
    BY <1>3
  <2> QED
    BY <1>4, <2>2 DEF BandChosen
<1>5. CASE ~Legacy
  <2>1. Candidate(F, bu) \in SUBSET Classes /\ Candidate(F, bu) # {} /\ Candidate(F, bu) \subseteq Ready(F)
    <3>1. Ready(F) # {}
      BY <1>2, <1>5
    <3> QED
      BY <3>1 DEF Candidate, Fresh, Ready
  <2>2. ShareOf(F, bu) \in [Classes -> Nat]
    BY SelectionAssumption DEF ShareOf
  <2>3. PICK c \in Candidate(F, bu) : \A d \in Candidate(F, bu) : GoesFirst(ShareOf(F, bu), c, d)
    BY <2>1, <2>2, SomeClassFirst
  <2>4. \E b \in F : b[1] = c
    BY <2>1, <2>3 DEF Ready
  <2>5. PICK b \in F : b[1] = c /\ \A d \in F : d[1] = b[1] => b[2] <= d[2]
    BY <1>3, <2>4
  <2> QED
    BY <2>3, <2>5 DEF BandChosen
<1> QED
  BY <1>4, <1>5

\* The task the calculation of places picks (_pick_order_locked).
Chosen(o, bu) ==
    CHOOSE t \in At(o, bu)!Queued : At(o, bu)!TaskIsNext(At(o, bu)!Queued, t)

\* It is the foremost of the next band, and the only one.
LEMMA ChosenIs ==
  ASSUME NEW o, Housed(o), NEW bu \in [Classes -> Nat], Everyone(o) # {}
  PROVE  /\ Chosen(o, bu) \in Everyone(o)
         /\ BandChosen(Filled(o), bu, Band(Chosen(o, bu)))
         /\ Foremost(o[Band(Chosen(o, bu))], Chosen(o, bu))
         /\ \A t \in Tasks : BandChosen(Filled(o), bu, Band(t)) /\ Foremost(o[Band(t)], t)
                                => t = Chosen(o, bu)
<1>1. Filled(o) \in SUBSET Bands /\ Filled(o) # {}
  BY DEF Filled, Everyone, Bands
<1>2. PICK b \in Filled(o) : BandChosen(Filled(o), bu, b)
  BY <1>1, SomeBandChosen
<1>3. b \in Bands /\ Sound(o[b]) /\ RR!Queued(o[b]) # {}
  BY <1>1 DEF Filled, Housed
<1>4. PICK t : Foremost(o[b], t)
  BY <1>3, SomeForemost
<1>5. t \in Tasks /\ Band(t) = b /\ t \in Everyone(o)
  BY <1>3, <1>4 DEF Foremost, Housed, RR!Queued, Everyone
<1>6. ASSUME NEW u \in Tasks, BandChosen(Filled(o), bu, Band(u)), Foremost(o[Band(u)], u)
      PROVE  u = t
  <2>1. Band(u) = b
    BY <1>1, <1>2, <1>6, OneBandChosen
  <2> QED
    BY <1>3, <1>4, <1>6, <2>1, OneForemost
<1>7. Chosen(o, bu) = CHOOSE u \in Everyone(o) : At(o, bu)!TaskIsNext(Everyone(o), u)
  BY ChoiceIs DEF Chosen
<1>8. \A u \in Everyone(o) : At(o, bu)!TaskIsNext(Everyone(o), u) <=> u = t
  <2>1. Everyone(o) \subseteq Tasks
    BY DEF Everyone
  <2> QED
    BY <1>2, <1>4, <1>5, <1>6, <2>1, ChoiceIs
<1>9. Chosen(o, bu) = t
  BY <1>5, <1>7, <1>8
<1> QED
  BY <1>2, <1>4, <1>5, <1>6, <1>9

\* A service of a task in its band.
ServedIn(o, t) == [o EXCEPT ![Band(t)] = RR!Serve(@, t)]

LEMMA ServedInIs ==
  ASSUME NEW o, Housed(o), NEW t \in Everyone(o)
  PROVE  Housed(ServedIn(o, t)) /\ Everyone(ServedIn(o, t)) = Everyone(o) \ {t}
<1>1. Band(t) \in Bands /\ Sound(o[Band(t)]) /\ t \in RR!Queued(o[Band(t)])
  BY DEF Everyone, Bands, Housed
<1> DEFINE s == RR!Serve(o[Band(t)], t)
           n == ServedIn(o, t)
<1>2. Sound(s) /\ RR!Queued(s) = RR!Queued(o[Band(t)]) \ {t}
  BY <1>1, ServeIsSound
<1>3. o \in [Bands -> RR!Orders] /\ s \in RR!Orders
  BY <1>2 DEF Housed, Sound
<1>4. n \in [Bands -> RR!Orders] /\ \A b \in Bands : n[b] = IF b = Band(t) THEN s ELSE o[b]
  BY <1>3 DEF ServedIn
<1> HIDE DEF n, s
<1>5. Housed(n)
  BY <1>1, <1>2, <1>4 DEF Housed
<1>6. \A u \in Tasks : Band(u) \in Bands
  BY DEF Bands
<1>7. Everyone(n) = Everyone(o) \ {t}
  BY <1>1, <1>2, <1>4, <1>6 DEF Everyone
<1> QED
  BY <1>5, <1>7 DEF n

LEMMA SpentIs ==
  ASSUME NEW F \in SUBSET Bands, NEW bu \in [Classes -> Nat], NEW t \in Tasks, BandChosen(F, bu, Band(t))
  PROVE  Spent(F, bu, t) \in [Classes -> Nat]
<1>1. CASE Legacy
  BY <1>1 DEF Spent
<1>2. CASE ~Legacy
  <2>1. ClassOf[t] \in Candidate(F, bu) /\ ClassOf[t] \in Classes
    BY <1>2, SelectionAssumption DEF BandChosen, Band
  <2>2. ShareOf(F, bu) \in [Classes -> Nat] /\ ShareOf(F, bu)[ClassOf[t]] > 0
    BY <2>1, SelectionAssumption DEF ShareOf, Candidate
  <2> QED
    BY <1>2, <2>1, <2>2 DEF Spent
<1> QED
  BY <1>1, <1>2

-----------------------------------------------------------------------------
(* Orders that are thinned out behind the front *)

\* l is o without some tasks that are behind m others of their person.
Thinned(l, o, m) ==
    /\ Sound(l) /\ Sound(o)
    /\ RR!Queued(l) \subseteq RR!Queued(o)
    /\ \A i, j \in RR!Queued(l) : l.line[i] < l.line[j] <=> o.line[i] < o.line[j]
    /\ RR!Queued(l) # {} =>
          \A p, q \in Persons : l.served[p] < l.served[q] <=> o.served[p] < o.served[q]
    /\ \A i \in RR!Queued(o) \ RR!Queued(l) :
          /\ Cardinality(RR!QueuedOf(l, PersonOf[i])) >= m
          /\ \A j \in RR!QueuedOf(l, PersonOf[i]) : o.line[j] < o.line[i]

\* The foremost is not thinned out, and is foremost still.
LEMMA ThinnedForemost ==
  ASSUME NEW l, NEW o, NEW m \in Nat \ {0}, Thinned(l, o, m), NEW t, Foremost(o, t)
  PROVE  Foremost(l, t)
<1>1. /\ l \in RR!Orders /\ o \in RR!Orders
      /\ \A i \in RR!Queued(o) : i \in Tasks /\ PersonOf[i] \in Persons
  BY SelectionAssumption DEF Thinned, Sound, RR!Queued
<1>2. /\ \A i \in Tasks : l.line[i] \in Nat /\ o.line[i] \in Nat
      /\ \A p \in Persons : l.served[p] \in Nat /\ o.served[p] \in Nat
  BY <1>1 DEF RR!Orders
<1>3. t \in RR!Queued(l)
  <2> SUFFICES ASSUME t \notin RR!Queued(l) PROVE FALSE
    OBVIOUS
  <2> DEFINE mine == RR!QueuedOf(l, PersonOf[t])
  <2>1. Cardinality(mine) >= m /\ \A j \in mine : o.line[j] < o.line[t]
    BY DEF Thinned, Foremost
  <2>2. mine # {}
    <3>1. mine = {} => Cardinality(mine) = 0
      BY FS_EmptySet
    <3> QED
      BY <2>1, <3>1
  <2>3. PICK j \in mine : TRUE
    BY <2>2
  <2>4. j \in RR!Queued(o) \ {t} /\ PersonOf[j] = PersonOf[t] /\ o.line[j] < o.line[t]
    BY <2>1, <2>3 DEF RR!QueuedOf, Thinned
  <2>5. RR!Ahead(o, t, j)
    BY <2>4 DEF Foremost
  <2> QED
    BY <1>1, <1>2, <2>4, <2>5 DEF RR!Ahead, Foremost
<1>4. ASSUME NEW j \in RR!Queued(l) \ {t} PROVE RR!Ahead(l, t, j)
  <2>1. RR!Ahead(o, t, j) /\ j \in RR!Queued(o)
    BY <1>4 DEF Foremost, Thinned
  <2> DEFINE p == PersonOf[t]
             q == PersonOf[j]
  <2>2. /\ l.served[p] < l.served[q] <=> o.served[p] < o.served[q]
        /\ l.served[q] < l.served[p] <=> o.served[q] < o.served[p]
        /\ l.line[t] < l.line[j] <=> o.line[t] < o.line[j]
    BY <1>1, <1>3, <1>4, <2>1 DEF Thinned, Foremost
  <2>3. /\ l.served[p] \in Nat /\ l.served[q] \in Nat /\ o.served[p] \in Nat /\ o.served[q] \in Nat
    BY <1>1, <1>2, <2>1 DEF Foremost
  <2> QED
    BY <2>1, <2>2, <2>3 DEF RR!Ahead
<1> QED
  BY <1>3, <1>4 DEF Foremost

\* A service of a task that both hold costs one of what is known.
LEMMA ThinnedServe ==
  ASSUME NEW l, NEW o, NEW m \in Nat \ {0}, Thinned(l, o, m), NEW t \in RR!Queued(l)
  PROVE  Thinned(RR!Serve(l, t), RR!Serve(o, t), m - 1)
<1> DEFINE a == RR!Serve(l, t)
           b == RR!Serve(o, t)
<1>0. /\ Sound(l) /\ Sound(o) /\ RR!Queued(l) \subseteq RR!Queued(o) /\ t \in RR!Queued(o)
      /\ RR!Queued(l) \subseteq Tasks
  BY DEF Thinned, RR!Queued
<1>1. /\ Sound(a) /\ RR!Queued(a) = RR!Queued(l) \ {t}
      /\ \A i, j \in RR!Queued(l) \ {t} : a.line[i] < a.line[j] <=> l.line[i] < l.line[j]
      /\ RR!Queued(l) \ {t} # {} =>
            \A p, q \in Persons : a.served[p] < a.served[q]
                <=> p # PersonOf[t] /\ (q = PersonOf[t] \/ l.served[p] < l.served[q])
  BY <1>0, ServeIsSound
<1>2. /\ Sound(b) /\ RR!Queued(b) = RR!Queued(o) \ {t}
      /\ \A i, j \in RR!Queued(o) \ {t} : b.line[i] < b.line[j] <=> o.line[i] < o.line[j]
      /\ RR!Queued(o) \ {t} # {} =>
            \A p, q \in Persons : b.served[p] < b.served[q]
                <=> p # PersonOf[t] /\ (q = PersonOf[t] \/ o.served[p] < o.served[q])
  BY <1>0, ServeIsSound
<1> HIDE DEF a, b
<1>3. \A i, j \in RR!Queued(a) : a.line[i] < a.line[j] <=> b.line[i] < b.line[j]
  BY <1>0, <1>1, <1>2 DEF Thinned
<1>4. RR!Queued(a) # {} =>
          \A p, q \in Persons : a.served[p] < a.served[q] <=> b.served[p] < b.served[q]
  BY <1>0, <1>1, <1>2 DEF Thinned
<1>5. ASSUME NEW i \in RR!Queued(b) \ RR!Queued(a)
      PROVE  /\ Cardinality(RR!QueuedOf(a, PersonOf[i])) >= m - 1
             /\ \A j \in RR!QueuedOf(a, PersonOf[i]) : b.line[j] < b.line[i]
  <2> DEFINE mine == RR!QueuedOf(l, PersonOf[i])
             rest == RR!QueuedOf(a, PersonOf[i])
  <2>1. i \in RR!Queued(o) \ RR!Queued(l) /\ i # t
    BY <1>1, <1>2, <1>5
  <2>2. Cardinality(mine) >= m /\ \A j \in mine : o.line[j] < o.line[i]
    BY <2>1 DEF Thinned
  <2>3. rest = mine \ {t} /\ mine \subseteq RR!Queued(l)
    BY <1>1 DEF RR!QueuedOf
  <2>4. IsFiniteSet(mine) /\ Cardinality(mine) \in Nat
    BY <1>0, <2>3, FS_Subset, FS_CardinalityType, SelectionAssumption
  <2>5. Cardinality(rest) >= m - 1
    <3>1. CASE t \in mine
      <4>1. Cardinality(mine \ {t}) = Cardinality(mine) - 1
        BY <2>4, <3>1, FS_RemoveElement
      <4> HIDE DEF mine, rest
      <4> QED
        BY <2>2, <2>3, <2>4, <4>1
    <3>2. CASE t \notin mine
      <4>1. rest = mine
        BY <2>3, <3>2
      <4> HIDE DEF mine, rest
      <4> QED
        BY <2>2, <2>4, <4>1
    <3> QED
      BY <3>1, <3>2
  <2>6. \A j \in rest : b.line[j] < b.line[i]
    BY <1>0, <1>2, <2>1, <2>2, <2>3
  <2> QED
    BY <2>5, <2>6
<1> QED
  BY <1>0, <1>1, <1>2, <1>3, <1>4, <1>5 DEF Thinned, a, b

\* The copy of an order that a calculation of n places works on (FairOrder.copy).
LEMMA LimitedThins ==
  ASSUME NEW o, Sound(o)
  PROVE  Thinned(Limited(o), o, Counted)
<1> DEFINE Earlier(t) == {u \in RR!QueuedOf(o, PersonOf[t]) : o.line[u] < o.line[t]}
           S == {t \in RR!Queued(o) : Cardinality(Earlier(t)) >= Counted}
           l == Limited(o)
<1>0. /\ RR!Queued(o) \subseteq Tasks /\ Counted \in Nat \ {0}
      /\ \A i \in RR!Queued(o) : o.line[i] \in Nat
  BY PlaceReportsAssumption DEF Sound, RR!Queued, RR!Orders
<1>1. l = RR!Drop(o, S)
  BY DEF Limited
<1>2. /\ Sound(l) /\ RR!Queued(l) = RR!Queued(o) \ S
      /\ \A i, j \in RR!Queued(o) \ S : l.line[i] < l.line[j] <=> o.line[i] < o.line[j]
      /\ RR!Queued(o) \ S # {} => l.served = o.served
  <2>1. S \in SUBSET Tasks
    BY <1>0
  <2> HIDE DEF S
  <2> QED
    BY <1>1, <2>1, DropIsSound
<1>3. ASSUME NEW t \in RR!Queued(o)
      PROVE  Earlier(t) \subseteq Tasks /\ IsFiniteSet(Earlier(t)) /\ Cardinality(Earlier(t)) \in Nat
  <2>1. Earlier(t) \subseteq Tasks
    BY <1>0 DEF RR!QueuedOf
  <2> HIDE DEF Earlier
  <2> QED
    BY <2>1, FS_Subset, FS_CardinalityType, SelectionAssumption
<1> HIDE DEF l
<1>4. ASSUME NEW i \in S
      PROVE  /\ Cardinality(RR!QueuedOf(l, PersonOf[i])) >= Counted
             /\ \A j \in RR!QueuedOf(l, PersonOf[i]) : o.line[j] < o.line[i]
  <2> DEFINE mine == RR!QueuedOf(l, PersonOf[i])
             Out  == {t \in S : PersonOf[t] = PersonOf[i]}
             Nums == {o.line[t] : t \in Out}
  <2>1. PICK n \in Nums : \A k \in Nums : n <= k
    <3>1. Nums \in SUBSET Nat /\ Nums # {}
      BY <1>0, <1>4
    <3> QED
      BY <3>1, LeastOf
  <2>2. PICK f \in Out : o.line[f] = n
    BY <2>1
  <2>3. Earlier(f) \subseteq mine
    <3> SUFFICES ASSUME NEW u \in Earlier(f) PROVE u \in mine
      OBVIOUS
    <3>1. u \in RR!Queued(o) /\ PersonOf[u] = PersonOf[i] /\ o.line[u] < o.line[f]
      BY <2>2 DEF RR!QueuedOf
    <3>2. o.line[u] \in Nat /\ o.line[f] \in Nat
      BY <1>0, <2>2, <3>1
    <3>3. u \in Out => n <= o.line[u]
      BY <2>1
    <3>4. u \notin S
      BY <2>2, <3>1, <3>2, <3>3
    <3> QED
      BY <1>2, <3>1, <3>4 DEF RR!QueuedOf
  <2>4. Cardinality(mine) >= Counted
    <3>1. mine \subseteq Tasks /\ IsFiniteSet(mine) /\ Cardinality(mine) \in Nat
      <4>1. mine \subseteq Tasks
        BY <1>0, <1>2 DEF RR!QueuedOf
      <4> HIDE DEF mine
      <4> QED
        BY <4>1, FS_Subset, FS_CardinalityType, SelectionAssumption
    <3>2. Cardinality(Earlier(f)) <= Cardinality(mine)
      <4> HIDE DEF mine, Earlier
      <4> QED
        BY <2>3, <3>1, FS_Subset
    <3>3. f \in RR!Queued(o) /\ Cardinality(Earlier(f)) >= Counted
      BY <2>2
    <3>4. Cardinality(Earlier(f)) \in Nat
      BY <1>3, <3>3
    <3> HIDE DEF mine, Earlier
    <3> QED
      BY <1>0, <3>1, <3>2, <3>3, <3>4
  <2>5. ASSUME NEW j \in mine PROVE o.line[j] < o.line[i]
    <3>1. j \in RR!Queued(o) /\ j \notin S /\ PersonOf[j] = PersonOf[i]
      BY <1>2 DEF RR!QueuedOf
    <3>2. i \in RR!Queued(o) /\ Cardinality(Earlier(i)) >= Counted
      BY <1>4
    <3>3. ~(Cardinality(Earlier(j)) >= Counted)
      BY <3>1
    <3>4. SUFFICES ASSUME ~(o.line[j] < o.line[i]) PROVE FALSE
      OBVIOUS
    <3>5. Earlier(i) \subseteq Earlier(j)
      BY <1>0, <3>1, <3>2, <3>4 DEF RR!QueuedOf
    <3>6. /\ Cardinality(Earlier(i)) <= Cardinality(Earlier(j))
          /\ Cardinality(Earlier(i)) \in Nat /\ Cardinality(Earlier(j)) \in Nat
      <4>1. IsFiniteSet(Earlier(j))
        BY <1>3, <3>1
      <4>2. Cardinality(Earlier(i)) \in Nat /\ Cardinality(Earlier(j)) \in Nat
        BY <1>3, <3>1, <3>2
      <4> HIDE DEF Earlier
      <4> QED
        BY <3>5, <4>1, <4>2, FS_Subset
    <3> HIDE DEF Earlier
    <3> QED
      BY <1>0, <3>2, <3>3, <3>6
  <2> QED
    BY <2>4, <2>5
<1>5. RR!Queued(o) \ RR!Queued(l) = S
  BY <1>2
<1> HIDE DEF S
<1> QED
  BY <1>2, <1>4, <1>5 DEF Thinned, l, Sound

-----------------------------------------------------------------------------
(* The calculation of places, as a function of the number of picks *)

\* Induction up to d over a set.
LEMMA UpTo ==
  ASSUME NEW d \in Nat, NEW S, 0 \in S, \A m \in 0..(d-1) : m \in S => m + 1 \in S
  PROVE  \A m \in 0..d : m \in S
<1> DEFINE Missed == {m \in 0..d : m \notin S}
<1> SUFFICES ASSUME Missed # {} PROVE FALSE
  OBVIOUS
<1>1. PICK n \in Missed : \A m \in Missed : n <= m
  <2>1. Missed \in SUBSET Nat
    OBVIOUS
  <2> QED
    BY <2>1, LeastOf
<1>2. n # 0 /\ n - 1 \in 0..(d-1) /\ n - 1 \in 0..d /\ ~(n <= n - 1)
  BY <1>1
<1>3. n - 1 \in S
  BY <1>1, <1>2
<1> QED
  BY <1>1, <1>2, <1>3

\* The state before the first pick, and after one more.
Begun(o, bu) == [orders |-> o, budget |-> bu, picked |-> <<>>]
Further(s) ==
    IF At(s.orders, s.budget)!Queued = {} THEN s
    ELSE LET t == Chosen(s.orders, s.budget)
         IN  [orders |-> ServedIn(s.orders, t),
              budget |-> At(s.orders, s.budget)!Spend(At(s.orders, s.budget)!Queued, t),
              picked |-> Append(s.picked, t)]

\* f is the calculation of d picks.
Picking(f, o, bu, d) ==
    f = [k \in 0..d |-> IF k = 0 THEN Begun(o, bu) ELSE Further(f[k-1])]

LEMMA PickingExists ==
  ASSUME NEW d \in Nat, NEW o, NEW bu
  PROVE  \E f : Picking(f, o, bu, d)
<1> DEFINE None == {n \in Nat : \A f : ~Picking(f, o, bu, n)}
<1> SUFFICES ASSUME d \in None PROVE FALSE
  OBVIOUS
<1>1. None \in SUBSET Nat /\ None # {}
  OBVIOUS
<1>2. PICK n \in None : \A m \in None : n <= m
  BY <1>1, LeastOf
<1>3. CASE n = 0
  <2> DEFINE f == [m \in 0..0 |-> Begun(o, bu)]
  <2>1. f = [m \in 0..0 |-> IF m = 0 THEN Begun(o, bu) ELSE Further(f[m-1])]
    OBVIOUS
  <2> QED
    BY <1>2, <1>3, <2>1 DEF Picking
<1>4. CASE n # 0
  <2>1. n - 1 \in Nat /\ n - 1 \notin None
    BY <1>2, <1>4
  <2>2. PICK f : Picking(f, o, bu, n - 1)
    BY <2>1
  <2> DEFINE g == [m \in 0..n |-> IF m = n THEN Further(f[n-1]) ELSE f[m]]
  <2>3. \A m \in 0..(n-1) : /\ m \in 0..n /\ m # n /\ g[m] = f[m]
                            /\ f[m] = IF m = 0 THEN Begun(o, bu) ELSE Further(f[m-1])
    BY <2>1, <2>2 DEF Picking
  <2>4. g[n] = Further(g[n-1])
    BY <1>4, <2>1
  <2>5. \A m \in 0..n : g[m] = IF m = 0 THEN Begun(o, bu) ELSE Further(g[m-1])
    <3> TAKE m \in 0..n
    <3>1. CASE m = n
      BY <1>4, <2>4, <3>1
    <3>2. CASE m # n
      <4>1. m \in 0..(n-1) /\ (m # 0 => m - 1 \in 0..(n-1))
        BY <3>2
      <4> HIDE DEF g
      <4> QED
        BY <2>3, <4>1
    <3> QED
      BY <3>1, <3>2
  <2>6. g = [m \in 0..n |-> g[m]]
    OBVIOUS
  <2> HIDE DEF g
  <2>7. Picking(g, o, bu, n)
    BY <2>5, <2>6 DEF Picking
  <2> QED
    BY <1>2, <2>7
<1> QED
  BY <1>3, <1>4

\* What a calculation picks is what its last state has picked.
LEMMA PicksAre ==
  ASSUME NEW d \in Nat, NEW o, NEW bu
  PROVE  \E f : Picking(f, o, bu, d) /\ Picks(o, bu, d) = f[d].picked
<1> DEFINE f == CHOOSE g : Picking(g, o, bu, d)
<1>1. Picking(f, o, bu, d)
  BY PickingExists
<1>2. Picks(o, bu, d) = f[d].picked
  BY DEF Picks, Picking, Begun, Further, Chosen, ServedIn
<1> QED
  BY <1>1, <1>2

\* A longer calculation begins as a shorter one.
LEMMA SamePicking ==
  ASSUME NEW d \in Nat, NEW e \in Nat, d <= e, NEW o, NEW bu,
         NEW f, Picking(f, o, bu, d), NEW g, Picking(g, o, bu, e)
  PROVE  f[d] = g[d]
<1> DEFINE S == {k \in 0..d : f[k] = g[k]}
<1>1. 0 \in 0..d /\ f[0] = Begun(o, bu) /\ g[0] = Begun(o, bu)
  <2>1. 0 \in 0..d /\ 0 \in 0..e
    OBVIOUS
  <2> QED
    BY <2>1 DEF Picking
<1>2. ASSUME NEW k \in 0..(d-1), k \in S PROVE k + 1 \in S
  <2>1. k + 1 \in 0..d /\ k + 1 \in 0..e /\ k + 1 # 0 /\ (k + 1) - 1 = k
    OBVIOUS
  <2>2. f[k+1] = Further(f[k]) /\ g[k+1] = Further(g[k])
    BY <2>1 DEF Picking
  <2> QED
    BY <1>2, <2>1, <2>2
<1>3. 0 \in S
  BY <1>1
<1> HIDE DEF S
<1>4. \A k \in 0..d : k \in S
  BY <1>2, <1>3, UpTo
<1> QED
  BY <1>4 DEF S

\* A state of a calculation.
Midway(s) == Housed(s.orders) /\ s.budget \in [Classes -> Nat] /\ s.picked \in Seq(Tasks)

\* One more pick, while somebody is left.
LEMMA FurtherIs ==
  ASSUME NEW s, Midway(s)
  PROVE  /\ Everyone(s.orders) = {} => Further(s) = s
         /\ Everyone(s.orders) # {} =>
              LET t == Chosen(s.orders, s.budget)
              IN  /\ t \in Everyone(s.orders) /\ t \in Tasks
                  /\ Further(s).orders = ServedIn(s.orders, t)
                  /\ Further(s).budget = Spent(Filled(s.orders), s.budget, t)
                  /\ Further(s).picked = Append(s.picked, t)
                  /\ Midway(Further(s))
                  /\ Everyone(Further(s).orders) = Everyone(s.orders) \ {t}
<1>1. At(s.orders, s.budget)!Queued = Everyone(s.orders)
  BY ChoiceIs DEF Midway
<1>2. CASE Everyone(s.orders) = {}
  BY <1>1, <1>2 DEF Further
<1>3. CASE Everyone(s.orders) # {}
  <2> DEFINE t == Chosen(s.orders, s.budget)
             n == [orders |-> ServedIn(s.orders, t),
                   budget |-> At(s.orders, s.budget)!Spend(Everyone(s.orders), t),
                   picked |-> Append(s.picked, t)]
  <2>1. Further(s) = n
    BY <1>1, <1>3 DEF Further
  <2>2. t \in Everyone(s.orders) /\ BandChosen(Filled(s.orders), s.budget, Band(t))
    BY <1>3, ChosenIs DEF Midway
  <2>3. t \in Tasks
    BY <2>2 DEF Everyone
  <2> HIDE DEF t
  <2>4. n.budget = Spent(Filled(s.orders), s.budget, t)
    BY <2>3, ChoiceIs DEF Midway
  <2>5. Housed(n.orders) /\ Everyone(n.orders) = Everyone(s.orders) \ {t}
    BY <2>2, ServedInIs DEF Midway
  <2>6. n.budget \in [Classes -> Nat]
    <3>1. Filled(s.orders) \in SUBSET Bands
      BY DEF Filled
    <3> QED
      BY <2>2, <2>3, <2>4, <3>1, SpentIs DEF Midway
  <2>7. n.picked \in Seq(Tasks) /\ n.picked = Append(s.picked, t) /\ n.orders = ServedIn(s.orders, t)
    BY <2>3 DEF Midway
  <2> HIDE DEF n
  <2>8. Midway(n)
    BY <2>5, <2>6, <2>7 DEF Midway
  <2> QED
    BY <1>3, <2>1, <2>2, <2>3, <2>4, <2>5, <2>7, <2>8 DEF t
<1> QED
  BY <1>2, <1>3

\* Each pick takes one task, until nobody is left.
LEMMA PicksTake ==
  ASSUME NEW d \in Nat, NEW o, Housed(o), NEW bu \in [Classes -> Nat], NEW f, Picking(f, o, bu, d),
         NEW k \in 0..d
  PROVE  /\ Midway(f[k])
         /\ Len(f[k].picked) = IF k <= Cardinality(Everyone(o)) THEN k ELSE Cardinality(Everyone(o))
<1> DEFINE N == Cardinality(Everyone(o))
           Left(i) == Cardinality(Everyone(f[i].orders))
           S == {i \in 0..d : /\ Midway(f[i])
                              /\ Len(f[i].picked) = IF i <= N THEN i ELSE N
                              /\ Left(i) = N - Len(f[i].picked)}
<1>0. \A p : IsFiniteSet(Everyone(p)) /\ Cardinality(Everyone(p)) \in Nat
  <2> TAKE p
  <2>1. Everyone(p) \subseteq Tasks
    BY DEF Everyone
  <2> QED
    BY <2>1, FS_Subset, FS_CardinalityType, SelectionAssumption
<1>1. N \in Nat
  BY <1>0
<1>2. 0 \in S
  <2>1. 0 \in 0..d
    OBVIOUS
  <2>2. f[0] = Begun(o, bu)
    BY <2>1 DEF Picking
  <2>3. f[0].orders = o /\ f[0].budget = bu /\ f[0].picked = <<>>
    BY <2>2 DEF Begun
  <2>4. Midway(f[0])
    BY <2>3 DEF Midway
  <2>5. Len(f[0].picked) = 0 /\ Left(0) = N
    BY <2>3
  <2> HIDE DEF N, Left
  <2> QED
    BY <1>1, <2>1, <2>4, <2>5
<1>3. ASSUME NEW i \in 0..(d-1), i \in S PROVE i + 1 \in S
  <2> DEFINE s == f[i]
  <2>1. i + 1 \in 0..d /\ i \in Nat
    OBVIOUS
  <2>2. f[i+1] = Further(s)
    BY <2>1 DEF Picking
  <2>3. Midway(s) /\ Len(s.picked) = (IF i <= N THEN i ELSE N) /\ Left(i) = N - Len(s.picked)
    BY <1>3
  <2>4. CASE Everyone(s.orders) = {}
    <3>1. f[i+1] = s
      BY <2>2, <2>3, <2>4, FurtherIs
    <3>2. Left(i) = 0
      BY <2>4, FS_EmptySet
    <3>3. Left(i+1) = Left(i)
      BY <3>1
    <3> HIDE DEF N, Left, s
    <3>4. N <= i
      BY <1>1, <2>1, <2>3, <3>2
    <3>5. Len(f[i+1].picked) = IF i + 1 <= N THEN i + 1 ELSE N
      BY <1>1, <2>1, <2>3, <3>1, <3>4
    <3> QED
      BY <2>1, <2>3, <3>1, <3>3, <3>5
  <2>5. CASE Everyone(s.orders) # {}
    <3> DEFINE t == Chosen(s.orders, s.budget)
    <3>1. /\ t \in Everyone(s.orders) /\ t \in Tasks
          /\ f[i+1].picked = Append(s.picked, t) /\ Midway(f[i+1])
          /\ Everyone(f[i+1].orders) = Everyone(s.orders) \ {t}
      BY <2>2, <2>3, <2>5, FurtherIs
    <3> HIDE DEF t
    <3>2. Left(i+1) = Left(i) - 1 /\ Left(i) \in Nat /\ Left(i) # 0
      <4>1. IsFiniteSet(Everyone(s.orders)) /\ Left(i) \in Nat
        BY <1>0
      <4>2. Left(i+1) = Left(i) - 1
        <5> DEFINE W == Everyone(s.orders)
        <5>1. Cardinality(W \ {t}) = Cardinality(W) - 1
          <6> HIDE DEF W
          <6>1. IsFiniteSet(W) /\ t \in W
            BY <3>1, <4>1 DEF W
          <6> QED
            BY <6>1, FS_RemoveElement
        <5> QED
          BY <3>1, <5>1
      <4>3. Left(i) # 0
        BY <2>5, <4>1, FS_EmptySet
      <4> QED
        BY <4>1, <4>2, <4>3
    <3>3. Len(f[i+1].picked) = Len(s.picked) + 1
      BY <2>3, <3>1 DEF Midway
    <3> HIDE DEF N, Left, s
    <3> QED
      BY <1>1, <2>1, <2>3, <3>1, <3>2, <3>3
  <2> QED
    BY <2>4, <2>5
<1> HIDE DEF S
<1>4. \A i \in 0..d : i \in S
  BY <1>2, <1>3, UpTo
<1> QED
  BY <1>4 DEF S, N

\* What was picked stays picked.
LEMMA PicksStay ==
  ASSUME NEW d \in Nat, NEW c \in 0..d, NEW o, Housed(o), NEW bu \in [Classes -> Nat],
         NEW f, Picking(f, o, bu, d)
  PROVE  /\ Len(f[c].picked) <= Len(f[d].picked)
         /\ \A i \in 1..Len(f[c].picked) : f[d].picked[i] = f[c].picked[i]
<1> DEFINE S == {k \in 0..d : c <= k => /\ Len(f[c].picked) <= Len(f[k].picked)
                                        /\ \A i \in 1..Len(f[c].picked) : f[k].picked[i] = f[c].picked[i]}
<1>0. \A k \in 0..d : Midway(f[k]) /\ Len(f[k].picked) \in Nat
  <2> TAKE k \in 0..d
  <2>1. Midway(f[k])
    BY PicksTake
  <2> QED
    BY <2>1 DEF Midway
<1>1. c \in S
  BY <1>0
<1>2. 0 \in S
  <2>1. c <= 0 => c = 0
    OBVIOUS
  <2>2. 0 \in 0..d
    OBVIOUS
  <2> QED
    BY <1>1, <2>1, <2>2
<1>3. ASSUME NEW k \in 0..(d-1), k \in S PROVE k + 1 \in S
  <2>1. k + 1 \in 0..d /\ k \in 0..d /\ (c <= k + 1 => c <= k \/ c = k + 1)
    OBVIOUS
  <2>2. f[k+1] = Further(f[k])
    BY <2>1 DEF Picking
  <2>3. CASE c = k + 1
    BY <1>1, <2>3
  <2>4. CASE c <= k
    <3>1. Len(f[k].picked) <= Len(f[k+1].picked)
          /\ \A i \in 1..Len(f[k].picked) : f[k+1].picked[i] = f[k].picked[i]
      <4>1. CASE Everyone(f[k].orders) = {}
        <5>1. f[k+1] = f[k]
          BY <1>0, <2>1, <2>2, <4>1, FurtherIs
        <5> QED
          BY <1>0, <2>1, <5>1
      <4>2. CASE Everyone(f[k].orders) # {}
        <5>1. \E t \in Tasks : f[k+1].picked = Append(f[k].picked, t)
          BY <1>0, <2>1, <2>2, <4>2, FurtherIs
        <5>2. f[k].picked \in Seq(Tasks)
          BY <1>0, <2>1 DEF Midway
        <5> QED
          BY <5>1, <5>2
      <4> QED
        BY <4>1, <4>2
    <3>2. /\ Len(f[c].picked) <= Len(f[k].picked)
          /\ \A i \in 1..Len(f[c].picked) : f[k].picked[i] = f[c].picked[i]
      BY <1>3, <2>4
    <3>3. Len(f[c].picked) \in Nat /\ Len(f[k].picked) \in Nat /\ Len(f[k+1].picked) \in Nat
      BY <1>0, <2>1
    <3>4. \A i \in 1..Len(f[c].picked) : i \in 1..Len(f[k].picked)
      BY <3>2, <3>3
    <3> DEFINE x == Len(f[c].picked)
               y == Len(f[k].picked)
               z == Len(f[k+1].picked)
    <3>5. x <= z
      <4>1. x <= y /\ y <= z /\ x \in Nat /\ y \in Nat /\ z \in Nat
        BY <3>1, <3>2, <3>3
      <4> HIDE DEF x, y, z
      <4> QED
        BY <4>1
    <3> QED
      BY <2>1, <3>1, <3>2, <3>4, <3>5
  <2> QED
    BY <2>1, <2>3, <2>4
<1> HIDE DEF S
<1>4. \A k \in 0..d : k \in S
  BY <1>2, <1>3, UpTo
<1> QED
  BY <1>4 DEF S

\* What is thinned out behind m is thinned out behind m - 1.
LEMMA ThinnedLess ==
  ASSUME NEW l, NEW o, NEW m \in Nat \ {0}, Thinned(l, o, m)
  PROVE  Thinned(l, o, m - 1)
<1>1. \A p : Cardinality(RR!QueuedOf(l, p)) \in Nat
  <2> TAKE p
  <2>1. RR!QueuedOf(l, p) \subseteq Tasks
    BY DEF RR!QueuedOf, RR!Queued
  <2> QED
    BY <2>1, FS_Subset, FS_CardinalityType, SelectionAssumption
<1>2. \A i \in RR!Queued(o) \ RR!Queued(l) : Cardinality(RR!QueuedOf(l, PersonOf[i])) >= m - 1
  <2> TAKE i \in RR!Queued(o) \ RR!Queued(l)
  <2> DEFINE n == Cardinality(RR!QueuedOf(l, PersonOf[i]))
  <2>1. n >= m /\ n \in Nat
    BY <1>1 DEF Thinned
  <2> HIDE DEF n
  <2>2. n >= m - 1
    BY <2>1
  <2> QED
    BY <2>2 DEF n
<1> QED
  BY <1>2 DEF Thinned

\* A band that is thinned out behind some has a task if it had one.
LEMMA ThinnedFilled ==
  ASSUME NEW l, NEW o, NEW m \in Nat \ {0}, \A b \in Bands : Thinned(l[b], o[b], m)
  PROVE  Filled(l) = Filled(o)
<1> SUFFICES ASSUME NEW b \in Bands PROVE RR!Queued(l[b]) = {} <=> RR!Queued(o[b]) = {}
  BY DEF Filled
<1>1. RR!Queued(l[b]) \subseteq RR!Queued(o[b])
  BY DEF Thinned
<1>2. ASSUME RR!Queued(l[b]) = {}, NEW i \in RR!Queued(o[b]) PROVE FALSE
  <2>1. Cardinality(RR!QueuedOf(l[b], PersonOf[i])) >= m
    BY <1>2 DEF Thinned
  <2>2. RR!QueuedOf(l[b], PersonOf[i]) = {}
    BY <1>2 DEF RR!QueuedOf
  <2>3. 0 >= m
    BY <2>1, <2>2, FS_EmptySet
  <2> QED
    BY <2>3
<1> QED
  BY <1>1, <1>2

\* Two calculations whose orders are alike for m picks pick the same, and are then alike for
\* m - 1 (_pick_order_locked on limited copies).
AlikeFor(r, s, m) ==
    /\ Midway(r) /\ Midway(s) /\ r.budget = s.budget /\ r.picked = s.picked
    /\ \A b \in Bands : Thinned(r.orders[b], s.orders[b], m)

LEMMA PickTheSame ==
  ASSUME NEW r, NEW s, NEW m \in Nat \ {0}, AlikeFor(r, s, m)
  PROVE  AlikeFor(Further(r), Further(s), m - 1)
<1>0. /\ Midway(r) /\ Midway(s) /\ r.budget = s.budget /\ r.picked = s.picked
      /\ \A b \in Bands : Thinned(r.orders[b], s.orders[b], m)
  BY DEF AlikeFor
<1>1. Filled(r.orders) = Filled(s.orders)
  BY <1>0, ThinnedFilled
<1>2. ASSUME NEW o, Housed(o) PROVE Everyone(o) = {} <=> Filled(o) = {}
  <2>1. \A b \in Bands : \A t \in RR!Queued(o[b]) : t \in Tasks /\ Band(t) = b
    BY <1>2 DEF Housed, RR!Queued
  <2>2. \A t \in Tasks : Band(t) \in Bands
    BY DEF Bands
  <2> QED
    BY <2>1, <2>2 DEF Everyone, Filled
<1>3. Everyone(r.orders) = {} <=> Everyone(s.orders) = {}
  BY <1>0, <1>1, <1>2 DEF Midway
<1>4. \A b \in Bands : Thinned(r.orders[b], s.orders[b], m - 1)
  BY <1>0, ThinnedLess
<1>5. CASE Everyone(s.orders) = {}
  <2>1. Further(r) = r /\ Further(s) = s
    BY <1>0, <1>3, <1>5, FurtherIs
  <2> QED
    BY <1>0, <1>4, <2>1 DEF AlikeFor
<1>6. CASE Everyone(s.orders) # {}
  <2> DEFINE t == Chosen(s.orders, s.budget)
             B == Band(t)
  <2>1. /\ t \in Everyone(s.orders) /\ BandChosen(Filled(s.orders), s.budget, B)
        /\ Foremost(s.orders[B], t)
    BY <1>0, <1>6, ChosenIs DEF Midway
  <2>2. t \in Tasks /\ B \in Bands
    BY <2>1 DEF Everyone, Bands
  <2>3. Foremost(r.orders[B], t)
    BY <1>0, <2>1, <2>2, ThinnedForemost
  <2>4. Chosen(r.orders, r.budget) = t
    <3> HIDE DEF t
    <3>1. BandChosen(Filled(r.orders), r.budget, Band(t))
      BY <1>0, <1>1, <2>1
    <3> QED
      BY <1>0, <1>3, <1>6, <2>2, <2>3, <3>1, ChosenIs DEF Midway
  <2>5. /\ Further(s).orders = ServedIn(s.orders, t)
        /\ Further(s).budget = Spent(Filled(s.orders), s.budget, t)
        /\ Further(s).picked = Append(s.picked, t)
        /\ Midway(Further(s))
    BY <1>0, <1>6, FurtherIs
  <2>6. /\ Further(r).orders = ServedIn(r.orders, t)
        /\ Further(r).budget = Spent(Filled(r.orders), r.budget, t)
        /\ Further(r).picked = Append(r.picked, t)
        /\ Midway(Further(r))
    BY <1>0, <1>3, <1>6, <2>4, FurtherIs
  <2> HIDE DEF t, B
  <2>7. ASSUME NEW b \in Bands PROVE Thinned(Further(r).orders[b], Further(s).orders[b], m - 1)
    <3>1. \A o \in [Bands -> RR!Orders] :
             ServedIn(o, t)[b] = IF b = B THEN RR!Serve(o[b], t) ELSE o[b]
      BY DEF ServedIn, B
    <3>2. s.orders \in [Bands -> RR!Orders] /\ r.orders \in [Bands -> RR!Orders]
      BY <1>0 DEF Midway, Housed
    <3>3. CASE b = B
      <4>1. t \in RR!Queued(r.orders[b])
        BY <2>3, <3>3 DEF Foremost
      <4>2. Thinned(RR!Serve(r.orders[b], t), RR!Serve(s.orders[b], t), m - 1)
        BY <1>0, <4>1, ThinnedServe
      <4> QED
        BY <2>5, <2>6, <3>1, <3>2, <3>3, <4>2
    <3>4. CASE b # B
      BY <1>4, <2>5, <2>6, <3>1, <3>2, <3>4
    <3> QED
      BY <3>3, <3>4
  <2> QED
    BY <1>0, <1>1, <2>5, <2>6, <2>7 DEF AlikeFor
<1> QED
  BY <1>5, <1>6

\* The copies on which the places are calculated.
Copies(o) == [c \in Bands |-> Limited(o[c])]

\* A calculation of Counted places on limited copies picks as one on the orders themselves.
LEMMA CopiesPickTheSame ==
  ASSUME NEW o, Housed(o), NEW bu \in [Classes -> Nat]
  PROVE  PickOrder(o, bu) = Picks(o, bu, Counted)
<1>0. Counted \in Nat
  BY PlaceReportsAssumption
<1>1. \A b \in Bands : Thinned(Copies(o)[b], o[b], Counted)
  BY LimitedThins DEF Copies, Housed
<1>2. Housed(Copies(o))
  <2>1. \A b \in Bands : /\ Sound(Copies(o)[b]) /\ Copies(o)[b] \in RR!Orders
                         /\ RR!Queued(Copies(o)[b]) \subseteq RR!Queued(o[b])
    BY <1>1 DEF Thinned, Sound
  <2>2. Copies(o) = [b \in Bands |-> Copies(o)[b]]
    BY DEF Copies
  <2>3. Copies(o) \in [Bands -> RR!Orders]
    BY <2>1, <2>2
  <2> QED
    BY <2>1, <2>3 DEF Housed
<1>3. PickOrder(o, bu) = Picks(Copies(o), bu, Counted)
  BY DEF PickOrder, Copies
<1>4. PICK f : Picking(f, o, bu, Counted) /\ Picks(o, bu, Counted) = f[Counted].picked
  BY <1>0, PicksAre
<1>5. PICK g : Picking(g, Copies(o), bu, Counted) /\ Picks(Copies(o), bu, Counted) = g[Counted].picked
  BY <1>0, PicksAre
<1> DEFINE S == {k \in 0..Counted : AlikeFor(g[k], f[k], Counted - k)}
<1>6. 0 \in S
  <2>1. 0 \in 0..Counted /\ Counted - 0 = Counted
    BY <1>0
  <2>2. f[0] = Begun(o, bu) /\ g[0] = Begun(Copies(o), bu)
    BY <1>4, <1>5, <2>1 DEF Picking
  <2>3. /\ f[0].orders = o /\ f[0].budget = bu /\ f[0].picked = <<>>
        /\ g[0].orders = Copies(o) /\ g[0].budget = bu /\ g[0].picked = <<>>
    BY <2>2 DEF Begun
  <2>4. Midway(f[0]) /\ Midway(g[0])
    BY <1>2, <2>3 DEF Midway
  <2>5. AlikeFor(g[0], f[0], Counted)
    BY <1>1, <2>3, <2>4 DEF AlikeFor
  <2> QED
    BY <2>1, <2>5
<1>7. ASSUME NEW k \in 0..(Counted-1), k \in S PROVE k + 1 \in S
  <2>1. /\ k + 1 \in 0..Counted /\ k + 1 # 0 /\ (k + 1) - 1 = k /\ Counted - k \in Nat \ {0}
        /\ Counted - (k + 1) = (Counted - k) - 1
    BY <1>0
  <2>2. f[k+1] = Further(f[k]) /\ g[k+1] = Further(g[k])
    BY <1>4, <1>5, <2>1 DEF Picking
  <2>3. AlikeFor(g[k+1], f[k+1], (Counted - k) - 1)
    BY <1>7, <2>1, <2>2, PickTheSame
  <2> QED
    BY <2>1, <2>3
<1> HIDE DEF S
<1>8. \A k \in 0..Counted : k \in S
  BY <1>0, <1>6, <1>7, UpTo
<1>9. Counted \in S
  BY <1>0, <1>8
<1>10. g[Counted].picked = f[Counted].picked
  BY <1>9 DEF S, AlikeFor
<1> QED
  BY <1>3, <1>4, <1>5, <1>10

\* The least of two sets of numbers is the same if they hold the same numbers up to one both hold.
LEMMA SameMin ==
  ASSUME NEW A \in SUBSET Nat, NEW B \in SUBSET Nat, NEW x \in A \cap B,
         \A n \in Nat : n <= x => (n \in A <=> n \in B)
  PROVE  Min(A) = Min(B) /\ Min(A) \in A /\ \A n \in A : Min(A) <= n
<1>1. PICK n \in A : \A m \in A : n <= m
  BY LeastOf
<1>2. n \in B /\ \A m \in B : n <= m
  <2>1. n <= x /\ n \in Nat /\ x \in Nat
    BY <1>1
  <2>2. ASSUME NEW m \in B PROVE n <= m
    <3>1. m \in Nat
      OBVIOUS
    <3>2. CASE m <= x
      BY <1>1, <3>1, <3>2
    <3>3. CASE ~(m <= x)
      BY <2>1, <3>1, <3>3
    <3> QED
      BY <3>2, <3>3
  <2> QED
    BY <2>1, <2>2
<1>3. Min(A) = n
  <2>1. \A m \in A : (\A k \in A : m <= k) <=> m = n
    BY <1>1
  <2> QED
    BY <1>1, <2>1 DEF Min
<1>4. Min(B) = n
  <2>1. \A m \in B : (\A k \in B : m <= k) <=> m = n
    BY <1>2
  <2> QED
    BY <1>2, <2>1 DEF Min
<1> QED
  BY <1>1, <1>3, <1>4

\* A place worked out in Counted picks on limited copies is the place in the order in which
\* the whole queue would be taken, or later than Counted in both (_recompute_locked).
LEMMA PlacesAgree ==
  ASSUME NEW o, Housed(o), NEW bu \in [Classes -> Nat], NEW t
  PROVE  /\ PlaceIn(PickOrder(o, bu), t) = PlaceIn(Picks(o, bu, Cardinality(Everyone(o))), t)
         /\ PlaceIn(PickOrder(o, bu), t) \in 1..(Counted + 1)
<1> DEFINE N == Cardinality(Everyone(o))
           M == IF Counted <= N THEN N ELSE Counted
<1>0. Counted \in Nat /\ N \in Nat
  <2>1. Everyone(o) \subseteq Tasks
    BY DEF Everyone
  <2> QED
    BY <2>1, FS_Subset, FS_CardinalityType, SelectionAssumption, PlaceReportsAssumption
<1> HIDE DEF N
<1>1. M \in Nat /\ Counted \in 0..M /\ N \in 0..M /\ Counted <= M /\ N <= M
  BY <1>0
<1>2. PICK f : Picking(f, o, bu, M) /\ Picks(o, bu, M) = f[M].picked
  BY <1>1, PicksAre
<1>3. ASSUME NEW d \in 0..M PROVE Picks(o, bu, d) = f[d].picked
  <2>1. PICK g : Picking(g, o, bu, d) /\ Picks(o, bu, d) = g[d].picked
    BY PicksAre
  <2>2. d \in Nat /\ d <= M
    BY <1>1
  <2>3. g[d] = f[d]
    BY <1>1, <1>2, <2>1, <2>2, SamePicking
  <2> QED
    BY <2>1, <2>3
<1> DEFINE P == f[Counted].picked
           Q == f[N].picked
<1>4. PickOrder(o, bu) = P /\ Picks(o, bu, N) = Q
  BY <1>1, <1>3, CopiesPickTheSame
<1>5. /\ P \in Seq(Tasks) /\ Q \in Seq(Tasks)
      /\ Len(P) = IF Counted <= N THEN Counted ELSE N
      /\ Len(Q) = N
      /\ \A i \in 1..Len(P) : i <= Len(Q) => P[i] = Q[i]
  <2>1. \A k \in 0..M : /\ Midway(f[k])
                        /\ Len(f[k].picked) = IF k <= N THEN k ELSE N
    BY <1>1, <1>2, PicksTake DEF N
  <2>2. P \in Seq(Tasks) /\ Q \in Seq(Tasks)
    BY <1>1, <2>1 DEF Midway
  <2>3. Len(P) = (IF Counted <= N THEN Counted ELSE N) /\ Len(Q) = N
    BY <1>0, <1>1, <2>1
  <2>4. \A i \in 1..Len(P) : f[M].picked[i] = P[i]
    BY <1>1, <1>2, PicksStay
  <2>5. \A i \in 1..Len(Q) : f[M].picked[i] = Q[i]
    BY <1>1, <1>2, PicksStay
  <2>6. \A i \in 1..Len(P) : i <= Len(Q) => i \in 1..Len(Q)
    BY <2>2
  <2> QED
    BY <2>2, <2>3, <2>4, <2>5, <2>6
<1> HIDE DEF P, Q, M
<1> DEFINE A == {i \in DOMAIN P : P[i] = t} \cup {Counted + 1}
           B == {i \in DOMAIN Q : Q[i] = t} \cup {Counted + 1}
<1>6. DOMAIN P = 1..Len(P) /\ DOMAIN Q = 1..Len(Q)
  BY <1>5
<1>7. /\ A \in SUBSET Nat /\ B \in SUBSET Nat /\ Counted + 1 \in A \cap B
      /\ A \subseteq 1..(Counted + 1)
  BY <1>0, <1>5, <1>6
<1>8. ASSUME NEW n \in Nat, n <= Counted + 1 PROVE n \in A <=> n \in B
  <2>1. CASE n = Counted + 1
    BY <2>1
  <2>2. CASE n # Counted + 1
    <3>1. n <= Counted
      BY <1>0, <1>8, <2>2
    <3>2. n \in 1..Len(P) <=> n \in 1..Len(Q)
      BY <1>0, <1>5, <3>1
    <3>3. n \in 1..Len(P) => P[n] = Q[n]
      BY <1>0, <1>5, <3>2
    <3> QED
      BY <1>6, <2>2, <3>2, <3>3
  <2> QED
    BY <2>1, <2>2
<1> HIDE DEF A, B
<1>9. Min(A) = Min(B) /\ Min(A) \in A
  BY <1>7, <1>8, SameMin
<1>10. Min(A) \in 1..(Counted + 1)
  BY <1>7, <1>9
<1> QED
  BY <1>4, <1>9, <1>10 DEF PlaceIn, A, B, N

-----------------------------------------------------------------------------
(* Places are current *)

\* Every chat's reporting turn is the chat's.
OwnHeads(watch_) == \A s \in Heads(watch_) : Head(watch_[s]) \in Tasks /\ SessionOf[Head(watch_[s])] = s

\* Every chat's reporting turn has its place, and the chats within the counted places are shown.
Current(o, bu, watch_, shown_, last_) ==
    /\ \A s \in Heads(watch_) : last_[Head(watch_[s])] = PlaceIn(PickOrder(o, bu), Head(watch_[s]))
    /\ shown_ = {s \in Heads(watch_) : last_[Head(watch_[s])] <= Counted}

CurrentInv ==
    /\ ReportInv
    /\ Housed(orders) /\ budget \in [Classes -> Nat]
    /\ Current(orders, budget, watch, shown, last)

\* Looking only at the chats that were shown, are picked now or changed their reporting
\* turn misses nothing, if all others were told they are further back (_recompute_locked).
LEMMA RecomputeKeeps ==
  ASSUME ReportTypes, NEW o, Housed(o), NEW bu \in [Classes -> Nat],
         NEW watch_, OwnHeads(watch_), NEW shown_, NEW touched, NEW started,
         Recompute(o, bu, watch_, shown_, touched, started),
         \A s \in Heads(watch_) \ (touched \cup shown_) : last[Head(watch_[s])] = Counted + 1
  PROVE  Current(o, bu, watch_, shown', last')
<1> DEFINE picks == PickOrder(o, bu)
           at(s) == PlaceIn(picks, Head(watch_[s]))
           heads == Candidates(picks, shown_, touched) \cap Heads(watch_)
           place == [s \in heads |-> PlaceIn(picks, Head(watch_[s]))]
           moved == {s \in heads : place[s] # last[Head(watch_[s])]}
           places == [t \in {Head(watch_[s]) : s \in moved} |-> place[SessionOf[t]]]
<1>1. shown' = {s \in heads : place[s] <= Counted} /\ last' = Overlaid(places, last)
  <2>1. Moves(o, bu, watch_, shown_, touched)
           = [shown |-> {s \in heads : place[s] <= Counted}, places |-> places]
    BY DEF Moves
  <2> HIDE DEF heads, place, places
  <2> QED
    BY <2>1 DEF Recompute
<1>2. \A s \in heads : place[s] = at(s)
  OBVIOUS
<1>3. moved \subseteq heads /\ heads \subseteq Heads(watch_)
  OBVIOUS
<1>4. DOMAIN places = {Head(watch_[s]) : s \in moved}
  OBVIOUS
<1>5. \A t \in DOMAIN places : places[t] = place[SessionOf[t]]
  OBVIOUS
<1>6. \A s \in heads : s \in moved <=> at(s) # last[Head(watch_[s])]
  OBVIOUS
<1>7. \A s \in Heads(watch_) \ heads : /\ s \notin touched \cup shown_
                                       /\ \A i \in DOMAIN picks : SessionOf[picks[i]] # s
  BY DEF Candidates
<1> HIDE DEF heads, place, moved, places
<1>8. \A s \in Heads(watch_) : Head(watch_[s]) \in DOMAIN places <=> s \in moved
  BY <1>3, <1>4 DEF OwnHeads
<1>9. \A s \in Heads(watch_) :
         last'[Head(watch_[s])] = IF s \in moved THEN at(s) ELSE last[Head(watch_[s])]
  BY <1>1, <1>2, <1>3, <1>5, <1>8 DEF Overlaid, OwnHeads, ReportTypes
<1>10. Counted \in Nat
  BY PlaceReportsAssumption
<1>11. ASSUME NEW s \in Heads(watch_) \ heads PROVE at(s) = Counted + 1
  <2>1. {i \in DOMAIN picks : picks[i] = Head(watch_[s])} \cup {Counted + 1} = {Counted + 1}
    BY <1>7, <1>11 DEF OwnHeads
  <2>2. Min({Counted + 1}) \in {Counted + 1}
    <3>1. {Counted + 1} \in SUBSET Nat /\ Counted + 1 \in {Counted + 1} \cap {Counted + 1}
      BY <1>10
    <3> QED
      BY <3>1, SameMin
  <2> QED
    BY <2>1, <2>2 DEF PlaceIn
<1> HIDE DEF at
<1>12. \A s \in Heads(watch_) : last'[Head(watch_[s])] = at(s)
  <2> TAKE s \in Heads(watch_)
  <2>1. CASE s \in heads
    BY <1>6, <1>9, <2>1
  <2>2. CASE s \notin heads
    BY <1>3, <1>7, <1>9, <1>11, <2>2
  <2> QED
    BY <2>1, <2>2
<1>13. shown' = {s \in Heads(watch_) : last'[Head(watch_[s])] <= Counted}
  <2>1. ASSUME NEW s \in Heads(watch_) PROVE s \in heads /\ place[s] <= Counted <=> at(s) <= Counted
    BY <1>2, <1>10, <1>11
  <2> QED
    BY <1>1, <1>3, <1>12, <2>1
<1> QED
  BY <1>12, <1>13 DEF Current, at

\* A chat's reporting turn is a queued turn of it.
LEMMA HeadsAreOwn == ReportInv => OwnHeads(watch)
<1> SUFFICES ASSUME ReportInv, NEW s \in Heads(watch)
             PROVE  Head(watch[s]) \in Tasks /\ SessionOf[Head(watch[s])] = s
  BY DEF OwnHeads
<1>1. s \in Sessions /\ watch[s] # <<>> /\ watch[s] \in Seq(Tasks)
  BY DEF Heads, ReportInv, ReportTypes
<1>2. Head(watch[s]) \in Range(watch[s]) /\ Head(watch[s]) \in Tasks
  BY <1>1 DEF Range
<1> QED
  BY <1>1, <1>2 DEF ReportInv, WatchedWait

\* A chat that is not shown was told that its turn is further back.
LEMMA UnshownAreLater ==
  ASSUME CurrentInv, NEW s \in Heads(watch) \ shown
  PROVE  last[Head(watch[s])] = Counted + 1
<1>1. last[Head(watch[s])] \in 1..(Counted + 1)
  BY PlacesAgree DEF CurrentInv, Current
<1>2. ~(last[Head(watch[s])] <= Counted)
  BY DEF CurrentInv, Current
<1> QED
  BY <1>1, <1>2, PlaceReportsAssumption

LEMMA AddKeepsCurrent ==
  ASSUME CurrentInv, NEW t \in Tasks, AddPlaces(t)
  PROVE  CurrentInv'
<1> DEFINE s       == SessionOf[t]
           touched == IF watch[s] = <<>> /\ t \in Watched THEN {s} ELSE {}
<1>0. ReportInv /\ ReportTypes /\ WatchedWait /\ s \in Sessions
  BY SelectionAssumption DEF CurrentInv, ReportInv
<1>1. /\ fate[t] = "new" /\ budget' = budget
      /\ orders' = [orders EXCEPT ![Band(t)] = RR!Push(@, t)]
      /\ watch' = IF t \in Watched THEN [watch EXCEPT ![s] = Append(@, t)] ELSE watch
      /\ \/ Heads(watch') = {} /\ shown' = shown /\ last' = last
         \/ Recompute(orders', budget, watch', shown, touched, {})
  BY DEF AddPlaces
<1>2. ReportInv'
  BY <1>0, ReportsAdd
<1>3. OwnHeads(watch')
  <2>1. OwnHeads(watch)'
    BY <1>2, HeadsAreOwn, PTL
  <2> QED
    BY <2>1 DEF OwnHeads, Heads
<1>4. Housed(orders')
  <2> DEFINE o == orders[Band(t)]
  <2>1. t \notin Queued /\ Band(t) \in Bands
    BY <1>0, <1>1 DEF WatchedWait, Bands
  <2>2. Sound(o) /\ t \in Tasks \ RR!Queued(o)
    BY <2>1 DEF CurrentInv, Housed, Queued
  <2>3. Sound(RR!Push(o, t)) /\ RR!Queued(RR!Push(o, t)) = RR!Queued(o) \cup {t}
    BY <2>2, PushIsSound
  <2>4. \A b \in Bands : orders'[b] = IF b = Band(t) THEN RR!Push(o, t) ELSE orders[b]
    BY <1>1 DEF CurrentInv, Housed
  <2>5. orders' \in [Bands -> RR!Orders]
    BY <1>2 DEF ReportInv, ReportTypes
  <2> HIDE DEF o
  <2> QED
    BY <2>1, <2>3, <2>4, <2>5 DEF CurrentInv, Housed, o
<1>5. ASSUME NEW c \in Heads(watch') \ (touched \cup shown)
      PROVE  last[Head(watch'[c])] = Counted + 1
  <2>1. c \in Sessions /\ watch[c] \in Seq(Tasks)
    BY <1>0 DEF Heads, ReportTypes
  <2>2. CASE c = s /\ t \in Watched
    <3>1. watch'[c] = Append(watch[c], t) /\ watch[c] # <<>>
      BY <1>0, <1>1, <1>5, <2>2 DEF ReportTypes
    <3>2. Head(watch'[c]) = Head(watch[c]) /\ c \in Heads(watch)
      BY <2>1, <3>1 DEF Heads
    <3> QED
      BY <1>5, <3>2, UnshownAreLater
  <2>3. CASE ~(c = s /\ t \in Watched)
    <3>1. watch'[c] = watch[c]
      BY <1>0, <1>1, <2>1, <2>3 DEF ReportTypes
    <3>2. c \in Heads(watch)
      BY <1>5, <3>1 DEF Heads
    <3> QED
      BY <1>5, <3>1, <3>2, UnshownAreLater
  <2> QED
    BY <2>2, <2>3
<1>6. Current(orders', budget', watch', shown', last')
  <2>1. CASE Heads(watch') = {} /\ shown' = shown /\ last' = last
    <3>1. Heads(watch) = {}
      <4> SUFFICES ASSUME NEW c \in Heads(watch) PROVE FALSE
        OBVIOUS
      <4>1. c \in Sessions /\ watch[c] \in Seq(Tasks) /\ watch[c] # <<>>
        BY <1>0 DEF Heads, ReportTypes
      <4>2. watch'[c] # <<>>
        <5>1. watch'[c] = watch[c] \/ watch'[c] = Append(watch[c], t)
          BY <1>0, <1>1, <4>1 DEF ReportTypes
        <5>2. Append(watch[c], t) # <<>>
          BY <4>1, AppendProperties
        <5> QED
          BY <4>1, <5>1, <5>2
      <4> QED
        BY <2>1, <4>1, <4>2 DEF Heads
    <3> QED
      BY <2>1, <3>1 DEF CurrentInv, Current
  <2>2. CASE Recompute(orders', budget, watch', shown, touched, {})
    <3> HIDE DEF touched
    <3>1. Current(orders', budget, watch', shown', last')
      BY <1>0, <1>3, <1>4, <1>5, <2>2, RecomputeKeeps DEF CurrentInv
    <3> QED
      BY <1>1, <3>1
  <2> QED
    BY <1>1, <2>1, <2>2
<1> QED
  BY <1>1, <1>2, <1>4, <1>6 DEF CurrentInv, Current, Housed, Heads

\* In a line one that is not first leaves behind who reports.
LEMMA FirstStays ==
  ASSUME NEW s \in Seq(Tasks), IsInjective(s), NEW t, s = <<>> \/ Head(s) # t
  PROVE  /\ RemoveFirst(s, t) = <<>> <=> s = <<>>
         /\ s # <<>> => Head(RemoveFirst(s, t)) = Head(s)
<1>1. CASE \A i \in 1..Len(s) : s[i] # t
  BY <1>1 DEF RemoveFirst
<1>2. CASE \E i \in 1..Len(s) : s[i] = t
  <2>1. PICK i \in 1..Len(s) : s[i] = t
    BY <1>2
  <2> DEFINE r == RemoveFirst(s, t)
  <2>2. /\ r \in Seq(Tasks) /\ Len(r) = Len(s) - 1
        /\ \A j \in 1..(Len(s) - 1) : r[j] = IF j < i THEN s[j] ELSE s[j + 1]
    BY <2>1, RemovesOne
  <2>3. s # <<>> /\ i # 1
    BY <2>1
  <2>4. 1 \in 1..(Len(s) - 1) /\ 1 < i
    BY <2>1, <2>3
  <2> HIDE DEF r
  <2>5. r[1] = s[1] /\ r # <<>>
    BY <2>2, <2>4
  <2>6. Head(r) = r[1] /\ Head(s) = s[1]
    BY <2>2, <2>3, <2>5
  <2> QED
    BY <2>3, <2>5, <2>6 DEF r
<1> QED
  BY <1>1, <1>2

LEMMA TakeKeepsCurrent ==
  ASSUME CurrentInv, NEW E \in EligibleSets, NEW t \in E, TakePlaces(t, E)
  PROVE  CurrentInv'
<1> DEFINE s       == SessionOf[t]
           shown_  == IF watch'[s] = <<>> THEN shown \ {s} ELSE shown
           touched == IF watch[s] # <<>> /\ Head(watch[s]) = t THEN {s} ELSE {}
           started == IF t \in Watched /\ last[t] # NoPlace THEN {t} ELSE {}
<1>0. /\ ReportInv /\ ReportTypes /\ WatchedWait
      /\ E \in SUBSET Tasks /\ t \in Queued /\ t \in Tasks /\ s \in Sessions
  BY SelectionAssumption DEF CurrentInv, ReportInv, EligibleSets, Queued
<1>1. /\ TaskIsNext(E, t) /\ budget' = Spend(E, t)
      /\ orders' = [orders EXCEPT ![Band(t)] = RR!Serve(@, t)]
      /\ watch' = [watch EXCEPT ![s] = RemoveFirst(@, t)]
      /\ \/ Heads(watch) = {} /\ shown' = shown /\ last' = last
         \/ Recompute(orders', budget', watch', shown_, touched, started)
  BY DEF TakePlaces
<1>2. ReportInv'
  BY <1>0, ReportsTake
<1>3. OwnHeads(watch')
  <2>1. OwnHeads(watch)'
    BY <1>2, HeadsAreOwn, PTL
  <2> QED
    BY <2>1 DEF OwnHeads, Heads
<1>4. Housed(orders') /\ budget' \in [Classes -> Nat]
  <2>1. t \in Everyone(orders) /\ orders' = ServedIn(orders, t)
    BY <1>0, <1>1 DEF Everyone, Queued, ServedIn
  <2>2. Housed(ServedIn(orders, t))
    BY <2>1, ServedInIs DEF CurrentInv
  <2>3. Spend(E, t) \in [Classes -> Nat]
    BY <1>0, <1>1, SpendKeepsNat DEF CurrentInv
  <2> QED
    BY <1>1, <2>1, <2>2, <2>3
<1>5. ASSUME NEW c \in Sessions
      PROVE  /\ watch[c] \in Seq(Tasks) /\ IsInjective(watch[c])
             /\ c # s => watch'[c] = watch[c]
             /\ c = s => watch'[c] = RemoveFirst(watch[c], t)
  BY <1>0, <1>1 DEF ReportTypes, WatchedWait
<1>6. ASSUME NEW c \in Heads(watch') \ (touched \cup shown_)
      PROVE  last[Head(watch'[c])] = Counted + 1
  <2>1. c \in Sessions /\ watch'[c] # <<>> /\ c \notin shown
    BY <1>6 DEF Heads
  <2>2. CASE c = s
    <3>1. watch[c] = <<>> \/ Head(watch[c]) # t
      BY <1>6, <2>2
    <3>2. watch[c] # <<>> /\ Head(watch'[c]) = Head(watch[c])
      BY <1>5, <2>1, <2>2, <3>1, FirstStays
    <3> QED
      BY <2>1, <3>2, UnshownAreLater DEF Heads
  <2>3. CASE c # s
    <3>1. watch'[c] = watch[c]
      BY <1>5, <2>1, <2>3
    <3> QED
      BY <2>1, <3>1, UnshownAreLater DEF Heads
  <2> QED
    BY <2>2, <2>3
<1>7. Current(orders', budget', watch', shown', last')
  <2>1. CASE Heads(watch) = {} /\ shown' = shown /\ last' = last
    <3>1. Heads(watch') = {}
      <4> SUFFICES ASSUME NEW c \in Heads(watch') PROVE FALSE
        OBVIOUS
      <4>1. c \in Sessions /\ watch[c] = <<>> /\ watch'[c] # <<>>
        BY <2>1 DEF Heads
      <4> QED
        BY <1>5, <4>1, FirstStays
    <3> QED
      BY <2>1, <3>1 DEF CurrentInv, Current
  <2>2. CASE Recompute(orders', budget', watch', shown_, touched, started)
    <3> HIDE DEF touched, shown_, started
    <3> QED
      BY <1>0, <1>3, <1>4, <1>6, <2>2, RecomputeKeeps
  <2> QED
    BY <1>1, <2>1, <2>2
<1> QED
  BY <1>2, <1>4, <1>7 DEF CurrentInv, Current, Housed, Heads

LEMMA DropKeepsCurrent ==
  ASSUME CurrentInv, NEW s \in Sessions, DropPlaces(s)
  PROVE  CurrentInv'
<1> DEFINE dropped == {t \in Queued : SessionOf[t] = s}
<1>0. ReportInv /\ ReportTypes /\ dropped \in SUBSET Tasks
  BY DEF CurrentInv, ReportInv, Queued
<1>1. /\ budget' = budget
      /\ orders' = [b \in Bands |-> RR!Drop(orders[b], dropped)]
      /\ watch' = [watch EXCEPT ![s] = <<>>]
      /\ Recompute(orders', budget, watch', shown \ {s}, {}, {})
  BY DEF DropPlaces
<1> HIDE DEF dropped
<1>2. ReportInv'
  BY <1>0, ReportsDrop
<1>3. OwnHeads(watch')
  <2>1. OwnHeads(watch)'
    BY <1>2, HeadsAreOwn, PTL
  <2> QED
    BY <2>1 DEF OwnHeads, Heads
<1>4. Housed(orders')
  <2>1. \A b \in Bands : /\ Sound(RR!Drop(orders[b], dropped))
                         /\ RR!Queued(RR!Drop(orders[b], dropped)) = RR!Queued(orders[b]) \ dropped
    BY <1>0, DropIsSound DEF CurrentInv, Housed
  <2>2. orders' \in [Bands -> RR!Orders]
    BY <1>2 DEF ReportInv, ReportTypes
  <2> QED
    BY <1>1, <2>1, <2>2 DEF CurrentInv, Housed
<1>5. ASSUME NEW c \in Heads(watch') \ ({} \cup (shown \ {s}))
      PROVE  last[Head(watch'[c])] = Counted + 1
  <2>1. c # s /\ watch'[c] = watch[c] /\ c \in Heads(watch)
    BY <1>0, <1>1, <1>5 DEF Heads, ReportTypes
  <2> QED
    BY <1>5, <2>1, UnshownAreLater
<1>6. Current(orders', budget, watch', shown', last')
  BY <1>0, <1>1, <1>3, <1>4, <1>5, RecomputeKeeps DEF CurrentInv
<1> QED
  BY <1>1, <1>2, <1>4, <1>6 DEF CurrentInv, Current, Housed, Heads

LEMMA CurrentInit ==
  ASSUME PlacesInit
  PROVE  CurrentInv
<1>1. ReportInv
  BY ReportInit, PlaceReportsAssumption
<1>2. Housed(orders)
  BY EmptyIsEmpty, EmptyIsSound DEF PlacesInit, Housed
<1>3. budget \in [Classes -> Nat]
  BY SelectionAssumption DEF PlacesInit
<1>4. Heads(watch) = {} /\ shown = {}
  BY DEF PlacesInit, Heads
<1> QED
  BY <1>1, <1>2, <1>3, <1>4 DEF CurrentInv, Current

LEMMA CurrentNext == CurrentInv /\ [PlacesNext]_placesVars => CurrentInv'
<1> SUFFICES ASSUME CurrentInv, [PlacesNext]_placesVars PROVE CurrentInv'
  OBVIOUS
<1>1. ReportInv'
  BY ReportNext DEF CurrentInv
<1>2. CASE PlacesNext
  <2>1. ASSUME NEW batch \in due, Deliver(batch) PROVE CurrentInv'
    <3>1. /\ orders' = orders /\ budget' = budget /\ watch' = watch
          /\ shown' = shown /\ last' = last
      BY <2>1 DEF Deliver
    <3> QED
      BY <1>1, <3>1 DEF CurrentInv, Current, Housed, Heads
  <2> QED
    BY <1>2, <2>1, AddKeepsCurrent, TakeKeepsCurrent, DropKeepsCurrent DEF PlacesNext
<1>3. CASE UNCHANGED placesVars
  BY <1>1, <1>3 DEF placesVars, CurrentInv, Current, Housed, Heads
<1> QED
  BY <1>2, <1>3

\* Every chat's reporting turn has its true place as its last one, or later than the
\* counted ones: though a recompute works out Counted picks on copies that hold each
\* person's first Counted tasks of a band, and looks only at the chats that were shown,
\* are picked now or changed who reports, nothing that moved is missed, whatever was
\* queued, taken or dropped (_recompute_locked, FairOrder.copy).
THEOREM PlacesStayTrue == PlacesSpec => []PlacesAreCurrent
<1>1. CurrentInv => PlacesAreCurrent
  <2> SUFFICES ASSUME CurrentInv, NEW s \in Heads(watch)
               PROVE  last[Head(watch[s])] = Min({PlaceIn(TrueOrder, Head(watch[s])), Counted + 1})
    BY DEF PlacesAreCurrent
  <2> DEFINE p == PlaceIn(TrueOrder, Head(watch[s]))
  <2>1. Everyone(orders) = Queued
    BY DEF Everyone, Queued
  <2>2. last[Head(watch[s])] = p /\ p \in 1..(Counted + 1)
    BY <2>1, PlacesAgree DEF CurrentInv, Current, TrueOrder
  <2> HIDE DEF p
  <2>3. {p, Counted + 1} \in SUBSET Nat /\ Counted + 1 \in Nat
    BY <2>2, PlaceReportsAssumption
  <2>4. Min({p, Counted + 1}) \in {p, Counted + 1} /\ \A n \in {p, Counted + 1} : Min({p, Counted + 1}) <= n
    BY <2>3, SameMin
  <2>5. Min({p, Counted + 1}) = p
    BY <2>2, <2>3, <2>4
  <2> QED
    BY <2>2, <2>5 DEF p
<1> QED
  BY <1>1, CurrentInit, CurrentNext, PTL DEF PlacesSpec

-----------------------------------------------------------------------------
(* Types *)

LEMMA TimedAreWorkers == since \subseteq Workers /\ [Next]_vars => (since \subseteq Workers)'
<1> SUFFICES ASSUME since \subseteq Workers, [Next]_vars PROVE since' \subseteq Workers
  OBVIOUS
<1>1. ASSUME NEW w \in Workers, Work(w) PROVE since' \subseteq Workers
  BY <1>1 DEF Work, Start, Ask, AskAndTake, WakeAndTake, AskAndWait, GiveUp, Take, Turn,
     Skip, BeginChat, FailLoad, EndEarly, Halt, Finish, FailChat, Done, DrainPass, Claim, NoClaim,
     HandleResults, Summarise, ReleaseClaim, SameQueue
<1>2. ASSUME NEW w \in Workers, Miss(w) \/ Die(w) PROVE since' \subseteq Workers
  BY <1>2 DEF Miss, Die
<1>3. ASSUME NEW t \in Tasks, Add(t) PROVE since' \subseteq Workers
  BY <1>3 DEF Add
<1>4. CASE Stop
  BY <1>4 DEF Stop, RequestStop, DropQueued
<1>5. CASE UNCHANGED vars
  BY <1>5 DEF vars
<1> QED
  BY <1>1, <1>2, <1>3, <1>4, <1>5 DEF Next

\* The queue and its workers keep to their types, whatever is dropped, dies or
\* forgets its task_done: no budget is overspent, no rank is negative, and no entry
\* names what is not a task.
THEOREM TypeCorrect == Spec => []TypeOK
<1>1. Init => since \subseteq Workers
  BY DEF Init
<1>2. LinesInv /\ since \subseteq Workers => TypeOK
  BY DEF LinesInv, Types, TypeOK
<1> QED
  BY <1>1, <1>2, TimedAreWorkers, LinesInit, LinesNext, PTL DEF Spec

\* deque.remove leaves a line of what was in it.
LEMMA RemovingKeepsType ==
  ASSUME NEW S, NEW s \in Seq(S), NEW t
  PROVE  RemoveFirst(s, t) \in Seq(S)
<1>1. CASE ~\E i \in 1..Len(s) : s[i] = t
  BY <1>1 DEF RemoveFirst
<1>2. CASE \E i \in 1..Len(s) : s[i] = t
  <2> DEFINE I == {i \in 1..Len(s) : s[i] = t}
             k == SelectInSeq(s, LAMBDA v : v = t)
  <2>0. I \in SUBSET Nat /\ I # {}
    BY <1>2
  <2>1. PICK i \in I : \A j \in I : i <= j
    BY ONLY <2>0, LeastOf
  <2>2. Min(I) = i
    <3>1. \A m \in I : (\A j \in I : m <= j) <=> m = i
      BY <2>1
    <3> QED
      BY <2>1, <3>1 DEF Min
  <2>3. k = i
    BY <2>0, <2>1, <2>2 DEF SelectInSeq
  <2>4. RemoveFirst(s, t) = SubSeq(s, 1, i - 1) \o SubSeq(s, i + 1, Len(s))
    BY <1>2, <2>3 DEF RemoveFirst, RemoveAt
  <2>5. i \in 1..Len(s)
    BY <2>1
  <2> QED
    BY ONLY <2>4, <2>5, Cut, s \in Seq(S)
<1> QED
  BY <1>1, <1>2

\* What PlacesTypeOK says and CurrentInv does not.
HearingTypes ==
    /\ chatLine \in [Sessions -> Seq(Tasks)]
    /\ last \in [Tasks -> Places \cup {NoPlace}]
    /\ seq > 0
    /\ \A b \in due : b.seq > 0 /\ b.reports \in [DOMAIN b.reports -> Places \cup {0}]
    /\ heard \in [Tasks -> Places \cup {0, NoPlace}]

\* A recompute reports places only, and 0 to the task that was started.
LEMMA RecomputeHears ==
  ASSUME ReportTypes, HearingTypes, NEW o, Housed(o), NEW bu \in [Classes -> Nat],
         NEW watch_, OwnHeads(watch_), NEW shown_, NEW touched, NEW started,
         Recompute(o, bu, watch_, shown_, touched, started)
  PROVE  /\ last' \in [Tasks -> Places \cup {NoPlace}]
         /\ seq' > 0
         /\ \A b \in due' : b.seq > 0 /\ b.reports \in [DOMAIN b.reports -> Places \cup {0}]
<1> DEFINE moves == Moves(o, bu, watch_, shown_, touched)
           reports == Overlaid(moves.places, [t \in started |-> 0])
<1>1. /\ last' = Overlaid(moves.places, last)
      /\ seq' = seq + 1 /\ seq \in Nat
      /\ \A b \in due' : b \in due \/ b = [seq |-> seq, reports |-> reports]
  BY DEF Recompute, ReportTypes
<1>2. DOMAIN moves.places \subseteq Tasks /\ \A t \in DOMAIN moves.places : moves.places[t] \in Places
  <2> DEFINE picks == PickOrder(o, bu)
             heads == Candidates(picks, shown_, touched) \cap Heads(watch_)
             place == [s \in heads |-> PlaceIn(picks, Head(watch_[s]))]
             moved == {s \in heads : place[s] # last[Head(watch_[s])]}
             places == [t \in {Head(watch_[s]) : s \in moved} |-> place[SessionOf[t]]]
  <2>1. moves.places = places
    BY DEF Moves
  <2>2. \A s \in heads : place[s] \in Places
    BY PlacesAgree DEF Places
  <2>3. moved \subseteq heads /\ heads \subseteq Heads(watch_)
    OBVIOUS
  <2>4. /\ DOMAIN places = {Head(watch_[s]) : s \in moved}
        /\ \A t \in DOMAIN places : places[t] = place[SessionOf[t]]
    OBVIOUS
  <2> HIDE DEF heads, place, moved, places, moves
  <2> QED
    BY <2>1, <2>2, <2>3, <2>4 DEF OwnHeads
<1>3. /\ DOMAIN reports = DOMAIN moves.places \cup started
      /\ \A t \in DOMAIN reports : reports[t] = IF t \in DOMAIN moves.places THEN moves.places[t] ELSE 0
      /\ reports = [t \in DOMAIN reports |-> reports[t]]
  BY DEF Overlaid
<1>4. last' = [t \in Tasks |-> IF t \in DOMAIN moves.places THEN moves.places[t] ELSE last[t]]
  BY <1>1, <1>2 DEF Overlaid, HearingTypes
<1> HIDE DEF moves, reports
<1>5. last' \in [Tasks -> Places \cup {NoPlace}]
  BY <1>2, <1>4 DEF HearingTypes
<1>6. reports \in [DOMAIN reports -> Places \cup {0}]
  BY <1>2, <1>3
<1>7. ASSUME NEW b \in due'
      PROVE  b.seq > 0 /\ b.reports \in [DOMAIN b.reports -> Places \cup {0}]
  <2> DEFINE new == [seq |-> seq, reports |-> reports]
  <2>1. new.seq = seq /\ new.reports = reports
    OBVIOUS
  <2>2. b \in due \/ b = new
    BY <1>1
  <2> HIDE DEF new
  <2> QED
    BY <1>6, <2>1, <2>2 DEF HearingTypes
<1> QED
  BY <1>1, <1>5, <1>7 DEF HearingTypes

LEMMA HearingNext ==
  CurrentInv /\ CurrentInv' /\ HearingTypes /\ [PlacesNext]_placesVars => HearingTypes'
<1> SUFFICES ASSUME CurrentInv, CurrentInv', HearingTypes, [PlacesNext]_placesVars
             PROVE  HearingTypes'
  OBVIOUS
<1>0. ReportTypes /\ Housed(orders') /\ budget' \in [Classes -> Nat] /\ OwnHeads(watch')
  <2>1. OwnHeads(watch)'
    BY HeadsAreOwn, PTL DEF CurrentInv
  <2> QED
    BY <2>1 DEF CurrentInv, ReportInv, Housed, OwnHeads, Heads
<1>1. ASSUME NEW t \in Tasks, AddPlaces(t) PROVE HearingTypes'
  <2>1. /\ chatLine' = [chatLine EXCEPT ![SessionOf[t]] = Append(@, t)] /\ heard' = heard
        /\ \/ last' = last /\ seq' = seq /\ due' = due
           \/ \E sh, touched : Recompute(orders', budget', watch', sh, touched, {})
    BY <1>1 DEF AddPlaces
  <2>2. chatLine' \in [Sessions -> Seq(Tasks)]
    <3>1. SessionOf[t] \in Sessions
      BY SelectionAssumption
    <3>2. Append(chatLine[SessionOf[t]], t) \in Seq(Tasks)
      BY <3>1, AppendProperties DEF HearingTypes
    <3> QED
      BY <2>1, <3>2 DEF HearingTypes
  <2> QED
    BY <1>0, <2>1, <2>2, RecomputeHears DEF HearingTypes
<1>2. ASSUME NEW E \in EligibleSets, NEW t \in E, TakePlaces(t, E) PROVE HearingTypes'
  <2>1. /\ chatLine' = [chatLine EXCEPT ![SessionOf[t]] = RemoveFirst(@, t)] /\ heard' = heard
        /\ \/ last' = last /\ seq' = seq /\ due' = due
           \/ \E sh, touched, started : Recompute(orders', budget', watch', sh, touched, started)
    BY <1>2 DEF TakePlaces
  <2>2. chatLine' \in [Sessions -> Seq(Tasks)]
    <3>1. RemoveFirst(chatLine[SessionOf[t]], t) \in Seq(Tasks)
      <4>1. SessionOf[t] \in Sessions
        BY SelectionAssumption DEF EligibleSets, Queued
      <4> QED
        BY <4>1, RemovingKeepsType DEF HearingTypes
    <3> QED
      BY <2>1, <3>1 DEF HearingTypes
  <2> QED
    BY <1>0, <2>1, <2>2, RecomputeHears DEF HearingTypes
<1>3. ASSUME NEW s \in Sessions, DropPlaces(s) PROVE HearingTypes'
  <2>1. /\ chatLine' = [chatLine EXCEPT ![s] = <<>>] /\ heard' = heard
        /\ \E sh, touched : Recompute(orders', budget', watch', sh, touched, {})
    BY <1>3 DEF DropPlaces
  <2>2. chatLine' \in [Sessions -> Seq(Tasks)]
    BY <2>1 DEF HearingTypes
  <2> QED
    BY <1>0, <2>1, <2>2, RecomputeHears DEF HearingTypes
<1>4. ASSUME NEW b \in due, Deliver(b) PROVE HearingTypes'
  <2>1. /\ chatLine' = chatLine /\ last' = last /\ seq' = seq /\ due' = due \ {b}
        /\ heard' = [t \in Tasks |-> IF t \in FreshOf(b) THEN b.reports[t] ELSE heard[t]]
    BY <1>4 DEF Deliver
  <2>2. \A t \in FreshOf(b) : b.reports[t] \in Places \cup {0}
    BY DEF FreshOf, HearingTypes
  <2> QED
    BY <2>1, <2>2 DEF HearingTypes
<1>5. CASE UNCHANGED placesVars
  BY <1>5 DEF placesVars, HearingTypes
<1> QED
  BY <1>1, <1>2, <1>3, <1>4, <1>5 DEF PlacesNext

\* The reports keep to their types: what a turn is told is a place, "or later", or 0, and
\* every batch under way is older than the number of the next one.
THEOREM PlacesTypeCorrect == PlacesSpec => []PlacesTypeOK
<1>1. PlacesInit => HearingTypes
  BY DEF PlacesInit, HearingTypes
<1>2. CurrentInv /\ HearingTypes => PlacesTypeOK
  <2> SUFFICES ASSUME CurrentInv, HearingTypes PROVE PlacesTypeOK
    OBVIOUS
  <2>1. ReportTypes /\ WatchedWait
    BY DEF CurrentInv, ReportInv
  <2>2. watch \in [Sessions -> Seq(Watched)]
    <3>1. ASSUME NEW s \in Sessions PROVE watch[s] \in Seq(Watched)
      <4>1. watch[s] \in Seq(Tasks) /\ Range(watch[s]) \subseteq Watched
        BY <2>1 DEF ReportTypes, WatchedWait
      <4>2. \A i \in 1..Len(watch[s]) : watch[s][i] \in Watched
        BY <4>1 DEF Range
      <4> QED
        BY <4>1, <4>2, SeqDef
    <3> QED
      BY <2>1, <3>1 DEF ReportTypes
  <2>3. shown \subseteq Sessions
    BY DEF CurrentInv, Current, Heads
  <2>4. \A b \in due : b.seq \in 1..(seq - 1)
    BY <2>1 DEF ReportTypes, HearingTypes
  <2> QED
    BY <2>1, <2>2, <2>3, <2>4 DEF PlacesTypeOK, CurrentInv, HearingTypes, ReportTypes
<1> QED
  BY <1>1, <1>2, CurrentInit, CurrentNext, HearingNext, PTL DEF PlacesSpec
=============================================================================
