------------------------------ MODULE FairOrder ------------------------------
(***************************************************************************)
(* FairOrder of vaf/core/fair_queue.py with the data it keeps: a FIFO of   *)
(* numbered entries per key, the serve stamps, and the two counters.       *)
(*                                                                         *)
(* Every call runs under its owner's lock, so a call is one step.          *)
(* MaxArrivals bounds the arrival counter for model checking; MaxStamps is *)
(* _MAX_STAMPS.  turns is a history variable: turns[a][b] counts how often *)
(* key b was served since key a was last served or last became empty,      *)
(* counting only pops in which an item of a could have been taken.         *)
(* The names of the specification begin with Order: ResourceQueue_proofs   *)
(* extends this module beside ResourceQueue.                               *)
(***************************************************************************)
EXTENDS Naturals, Sequences, FiniteSets

CONSTANTS Items, Keys, KeyOf, MaxStamps, MaxArrivals

ASSUME FairOrderAssumption ==
    /\ IsFiniteSet(Items) /\ IsFiniteSet(Keys)
    /\ KeyOf \in [Items -> Keys]
    /\ MaxStamps \in Nat \ {0}
    /\ MaxArrivals \in Nat

VARIABLES queues,     \* per key the waiting entries, each [n |-> arrival, item |-> i]
          served,     \* per key its serve stamp, 0 when it has none
          arrivals,   \* the last arrival number given out
          stamp,      \* the last serve stamp given out
          turns       \* history

orderVars == <<queues, served, arrivals, stamp, turns>>

Entries == [n : Nat, item : Items]

ItemsIn(q) == {q[x].item : x \in 1..Len(q)}

Waiting(qs) == UNION {ItemsIn(qs[k]) : k \in Keys}

WaitingKeys(qs) == {k \in Keys : qs[k] # <<>>}

\* The entries of q whose items are not in S, in their order.
Without(q, S) ==
    LET kept == {x \in DOMAIN q : q[x].item \notin S}
        Place(x) == Cardinality({y \in kept : y <= x})
    IN  [p \in 1..Cardinality(kept) |-> q[CHOOSE x \in kept : Place(x) = p]]

OrderInit ==
    /\ queues = [k \in Keys |-> <<>>]
    /\ served = [k \in Keys |-> 0]
    /\ arrivals = 0
    /\ stamp = 0
    /\ turns = [a \in Keys |-> [b \in Keys |-> 0]]

-----------------------------------------------------------------------------
(* Picking *)

\* The first entry of q that E accepts.
FirstIn(q, E) ==
    CHOOSE x \in 1..Len(q) :
        q[x].item \in E /\ \A y \in 1..(x-1) : q[y].item \notin E

KeysWith(qs, E) == {k \in Keys : ItemsIn(qs[k]) \cap E # {}}

\* Mutant: arrival alone decides, the serve stamps are not compared.
RanksByArrival(qs, sv, E, a, b) ==
    qs[a][FirstIn(qs[a], E)].n < qs[b][FirstIn(qs[b], E)].n

\* The rank of key k among the keys with an item in E: (serve stamp, arrival of
\* the first item in E), compared in that order.
RanksBefore(qs, sv, E, a, b) ==
    LET na == qs[a][FirstIn(qs[a], E)].n
        nb == qs[b][FirstIn(qs[b], E)].n
    IN  sv[a] < sv[b] \/ (sv[a] = sv[b] /\ na < nb)

BestKey(qs, sv, E) ==
    CHOOSE a \in KeysWith(qs, E) :
        \A b \in KeysWith(qs, E) \ {a} : RanksBefore(qs, sv, E, a, b)

Picked(qs, sv, E) == LET k == BestKey(qs, sv, E) IN qs[k][FirstIn(qs[k], E)].item

\* Mutant: serving a key leaves no stamp.
StampForgotten(sv, k, n) == sv

\* Key k is served now, under stamp n.
Stamped(sv, k, n) == [sv EXCEPT ![k] = n]

\* Mutant: the history outlives the last waiter.
TrimNever(qs, sv) == sv

\* Dropping stamps: all of them when nobody waits, else the oldest ones of idle
\* keys beyond MaxStamps.
Trim(qs, sv) ==
    LET stamped == {k \in Keys : sv[k] > 0}
        idle    == stamped \ WaitingKeys(qs)
        excess  == IF Cardinality(stamped) > MaxStamps
                   THEN Cardinality(stamped) - MaxStamps ELSE 0
        dropped == {k \in idle : Cardinality({l \in idle : sv[l] < sv[k]}) < excess}
    IN  IF WaitingKeys(qs) = {} THEN [k \in Keys |-> 0]
        ELSE [k \in Keys |-> IF k \in dropped THEN 0 ELSE sv[k]]

-----------------------------------------------------------------------------
(* Operations *)

\* A new entry joins the end of its key's line.
Joined(q, e) == Append(q, e)

Push(i) ==
    /\ i \notin Waiting(queues)
    /\ arrivals < MaxArrivals
    /\ arrivals' = arrivals + 1
    /\ queues' = [queues EXCEPT ![KeyOf[i]] = Joined(@, [n |-> arrivals + 1, item |-> i])]
    /\ UNCHANGED <<served, stamp, turns>>

\* After keys leave the waiting set, nobody counts turns against them.
Counted(tn, qs) ==
    [a \in Keys |-> IF qs[a] = <<>> THEN [b \in Keys |-> 0] ELSE tn[a]]

\* pop(eligible): E is the set of items the predicate accepts.
Pop(E) ==
    /\ KeysWith(queues, E) # {}
    /\ LET i    == Picked(queues, served, E)
           k    == KeyOf[i]
           qs   == [queues EXCEPT ![k] = Without(@, {i})]
           could == KeysWith(queues, E)
       IN  /\ queues' = qs
           /\ stamp' = stamp + 1
           /\ served' = Trim(qs, Stamped(served, k, stamp + 1))
           /\ turns' = Counted([a \in Keys |->
                           [b \in Keys |->
                               IF a = k THEN 0
                               ELSE IF b = k /\ a \in could THEN turns[a][b] + 1
                               ELSE turns[a][b]]], qs)
    /\ UNCHANGED arrivals

\* remove_where(predicate), and remove(item) for a single item.
RemoveWhere(S) ==
    /\ S \cap Waiting(queues) # {}
    /\ queues' = [k \in Keys |-> Without(queues[k], S)]
    /\ served' = Trim(queues', served)
    /\ turns' = Counted(turns, queues')
    /\ UNCHANGED <<arrivals, stamp>>

\* ResourceQueue.estimate: a probe is pushed, its place read, and removed again.
Probe ==
    /\ arrivals < MaxArrivals
    /\ arrivals' = arrivals + 1
    /\ served' = Trim(queues, served)
    /\ UNCHANGED <<queues, stamp, turns>>

OrderNext ==
    \/ \E i \in Items : Push(i)
    \/ \E E \in SUBSET Waiting(queues) : Pop(E)
    \/ \E S \in SUBSET Waiting(queues) : RemoveWhere(S)
    \/ Probe

OrderSpec == OrderInit /\ [][OrderNext]_orderVars

-----------------------------------------------------------------------------
(* Places *)

\* The pops of everyone, n deep: [left |-> queues, sv |-> stamps, out |-> items taken].
Pops(qs, sv, st, depth) ==
    LET step[n \in 0..depth] ==
          IF n = 0 THEN [left |-> qs, sv |-> sv, out |-> <<>>]
          ELSE LET s == step[n-1]
               IN  IF WaitingKeys(s.left) = {} THEN s
                   ELSE LET i == Picked(s.left, s.sv, Items)
                            k == KeyOf[i]
                        IN  [left |-> [s.left EXCEPT ![k] = Tail(@)],
                             sv   |-> Stamped(s.sv, k, st + n),
                             out  |-> Append(s.out, i)]
    IN  step[depth].out

PickOrder == Pops(queues, served, stamp, Cardinality(Waiting(queues)))

\* position(item): its place in the simulated order of pops.
Position(i) == CHOOSE x \in 1..Len(PickOrder) : PickOrder[x] = i

\* Mutant: the copy keeps one entry too few of a key.
LimitedShort(qs, limit) ==
    [k \in Keys |-> SubSeq(qs[k], 1, IF Len(qs[k]) < limit THEN Len(qs[k]) ELSE limit - 1)]

\* copy(limit): each key keeps its first limit entries.
Limited(qs, limit) ==
    [k \in Keys |-> SubSeq(qs[k], 1, IF Len(qs[k]) < limit THEN Len(qs[k]) ELSE limit)]

-----------------------------------------------------------------------------
(* Properties *)

\* Types: entries sit under their own key in arrival order, and no stamp or
\* arrival number is ahead of its counter.
OrderTypeOK ==
    /\ queues \in [Keys -> Seq(Entries)]
    /\ served \in [Keys -> 0..stamp]
    /\ arrivals \in 0..MaxArrivals
    /\ stamp \in Nat
    /\ turns \in [Keys -> [Keys -> Nat]]
    /\ \A k \in Keys : \A x \in 1..Len(queues[k]) :
          /\ KeyOf[queues[k][x].item] = k
          /\ queues[k][x].n <= arrivals
          /\ x > 1 => queues[k][x-1].n < queues[k][x].n

\* While an item of a key could be taken, no other key is served twice before that
\* key is served: one person's backlog costs another at most one turn per round
\* (fair_queue.py, "round robin across people").  It needs the stamps of all keys
\* to be kept, so it is stated where MaxStamps covers Keys.
BoundedOvertaking == \A a, b \in Keys : turns[a][b] <= 1

\* The place position() simulates is the place by rounds: an item that is the m-th
\* of its key is behind exactly the earlier-round items of every key and the
\* m-th items of the keys that rank before its own.
PlaceByRounds(i) ==
    LET Nth(j) == CHOOSE x \in 1..Len(queues[KeyOf[j]]) : queues[KeyOf[j]][x].item = j
        KeyBefore(a, b) == a # b /\ RanksBefore(queues, served, Items, a, b)
    IN  1 + Cardinality({j \in Waiting(queues) :
                \/ Nth(j) < Nth(i)
                \/ Nth(j) = Nth(i) /\ KeyBefore(KeyOf[j], KeyOf[i])})

PositionIsByRounds == \A i \in Waiting(queues) : Position(i) = PlaceByRounds(i)

\* A copy limited to n items per key pops the same first n items as the full
\* order ("which is all the next limit pops can reach").
LimitedCopyPopsTheSame ==
    \A n \in 1..Cardinality(Waiting(queues)) :
        Pops(Limited(queues, n), served, stamp, n) = SubSeq(PickOrder, 1, n)

\* Dropping stamps beyond MaxStamps keeps the order of the keys (the comment at
\* fair_queue.py:111, "Dropping the OLDEST stamps preserves the order").
TrimKeepsOrder ==
    [][\A a, b \in Keys :
          (0 < served[a] /\ served[a] < served[b] /\ served'[a] > 0) => served'[b] > 0]_orderVars

-----------------------------------------------------------------------------
(* Refinement: with the counters forgotten this is RoundRobin. *)

ByRank == INSTANCE RoundRobin

Abstract ==
    [line   |-> ByRank!Ranks([i \in Items |->
                    IF i \in Waiting(queues)
                    THEN (CHOOSE e \in {queues[KeyOf[i]][x] : x \in 1..Len(queues[KeyOf[i]])} :
                             e.item = i).n
                    ELSE 0]),
     served |-> ByRank!Ranks(served)]

\* Every call acts on the ranks exactly as the RoundRobin operators do, and a probe
\* not at all: nothing but the relative order is ever read.
ActsAsRoundRobin ==
    [][\A old \in {Abstract}, new \in {Abstract'} :
         \/ new = old
         \/ \E i \in Items \ Waiting(queues) : new = ByRank!Push(old, i)
         \/ \E E \in SUBSET ByRank!Queued(old) :
               E # {} /\ new = ByRank!Serve(old, ByRank!Next(old, E))
         \/ \E S \in SUBSET ByRank!Queued(old) : new = ByRank!Drop(old, S)]_orderVars
=============================================================================
