----------------------------- MODULE RoundRobin -----------------------------
(***************************************************************************)
(* The order in which waiting items are taken: round robin across keys     *)
(* (people), first in first out within a key (FairOrder in                 *)
(* vaf/core/fair_queue.py).                                                *)
(*                                                                         *)
(* The code orders by two counters that only grow, the arrival number of   *)
(* an item and the serve stamp of a key, and reads nothing of them but     *)
(* their relative order.  Here both are kept as ranks: an order is a       *)
(* record of                                                               *)
(*   line    for a waiting item its place by arrival, 0 for any other;     *)
(*   served  for a key with a serve stamp its place by last service, 0 for *)
(*           a key that counts as never served.                            *)
(* Module FairOrder keeps the counters and is proved to implement this     *)
(* one.  These operators have no state and are used by every module that   *)
(* queues something fairly.                                                *)
(***************************************************************************)
EXTENDS Naturals, FiniteSets

CONSTANTS Items,   \* what can wait
          Keys,    \* who it can wait for
          KeyOf    \* the key each item waits under

Orders == [line : [Items -> Nat], served : [Keys -> Nat]]

EmptyOrder == [line |-> [i \in Items |-> 0], served |-> [k \in Keys |-> 0]]

Queued(o) == {i \in Items : o.line[i] > 0}

QueuedOf(o, k) == {i \in Queued(o) : KeyOf[i] = k}

\* Counters replaced by their ranks, from 1; 0 stays 0.
Ranks(f) ==
    [x \in DOMAIN f |->
        IF f[x] = 0 THEN 0
        ELSE Cardinality({y \in DOMAIN f : f[y] > 0 /\ f[y] <= f[x]})]

\* Item i goes before item j: its key was served less recently, and between
\* keys served equally long ago (never) the earlier arrival goes first.
Ahead(o, i, j) ==
    LET si == o.served[KeyOf[i]]
        sj == o.served[KeyOf[j]]
    IN  si < sj \/ (si = sj /\ o.line[i] < o.line[j])

\* The item a pop restricted to the items of E takes.
IsNext(o, E, i) ==
    /\ i \in E \cap Queued(o)
    /\ \A j \in (E \cap Queued(o)) \ {i} : Ahead(o, i, j)

Next(o, E) == CHOOSE i \in Items : IsNext(o, E, i)

Push(o, i) == [o EXCEPT !.line[i] = Cardinality(Queued(o)) + 1]

\* Once nobody waits the serve history is forgotten.
Forgetting(line, served) ==
    IF \A i \in Items : line[i] = 0 THEN [k \in Keys |-> 0] ELSE served

\* The items of S leave without being served.
Drop(o, S) ==
    IF S \cap Queued(o) = {} THEN o
    ELSE LET line == [i \in Items |-> IF i \in S THEN 0 ELSE o.line[i]]
         IN  [line |-> Ranks(line), served |-> Forgetting(line, o.served)]

\* Item i is served, and its key becomes the one served last.
Serve(o, i) ==
    LET line   == [o.line EXCEPT ![i] = 0]
        served == [o.served EXCEPT ![KeyOf[i]] = Cardinality(Keys) + 1]
    IN  [line |-> Ranks(line), served |-> Forgetting(line, Ranks(served))]
=============================================================================
