---------------------------- MODULE PlaceReports ----------------------------
(***************************************************************************)
(* What waiting turns hear of their place in line (on_wait, _Watch,        *)
(* _recompute_locked, _deliver and wait_for_session in                     *)
(* vaf/core/task_queue.py).                                                *)
(*                                                                         *)
(* add, get and a drop each work out the places that changed inside the    *)
(* queue's section and hand the reports out after it, so the batches of    *)
(* several threads are delivered in any order.  Which chats are busy is    *)
(* module TaskQueue's subject: here a take sees any set of busy chats.     *)
(* Each task is queued at most once, which bounds every behaviour.  Left   *)
(* out: the ETA, the waited time and the sender's grace and throttle.      *)
(* What TaskQueue has a name for is called ...Places here: the proofs      *)
(* extend both modules.                                                    *)
(***************************************************************************)
EXTENDS Selection, SequencesExt

CONSTANTS Watched,      \* tasks added with on_wait
          Counted,      \* PLACES_COUNTED
          Threads,      \* bound on the batches computed and not yet delivered
          NoPlace       \* nothing computed or heard yet

ASSUME PlaceReportsAssumption ==
    /\ Watched \subseteq Tasks
    /\ {Counted, Threads} \subseteq Nat \ {0}
    /\ NoPlace \notin 0 .. Counted + 1

VARIABLES watch,      \* _watch: by chat the watched tasks, the first one reports
          shown,      \* _shown
          last,       \* a watch's last_position
          seq,        \* _watch_seq
          delivered,  \* a watch's delivered_seq
          due,        \* batches computed and not yet delivered
          heard,      \* what on_wait was last called with
          fate        \* history: what became of each task

placesVars == <<orders, budget, chatLine, watch, shown, last, seq, delivered,
                due, heard, fate>>

PlacesInit ==
    /\ orders = [b \in Bands |-> RR!EmptyOrder]
    /\ budget = Weight
    /\ chatLine = [s \in Sessions |-> <<>>]
    /\ watch = [s \in Sessions |-> <<>>]
    /\ shown = {}
    /\ last = [t \in Tasks |-> NoPlace]
    /\ seq = 1
    /\ delivered = [t \in Tasks |-> 0]
    /\ due = {}
    /\ heard = [t \in Tasks |-> NoPlace]
    /\ fate = [t \in Tasks |-> "new"]

-----------------------------------------------------------------------------
(* Places: the queue's own selection, run on copies. *)

At(o, b) == INSTANCE Selection WITH orders <- o, budget <- b

\* The first n picks from the orders o with the budget b, busy chats ignored.
Picks(o, b, n) ==
    LET after[k \in 0 .. n] ==
            IF k = 0 THEN [orders |-> o, budget |-> b, picked |-> <<>>]
            ELSE LET before == after[k - 1]
                     E == At(before.orders, before.budget)!Queued
                     t == CHOOSE t \in E :
                            At(before.orders, before.budget)!TaskIsNext(E, t)
                 IN  IF E = {} THEN before
                     ELSE [orders |-> [before.orders EXCEPT ![Band(t)] = RR!Serve(@, t)],
                           budget |-> At(before.orders, before.budget)!Spend(E, t),
                           picked |-> Append(before.picked, t)]
    IN  after[n].picked

\* FairOrder.copy(limit): each person's first Counted tasks of a band.
Limited(order) ==
    RR!Drop(order, {t \in RR!Queued(order) :
        Cardinality({u \in RR!QueuedOf(order, PersonOf[t]) :
                        order.line[u] < order.line[t]}) >= Counted})

PickOrder(o, b) == Picks([c \in Bands |-> Limited(o[c])], b, Counted)

\* A task's place among the picks; further back it is Counted + 1, "or later".
PlaceIn(picks, t) == Min({i \in DOMAIN picks : picks[i] = t} \cup {Counted + 1})

\* What a reload or a chat switch is told of chat s.
WaitForSession(s) ==
    LET top == PickOrder(orders, budget)
    IN  IF chatLine[s] = <<>> THEN NoPlace
        ELSE Min({i \in DOMAIN top : SessionOf[top[i]] = s} \cup {Counted + 1})

-----------------------------------------------------------------------------
Heads(watch_) == {s \in Sessions : watch_[s] # <<>>}

\* Mutant: only the chats within the counted places are looked at.
CandidatesInTop(picks, shown_, touched) ==
    touched \cup {SessionOf[picks[i]] : i \in DOMAIN picks}

\* The chats that can have moved.
Candidates(picks, shown_, touched) ==
    touched \cup shown_ \cup {SessionOf[picks[i]] : i \in DOMAIN picks}

\* _recompute_locked, with the queue's new state and the watch lists: the chats
\* shown from now on, and the new place of each reporting turn that moved.
Moves(o, b, watch_, shown_, touched) ==
    LET picks == PickOrder(o, b)
        heads == Candidates(picks, shown_, touched) \cap Heads(watch_)
        place == [s \in heads |-> PlaceIn(picks, Head(watch_[s]))]
        moved == {s \in heads : place[s] # last[Head(watch_[s])]}
    IN  [shown |-> {s \in heads : place[s] <= Counted},
         places |-> [t \in {Head(watch_[s]) : s \in moved} |-> place[SessionOf[t]]]]

\* The values of f, and those of g where f has none.
Overlaid(f, g) == [x \in DOMAIN f \cup DOMAIN g |-> IF x \in DOMAIN f THEN f[x] ELSE g[x]]

\* started is the taken task that hears 0, if any.
Recompute(o, b, watch_, shown_, touched, started) ==
    Cardinality(due) < Threads /\
    \E moves \in {Moves(o, b, watch_, shown_, touched)} :
        /\ shown' = moves.shown
        /\ last' = Overlaid(moves.places, last)
        /\ seq' = seq + 1
        /\ due' = LET reports == Overlaid(moves.places, [t \in started |-> 0])
                  IN  IF DOMAIN reports = {} THEN due
                      ELSE due \cup {[seq |-> seq, reports |-> reports]}

-----------------------------------------------------------------------------
(* add, get, drop_queued_tasks_for_session *)

AddPlaces(t) ==
    LET s        == SessionOf[t]
        orders_  == [orders EXCEPT ![Band(t)] = RR!Push(@, t)]
        watch_   == IF t \in Watched THEN [watch EXCEPT ![s] = Append(@, t)] ELSE watch
        touched  == IF watch[s] = <<>> /\ t \in Watched THEN {s} ELSE {}
    IN
    /\ fate[t] = "new"
    /\ fate' = [fate EXCEPT ![t] = "queued"]
    /\ orders' = orders_
    /\ chatLine' = [chatLine EXCEPT ![s] = Append(@, t)]
    /\ watch' = watch_
    /\ IF Heads(watch_) = {} THEN UNCHANGED <<shown, last, seq, due>>
       ELSE Recompute(orders_, budget, watch_, shown, touched, {})
    /\ UNCHANGED <<budget, delivered, heard>>

\* What a worker may find eligible, by which chats are busy.
EligibleSets == {{u \in Queued : SessionOf[u] \notin busy} : busy \in SUBSET Sessions}

\* A worker takes the next of the tasks of E.
TakePlaces(t, E) ==
    LET s        == SessionOf[t]
        orders_  == [orders EXCEPT ![Band(t)] = RR!Serve(@, t)]
        watch_   == [watch EXCEPT ![s] = RemoveFirst(@, t)]
        touched  == IF watch[s] # <<>> /\ Head(watch[s]) = t THEN {s} ELSE {}
        started  == IF t \in Watched /\ last[t] # NoPlace THEN {t} ELSE {}
    IN
    /\ TaskIsNext(E, t)
    /\ fate' = [fate EXCEPT ![t] = "taken"]
    /\ orders' = orders_
    /\ budget' = Spend(E, t)
    /\ chatLine' = [chatLine EXCEPT ![s] = RemoveFirst(@, t)]
    /\ watch' = watch_
    /\ IF Heads(watch) = {} THEN UNCHANGED <<shown, last, seq, due>>
       ELSE Recompute(orders_, Spend(E, t), watch_,
                      IF watch_[s] = <<>> THEN shown \ {s} ELSE shown, touched, started)
    /\ UNCHANGED <<delivered, heard>>

\* The dropped turns leave the watch without a word.
DropPlaces(s) ==
    LET dropped  == {t \in Queued : SessionOf[t] = s}
        orders_  == [b \in Bands |-> RR!Drop(orders[b], dropped)]
        watch_   == [watch EXCEPT ![s] = <<>>]
    IN
    /\ chatLine[s] # <<>>
    /\ fate' = [t \in Tasks |-> IF t \in dropped THEN "dropped" ELSE fate[t]]
    /\ orders' = orders_
    /\ chatLine' = [chatLine EXCEPT ![s] = <<>>]
    /\ watch' = watch_
    /\ Recompute(orders_, budget, watch_, shown \ {s}, {}, {})
    /\ UNCHANGED <<budget, delivered, heard>>

-----------------------------------------------------------------------------
(* _deliver: one batch under the notify lock, the batches in any order. *)

\* Mutant: no look at the sequence number.
AllOf(batch) == DOMAIN batch.reports

\* The reports that are not older than what their task has heard.
FreshOf(batch) == {t \in DOMAIN batch.reports : batch.seq > delivered[t]}

Deliver(batch) ==
    /\ due' = due \ {batch}
    /\ delivered' = [t \in Tasks |-> IF t \in FreshOf(batch) THEN batch.seq ELSE delivered[t]]
    /\ heard' = [t \in Tasks |-> IF t \in FreshOf(batch) THEN batch.reports[t] ELSE heard[t]]
    /\ UNCHANGED <<orders, budget, chatLine, watch, shown, last, seq, fate>>

PlacesNext ==
    \/ \E t \in Tasks : AddPlaces(t)
    \/ \E E \in EligibleSets : \E t \in E : TakePlaces(t, E)
    \/ \E s \in Sessions : DropPlaces(s)
    \/ \E batch \in due : Deliver(batch)

PlacesSpec == PlacesInit /\ [][PlacesNext]_placesVars

-----------------------------------------------------------------------------
Places == 1 .. Counted + 1

PlacesTypeOK ==
    /\ orders \in [Bands -> RR!Orders]
    /\ budget \in [Classes -> Nat]
    /\ chatLine \in [Sessions -> Seq(Tasks)]
    /\ watch \in [Sessions -> Seq(Watched)]
    /\ shown \subseteq Sessions
    /\ last \in [Tasks -> Places \cup {NoPlace}]
    /\ seq \in Nat
    /\ delivered \in [Tasks -> Nat]
    /\ \A batch \in due :
          batch.seq \in 1 .. seq - 1 /\ batch.reports \in [DOMAIN batch.reports -> Places \cup {0}]
    /\ heard \in [Tasks -> Places \cup {0, NoPlace}]
    /\ fate \in [Tasks -> {"new", "queued", "taken", "dropped"}]

-----------------------------------------------------------------------------
(* What the queue promises of places. *)

\* The order in which workers would take the whole queue, on copies that leave
\* nothing out.
TrueOrder == Picks(orders, budget, Cardinality(Queued))

\* "Bounded cost" is not bought with a wrong place: though a recompute works out
\* Counted picks on limited copies and looks only at chats that can have moved,
\* every chat's reporting turn has its true place as its last one, whatever was
\* queued, taken or dropped, in whatever order chats were busy.
PlacesAreCurrent ==
    LET picks == TrueOrder
    IN  \A s \in Heads(watch) :
            last[Head(watch[s])] = Min({PlaceIn(picks, Head(watch[s])), Counted + 1})

\* "An older place never shows last" (_deliver): once the last batch that
\* concerns a turn is delivered, what it has heard is its last place, or 0 if a
\* worker took it, in whatever order the threads delivered.
NoOldPlaceStays ==
    \A t \in Watched :
        fate[t] \in {"queued", "taken"} /\ (\A batch \in due : t \notin DOMAIN batch.reports)
        => heard[t] = IF fate[t] = "taken" /\ last[t] # NoPlace THEN 0 ELSE last[t]

\* "wait_for_session gives the same place to a reload"
\* (docs/agents/TOOL_SUPERVISION.md:291), of every chat that reports a place.
ReloadShowsSame ==
    \A s \in Heads(watch) : last[Head(watch[s])] = WaitForSession(s)

\* "A task dropped by Stop hears nothing more"
\* (tests/test_task_queue_fair_order.py:230).
DroppedHearNothing ==
    [][\A t \in Tasks : fate[t] = "dropped" => heard'[t] = heard[t]]_placesVars
=============================================================================
