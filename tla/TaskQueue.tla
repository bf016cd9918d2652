----------------------------- MODULE TaskQueue -----------------------------
(***************************************************************************)
(* The queue in front of the agent loops (vaf/core/task_queue.py), the     *)
(* workers that take turns from it and the drain that works beside it      *)
(* (the main loop of run_headless_agent in vaf/core/headless_runner.py).   *)
(*                                                                         *)
(* Every section under the queue's condition is one step.  A worker is at  *)
(* phase[w]:                                                               *)
(*   off      not started                                                  *)
(*   idle     about to call get()                                          *)
(*   waiting  inside get(), waiting on the condition                       *)
(*   setup    has a task; before the turn's own look at the stop request   *)
(*   chat     inside chat_step                                             *)
(*   ending   past the turn's last look at the stop request                *)
(*   drain    get() gave nothing; about to look for sub-agent results      *)
(*   results  has claimed a chat and handles its results                   *)
(*   summary  running the summary turn in that chat                        *)
(*   settled  about to release the claim                                   *)
(*   dead     the thread is gone                                           *)
(*                                                                         *)
(* Which task goes next is module Selection's subject, what waiting turns  *)
(* are told of their place module PlaceReports'.  Left out: clocks,        *)
(* samples and statistics, and active_task, which nothing reads.           *)
(***************************************************************************)
EXTENDS Selection, SequencesExt

\* A member of Tasks is a task object; once it is over it stands for a new one.
CONSTANTS Workers,
          Drainer,      \* worker 1, the one that drains sub-agent results
          LateStarters, \* workers whose start-up comes after others took turns
          Careless,     \* workers whose turn may end without task_done
          Mortal,       \* workers whose thread may die in a turn
          NoTask, NoSession,
          Summary       \* what runs in a chat the drain has claimed

ASSUME TaskQueueAssumption ==
    /\ LateStarters \subseteq Workers
    /\ Careless \subseteq Workers
    /\ Mortal \subseteq Workers
    /\ NoTask \notin Tasks
    /\ NoSession \notin Sessions
    /\ Summary \notin Tasks \cup {NoTask}

VARIABLES inflight,   \* _session_inflight
          byWorker,   \* _inflight_by_worker
          since,      \* the workers _inflight_since has a time for
          stops,      \* _stop_requests
          phase, turn,  \* where each worker is, and the task it runs
          claim,      \* the session the drain has claimed
          pressing,   \* the session stop_session is busy with
          meant       \* history: how a task was met by the last stop of its chat

vars == <<orders, chatLine, inflight, byWorker, since, budget, stops, phase,
          turn, claim, pressing, meant>>

Phases  == {"off", "idle", "waiting", "setup", "chat", "ending", "drain",
            "results", "summary", "settled", "dead"}
Turning == {"setup", "chat", "ending"}

Goto(w, p) == phase' = [phase EXCEPT ![w] = p]

Init ==
    /\ orders = [b \in Bands |-> RR!EmptyOrder]
    /\ chatLine = [s \in Sessions |-> <<>>]
    /\ inflight = {}
    /\ byWorker = [w \in Workers |-> NoTask]
    /\ since = {}
    /\ budget = Weight
    /\ stops = {}
    /\ phase = [w \in Workers |-> IF w \in LateStarters THEN "off" ELSE "idle"]
    /\ turn = [w \in Workers |-> NoTask]
    /\ claim = NoSession
    /\ pressing = NoSession
    /\ meant = [t \in Tasks |-> "no"]

-----------------------------------------------------------------------------
(* What may be taken: a task whose chat is not in flight. *)

\* Mutant: a chat whose turn is in flight is not skipped.
EligibleAll(busy) == Queued

Eligible(busy) == {t \in Queued : SessionOf[t] \notin busy}

-----------------------------------------------------------------------------
(* add, drop_queued_tasks_for_session and the stop flag. *)

\* A task object nothing refers to any more stands for a new one.
Over(t) == /\ t \notin Queued
           /\ \A w \in Workers : turn[w] # t /\ byWorker[w] # t

Add(t) ==
    /\ Over(t)
    /\ orders' = [orders EXCEPT ![Band(t)] = RR!Push(@, t)]
    /\ chatLine' = [chatLine EXCEPT ![SessionOf[t]] = Append(@, t)]
    /\ meant' = [meant EXCEPT ![t] =
                    IF pressing = SessionOf[t] THEN "queued" ELSE "no"]
    /\ UNCHANGED <<inflight, byWorker, since, budget, stops, phase, turn, claim,
                   pressing>>

\* stop_session sets the flag first ...
RequestStop(s) ==
    /\ pressing = NoSession
    /\ pressing' = s
    /\ stops' = stops \cup {s}
    /\ meant' = [t \in Tasks |->
                    IF SessionOf[t] # s THEN meant[t]
                    ELSE IF t \in Queued THEN "queued"
                    ELSE IF \E w \in Workers : turn[w] = t /\ phase[w] \in {"setup", "chat"}
                         THEN "turn"
                    ELSE meant[t]]
    /\ UNCHANGED <<orders, chatLine, inflight, byWorker, since, budget, phase,
                   turn, claim>>

\* Mutant: the chat's own line is forgotten about.
DropOrdersOnly ==
    /\ pressing # NoSession
    /\ LET dropped == {t \in Queued : SessionOf[t] = pressing}
       IN  orders' = [b \in Bands |-> RR!Drop(orders[b], dropped)]
    /\ pressing' = NoSession
    /\ UNCHANGED <<chatLine, inflight, byWorker, since, budget, stops, phase, turn,
                   claim, meant>>

\* ... and then, in a section of its own, drops what the chat has queued.
DropQueued ==
    /\ pressing # NoSession
    /\ LET dropped == {t \in Queued : SessionOf[t] = pressing}
       IN  orders' = [b \in Bands |-> RR!Drop(orders[b], dropped)]
    /\ chatLine' = [chatLine EXCEPT ![pressing] = <<>>]
    /\ pressing' = NoSession
    /\ UNCHANGED <<inflight, byWorker, since, budget, stops, phase, turn, claim,
                   meant>>

-----------------------------------------------------------------------------
(* get *)

\* Entries of threads that are gone.
Stale == {w \in Workers : byWorker[w] # NoTask /\ phase[w] = "dead"}

\* Mutant: asking for the next task does not end the previous one.
EndedIfStale(w) == Stale

\* Whose sessions worker w's get() frees on entry: its own previous task's (the
\* entry stays), and those of dead workers.
EndedBy(w) == Stale \cup (IF byWorker[w] = NoTask THEN {} ELSE {w})

SessionsOf(ended) == {SessionOf[byWorker[w]] : w \in ended}

\* The task leaves the order and its chat's line and is in flight.
Take(w, busy, entries) ==
    LET E == Eligible(busy) IN
    \E t \in E :
        /\ TaskIsNext(E, t)
        /\ orders' = [orders EXCEPT ![Band(t)] = RR!Serve(@, t)]
        /\ chatLine' = [chatLine EXCEPT ![SessionOf[t]] = RemoveFirst(@, t)]
        /\ inflight' = busy \cup {SessionOf[t]}
        /\ byWorker' = [entries EXCEPT ![w] = t]
        /\ since' = since \cup {w}
        /\ budget' = Spend(E, t)
        /\ turn' = [turn EXCEPT ![w] = t]
        /\ Goto(w, "setup")

FreedBy(w) == inflight \ SessionsOf(EndedBy(w))

Entries == [v \in Workers |-> IF v \in Stale THEN NoTask ELSE byWorker[v]]

AskAndTake(w) ==
    /\ phase[w] = "idle"
    /\ Take(w, FreedBy(w), Entries)
    /\ UNCHANGED <<stops, claim, pressing, meant>>

AskAndWait(w) ==
    /\ phase[w] = "idle"
    /\ Eligible(FreedBy(w)) = {}
    /\ inflight' = FreedBy(w)
    /\ byWorker' = Entries
    /\ Goto(w, "waiting")
    /\ UNCHANGED <<orders, chatLine, since, budget, stops, turn, claim, pressing,
                   meant>>

\* Notified, or timed out and looking once more.
WakeAndTake(w) ==
    /\ phase[w] = "waiting"
    /\ Take(w, inflight, byWorker)
    /\ UNCHANGED <<stops, claim, pressing, meant>>

GiveUp(w) ==
    /\ phase[w] = "waiting"
    /\ Eligible(inflight) = {}
    /\ Goto(w, IF w = Drainer THEN "drain" ELSE "idle")
    /\ UNCHANGED <<orders, chatLine, inflight, byWorker, since, budget, stops,
                   turn, claim, pressing, meant>>

-----------------------------------------------------------------------------
(* A turn, as the runner's loop runs it. *)

SameQueue == UNCHANGED <<orders, chatLine, inflight, byWorker, since, budget,
                         turn, claim, pressing, meant>>

ChatOf(w) == SessionOf[turn[w]]

\* A stop that waits for the turn skips it.
Skip(w) ==
    /\ phase[w] = "setup"
    /\ ChatOf(w) \in stops
    /\ stops' = stops \ {ChatOf(w)}
    /\ Goto(w, "ending")
    /\ SameQueue

\* Mutant: the flag is cleared before the turn looks at it.
BeginCleared(w) ==
    /\ phase[w] = "setup"
    /\ stops' = stops \ {ChatOf(w)}
    /\ Goto(w, "chat")
    /\ SameQueue

BeginChat(w) ==
    /\ phase[w] = "setup"
    /\ ChatOf(w) \notin stops
    /\ Goto(w, "chat")
    /\ UNCHANGED stops
    /\ SameQueue

\* The chat did not load: the turn does not run and takes its stop with it.
FailLoad(w) ==
    /\ phase[w] = "setup"
    /\ stops' = stops \ {ChatOf(w)}
    /\ Goto(w, "ending")
    /\ SameQueue

\* Refused, routed away, a command or a compaction: no chat_step.
EndEarly(w) ==
    /\ phase[w] = "setup"
    /\ Goto(w, "ending")
    /\ UNCHANGED stops
    /\ SameQueue

Halt(w) ==
    /\ phase[w] = "chat"
    /\ ChatOf(w) \in stops
    /\ stops' = stops \ {ChatOf(w)}
    /\ Goto(w, "ending")
    /\ SameQueue

Finish(w) ==
    /\ phase[w] = "chat"
    /\ ChatOf(w) \notin stops
    /\ Goto(w, "ending")
    /\ UNCHANGED stops
    /\ SameQueue

FailChat(w) ==
    /\ phase[w] = "chat"
    /\ Goto(w, "ending")
    /\ UNCHANGED stops
    /\ SameQueue

\* task_done: frees the session of the task it is given, or of the entry.
Done(w) ==
    /\ phase[w] = "ending"
    /\ \E resolved \in {turn[w], byWorker[w]} :
          inflight' = IF resolved = NoTask THEN inflight
                      ELSE inflight \ {SessionOf[resolved]}
    /\ byWorker' = [byWorker EXCEPT ![w] = NoTask]
    /\ since' = since \ {w}
    /\ turn' = [turn EXCEPT ![w] = NoTask]
    /\ Goto(w, "idle")
    /\ UNCHANGED <<orders, chatLine, budget, stops, claim, pressing, meant>>

\* An exception that only the loop's outer handler catches: no task_done.
Miss(w) ==
    /\ w \in Careless
    /\ phase[w] \in Turning
    /\ turn' = [turn EXCEPT ![w] = NoTask]
    /\ Goto(w, "idle")
    /\ UNCHANGED <<orders, chatLine, inflight, byWorker, since, budget, stops,
                   claim, pressing, meant>>

Die(w) ==
    /\ w \in Mortal
    /\ phase[w] \in Turning
    /\ turn' = [turn EXCEPT ![w] = NoTask]
    /\ Goto(w, "dead")
    /\ UNCHANGED <<orders, chatLine, inflight, byWorker, since, budget, stops,
                   claim, pressing, meant>>

\* A worker's start-up resets what is in flight.
Start(w) ==
    /\ phase[w] = "off"
    /\ inflight' = {}
    /\ byWorker' = [v \in Workers |-> NoTask]
    /\ since' = {}
    /\ Goto(w, "idle")
    /\ UNCHANGED <<orders, chatLine, budget, stops, turn, claim, pressing, meant>>

-----------------------------------------------------------------------------
(* The drain: a summary turn outside get() and task_done(). *)

\* Mutant: the drain does not ask whether the chat is busy.
ClaimAnyway(w, s) ==
    /\ phase[w] = "drain"
    /\ inflight' = inflight \cup {s}
    /\ claim' = s
    /\ Goto(w, "results")
    /\ UNCHANGED <<orders, chatLine, byWorker, since, budget, stops, turn,
                   pressing, meant>>

Claim(w, s) ==
    /\ phase[w] = "drain"
    /\ s \notin inflight
    /\ inflight' = inflight \cup {s}
    /\ claim' = s
    /\ Goto(w, "results")
    /\ UNCHANGED <<orders, chatLine, byWorker, since, budget, stops, turn,
                   pressing, meant>>

\* No result, or its chat is busy: it stays pending for a later pass.
NoClaim(w) ==
    /\ phase[w] = "drain"
    /\ Goto(w, "idle")
    /\ UNCHANGED stops
    /\ SameQueue

MayTakeStop == stops' \in {stops, stops \ {claim}}

\* A result that was cancelled takes the chat's stop request with it.
HandleResults(w) ==
    /\ phase[w] = "results"
    /\ MayTakeStop
    /\ Goto(w, "summary")
    /\ SameQueue

\* chat_step ends by itself or at a stop request, which it consumes.
Summarise(w) ==
    /\ phase[w] = "summary"
    /\ MayTakeStop
    /\ Goto(w, "settled")
    /\ SameQueue

ReleaseClaim(w) ==
    /\ phase[w] = "settled"
    /\ inflight' = inflight \ {claim}
    /\ claim' = NoSession
    /\ Goto(w, "idle")
    /\ UNCHANGED <<orders, chatLine, byWorker, since, budget, stops, turn,
                   pressing, meant>>

-----------------------------------------------------------------------------
Ask(w)  == AskAndTake(w) \/ AskAndWait(w) \/ WakeAndTake(w) \/ GiveUp(w)
Turn(w) == \/ Skip(w) \/ BeginChat(w) \/ FailLoad(w) \/ EndEarly(w)
           \/ Halt(w) \/ Finish(w) \/ FailChat(w) \/ Done(w)
DrainPass(w) == \/ \E s \in Sessions : Claim(w, s)
                \/ NoClaim(w) \/ HandleResults(w) \/ Summarise(w)
                \/ ReleaseClaim(w)

Work(w) == Ask(w) \/ Turn(w) \/ DrainPass(w) \/ Start(w)

Stop == (\E s \in Sessions : RequestStop(s)) \/ DropQueued

Next ==
    \/ \E t \in Tasks : Add(t)
    \/ Stop
    \/ \E w \in Workers : Work(w) \/ Miss(w) \/ Die(w)

Spec == Init /\ [][Next]_vars

\* Every thread that is in a step keeps running.
FairSpec == Spec /\ WF_vars(DropQueued) /\ \A w \in Workers : WF_vars(Work(w))

-----------------------------------------------------------------------------
TypeOK ==
    /\ orders \in [Bands -> RR!Orders]
    /\ chatLine \in [Sessions -> Seq(Tasks)]
    /\ inflight \subseteq Sessions
    /\ byWorker \in [Workers -> Tasks \cup {NoTask}]
    /\ since \subseteq Workers
    /\ budget \in [Classes -> Nat]
    /\ stops \subseteq Sessions
    /\ phase \in [Workers -> Phases]
    /\ turn \in [Workers -> Tasks \cup {NoTask}]
    /\ claim \in Sessions \cup {NoSession}
    /\ pressing \in Sessions \cup {NoSession}
    /\ meant \in [Tasks -> {"no", "queued", "turn"}]

-----------------------------------------------------------------------------
Takes(w) == turn[w] = NoTask /\ turn'[w] # NoTask

\* "One turn per chat at a time" (task_queue.py:19): two workers never run
\* turns of one chat together, and no worker runs a turn in a chat whose
\* sub-agent result the drain is summarising.  Both write the chat's history
\* and its file.
OneTurnPerChat ==
    /\ \A v, w \in Workers :
          v # w /\ turn[v] # NoTask /\ turn[w] # NoTask => ChatOf(v) # ChatOf(w)
    /\ \A w \in Workers : turn[w] # NoTask => ChatOf(w) # claim

\* _queued_by_session, which answers has_queued, is_busy_for_session and the
\* place of a reload, lists exactly what the orders hold, each task once.
LinesMatchOrders ==
    \A s \in Sessions :
        /\ Range(chatLine[s]) = {t \in Queued : SessionOf[t] = s}
        /\ IsInjective(chatLine[s])

\* "One person's own turns stay in arrival order" (task_queue.py:16): inside a
\* chat no turn overtakes an earlier one of the same person and band, however
\* often the chat was skipped because it was busy.
ChatTurnsInOrder ==
    [][\A w \in Workers : Takes(w) =>
         LET t    == turn'[w]
             line == chatLine[SessionOf[t]]
         IN  \A i, j \in DOMAIN line :
               i < j /\ line[j] = t =>
                   PersonOf[line[i]] # PersonOf[t] \/ Band(line[i]) # Band(t)]_vars

\* "A lower priority always goes first" (task_queue.py:8): a task is only taken
\* while every queued one of a lower priority number waits for a busy chat.
LowerPriorityFirst ==
    [][\A w \in Workers : Takes(w) =>
         \A u \in Queued :
             PriorityOf[u] < PriorityOf[turn'[w]] =>
                 SessionOf[u] \in inflight' \ {SessionOf[turn'[w]]}]_vars

Total(share) == share["interactive"] + share["automation"] + share["background"]

\* How many tasks of other classes can still be taken before one of class c.
Distance(c) ==
    Total(budget) - budget[c]
        + (IF budget[c] > 0 THEN 0 ELSE Total(Weight) - Weight[c])

\* The classes share the workers by their weights: as long as class c has a task
\* whose chat is free, every task of another class that is taken brings c's turn
\* closer.  So a class waits for at most twice the weight of the others.
ClassComesCloser ==
    [][\A c \in Classes, w \in Workers :
         /\ ~Legacy /\ Takes(w) /\ ClassOf[turn'[w]] # c
         /\ \E u \in Queued : ClassOf[u] = c /\ SessionOf[u] \notin inflight'
         => Distance(c)' < Distance(c)]_vars

\* A stop pressed while a turn was before its last look at the flag is still
\* there when the turn looks: nothing else has consumed it.
StopReachesTurn ==
    \A w \in Workers :
        phase[w] \in {"setup", "chat"} /\ meant[turn[w]] = "turn" =>
            ChatOf(w) \in stops

\* "A stop requested for this turn ends with it" (headless_runner.py:1943): the
\* flag a turn finds was set for that turn, never one left over from an earlier
\* press.
StopIsForThisTurn ==
    \A w \in Workers :
        phase[w] \in {"setup", "chat"} /\ ChatOf(w) \in stops =>
            meant[turn[w]] # "no"

\* stalled_tasks, "Tasks that have been IN FLIGHT longer than the threshold"
\* (task_queue.py:384), reads _inflight_since: a worker in it has a task whose
\* chat is in flight.
StalledAreInFlight ==
    \A w \in since : byWorker[w] # NoTask /\ SessionOf[byWorker[w]] \in inflight

\* Every queued turn is taken or dropped: no chat stays parked behind a turn
\* that ended without task_done.
QueuedIsServed == \A t \in Tasks : t \in Queued ~> t \notin Queued

-----------------------------------------------------------------------------
Running(s) ==
    IF s = claim THEN Summary
    ELSE IF \E w \in Workers : turn[w] # NoTask /\ ChatOf(w) = s
         THEN turn[CHOOSE w \in Workers : turn[w] # NoTask /\ ChatOf(w) = s]
    ELSE NoTask

Promise == INSTANCE ChatTurns WITH
               Nobody  <- NoTask,
               waiting <- Queued,
               running <- [s \in Sessions |-> Running(s)]

\* The queue implements ChatTurns: every section of add, get, task_done,
\* drop_queued_tasks_for_session and the claims is one of its steps or none.
KeepsPromise == Promise!Spec
=============================================================================
