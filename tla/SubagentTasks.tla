--------------------------- MODULE SubagentTasks ---------------------------
(***************************************************************************)
(* Sub-agents run in processes of their own and report through files       *)
(* (vaf/core/subagent_ipc.py): a task is created in the pending file,      *)
(* moves to the active file when its process is up, and becomes a result   *)
(* when it reports or is declared dead.  The runner's drain delivers       *)
(* results to their chats (Agent._check_subagent_results and the drain in  *)
(* vaf/core/headless_runner.py).                                           *)
(*                                                                         *)
(* A change of the files is a list of writes, one file each, made under    *)
(* the mutation guard: `writing` holds the writes still to come, and the   *)
(* guard is free when there are none.  Plain reads do not take the guard.  *)
(*                                                                         *)
(* The drain reaps before it looks for results, but so do a chat's turn, a *)
(* terminal and a workflow that waits, at any time: the reapers are        *)
(* actions of their own.                                                   *)
(*                                                                         *)
(* child[t] is none, created (the record is there, the process is not), up *)
(* (the process runs), over or cancelled.  quiet has the tasks whose last  *)
(* sign of life is older than the reaper's limit.  What a result says is   *)
(* left out, except that a made-up one is not named: it has lost the       *)
(* task's record and with it the fan-out.                                  *)
(***************************************************************************)
EXTENDS Naturals, FiniteSets, Sequences, SequencesExt

CONSTANTS Tasks, Chats,
          ChatOf,       \* the chat a task works for
          FanOf,        \* its fan-out, NoFan for none
          Stalling,     \* tasks that may be silent for long while they live
          Overlong,     \* tasks that may run into the overall time limit
          Loose,        \* tasks whose process a stop cannot kill
          Fragile,      \* tasks whose process may die between two writes
          Single,       \* one worker: the drain and the turns take turns
          NoFan, NoChat, Runner

ASSUME SubagentTasksAssumption ==
    /\ IsFiniteSet(Tasks)
    /\ ChatOf \in [Tasks -> Chats]
    /\ Stalling \subseteq Tasks /\ Overlong \subseteq Tasks
    /\ Loose \subseteq Tasks /\ Fragile \subseteq Tasks
    /\ Single \in BOOLEAN
    /\ NoChat \notin Chats
    /\ Runner \notin Tasks

VARIABLES pending, active,   \* the tasks in these files
          results,           \* the results file
          writing, writer,   \* the guard: the writes to come, and whose they are
          child, quiet,
          busy,              \* chats in which a turn runs
          stopping,          \* active tasks stop_session has yet to fail
          phase,             \* the drain: idle, hold, claim or deliver
          batch,             \* the results it has read
          picked,            \* the numbers, in batch, of those it works on
          serving,           \* the chat it has claimed
          told,              \* history: how often a task's chat was told a result
          stopped            \* history: tasks that were there when a stop was pressed

files == <<pending, active, results>>
guard == <<writing, writer>>
drain == <<phase, batch, picked, serving>>
vars  == <<files, guard, child, quiet, busy, stopping, drain, told, stopped>>

Record(t)   == [task |-> t, named |-> TRUE]
Nameless(t) == [task |-> t, named |-> FALSE]
Results     == [task : Tasks, named : BOOLEAN]

Reported(s) == {s[i].task : i \in DOMAIN s}

Init ==
    /\ pending = {} /\ active = {} /\ results = <<>>
    /\ writing = <<>> /\ writer = Runner
    /\ child = [t \in Tasks |-> "none"]
    /\ quiet = {}
    /\ busy = {}
    /\ stopping = {}
    /\ phase = "idle" /\ batch = <<>> /\ picked = {} /\ serving = NoChat
    /\ told = [t \in Tasks |-> 0]
    /\ stopped = {}

-----------------------------------------------------------------------------
(* Changing the files *)

Leave(file, S) == [file |-> file, out |-> S, in |-> {}, posts |-> <<>>]
Enter(file, S) == [file |-> file, out |-> {}, in |-> S, posts |-> <<>>]
Post(s)        == [file |-> "results", out |-> {}, in |-> {}, posts |-> s]

Free == writing = <<>>

\* A mutation takes the guard and has its writes before it.
Mutate(who, writes) ==
    /\ Free
    /\ writing' = writes
    /\ writer' = who

Write ==
    /\ writing # <<>>
    /\ LET w == Head(writing)
           After(file, S) == IF w.file = file THEN (S \ w.out) \cup w.in ELSE S
       IN  /\ pending' = After("pending", pending)
           /\ active' = After("active", active)
           /\ results' = results \o w.posts
    /\ writing' = Tail(writing)
    /\ UNCHANGED <<writer, child, quiet, busy, stopping, drain, told, stopped>>

\* The process that writes is killed; the guard is free again.
Cut ==
    /\ writing # <<>>
    /\ writer \in Fragile
    /\ writing' = <<>>
    /\ UNCHANGED <<files, writer, child, quiet, busy, stopping, drain, told, stopped>>

\* Mutant: the results file is not written when the task was found pending.
SettleActive(t, r) ==
    IF t \in active THEN <<Leave("active", {t}), Post(<<r>>)>>
    ELSE IF t \in pending THEN <<Leave("pending", {t})>>
    ELSE <<>>

\* The writes that turn a task into a result, out of the file it is in.
Settle(t, r) ==
    IF t \in active THEN <<Leave("active", {t}), Post(<<r>>)>>
    ELSE IF t \in pending THEN <<Leave("pending", {t}), Post(<<r>>)>>
    ELSE <<>>

\* complete_task makes up a record for a task it does not find ...
Completing(t) ==
    IF t \in active \cup pending THEN Settle(t, Record(t)) ELSE <<Post(<<Nameless(t)>>)>>

\* Mutant: fail_task makes one up as well.
FailingAnyway(t) == Completing(t)

\* ... and fail_task does nothing then.
Failing(t) == Settle(t, Record(t))

-----------------------------------------------------------------------------
(* The chat's turn starts sub-agents; each lives in its own process. *)

Create(t) ==
    /\ Free
    /\ child[t] = "none"
    /\ ChatOf[t] \in busy
    /\ pending' = pending \cup {t}
    /\ child' = [child EXCEPT ![t] = "created"]
    /\ UNCHANGED <<active, results, guard, quiet, busy, stopping, drain, told, stopped>>

Open(t) ==
    /\ child[t] = "created"
    /\ child' = [child EXCEPT ![t] = "up"]
    /\ UNCHANGED <<files, guard, quiet, busy, stopping, drain, told, stopped>>

\* The terminal did not open: cancel_task, which may find nothing any more.
FailSpawn(t) ==
    /\ Free
    /\ child[t] = "created"
    /\ pending' = pending \ {t}
    /\ child' = [child EXCEPT ![t] = "cancelled"]
    /\ UNCHANGED <<active, results, guard, quiet, busy, stopping, drain, told, stopped>>

\* Both the parent and the child mark the task running; the second one finds
\* nothing to move.
Mark(t) ==
    /\ child[t] = "up"
    /\ t \in pending
    /\ Mutate(t, <<Leave("pending", {t}), Enter("active", {t})>>)
    /\ UNCHANGED <<files, child, quiet, busy, stopping, drain, told, stopped>>

Beat(t) ==
    /\ Free
    /\ child[t] = "up"
    /\ t \in active \cap quiet
    /\ quiet' = quiet \ {t}
    /\ UNCHANGED <<files, guard, child, busy, stopping, drain, told, stopped>>

Over(t) == child' = [child EXCEPT ![t] = "over"]

Complete(t) ==
    /\ child[t] = "up"
    /\ Mutate(t, Completing(t))
    /\ Over(t)
    /\ UNCHANGED <<files, quiet, busy, stopping, drain, told, stopped>>

Fail(t) ==
    /\ child[t] = "up"
    /\ Mutate(t, Failing(t))
    /\ Over(t)
    /\ UNCHANGED <<files, quiet, busy, stopping, drain, told, stopped>>

\* The window is closed, the process is killed, or it had nothing to report.
Vanish(t) ==
    /\ child[t] = "up"
    /\ Over(t)
    /\ UNCHANGED <<files, guard, quiet, busy, stopping, drain, told, stopped>>

\* The parent's watcher saw the process exit with an error and calls fail_task
\* (Platform.open_new_terminal, vaf/core/platform.py).
Watch(t) ==
    /\ child[t] = "over"
    /\ t \in pending \cup active
    /\ Mutate(Runner, Failing(t))
    /\ UNCHANGED <<files, child, quiet, busy, stopping, drain, told, stopped>>

-----------------------------------------------------------------------------
(* The reapers *)

\* Its last sign of life has become old.
Silence(t) ==
    /\ t \in (pending \cup active) \ quiet
    /\ child[t] = "over" \/ t \in Stalling
    /\ quiet' = quiet \cup {t}
    /\ UNCHANGED <<files, guard, child, busy, stopping, drain, told, stopped>>

\* The records of S one after the other.
Listed(S) == LET s == SetToSeq(S) IN [i \in DOMAIN s |-> Record(s[i])]

\* Mutant: a task that never started is not looked for.
ReapedActive == <<Leave("active", active \cap quiet), Post(Listed(active \cap quiet))>>

Reaped ==
    (IF active \cap quiet = {} THEN <<>>
     ELSE <<Leave("active", active \cap quiet), Post(Listed(active \cap quiet))>>)
    \o (IF pending \cap quiet = {} THEN <<>>
        ELSE <<Leave("pending", pending \cap quiet), Post(Listed(pending \cap quiet))>>)

CheckZombies ==
    /\ (pending \cup active) \cap quiet # {}
    /\ Mutate(Runner, Reaped)
    /\ UNCHANGED <<files, child, quiet, busy, stopping, drain, told, stopped>>

\* cleanup_stale_active_tasks: the overall limit, alive or not.
CleanUpStale(t) ==
    /\ t \in active \cap Overlong
    /\ Mutate(Runner, Failing(t))
    /\ UNCHANGED <<files, child, quiet, busy, stopping, drain, told, stopped>>

-----------------------------------------------------------------------------
(* stop_session: kill what runs, then fail what the active file lists. *)

Stop(c) ==
    LET mine == {t \in Tasks : ChatOf[t] = c} IN
    /\ stopping = {}
    /\ stopped \cap mine = {}
    /\ stopped' = stopped \cup {t \in mine : child[t] \in {"created", "up"}}
    /\ child' = [t \in Tasks |-> IF t \in mine \ Loose /\ child[t] = "up"
                                 THEN "over" ELSE child[t]]
    /\ stopping' = active \cap mine
    /\ UNCHANGED <<files, guard, quiet, busy, drain, told>>

FailStopped(t) ==
    /\ t \in stopping
    /\ Mutate(Runner, Failing(t))
    /\ stopping' = stopping \ {t}
    /\ UNCHANGED <<files, child, quiet, busy, drain, told, stopped>>

-----------------------------------------------------------------------------
(* The drain, and the turns it shares the chats with. *)

TurnBegins(c) ==
    /\ c \notin busy /\ c # serving
    /\ Single => phase = "idle" /\ busy = {}
    /\ busy' = busy \cup {c}
    /\ UNCHANGED <<files, guard, child, quiet, stopping, drain, told, stopped>>

TurnEnds(c) ==
    /\ c \in busy
    /\ \A t \in Tasks : ChatOf[t] = c => child[t] # "created"
    /\ busy' = busy \ {c}
    /\ UNCHANGED <<files, guard, child, quiet, stopping, drain, told, stopped>>

Look ==
    /\ phase = "idle"
    /\ results # <<>>
    /\ Single => busy = {}
    /\ batch' = results
    /\ picked' = DOMAIN results
    /\ phase' = "hold"
    /\ UNCHANGED <<files, guard, child, quiet, busy, stopping, serving, told, stopped>>

\* A fan-out is open while a member is at work or pending.  (A pending member
\* stops counting after ten minutes; the reaper is faster.)
OpenFans == {FanOf[t] : t \in pending \cup active} \ {NoFan}

\* Results of open fan-outs are held back.
HoldOpenFanouts ==
    /\ phase = "hold"
    /\ Free
    /\ picked' = {i \in picked : batch[i].named => FanOf[batch[i].task] \notin OpenFans}
    /\ phase' = "claim"
    /\ UNCHANGED <<files, guard, child, quiet, busy, stopping, batch, serving, told, stopped>>

\* One chat a pass: the first one that is not busy.
Claim ==
    /\ phase = "claim"
    /\ \E i \in picked :
          LET c == ChatOf[batch[i].task] IN
          /\ c \notin busy
          /\ \A j \in picked : j < i => ChatOf[batch[j].task] \in busy
          /\ serving' = c
          /\ picked' = {j \in picked : ChatOf[batch[j].task] = c}
    /\ phase' = "deliver"
    /\ UNCHANGED <<files, guard, child, quiet, busy, stopping, batch, told, stopped>>

ClaimNone ==
    /\ phase = "claim"
    /\ \A i \in picked : ChatOf[batch[i].task] \in busy
    /\ phase' = "idle"
    /\ batch' = <<>>
    /\ picked' = {}
    /\ UNCHANGED <<files, guard, child, quiet, busy, stopping, serving, told, stopped>>

IsFirst(i, t) ==
    results[i].task = t /\ \A j \in 1..(i-1) : results[j].task # t

\* Mutant: the result stays in the file.
ConsumeNothing(t) == results

\* consume_result takes the first result of the task, if there still is one.
Consumed(t) ==
    IF t \notin Reported(results) THEN results
    ELSE RemoveAt(results, CHOOSE i \in DOMAIN results : IsFirst(i, t))

\* The next of its results is told to the chat and consumed.
Deliver ==
    /\ phase = "deliver"
    /\ Free
    /\ \E i \in picked :
          LET t == batch[i].task IN
          /\ \A j \in picked : i <= j
          /\ told' = [told EXCEPT ![t] = @ + 1]
          /\ results' = Consumed(t)
          /\ picked' = picked \ {i}
    /\ UNCHANGED <<pending, active, guard, child, quiet, busy, stopping, phase,
                   batch, serving, stopped>>

\* The summary turn is over.
Release ==
    /\ phase = "deliver"
    /\ picked = {}
    /\ phase' = "idle"
    /\ batch' = <<>>
    /\ serving' = NoChat
    /\ UNCHANGED <<files, guard, child, quiet, busy, stopping, picked, told, stopped>>

-----------------------------------------------------------------------------
Spawning(t)  == Open(t) \/ FailSpawn(t)
Reporting(t) == Complete(t) \/ Fail(t) \/ Vanish(t)
Draining     == HoldOpenFanouts \/ Claim \/ ClaimNone \/ Deliver \/ Release

Next ==
    \/ Write \/ Cut
    \/ \E t \in Tasks : \/ Create(t) \/ Spawning(t) \/ Mark(t) \/ Beat(t)
                        \/ Reporting(t) \/ Watch(t) \/ Silence(t)
                        \/ CleanUpStale(t) \/ FailStopped(t)
    \/ CheckZombies
    \/ \E c \in Chats : Stop(c) \/ TurnBegins(c) \/ TurnEnds(c)
    \/ Look \/ Draining

Spec == Init /\ [][Next]_vars

\* Nothing is assumed of the sub-agents, of their watchers or of a stop.  A write
\* is finished, a spawn opens its terminal or fails and is marked by its parent,
\* time passes, turns end, and the runner's queue is empty again and again, so
\* that its worker reaps, looks for results and delivers them.
FairSpec ==
    /\ Spec
    /\ WF_vars(Write)
    /\ WF_vars(\E t \in Tasks : Spawning(t))
    /\ \A t \in Tasks : WF_vars(child[t] = "over" /\ Silence(t))
    /\ SF_vars(\E t \in Tasks : Mark(t))
    /\ SF_vars(CheckZombies \/ \E t \in Tasks : CleanUpStale(t))
    /\ \A c \in Chats : WF_vars(TurnEnds(c))
    /\ SF_vars(Look) /\ SF_vars(Draining)

-----------------------------------------------------------------------------
Writes == [file : {"pending", "active", "results"}, out : SUBSET Tasks,
           in : SUBSET Tasks, posts : Seq(Results)]

\* A task is in one of the two files at most.
TypeOK ==
    /\ pending \subseteq Tasks /\ active \subseteq Tasks /\ pending \cap active = {}
    /\ results \in Seq(Results)
    /\ writing \in Seq(Writes) /\ writer \in Tasks \cup {Runner}
    /\ child \in [Tasks -> {"none", "created", "up", "over", "cancelled"}]
    /\ quiet \subseteq Tasks
    /\ busy \subseteq Chats
    /\ stopping \subseteq Tasks
    /\ phase \in {"idle", "hold", "claim", "deliver"}
    /\ batch \in Seq(Results) /\ picked \subseteq DOMAIN batch
    /\ serving \in Chats \cup {NoChat}
    /\ told \in [Tasks -> Nat]
    /\ stopped \subseteq Tasks

Written == UNION {w.in \cup Reported(w.posts) : w \in {writing[i] : i \in DOMAIN writing}}

\* The task was started, its chat was told nothing, and no file knows it.
Lost(t) ==
    /\ child[t] \in {"created", "up", "over"} /\ told[t] = 0
    /\ t \notin pending \cup active \cup Reported(results) \cup Written

\* "To ensure the result is never lost" (subagent_ipc.py:889), and a task whose
\* process is killed is found by its missing heartbeat: a task that was started
\* and whose chat was told nothing is still somewhere in the files or about to
\* be written to one.
NeverLost == \A t \in Tasks : ~Lost(t)

\* A process that is killed between its writes to the files can lose its own
\* task, and no other: the rest are still found or told.
OthersNeverLost == \A t \in Tasks \ Fragile : ~Lost(t)

\* "Results are delivered exactly once, by the drain" (workflow_executor.py:338).
ToldOnce == \A t \in Tasks : told[t] <= 1

\* "A fan-out's results are delivered together, as one answer, once the last
\* member is in" (subagent_ipc.py:641): when a member's result is delivered,
\* every other member that was started has been told or is in the same batch.
FanoutTogether ==
    [][\A t, u \in Tasks :
         /\ told'[t] > told[t] /\ (\E i \in picked \ picked' : batch[i].named)
         /\ FanOf[t] # NoFan /\ FanOf[u] = FanOf[t]
         /\ child[u] \in {"created", "up", "over"}
         => told[u] > 0 \/ \E i \in picked : batch[i].task = u]_vars

\* stop_session stops "its sub-agents" (revocation.py:113): once the stop is
\* through, no sub-agent that was there when it was pressed is at work.
StopEndsTasks ==
    stopping = {} /\ Free => \A t \in stopped : child[t] # "up"

\* Whatever happens to its process, a task that was started is told to its chat,
\* or was cancelled because its process could not be started: nobody waits for a
\* crashed sub-agent, and no fan-out is held for ever.
EveryTaskIsTold ==
    \A t \in Tasks : child[t] # "none" ~> told[t] > 0 \/ child[t] = "cancelled"

StateOf(t) ==
    IF child[t] = "none" THEN "new"
    ELSE IF child[t] = "cancelled" THEN "withdrawn"
    ELSE IF t \in Reported(results) THEN "answered"
    ELSE IF told[t] > 0 THEN "told" ELSE "asked"

Promise == INSTANCE Errands WITH state <- [t \in Tasks |-> StateOf(t)]

\* When sub-agents keep their heartbeats, the files implement Errands: one
\* answer a task, told once.
KeepsErrands == Promise!Spec
=============================================================================
