---------------------------- MODULE Automations ----------------------------
(***************************************************************************)
(* The scheduled automations (vaf/core/automation.py) and their run lock   *)
(* (vaf/core/lock_manager.py).  The records are files; the server's one    *)
(* scheduler holds a copy of them and an armed job for each, and starts a  *)
(* due job in a thread; a terminal can run an automation too.  A run works *)
(* on the record it was started with and saves it when it succeeds.        *)
(* Changes of the records go through managers of their own, which read the *)
(* files, write them, and have the scheduler read them again.              *)
(*                                                                         *)
(* A job is due or not yet: Slot lets the time of every armed job come.    *)
(* Whether an account has access as a run of its begins is left open too.  *)
(* Work, an agent's turn or a workflow, ends well or badly at any time.    *)
(***************************************************************************)
EXTENDS Naturals, FiniteSets

CONSTANTS Tasks,
          Threads,         \* the runs of the server's process
          Terminals,       \* the runs with a process of their own
          Long,            \* the runs that may outlast the two hours of a lock
          Elsewhere,       \* whether another process changes records too
          MaxChanges, MaxCrashes,              \* bounds
          Gone, NoJob, Free, Dead, NoEdit

Runs == Threads \cup Terminals

Versions == 0..MaxChanges
Record   == [once : BOOLEAN, ver : Versions, enabled : BOOLEAN, done : BOOLEAN]
Job      == [rec : Record, due : BOOLEAN]
Changes  == [task : Tasks, rec : Record, ver : Versions,
             step : {"save", "refresh"}, here : BOOLEAN]

ASSUME AutomationsAssumption ==
    /\ Tasks # {} /\ Long \subseteq Runs
    /\ Threads \cap Terminals = {}
    /\ Free \notin Runs /\ Dead \notin Runs /\ Free # Dead
    /\ Gone \notin Record /\ NoJob \notin Job /\ NoEdit \notin Changes
    /\ Elsewhere \in BOOLEAN /\ MaxChanges \in Nat /\ MaxCrashes \in Nat

VARIABLES disk, trash,   \* the records in the files
          loaded,        \* the records as the scheduler's manager read them
          job,           \* the armed jobs: a record, and whether it is due
          sched,         \* the scheduler: "down", "up", or how far it is re-reading
          lock,          \* per task: the run that wrote the lock file, or a dead process
          at, on, rec,   \* per run: where it is, its task, the record it works on
          seen,          \* the lock as it found it
          knows,         \* whether the terminal's manager still lists the task
          editor,        \* the change under way: its task, the record it read, its step
          changes, crashes,
          latest,        \* history: the version of a task last written by a person
          wins,          \* its one-time runs in the server that succeeded since it was
                         \* made or restored
          byHand,        \* whether such a run in a terminal succeeded since then
          unread,        \* whether it was restored, or changed by another process, and
                         \* the files were not read since
          refused,       \* whether a run in the server was turned away since they were
          meddled,       \* whether a change and a run of it were under way together
          broken         \* whether its lock was taken from a live run, by age or by
                         \* two looks before either wrote, and a run of then still goes

files   == <<disk, trash>>
clock   == <<loaded, job, sched>>
runs    == <<at, on, rec, seen, knows>>
counts  == <<changes, crashes>>
history == <<latest, wins, byHand, unread, refused>>
vars    == <<files, clock, lock, runs, editor, counts, history, meddled, broken>>

Inside   == {"work", "save", "spend", "release"}
Stages   == {"idle", "look", "take", "consume"} \cup Inside

\* Types.
TypeOK ==
    /\ disk \in [Tasks -> Record \cup {Gone}] /\ trash \in [Tasks -> Record \cup {Gone}]
    /\ loaded \in [Tasks -> Record \cup {Gone}]
    /\ job \in [Tasks -> Job \cup {NoJob}]
    /\ sched \in {"down", "up", "clear", "load"}
    /\ lock \in [Tasks -> Runs \cup {Free, Dead}]
    /\ at \in [Runs -> Stages] /\ on \in [Runs -> Tasks]
    /\ rec \in [Runs -> Record \cup {Gone}]
    /\ seen \in [Runs -> Runs \cup {Free, Dead}] /\ knows \in [Runs -> BOOLEAN]
    /\ editor \in Changes \cup {NoEdit}
    /\ changes \in 0..MaxChanges /\ crashes \in 0..MaxCrashes
    /\ latest \in [Tasks -> Versions] /\ wins \in [Tasks -> 0..2]
    /\ byHand \in [Tasks -> BOOLEAN]
    /\ unread \in [Tasks -> BOOLEAN] /\ refused \in [Tasks -> BOOLEAN]
    /\ meddled \in [Tasks -> BOOLEAN] /\ broken \in [Tasks -> BOOLEAN]

New(b) == [once |-> b, ver |-> 0, enabled |-> TRUE, done |-> FALSE]

Init ==
    /\ disk \in [Tasks -> {New(TRUE), New(FALSE)}] /\ trash = [t \in Tasks |-> Gone]
    /\ loaded = disk
    /\ job = [t \in Tasks |-> [rec |-> disk[t], due |-> FALSE]]
    /\ sched = "up"
    /\ lock = [t \in Tasks |-> Free]
    /\ at = [r \in Runs |-> "idle"] /\ on = [r \in Runs |-> CHOOSE t \in Tasks : TRUE]
    /\ rec = [r \in Runs |-> Gone] /\ seen = [r \in Runs |-> Free]
    /\ knows = [r \in Runs |-> FALSE]
    /\ editor = NoEdit
    /\ changes = 0 /\ crashes = 0
    /\ latest = [t \in Tasks |-> 0] /\ wins = [t \in Tasks |-> 0]
    /\ byHand = [t \in Tasks |-> FALSE]
    /\ unread = [t \in Tasks |-> FALSE] /\ refused = [t \in Tasks |-> FALSE]
    /\ meddled = [t \in Tasks |-> FALSE] /\ broken = [t \in Tasks |-> FALSE]

UnderWay(t) == \E r \in Runs : on[r] = t /\ at[r] # "idle"

\* A change of the task is in its middle, every file is being read again, or it
\* was restored or changed elsewhere and is not read yet.
Changing(t) == (editor # NoEdit /\ editor.task = t) \/ sched \in {"clear", "load"} \/ unread[t]

-----------------------------------------------------------------------------
(* The scheduler *)

\* The next time of every armed job comes.
Slot ==
    /\ \E t \in Tasks : job[t] # NoJob /\ ~job[t].due
    /\ job' = [t \in Tasks |-> IF job[t] = NoJob THEN NoJob ELSE [job[t] EXCEPT !.due = TRUE]]
    /\ UNCHANGED <<files, loaded, sched, lock, runs, editor, counts, history, broken>>

\* A due job is started in a thread with the record it was armed with; a
\* one-time job ends with that, the others wait for their next time.
Fire(t, r) ==
    /\ sched # "down" /\ r \in Threads /\ at[r] = "idle"
    /\ job[t] # NoJob /\ job[t].due
    /\ at' = [at EXCEPT ![r] = "look"] /\ on' = [on EXCEPT ![r] = t]
    /\ rec' = [rec EXCEPT ![r] = job[t].rec]
    /\ job' = [job EXCEPT ![t] = IF job[t].rec.once THEN NoJob ELSE [job[t] EXCEPT !.due = FALSE]]
    /\ UNCHANGED <<files, loaded, sched, lock, seen, knows, editor, counts, history, broken>>

\* Mutant: a one-time task that has run is armed like any other.
NeverSpent(t) == FALSE

\* A one-time task that has run is not armed again: its file is removed.
Spent(t) == loaded[t] # Gone /\ loaded[t].enabled /\ loaded[t].once /\ loaded[t].done

Armed(t) == loaded[t] # Gone /\ loaded[t].enabled /\ ~Spent(t)

Arm ==
    /\ sched = "load"
    /\ sched' = "up"
    /\ job' = [t \in Tasks |-> IF Armed(t) THEN [rec |-> loaded[t], due |-> FALSE] ELSE NoJob]
    /\ disk' = [t \in Tasks |-> IF Spent(t) THEN Gone ELSE disk[t]]
    /\ loaded' = [t \in Tasks |-> IF Spent(t) THEN Gone ELSE loaded[t]]
    /\ UNCHANGED <<trash, lock, runs, editor, counts, history, broken>>

\* The scheduler's manager forgets its records, and reads the files.
Clear ==
    /\ sched = "up"
    /\ loaded' = [t \in Tasks |-> Gone] /\ sched' = "clear"
    /\ UNCHANGED <<files, job, lock, runs, history, broken>>

ReadFiles ==
    /\ loaded' = disk
    /\ unread' = [t \in Tasks |-> FALSE] /\ refused' = [t \in Tasks |-> FALSE]

Load ==
    /\ sched = "clear"
    /\ ReadFiles /\ sched' = "load"
    /\ UNCHANGED <<files, job, lock, runs, editor, counts, latest, wins, byHand, broken>>

\* The server starts: its scheduler reads the files and arms them.
Start ==
    /\ sched = "down"
    /\ ReadFiles /\ sched' = "load"
    /\ UNCHANGED <<files, job, lock, runs, editor, counts, latest, wins, byHand, broken>>

-----------------------------------------------------------------------------
(* A run *)

Goto(r, stage) == at' = [at EXCEPT ![r] = stage] /\ UNCHANGED rec

End(r) == at' = [at EXCEPT ![r] = "idle"] /\ rec' = [rec EXCEPT ![r] = Gone]

\* A person runs an automation in a terminal, whose manager reads the files.
RunByHand(t, r) ==
    /\ r \in Terminals /\ at[r] = "idle" /\ disk[t] # Gone
    /\ changes < MaxChanges /\ changes' = changes + 1
    /\ at' = [at EXCEPT ![r] = "look"]
    /\ on' = [on EXCEPT ![r] = t] /\ rec' = [rec EXCEPT ![r] = disk[t]]
    /\ knows' = [knows EXCEPT ![r] = TRUE]
    /\ UNCHANGED <<files, clock, lock, seen, editor, crashes, history, broken>>

\* Mutant: a lock is no reason to wait.
AlwaysTakeable(held) == TRUE

\* The lock may be taken: it is free, its process is dead, or it is too old.
Takeable(held) == held \in {Free, Dead} \cup Long

\* A run is turned away when its account has no access, before it looks at the
\* lock, or by the lock of another one; a one-time task is not consumed then.
TurnedAway(r) ==
    /\ End(r)
    /\ refused' = [refused EXCEPT ![on[r]] = @ \/ r \in Threads]
    /\ UNCHANGED seen

Look(r) ==
    /\ at[r] = "look"
    /\ \/ /\ Takeable(lock[on[r]])
          /\ seen' = [seen EXCEPT ![r] = lock[on[r]]] /\ Goto(r, "take")
          /\ UNCHANGED refused
       \/ TurnedAway(r)
    /\ UNCHANGED <<files, clock, lock, on, knows, editor, counts, latest, wins, byHand, unread, broken>>

\* The lock file is written, whatever it holds by now.
Take(r) ==
    /\ at[r] = "take"
    /\ LET t == on[r] IN
       /\ broken' = [broken EXCEPT ![t] =
              @ \/ (lock[t] \in Runs /\ (lock[t] \in Long \/ lock[t] # seen[r]))]
       /\ lock' = [lock EXCEPT ![t] = r]
    /\ seen' = [seen EXCEPT ![r] = Free]
    /\ Goto(r, "work")
    /\ UNCHANGED <<files, clock, on, knows, editor, counts, history>>

\* Mutant: a run that fails leaves without the lock's release.
WorkKeepsLock(r) ==
    /\ at[r] = "work"
    /\ \/ Goto(r, "save")
       \/ End(r)
    /\ UNCHANGED <<files, clock, lock, on, seen, knows, editor, counts, history, broken>>

\* The work is done; or it failed, or its account was revoked.
Work(r) ==
    /\ at[r] = "work"
    /\ \/ Goto(r, "save")
       \/ Goto(r, "release")
    /\ UNCHANGED <<files, clock, lock, on, seen, knows, editor, counts, history, broken>>

\* The run stamps its record and writes it over the file.
Save(r) ==
    /\ at[r] = "save"
    /\ LET t == on[r] IN
       /\ disk' = [disk EXCEPT ![t] = [rec[r] EXCEPT !.done = TRUE]]
       /\ wins' = [wins EXCEPT ![t] =
              IF rec[r].once /\ r \in Threads /\ @ < 2 THEN @ + 1 ELSE @]
       /\ byHand' = [byHand EXCEPT ![t] = @ \/ (rec[r].once /\ r \in Terminals)]
       /\ Goto(r, IF rec[r].once THEN "spend" ELSE "release")
    /\ UNCHANGED <<trash, clock, lock, on, seen, knows, editor, counts, latest, unread, refused, broken>>

\* The run's manager deletes the task, if it still lists it.
Drop(r) ==
    LET t == on[r] IN
    IF r \in Terminals
    THEN /\ disk' = [disk EXCEPT ![t] = IF knows[r] THEN Gone ELSE @]
         /\ knows' = [knows EXCEPT ![r] = FALSE]
         /\ UNCHANGED loaded
    ELSE /\ disk' = [disk EXCEPT ![t] = IF loaded[t] # Gone THEN Gone ELSE @]
         /\ loaded' = [loaded EXCEPT ![t] = Gone]
         /\ UNCHANGED knows

\* A one-time task that succeeded is deleted.
Spend(r) ==
    /\ at[r] = "spend"
    /\ Drop(r) /\ Goto(r, "release")
    /\ UNCHANGED <<trash, job, sched, lock, on, seen, editor, counts, history, broken>>

\* Runs of the task that hold, or believe they hold, its lock.
Holders(t) == {r \in Runs : on[r] = t /\ at[r] \in Inside}

\* Mutant: a one-time task goes only when its run succeeded.
ReleaseOnly(r) ==
    /\ at[r] = "release"
    /\ LET t == on[r] IN
       /\ lock' = [lock EXCEPT ![t] = Free]
       /\ broken' = [broken EXCEPT ![t] = @ /\ Holders(t) # {r}]
       /\ End(r)
    /\ UNCHANGED <<files, clock, on, seen, knows, editor, counts, history>>

\* The lock file is removed, whoever wrote it.
Release(r) ==
    /\ at[r] = "release"
    /\ LET t == on[r] IN
       /\ lock' = [lock EXCEPT ![t] = Free]
       /\ broken' = [broken EXCEPT ![t] = @ /\ Holders(t) # {r}]
       /\ IF rec[r].once THEN Goto(r, "consume") ELSE End(r)
    /\ UNCHANGED <<files, clock, on, seen, knows, editor, counts, history>>

\* However it ended, a one-time task still listed is deleted.
Consume(r) ==
    /\ at[r] = "consume"
    /\ Drop(r) /\ End(r)
    /\ UNCHANGED <<trash, job, sched, lock, on, seen, editor, counts, history, broken>>

-----------------------------------------------------------------------------
(* Changes *)

\* A change of one kind or another, counted.
Change == changes < MaxChanges /\ changes' = changes + 1

\* A person's change of a task: a manager of its own has read the files.
Edit(t, here) ==
    /\ Change /\ editor = NoEdit /\ disk[t] # Gone
    /\ here \/ Elsewhere
    /\ here => sched # "down"
    /\ editor' = [task |-> t, rec |-> disk[t], ver |-> changes', step |-> "save", here |-> here]
    /\ UNCHANGED <<files, clock, lock, runs, crashes, history, broken>>

\* Mutant: the change is written and the scheduler keeps what it has.
SaveEditOnly(enabled) ==
    /\ editor # NoEdit /\ editor.step = "save"
    /\ LET t == editor.task IN
       /\ latest' = [latest EXCEPT ![t] = editor.ver]
       /\ disk' = [disk EXCEPT ![t] = [editor.rec EXCEPT !.ver = editor.ver, !.enabled = enabled]]
       /\ unread' = [unread EXCEPT ![t] = @ \/ ~editor.here]
    /\ editor' = NoEdit
    /\ UNCHANGED <<trash, clock, lock, runs, counts, wins, byHand, refused, broken>>

\* The change is written; in the server's process a refresh follows.
SaveEdit(enabled) ==
    /\ editor # NoEdit /\ editor.step = "save"
    /\ LET t == editor.task IN
       /\ latest' = [latest EXCEPT ![t] = editor.ver]
       /\ disk' = [disk EXCEPT ![t] = [editor.rec EXCEPT !.ver = editor.ver, !.enabled = enabled]]
       /\ unread' = [unread EXCEPT ![t] = @ \/ ~editor.here]
    /\ editor' = IF editor.here THEN [editor EXCEPT !.step = "refresh"] ELSE NoEdit
    /\ UNCHANGED <<trash, clock, lock, runs, counts, wins, byHand, refused, broken>>

Refresh ==
    /\ editor # NoEdit /\ editor.step = "refresh"
    /\ Clear /\ editor' = NoEdit
    /\ UNCHANGED counts

\* Another automation was made or changed: the scheduler reads every file.
RefreshForOther ==
    /\ Change /\ Clear
    /\ UNCHANGED <<editor, crashes>>

\* A task is deleted for good or moved to the trash; no refresh follows.
Delete(t, permanent) ==
    /\ Change /\ disk[t] # Gone
    /\ disk' = [disk EXCEPT ![t] = Gone]
    /\ trash' = [trash EXCEPT ![t] = IF permanent THEN @ ELSE disk[t]]
    /\ UNCHANGED <<clock, lock, runs, editor, crashes, history, broken>>

\* A task comes back from the trash, over the file there may be.
Restore(t) ==
    /\ Change /\ trash[t] # Gone
    /\ disk' = [disk EXCEPT ![t] = trash[t]] /\ trash' = [trash EXCEPT ![t] = Gone]
    /\ latest' = [latest EXCEPT ![t] = trash[t].ver] /\ wins' = [wins EXCEPT ![t] = 0]
    /\ byHand' = [byHand EXCEPT ![t] = FALSE]
    /\ unread' = [unread EXCEPT ![t] = TRUE]
    /\ UNCHANGED <<clock, lock, runs, editor, crashes, refused, broken>>

-----------------------------------------------------------------------------
(* Ends of processes *)

\* The runs of a process that ends: their locks name a dead process.
Lost(dead) ==
    /\ at' = [r \in Runs |-> IF r \in dead THEN "idle" ELSE at[r]]
    /\ lock' = [t \in Tasks |-> IF lock[t] \in dead THEN Dead ELSE lock[t]]
    /\ broken' = [t \in Tasks |-> broken[t] /\ Holders(t) \ dead # {}]
    /\ crashes < MaxCrashes /\ crashes' = crashes + 1
    /\ rec' = [r \in Runs |-> IF r \in dead THEN Gone ELSE rec[r]]
    /\ seen' = [r \in Runs |-> IF r \in dead THEN Free ELSE seen[r]]
    /\ UNCHANGED <<files, on, knows, changes, history>>

Crash ==
    /\ sched # "down" /\ sched' = "down"
    /\ Lost(Threads)
    /\ loaded' = [t \in Tasks |-> Gone] /\ job' = [t \in Tasks |-> NoJob]
    /\ editor' = IF editor # NoEdit /\ editor.here THEN NoEdit ELSE editor

CloseTerminal(r) ==
    /\ r \in Terminals /\ at[r] # "idle"
    /\ Lost({r})
    /\ UNCHANGED <<clock, editor>>

-----------------------------------------------------------------------------
RunStep(r) == Look(r) \/ Take(r) \/ Work(r) \/ Save(r) \/ Spend(r) \/ Release(r) \/ Consume(r)

Step ==
    \/ Slot \/ Arm \/ Load \/ Start \/ Refresh \/ RefreshForOther \/ Crash
    \/ \E t \in Tasks, r \in Runs : Fire(t, r) \/ RunByHand(t, r)
    \/ \E r \in Runs : RunStep(r) \/ CloseTerminal(r)
    \/ \E t \in Tasks, b \in BOOLEAN : Edit(t, b) \/ Delete(t, b)
    \/ \E b \in BOOLEAN : SaveEdit(b)
    \/ \E t \in Tasks : Restore(t)

Noted == meddled' = [t \in Tasks |-> meddled[t] \/ 
               (UnderWay(t)' /\ (Changing(t)' \/ latest'[t] # latest[t]))]

Next == Step /\ Noted

Spec == Init /\ [][Next]_vars

\* The scheduler's loop and its refreshes, the runs, a change that was begun
\* and a server that is started again; the time comes.
FairSpec ==
    /\ Spec
    /\ WF_vars(Slot /\ Noted) /\ WF_vars(Start /\ Noted)
    /\ WF_vars((Load \/ Arm) /\ Noted) /\ WF_vars(Refresh /\ Noted)
    /\ WF_vars(\E b \in BOOLEAN : SaveEdit(b) /\ Noted)
    /\ \A t \in Tasks : WF_vars(\E r \in Threads : Fire(t, r) /\ Noted)
    /\ \A r \in Runs : WF_vars(RunStep(r) /\ Noted)

-----------------------------------------------------------------------------
(* Correctness *)

\* Two runs of one automation are under way at once only when its lock was
\* taken from a live run, because it was over two hours old or because two runs
\* looked before either wrote, and one of the runs of then still goes
\* (automation.py:1732 "Prevent same automation from running twice").
OneRunAtATime == \A t \in Tasks : Cardinality(Holders(t)) > 1 => broken[t]

\* A lock of a live process is the lock of a run that is under way: no end of a
\* run leaves its automation locked (automation.py:2382).
NoLockIsLeft == \A t \in Tasks : lock[t] \in Runs => lock[t] \in Holders(t)

\* The server runs a one-time task to success once, unless the task was changed
\* or the files were read again during a run of it, here or in a terminal; a server
\* that dies between the stamp of a run and the removal of the file does not run it
\* again (automation.py:2564).  A terminal's run of it is one more: see OnceEver.
OnceIsOnce == \A t \in Tasks : wins[t] <= 1 \/ meddled[t]

\* What a person wrote last stays in the file, unless a run of the task was under
\* way between the reading of the record to be changed and the scheduler's reading
\* of the change, whichever process made it: every other run saves the record of
\* the last change.
EditsStay == \A t \in Tasks : disk[t] # Gone => disk[t].ver = latest[t] \/ meddled[t]

\* A one-time task that is enabled and that the scheduler has read ends: it runs and
\* its file goes, however the run ends and whatever dies meanwhile, unless the run
\* was turned away as it began; a terminal that dies in its own run of it may leave
\* it stamped, and then never armed again (automation.py:2390 "einmalig = einmalig").
OnceEnds ==
    \A t \in Tasks : disk[t] # Gone /\ disk[t].once ~> \/ disk[t] = Gone \/ ~disk[t].enabled
                                                 \/ (byHand[t] /\ disk[t].done)
                                                 \/ meddled[t] \/ unread[t] \/ refused[t]

\* A job whose time has come is started, and not put off to its next time
\* (docs/platform/AUTOMATIONS.md:69 "fires at its own next run").
SlotsAreKept ==
    [][\A t \in Tasks : (job[t] # NoJob /\ job[t].due /\ job'[t] # NoJob /\ ~job'[t].due)
                            => UnderWay(t)']_vars

\* A deleted automation stays deleted until a person brings it back.
DeletedIsGone ==
    [][\A t \in Tasks : disk[t] = Gone /\ disk'[t] # Gone => latest'[t] # latest[t] \/ trash'[t] # trash[t]]_vars

\* A one-time task succeeds one time, whoever runs it (automation.py:2390).
OnceEver == \A t \in Tasks : wins[t] <= 1 /\ (byHand[t] => wins[t] = 0)

\* A one-time task is consumed by its first firing (automation.py:2389).
FirstFiringConsumes ==
    \A t \in Tasks : job[t] # NoJob /\ job[t].due /\ job[t].rec.once ~> disk[t] = Gone

\* Two runs of one automation are never under way at once (automation.py:1732
\* "Prevent same automation from running twice").
NeverBeside == \A t \in Tasks : Cardinality(Holders(t)) <= 1

\* What a person wrote last stays in the file.
ChangesStay == \A t \in Tasks : disk[t] # Gone => disk[t].ver = latest[t]
=============================================================================
