# A TLA+ model of VAF's core

VAF runs AI agents for several people on one machine: chats from a browser, a
terminal and messengers end up in one queue, a few agent loops take turns from
it, turns call tools and start sub-agents in processes of their own, and
background work (automations, thinking, mail, sync) shares the same models,
browsers and speech engines. Much of what can go wrong there is order: two
turns in one chat, a slot that is lost when a waiter gives up in the wrong
instant, a stop that stops the wrong turn, a person who is overtaken for ever.
This directory models those parts in TLA+, checks small instances with TLC and
proves the most important results for every size with TLAPS.

    tlc -workers 2 -config MCTaskQueue.cfg MCTaskQueue     # one run
    tlapm TaskQueue_proofs.tla                             # one module's proofs

`PROJECT.json` lists the components, the runs with their properties, the
mutants that show that each property can fail, the lines of source each
definition stands for, the hazards and the theorems.

## 1. The system's parts

| part (under `src/vaf/`) | state | operations | hard because |
|---|---|---|---|
| fair order (`core/fair_queue.py`, `FairOrder`) | a FIFO per person, serve stamps, two counters | push, pop, remove, position, copy | fairness over long histories; places computed without simulating |
| resource queue (`core/fair_queue.py`, `ResourceQueue`) | used slots, waiting tickets, a thread-local note | enter, wait, give up, exit | grants race timeouts, cancels and failing callbacks |
| task queue (`core/task_queue.py`) | bands of fair orders, per-chat lines, what is in flight per worker, class budgets, stop flags, watchers | add, get, task_done, drop, claim/release, reset, cleanup | several workers, a drain outside the queue, dead threads |
| runner (`core/headless_runner.py`) | the agents' loops, the drain's pass | a turn from get to task_done, the drain of sub-agent results | many ways out of a turn; work between turns |
| stopping (`core/revocation.py`) | none of its own | stop_session, stop_account_work | several steps against running turns |
| sub-agent tasks (`core/subagent_ipc.py`, `core/subagent_spawn.py`) | JSON files pending, active, results, paused; an event | create, run, heartbeat, complete, fail, reap, consume, claim a slot, hold a fan-out | processes that die, report late or are started twice; two files per move |
| outbound hold (`core/outbound_hold.py`, `core/channel_message_store.py`) | rows held, sending, sent, discarded, failed, ambiguous; wake turns; the note of a turn | park, retire, send, edit, drop, reclaim, wake, tell | a person's answer against a crash, a second answer and a call that outlives its wait |
| mail (`mail/`) | write-back operations, the ledger of sent ids, sync marks | queue, approve, edit, drop, claim, transmit, retry, reap, sync | two rows written in transactions of their own, several passes over one list, external servers |
| automations (`core/automation.py`, `core/lock_manager.py`) | record files, the scheduler's copy, armed jobs, lock files | create, change, delete, restore, refresh, fire, run, save | a run saves the record it was started with; locks of dead and of slow owners; several processes |
| timers, reminders (`core/timers.py`, `core/reminders.py`) | due times, threads | arm, fire, cancel | clocks, restarts |
| thinking (`core/thinking_mode.py`, ...) | background passes and requests | start, hand over, finish | runs beside chats |
| workflows (`workflows/`) | step results, paused runs | run, pause on a sub-agent, resume | two drains may see one result |
| agent rooms (`core/a2a/`, `tools/room_tools.py`, `cli/cmd/a2a.py`) | a directory of frames per member, a cursor per member | post, close, read, wait, view, wake, advance | no lock: positions come from reading the lanes one after the other, cursors from five surfaces, each of which shows so much at most |
| data at rest (`core/data_keyring.py`, `core/at_rest_migration.py`) | keys, files under old and new keys | migrate, re-key | a crash between two files |
| browser pool, containers, processes | leases and registries | lease, release, reap | owners that die |
| accounts, network, cloud sync, backup, memory, learning, voice, backends, front ends | see `PROJECT.json` | | mostly I/O or data |

How they interact: every channel calls `TaskQueue.add`; a worker calls `get`,
runs the turn (which may enter a `ResourceQueue` for a model, a browser or the
speech engine, and may start sub-agents through the task files), and calls
`task_done`. Worker 1 also runs the drain: when its `get` gave nothing it reads
sub-agent results, claims their chat in the task queue, puts the results into
the chat's history and runs a summary turn there. A stop sets a flag in the
task queue, drops what the chat has queued and stops its sub-agents. Places in
line are reported back to the channels by callbacks. A turn that wants to write
to somebody parks the call or the mail; the person's Send runs it in the web
server and wakes the chat with another `TaskQueue.add`. A due automation runs in
a thread of the server, or in a terminal's process, on files that the web
server, the tools and the terminals change meanwhile. The runner also looks into
the rooms of its agents and gives them what is new as a turn.

What makes each part correct, in a sentence: the fair order never lets one
person overtake another twice; the resource queue never loses or duplicates a
slot and leaves none idle; the task queue never runs two things in one chat and
neither starves nor reorders what it promised not to; a stop reaches the turn it
was pressed for and no other; a sub-agent's outcome is delivered once; a held
message or mail is sent at most once, only after a yes and in the words of the
yes, and the agent is told no outcome that is not so; an automation does not run
beside itself, leaves no lock behind and undoes nobody's change; the cursor
of a member of a room passes a frame only if the member was shown it, or in one of
the ways the code leaves open (more at once than a surface shows, a wake turn that
fails, a write amid others), and an answer stands after what it answers.

## 2. Modules

| module | what it is | code |
|---|---|---|
| `RoundRobin` | the fair order as operators on ranks, no state | `FairOrder` |
| `FairOrder` | the same with the code's data: FIFOs, counters, stamps, trimming | `FairOrder` |
| `Admission` | what a resource queue promises | abstract |
| `ResourceQueue` | threads at statements of `_acquire`, `__exit__`, `_release` | `ResourceQueue`, `_Slot` |
| `ChatTurns` | what the task queue promises its chats | abstract |
| `Selection` | which queued task goes next: classes, bands, persons | `_select_locked` |
| `TaskQueue` | the queue, the workers' turns, the drain and stops | `core/task_queue.py`, the main loop of `core/headless_runner.py`, `stop_session` |
| `PlaceReports` | what waiting turns hear of their place | `_Watch`, `_recompute_locked`, `_deliver`, `wait_for_session` |
| `Errands` | what the sub-agent queue promises | abstract |
| `SubagentTasks` | the task files, the sub-agents' processes, reapers, stops and the drain | `core/subagent_ipc.py`, `core/subagent_spawn.py`, `cli/cmd/subagent.py` |
| `TaskSlots` | several launches of one agent type | `has_live_task`, `claim_task_slot` and their callers |
| `Delivery` | what an outbox promises: once, after a yes, in the words of the yes | abstract |
| `MailOutbox` | the mail outbox: its rows, its ledger of sent ids, its passes | `mail/service.py`, `mail/store.py`, `mail/writeback.py`, the mail lane of `core/outbound_hold.py` |
| `HeldCalls` | the parked messenger calls of a chat | `core/outbound_hold.py`, `core/channel_message_store.py`, the hold in `core/agent.py` |
| `Automations` | the records, the scheduler, the runs and their lock | `core/automation.py`, `core/lock_manager.py` |
| `AgentRoom` | one room: its lanes, its cursors, who writes and reads | `core/a2a/store.py`, `core/a2a/room.py` and the surfaces that call them |
| `*_proofs` | theorems about `ResourceQueue` and `FairOrder`, `TaskQueue` and `PlaceReports`, `SubagentTasks`, `TaskSlots`, `MailOutbox`, `HeldCalls`, `Automations`, `AgentRoom` | |
| `MC*` | instances for TLC | |

`FairOrder` implements `RoundRobin`, checked and proved; `ResourceQueue` and
`Selection` are built on `RoundRobin` (`RR == INSTANCE RoundRobin`). `TaskQueue`
and `PlaceReports` extend `Selection`, and `PlaceReports` instantiates it a
second time with copies of the orders and budgets, as the code runs the same
routine on copies. `ResourceQueue` implements `Admission`, `TaskQueue`
implements `ChatTurns`, and `SubagentTasks` implements `Errands` where
sub-agents keep their heartbeats. `MailOutbox` and `HeldCalls` are two very
different programs that make one promise: both implement `Delivery`.

### Fair order

The code compares a pair (serve stamp of the person, arrival of the item). Only
the relative order of the two counters is ever read, so `RoundRobin` keeps
ranks, which makes the state space finite without a bound; `ActsAsRoundRobin`
shows on `FairOrder`, which keeps the counters themselves, that nothing is
lost. `Position` and `Limited` are the two calculations that avoid simulating
the pops: they are compared with the simulation (`PickOrder`) in every state.

### Resource queue

A section under the condition's lock is one step, a callback outside it is one
step, and the grant loop of `_release`, which holds the lock over several
grants, is several steps with `granting` set. The exceptions of `_acquire`
(refusals, a callback that raises, an interrupt) are the way through `unwind`.
Which threads may leave is the constant `Leavers`: the others have no deadline,
no `cancelled` and callbacks that return.

### Task queue and runner

A worker's phase says where it is in its loop. A turn is what is between `get`
and `task_done`; what happens inside `chat_step` is left out, but not the ways
it ends: skipped by a stop, a chat that does not load, an early refusal or
command, stopped, finished, failed, an exception only the outer handler sees
(`Miss`), and the death of the thread (`Die`). The last two and a late start
are given to the workers by the constants `Careless`, `Mortal` and
`LateStarters`, so that each property names what it needs. `task_done` finds its
task through the entry of the calling worker or the active task: `Done` allows
both.

A band is a pair (class, priority); under the legacy policy the class plays no
part and all bands share one lane. Task objects are members of `Tasks`; one that
is over stands for the next new one, so the queue runs for ever in a finite
state space and no counter needs a bound.

`meant` is a history variable: whether the last stop pressed in a task's chat met
the task while it was running, while it was queued, or not at all.

### Place reports

`add`, `get` and a drop work out inside the queue's section which places changed
(`Recompute`) and leave a batch in `due`; `Deliver` hands any of the batches out,
since the threads that computed them race to the notify lock. A take sees any set
of busy chats, which stands for whatever `TaskQueue` does with them. The code
bounds its work: it makes only `PLACES_COUNTED` picks, on copies that hold each
person's first tasks, and looks only at chats that can have moved. `TrueOrder`
leaves these bounds out, and `PlacesAreCurrent` compares.

### Sub-agent tasks

The pending, the active and the results file are three variables; a task's child
process is `child[t]`. A change of the files is a list of writes under the
mutation guard, one step per write, so that readers, which do not take the
guard, and deaths come between them. `quiet` abstracts the clock: a task is quiet
once its last sign of life is older than the limit the reapers use. What is
assumed of the processes is in constants, so that each property names what it
needs: `Stalling` sub-agents may be silent while they live, `Overlong` ones run
into the overall limit, a stop cannot kill `Loose` ones, and `Fragile` ones may
die between two writes. `Single` says that one worker runs both the turns and the
drain. The reapers (`check_zombies`, `cleanup_stale_tasks`) are actions of their
own because several callers run them at any time: the drain, a chat's turn, a
terminal, a waiting workflow.

The drain's pass reads the results (`Look`), then the files that hold a fan-out
open (`HoldOpenFanouts`), claims a chat and delivers its results one by one,
consuming each. `batch` is the list it has read, and `picked` the places in it of
the results it still works on: the code filters the list, the model the places.

### Launch guard

`TaskSlots` takes one agent type in one chat. A launch looks for a live run,
stamps and registers itself, and claims: the oldest entry wins, the others
withdraw. Both questions read the active file and then the pending file in
separate steps, and `moving` is the launch that has left pending and not entered
active. `Preempted` launches may be held up between stamp and registration, the
residual race `claim_task_slot` documents. The launches are numbered, and the
number breaks ties between stamps as the task id does.

### Mail outbox

A send is a row of `mail_ops` (`op`) and an entry of the ledger of sent ids
(`stamp`), which are written in transactions of their own; the code decides from
both whether a mail may leave, and the card a person sees is computed from both
(`CardState`). `Queue` writes a row, held or at once, and `Record` its entry;
`Press`, `Revise`, `Discard` and `Cancel` are what a person can do; `Send`
approves and then makes a pass as the sweep does, since both call
`push_pending_ops`. A pass (`Pass`) reaps interrupted claims, lists what is
pending, and for each row claims it, hands the mail to the transport, writes the
ledger and then the row; each of these is a step, and the process may die in
between (`Crash`). The
transport is external: it delivers or not, and answers or not. Three assumptions
about time and order can be dropped, each with a constant: `FreshPass` (no row
changes between a pass's listing and its turn), `Prompt` (no pass that lives
outlasts the lease of a claim) and `Together` (the two rows of one send are
written with nothing in between). The code enforces none of them; what happens
without them is in the table of section 3. `raced` is a history of the rows that
met with what they exclude: a pass parked the row though it was no longer pending,
or claimed it with words that had been edited since its listing; its claim was
reaped while a pass had it in hand or a Send was about it (`InHand`); or someone
came to it between its two writes (`Touch`). The theorems of section 4 are about
all the other rows and need no assumption.

### Held calls

A turn begins with the person's words (`Say`) or with a wake (`TakeWake`), and
with a note on every decided draft the chat's history does not report yet; it
parks calls (`Park`), each of which retires the older drafts to the same person
(`Retire`), may list its drafts (`LookUp`) and ends. `Press` is the read of a
draft by a click, `Send` its further steps: the claim, which also starts the
tool's thread, a wait that may end before the thread does, the outcome, the wake.
The thread is `call`: it hands the words to the bridge, which may deliver or
refuse them later (`HandOver`, `Deliver`, `Refuse`), also when nobody waits any
more. `List` is any listing of drafts, which reclaims sends whose lease is over.
`told` is what the chat's history says of a draft. `FreshArgs` (no edit between a
Send's read of a row and its claim) and `Prompt` (no Send outlives its lease) are
the two assumptions of the run; the code enforces neither. `stale` is a history of
the drafts a Send claimed in words that had been edited since it read them.

### Automations

The files are `disk` and `trash`, the scheduler's copy is `loaded`, its armed
jobs are `job`; a refresh is two steps, `Load` and `Arm`. `Fire` starts a due job
in a thread of the server, `RunByHand` a run in a terminal. A run reads the lock,
writes it, works, saves the record *it was started with* if it succeeded,
releases the lock, and a one-time task's file goes; each is a step of `RunStep`. A
run may also be turned away as it begins (`TurnedAway`), because its account has no
access, which is left open, or because of the lock. The
lock is taken over from a dead process, and from a live one after two hours
(`Long` runs). A change goes through a manager of its own, which reads the files,
writes one record and has the scheduler read again; a change in another process
(`Elsewhere`) is written too, and the scheduler does not hear of it. Whether an
automation is due is left open (`Slot`). History: `latest` is the version a person
wrote last, `wins` counts the one-time runs of the server that succeeded and
`byHand` notes one of a terminal, `meddled` says that a change, or a reading of the
files, and a run were under way together, `unread` that a task came back from the
trash or was changed by another process and the files were not read since, `refused`
that a run of the server was turned away since they were, `broken` that the lock was
taken from a live run. Each property says with these what it excepts, and section 3
what happens in the excepted cases.

### Agent rooms

A frame is a file in its sender's lane, numbered there, and carries a Lamport
position. A write (`Begin`, `Survey`, `Check`, `Write`) reads the lanes one after
the other for the highest position and then creates its file. A read (`Look`,
`Survey`, `ReadStep`) also goes lane by lane, sorts what it found, puts some of it
before the member (`Shown`) and moves the cursor, in a way that depends on the
surface:

| surface | shows | moves the cursor |
|---|---|---|
| a runner's wake turn (`agent.py:3247`, `3308`) | the newest 12 of the others' unread frames | past all of them |
| the `room_read` tool (`room_tools.py:493`) | the newest `limit` of them | past the last it shows |
| `vaf a2a read` | all of them | past the last |
| `vaf a2a wait` | the first of them | past that one |
| the browser's view (`web_server.py:495`) | the newest `ROOM_TRANSCRIPT_LIMIT` of the whole room | past whatever the room has by then |

The three numbers are the constant `Limit`, per reader; the first two and the view
thus leave older frames below the cursor, unshown. A wake turn that is refused or
fails (`Fail`, for the `Failing` readers) shows nothing, and the cursor moves as
after any other; its frames are `lost`. Processes may die between any two steps.
`met` marks a frame that was written while another write or a read was under way:
without a lock the code can promise nothing about those, and the properties say
what it does promise of the others. `heard`, `alone`, `told` and
`lost` are history. The properties except exactly these cases by name (`lost`,
`Crowded`, `met`), and section 3 shows each of them.

## 3. What TLC checks

| run | instance | shows |
|---|---|---|
| `fair_order` | three people, four items, five arrivals | `BoundedOvertaking`, `PositionIsByRounds`, `LimitedCopyPopsTheSame`, `ActsAsRoundRobin` |
| `resource_queue` | three threads of two people, two of which may give up, one slot, two places to wait, one per person | `SlotsAccounted`, `NoIdleSlot`, `Admits`, `WaitEnds`, `PatientIsServed` |
| `task_queue` | two workers, one that may die, two chats, three tasks, legacy policy | `OneTurnPerChat`, `LinesMatchOrders`, `StopReachesTurn`, `ChatTurnsInOrder`, `LowerPriorityFirst`, `KeepsPromise` |
| `task_queue_one` | the default, one worker and weighted classes, started late and missing `task_done` at will; a task of each of two classes | `QueuedIsServed`, `ClassComesCloser` |
| `place_reports` | four turns of two people in three chats, one unwatched and of another class, one place counted, two batches under way | `PlacesAreCurrent`, `NoOldPlaceStays` |
| `subagent_tasks` | two sub-agents of two chats, several workers, heartbeats kept; one of the two may be killed between its writes | `OthersNeverLost`, `ToldOnce`, `KeepsErrands` |
| `subagent_tasks_live` | a fan-out of two, one of which may stall, one worker, runs that are too long, deaths | `EveryTaskIsTold` |
| `task_slots` | three launches, one in a process of its own, one that may be held up between stamp and registration | `OneRunButForTheGap`, `NoGhosts`, `NotAllRefused` |
| `mail_outbox` | one mail, two surfaces to press Send on, one sweep, two attempts, one edit, three presses, one crash | `CardTellsTruth`, `KeepsDelivery`, `EveryReleaseEnds` |
| `held_calls` | two drafts to one person, two clicks, one edit, two presses, two words of the person, one crash | `ToldStaysTrue`, `KeepsDelivery`, `SentIsTold` |
| `automations` | one task, one-time or daily, a thread of the server that may outlast its lock, a terminal, changes here and elsewhere, two changes or runs by hand, one crash | `OneRunAtATime`, `NoLockIsLeft`, `OnceIsOnce`, `EditsStay`, `OnceEnds` |
| `agent_room` | three members, two of which write a frame each, and one of these may close the room; a polled reader whose turns may fail and one that uses the tool, waits or views; both show one frame at most; one crash | `NothingSkipped`, `AnswersComeAfter`, `EveryFrameIsTold` |

Every module that models code states a type invariant. It holds on the instances
above, and section 4 proves it for all of them.

The bounds. Overtaking, places and limited copies need a person with two items
between two others, which three people and four items give, and five arrivals
are enough for every relative order of counters with one reuse. Three threads
over one slot give a grant, a waiter behind it and a refusal at once, in any
order; the proofs take any number. Two workers, a chat with two turns and another
chat are the smallest instance in which a chat can be doubly taken, skipped and
overtaken; the third party, the drain, is worker 1. Nothing in the queue compares
more than two tasks or two chats. For place reports one counted place (`Counted`)
already has chats inside, at the edge and behind, with a second turn of one
person that the limited copy cuts off; two batches (`Threads`) are enough to be
delivered in the wrong order, and each task is queued once. Two sub-agents give
every order of one task's steps around another's writes, and the smallest
fan-out. Three launches are a winner, a loser and one that comes while these
decide. A mail's row is touched by nothing but its own sends and passes, so one
mail stands for many; two clicks and a sweep are three passes that can race for
it, three presses and two attempts let it fail, be sent again and fail for good,
and one edit tells the words of the yes from others. Of the parked calls an older and a newer one to one
person are needed for a draft that is retired while it is sent; two words of the
person give a turn before and a turn after the decision. For an automation two
changes, or runs by hand, and a crash are an edit undone by an older one and a restart
between, and a thread and a terminal are the two kinds of run. In a room the two
writers' surveys interleave with each other and with both readers, and the reader
that uses the tool, waits and views is a member that writes too, so that own frames
matter. Two frames for one member, of which a surface shows one, are the smallest
instance in which a limit hides a frame (`vaf a2a read`, which has none, is a tool
with an ample one). Each bound is a constant and stands in a guard.

No run uses symmetry.

Fairness. `resource_queue` assumes that a thread that waits or releases is
not starved of the lock for ever (strong fairness, since others take the lock in
between): the wait has a timeout (`poll_s`), so it looks again by itself. A
slot's holder leaves (weak fairness) because the code that holds it is bounded by
its caller. Nobody has to ask. `task_queue_one` assumes that a worker in a step
goes on (WF of the worker's steps): a turn ends because `chat_step` is capped by
the wall clock (`chat_step_wall_clock_seconds`), and `get` has a timeout. Nothing
is assumed of callers, stops, deaths or arrivals. `subagent_tasks_live` assumes
nothing of the sub-agents, their watchers or a stop; it assumes that a write is
finished (its process does not die in it), that a spawn opens its terminal or
fails, that time passes, and that turns end. Marking a task, reaping, looking for
results and delivering them are strongly fair: each needs the guard or an idle
worker, which come and go, and each is tried again (`_mutation_guard` retries its
lock, the drain runs after every `get` that gave nothing), so one of the tries
succeeds. `mail_outbox` assumes that the supervisor sweeps for ever, which is its
loop, and that a pass or a Send that has begun goes on, since every socket it
waits on has a timeout; a crash ends it in the model too, and nobody has to press
anything. `held_calls` assumes that a Send and a turn that have begun go on (the
wait for the tool is bounded) and that a queued wake is taken, which is
`QueuedIsServed` of the task queue; nothing of the bridge, which may never
answer. `automations` assumes the scheduler's loop, that a server that died is
started again, that a job's time comes, and that a run goes on: an agent's turn
is capped as above. `agent_room` assumes that the runner's poll and whatever has
begun to read goes on; nothing of the writers, who may stop before their file.
None assumes that a crash happens or does not.

Deadlock is checked except where the instance really stops: `FairOrder`, whose
arrivals are bounded, `PlaceReports`, whose tasks are queued once, `TaskSlots`,
whose launches are over, and `MailOutbox`, `HeldCalls`, `Automations` and
`AgentRoom`, whose mails, drafts, changes and frames are bounded.

### Where code and comments disagree

All runs of `PROJECT.json` pass. The following configurations are kept beside
them and are expected to fail: each checks what a comment, a document or a test
says, `tlc -config <name>.cfg` with the module the name begins with. Those with a
constant in the last column show what an assumption of section 2 is for.

| configuration | comment | what happens |
|---|---|---|
| `MCTaskQueueStop` | `headless_runner.py:1943`, a stop ends with its turn | a stop pressed late is left for the chat's next turn |
| `MCTaskQueueLate` | `task_queue.py:19`, one turn per chat at a time | a second worker's start-up resets what the first has in flight (needs `parallel_main_workers` > 1, not the default) |
| `MCSubagentTasksStop` | `revocation.py:113`, a stop stops the sub-agents | a task still pending is neither killed nor failed |
| `MCSubagentTasksLost` | `subagent_ipc.py:889`, a result is never lost | a process killed between two writes takes its task with it |
| `MCTaskSlotsGap` | `subagent_ipc.py:793`, exactly one proceeds | a rival on its way between the files is seen in neither |
| `MCFairOrderStamps` | `fair_queue.py:111`, dropping the oldest stamps keeps the order | an idle person whose stamp is dropped passes a waiting one with an older stamp |
| `MCMailOutboxStale` | "a non-idempotent send can never be delivered twice" | a pass whose listing says that no attempt is left parks the row as failed without a look at its state, while another pass, with an older listing, sends it; Send is offered again (`FreshPass`) |
| `MCHeldCallsDrop` | the note "DISCARDED by the user. Nothing was sent." | a draft whose outcome was unknown is dropped, and the bridge delivers it, or had |
| `MCAutomationsElsewhere` | a person's change stays | a run saves the record it was started with over what was changed since; after a change in another process (`Elsewhere`) also a run that begins later, since the scheduler still has the old record |
| `MCAutomationsSlot` | `AUTOMATIONS.md:69`, a job fires at its own next run | a refresh between the time of a job and the scheduler's tick arms it for its next time |
| `MCAgentRoomLate` | `A2A_PROTOCOL.md:617`, at-least-once delivery | a frame that was placed before a cursor moved and written after it is below the cursor: nobody is told |
| `MCAgentRoomSame` | `store.py:256`, once and forever | two processes of one member take one number: `os.replace` puts one frame in the other's place |

More of the same kind, by changing a configuration:

| change | comment | what happens |
|---|---|---|
| `MCTaskQueue` with `Careless <- MCOne`, `Mortal <- MCNone`, `PriorityOf <- MCSamePriority`, `OneTurnPerChat` | `task_queue.py:287`, no parallel execution for a session | a worker's left-over entry frees a chat another worker runs |
| `MCTaskQueue` with `PriorityOf <- MCSamePriority`, `StalledAreInFlight` | `task_queue.py:384`, stalled tasks are in flight | a dead worker's time stays |
| `MCTaskQueue` with `Workers <- MCOne`, `ClassOf <- MCCommandClass`, `Legacy = FALSE`, `Mortal <- MCNone`, `LowerPriorityFirst` | `task_queue.py:8`, a lower priority always goes first | classes are chosen first |
| `MCPlaceReports`, `DroppedHearNothing` as a property | `test_task_queue_fair_order.py:230`, a dropped task hears nothing more | a batch computed before the drop is delivered after it |
| `MCPlaceReports` with two tasks of two people in one chat each, only the second watched, `Counted = 2`, `ReloadShowsSame` | `TOOL_SUPERVISION.md:291`, a reload shows the same place | an unwatched turn in front counts for the reload only |
| `MCSubagentTasksLive` without fairness, `Stalling` and `Overlong` `<- MCNone`, `FanoutTogether` | `subagent_ipc.py:641`, a fan-out is delivered together | results and open tasks are read one after the other |
| `MCSubagentTasksLost` with `Stalling <- MCFirst`, `ToldOnce` | `workflow_executor.py:338`, delivered exactly once | a sub-agent declared dead reports after all |
| `MCMailOutbox` with `Prompt = FALSE`, or with `Together = FALSE`, `AtMostOneCopy` | as `MCMailOutboxStale` | a claim is reaped under a pass that still lives; a mail leaves before its entry in the ledger is written |
| `MCHeldCalls` with `FreshArgs = FALSE`, `KeepsDelivery` | what is sent is what the person approved | an edit between a Send's read and its claim: the old words leave, the card shows the new ones |
| `MCHeldCallsDrop`, `ToldIsSo` | the note "SENT" | a draft on its way counts as sent, and comes back as failed |
| `MCHeldCallsDrop`, `WokenOnce` | "Two Send clicks racing each other wake the chat once." | each sees the other's draft decided, and wakes |
| `MCAutomations` without fairness, `DeletedIsGone` | a deleted automation stays deleted | a run that was under way saves its record and its file is back |
| `MCAutomations` without fairness, `Terminals <- MCNone`, `OnceEver` | `automation.py:2390`, "einmalig = einmalig" | a refresh during the run arms the task again |
| `MCAutomations` without fairness, `MaxChanges = 1`, `OnceEver` | as above; `automation.py:2566` | `vaf automation run` (`automation.py:2960`) runs a one-time task whose job is armed, and the job runs it too |
| `MCAutomations` with `Elsewhere = FALSE`, `MaxChanges = 0`, `MaxCrashes = 0`, `FirstFiringConsumes` | `automation.py:2389`, consumed by its first firing | a run of an account without access returns before the lock and the `finally` (`automation.py:1722`): the job is gone and the file stays; with `MaxChanges = 1` the lock of a terminal's run does the same |
| `MCAutomations` without fairness, `NeverBeside` | `automation.py:1732`, the same automation never runs twice at once | two runs look at the lock before either writes it (also with `Long <- MCNone`), or it is taken over after two hours |
| `MCAgentRoomLate` with `Ways <- MCWait` or `Ways <- MCView`, `NeverSkipped` | as `MCAgentRoomLate` | `wait --n 1` passes a second frame of the same position; a view marks as read a frame it did not show |
| `MCAgentRoomLate` with `Limit <- MCOne`, `NeverSkipped` | `A2A_PROTOCOL.md:617`, at-least-once delivery; `store.py:358`, moved after it has the frames in hand | of two unread frames the turn shows the newer one, and the cursor passes both |
| `MCAgentRoomLate` with `Failing <- MCReader`, `NeverSkipped` | as above | a wake turn that is refused or fails (`headless_runner.py:3632`, `3696`) has told nobody, and the cursor moves |
| `MCAgentRoomLate` with `Closers <- MCClosers`, `NothingAfterClose` | `A2A_PROTOCOL.md:708`, nothing more is accepted | a frame begun before the close is written after it |

Read in the code, and not in a model: a Send whose sibling is dropped last, or
ends unknown, never wakes the chat, and a draft can be told twice, by a wake and
by a note; an interrupted mail "can only be dropped", but `discard_op` requires a
held one; the lease of a mail's claim is 300 seconds, but the transport's timeout
of 60 seconds is per operation of the socket; and
`pending[0]` in `agent.py:3117` can let a busy room starve those behind it.

## 4. What is proved

The proofs about the two queues begin with lemmas on the operators of `RoundRobin`:
what push, drop and serve do to the set of waiting items, for every finite set of
items and keys. There the ranks are only used through "zero stays zero, positive
stays positive". `TaskQueue_proofs` needs their order too: ranks are ordered as the
counters they replace and are not above the number of those who wait
(`RanksKeepOrder`), so a pushed item goes last and those who stay keep their order.

Every module that models code is well typed for every value of its constants, and
with no other assumption than those on its constants: `TypeCorrect`, of each module
(`OrderTypeCorrect` of `FairOrder`, `PlacesTypeCorrect` of `PlaceReports`). That is
more than bookkeeping where a type bounds a count or names a row: the attempts of a
mail, the budgets of the classes, or that a pass marks nothing it has not listed
(`StepsHaveRows`), whatever races rows met with. In a room a frame may be replaced, so that a lane's highest number can
be gone; what is left has an end since it is bounded (`PartsHaveEnds`).

`ResourceQueue_proofs`. The assumption is `ResourceQueueAssumption` (finite sets,
at least one slot). The inductive invariant `IInv` says, beyond types, that
granted tickets are out of the order, that the threads in the waiting loop are
exactly the ticket holders, that the thread's own note matches its statement,
and that `running` counts the owners of a slot. From it follow `TypeCorrect`,
`SlotsAreAccounted`, `TicketsAreThreads` and `HeldIsInside`; `NoSlotIdles` and
`RoomIsBounded` add an invariant of their own (that a free slot with waiters
exists only inside the grant loop; that a push never passes the limits), and
`QueueAdmits` shows that each step is an `Admission` step or changes nothing.

The module also proves what it takes from `RoundRobin` of the code's own data: it
extends `FairOrder` too, for any items and keys. `FairInv` says that arrival
numbers and serve stamps are given once, that a line is numbered upwards, and that
a person who was served while another could have been is behind that one from then
on. `NobodyIsOvertakenTwice` follows, and so does `CountersAreRanks`: with the
counters replaced by ranks every call is a `RoundRobin` operator, since an operator
that compares two numbers finds them ordered as their ranks
(`SameOrderSameRanks`). The hypothesis `Roomy` of these two is that there is room for
every person's stamp (the code keeps 1024). With less room both fail, for the reason
`MCFairOrderStamps` shows.

Two theorems about places hold with any room for stamps, since a simulation of pops
trims none. `Walks` is that simulation as a function of the number of pops; what holds
after every pop is proved by way of the least pop after which it would not (`UpTo`).
`CopiesPopTheSame`: the limited lines begin as the whole ones (`PoppedAlike`), and a
pop shortens what is known alike of one line by one entry, so the heads are alike
until the limit is reached. `PlacesAreByRounds`: while pops go on, no key is more than
one round ahead of another that waits, and of the keys that are to be served next the
ones behind go first, in the order they began in (`InRounds`); so the item popped is
earlier than all that are left (`WalkByRounds`), and its place counts those earlier
than it (`PlaceCountsEarlier`).

`TaskQueue_proofs`. `OneTurnPerChat` is not inductive: it needs that a chat with a
turn is in flight, that the worker's entry is the task it runs, that only entries
of dead workers outlive a turn and that two entries never name one chat, and that
a claimed chat is in flight too. That is `IInv`; it holds when no worker starts
late and every turn reports its end: what else happens is in section 3. These are
the hypotheses of `OneTurnAtATime` and `StopsReachTheirTurn`. Deaths are
allowed. `SharesAreKept` holds without hypotheses: a task of another class costs
that class a unit of budget, and budgets are renewed only when no available class
has any. `LinesAreTheOrders` and `TurnsKeepTheirOrder` hold without hypotheses too,
whoever starts late, dies or forgets `task_done`: `LinesInv` says that a chat's line
and the fair orders hold the same tasks, each once, and that the line lists the
tasks of a band in the order of their ranks; a take is the best rank of its person
and so the first of them in the line. `PriorityIsKept` is about the plain policy,
under which all bands share one lane. `ImplementsChatTurns` has the hypotheses of
`OneTurnAtATime`: what `ChatTurns` says is running in a chat is, by `IInv`, known
from the one worker or the claim that has it (`RunningIsKnown`), so each step starts
or ends a turn of that chat only.

`OldPlacesGo` is about `PlaceReports` over the same orders, budgets and lines, however
many threads race with their batches and whatever is busy. `ReportInv` says that
batches have different sequence numbers, that a watched turn is in its chat's list
exactly while it is queued, and that each watched turn has heard its last place or
the newest batch that concerns it will say it (`WillHear`): so an older batch that
comes later is refused, and no turn keeps a place it has left.

`PlacesStayTrue` says that what a recompute leaves out does not matter. The copies
first: an order may be thinned (`Thinned`) by tasks that have enough others of their
person ahead of them in the band without changing the next `m` picks, and each pick
uses up one of them. So the picks on whole and on limited copies are alike
(`AlikeFor`) for as long as places are counted, by way of the least pick after which
they would differ (`UpTo`), and `PlacesAgree` follows. The chats second: `CurrentInv`
says that every reporting turn's last place is the one that a recompute of everything
would give it and that `_shown` is exactly the chats within the counted places; a chat
that is neither touched, nor shown, nor picked now had `Counted + 1` and has it still
(`RecomputeKeeps`). That `TrueOrder` would take every queued task is `PicksTake`.

`SubagentTasks_proofs`, for any number of tasks and chats. `FileInv` needs no
assumption about who stalls, overruns, escapes a stop or dies: what a mutation
still has to write takes tasks out of the file they are in (`TakenOut`), puts in
only what is in neither file by then (`PutIn`), and hands every task it takes out
on, to a file or to the results, in a later write (`HandedOn`); a sub-agent's
process writes of its own task alone (`OwnTask`). Hence `TypeCorrect` (a task is in
one file at most) and `NoOtherIsLost`: a kill between two writes loses the task of
that process and no other. A chat told twice is another matter: section 3 shows a
sub-agent declared dead that reports after all, so `AnswersAreToldOnce` and
`ImplementsErrands` assume that none stalls, overruns or survives a stop
(`Stalling`, `Overlong` and `Loose` empty). Processes still die at any step and
reapers run at any time. `AnswerInv` says that only what is over can be declared
dead, and that a result that will be posted is the first of its task and leaves the
task's file before (`FirstAnswers`); `DrainInv` that what the drain works on is
still in the results, each task once.

`TaskSlots_proofs`. The assumption is `TaskSlotsAssumption`, for any number of
launches. `LeavesNoGhosts` rests on a correspondence between a launch's stage and
the files it is in (`FilesMatchStages`). `OnlyTheGap` says that two
launches that are not held up themselves (others may be) run together only when
one was on the move while the other read: the
invariant adds that a rival the claim did not see was on the move
(`OverlookedAreMissed`), that stamps are not later than the clock (`StampsArePast`),
and that a winner is older than every entry it saw (`WinnersAreOldest`).
`SomeoneProceeds` also holds with hold-ups: of the launches that entered the files
the oldest cannot be made to withdraw.

`HeldCalls_proofs`, for any number of drafts, clicks, edits and crashes. `RowInv`
ties a row's state to its call: what was never sent has no call and no copy, a
call that was delivered made the one copy, and a state from which Send is offered
has neither a copy nor a call that may still make one. `ClickInv` says that a
click past its claim is alone with its row, `ToldInv` that what is told is
settled. From these follow `NeverTwice` and `WhatIsToldStaysTrue` with no
assumption, so also when Sends outlive their lease and edits fall anywhere.
`CallsKeepDelivery` has none either: each draft that was never claimed in replaced
words (`stale`) is treated as `Delivery` says. `WordsInv` adds that the words such
a draft's call carries are the row's. The run's `KeepsDelivery`, of every draft,
needs `FreshArgs` and is only model-checked.

`MailOutbox_proofs`, for any number of mails, surfaces, sweeps, attempts, edits
and crashes, and whether the three assumptions of `MailOutbox` hold or not. What it
states is about the rows not in `raced`, whatever races the others met with:
`NeverTwice`, such a mail is on the wire at most once; `CardIsTrue`, its card tells
where it is; `ImplementsDelivery`, each of its steps is one of `Delivery`. So a
second copy can come of the races of section 2 and of nothing else, be it a crash, an
answer that stays out, or any other order of Sends and passes. The properties are far
from inductive. `OutboxInv` says of every such row where its message can be (`RowOK`:
after it has left, only claimed, done, interrupted, or parked with a stamp that says
so), of every Send under way about one that it is stamped, was not interrupted and,
between the look at the draft and the stamp, is its own (`ClickOK`, `OneApproves`),
and of every pass at one that it alone has claimed it and knows whether the message
has left (`HandlerOK`, `OneHandles`). Each action is a step of `Delivery` too, so one
lemma, `SettledNext`, carries both the invariant and the refinement. None of the
three kinds of race can be left out of `raced`: TLC then finds a step that is not
one of `Delivery` (`KeptUnlessRaced` of `MCMailOutbox` with the three constants FALSE).
The run's `CardTellsTruth` and `KeepsDelivery`, of every row, need the assumptions
and are only model-checked.

`Automations_proofs`, for any number of tasks, threads and terminals. `LockInv`
says that the lock of a run that is inside names it unless the lock was broken
(`LockNamesHolder`), that a run which is about to write found no lock that keeps
it out (`LookedWell`), and `NoLockIsLeft`; `RunsAreApart` and `LocksAreReleased` follow. `EditInv` says
that, unless a change and a run met, the file and the runs have the latest
version, a job has it or the task is being changed, the scheduler's copy has it or
will be read again (`Current`), and no run is under way while the task is being
changed (`Watched`); a change that another process wrote counts as under way until
the scheduler has read it, so `EditsAreKept` needs no assumption on where changes are
made. `RunsOnce` (`OnceIsOnce`) has none on who runs what: a task no change met has
one chance in the server (`OneChance`), its job or one run that may still succeed,
and once that run has succeeded there is no such run, and no record on disk,
in a load or in an edit that a scheduler would arm again; a terminal's run only
leaves records that are stamped, and so never armed.

`AgentRoom_proofs`, for any number of members, writers, readers, frames and
crashes. Beyond the types its theorems assume that one process writes for each
member (`OneWriterEach`; without it see `MCAgentRoomSame`): then a number that was
free stays free until its frame is written (`NumbersAreFree`), and no frame is
replaced. `AnswersStandAfter`: a writer's survey has met every
position it had heard of before it began, or the lane is still to come
(`Surveyed`), and a frame written amid nothing shares its position with no other
(`Apart`). `NothingIsSkipped`, for readers with any limits and turns that may fail:
a reader that comes to the end has read every unmarked frame behind its cursor
(`ReadersRead`), and what it came by is then `Seen`, that is told, lost with a
failed turn, or behind as many later told frames as the reader shows (`TurnSees`);
no cursor is past an unmarked frame that is not (`CursorsPassed`). That a lane has a highest number and position would be an
induction over its size; the proof carries "every lane has an end" as an
invariant instead (`LanesHaveEnds`).

Every safety invariant, action property and refinement that a run checks is stated
by a theorem, those of the outbox and of the parked calls' delivery for what met with
no race. Only model-checked is liveness (`WaitEnds`, `PatientIsServed`,
`QueuedIsServed`, `EveryTaskIsTold`, `EveryReleaseEnds`, `SentIsTold`, `OnceEnds`,
`EveryFrameIsTold`): fairness and `ENABLED` are out of the prover's reach.

## 5. Not modelled, and the plan

In this order:

1. `SubagentTasks`, further: the removal of another session's left-overs, the
   change without the guard after the lock's timeout, results the engine keeps
   for itself, paused workflows, a restart of the runner. Composed with
   `ChatTurns` for the chat's claim.
2. Workflow pause and resume; timers and reminders; room triggers and tickets,
   several rooms of one agent; at-rest migration; `bounded_run`.
3. Proofs: what is left of a raced mail's promise, and fewer assumptions for the
   theorems about sub-agents and rooms.

Of the parts that are modelled, these operations are left out: flag, move and
append operations of the mail outbox, which are idempotent, and the mail sync;
sends of the terminal, which are a Send without a wake; the run an automation
catches up on when it is created; who may join a room and what a role may say,
addressing, votes and tasks of a room.

Left out for good: what a model answers, text and prompts, sockets and file
formats, ciphers, front ends. `PROJECT.json` names every part with its reason.
