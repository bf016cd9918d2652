----------------------------- MODULE TaskSlots -----------------------------
(***************************************************************************)
(* The guard against duplicate launches (has_live_task and claim_task_slot *)
(* in vaf/core/subagent_ipc.py): several launches of one agent type in one *)
(* chat look for a live run, register themselves, and then ask the task    *)
(* files which of them is the oldest.  The others withdraw.                *)
(*                                                                         *)
(* Both questions read the active file and then the pending file, without  *)
(* the mutation guard, while a launch that is marked running leaves the    *)
(* second before it enters the first.  A launch inline in a turn is marked *)
(* before it claims, one in a process of its own after.                    *)
(*                                                                         *)
(* All entries are young: the grace for pending ones, two minutes, is not  *)
(* modelled, nor are reapers that take an entry away under a launch.       *)
(***************************************************************************)
EXTENDS Integers

CONSTANTS N,            \* the launches are 1..N; a launch's number stands for its task id
          Inline,       \* launches that run inside the turn
          Preempted,    \* launches that may be held up between stamping and registering
          Nobody

Launches == 1..N

ASSUME TaskSlotsAssumption ==
    /\ N \in Nat
    /\ Inline \subseteq Launches /\ Preempted \subseteq Launches
    /\ Nobody \notin Launches

VARIABLES pending, active,  \* the launches in these files
          moving,           \* the launch being marked: it has left pending
          at,               \* how far each launch is
          created,          \* its created_at stamp
          clock,
          seen,             \* what its first read of a question found
          missed            \* history: launches that were on the move between its reads

files == <<pending, active, moving>>
vars  == <<pending, active, moving, at, created, clock, seen, missed>>

Stages == {"idle", "look", "refused", "clear", "stamped", "registered", "claim",
           "lost", "withdrawn", "won", "over"}

Init ==
    /\ pending = {} /\ active = {} /\ moving = Nobody
    /\ at = [l \in Launches |-> "idle"]
    /\ created = [l \in Launches |-> 0]
    /\ clock = 0
    /\ seen = [l \in Launches |-> {}]
    /\ missed = [l \in Launches |-> {}]

GuardFree == moving = Nobody

Go(l, stage) == at' = [at EXCEPT ![l] = stage]

-----------------------------------------------------------------------------
(* has_live_task: is a run of this kind there already? *)

LookActive(l) ==
    /\ at[l] = "idle"
    /\ Go(l, IF active = {} THEN "look" ELSE "refused")
    /\ UNCHANGED <<files, created, clock, seen, missed>>

LookPending(l) ==
    /\ at[l] = "look"
    /\ Go(l, IF pending = {} THEN "clear" ELSE "refused")
    /\ UNCHANGED <<files, created, clock, seen, missed>>

-----------------------------------------------------------------------------
(* create_task stamps the task and then registers it under the guard. *)

\* Two launches may get the same stamp.
TakeStamp(l) ==
    /\ clock' \in {clock, clock + 1}
    /\ created' = [created EXCEPT ![l] = clock']

Stamp(l) ==
    /\ at[l] = "clear" /\ l \in Preempted
    /\ TakeStamp(l)
    /\ Go(l, "stamped")
    /\ UNCHANGED <<files, seen, missed>>

Register(l) ==
    /\ \/ at[l] = "stamped" /\ UNCHANGED <<clock, created>>
       \/ at[l] = "clear" /\ l \notin Preempted /\ TakeStamp(l)
    /\ GuardFree
    /\ pending' = pending \cup {l}
    /\ Go(l, "registered")
    /\ UNCHANGED <<active, moving, seen, missed>>

-----------------------------------------------------------------------------
(* mark_task_running: out of the pending file, then into the active file.  An *)
(* inline run calls it right after create_task (WorkflowExecutorTool.run), a  *)
(* process of its own is marked when its terminal has opened.                 *)

MayMark(l) == at[l] = (IF l \in Inline THEN "registered" ELSE "won")

Mark(l) ==
    /\ MayMark(l)
    /\ GuardFree
    /\ l \in pending
    /\ pending' = pending \ {l}
    /\ moving' = l
    /\ missed' = [k \in Launches |->
                    IF at[k] = "claim" THEN missed[k] \cup {l} ELSE missed[k]]
    /\ UNCHANGED <<active, at, created, clock, seen>>

Marked ==
    /\ moving # Nobody
    /\ active' = active \cup {moving}
    /\ moving' = Nobody
    /\ UNCHANGED <<pending, at, created, clock, seen, missed>>

-----------------------------------------------------------------------------
(* claim_task_slot: am I the oldest of the live ones? *)

\* Reading a file takes longer than the clock's microsecond.
ClaimActive(l) ==
    /\ at[l] = "registered"
    /\ l \in Inline => l \in active
    /\ seen' = [seen EXCEPT ![l] = active]
    /\ missed' = [missed EXCEPT ![l] = {moving} \ {Nobody}]
    /\ clock' = clock + 1
    /\ Go(l, "claim")
    /\ UNCHANGED <<files, created>>

\* Mutant: stamps are compared and nothing else, so that equal ones both win.
OlderOrEqual(k, l) == created[k] <= created[l]

\* Mutant: stamps are compared and nothing else, so that equal ones both lose.
StrictlyOlder(k, l) == created[k] < created[l]

\* The order of (created_at, task_id).
Before(k, l) ==
    \/ created[k] < created[l]
    \/ created[k] = created[l] /\ k < l

Wins(l, live) == l \in live /\ \A k \in live \ {l} : Before(l, k)

ClaimPending(l) ==
    /\ at[l] = "claim"
    /\ Go(l, IF Wins(l, seen[l] \cup pending) THEN "won" ELSE "lost")
    /\ UNCHANGED <<files, created, clock, seen, missed>>

\* Mutant: only the pending file is cleared.
CancelPending(l) ==
    /\ pending' = pending \ {l}
    /\ UNCHANGED active

\* cancel_task.
Cancel(l) ==
    /\ pending' = pending \ {l}
    /\ active' = active \ {l}

Withdraw(l) ==
    /\ at[l] = "lost"
    /\ GuardFree
    /\ Cancel(l)
    /\ Go(l, "withdrawn")
    /\ UNCHANGED <<moving, created, clock, seen, missed>>

\* The run ends, or its process does not start: cancel_task either way (for a
\* process that ends by itself, complete_task, which clears both files too).
End(l) ==
    /\ at[l] = "won"
    /\ GuardFree
    /\ Cancel(l)
    /\ Go(l, "over")
    /\ UNCHANGED <<moving, created, clock, seen, missed>>

-----------------------------------------------------------------------------
Next ==
    \/ Marked
    \/ \E l \in Launches :
          \/ LookActive(l) \/ LookPending(l) \/ Stamp(l) \/ Register(l) \/ Mark(l)
          \/ ClaimActive(l) \/ ClaimPending(l) \/ Withdraw(l) \/ End(l)

Spec == Init /\ [][Next]_vars

-----------------------------------------------------------------------------
\* An entry is in one file at most, and an inline run that won is registered as
\* active until it ends.
TypeOK ==
    /\ pending \subseteq Launches /\ active \subseteq Launches /\ pending \cap active = {}
    /\ moving \in Launches \cup {Nobody} /\ moving \notin pending \cup active
    /\ at \in [Launches -> Stages]
    /\ created \in [Launches -> Nat] /\ clock \in Nat
    /\ seen \in [Launches -> SUBSET Launches] /\ missed \in [Launches -> SUBSET Launches]
    /\ \A l \in Inline : at[l] = "won" => l \in active

Runs == {l \in Launches : at[l] = "won"}

\* "Exactly one proceeds and every loser deregisters itself"
\* (subagent_ipc.py:793): two launches never run together.
OneRun == \A k, l \in Runs : k = l

\* Among launches that are not held up between stamp and registration, the only
\* way to two runs is the gap between the two reads: one of the two was on its
\* way from the pending to the active file while the other read.
OneRunButForTheGap ==
    \A k, l \in Runs \ Preempted : k = l \/ k \in missed[l] \/ l \in missed[k]

\* A launch that was refused, withdrew or is over has left no entry behind that would
\* block the chat's next launch.
NoGhosts ==
    \A l \in Launches : at[l] \in {"refused", "withdrawn", "over"} =>
                           l \notin pending \cup active \cup {moving}

\* The launches never refuse one another all: when some were refused, another
\* one is on its way, runs or has run.
NotAllRefused ==
    \A l \in Launches : at[l] \in {"refused", "lost", "withdrawn"} =>
       \E k \in Launches : at[k] \in {"registered", "claim", "won", "over"}
=============================================================================
