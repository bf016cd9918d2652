----------------------------- MODULE HeldCalls -----------------------------
(***************************************************************************)
(* The parked messenger calls of one chat (vaf/core/outbound_hold.py,      *)
(* vaf/core/channel_message_store.py).  A turn of the agent parks a call   *)
(* as a draft and retires an older one to the same person; the person      *)
(* sends, edits or drops drafts from several surfaces; a Send claims the   *)
(* row, runs the tool on a thread of its own, waits for a bounded time and *)
(* wakes the chat; the next turn is told what became of its drafts.        *)
(*                                                                         *)
(* A call is its words.  The tool hands them to the bridge, which delivers *)
(* them or does not; both may come after the Send has stopped waiting.     *)
(* The budget of a call is left open: a wait may end at any time.          *)
(*                                                                         *)
(* Two assumptions can be dropped, each with a constant:                   *)
(*   FreshArgs  no edit falls between a Send's read of a row and its claim *)
(*   Prompt     no Send outlives the lease of its claim                    *)
(***************************************************************************)
EXTENDS Naturals, Sequences, FiniteSets

CONSTANTS Drafts,          \* numbered in the order they are parked
          To,              \* whom a draft goes to
          Clicks,          \* the requests of the web server that can press Send
          MaxEdits, MaxPresses, MaxSays, MaxCrashes,     \* bounds
          NoDraft,
          FreshArgs, Prompt

ASSUME HeldCallsAssumption ==
    /\ Drafts \subseteq Nat /\ NoDraft \notin Drafts
    /\ {MaxEdits, MaxPresses, MaxSays, MaxCrashes} \subseteq Nat
    /\ {FreshArgs, Prompt} \subseteq BOOLEAN

VARIABLES state,     \* the stored drafts: their states
          words,     \* and their words
          call,      \* the tool's thread, or the copy it made: where it is
          copy,      \* and its words
          left,      \* history: the copies delivered, by their words
          stale,     \* history: the drafts claimed to be sent in words no longer theirs
          pc, on,    \* per click: where it is, and with which draft
          was,       \* the state it read
          args,      \* the words it read
          answer,    \* what its call came to
          turn,      \* the chat's turn
          held,      \* the drafts it has parked
          wakes,     \* the wake turns queued for the chat
          told,      \* what the chat's history says became of a draft
          presses, says, crashes

rows   == <<state, words>>
calls  == <<call, copy, left, stale>>
clicks == <<pc, on, was, args, answer>>
chat   == <<turn, held, wakes, told>>
counts == <<presses, says, crashes>>
vars   == <<rows, calls, clicks, chat, counts>>

Sendable   == {"held", "failed"}
Actionable == Sendable \cup {"ambiguous"}
States     == {"none", "sending", "sent", "discarded", "replaced"} \cup Actionable
Words      == 0..MaxEdits

\* Types.
TypeOK ==
    /\ state \in [Drafts -> States] /\ words \in [Drafts -> Words]
    /\ call \in [Drafts -> {"none", "tool", "bridge", "delivered", "refused"}]
    /\ copy \in [Drafts -> Words] /\ left \in [Drafts -> Seq(Words)]
    /\ stale \in SUBSET Drafts
    /\ pc \in [Clicks -> {"idle", "claim", "wait", "settle", "wake"}]
    /\ on \in [Clicks -> Drafts \cup {NoDraft}]
    /\ was \in [Clicks -> Sendable] /\ args \in [Clicks -> Words]
    /\ answer \in [Clicks -> {"sent", "unconfirmed", "failed"}]
    /\ turn \in {"idle", "work", "retire"} /\ held \in SUBSET Drafts
    /\ wakes \in Seq(Drafts)
    /\ told \in [Drafts -> SUBSET {"SENT", "WOKEN", "DISCARDED", "REPLACED"}]
    /\ presses \in 0..MaxPresses /\ says \in 0..MaxSays /\ crashes \in 0..MaxCrashes

Init ==
    /\ state = [d \in Drafts |-> "none"] /\ words = [d \in Drafts |-> 0]
    /\ call = [d \in Drafts |-> "none"] /\ copy = [d \in Drafts |-> 0]
    /\ left = [d \in Drafts |-> <<>>] /\ stale = {}
    /\ pc = [c \in Clicks |-> "idle"] /\ on = [c \in Clicks |-> NoDraft]
    /\ was = [c \in Clicks |-> "held"] /\ args = [c \in Clicks |-> 0]
    /\ answer = [c \in Clicks |-> "failed"]
    /\ turn = "idle" /\ held = {} /\ wakes = <<>>
    /\ told = [d \in Drafts |-> {}]
    /\ presses = 0 /\ says = 0 /\ crashes = 0

-----------------------------------------------------------------------------
(* The store *)

\* An UPDATE guarded by the states the row is expected in.
Settled(d, from, to) == IF state[d] \in from THEN [state EXCEPT ![d] = to] ELSE state

\* Claims found older than their lease, as every listing of drafts does first.
Stranded     == {d \in Drafts : state[d] = "sending" /\ (Prompt => \A c \in Clicks : on[c] # d)}
Reclaimed(S) == [d \in Drafts |-> IF d \in S THEN "ambiguous" ELSE state[d]]

List ==
    /\ \E S \in SUBSET Stranded \ {{}} : state' = Reclaimed(S)
    /\ UNCHANGED <<words, calls, clicks, chat, counts>>

Discard(d) ==
    /\ state[d] \in Actionable
    /\ state' = Settled(d, Actionable, "discarded")
    /\ UNCHANGED <<words, calls, clicks, chat, counts>>

Revise(d) ==
    /\ state[d] \in Sendable
    /\ words[d] < MaxEdits
    /\ FreshArgs => \A c \in Clicks : ~(on[c] = d /\ pc[c] = "claim")
    /\ words' = [words EXCEPT ![d] = @ + 1]
    /\ UNCHANGED <<state, calls, clicks, chat, counts>>

-----------------------------------------------------------------------------
(* Send *)

\* What the tool has answered, or that nothing is confirmed in time.
Heard(c) ==
    CASE call[on[c]] = "delivered" -> "sent"
      [] call[on[c]] = "refused"   -> "failed"
      [] OTHER                     -> "unconfirmed"

Goto(c, place) ==
    /\ pc' = [pc EXCEPT ![c] = place]
    /\ on' = [on EXCEPT ![c] = IF place = "idle" THEN NoDraft ELSE @]
    /\ was' = [was EXCEPT ![c] = "held"] /\ args' = [args EXCEPT ![c] = 0]
    /\ answer' = [answer EXCEPT ![c] = IF place = "settle" THEN Heard(c) ELSE "failed"]

\* The row is read: its state, and the words that will be sent.
Press(c, d) ==
    /\ pc[c] = "idle"
    /\ presses < MaxPresses
    /\ state[d] \in Sendable
    /\ pc' = [pc EXCEPT ![c] = "claim"] /\ on' = [on EXCEPT ![c] = d]
    /\ was' = [was EXCEPT ![c] = state[d]] /\ args' = [args EXCEPT ![c] = words[d]]
    /\ presses' = presses + 1
    /\ UNCHANGED <<rows, calls, answer, chat, says, crashes>>

\* The claim: the row must be as it was read.
Claim(c) ==
    LET d == on[c] IN
    /\ pc[c] = "claim" /\ state[d] = was[c]
    /\ state' = [state EXCEPT ![d] = "sending"]
    /\ call' = [call EXCEPT ![d] = "tool"] /\ copy' = [copy EXCEPT ![d] = args[c]]
    /\ stale' = IF args[c] = words[d] THEN stale ELSE stale \cup {d}
    /\ Goto(c, "wait")
    /\ UNCHANGED <<words, left, chat, counts>>

GiveUp(c) ==
    /\ pc[c] = "claim" /\ state[on[c]] # was[c]
    /\ Goto(c, "idle")
    /\ UNCHANGED <<rows, calls, chat, counts>>

\* The tool's thread: a refusal, or the hand-over to the bridge; the bridge.
Becomes(d, place) ==
    /\ call' = [call EXCEPT ![d] = place]
    /\ copy' = [copy EXCEPT ![d] = IF place = "bridge" THEN @ ELSE 0]
    /\ UNCHANGED <<rows, stale, clicks, chat, counts>>

Refuse(d)   == call[d] \in {"tool", "bridge"} /\ Becomes(d, "refused") /\ left' = left
HandOver(d) == call[d] = "tool" /\ Becomes(d, "bridge") /\ left' = left
Deliver(d)  == /\ call[d] = "bridge" /\ Becomes(d, "delivered")
               /\ left' = [left EXCEPT ![d] = Append(@, copy[d])]

\* Without an answer in time the tool's thread is left behind.
Answer(c) ==
    /\ pc[c] = "wait"
    /\ Goto(c, "settle")
    /\ UNCHANGED <<rows, calls, chat, counts>>

\* Mutant: what was not confirmed is noted as failed.
UnconfirmedFailed(c) == IF answer[c] = "sent" THEN "sent" ELSE "failed"

Outcome(c) == IF answer[c] = "unconfirmed" THEN "ambiguous" ELSE answer[c]

Settle(c) ==
    /\ pc[c] = "settle"
    /\ state' = Settled(on[c], {"sending"}, Outcome(c))
    /\ Goto(c, IF answer[c] = "sent" THEN "wake" ELSE "idle")
    /\ UNCHANGED <<words, calls, chat, counts>>

\* Mutant: a draft that has been sent holds the wake back as well.
SentHoldsBack(d, states) == \E e \in Drafts \ {d} : states[e] \in Sendable \cup {"sending", "sent"}

\* Another draft of the chat still waits, or is on its way.
HeldBack(d, states) == \E e \in Drafts \ {d} : states[e] \in Sendable \cup {"sending"}

Wake(c) ==
    LET d == on[c] IN
    /\ pc[c] = "wake"
    /\ IF state[d] \in {"sent", "sending"}
       THEN \E S \in SUBSET Stranded :
               /\ state' = Reclaimed(S)
               /\ wakes' = IF HeldBack(d, state') THEN wakes ELSE Append(wakes, d)
       ELSE UNCHANGED <<state, wakes>>
    /\ Goto(c, "idle")
    /\ UNCHANGED <<words, calls, turn, held, told, counts>>

-----------------------------------------------------------------------------
(* The chat's turns *)

Decision(d) ==
    CASE state[d] \in {"sent", "sending"} -> {"SENT"}
      [] state[d] = "discarded"           -> {"DISCARDED"}
      [] state[d] = "replaced"            -> {"REPLACED"}
      [] OTHER                            -> {}

\* A turn begins with a note on every draft the history does not report yet.
Noted(history) == [d \in Drafts |-> IF history[d] = {} THEN Decision(d) ELSE history[d]]

Say ==
    /\ turn = "idle" /\ says < MaxSays
    /\ says' = says + 1
    /\ turn' = "work"
    /\ told' = Noted(told)
    /\ UNCHANGED <<rows, calls, clicks, held, wakes, presses, crashes>>

\* A wake turn's own words report the draft it was queued for.
TakeWake ==
    /\ turn = "idle" /\ wakes # <<>>
    /\ wakes' = Tail(wakes)
    /\ turn' = "work"
    /\ told' = Noted([told EXCEPT ![Head(wakes)] = @ \cup {"WOKEN"}])
    /\ UNCHANGED <<rows, calls, clicks, held, counts>>

Park(d) ==
    /\ turn = "work"
    /\ state[d] = "none" /\ \A e \in Drafts : e < d => state[e] # "none"
    /\ state' = [state EXCEPT ![d] = "held"]
    /\ turn' = "retire" /\ held' = held \cup {d}
    /\ UNCHANGED <<words, calls, clicks, wakes, told, counts>>

Newest == CHOOSE d \in held : \A e \in held : e <= d

\* Mutant: whatever is still open is retired, a draft on its way included.
OpenStates == Actionable \cup {"sending"}

Retirable == Sendable

\* The older drafts to the same person make way, but not those of this round.
Retire ==
    /\ turn = "retire"
    /\ \E S \in SUBSET Stranded :
           state' = [d \in Drafts |->
               IF state[d] \in Retirable /\ d \notin held /\ To[d] = To[Newest]
               THEN "replaced" ELSE Reclaimed(S)[d]]
    /\ turn' = "work"
    /\ UNCHANGED <<words, calls, clicks, held, wakes, told, counts>>

\* list_drafts: the agent asks, and is told in the words the notes look for.
LookUp(d) ==
    /\ turn = "work"
    /\ Decision(d) # {}
    /\ told' = [told EXCEPT ![d] = @ \cup Decision(d)]
    /\ UNCHANGED <<rows, calls, clicks, turn, held, wakes, counts>>

EndTurn ==
    /\ turn = "work"
    /\ turn' = "idle" /\ held' = {}
    /\ UNCHANGED <<rows, calls, clicks, wakes, told, counts>>

-----------------------------------------------------------------------------
(* The server dies: its Sends, the tools' threads, the turn and the queue *)

Crash ==
    /\ crashes < MaxCrashes
    /\ crashes' = crashes + 1
    /\ pc' = [c \in Clicks |-> "idle"] /\ on' = [c \in Clicks |-> NoDraft]
    /\ was' = [c \in Clicks |-> "held"] /\ args' = [c \in Clicks |-> 0]
    /\ answer' = [c \in Clicks |-> "failed"]
    /\ call' = [d \in Drafts |-> IF call[d] = "tool" THEN "refused" ELSE call[d]]
    /\ copy' = [d \in Drafts |-> IF call[d] = "tool" THEN 0 ELSE copy[d]]
    /\ turn' = "idle" /\ held' = {} /\ wakes' = <<>>
    /\ UNCHANGED <<rows, left, stale, told, presses, says>>

-----------------------------------------------------------------------------
Send(c) == Claim(c) \/ GiveUp(c) \/ Answer(c) \/ Settle(c) \/ Wake(c)

Next ==
    \/ List \/ Say \/ TakeWake \/ Retire \/ EndTurn \/ Crash
    \/ \E d \in Drafts : \/ Discard(d) \/ Revise(d) \/ Park(d) \/ LookUp(d)
                         \/ Refuse(d) \/ HandOver(d) \/ Deliver(d)
    \/ \E c \in Clicks : Send(c) \/ \E d \in Drafts : Press(c, d)

\* A Send that has begun goes on, and so does a turn; a queued wake is taken.
Fairness ==
    /\ \A c \in Clicks : WF_vars(Send(c))
    /\ WF_vars(Retire) /\ WF_vars(EndTurn) /\ WF_vars(TakeWake)

Spec == Init /\ [][Next]_vars /\ Fairness

-----------------------------------------------------------------------------
(* Properties *)

\* A draft's phase: released while a Send holds it, unknown when its outcome
\* is, also after it was dropped for as long as a copy may still leave.
Phase(d) ==
    IF state[d] = "none" THEN "none"
    ELSE IF state[d] = "sending" THEN "released"
    ELSE IF state[d] = "ambiguous" \/ call[d] \in {"tool", "bridge"} THEN "unknown"
    ELSE IF state[d] \in Sendable THEN "waiting" ELSE "over"

Promise == INSTANCE Delivery WITH
    Messages <- Drafts,
    Texts <- Words,
    phase <- [d \in Drafts |-> Phase(d)],
    text  <- words

\* Whatever surfaces race and whatever the bridge does late, the parked calls
\* keep Delivery's promise: once, after a yes, in the words of the yes.
KeepsDelivery == Promise!Spec

\* Also when edits fall between a Send's read and its claim: every draft that was
\* never claimed in words no longer its own is treated as Delivery says.
StepsUnlessStale == \A d \in Drafts \ stale' : Promise!Step(d)
KeptUnlessStale  == Promise!Init /\ [][StepsUnlessStale]_vars

\* What a wake turn or a note of a replacement tells the agent is so, and stays
\* so: the one message has been delivered, the other never will be.
ToldStaysTrue ==
    \A d \in Drafts :
        /\ "WOKEN" \in told[d] => Len(left[d]) = 1
        /\ "REPLACED" \in told[d] => left[d] = <<>> /\ Phase(d) = "over"

\* When everything a chat has parked is sent, the chat is told, without another
\* word from the person, unless the server died meanwhile.
SentIsTold ==
    (\A d \in Drafts : state[d] = "sent") ~> (crashes > 0 \/ \A d \in Drafts : told[d] # {})

\* "Draft ... was DISCARDED by the user. Nothing was sent."
NothingWasSent == \A d \in Drafts : "DISCARDED" \in told[d] => left[d] = <<>>

\* "Two Send clicks racing each other wake the chat once."
WokenOnce == Len(wakes) <= 1

\* What the agent was told is what became of the draft.
ToldIsSo ==
    \A d \in Drafts : "SENT" \in told[d] => state[d] \in {"sent", "sending"}
=============================================================================
