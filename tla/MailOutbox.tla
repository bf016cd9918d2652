----------------------------- MODULE MailOutbox -----------------------------
(***************************************************************************)
(* The mail outbox of one account (vaf/mail/service.py, store.py,          *)
(* writeback.py): a send is queued, at once or held as a draft; a person   *)
(* sends, edits or drops a draft (vaf/core/outbound_hold.py); a pass       *)
(* claims what is pending and hands it to the transport.  The supervisor's *)
(* sweep makes passes of its own, and so does every Send, in several       *)
(* processes.  The row of a send (op) and its entry in the ledger of sent  *)
(* ids (stamp) are written in transactions of their own.                   *)
(*                                                                         *)
(* A mail is its words; addresses, accounts and the Sent copy are left     *)
(* out.  error tells only whether the row has one, and whether it is the   *)
(* one of an interrupted send.                                             *)
(*                                                                         *)
(* Three assumptions can be dropped, each with a constant:                 *)
(*   FreshPass   no row changes between a pass's listing and its turn      *)
(*   Prompt      no live pass and no Send outlives the lease of a claim    *)
(*   Together    a row's approval, or its first write, and its stamp are   *)
(*               written with nothing in between                           *)
(***************************************************************************)
EXTENDS Naturals, Sequences, FiniteSets

CONSTANTS Ops,           \* the sends, numbered in the order they are queued
          Clicks,        \* the surfaces a person can press Send on
          Sweeps,        \* the supervisor's passes
          MaxAttempts,
          MaxEdits, MaxPresses, MaxCrashes,     \* bounds
          NoOp,
          FreshPass, Prompt, Together

ASSUME MailOutboxAssumption ==
    /\ Ops \subseteq Nat /\ IsFiniteSet(Ops) /\ NoOp \notin Ops
    /\ MaxAttempts \in Nat \ {0}
    /\ {MaxEdits, MaxPresses, MaxCrashes} \subseteq Nat
    /\ {FreshPass, Prompt, Together} \subseteq BOOLEAN

Runners == Clicks \cup Sweeps

VARIABLES op,        \* the rows: state, attempts, words, error, born
          stamp,     \* the ledger
          pc,        \* per runner: where it is
          list,      \* the rows its pass has listed and not yet dealt with
          answer,    \* what the transport told it
          on,        \* the draft a Send is about
          left,      \* history: the copies that are on the wire
          raced,     \* history: the rows met in a race no guard of the code excludes
          presses, crashes

rows    == <<op, stamp>>
runners == <<pc, list, answer, on>>
vars    == <<rows, runners, left, raced, presses, crashes>>

States  == {"none", "held", "pending", "sending", "done", "failed", "discarded", "cancelled"}
Rows    == [state : States, attempts : 0..MaxAttempts, words : 0..MaxEdits,
            error : {"none", "error", "interrupted"}, born : {"held", "queued"}]
Listing == [id : Ops, attempts : 0..MaxAttempts, words : 0..MaxEdits]
Stamps  == {"none", "held", "queued", "sent", "ambiguous", "failed", "discarded"}
Answers == {"ok", "retry", "refused", "unsure"}
Places  == {"idle", "check", "yes", "stamp", "pass", "drain", "send", "ledger", "mark",
            "read", "return"}

\* Types.
TypeOK ==
    /\ op \in [Ops -> Rows]
    /\ stamp \in [Ops -> Stamps]
    /\ pc \in [Runners -> Places]
    /\ list \in [Runners -> Seq(Listing)]
    /\ answer \in [Runners -> Answers]
    /\ on \in [Clicks -> Ops \cup {NoOp}]
    /\ left \in [Ops -> Seq(0..MaxEdits)]
    /\ raced \subseteq Ops
    /\ presses \in 0..MaxPresses /\ crashes \in 0..MaxCrashes

Init ==
    /\ op = [o \in Ops |-> [state |-> "none", attempts |-> 0, words |-> 0,
                            error |-> "none", born |-> "held"]]
    /\ stamp = [o \in Ops |-> "none"]
    /\ pc = [r \in Runners |-> "idle"]
    /\ list = [r \in Runners |-> <<>>]
    /\ answer = [r \in Runners |-> "ok"]
    /\ on = [c \in Clicks |-> NoOp]
    /\ left = [o \in Ops |-> <<>>]
    /\ raced = {}
    /\ presses = 0 /\ crashes = 0

-----------------------------------------------------------------------------
(* What a row and its stamp say *)

DraftState(o) ==
    IF stamp[o] = "ambiguous" THEN "ambiguous"
    ELSE IF op[o].error # "none" THEN "failed" ELSE "held"

\* What the card and the terminal show of a send.
CardState(o) ==
    CASE op[o].state = "held"                   -> DraftState(o)
      [] op[o].state \in {"pending", "sending"} -> "sending"
      [] op[o].state = "done"                   -> "sent"
      [] op[o].state = "failed"                 ->
             IF op[o].error = "interrupted" \/ stamp[o] = "ambiguous" THEN "ambiguous" ELSE "failed"
      [] OTHER                                  -> "discarded"

\* A stamp updates the ledger's entry; there may be none yet.
Stamped(o, word) == IF stamp[o] = "none" THEN stamp ELSE [stamp EXCEPT ![o] = word]

\* An UPDATE guarded by the state the row is expected in.
Move(o, from, to) == IF op[o].state = from THEN [op EXCEPT ![o].state = to] ELSE op

\* The second of two writes that belong together is still to come.
Halfway(o) ==
    \/ op[o].state # "none" /\ stamp[o] = "none"
    \/ \E c \in Clicks : on[c] = o /\ pc[c] \in {"yes", "stamp"}

\* Someone comes to a row: between its two writes, or in some other race.
Touch(o, race) ==
    /\ Together => ~Halfway(o)
    /\ raced' = IF Halfway(o) \/ race THEN raced \cup {o} ELSE raced

Goto(r, place) ==
    /\ pc' = [pc EXCEPT ![r] = place]
    /\ on' = [c \in Clicks |-> IF c = r /\ place = "idle" THEN NoOp ELSE on[c]]

-----------------------------------------------------------------------------
(* Writing, editing, dropping *)

\* The agent's tools, the compose window and the Front Office queue here.
Queue(o, born) ==
    /\ op[o].state = "none"
    /\ \A p \in Ops : p < o => op[p].state # "none"
    /\ op' = [op EXCEPT ![o].state = IF born = "held" THEN "held" ELSE "pending",
                        ![o].born = born]
    /\ UNCHANGED <<stamp, runners, left, raced, presses, crashes>>

Record(o) ==
    /\ op[o].state # "none"
    /\ stamp[o] = "none"
    /\ stamp' = [stamp EXCEPT ![o] = op[o].born]
    /\ UNCHANGED <<op, runners, left, raced, presses, crashes>>

Revise(o) ==
    /\ op[o].state = "held" /\ Touch(o, FALSE)
    /\ DraftState(o) # "ambiguous"
    /\ op[o].words < MaxEdits
    /\ op' = [op EXCEPT ![o].words = @ + 1]
    /\ UNCHANGED <<stamp, runners, left, presses, crashes>>

Discard(o) ==
    /\ op[o].state = "held" /\ Touch(o, FALSE)
    /\ op' = [op EXCEPT ![o].state = "discarded"]
    /\ stamp' = Stamped(o, "discarded")
    /\ UNCHANGED <<runners, left, presses, crashes>>

\* The undo of a send that is not claimed yet.
Cancel(o) ==
    /\ op[o].state = "pending" /\ Touch(o, FALSE)
    /\ op' = [op EXCEPT ![o].state = "cancelled"]
    /\ UNCHANGED <<stamp, runners, left, presses, crashes>>

-----------------------------------------------------------------------------
(* Send: the draft is approved, the account drained, the outcome read *)

\* A parked row whose card offers Send goes back to the person first.
Press(c, o) ==
    /\ pc[c] = "idle" /\ Touch(o, FALSE)
    /\ presses < MaxPresses
    /\ CardState(o) \in {"held", "failed"}
    /\ op' = Move(o, "failed", "held")
    /\ pc' = [pc EXCEPT ![c] = "check"]
    /\ on' = [on EXCEPT ![c] = o]
    /\ presses' = presses + 1
    /\ UNCHANGED <<stamp, list, answer, left, crashes>>

MayBeSent(o) == op[o].state = "held" /\ DraftState(o) # "ambiguous"

Check(c) ==
    /\ pc[c] = "check" /\ Touch(on[c], FALSE)
    /\ Goto(c, IF MayBeSent(on[c]) THEN "yes" ELSE "idle")
    /\ UNCHANGED <<rows, list, answer, left, presses, crashes>>

\* approve_op: the attempts start over.
Approve(c) ==
    LET o == on[c] IN
    /\ pc[c] = "yes"
    /\ IF op[o].state = "held"
       THEN /\ op' = [op EXCEPT ![o].state = "pending", ![o].attempts = 0, ![o].error = "none"]
            /\ Goto(c, "stamp")
       ELSE op' = op /\ Goto(c, "idle")
    /\ UNCHANGED <<stamp, list, answer, left, raced, presses, crashes>>

Stamp(c) ==
    /\ pc[c] = "stamp"
    /\ stamp' = Stamped(on[c], "queued")
    /\ Goto(c, "pass")
    /\ UNCHANGED <<op, list, answer, left, raced, presses, crashes>>

Read(c) ==
    /\ pc[c] = "read"
    /\ Goto(c, IF op[on[c]].state = "failed" THEN "return" ELSE "idle")
    /\ UNCHANGED <<rows, list, answer, left, raced, presses, crashes>>

Return(c) ==
    /\ pc[c] = "return" /\ Touch(on[c], FALSE)
    /\ op' = Move(on[c], "failed", "held")
    /\ Goto(c, "idle")
    /\ UNCHANGED <<stamp, list, answer, left, presses, crashes>>

-----------------------------------------------------------------------------
(* A pass over what is pending *)

Handling(r) == pc[r] \in {"send", "ledger", "mark"}

\* A live pass has the row in hand, or a Send is about it.
InHand(o) ==
    \/ \E r \in Runners : Handling(r) /\ list[r][1].id = o
    \/ \E c \in Clicks : on[c] = o /\ pc[c] # "idle"

\* A claim older than its lease.
Stranded(o) == op[o].state = "sending" /\ (Prompt => ~InHand(o))

\* Mutant: an interrupted send is tried again.
Rearmed(o) == [op[o] EXCEPT !.state = "pending"]

Reclaimed(o) == [op[o] EXCEPT !.state = "failed", !.error = "interrupted"]

\* The numbers of S, smallest first: there is one such sequence.
InOrder(S) ==
    {due \in [1..Cardinality(S) -> S] : \A i, j \in DOMAIN due : i < j => due[i] < due[j]}

\* reclaim_stale_ops, then pending_ops; a claim may also still be young.
StartPass(r) ==
    /\ pc[r] = IF r \in Clicks THEN "pass" ELSE "idle"
    /\ \E S \in SUBSET {o \in Ops : Stranded(o)} :
           /\ Prompt => S = {o \in Ops : Stranded(o)}
           /\ op' = [o \in Ops |-> IF o \in S THEN Reclaimed(o) ELSE op[o]]
           /\ raced' = raced \cup {o \in S : InHand(o)}
    /\ \E due \in InOrder({o \in Ops : op'[o].state = "pending"}) :
           list' = [list EXCEPT ![r] =
               [i \in DOMAIN due |-> [id |-> due[i], attempts |-> op'[due[i]].attempts,
                                      words |-> op'[due[i]].words]]]
    /\ Goto(r, "drain")
    /\ UNCHANGED <<stamp, answer, left, presses, crashes>>

\* What the pass goes by: the row as it was listed.
Row(r) ==
    LET e == list[r][1]
    IN  IF FreshPass THEN [e EXCEPT !.attempts = op[e.id].attempts, !.words = op[e.id].words] ELSE e

AtRow(r) == pc[r] = "drain" /\ list[r] # <<>>

\* Mutant: the attempts are not counted.
NeverSpent(r) == FALSE

Spent(r) == Row(r).attempts >= MaxAttempts

\* A row with no attempts left is parked, without a look at its state.
Cap(r) ==
    LET o == list[r][1].id IN
    /\ AtRow(r) /\ Spent(r)
    /\ FreshPass => op[o].state = "pending"
    /\ Touch(o, op[o].state # "pending")
    /\ op' = [op EXCEPT ![o].state = "failed", ![o].error = "error"]
    /\ list' = [list EXCEPT ![r] = Tail(@)]
    /\ UNCHANGED <<stamp, pc, answer, on, left, presses, crashes>>

Claimable(o) == op[o].state = "pending"

Claim(r) ==
    LET o == list[r][1].id IN
    /\ AtRow(r) /\ ~Spent(r)
    /\ Claimable(o)
    /\ Touch(o, Row(r).words # op[o].words)
    /\ op' = [op EXCEPT ![o].state = "sending",
                        ![o].attempts = IF @ < MaxAttempts THEN @ + 1 ELSE @]
    /\ list' = [list EXCEPT ![r][1] = Row(r)]
    /\ Goto(r, "send")
    /\ UNCHANGED <<stamp, answer, left, presses, crashes>>

\* The row is no longer pending: cancelled, or another pass has it.
Skip(r) ==
    /\ AtRow(r) /\ ~Claimable(list[r][1].id)
    /\ Spent(r) => FreshPass
    /\ Together => ~Halfway(list[r][1].id)
    /\ list' = [list EXCEPT ![r] = Tail(@)]
    /\ UNCHANGED <<rows, pc, answer, on, left, raced, presses, crashes>>

\* The transport: delivered; refused before the hand-off, for now or for good;
\* or handed off and never confirmed.
Transmit(r) ==
    LET e == list[r][1] IN
    /\ pc[r] = "send"
    /\ \E a \in Answers, gone \in BOOLEAN :
           /\ a = "ok" => gone
           /\ a \in {"retry", "refused"} => ~gone
           /\ answer' = [answer EXCEPT ![r] = a]
           /\ left' = IF gone THEN [left EXCEPT ![e.id] = Append(@, e.words)] ELSE left
           /\ Goto(r, IF a = "retry" THEN "mark" ELSE "ledger")
    /\ UNCHANGED <<rows, list, raced, presses, crashes>>

\* Mutant: a send that was not confirmed is noted as failed.
NotConfirmedFailed(r) ==
    IF answer[r] = "ok" THEN "sent" ELSE "failed"

Word(r) ==
    CASE answer[r] = "ok"      -> "sent"
      [] answer[r] = "unsure"  -> "ambiguous"
      [] OTHER                 -> "failed"

Ledger(r) ==
    LET o == list[r][1].id IN
    /\ pc[r] = "ledger" /\ Touch(o, FALSE)
    /\ stamp' = Stamped(o, Word(r))
    /\ Goto(r, "mark")
    /\ UNCHANGED <<op, list, answer, left, presses, crashes>>

Mark(r) ==
    LET o == list[r][1].id
        to == CASE answer[r] = "ok" -> "done" [] answer[r] = "retry" -> "pending" [] OTHER -> "failed"
    IN
    /\ pc[r] = "mark" /\ Touch(o, FALSE)
    /\ op' = IF answer[r] = "ok" \/ op[o].state # "sending" THEN Move(o, "sending", to)
             ELSE [Move(o, "sending", to) EXCEPT ![o].error = "error"]
    /\ list' = [list EXCEPT ![r] = Tail(@)]
    /\ answer' = [answer EXCEPT ![r] = "ok"]
    /\ Goto(r, "drain")
    /\ UNCHANGED <<stamp, left, presses, crashes>>

EndPass(r) ==
    /\ pc[r] = "drain" /\ list[r] = <<>>
    /\ Goto(r, IF r \in Clicks THEN "read" ELSE "idle")
    /\ UNCHANGED <<rows, list, answer, left, raced, presses, crashes>>

\* The process a runner is in dies.
Crash(r) ==
    /\ pc[r] # "idle"
    /\ crashes < MaxCrashes
    /\ crashes' = crashes + 1
    /\ Goto(r, "idle")
    /\ list' = [list EXCEPT ![r] = <<>>]
    /\ answer' = [answer EXCEPT ![r] = "ok"]
    /\ UNCHANGED <<rows, left, raced, presses>>

-----------------------------------------------------------------------------
Pass(r) == \/ StartPass(r) \/ Cap(r) \/ Claim(r) \/ Skip(r)
           \/ Transmit(r) \/ Ledger(r) \/ Mark(r) \/ EndPass(r)
Send(c) == Check(c) \/ Approve(c) \/ Stamp(c) \/ Read(c) \/ Return(c)

Next ==
    \/ \E o \in Ops : \/ \E born \in {"held", "queued"} : Queue(o, born)
                      \/ Record(o) \/ Revise(o) \/ Discard(o) \/ Cancel(o)
    \/ \E c \in Clicks : (\E o \in Ops : Press(c, o)) \/ Send(c)
    \/ \E r \in Runners : Pass(r) \/ Crash(r)

\* The supervisor sweeps for as long as the program runs, and what has begun
\* goes on unless its process dies.
Fairness ==
    /\ \A o \in Ops : WF_vars(Record(o))
    /\ \A c \in Clicks : WF_vars(Send(c))
    /\ \A r \in Runners : WF_vars(Pass(r))

Spec == Init /\ [][Next]_vars /\ Fairness

-----------------------------------------------------------------------------
(* Properties *)

\* A message is on the wire at most once, whatever crashes and whoever else
\* sends ("a non-idempotent send can never be delivered twice").
AtMostOneCopy == \A o \in Ops : Len(left[o]) <= 1

\* The card offers Send only for a message that has not left, says sent only
\* of one that has, and what was taken back before any attempt has not left.
CardTrue(o) ==
    /\ CardState(o) \in {"held", "failed"} => left[o] = <<>>
    /\ CardState(o) = "sent" => Len(left[o]) = 1
    /\ CardState(o) = "discarded" /\ op[o].error = "none" => left[o] = <<>>

CardTellsTruth == \A o \in Ops : CardTrue(o)

\* The outbox keeps Delivery's promise: once, after a yes, in the words of the yes.
Phase(o) ==
    IF op[o].state = "none" THEN "none"
    ELSE IF op[o].state \in {"pending", "sending"} THEN "released"
    ELSE IF CardState(o) = "ambiguous" THEN "unknown"
    ELSE IF op[o].state \in {"held", "failed"} THEN "waiting" ELSE "over"

Promise == INSTANCE Delivery WITH
    Messages <- Ops,
    Texts <- 0..MaxEdits,
    phase <- [o \in Ops |-> Phase(o)],
    text  <- [o \in Ops |-> op[o].words]

KeepsDelivery == Promise!Spec

\* Without the assumptions: a message that met with none of the races they
\* exclude leaves once, its card is true, and each of its steps is one of
\* Delivery, whatever happens to the others.
Unraced == Ops \ raced

OnceUnlessRaced  == \A o \in Unraced : Len(left[o]) <= 1
TruthUnlessRaced == \A o \in Unraced : CardTrue(o)
StepsUnlessRaced == \A o \in Unraced' : Promise!Step(o)
KeptUnlessRaced  == Promise!Init /\ [][StepsUnlessRaced]_vars

\* A send that was released is settled: delivered, back with the person, or
\* withdrawn; the sweep does not leave it and does not try for ever.
EveryReleaseEnds ==
    \A o \in Ops : op[o].state \in {"pending", "sending"} ~> op[o].state \notin {"pending", "sending"}
=============================================================================
