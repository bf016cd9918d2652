-------------------------- MODULE HeldCalls_proofs --------------------------
(***************************************************************************)
(* Proofs about HeldCalls, for any number of drafts and of surfaces: the   *)
(* parked calls keep Delivery's promise, and what a wake turn or a note of *)
(* a replacement says is so.                                               *)
(*                                                                         *)
(* The invariant ties three things together: the stored row, the tool's    *)
(* thread with the copy it makes, and the Send that holds the claim.       *)
(***************************************************************************)
EXTENDS HeldCalls, SequenceTheorems, TLAPS

Holds(c) == pc[c] \in {"wait", "settle"}

\* A draft that waits, or was replaced while it waited, has no copy anywhere.
RowInv ==
    \A d \in Drafts :
        /\ state[d] \in {"none", "held", "failed", "replaced"} => call[d] \in {"none", "refused"}
        /\ state[d] = "sent" => call[d] = "delivered"
        /\ call[d] = "delivered" => Len(left[d]) = 1
        /\ call[d] # "delivered" => left[d] = <<>>

\* The Send that claimed a draft is alone with it until it has settled.
ClickInv ==
    /\ \A c \in Clicks : pc[c] # "idle" => on[c] \in Drafts
    /\ \A c \in Clicks : Holds(c) => state[on[c]] \in {"sending", "ambiguous", "discarded"}
    /\ \A c, e \in Clicks : Holds(c) /\ Holds(e) /\ on[c] = on[e] => c = e
    /\ \A c \in Clicks : pc[c] = "settle" /\ answer[c] = "sent" => call[on[c]] = "delivered"
    /\ \A c \in Clicks : pc[c] = "settle" /\ answer[c] = "failed" => call[on[c]] = "refused"
    /\ \A c \in Clicks : pc[c] = "wake" => call[on[c]] = "delivered"

\* What was told, and the wakes that will tell.
ToldInv ==
    /\ \A i \in 1..Len(wakes) : call[wakes[i]] = "delivered"
    /\ \A d \in Drafts : "WOKEN" \in told[d] => call[d] = "delivered"
    /\ \A d \in Drafts : "REPLACED" \in told[d] => state[d] = "replaced"

\* What is on its way is what is stored, unless the draft was claimed in other words.
WordsInv ==
    \A d \in Drafts \ stale : call[d] \in {"tool", "bridge"} => copy[d] = words[d]

IInv == TypeOK /\ RowInv /\ ClickInv /\ ToldInv

-----------------------------------------------------------------------------
\* Initially nothing is parked, and nobody has been told anything.
LEMMA InvInit == Init => IInv
  BY HeldCallsAssumption DEF Init, IInv, TypeOK, RowInv, ClickInv, ToldInv, Holds, Words, States, Actionable, Sendable

\* Decisions are words of the history.
LEMMA DecisionType == \A d \in Drafts : Decision(d) \in SUBSET {"SENT", "WOKEN", "DISCARDED", "REPLACED"}
  BY DEF Decision

\* The bounds are natural numbers.
LEMMA Bounds == MaxEdits \in Nat /\ MaxPresses \in Nat /\ MaxSays \in Nat /\ MaxCrashes \in Nat
  BY HeldCallsAssumption

\* Where a Send goes, its own state is typed.
LEMMA GotoTypes ==
    ASSUME TypeOK, NEW c \in Clicks, NEW place \in {"idle", "claim", "wait", "settle", "wake"},
           Goto(c, place)
    PROVE  /\ pc' \in [Clicks -> {"idle", "claim", "wait", "settle", "wake"}]
           /\ on' \in [Clicks -> Drafts \cup {NoDraft}]
           /\ was' \in [Clicks -> Sendable] /\ args' \in [Clicks -> Words]
           /\ answer' \in [Clicks -> {"sent", "unconfirmed", "failed"}]
<1>1. Heard(c) \in {"sent", "unconfirmed", "failed"}
  BY DEF Heard
<1>2. pc' \in [Clicks -> {"idle", "claim", "wait", "settle", "wake"}]
  BY DEF Goto, TypeOK
<1>3. on' \in [Clicks -> Drafts \cup {NoDraft}]
  BY DEF Goto, TypeOK
<1>4. was' \in [Clicks -> Sendable]
  BY DEF Goto, TypeOK, Sendable
<1>5. args' \in [Clicks -> Words]
  BY Bounds DEF Goto, TypeOK, Words
<1>6. answer' \in [Clicks -> {"sent", "unconfirmed", "failed"}]
  BY <1>1 DEF Goto, TypeOK
<1> QED
  BY <1>2, <1>3, <1>4, <1>5, <1>6

\* Every step keeps the types.
LEMMA TypeStep == IInv /\ [Next]_vars => TypeOK'
<1> SUFFICES ASSUME IInv, [Next]_vars PROVE TypeOK'
  OBVIOUS
<1>a. TypeOK /\ RowInv /\ ClickInv /\ ToldInv
  BY DEF IInv
<1>1. ASSUME List PROVE TypeOK'
  BY <1>1, <1>a DEF List, Stranded, Reclaimed, TypeOK, Words, States, Actionable, Sendable, rows, calls, clicks, chat, counts
<1>2. ASSUME Say PROVE TypeOK'
  <2>1. told' \in [Drafts -> SUBSET {"SENT", "WOKEN", "DISCARDED", "REPLACED"}]
    BY <1>2, <1>a, DecisionType DEF Say, Noted, TypeOK
  <2>2. says' \in 0..MaxSays
    BY <1>2, <1>a, Bounds DEF Say, TypeOK
  <2> QED
    BY <1>2, <1>a, <2>1, <2>2 DEF Say, TypeOK, rows, calls, clicks, chat, counts
<1>3. ASSUME TakeWake PROVE TypeOK'
  <2>1. Head(wakes) \in Drafts /\ wakes' \in Seq(Drafts)
    BY <1>3, <1>a DEF TakeWake, TypeOK
  <2>2. [told EXCEPT ![Head(wakes)] = @ \cup {"WOKEN"}] \in [Drafts -> SUBSET {"SENT", "WOKEN", "DISCARDED", "REPLACED"}]
    BY <2>1, <1>a DEF TypeOK
  <2>3. told' \in [Drafts -> SUBSET {"SENT", "WOKEN", "DISCARDED", "REPLACED"}]
    BY <1>3, <1>a, <2>2, DecisionType DEF TakeWake, Noted
  <2> QED
    BY <1>3, <1>a, <2>1, <2>2, <2>3 DEF TakeWake, TypeOK, rows, calls, clicks, chat, counts
<1>4. ASSUME Retire PROVE TypeOK'
  <2>1. state' \in [Drafts -> States]
    BY <1>4, <1>a DEF Retire, Retirable, Reclaimed, ClickInv, TypeOK, rows, States, Actionable, Sendable
  <2> QED
    BY <1>4, <1>a, <2>1 DEF Retire, TypeOK, rows, calls, clicks, chat, counts
<1>5. ASSUME EndTurn PROVE TypeOK'
  BY <1>5, <1>a DEF EndTurn, TypeOK, Words, States, Actionable, Sendable, rows, calls, clicks, chat, counts
<1>6. ASSUME Crash PROVE TypeOK'
  <2>1. copy' \in [Drafts -> Words]
    BY <1>6, <1>a, Bounds DEF Crash, TypeOK, Words
  <2>2. call' \in [Drafts -> {"none", "tool", "bridge", "delivered", "refused"}]
    BY <1>6, <1>a DEF Crash, TypeOK
  <2>3. /\ was' \in [Clicks -> Sendable] /\ args' \in [Clicks -> Words]
    BY <1>6, <1>a, Bounds DEF Crash, Sendable, Words
  <2>4. crashes' \in 0..MaxCrashes
    BY <1>6, <1>a, Bounds DEF Crash, TypeOK
  <2> QED
    BY <1>6, <1>a, <2>1, <2>2, <2>3, <2>4 DEF Crash, TypeOK, rows, calls, clicks, chat, counts
<1>7. ASSUME NEW d \in Drafts, Discard(d) PROVE TypeOK'
  BY <1>7, <1>a DEF Discard, Settled, TypeOK, Words, States, Actionable, Sendable, rows, calls, clicks, chat, counts
<1>8. ASSUME NEW d \in Drafts, Revise(d) PROVE TypeOK'
  <2>1. words' \in [Drafts -> Words]
    BY <1>8, <1>a, Bounds DEF Revise, TypeOK, Words
  <2> QED
    BY <1>8, <1>a, <2>1 DEF Revise, TypeOK, rows, calls, clicks, chat, counts
<1>9. ASSUME NEW d \in Drafts, Park(d) PROVE TypeOK'
  BY <1>9, <1>a DEF Park, TypeOK, Words, States, Actionable, Sendable, rows, calls, clicks, chat, counts
<1>10. ASSUME NEW d \in Drafts, LookUp(d) PROVE TypeOK'
  BY <1>10, <1>a DEF LookUp, Decision, TypeOK, Words, States, Actionable, Sendable, rows, calls, clicks, chat, counts
<1>11. ASSUME NEW d \in Drafts, Refuse(d) PROVE TypeOK'
  <2>1. call' \in [Drafts -> {"none", "tool", "bridge", "delivered", "refused"}]
    BY <1>11, <1>a DEF Refuse, Becomes, TypeOK
  <2>2. copy' \in [Drafts -> Words]
    BY <1>11, <1>a, Bounds DEF Refuse, Becomes, TypeOK, Words
  <2> QED
    BY <1>11, <1>a, <2>1, <2>2 DEF Refuse, Becomes, TypeOK, rows, calls, clicks, chat, counts
<1>12. ASSUME NEW d \in Drafts, HandOver(d) PROVE TypeOK'
  <2>1. call' \in [Drafts -> {"none", "tool", "bridge", "delivered", "refused"}]
    BY <1>12, <1>a DEF HandOver, Becomes, TypeOK
  <2>2. copy' \in [Drafts -> Words]
    BY <1>12, <1>a, Bounds DEF HandOver, Becomes, TypeOK, Words
  <2> QED
    BY <1>12, <1>a, <2>1, <2>2 DEF HandOver, Becomes, TypeOK, rows, calls, clicks, chat, counts
<1>13. ASSUME NEW d \in Drafts, Deliver(d) PROVE TypeOK'
  <2>1. call' \in [Drafts -> {"none", "tool", "bridge", "delivered", "refused"}]
    BY <1>13, <1>a DEF Deliver, Becomes, TypeOK
  <2>2. copy' \in [Drafts -> Words]
    BY <1>13, <1>a, Bounds DEF Deliver, Becomes, TypeOK, Words
  <2>3. Append(left[d], copy[d]) \in Seq(Words)
    BY <1>a DEF TypeOK
  <2>4. left' \in [Drafts -> Seq(Words)]
    BY <1>13, <1>a, <2>3 DEF Deliver, TypeOK
  <2> QED
    BY <1>13, <1>a, <2>1, <2>2, <2>3, <2>4 DEF Deliver, Becomes, TypeOK, rows, calls, clicks, chat, counts
<1>14. ASSUME NEW c \in Clicks, Claim(c) PROVE TypeOK'
  <2>1. /\ pc' \in [Clicks -> {"idle", "claim", "wait", "settle", "wake"}]
        /\ on' \in [Clicks -> Drafts \cup {NoDraft}]
        /\ was' \in [Clicks -> Sendable] /\ args' \in [Clicks -> Words]
        /\ answer' \in [Clicks -> {"sent", "unconfirmed", "failed"}]
    BY <1>14, <1>a, GotoTypes DEF Claim
  <2>2. state' \in [Drafts -> States]
    BY <1>14, <1>a DEF Claim, ClickInv, TypeOK, rows, States, Actionable, Sendable
  <2>3. call' \in [Drafts -> {"none", "tool", "bridge", "delivered", "refused"}]
    BY <1>14, <1>a DEF Claim, TypeOK
  <2>4. copy' \in [Drafts -> Words]
    BY <1>14, <1>a DEF Claim, TypeOK
  <2> QED
    BY <1>14, <1>a, <2>1, <2>2, <2>3, <2>4 DEF Claim, TypeOK, rows, calls, clicks, chat, counts
<1>15. ASSUME NEW c \in Clicks, GiveUp(c) PROVE TypeOK'
  <2>1. /\ pc' \in [Clicks -> {"idle", "claim", "wait", "settle", "wake"}]
        /\ on' \in [Clicks -> Drafts \cup {NoDraft}]
        /\ was' \in [Clicks -> Sendable] /\ args' \in [Clicks -> Words]
        /\ answer' \in [Clicks -> {"sent", "unconfirmed", "failed"}]
    BY <1>15, <1>a, GotoTypes DEF GiveUp
  <2> QED
    BY <1>15, <1>a, <2>1 DEF GiveUp, TypeOK, rows, calls, clicks, chat, counts
<1>16. ASSUME NEW c \in Clicks, Answer(c) PROVE TypeOK'
  <2>1. /\ pc' \in [Clicks -> {"idle", "claim", "wait", "settle", "wake"}]
        /\ on' \in [Clicks -> Drafts \cup {NoDraft}]
        /\ was' \in [Clicks -> Sendable] /\ args' \in [Clicks -> Words]
        /\ answer' \in [Clicks -> {"sent", "unconfirmed", "failed"}]
    BY <1>16, <1>a, GotoTypes DEF Answer
  <2> QED
    BY <1>16, <1>a, <2>1 DEF Answer, TypeOK, rows, calls, clicks, chat, counts
<1>17. ASSUME NEW c \in Clicks, Settle(c) PROVE TypeOK'
  <2>1. /\ pc' \in [Clicks -> {"idle", "claim", "wait", "settle", "wake"}]
        /\ on' \in [Clicks -> Drafts \cup {NoDraft}]
        /\ was' \in [Clicks -> Sendable] /\ args' \in [Clicks -> Words]
        /\ answer' \in [Clicks -> {"sent", "unconfirmed", "failed"}]
    BY <1>17, <1>a, GotoTypes DEF Settle
  <2>2. Outcome(c) \in States
    BY <1>a DEF Outcome, TypeOK, States, Actionable, Sendable
  <2>3. state' \in [Drafts -> States]
    BY <1>17, <1>a, <2>2 DEF Settle, Settled, TypeOK
  <2> QED
    BY <1>17, <1>a, <2>1, <2>2, <2>3 DEF Settle, TypeOK, rows, calls, clicks, chat, counts
<1>18. ASSUME NEW c \in Clicks, Wake(c) PROVE TypeOK'
  <2>1. /\ pc' \in [Clicks -> {"idle", "claim", "wait", "settle", "wake"}]
        /\ on' \in [Clicks -> Drafts \cup {NoDraft}]
        /\ was' \in [Clicks -> Sendable] /\ args' \in [Clicks -> Words]
        /\ answer' \in [Clicks -> {"sent", "unconfirmed", "failed"}]
    BY <1>18, <1>a, GotoTypes DEF Wake
  <2>2. state' \in [Drafts -> States]
    BY <1>18, <1>a DEF Wake, Reclaimed, ClickInv, TypeOK, rows, States, Actionable, Sendable
  <2>3. on[c] \in Drafts
    BY <1>18, <1>a DEF Wake, ClickInv
  <2>4. wakes' = wakes \/ wakes' = Append(wakes, on[c])
    BY <1>18, <1>a DEF Wake
  <2>5. wakes \in Seq(Drafts)
    BY <1>a DEF TypeOK
  <2>6. Append(wakes, on[c]) \in Seq(Drafts)
    BY <2>3, <2>5, AppendProperties
  <2>7. wakes' \in Seq(Drafts)
    BY <2>4, <2>5, <2>6
  <2> QED
    BY <1>18, <1>a, <2>1, <2>2, <2>3, <2>4, <2>5, <2>6, <2>7 DEF Wake, TypeOK, rows, calls, clicks, chat, counts
<1>19. ASSUME NEW c \in Clicks, NEW d \in Drafts, Press(c, d) PROVE TypeOK'
  <2>1. /\ pc' \in [Clicks -> {"idle", "claim", "wait", "settle", "wake"}]
        /\ on' \in [Clicks -> Drafts \cup {NoDraft}]
    BY <1>19, <1>a DEF Press, TypeOK
  <2>2. was' \in [Clicks -> Sendable] /\ args' \in [Clicks -> Words]
    BY <1>19, <1>a DEF Press, TypeOK
  <2>3. presses' \in 0..MaxPresses
    BY <1>19, <1>a, Bounds DEF Press, TypeOK
  <2> QED
    BY <1>19, <1>a, <2>1, <2>2, <2>3 DEF Press, TypeOK, rows, calls, clicks, chat, counts
<1>20. CASE UNCHANGED vars
  BY <1>20, <1>a DEF vars, TypeOK, Words, States, Actionable, Sendable, rows, calls, clicks, chat, counts
<1> QED
  BY <1>1, <1>2, <1>3, <1>4, <1>5, <1>6, <1>7, <1>8, <1>9, <1>10, <1>11, <1>12, <1>13, <1>14, <1>15, <1>16, <1>17, <1>18, <1>19, <1>20 DEF Next, Send

\* Every step keeps the rows and the copies together.
LEMMA RowStep == IInv /\ [Next]_vars => RowInv'
<1> SUFFICES ASSUME IInv, [Next]_vars PROVE RowInv'
  OBVIOUS
<1>a. TypeOK /\ RowInv /\ ClickInv /\ ToldInv
  BY DEF IInv
<1>1. ASSUME List PROVE RowInv'
  BY <1>1, <1>a DEF List, Stranded, Reclaimed, TypeOK, RowInv, ClickInv, Holds, Words, States, Actionable, Sendable, rows, calls, clicks, chat, counts
<1>2. ASSUME Say PROVE RowInv'
  BY <1>2, <1>a DEF Say, Noted, Decision, TypeOK, RowInv, ClickInv, Holds, Words, States, Actionable, Sendable, rows, calls, clicks, chat, counts
<1>3. ASSUME TakeWake PROVE RowInv'
  BY <1>3, <1>a DEF TakeWake, Noted, Decision, TypeOK, RowInv, ClickInv, Holds, Words, States, Actionable, Sendable, rows, calls, clicks, chat, counts
<1>4. ASSUME Retire PROVE RowInv'
  BY <1>4, <1>a DEF Retire, Stranded, Reclaimed, Retirable, TypeOK, RowInv, ClickInv, Holds, Words, States, Actionable, Sendable, rows, calls, clicks, chat, counts
<1>5. ASSUME EndTurn PROVE RowInv'
  BY <1>5, <1>a DEF EndTurn, TypeOK, RowInv, ClickInv, Holds, Words, States, Actionable, Sendable, rows, calls, clicks, chat, counts
<1>6. ASSUME Crash PROVE RowInv'
  BY <1>6, <1>a DEF Crash, TypeOK, RowInv, ClickInv, Holds, Words, States, Actionable, Sendable, rows, calls, clicks, chat, counts
<1>7. ASSUME NEW d \in Drafts, Discard(d) PROVE RowInv'
  BY <1>7, <1>a DEF Discard, Settled, TypeOK, RowInv, ClickInv, Holds, Words, States, Actionable, Sendable, rows, calls, clicks, chat, counts
<1>8. ASSUME NEW d \in Drafts, Revise(d) PROVE RowInv'
  BY <1>8, <1>a DEF Revise, TypeOK, RowInv, ClickInv, Holds, Words, States, Actionable, Sendable, rows, calls, clicks, chat, counts
<1>9. ASSUME NEW d \in Drafts, Park(d) PROVE RowInv'
  BY <1>9, <1>a DEF Park, TypeOK, RowInv, ClickInv, Holds, Words, States, Actionable, Sendable, rows, calls, clicks, chat, counts
<1>10. ASSUME NEW d \in Drafts, LookUp(d) PROVE RowInv'
  BY <1>10, <1>a DEF LookUp, Decision, TypeOK, RowInv, ClickInv, Holds, Words, States, Actionable, Sendable, rows, calls, clicks, chat, counts
<1>11. ASSUME NEW d \in Drafts, Refuse(d) PROVE RowInv'
  BY <1>11, <1>a DEF Refuse, Becomes, TypeOK, RowInv, ClickInv, Holds, Words, States, Actionable, Sendable, rows, calls, clicks, chat, counts
<1>12. ASSUME NEW d \in Drafts, HandOver(d) PROVE RowInv'
  BY <1>12, <1>a DEF HandOver, Becomes, TypeOK, RowInv, ClickInv, Holds, Words, States, Actionable, Sendable, rows, calls, clicks, chat, counts
<1>13. ASSUME NEW d \in Drafts, Deliver(d) PROVE RowInv'
  BY <1>13, <1>a DEF Deliver, Becomes, TypeOK, RowInv, ClickInv, Holds, Words, States, Actionable, Sendable, rows, calls, clicks, chat, counts
<1>14. ASSUME NEW c \in Clicks, Claim(c) PROVE RowInv'
  BY <1>14, <1>a DEF Claim, Goto, TypeOK, RowInv, ClickInv, Holds, Words, States, Actionable, Sendable, rows, calls, clicks, chat, counts
<1>15. ASSUME NEW c \in Clicks, GiveUp(c) PROVE RowInv'
  BY <1>15, <1>a DEF GiveUp, Goto, TypeOK, RowInv, ClickInv, Holds, Words, States, Actionable, Sendable, rows, calls, clicks, chat, counts
<1>16. ASSUME NEW c \in Clicks, Answer(c) PROVE RowInv'
  BY <1>16, <1>a DEF Answer, Goto, Heard, TypeOK, RowInv, ClickInv, Holds, Words, States, Actionable, Sendable, rows, calls, clicks, chat, counts
<1>17. ASSUME NEW c \in Clicks, Settle(c) PROVE RowInv'
  BY <1>17, <1>a DEF Settle, Goto, Settled, Outcome, TypeOK, RowInv, ClickInv, Holds, Words, States, Actionable, Sendable, rows, calls, clicks, chat, counts
<1>18. ASSUME NEW c \in Clicks, Wake(c) PROVE RowInv'
  BY <1>18, <1>a DEF Wake, Goto, Stranded, Reclaimed, HeldBack, TypeOK, RowInv, ClickInv, Holds, Words, States, Actionable, Sendable, rows, calls, clicks, chat, counts
<1>19. ASSUME NEW c \in Clicks, NEW d \in Drafts, Press(c, d) PROVE RowInv'
  BY <1>19, <1>a DEF Press, TypeOK, RowInv, ClickInv, Holds, Words, States, Actionable, Sendable, rows, calls, clicks, chat, counts
<1>20. CASE UNCHANGED vars
  BY <1>20, <1>a DEF vars, TypeOK, RowInv, ClickInv, Holds, Words, States, Actionable, Sendable, rows, calls, clicks, chat, counts
<1> QED
  BY <1>1, <1>2, <1>3, <1>4, <1>5, <1>6, <1>7, <1>8, <1>9, <1>10, <1>11, <1>12, <1>13, <1>14, <1>15, <1>16, <1>17, <1>18, <1>19, <1>20 DEF Next, Send

\* Every step leaves the Send that claimed a draft alone with it.
LEMMA ClickStep == IInv /\ [Next]_vars => ClickInv'
<1> SUFFICES ASSUME IInv, [Next]_vars PROVE ClickInv'
  OBVIOUS
<1>a. TypeOK /\ RowInv /\ ClickInv /\ ToldInv
  BY DEF IInv
<1>1. ASSUME List PROVE ClickInv'
  BY <1>1, <1>a DEF List, Stranded, Reclaimed, TypeOK, RowInv, ClickInv, Holds, Words, States, Actionable, Sendable, rows, calls, clicks, chat, counts
<1>2. ASSUME Say PROVE ClickInv'
  BY <1>2, <1>a DEF Say, Noted, Decision, TypeOK, RowInv, ClickInv, Holds, Words, States, Actionable, Sendable, rows, calls, clicks, chat, counts
<1>3. ASSUME TakeWake PROVE ClickInv'
  BY <1>3, <1>a DEF TakeWake, Noted, Decision, TypeOK, RowInv, ClickInv, Holds, Words, States, Actionable, Sendable, rows, calls, clicks, chat, counts
<1>4. ASSUME Retire PROVE ClickInv'
  BY <1>4, <1>a DEF Retire, Stranded, Reclaimed, Retirable, TypeOK, RowInv, ClickInv, Holds, Words, States, Actionable, Sendable, rows, calls, clicks, chat, counts
<1>5. ASSUME EndTurn PROVE ClickInv'
  BY <1>5, <1>a DEF EndTurn, TypeOK, RowInv, ClickInv, Holds, Words, States, Actionable, Sendable, rows, calls, clicks, chat, counts
<1>6. ASSUME Crash PROVE ClickInv'
  BY <1>6, <1>a DEF Crash, TypeOK, RowInv, ClickInv, Holds, Words, States, Actionable, Sendable, rows, calls, clicks, chat, counts
<1>7. ASSUME NEW d \in Drafts, Discard(d) PROVE ClickInv'
  BY <1>7, <1>a DEF Discard, Settled, TypeOK, RowInv, ClickInv, Holds, Words, States, Actionable, Sendable, rows, calls, clicks, chat, counts
<1>8. ASSUME NEW d \in Drafts, Revise(d) PROVE ClickInv'
  BY <1>8, <1>a DEF Revise, TypeOK, RowInv, ClickInv, Holds, Words, States, Actionable, Sendable, rows, calls, clicks, chat, counts
<1>9. ASSUME NEW d \in Drafts, Park(d) PROVE ClickInv'
  BY <1>9, <1>a DEF Park, TypeOK, RowInv, ClickInv, Holds, Words, States, Actionable, Sendable, rows, calls, clicks, chat, counts
<1>10. ASSUME NEW d \in Drafts, LookUp(d) PROVE ClickInv'
  BY <1>10, <1>a DEF LookUp, Decision, TypeOK, RowInv, ClickInv, Holds, Words, States, Actionable, Sendable, rows, calls, clicks, chat, counts
<1>11. ASSUME NEW d \in Drafts, Refuse(d) PROVE ClickInv'
  BY <1>11, <1>a DEF Refuse, Becomes, TypeOK, RowInv, ClickInv, Holds, Words, States, Actionable, Sendable, rows, calls, clicks, chat, counts
<1>12. ASSUME NEW d \in Drafts, HandOver(d) PROVE ClickInv'
  BY <1>12, <1>a DEF HandOver, Becomes, TypeOK, RowInv, ClickInv, Holds, Words, States, Actionable, Sendable, rows, calls, clicks, chat, counts
<1>13. ASSUME NEW d \in Drafts, Deliver(d) PROVE ClickInv'
  BY <1>13, <1>a DEF Deliver, Becomes, TypeOK, RowInv, ClickInv, Holds, Words, States, Actionable, Sendable, rows, calls, clicks, chat, counts
<1>14. ASSUME NEW c \in Clicks, Claim(c) PROVE ClickInv'
  <2>1. on[c] \in Drafts /\ state[on[c]] \in Sendable
    BY <1>14, <1>a DEF Claim, ClickInv, TypeOK
  <2>2. \A e \in Clicks : Holds(e) \/ pc[e] = "wake" => on[e] # on[c]
    BY <2>1, <1>a DEF ClickInv, RowInv, Holds, Sendable
  <2>3. /\ pc'[c] = "wait" /\ on' = on
        /\ \A e \in Clicks : e # c => pc'[e] = pc[e] /\ answer'[e] = answer[e]
    BY <1>14, <1>a DEF Claim, Goto, TypeOK
  <2>4. /\ state'[on[c]] = "sending"
        /\ \A d \in Drafts : d # on[c] => state'[d] = state[d] /\ call'[d] = call[d]
    BY <1>14, <2>1, <1>a DEF Claim, rows, calls, clicks, chat, counts, TypeOK
  <2>5. \A e \in Clicks : pc'[e] # "idle" => on'[e] \in Drafts
    BY <2>1, <2>2, <2>3, <2>4, <1>a DEF ClickInv, Holds
  <2>6. \A e \in Clicks : pc'[e] \in {"wait", "settle"} => state'[on'[e]] \in {"sending", "ambiguous", "discarded"}
    BY <2>1, <2>2, <2>3, <2>4, <1>a DEF ClickInv, Holds
  <2>7. \A e, f \in Clicks : pc'[e] \in {"wait", "settle"} /\ pc'[f] \in {"wait", "settle"} /\ on'[e] = on'[f] => e = f
    BY <2>1, <2>2, <2>3, <2>4, <1>a DEF ClickInv, Holds
  <2>8. \A e \in Clicks : pc'[e] = "settle" /\ answer'[e] = "sent" => call'[on'[e]] = "delivered"
    BY <2>1, <2>2, <2>3, <2>4, <1>a DEF ClickInv, Holds
  <2>9. \A e \in Clicks : pc'[e] = "settle" /\ answer'[e] = "failed" => call'[on'[e]] = "refused"
    BY <2>1, <2>2, <2>3, <2>4, <1>a DEF ClickInv, Holds
  <2>10. \A e \in Clicks : pc'[e] = "wake" => call'[on'[e]] = "delivered"
    BY <2>1, <2>2, <2>3, <2>4, <1>a DEF ClickInv, Holds
  <2> QED
    BY <2>5, <2>6, <2>7, <2>8, <2>9, <2>10 DEF ClickInv, Holds
<1>15. ASSUME NEW c \in Clicks, GiveUp(c) PROVE ClickInv'
  BY <1>15, <1>a DEF GiveUp, Goto, TypeOK, RowInv, ClickInv, Holds, Words, States, Actionable, Sendable, rows, calls, clicks, chat, counts
<1>16. ASSUME NEW c \in Clicks, Answer(c) PROVE ClickInv'
  <2>1. /\ pc'[c] = "settle" /\ on' = on /\ answer'[c] = Heard(c)
        /\ \A e \in Clicks : e # c => pc'[e] = pc[e] /\ answer'[e] = answer[e]
    BY <1>16, <1>a DEF Answer, Goto, TypeOK
  <2>2. state' = state /\ call' = call /\ pc[c] = "wait"
    BY <1>16, <1>a DEF Answer, rows, calls, clicks, chat, counts, TypeOK
  <2>3. /\ Heard(c) = "sent" => call[on[c]] = "delivered"
        /\ Heard(c) = "failed" => call[on[c]] = "refused"
    BY DEF Heard
  <2>4. \A e \in Clicks : pc'[e] # "idle" => on'[e] \in Drafts
    BY <2>1, <2>2, <2>3, <1>a DEF ClickInv, Holds
  <2>5. \A e \in Clicks : pc'[e] \in {"wait", "settle"} => state'[on'[e]] \in {"sending", "ambiguous", "discarded"}
    BY <2>1, <2>2, <2>3, <1>a DEF ClickInv, Holds
  <2>6. \A e, f \in Clicks : pc'[e] \in {"wait", "settle"} /\ pc'[f] \in {"wait", "settle"} /\ on'[e] = on'[f] => e = f
    BY <2>1, <2>2, <2>3, <1>a DEF ClickInv, Holds
  <2>7. \A e \in Clicks : pc'[e] = "settle" /\ answer'[e] = "sent" => call'[on'[e]] = "delivered"
    BY <2>1, <2>2, <2>3, <1>a DEF ClickInv, Holds
  <2>8. \A e \in Clicks : pc'[e] = "settle" /\ answer'[e] = "failed" => call'[on'[e]] = "refused"
    BY <2>1, <2>2, <2>3, <1>a DEF ClickInv, Holds
  <2>9. \A e \in Clicks : pc'[e] = "wake" => call'[on'[e]] = "delivered"
    BY <2>1, <2>2, <2>3, <1>a DEF ClickInv, Holds
  <2> QED
    BY <2>4, <2>5, <2>6, <2>7, <2>8, <2>9 DEF ClickInv, Holds
<1>17. ASSUME NEW c \in Clicks, Settle(c) PROVE ClickInv'
  BY <1>17, <1>a DEF Settle, Goto, Settled, Outcome, TypeOK, RowInv, ClickInv, Holds, Words, States, Actionable, Sendable, rows, calls, clicks, chat, counts
<1>18. ASSUME NEW c \in Clicks, Wake(c) PROVE ClickInv'
  <2>1. /\ pc'[c] = "idle"
        /\ \A e \in Clicks : e # c => pc'[e] = pc[e] /\ on'[e] = on[e] /\ answer'[e] = answer[e]
    BY <1>18, <1>a DEF Wake, Goto, TypeOK
  <2>2. /\ call' = call
        /\ \A d \in Drafts : (state[d] = "sending" /\ state'[d] = "ambiguous") \/ state'[d] = state[d]
    BY <1>18, <1>a DEF Wake, Reclaimed, Stranded, rows, calls, clicks, chat, counts, TypeOK
  <2>3. \A e \in Clicks : pc'[e] # "idle" => on'[e] \in Drafts
    BY <2>1, <2>2, <1>a DEF ClickInv, Holds
  <2>4. \A e \in Clicks : pc'[e] \in {"wait", "settle"} => state'[on'[e]] \in {"sending", "ambiguous", "discarded"}
    BY <2>1, <2>2, <1>a DEF ClickInv, Holds
  <2>5. \A e, f \in Clicks : pc'[e] \in {"wait", "settle"} /\ pc'[f] \in {"wait", "settle"} /\ on'[e] = on'[f] => e = f
    BY <2>1, <2>2, <1>a DEF ClickInv, Holds
  <2>6. \A e \in Clicks : pc'[e] = "settle" /\ answer'[e] = "sent" => call'[on'[e]] = "delivered"
    BY <2>1, <2>2, <1>a DEF ClickInv, Holds
  <2>7. \A e \in Clicks : pc'[e] = "settle" /\ answer'[e] = "failed" => call'[on'[e]] = "refused"
    BY <2>1, <2>2, <1>a DEF ClickInv, Holds
  <2>8. \A e \in Clicks : pc'[e] = "wake" => call'[on'[e]] = "delivered"
    BY <2>1, <2>2, <1>a DEF ClickInv, Holds
  <2> QED
    BY <2>3, <2>4, <2>5, <2>6, <2>7, <2>8 DEF ClickInv, Holds
<1>19. ASSUME NEW c \in Clicks, NEW d \in Drafts, Press(c, d) PROVE ClickInv'
  BY <1>19, <1>a DEF Press, TypeOK, RowInv, ClickInv, Holds, Words, States, Actionable, Sendable, rows, calls, clicks, chat, counts
<1>20. CASE UNCHANGED vars
  BY <1>20, <1>a DEF vars, TypeOK, RowInv, ClickInv, Holds, Words, States, Actionable, Sendable, rows, calls, clicks, chat, counts
<1> QED
  BY <1>1, <1>2, <1>3, <1>4, <1>5, <1>6, <1>7, <1>8, <1>9, <1>10, <1>11, <1>12, <1>13, <1>14, <1>15, <1>16, <1>17, <1>18, <1>19, <1>20 DEF Next, Send

\* Every step keeps what was told true.
LEMMA ToldStep == IInv /\ [Next]_vars => ToldInv'
<1> SUFFICES ASSUME IInv, [Next]_vars PROVE ToldInv'
  OBVIOUS
<1>a. TypeOK /\ RowInv /\ ClickInv /\ ToldInv
  BY DEF IInv
<1>1. ASSUME List PROVE ToldInv'
  <2>1. \A d \in Drafts : state[d] = "replaced" => state'[d] = "replaced"
    BY <1>1, <1>a DEF List, Reclaimed, Stranded
  <2>2. call' = call /\ wakes' = wakes /\ told' = told
    BY <1>1, <1>a DEF List, rows, calls, clicks, chat, counts, TypeOK
  <2> QED
    BY <2>1, <2>2, <1>a DEF ToldInv
<1>2. ASSUME Say PROVE ToldInv'
  BY <1>2, <1>a DEF Say, Noted, Decision, TypeOK, RowInv, ClickInv, ToldInv, Words, States, Actionable, Sendable, rows, calls, clicks, chat, counts
<1>3. ASSUME TakeWake PROVE ToldInv'
  <2>1. /\ wakes # <<>> /\ wakes' = Tail(wakes)
        /\ told' = Noted([told EXCEPT ![Head(wakes)] = @ \cup {"WOKEN"}])
        /\ state' = state /\ call' = call
    BY <1>3, <1>a DEF TakeWake, rows, calls, clicks, chat, counts, TypeOK
  <2>2. Head(wakes) \in Drafts /\ call[Head(wakes)] = "delivered"
    BY <2>1, <1>a DEF ToldInv, TypeOK
  <2>3. \A i \in 1..Len(wakes') : i + 1 \in 1..Len(wakes) /\ wakes'[i] = wakes[i + 1]
    BY <2>1, <1>a DEF TypeOK
  <2>4. \A i \in 1..Len(wakes') : call'[wakes'[i]] = "delivered"
    BY <2>1, <2>3, <1>a DEF ToldInv
  <2>5. \A d \in Drafts : "WOKEN" \in told'[d] => "WOKEN" \in told[d] \/ d = Head(wakes)
    BY <2>1, <2>2, <1>a DEF Noted, Decision, TypeOK
  <2>6. \A d \in Drafts : "REPLACED" \in told'[d] => "REPLACED" \in told[d] \/ "REPLACED" \in Decision(d)
    BY <2>1, <2>2, <1>a DEF Noted, TypeOK
  <2>7. \A d \in Drafts : "REPLACED" \in Decision(d) => state[d] = "replaced"
    BY DEF Decision
  <2> QED
    BY <2>1, <2>2, <2>4, <2>5, <2>6, <2>7, <1>a DEF ToldInv, Noted
<1>4. ASSUME Retire PROVE ToldInv'
  BY <1>4, <1>a DEF Retire, Stranded, Reclaimed, Retirable, TypeOK, RowInv, ClickInv, ToldInv, Words, States, Actionable, Sendable, rows, calls, clicks, chat, counts
<1>5. ASSUME EndTurn PROVE ToldInv'
  BY <1>5, <1>a DEF EndTurn, TypeOK, RowInv, ClickInv, ToldInv, Words, States, Actionable, Sendable, rows, calls, clicks, chat, counts
<1>6. ASSUME Crash PROVE ToldInv'
  BY <1>6, <1>a DEF Crash, TypeOK, RowInv, ClickInv, ToldInv, Words, States, Actionable, Sendable, rows, calls, clicks, chat, counts
<1>7. ASSUME NEW d \in Drafts, Discard(d) PROVE ToldInv'
  BY <1>7, <1>a DEF Discard, Settled, TypeOK, RowInv, ClickInv, ToldInv, Words, States, Actionable, Sendable, rows, calls, clicks, chat, counts
<1>8. ASSUME NEW d \in Drafts, Revise(d) PROVE ToldInv'
  BY <1>8, <1>a DEF Revise, TypeOK, RowInv, ClickInv, ToldInv, Words, States, Actionable, Sendable, rows, calls, clicks, chat, counts
<1>9. ASSUME NEW d \in Drafts, Park(d) PROVE ToldInv'
  BY <1>9, <1>a DEF Park, TypeOK, RowInv, ClickInv, ToldInv, Words, States, Actionable, Sendable, rows, calls, clicks, chat, counts
<1>10. ASSUME NEW d \in Drafts, LookUp(d) PROVE ToldInv'
  BY <1>10, <1>a DEF LookUp, Decision, TypeOK, RowInv, ClickInv, ToldInv, Words, States, Actionable, Sendable, rows, calls, clicks, chat, counts
<1>11. ASSUME NEW d \in Drafts, Refuse(d) PROVE ToldInv'
  <2>1. call[d] # "delivered" /\ wakes' = wakes /\ told' = told /\ state' = state
    BY <1>11 DEF Refuse, Becomes, rows, chat
  <2>2. \A e \in Drafts : e # d => call'[e] = call[e]
    BY <1>11, <1>a DEF Refuse, Becomes, TypeOK
  <2>3. \A i \in 1..Len(wakes) : wakes[i] \in Drafts
    BY <1>a DEF TypeOK
  <2> QED
    BY <2>1, <2>2, <2>3, <1>a DEF ToldInv
<1>12. ASSUME NEW d \in Drafts, HandOver(d) PROVE ToldInv'
  BY <1>12, <1>a DEF HandOver, Becomes, TypeOK, RowInv, ClickInv, ToldInv, Words, States, Actionable, Sendable, rows, calls, clicks, chat, counts
<1>13. ASSUME NEW d \in Drafts, Deliver(d) PROVE ToldInv'
  <2>1. call[d] # "delivered" /\ wakes' = wakes /\ told' = told /\ state' = state
    BY <1>13 DEF Deliver, Becomes, rows, chat
  <2>2. \A e \in Drafts : e # d => call'[e] = call[e]
    BY <1>13, <1>a DEF Deliver, Becomes, TypeOK
  <2>3. \A i \in 1..Len(wakes) : wakes[i] \in Drafts
    BY <1>a DEF TypeOK
  <2> QED
    BY <2>1, <2>2, <2>3, <1>a DEF ToldInv
<1>14. ASSUME NEW c \in Clicks, Claim(c) PROVE ToldInv'
  <2>1. on[c] \in Drafts /\ state[on[c]] \in Sendable
    BY <1>14, <1>a DEF Claim, ClickInv, TypeOK
  <2>2. call[on[c]] # "delivered"
    BY <2>1, <1>a DEF RowInv, Sendable
  <2>3. wakes' = wakes /\ told' = told /\ (\A d \in Drafts : d # on[c] => state'[d] = state[d] /\ call'[d] = call[d])
    BY <1>14, <2>1, <1>a DEF Claim, TypeOK, rows, calls, clicks, chat, counts
  <2>4. \A i \in 1..Len(wakes) : wakes[i] \in Drafts
    BY <1>a DEF TypeOK
  <2> QED
    BY <2>1, <2>2, <2>3, <2>4, <1>a DEF ToldInv, TypeOK, Sendable
<1>15. ASSUME NEW c \in Clicks, GiveUp(c) PROVE ToldInv'
  BY <1>15, <1>a DEF GiveUp, Goto, TypeOK, RowInv, ClickInv, ToldInv, Words, States, Actionable, Sendable, rows, calls, clicks, chat, counts
<1>16. ASSUME NEW c \in Clicks, Answer(c) PROVE ToldInv'
  BY <1>16, <1>a DEF Answer, Goto, Heard, TypeOK, RowInv, ClickInv, ToldInv, Words, States, Actionable, Sendable, rows, calls, clicks, chat, counts
<1>17. ASSUME NEW c \in Clicks, Settle(c) PROVE ToldInv'
  BY <1>17, <1>a DEF Settle, Goto, Settled, Outcome, TypeOK, RowInv, ClickInv, ToldInv, Words, States, Actionable, Sendable, rows, calls, clicks, chat, counts
<1>18. ASSUME NEW c \in Clicks, Wake(c) PROVE ToldInv'
  <2>1. /\ call' = call /\ told' = told
        /\ \A d \in Drafts : state[d] = "replaced" => state'[d] = "replaced"
    BY <1>18, <1>a DEF Wake, Reclaimed, Stranded, rows, calls, clicks, chat, counts, TypeOK
  <2>2. call[on[c]] = "delivered"
    BY <1>18, <1>a DEF Wake, ClickInv
  <2>3. wakes' = wakes \/ wakes' = Append(wakes, on[c])
    BY <1>18, <1>a DEF Wake
  <2>4. wakes \in Seq(Drafts) /\ on[c] \in Drafts
    BY <1>18, <1>a DEF Wake, ClickInv, TypeOK
  <2>5. Append(wakes, on[c]) \in Seq(Drafts) /\ Len(Append(wakes, on[c])) = Len(wakes) + 1
        /\ \A i \in 1..Len(wakes) + 1 : Append(wakes, on[c])[i] = IF i = Len(wakes) + 1 THEN on[c] ELSE wakes[i]
    BY <2>4, AppendProperties
  <2>6. \A i \in 1..Len(wakes') : call[wakes'[i]] = "delivered"
    BY <2>2, <2>3, <2>4, <2>5, <1>a DEF ToldInv
  <2> QED
    BY <2>1, <2>6, <1>a DEF ToldInv
<1>19. ASSUME NEW c \in Clicks, NEW d \in Drafts, Press(c, d) PROVE ToldInv'
  BY <1>19, <1>a DEF Press, TypeOK, RowInv, ClickInv, ToldInv, Words, States, Actionable, Sendable, rows, calls, clicks, chat, counts
<1>20. CASE UNCHANGED vars
  BY <1>20, <1>a DEF vars, TypeOK, RowInv, ClickInv, ToldInv, Words, States, Actionable, Sendable, rows, calls, clicks, chat, counts
<1> QED
  BY <1>1, <1>2, <1>3, <1>4, <1>5, <1>6, <1>7, <1>8, <1>9, <1>10, <1>11, <1>12, <1>13, <1>14, <1>15, <1>16, <1>17, <1>18, <1>19, <1>20 DEF Next, Send

\* Every step keeps the words of a copy those of its row.
LEMMA WordsStep == IInv /\ WordsInv /\ [Next]_vars => WordsInv'
<1> SUFFICES ASSUME IInv /\ WordsInv, [Next]_vars PROVE WordsInv'
  OBVIOUS
<1>a. TypeOK /\ RowInv /\ ClickInv /\ WordsInv
  BY DEF IInv
<1>1. ASSUME List PROVE WordsInv'
  BY <1>1, <1>a DEF List, Stranded, Reclaimed, TypeOK, RowInv, ClickInv, WordsInv, Sendable, rows, calls, clicks, chat, counts
<1>2. ASSUME Say PROVE WordsInv'
  BY <1>2, <1>a DEF Say, Noted, Decision, TypeOK, RowInv, ClickInv, WordsInv, Sendable, rows, calls, clicks, chat, counts
<1>3. ASSUME TakeWake PROVE WordsInv'
  BY <1>3, <1>a DEF TakeWake, Noted, Decision, TypeOK, RowInv, ClickInv, WordsInv, Sendable, rows, calls, clicks, chat, counts
<1>4. ASSUME Retire PROVE WordsInv'
  BY <1>4, <1>a DEF Retire, Stranded, Reclaimed, Retirable, TypeOK, RowInv, ClickInv, WordsInv, Sendable, rows, calls, clicks, chat, counts
<1>5. ASSUME EndTurn PROVE WordsInv'
  BY <1>5, <1>a DEF EndTurn, TypeOK, RowInv, ClickInv, WordsInv, Sendable, rows, calls, clicks, chat, counts
<1>6. ASSUME Crash PROVE WordsInv'
  BY <1>6, <1>a DEF Crash, TypeOK, RowInv, ClickInv, WordsInv, Sendable, rows, calls, clicks, chat, counts
<1>7. ASSUME NEW d \in Drafts, Discard(d) PROVE WordsInv'
  BY <1>7, <1>a DEF Discard, Settled, TypeOK, RowInv, ClickInv, WordsInv, Sendable, rows, calls, clicks, chat, counts
<1>8. ASSUME NEW d \in Drafts, Revise(d) PROVE WordsInv'
  <2>1. call[d] \notin {"tool", "bridge"}
    BY <1>8, <1>a DEF Revise, RowInv, Sendable
  <2>2. /\ call' = call /\ copy' = copy /\ stale' = stale
        /\ \A e \in Drafts : e # d => words'[e] = words[e]
    BY <1>8, <1>a DEF Revise, TypeOK, calls
  <2> QED
    BY <2>1, <2>2, <1>a DEF WordsInv
<1>9. ASSUME NEW d \in Drafts, Park(d) PROVE WordsInv'
  BY <1>9, <1>a DEF Park, TypeOK, RowInv, ClickInv, WordsInv, Sendable, rows, calls, clicks, chat, counts
<1>10. ASSUME NEW d \in Drafts, LookUp(d) PROVE WordsInv'
  BY <1>10, <1>a DEF LookUp, Decision, TypeOK, RowInv, ClickInv, WordsInv, Sendable, rows, calls, clicks, chat, counts
<1>11. ASSUME NEW d \in Drafts, Refuse(d) PROVE WordsInv'
  BY <1>11, <1>a DEF Refuse, Becomes, TypeOK, RowInv, ClickInv, WordsInv, Sendable, rows, calls, clicks, chat, counts
<1>12. ASSUME NEW d \in Drafts, HandOver(d) PROVE WordsInv'
  BY <1>12, <1>a DEF HandOver, Becomes, TypeOK, RowInv, ClickInv, WordsInv, Sendable, rows, calls, clicks, chat, counts
<1>13. ASSUME NEW d \in Drafts, Deliver(d) PROVE WordsInv'
  BY <1>13, <1>a DEF Deliver, Becomes, TypeOK, RowInv, ClickInv, WordsInv, Sendable, rows, calls, clicks, chat, counts
<1>14. ASSUME NEW c \in Clicks, Claim(c) PROVE WordsInv'
  <2>1. on[c] \in Drafts
    BY <1>14, <1>a DEF Claim, ClickInv
  <2>2. /\ words' = words /\ copy'[on[c]] = args[c]
        /\ stale \subseteq stale' /\ (on[c] \notin stale' => args[c] = words[on[c]])
        /\ \A d \in Drafts : d # on[c] => call'[d] = call[d] /\ copy'[d] = copy[d]
    BY <1>14, <2>1, <1>a DEF Claim, TypeOK
  <2> QED
    BY <2>1, <2>2, <1>a DEF WordsInv
<1>15. ASSUME NEW c \in Clicks, GiveUp(c) PROVE WordsInv'
  BY <1>15, <1>a DEF GiveUp, Goto, TypeOK, RowInv, ClickInv, WordsInv, Sendable, rows, calls, clicks, chat, counts
<1>16. ASSUME NEW c \in Clicks, Answer(c) PROVE WordsInv'
  BY <1>16, <1>a DEF Answer, Goto, Heard, TypeOK, RowInv, ClickInv, WordsInv, Sendable, rows, calls, clicks, chat, counts
<1>17. ASSUME NEW c \in Clicks, Settle(c) PROVE WordsInv'
  BY <1>17, <1>a DEF Settle, Goto, Settled, Outcome, TypeOK, RowInv, ClickInv, WordsInv, Sendable, rows, calls, clicks, chat, counts
<1>18. ASSUME NEW c \in Clicks, Wake(c) PROVE WordsInv'
  BY <1>18, <1>a DEF Wake, Goto, Stranded, Reclaimed, HeldBack, TypeOK, RowInv, ClickInv, WordsInv, Sendable, rows, calls, clicks, chat, counts
<1>19. ASSUME NEW c \in Clicks, NEW d \in Drafts, Press(c, d) PROVE WordsInv'
  BY <1>19, <1>a DEF Press, TypeOK, RowInv, ClickInv, WordsInv, Sendable, rows, calls, clicks, chat, counts
<1>20. CASE UNCHANGED vars
  BY <1>20, <1>a DEF vars, TypeOK, RowInv, ClickInv, WordsInv, Sendable, rows, calls, clicks, chat, counts
<1> QED
  BY <1>1, <1>2, <1>3, <1>4, <1>5, <1>6, <1>7, <1>8, <1>9, <1>10, <1>11, <1>12, <1>13, <1>14, <1>15, <1>16, <1>17, <1>18, <1>19, <1>20 DEF Next, Send

-----------------------------------------------------------------------------
(* The theorems *)

LEMMA InvStep == IInv /\ [Next]_vars => IInv'
  BY TypeStep, RowStep, ClickStep, ToldStep DEF IInv

\* The invariant holds throughout, and with it the types.
LEMMA AlwaysInv == Spec => []IInv
<1>1. Init => IInv
  BY InvInit
<1>2. IInv /\ [Next]_vars => IInv'
  BY InvStep
<1> QED
  BY <1>1, <1>2, PTL DEF Spec

\* The drafts, clicks and wakes keep to their types, whatever races with what.
THEOREM TypeCorrect == Spec => []TypeOK
<1>1. IInv => TypeOK
  BY DEF IInv
<1> QED
  BY <1>1, AlwaysInv, PTL

\* No draft is delivered twice, however surfaces race, servers die and the
\* bridge is late, and also when an edit slips in.
THEOREM NeverTwice == Spec => [](\A d \in Drafts : Len(left[d]) <= 1)
<1>1. IInv => \A d \in Drafts : Len(left[d]) <= 1
  <2> SUFFICES ASSUME IInv, NEW d \in Drafts PROVE Len(left[d]) <= 1
    OBVIOUS
  <2>1. CASE call[d] = "delivered"
    <3>1. Len(left[d]) = 1
      BY <2>1 DEF IInv, RowInv
    <3> QED
      BY <3>1
  <2>2. CASE call[d] # "delivered"
    BY <2>2 DEF IInv, RowInv
  <2> QED
    BY <2>1, <2>2
<1> QED
  BY <1>1, AlwaysInv, PTL

\* A wake turn and a note of a replacement are true for good.
THEOREM WhatIsToldStaysTrue == Spec => []ToldStaysTrue
<1>1. IInv => ToldStaysTrue
  <2> SUFFICES ASSUME IInv, NEW d \in Drafts
               PROVE  /\ "WOKEN" \in told[d] => Len(left[d]) = 1
                      /\ "REPLACED" \in told[d] => left[d] = <<>> /\ Phase(d) = "over"
    BY DEF ToldStaysTrue
  <2>1. "WOKEN" \in told[d] => Len(left[d]) = 1
    BY DEF IInv, ToldInv, RowInv
  <2>2. "REPLACED" \in told[d] => state[d] = "replaced" /\ call[d] \in {"none", "refused"} /\ left[d] = <<>>
    BY DEF IInv, ToldInv, RowInv
  <2>3. state[d] = "replaced" /\ call[d] \in {"none", "refused"} => Phase(d) = "over"
    BY DEF Phase, Sendable
  <2> QED
    BY <2>1, <2>2, <2>3
<1> QED
  BY <1>1, AlwaysInv, PTL

-----------------------------------------------------------------------------
(* The parked calls implement Delivery *)

\* What is the same of a draft is the same of its message.
Same(m) == state'[m] = state[m] /\ call'[m] = call[m] /\ words'[m] = words[m] /\ left'[m] = left[m]

LEMMA SameStutters == \A m \in Drafts : Same(m) => Promise!Step(m)
<1> SUFFICES ASSUME NEW m \in Drafts, Same(m) PROVE Promise!Step(m)
  OBVIOUS
<1>1. Phase(m)' = Phase(m)
  BY DEF Same, Phase
<1> QED
  BY <1>1 DEF Same, Promise!Step, Promise!Kept

\* A Send's draft that stays unconfirmed is lost from sight.
LEMMA LostSteps ==
    ASSUME NEW m \in Drafts, Phase(m) = "released", Phase(m)' = "unknown", words' = words, left' = left
    PROVE  Promise!Step(m)
  BY DEF Promise!Lose, Promise!Step, Promise!Kept, Promise!Goes, Promise!NotLeft

\* A call that ends without a delivery leaves its draft's phase, or ends it.
LEMMA Ended ==
    ASSUME RowInv, NEW m \in Drafts, call[m] \in {"tool", "bridge"}, call'[m] = "refused",
           state' = state, words' = words, left' = left, state \in [Drafts -> States]
    PROVE  Promise!Step(m)
<1>1. state[m] \in {"sending", "ambiguous", "discarded"}
  BY DEF RowInv, States, Actionable, Sendable
<1>2. state'[m] = state[m] /\ call'[m] # "tool" /\ call'[m] # "bridge"
  OBVIOUS
<1>3. CASE state[m] = "discarded"
  <2>1. Phase(m) = "unknown" /\ Phase(m)' = "over"
    BY <1>2, <1>3 DEF Phase, Sendable
  <2> QED
    BY <2>1 DEF Promise!Drop, Promise!Step, Promise!Kept, Promise!Goes, Promise!NotLeft
<1>4. CASE state[m] # "discarded"
  <2>1. Phase(m)' = Phase(m)
    BY <1>1, <1>2, <1>4 DEF Phase, Sendable
  <2> QED
    BY <2>1 DEF Promise!Step, Promise!Kept, Promise!Goes, Promise!NotLeft
<1> QED
  BY <1>3, <1>4

\* Every step is one of Delivery for each draft; what is delivered has to be in
\* the draft's own words.
LEMMA StepImplements == IInv /\ WordsInv /\ [Next]_vars => StepsUnlessStale
<1> SUFFICES ASSUME IInv /\ WordsInv, [Next]_vars PROVE \A m \in Drafts \ stale' : Promise!Step(m)
  BY DEF StepsUnlessStale
<1>a. TypeOK /\ RowInv /\ ClickInv /\ WordsInv
  BY DEF IInv
<1>1. ASSUME List PROVE \A m \in Drafts : Promise!Step(m)
  <2>1. ASSUME NEW m \in Drafts PROVE Promise!Step(m)
    <3>1. Same(m) \/ (state[m] = "sending" /\ state'[m] = "ambiguous" /\ words' = words /\ left' = left)
      BY <1>1, <1>a DEF List, Reclaimed, Stranded, Same, TypeOK, rows, calls, clicks, chat, counts
    <3>2. CASE state[m] = "sending" /\ state'[m] = "ambiguous" /\ words' = words /\ left' = left
      <4>1. Phase(m) = "released" /\ Phase(m)' = "unknown"
        BY <3>2 DEF Phase
      <4> QED
        BY <3>2, <4>1, LostSteps
    <3> QED
      BY <3>1, <3>2, SameStutters
  <2> QED
    BY <2>1
<1>2. ASSUME Say PROVE \A m \in Drafts : Promise!Step(m)
  BY <1>2, <1>a, SameStutters DEF Say, Noted, Decision, TypeOK, Same, rows, calls, clicks, chat, counts
<1>3. ASSUME TakeWake PROVE \A m \in Drafts : Promise!Step(m)
  BY <1>3, <1>a, SameStutters DEF TakeWake, Noted, Decision, TypeOK, Same, rows, calls, clicks, chat, counts
<1>4. ASSUME Retire PROVE \A m \in Drafts : Promise!Step(m)
  <2>1. ASSUME NEW m \in Drafts PROVE Promise!Step(m)
    <3>1. words' = words /\ left' = left /\ call' = call
      BY <1>4 DEF Retire, rows, calls, clicks, chat, counts
    <3>2. \/ state'[m] = state[m]
          \/ state[m] = "sending" /\ state'[m] = "ambiguous"
          \/ state[m] \in Sendable /\ state'[m] = "replaced"
      BY <1>4, <1>a DEF Retire, Retirable, Reclaimed, Stranded, TypeOK
    <3>3. CASE state'[m] = state[m]
      BY <3>1, <3>3, SameStutters DEF Same
    <3>4. CASE state[m] = "sending" /\ state'[m] = "ambiguous"
      <4>1. Phase(m) = "released" /\ Phase(m)' = "unknown"
        BY <3>4 DEF Phase
      <4> QED
        BY <3>1, <4>1, LostSteps
    <3>5. CASE state[m] \in Sendable /\ state'[m] = "replaced"
      <4>1. call[m] \in {"none", "refused"} /\ left[m] = <<>>
        BY <3>5, <1>a DEF RowInv, Sendable
      <4>2. Phase(m) = "waiting" /\ Phase(m)' = "over"
        BY <3>1, <3>5, <4>1 DEF Phase, Sendable
      <4> QED
        BY <3>1, <4>2 DEF Promise!Drop, Promise!Step, Promise!Kept, Promise!Goes, Promise!NotLeft
    <3> QED
      BY <3>2, <3>3, <3>4, <3>5
  <2> QED
    BY <2>1
<1>5. ASSUME EndTurn PROVE \A m \in Drafts : Promise!Step(m)
  BY <1>5, <1>a, SameStutters DEF EndTurn, TypeOK, Same, rows, calls, clicks, chat, counts
<1>6. ASSUME Crash PROVE \A m \in Drafts : Promise!Step(m)
  <2>1. ASSUME NEW m \in Drafts PROVE Promise!Step(m)
    <3>1. words' = words /\ left' = left /\ state' = state
      BY <1>6 DEF Crash, rows, calls, clicks, chat, counts
    <3>2. \/ call'[m] = call[m]
          \/ call[m] = "tool" /\ call'[m] = "refused"
      BY <1>6 DEF Crash
    <3>3. CASE call'[m] = call[m]
      BY <3>1, <3>3, SameStutters DEF Same
    <3>4. CASE call[m] = "tool" /\ call'[m] = "refused"
      <4>1. state \in [Drafts -> States] /\ call[m] \in {"tool", "bridge"} /\ call'[m] = "refused"
        BY <3>4, <1>a DEF TypeOK
      <4> QED
        BY <3>1, <4>1, <1>a, Ended
    <3> QED
      BY <3>2, <3>3, <3>4
  <2> QED
    BY <2>1
<1>7. ASSUME NEW d \in Drafts, Discard(d) PROVE \A m \in Drafts : Promise!Step(m)
  <2>1. \A m \in Drafts : m # d => Same(m)
    BY <1>7, <1>a DEF Discard, Settled, Same, TypeOK, rows, calls, clicks, chat, counts
  <2>2. /\ state[d] \in Actionable /\ state'[d] = "discarded"
        /\ call' = call /\ words' = words /\ left' = left
    BY <1>7, <1>a DEF Discard, Settled, TypeOK, calls
  <2>3. state[d] \in Sendable => call[d] \in {"none", "refused"}
    BY <1>a DEF RowInv, Sendable
  <2>4. \/ Phase(d)' = Phase(d)
        \/ Phase(d) \in {"waiting", "unknown"} /\ Phase(d)' = "over"
    BY <2>2, <2>3 DEF Phase, Actionable, Sendable
  <2>9. Promise!Step(d)
    BY <2>2, <2>4 DEF Promise!Drop, Promise!Step, Promise!Kept, Promise!Goes, Promise!NotLeft
  <2> QED
    BY <2>1, <2>9, SameStutters
<1>8. ASSUME NEW d \in Drafts, Revise(d) PROVE \A m \in Drafts : Promise!Step(m)
  <2>1. \A m \in Drafts : m # d => Same(m)
    BY <1>8, <1>a DEF Revise, Same, TypeOK, rows, calls, clicks, chat, counts
  <2>2. /\ state[d] \in Sendable /\ state' = state /\ call' = call /\ left' = left
        /\ words'[d] \in Words
    BY <1>8, <1>a, TypeStep DEF Revise, TypeOK, calls
  <2>3. call[d] \in {"none", "refused"}
    BY <2>2, <1>a DEF RowInv, Sendable
  <2>4. Phase(d) = "waiting" /\ Phase(d)' = "waiting"
    BY <2>2, <2>3 DEF Phase, Sendable
  <2>9. Promise!Step(d)
    BY <2>2, <2>4 DEF Promise!Edit, Promise!Step, Promise!Kept, Promise!Goes, Promise!NotLeft
  <2> QED
    BY <2>1, <2>9, SameStutters
<1>9. ASSUME NEW d \in Drafts, Park(d) PROVE \A m \in Drafts : Promise!Step(m)
  <2>1. \A m \in Drafts : m # d => Same(m)
    BY <1>9, <1>a DEF Park, Same, TypeOK, rows, calls, clicks, chat, counts
  <2>2. state[d] = "none" /\ state'[d] = "held" /\ call' = call /\ words' = words /\ left' = left
    BY <1>9, <1>a DEF Park, TypeOK, calls
  <2>3. call[d] \in {"none", "refused"}
    BY <2>2, <1>a DEF RowInv
  <2>4. Phase(d) = "none" /\ Phase(d)' = "waiting"
    BY <2>2, <2>3 DEF Phase, Sendable
  <2>9. Promise!Step(d)
    BY <2>2, <2>4 DEF Promise!Write, Promise!Step, Promise!Kept, Promise!Goes, Promise!NotLeft
  <2> QED
    BY <2>1, <2>9, SameStutters
<1>10. ASSUME NEW d \in Drafts, LookUp(d) PROVE \A m \in Drafts : Promise!Step(m)
  BY <1>10, <1>a, SameStutters DEF LookUp, Decision, TypeOK, Same, rows, calls, clicks, chat, counts
<1>11. ASSUME NEW d \in Drafts, Refuse(d) PROVE \A m \in Drafts : Promise!Step(m)
  <2>1. \A m \in Drafts : m # d => Same(m)
    BY <1>11, <1>a DEF Refuse, Becomes, Same, TypeOK, rows, calls, clicks, chat, counts
  <2>2. call[d] \in {"tool", "bridge"} /\ call'[d] = "refused" /\ state' = state /\ words' = words /\ left' = left
    BY <1>11, <1>a DEF Refuse, Becomes, TypeOK, rows
  <2>9. Promise!Step(d)
    <3>1. state \in [Drafts -> States]
      BY <1>a DEF TypeOK
    <3> QED
      BY <2>2, <3>1, <1>a, Ended
  <2> QED
    BY <2>1, <2>9, SameStutters
<1>12. ASSUME NEW d \in Drafts, HandOver(d) PROVE \A m \in Drafts : Promise!Step(m)
  <2>1. \A m \in Drafts : m # d => Same(m)
    BY <1>12, <1>a DEF HandOver, Becomes, Same, TypeOK, rows, calls, clicks, chat, counts
  <2>2. call[d] = "tool" /\ call'[d] = "bridge" /\ state' = state /\ words' = words /\ left' = left
    BY <1>12, <1>a DEF HandOver, Becomes, TypeOK, rows
  <2>3. Phase(d)' = Phase(d)
    BY <2>2 DEF Phase
  <2>9. Promise!Step(d)
    BY <2>2, <2>3 DEF Promise!Step, Promise!Kept, Promise!Goes, Promise!NotLeft
  <2> QED
    BY <2>1, <2>9, SameStutters
<1>13. ASSUME NEW d \in Drafts, Deliver(d) PROVE \A m \in Drafts \ stale' : Promise!Step(m)
  <2>1. \A m \in Drafts : m # d => Same(m)
    BY <1>13, <1>a DEF Deliver, Becomes, Same, TypeOK, rows, calls, clicks, chat, counts
  <2>2. /\ call[d] = "bridge" /\ call'[d] = "delivered" /\ state' = state /\ words' = words /\ stale' = stale
        /\ left'[d] = Append(left[d], copy[d])
    BY <1>13, <1>a DEF Deliver, Becomes, TypeOK, rows
  <2>3. /\ state[d] \in {"sending", "ambiguous", "discarded"} /\ left[d] = <<>>
        /\ d \notin stale => copy[d] = words[d]
    BY <2>2, <1>a DEF RowInv, WordsInv, TypeOK, States, Actionable, Sendable
  <2>4. d \notin stale => left'[d] = <<words[d]>>
    BY <2>2, <2>3
  <2>5. \/ Phase(d) = "released" /\ Phase(d)' = "released"
        \/ Phase(d) = "unknown" /\ Phase(d)' \in {"unknown", "over"}
    BY <2>2, <2>3 DEF Phase, Sendable
  <2>9. d \notin stale => Promise!Step(d)
    BY <2>2, <2>3, <2>4, <2>5 DEF Promise!Leave, Promise!Step, Promise!Kept, Promise!Goes, Promise!NotLeft
  <2> QED
    BY <2>1, <2>2, <2>9, SameStutters
<1>14. ASSUME NEW c \in Clicks, Claim(c) PROVE \A m \in Drafts : Promise!Step(m)
  <2>0. PICK d \in Drafts : d = on[c] /\ state[d] \in Sendable
    BY <1>14, <1>a DEF Claim, ClickInv, TypeOK
  <2>1. \A m \in Drafts : m # d => Same(m)
    BY <2>0, <1>14, <1>a DEF Claim, Same, TypeOK, rows, calls, clicks, chat, counts
  <2>2. state'[d] = "sending" /\ words' = words /\ left' = left
    BY <1>14, <2>0, <1>a DEF Claim, TypeOK
  <2>3. call[d] \in {"none", "refused"} /\ left[d] = <<>>
    BY <2>0, <1>a DEF RowInv, Sendable
  <2>4. Phase(d) = "waiting" /\ Phase(d)' = "released"
    BY <2>0, <2>2, <2>3 DEF Phase, Sendable
  <2>9. Promise!Step(d)
    BY <2>0, <2>2, <2>3, <2>4 DEF Promise!Approve, Promise!Step, Promise!Kept, Promise!Goes, Promise!NotLeft
  <2> QED
    BY <2>1, <2>9, SameStutters
<1>15. ASSUME NEW c \in Clicks, GiveUp(c) PROVE \A m \in Drafts : Promise!Step(m)
  BY <1>15, <1>a, SameStutters DEF GiveUp, Goto, TypeOK, Same, rows, calls, clicks, chat, counts
<1>16. ASSUME NEW c \in Clicks, Answer(c) PROVE \A m \in Drafts : Promise!Step(m)
  BY <1>16, <1>a, SameStutters DEF Answer, Goto, Heard, TypeOK, Same, rows, calls, clicks, chat, counts
<1>17. ASSUME NEW c \in Clicks, Settle(c) PROVE \A m \in Drafts : Promise!Step(m)
  <2>0. PICK d \in Drafts : d = on[c]
    BY <1>17, <1>a DEF Settle, ClickInv
  <2>1. \A m \in Drafts : m # d => Same(m)
    BY <2>0, <1>17, <1>a DEF Settle, Settled, Same, TypeOK, rows, calls, clicks, chat, counts
  <2>2. call' = call /\ words' = words /\ left' = left
    BY <1>17 DEF Settle, calls
  <2>3. ASSUME state[d] # "sending" PROVE Promise!Step(d)
    BY <1>17, <2>2, <2>3, SameStutters, <2>0 DEF Settle, Settled, Same
  <2>4. ASSUME state[d] = "sending" PROVE Promise!Step(d)
    <3>1. state'[d] = Outcome(c) /\ answer[c] \in {"sent", "unconfirmed", "failed"} /\ pc[c] = "settle"
      BY <1>17, <2>0, <2>4, <1>a DEF Settle, Settled, TypeOK
    <3>2. CASE answer[c] = "sent"
      <4>1. call[d] = "delivered" /\ left[d] # <<>>
        BY <3>1, <3>2, <2>0, <1>a DEF ClickInv, RowInv
      <4>2. Phase(d) = "released" /\ Phase(d)' = "over"
        BY <2>2, <2>4, <3>1, <3>2, <4>1 DEF Phase, Outcome, Sendable
      <4> QED
        BY <2>0, <2>2, <4>1, <4>2 DEF Promise!Finish, Promise!Step, Promise!Kept, Promise!Goes, Promise!NotLeft
    <3>3. CASE answer[c] = "failed"
      <4>1. call[d] = "refused" /\ left[d] = <<>>
        BY <3>1, <3>3, <2>0, <1>a DEF ClickInv, RowInv
      <4>2. Phase(d) = "released" /\ Phase(d)' = "waiting"
        BY <2>2, <2>4, <3>1, <3>3, <4>1 DEF Phase, Outcome, Sendable
      <4> QED
        BY <2>0, <2>2, <4>1, <4>2 DEF Promise!Return, Promise!Step, Promise!Kept, Promise!Goes, Promise!NotLeft
    <3>4. CASE answer[c] = "unconfirmed"
      <4>1. Phase(d) = "released" /\ Phase(d)' = "unknown"
        BY <2>4, <3>1, <3>4 DEF Phase, Outcome
      <4> QED
        BY <2>0, <2>2, <4>1, LostSteps
    <3> QED
      BY <3>1, <3>2, <3>3, <3>4
  <2>9. Promise!Step(d)
    BY <2>3, <2>4
  <2> QED
    BY <2>1, <2>9, SameStutters
<1>18. ASSUME NEW c \in Clicks, Wake(c) PROVE \A m \in Drafts : Promise!Step(m)
  <2>1. ASSUME NEW m \in Drafts PROVE Promise!Step(m)
    <3>1. Same(m) \/ (state[m] = "sending" /\ state'[m] = "ambiguous" /\ words' = words /\ left' = left)
      BY <1>18, <1>a DEF Wake, Reclaimed, Stranded, Same, TypeOK, rows, calls, clicks, chat, counts
    <3>2. CASE state[m] = "sending" /\ state'[m] = "ambiguous" /\ words' = words /\ left' = left
      <4>1. Phase(m) = "released" /\ Phase(m)' = "unknown"
        BY <3>2 DEF Phase
      <4> QED
        BY <3>2, <4>1, LostSteps
    <3> QED
      BY <3>1, <3>2, SameStutters
  <2> QED
    BY <2>1
<1>19. ASSUME NEW c \in Clicks, NEW d \in Drafts, Press(c, d) PROVE \A m \in Drafts : Promise!Step(m)
  BY <1>19, <1>a, SameStutters DEF Press, TypeOK, Same, rows, calls, clicks, chat, counts
<1>20. CASE UNCHANGED vars
  BY <1>20, <1>a, SameStutters DEF vars, TypeOK, Same, rows, calls, clicks, chat, counts
<1> QED
  BY <1>1, <1>2, <1>3, <1>4, <1>5, <1>6, <1>7, <1>8, <1>9, <1>10, <1>11, <1>12, <1>13, <1>14, <1>15, <1>16, <1>17, <1>18, <1>19, <1>20 DEF Next, Send

\* The parked calls treat a draft as Delivery says, with at most one copy, after a
\* yes, in the words of the yes, as long as no Send claimed it in words that an
\* edit had replaced; whoever else edits, sends, drops or dies meanwhile.
THEOREM CallsKeepDelivery == Spec => KeptUnlessStale
<1>1. Init => WordsInv
  BY DEF Init, WordsInv
<1>2. IInv /\ WordsInv /\ [Next]_vars => WordsInv'
  BY WordsStep
<1>3. Init => Promise!Init
  <2> SUFFICES ASSUME Init PROVE Promise!Init
    OBVIOUS
  <2>1. \A d \in Drafts : Phase(d) = "none"
    BY DEF Init, Phase
  <2>2. words \in [Drafts -> Words]
    BY HeldCallsAssumption DEF Init, Words
  <2> QED
    BY <2>1, <2>2 DEF Init, Promise!Init
<1>4. IInv /\ WordsInv /\ [Next]_vars => StepsUnlessStale
  BY StepImplements
<1> QED
  BY <1>1, <1>2, <1>3, <1>4, AlwaysInv, PTL DEF Spec, KeptUnlessStale

=============================================================================
