------------------------- MODULE MailOutbox_proofs -------------------------
(***************************************************************************)
(* What holds of the outbox for any sends, surfaces, passes and bounds,    *)
(* and whether its three assumptions hold or not: a message that met with  *)
(* none of the races they exclude is on the wire at most once, its card    *)
(* tells where it is, and it is treated as Delivery says.                  *)
(***************************************************************************)
EXTENDS MailOutbox, FiniteSetTheorems, SequenceTheorems, TLAPS

-----------------------------------------------------------------------------
(* The inductive invariant *)

\* An unraced row: before its stamp it is fresh; an interrupted send stays parked; and
\* it is known where the row of a message is that has left, or may have.
RowOK(o) ==
    /\ stamp[o] = "none" => /\ left[o] = <<>> /\ op[o].error = "none"
                            /\ op[o].state \in {"none", "held", "pending"}
    /\ op[o].state = "none" => stamp[o] = "none"
    /\ op[o].error = "interrupted" => op[o].state = "failed"
    /\ op[o].state = "done" => left[o] # <<>>
    /\ left[o] # <<>> =>
          /\ Len(left[o]) = 1
          /\ \/ op[o].state \in {"sending", "done"}
             \/ op[o].state = "failed" /\ op[o].error = "interrupted"
             \/ /\ op[o].state \in {"held", "failed"}
                /\ stamp[o] = "ambiguous" /\ op[o].error = "error"
             \/ op[o].state = "discarded" /\ op[o].error # "none"

Approving(c) == pc[c] \in {"yes", "stamp"}

\* A Send under way is about a row; one that is unraced is stamped and was not
\* interrupted, and nothing else touches it from the look at the draft to the
\* stamp of its approval.
ClickOK(c) ==
    pc[c] # "idle" =>
        /\ on[c] \in Ops
        /\ on[c] \notin raced =>
              /\ op[on[c]].error # "interrupted" /\ stamp[on[c]] # "none"
              /\ pc[c] = "yes"   => op[on[c]].state = "held" /\ stamp[on[c]] # "ambiguous"
              /\ pc[c] = "stamp" => op[on[c]].state = "pending"

Current(r) == list[r][1].id

\* A pass that handles an unraced row has claimed it, and knows whether it has left.
HandlerOK(r) ==
    Handling(r) =>
        /\ list[r] # <<>> /\ Current(r) \in Ops
        /\ Current(r) \notin raced =>
              /\ op[Current(r)].state = "sending"
              /\ pc[r] = "send" => left[Current(r)] = <<>> /\ list[r][1].words = op[Current(r)].words
              /\ pc[r] # "send" /\ answer[r] = "ok" => left[Current(r)] # <<>>
              /\ pc[r] # "send" /\ answer[r] \in {"retry", "refused"} => left[Current(r)] = <<>>
              /\ pc[r] = "ledger" => answer[r] # "retry"
              /\ pc[r] = "mark" /\ answer[r] = "unsure" => stamp[Current(r)] = "ambiguous"

\* No two Sends approve an unraced draft, and no two passes handle an unraced row.
OneApproves ==
    \A c, d \in Clicks : Approving(c) /\ Approving(d) /\ on[c] = on[d] /\ on[c] \notin raced => c = d
OneHandles ==
    \A r, q \in Runners :
        Handling(r) /\ Handling(q) /\ Current(r) = Current(q) /\ Current(r) \notin raced => r = q

Settled ==
    /\ \A o \in Unraced : RowOK(o)
    /\ \A c \in Clicks : ClickOK(c)
    /\ \A r \in Runners : HandlerOK(r)
    /\ OneApproves /\ OneHandles

OutboxInv == TypeOK /\ Settled

-----------------------------------------------------------------------------
(* Types *)

LEMMA FirstRow ==
    ASSUME TypeOK, NEW r \in Runners, list[r] # <<>>
    PROVE  /\ list[r][1] \in Listing /\ Tail(list[r]) \in Seq(Listing)
           /\ \A e \in Listing : [list EXCEPT ![r][1] = e] \in [Runners -> Seq(Listing)]
  <1>1. list[r] \in Seq(Listing) /\ Len(list[r]) \in Nat \ {0}
    BY DEF TypeOK
  <1>2. list[r][1] \in Listing /\ Tail(list[r]) \in Seq(Listing)
    BY <1>1
  <1>3. ASSUME NEW e \in Listing
        PROVE  [list EXCEPT ![r][1] = e] \in [Runners -> Seq(Listing)]
    <2>1. [list[r] EXCEPT ![1] = e] \in Seq(Listing)
      BY <1>1
    <2> QED
      BY <2>1 DEF TypeOK
  <1> QED
    BY <1>2, <1>3

\* A Send under way is about a send, and a pass that handles a row has listed it.
StepsHaveRows ==
    /\ \A c \in Clicks : pc[c] # "idle" => on[c] \in Ops
    /\ \A r \in Runners : Handling(r) => list[r] # <<>>

\* A row that met with a race stays noted, and only rows are noted.
LEMMA RacedGrows == TypeOK /\ StepsHaveRows /\ [Next]_vars => raced \subseteq raced' /\ raced' \subseteq Ops
  <1> SUFFICES ASSUME TypeOK, StepsHaveRows, [Next]_vars
               PROVE  raced \subseteq raced' /\ raced' \subseteq Ops
    OBVIOUS
  <1>0. raced \subseteq Ops
    BY DEF TypeOK
  <1>1. ASSUME NEW o \in Ops, Touch(o, TRUE) \/ Touch(o, FALSE)
        PROVE  raced \subseteq raced' /\ raced' \subseteq Ops
    BY <1>0, <1>1 DEF Touch
  <1>2. ASSUME NEW o \in Ops, Queue(o, "held") \/ Queue(o, "queued") \/ Record(o)
                               \/ Revise(o) \/ Discard(o) \/ Cancel(o)
        PROVE  raced \subseteq raced' /\ raced' \subseteq Ops
    BY <1>0, <1>1, <1>2 DEF Queue, Record, Revise, Discard, Cancel
  <1>3. ASSUME NEW c \in Clicks, (\E o \in Ops : Press(c, o)) \/ Send(c)
        PROVE  raced \subseteq raced' /\ raced' \subseteq Ops
    <2>1. pc[c] # "idle" => on[c] \in Ops
      BY DEF StepsHaveRows
    <2> QED
      BY <1>0, <1>1, <1>3, <2>1 DEF Press, Send, Check, Approve, Stamp, Read, Return
  <1>4. ASSUME NEW r \in Runners, Cap(r) \/ Claim(r) \/ Ledger(r) \/ Mark(r)
        PROVE  raced \subseteq raced' /\ raced' \subseteq Ops
    <2>1. list[r] # <<>>
      BY <1>4 DEF Cap, Claim, Ledger, Mark, AtRow, StepsHaveRows, Handling
    <2>2. list[r][1].id \in Ops
      BY <2>1, FirstRow DEF Listing
    <2> QED
      BY <1>0, <1>4, <2>2 DEF Cap, Claim, Ledger, Mark, Touch
  <1>5. ASSUME NEW r \in Runners, StartPass(r) \/ Skip(r) \/ Transmit(r) \/ EndPass(r) \/ Crash(r)
        PROVE  raced \subseteq raced' /\ raced' \subseteq Ops
    BY <1>0, <1>5 DEF StartPass, Skip, Transmit, EndPass, Crash
  <1>6. CASE UNCHANGED vars
    BY <1>0, <1>6 DEF vars
  <1> QED
    BY <1>2, <1>3, <1>4, <1>5, <1>6 DEF Next, Pass

LEMMA TypeNext == TypeOK /\ StepsHaveRows /\ [Next]_vars => TypeOK'
  <1> SUFFICES ASSUME TypeOK, StepsHaveRows, [Next]_vars, raced' \subseteq Ops PROVE TypeOK'
    BY RacedGrows
  <1>0. /\ \A c \in Clicks : pc[c] # "idle" => on[c] \in Ops
        /\ \A r \in Runners : Handling(r) => list[r] # <<>>
    BY DEF StepsHaveRows
  <1> USE MailOutboxAssumption DEF MailOutboxAssumption, TypeOK
  <1>1. ASSUME NEW o \in Ops, NEW born \in {"held", "queued"}, Queue(o, born)
        PROVE  TypeOK'
    <2>1. op' \in [Ops -> Rows]
      <3>1. o \in Ops /\ op[o] \in Rows
        OBVIOUS
      <3>2. [op[o] EXCEPT !.state = IF born = "held" THEN "held" ELSE "pending", !.born = born] \in Rows
        BY <3>1 DEF Rows, States
      <3> QED
        BY <1>1, <3>1, <3>2 DEF Queue
    <2> QED
      BY <1>1, <2>1 DEF Queue, rows, runners
  <1>2. ASSUME NEW o \in Ops, Record(o)
        PROVE  TypeOK'
    <2>1. stamp' \in [Ops -> Stamps]
      BY <1>2 DEF Record, Stamps, Rows
    <2> QED
      BY <1>2, <2>1 DEF Record, rows, runners
  <1>3. ASSUME NEW o \in Ops, Revise(o)
        PROVE  TypeOK'
    <2>1. op' \in [Ops -> Rows]
      <3>1. o \in Ops /\ op[o] \in Rows
        OBVIOUS
      <3>2. op[o].words + 1 \in 0..MaxEdits
        BY <3>1, <1>3 DEF Revise, Rows
      <3>3. [op[o] EXCEPT !.words = @ + 1] \in Rows
        BY <3>1, <3>2 DEF Rows
      <3> QED
        BY <1>3, <3>1, <3>3 DEF Revise
    <2> QED
      BY <1>3, <2>1 DEF Revise, rows, runners
  <1>4. ASSUME NEW o \in Ops, Discard(o)
        PROVE  TypeOK'
    <2>1. op' \in [Ops -> Rows]
      <3>1. o \in Ops /\ op[o] \in Rows
        OBVIOUS
      <3>2. [op[o] EXCEPT !.state = "discarded"] \in Rows
        BY <3>1 DEF Rows, States
      <3> QED
        BY <1>4, <3>1, <3>2 DEF Discard
    <2>2. stamp' \in [Ops -> Stamps]
      BY <1>4 DEF Discard, Stamped, Stamps
    <2> QED
      BY <1>4, <2>1, <2>2 DEF Discard, rows, runners
  <1>5. ASSUME NEW o \in Ops, Cancel(o)
        PROVE  TypeOK'
    <2>1. op' \in [Ops -> Rows]
      <3>1. o \in Ops /\ op[o] \in Rows
        OBVIOUS
      <3>2. [op[o] EXCEPT !.state = "cancelled"] \in Rows
        BY <3>1 DEF Rows, States
      <3> QED
        BY <1>5, <3>1, <3>2 DEF Cancel
    <2> QED
      BY <1>5, <2>1 DEF Cancel, rows, runners
  <1>6. ASSUME NEW c \in Clicks, NEW o \in Ops, Press(c, o)
        PROVE  TypeOK'
    <2>1. op' \in [Ops -> Rows]
      <3>1. op[o] \in Rows
        OBVIOUS
      <3>2. [op[o] EXCEPT !.state = "held"] \in Rows
        BY <3>1 DEF Rows, States
      <3> QED
        BY <1>6, <3>1, <3>2 DEF Press, Move
    <2>2. pc' \in [Runners -> Places] /\ on' \in [Clicks -> Ops \cup {NoOp}]
      BY <1>6 DEF Press, Places
    <2> QED
      BY <1>6, <2>1, <2>2 DEF Press, rows, runners
  <1>7. ASSUME NEW c \in Clicks, Check(c)
        PROVE  TypeOK'
    <2>1. pc' \in [Runners -> Places] /\ on' \in [Clicks -> Ops \cup {NoOp}]
      BY <1>7 DEF Check, Goto, Places
    <2> QED
      BY <1>7, <2>1 DEF Check, rows, runners
  <1>8. ASSUME NEW c \in Clicks, Approve(c)
        PROVE  TypeOK'
    <2>1. op' \in [Ops -> Rows]
      <3>1. on[c] \in Ops /\ op[on[c]] \in Rows
        BY <1>0, <1>8 DEF Approve
      <3>2. [op[on[c]] EXCEPT !.state = "pending", !.attempts = 0, !.error = "none"] \in Rows
        BY <3>1, 0 \in 0..MaxAttempts DEF Rows, States
      <3> QED
        BY <1>8, <3>1, <3>2 DEF Approve
    <2>2. pc' \in [Runners -> Places] /\ on' \in [Clicks -> Ops \cup {NoOp}]
      <3>1. Goto(c, "stamp") \/ Goto(c, "idle")
        BY <1>8 DEF Approve
      <3> QED
        BY <3>1 DEF Goto, Places
    <2> QED
      BY <1>8, <2>1, <2>2 DEF Approve, rows, runners
  <1>9. ASSUME NEW c \in Clicks, Stamp(c)
        PROVE  TypeOK'
    <2>1. stamp' \in [Ops -> Stamps]
      BY <1>9 DEF Stamp, Stamped, Stamps
    <2>2. pc' \in [Runners -> Places] /\ on' \in [Clicks -> Ops \cup {NoOp}]
      BY <1>9 DEF Stamp, Goto, Places
    <2> QED
      BY <1>9, <2>1, <2>2 DEF Stamp, rows, runners
  <1>10. ASSUME NEW c \in Clicks, Read(c)
        PROVE  TypeOK'
    <2>1. pc' \in [Runners -> Places] /\ on' \in [Clicks -> Ops \cup {NoOp}]
      BY <1>10 DEF Read, Goto, Places
    <2> QED
      BY <1>10, <2>1 DEF Read, rows, runners
  <1>11. ASSUME NEW c \in Clicks, Return(c)
        PROVE  TypeOK'
    <2>1. op' \in [Ops -> Rows]
      <3>1. on[c] \in Ops /\ op[on[c]] \in Rows
        BY <1>0, <1>11 DEF Return
      <3>2. [op[on[c]] EXCEPT !.state = "held"] \in Rows
        BY <3>1 DEF Rows, States
      <3> QED
        BY <1>11, <3>1, <3>2 DEF Return, Move
    <2>2. pc' \in [Runners -> Places] /\ on' \in [Clicks -> Ops \cup {NoOp}]
      BY <1>11 DEF Return, Goto, Places
    <2> QED
      BY <1>11, <2>1, <2>2 DEF Return, rows, runners
  <1>12. ASSUME NEW r \in Runners, StartPass(r)
        PROVE  TypeOK'
    <2>1. op' \in [Ops -> Rows]
      <3>1. ASSUME NEW o \in Ops
            PROVE  Reclaimed(o) \in Rows /\ op[o] \in Rows
        <4>1. op[o] \in Rows
          OBVIOUS
        <4> QED
          BY <4>1 DEF Reclaimed, Rows, States
      <3> QED
        BY <1>12, <3>1 DEF StartPass
    <2>2. pc' \in [Runners -> Places] /\ on' \in [Clicks -> Ops \cup {NoOp}]
      BY <1>12 DEF StartPass, Goto, Places
    <2>3. list' \in [Runners -> Seq(Listing)]
      <3> DEFINE due0 == {o \in Ops : op'[o].state = "pending"}
      <3>1. IsFiniteSet(due0) /\ Cardinality(due0) \in Nat
        BY FS_Subset, FS_CardinalityType
      <3>2. PICK due \in [1..Cardinality(due0) -> due0] :
                list' = [list EXCEPT ![r] =
                    [i \in DOMAIN due |-> [id |-> due[i], attempts |-> op'[due[i]].attempts,
                                           words |-> op'[due[i]].words]]]
        BY <1>12 DEF StartPass, InOrder
      <3>3. \A i \in DOMAIN due :
                [id |-> due[i], attempts |-> op'[due[i]].attempts, words |-> op'[due[i]].words] \in Listing
        BY <2>1 DEF Listing, Rows
      <3> HIDE DEF due0
      <3> DEFINE n == Cardinality(due0)
                 listed == [i \in DOMAIN due |-> [id |-> due[i], attempts |-> op'[due[i]].attempts,
                                                  words |-> op'[due[i]].words]]
      <3>4. n \in Nat /\ listed \in [1..n -> Listing]
        BY <3>1, <3>3
      <3>5. listed \in Seq(Listing)
        <4> HIDE DEF listed, n
        <4> QED
          BY <3>4
      <3> QED
        BY <3>2, <3>5
    <2> QED
      BY <1>12, <2>1, <2>2, <2>3 DEF StartPass, rows, runners
  <1>13. ASSUME NEW r \in Runners, Cap(r)
        PROVE  TypeOK'
    <2>1. op' \in [Ops -> Rows]
      <3>1. list[r][1].id \in Ops /\ op[list[r][1].id] \in Rows
        BY <1>13, FirstRow DEF Cap, AtRow, Listing
      <3>2. [op[list[r][1].id] EXCEPT !.state = "failed", !.error = "error"] \in Rows
        BY <3>1 DEF Rows, States
      <3> QED
        BY <1>13, <3>1, <3>2 DEF Cap
    <2>2. list' \in [Runners -> Seq(Listing)]
      BY <1>13, FirstRow DEF Cap, AtRow
    <2> QED
      BY <1>13, <2>1, <2>2 DEF Cap, rows, runners
  <1>14. ASSUME NEW r \in Runners, Claim(r)
        PROVE  TypeOK'
    <2>1. op' \in [Ops -> Rows]
      <3>1. list[r][1].id \in Ops /\ op[list[r][1].id] \in Rows
        BY <1>14, FirstRow DEF Claim, AtRow, Listing
      <3> DEFINE a0 == op[list[r][1].id].attempts
                 a1 == IF a0 < MaxAttempts THEN a0 + 1 ELSE a0
      <3>2. a1 \in 0..MaxAttempts
        BY <3>1 DEF Rows
      <3>3. [op[list[r][1].id] EXCEPT !.state = "sending", !.attempts = a1] \in Rows
        <4> HIDE DEF a1
        <4> QED
          BY <3>1, <3>2 DEF Rows, States
      <3> QED
        BY <1>14, <3>1, <3>3 DEF Claim
    <2>2. pc' \in [Runners -> Places] /\ on' \in [Clicks -> Ops \cup {NoOp}]
      BY <1>14 DEF Claim, Goto, Places
    <2>3. list' \in [Runners -> Seq(Listing)]
      <3>1. list[r] # <<>> /\ list[r][1] \in Listing
        BY <1>14, FirstRow DEF Claim, AtRow
      <3>2. Row(r) \in Listing
        BY <3>1 DEF Row, Listing, Rows
      <3> QED
        BY <1>14, <3>1, <3>2, FirstRow DEF Claim
    <2> QED
      BY <1>14, <2>1, <2>2, <2>3 DEF Claim, rows, runners
  <1>15. ASSUME NEW r \in Runners, Skip(r)
        PROVE  TypeOK'
    <2>1. list' \in [Runners -> Seq(Listing)]
      BY <1>15, FirstRow DEF Skip, AtRow
    <2> QED
      BY <1>15, <2>1 DEF Skip, rows, runners
  <1>16. ASSUME NEW r \in Runners, Transmit(r)
        PROVE  TypeOK'
    <2>1. answer' \in [Runners -> Answers]
      BY <1>16 DEF Transmit, Answers
    <2>2. left' \in [Ops -> Seq(0..MaxEdits)]
      <3>1. list[r][1].id \in Ops /\ list[r][1].words \in 0..MaxEdits
        BY <1>0, <1>16, FirstRow DEF Transmit, Handling, Listing
      <3>2. left[list[r][1].id] \in Seq(0..MaxEdits)
        BY <3>1
      <3>3. Append(left[list[r][1].id], list[r][1].words) \in Seq(0..MaxEdits)
        BY <3>1, <3>2, AppendProperties
      <3> QED
        BY <1>16, <3>1, <3>3 DEF Transmit
    <2>3. pc' \in [Runners -> Places] /\ on' \in [Clicks -> Ops \cup {NoOp}]
      BY <1>16 DEF Transmit, Goto, Places
    <2> QED
      BY <1>16, <2>1, <2>2, <2>3 DEF Transmit, rows, runners
  <1>17. ASSUME NEW r \in Runners, Ledger(r)
        PROVE  TypeOK'
    <2>1. stamp' \in [Ops -> Stamps]
      BY <1>17 DEF Ledger, Stamped, Word, Stamps
    <2>2. pc' \in [Runners -> Places] /\ on' \in [Clicks -> Ops \cup {NoOp}]
      BY <1>17 DEF Ledger, Goto, Places
    <2> QED
      BY <1>17, <2>1, <2>2 DEF Ledger, rows, runners
  <1>18. ASSUME NEW r \in Runners, Mark(r)
        PROVE  TypeOK'
    <2>1. op' \in [Ops -> Rows]
      <3>1. list[r][1].id \in Ops /\ op[list[r][1].id] \in Rows
        BY <1>0, <1>18, FirstRow DEF Mark, Handling, Listing
      <3>2. [op[list[r][1].id] EXCEPT !.state = "done"] \in Rows
        BY <3>1 DEF Rows, States
      <3>3. [op[list[r][1].id] EXCEPT !.state = "pending", !.error = "error"] \in Rows
        BY <3>1 DEF Rows, States
      <3>4. [op[list[r][1].id] EXCEPT !.state = "failed", !.error = "error"] \in Rows
        BY <3>1 DEF Rows, States
      <3> QED
        BY <1>18, <3>1, <3>2, <3>3, <3>4 DEF Mark, Move
    <2>2. list' \in [Runners -> Seq(Listing)]
      BY <1>0, <1>18, FirstRow DEF Mark, Handling
    <2>3. answer' \in [Runners -> Answers]
      BY <1>18 DEF Mark, Answers
    <2>4. pc' \in [Runners -> Places] /\ on' \in [Clicks -> Ops \cup {NoOp}]
      BY <1>18 DEF Mark, Goto, Places
    <2> QED
      BY <1>18, <2>1, <2>2, <2>3, <2>4 DEF Mark, rows, runners
  <1>19. ASSUME NEW r \in Runners, EndPass(r)
        PROVE  TypeOK'
    <2>1. pc' \in [Runners -> Places] /\ on' \in [Clicks -> Ops \cup {NoOp}]
      BY <1>19 DEF EndPass, Goto, Places
    <2> QED
      BY <1>19, <2>1 DEF EndPass, rows, runners
  <1>20. ASSUME NEW r \in Runners, Crash(r)
        PROVE  TypeOK'
    <2>1. pc' \in [Runners -> Places] /\ on' \in [Clicks -> Ops \cup {NoOp}]
      BY <1>20 DEF Crash, Goto, Places
    <2>2. list' \in [Runners -> Seq(Listing)]
      BY <1>20 DEF Crash
    <2>3. answer' \in [Runners -> Answers]
      BY <1>20 DEF Crash, Answers
    <2> QED
      BY <1>20, <2>1, <2>2, <2>3 DEF Crash, rows, runners
  <1>21. CASE UNCHANGED vars
    BY <1>21 DEF vars, rows, runners
  <1> QED
    BY <1>1, <1>2, <1>3, <1>4, <1>5, <1>6, <1>7, <1>8, <1>9, <1>10, <1>11, <1>12, <1>13,
       <1>14, <1>15, <1>16, <1>17, <1>18, <1>19, <1>20, <1>21
    DEF Next, Pass, Send

LEMMA SettledHaveRows == OutboxInv => StepsHaveRows
  BY DEF OutboxInv, Settled, ClickOK, HandlerOK, StepsHaveRows

LEMMA RowsStay == TypeOK /\ StepsHaveRows /\ [Next]_vars => StepsHaveRows'
  <1> SUFFICES ASSUME TypeOK, StepsHaveRows, [Next]_vars PROVE StepsHaveRows'
    OBVIOUS
  <1> USE DEF StepsHaveRows, Handling
  <1>1. ASSUME NEW o \in Ops, Queue(o, "held") \/ Queue(o, "queued") \/ Record(o)
                               \/ Revise(o) \/ Discard(o) \/ Cancel(o)
        PROVE  StepsHaveRows'
    BY <1>1 DEF Queue, Record, Revise, Discard, Cancel, runners
  <1>2. ASSUME NEW c \in Clicks, NEW o \in Ops, Press(c, o)
        PROVE  StepsHaveRows'
    BY <1>2 DEF Press, TypeOK, Runners
  <1>3. ASSUME NEW c \in Clicks, Send(c)
        PROVE  StepsHaveRows'
    BY <1>3 DEF Send, Check, Approve, Stamp, Read, Return, Goto, TypeOK, Runners, Places
  <1>4. ASSUME NEW r \in Runners, StartPass(r) \/ Cap(r) \/ Skip(r) \/ EndPass(r) \/ Crash(r)
        PROVE  StepsHaveRows'
    <2>1. \A q \in Runners : Handling(q)' => q # r /\ Handling(q) /\ list'[q] = list[q]
      BY <1>4 DEF StartPass, Cap, Skip, EndPass, Crash, AtRow, Goto, TypeOK
    <2>2. \A c \in Clicks : pc'[c] # "idle" => on'[c] \in Ops
      BY <1>4 DEF StartPass, Cap, Skip, EndPass, Crash, AtRow, Goto, TypeOK, Runners
    <2> QED
      BY <2>1, <2>2
  <1>5. ASSUME NEW r \in Runners, Claim(r)
        PROVE  StepsHaveRows'
    <2>1. list'[r] # <<>>
      <3>1. list[r] \in Seq(Listing) /\ list[r] # <<>>
        BY <1>5 DEF Claim, AtRow, TypeOK
      <3>2. 1 \in DOMAIN list[r] /\ list'[r] = [list[r] EXCEPT ![1] = Row(r)]
        BY <1>5, <3>1 DEF Claim, TypeOK
      <3>3. 1 \in DOMAIN list'[r]
        BY <3>2
      <3> QED
        BY <3>3
    <2> QED
      BY <1>5, <2>1 DEF Claim, AtRow, Goto, TypeOK, Runners
  <1>6. ASSUME NEW r \in Runners, Transmit(r) \/ Ledger(r)
        PROVE  StepsHaveRows'
    BY <1>6 DEF Transmit, Ledger, Goto, TypeOK, Runners
  <1>7. ASSUME NEW r \in Runners, Mark(r)
        PROVE  StepsHaveRows'
    <2>1. \A q \in Runners : Handling(q)' => q # r /\ Handling(q) /\ list'[q] = list[q]
      BY <1>7 DEF Mark, Goto, TypeOK
    <2>2. \A c \in Clicks : pc'[c] # "idle" => on'[c] \in Ops
      BY <1>7 DEF Mark, Goto, TypeOK, Runners
    <2> QED
      BY <2>1, <2>2
  <1>8. CASE UNCHANGED vars
    BY <1>8 DEF vars, runners
  <1> QED
    BY <1>1, <1>2, <1>3, <1>4, <1>5, <1>6, <1>7, <1>8 DEF Next, Pass

-----------------------------------------------------------------------------
(* Every step keeps the invariant, and is a step of Delivery *)

\* A step that touches the rows in O and the runners in Z has to be looked at
\* only there.
LEMMA StepFrame ==
    ASSUME OutboxInv, raced \subseteq raced', NEW O \in SUBSET Ops, NEW Z \in SUBSET Runners,
           \A p \in Ops \ O : op'[p] = op[p] /\ stamp'[p] = stamp[p] /\ left'[p] = left[p],
           \A q \in Runners \ Z : pc'[q] = pc[q] /\ list'[q] = list[q] /\ answer'[q] = answer[q],
           \A c \in Clicks \ Z : on'[c] = on[c],
           \A o \in O \ raced' : RowOK(o)' /\ Promise!Step(o),
           \A c \in Clicks : c \in Z \/ on[c] \in O => ClickOK(c)',
           \A r \in Runners : r \in Z \/ (Handling(r) /\ Current(r) \in O) => HandlerOK(r)',
           \A c \in Z, d \in Clicks :
               c \in Clicks /\ Approving(c)' /\ Approving(d)' /\ on'[c] = on'[d] /\ on'[c] \notin raced'
               => c = d,
           \A r \in Z, q \in Runners :
               Handling(r)' /\ Handling(q)' /\ Current(r)' = Current(q)' /\ Current(r)' \notin raced'
               => r = q
    PROVE  Settled' /\ StepsUnlessRaced
  <1>1. ASSUME NEW o \in Unraced'
        PROVE  RowOK(o)'
    BY <1>1 DEF OutboxInv, Settled, RowOK, Unraced
  <1>2. ASSUME NEW c \in Clicks
        PROVE  ClickOK(c)'
    <2>1. CASE c \notin Z /\ on[c] \notin O
      BY <2>1 DEF OutboxInv, Settled, ClickOK, Runners
    <2> QED
      BY <2>1
  <1>3. ASSUME NEW r \in Runners
        PROVE  HandlerOK(r)'
    <2>1. CASE r \notin Z /\ ~(Handling(r) /\ Current(r) \in O)
      BY <2>1 DEF OutboxInv, Settled, HandlerOK, Handling, Current
    <2> QED
      BY <2>1
  <1>4. OneApproves'
    <2>1. ASSUME NEW c \in Clicks, NEW d \in Clicks, Approving(c)', Approving(d)', on'[c] = on'[d],
                 on'[c] \notin raced'
          PROVE  c = d
      <3>1. CASE c \notin Z /\ d \notin Z
        BY <2>1, <3>1 DEF OutboxInv, Settled, OneApproves, Approving, Runners
      <3> QED
        BY <2>1, <3>1
    <2> QED
      BY <2>1 DEF OneApproves
  <1>5. OneHandles'
    <2>1. ASSUME NEW r \in Runners, NEW q \in Runners, Handling(r)', Handling(q)',
                 Current(r)' = Current(q)', Current(r)' \notin raced'
          PROVE  r = q
      <3>1. CASE r \notin Z /\ q \notin Z
        BY <2>1, <3>1 DEF OutboxInv, Settled, OneHandles, Handling, Current
      <3> QED
        BY <2>1, <3>1
    <2> QED
      BY <2>1 DEF OneHandles
  <1>6. ASSUME NEW p \in Unraced'
        PROVE  Promise!Step(p)
    <2>1. CASE p \in Ops \ O
      <3>1. op'[p] = op[p] /\ stamp'[p] = stamp[p] /\ left'[p] = left[p]
        BY <2>1
      <3>2. Phase(p)' = Phase(p)
        BY <3>1 DEF Phase, CardState, DraftState
      <3>3. Promise!Kept(p)
        BY <2>1, <3>1 DEF Promise!Kept
      <3> QED
        BY <2>1, <3>2, <3>3 DEF Promise!Step
    <2> QED
      BY <1>6, <2>1 DEF Unraced
  <1> QED
    BY <1>1, <1>2, <1>3, <1>4, <1>5, <1>6 DEF Settled, StepsUnlessRaced

\* A person, or the program for one, writes the row of o.
LEMMA RowStep ==
    ASSUME OutboxInv, raced \subseteq raced', NEW o \in Ops,
           \A p \in Ops \ {o} : op'[p] = op[p] /\ stamp'[p] = stamp[p],
           UNCHANGED <<pc, list, answer, on, left>>,
           o \notin raced' => /\ RowOK(o)' /\ Promise!Step(o)
                              /\ \A c \in Clicks : on[c] = o => ClickOK(c)'
                              /\ op[o].state # "sending"
    PROVE  Settled' /\ StepsUnlessRaced
  <1>1. ASSUME NEW c \in Clicks, on[c] = o
        PROVE  ClickOK(c)'
    BY <1>1 DEF OutboxInv, Settled, ClickOK
  <1>2. ASSUME NEW r \in Runners, Handling(r), Current(r) = o
        PROVE  HandlerOK(r)'
    BY <1>2 DEF OutboxInv, Settled, HandlerOK, Handling, Current
  <1> QED
    BY <1>1, <1>2, StepFrame, {o} \in SUBSET Ops, {} \in SUBSET Runners

\* A Send takes a step of its own about its draft.
LEMMA ClickStep ==
    ASSUME OutboxInv, raced \subseteq raced', NEW c \in Clicks, NEW o \in Ops,
           on[c] = o \/ pc[c] = "idle",
           \A p \in Ops \ {o} : op'[p] = op[p] /\ stamp'[p] = stamp[p],
           \A q \in Runners \ {c} : pc'[q] = pc[q],
           \A d \in Clicks \ {c} : on'[d] = on[d],
           UNCHANGED <<list, answer, left>>,
           ~Handling(c)', pc'[c] # "idle" => on'[c] = o,
           o \notin raced' =>
              /\ RowOK(o)' /\ Promise!Step(o) /\ ClickOK(c)'
              /\ \A d \in Clicks \ {c} : on[d] = o => ClickOK(d)'
              /\ Approving(c)' => \A d \in Clicks \ {c} : ~(Approving(d) /\ on[d] = o)
              /\ (op'[o] = op[o] /\ stamp'[o] = stamp[o]) \/ op[o].state # "sending"
    PROVE  Settled' /\ StepsUnlessRaced
  <1>1. c \in Runners /\ {c} \in SUBSET Runners /\ {o} \in SUBSET Ops
    BY DEF Runners
  <1>2. HandlerOK(c)'
    BY DEF HandlerOK
  <1>3. ASSUME NEW r \in Runners, Handling(r), Current(r) = o, r # c
        PROVE  HandlerOK(r)'
    <2>1. HandlerOK(r)
      BY DEF OutboxInv, Settled
    <2>2. CASE o \in raced'
      BY <1>3, <2>1, <2>2 DEF HandlerOK, Handling, Current
    <2>3. CASE o \notin raced'
      <3>1. op[o].state = "sending"
        BY <1>3, <2>1, <2>3 DEF HandlerOK
      <3> QED
        BY <1>3, <2>1, <2>3, <3>1 DEF HandlerOK, Handling, Current
    <2> QED
      BY <2>2, <2>3
  <1>4. ASSUME NEW d \in Clicks, Approving(c)', Approving(d)', on'[c] = on'[d], on'[c] \notin raced'
        PROVE  c = d
    BY <1>4 DEF Approving, Runners
  <1>5. ClickOK(c)'
    BY DEF ClickOK
  <1>6. ASSUME NEW d \in Clicks \ {c}, on[d] = o
        PROVE  ClickOK(d)'
    <2>1. CASE o \in raced'
      BY <1>6, <2>1 DEF OutboxInv, Settled, ClickOK, Runners
    <2> QED
      BY <1>6, <2>1
  <1> QED
    BY <1>1, <1>2, <1>3, <1>4, <1>5, <1>6, StepFrame

\* A pass r takes a step at the row of o.
LEMMA PassStep ==
    ASSUME OutboxInv, raced \subseteq raced', NEW r \in Runners, NEW o \in Ops,
           \A p \in Ops \ {o} : op'[p] = op[p] /\ stamp'[p] = stamp[p] /\ left'[p] = left[p],
           \A q \in Runners \ {r} : pc'[q] = pc[q] /\ list'[q] = list[q] /\ answer'[q] = answer[q],
           on' = on, pc[r] # "idle", pc'[r] \notin {"idle", "yes", "stamp"},
           Handling(r)' => list'[r] # <<>> /\ Current(r)' = o,
           o \notin raced' =>
              /\ RowOK(o)' /\ Promise!Step(o) /\ HandlerOK(r)'
              /\ \A c \in Clicks : on[c] = o => ClickOK(c)'
              /\ \A q \in Runners \ {r} : ~(Handling(q) /\ Current(q) = o)
    PROVE  Settled' /\ StepsUnlessRaced
  <1>1. {r} \in SUBSET Runners /\ {o} \in SUBSET Ops
    OBVIOUS
  <1>2. ASSUME r \in Clicks, on[r] # o
        PROVE  ClickOK(r)'
    BY <1>2 DEF OutboxInv, Settled, ClickOK
  <1>3. ASSUME NEW q \in Runners, Handling(r)', Handling(q)', Current(r)' = Current(q)',
               Current(r)' \notin raced'
        PROVE  r = q
    BY <1>3 DEF Handling, Current
  <1>4. ~Approving(r)'
    BY DEF Approving
  <1>5. ASSUME NEW c \in Clicks, on[c] = o
        PROVE  ClickOK(c)'
    <2>1. CASE o \in raced'
      BY <1>5, <2>1 DEF OutboxInv, Settled, ClickOK, Runners
    <2> QED
      BY <1>5, <2>1
  <1>6. HandlerOK(r)'
    BY DEF HandlerOK, Handling
  <1>7. ASSUME NEW q \in Runners \ {r}, Handling(q), Current(q) = o
        PROVE  HandlerOK(q)'
    <2>1. o \in raced' /\ HandlerOK(q)
      BY <1>7 DEF OutboxInv, Settled
    <2> QED
      BY <1>7, <2>1 DEF HandlerOK, Handling, Current
  <1> QED
    BY <1>1, <1>2, <1>3, <1>4, <1>5, <1>6, <1>7, StepFrame

\* Where a row is come to without a race, nobody is between its two writes.
LEMMA Touched == ASSUME NEW o, NEW race, Touch(o, race), o \notin raced' PROVE ~Halfway(o) /\ ~race
  BY DEF Touch

\* In each step, the rest is about an unraced row: what it does to a row that is
\* noted need not be looked at.
LEMMA SettledNext == OutboxInv /\ [Next]_vars => Settled' /\ StepsUnlessRaced
  <1> SUFFICES ASSUME OutboxInv, [Next]_vars PROVE Settled' /\ StepsUnlessRaced
    OBVIOUS
  <1>0. /\ TypeOK /\ Settled /\ raced \subseteq raced'
        /\ \A o \in Ops : o \notin raced => RowOK(o)
        /\ \A c \in Clicks : ClickOK(c)
        /\ \A r \in Runners : HandlerOK(r)
    BY RacedGrows, SettledHaveRows DEF OutboxInv, Settled, Unraced
  <1>1. ASSUME NEW o \in Ops, NEW born \in {"held", "queued"}, Queue(o, born)
        PROVE  Settled' /\ StepsUnlessRaced
    <2>1. /\ op[o].state = "none" /\ op'[o].state \in {"held", "pending"}
          /\ op'[o].error = op[o].error /\ op'[o].words = op[o].words
          /\ \A p \in Ops \ {o} : op'[p] = op[p] /\ stamp'[p] = stamp[p]
          /\ stamp' = stamp /\ UNCHANGED <<pc, list, answer, on, left>>
      BY <1>0, <1>1 DEF Queue, TypeOK, Rows, runners
    <2> SUFFICES ASSUME o \notin raced, o \notin raced' PROVE Settled' /\ StepsUnlessRaced
      BY <1>0, <2>1, RowStep
    <2>2. RowOK(o)'
      BY <1>0, <2>1 DEF RowOK
    <2>3. \A c \in Clicks : on[c] = o => ClickOK(c)'
      BY <1>0, <2>1 DEF ClickOK, RowOK
    <2>4. Phase(o) = "none" /\ Phase(o)' \in {"waiting", "released"}
      BY <1>0, <2>1 DEF Phase, CardState, DraftState, RowOK
    <2>5. Promise!Step(o)
      BY <2>1, <2>4 DEF Promise!Step, Promise!Kept, Promise!Goes, Promise!Write
    <2> QED
      BY <1>0, <2>1, <2>2, <2>3, <2>5, RowStep
  <1>2. ASSUME NEW o \in Ops, Record(o)
        PROVE  Settled' /\ StepsUnlessRaced
    <2>1. /\ op[o].state # "none" /\ stamp[o] = "none" /\ stamp'[o] \in {"held", "queued"}
          /\ \A p \in Ops \ {o} : op'[p] = op[p] /\ stamp'[p] = stamp[p]
          /\ op' = op /\ UNCHANGED <<pc, list, answer, on, left>>
      BY <1>0, <1>2 DEF Record, TypeOK, Rows, runners
    <2> SUFFICES ASSUME o \notin raced, o \notin raced' PROVE Settled' /\ StepsUnlessRaced
      BY <1>0, <2>1, RowStep
    <2>2. RowOK(o)' /\ op[o].state # "sending"
      BY <1>0, <2>1 DEF RowOK
    <2>3. \A c \in Clicks : on[c] = o => ClickOK(c)'
      BY <1>0, <2>1 DEF ClickOK
    <2>4. Promise!Step(o)
      BY <1>0, <2>1
      DEF Promise!Step, Promise!Kept, Promise!Goes, Phase, CardState, DraftState
    <2> QED
      BY <1>0, <2>1, <2>2, <2>3, <2>4, RowStep
  <1>3. ASSUME NEW o \in Ops, Revise(o)
        PROVE  Settled' /\ StepsUnlessRaced
    <2>1. /\ op[o].state = "held" /\ op'[o].state = op[o].state /\ op'[o].error = op[o].error
          /\ \A p \in Ops \ {o} : op'[p] = op[p] /\ stamp'[p] = stamp[p]
          /\ stamp[o] # "ambiguous" /\ stamp' = stamp /\ UNCHANGED <<pc, list, answer, on, left>>
      BY <1>0, <1>3 DEF Revise, DraftState, TypeOK, Rows, runners
    <2> SUFFICES ASSUME o \notin raced, o \notin raced' PROVE Settled' /\ StepsUnlessRaced
      BY <1>0, <2>1, RowStep
    <2>2. RowOK(o)'
      BY <1>0, <2>1 DEF RowOK
    <2>3. \A c \in Clicks : on[c] = o => ClickOK(c)'
      BY <1>0, <2>1 DEF ClickOK
    <2>4. Phase(o) = "waiting" /\ Phase(o)' = "waiting" /\ op'[o].words \in 0..MaxEdits
      BY <2>1, <1>0, TypeNext, SettledHaveRows DEF Phase, CardState, DraftState, TypeOK, Rows, OutboxInv
    <2>5. Promise!Step(o)
      BY <2>1, <2>4 DEF Promise!Step, Promise!Kept, Promise!Goes, Promise!Edit
    <2> QED
      BY <1>0, <2>1, <2>2, <2>3, <2>5, RowStep
  <1>4. ASSUME NEW o \in Ops, Discard(o)
        PROVE  Settled' /\ StepsUnlessRaced
    <2>1. /\ op[o].state = "held" /\ op'[o].state = "discarded"
          /\ op'[o].error = op[o].error /\ op'[o].words = op[o].words
          /\ \A p \in Ops \ {o} : op'[p] = op[p] /\ stamp'[p] = stamp[p]
          /\ stamp' = Stamped(o, "discarded") /\ UNCHANGED <<pc, list, answer, on, left>>
      BY <1>0, <1>4 DEF Discard, Stamped, TypeOK, Rows, runners
    <2> SUFFICES ASSUME o \notin raced, o \notin raced' PROVE Settled' /\ StepsUnlessRaced
      BY <1>0, <2>1, RowStep
    <2>2. /\ stamp[o] # "none" /\ stamp'[o] = "discarded"
          /\ \A c \in Clicks : on[c] = o => pc[c] \notin {"yes", "stamp"}
      BY <1>0, <1>4, <2>1, Touched DEF Discard, Stamped, Halfway, TypeOK
    <2>3. RowOK(o)'
      BY <1>0, <2>1, <2>2 DEF RowOK
    <2>4. \A c \in Clicks : on[c] = o => ClickOK(c)'
      BY <1>0, <2>1, <2>2 DEF ClickOK
    <2>5. Phase(o) \in {"waiting", "unknown"} /\ Phase(o)' = "over"
      BY <2>1, <2>2 DEF Phase, CardState, DraftState
    <2>6. Promise!Step(o)
      BY <2>1, <2>5 DEF Promise!Step, Promise!Kept, Promise!Goes, Promise!Drop
    <2> QED
      BY <1>0, <2>1, <2>3, <2>4, <2>6, RowStep
  <1>5. ASSUME NEW o \in Ops, Cancel(o)
        PROVE  Settled' /\ StepsUnlessRaced
    <2>1. /\ op[o].state = "pending" /\ op'[o].state = "cancelled"
          /\ op'[o].error = op[o].error /\ op'[o].words = op[o].words
          /\ \A p \in Ops \ {o} : op'[p] = op[p] /\ stamp'[p] = stamp[p]
          /\ stamp' = stamp /\ UNCHANGED <<pc, list, answer, on, left>>
      BY <1>0, <1>5 DEF Cancel, TypeOK, Rows, runners
    <2> SUFFICES ASSUME o \notin raced, o \notin raced' PROVE Settled' /\ StepsUnlessRaced
      BY <1>0, <2>1, RowStep
    <2>2. /\ stamp[o] # "none"
          /\ \A c \in Clicks : on[c] = o => pc[c] \notin {"yes", "stamp"}
      BY <1>5, <2>1, Touched DEF Cancel, Halfway
    <2>3. RowOK(o)'
      BY <1>0, <2>1, <2>2 DEF RowOK
    <2>4. \A c \in Clicks : on[c] = o => ClickOK(c)'
      BY <1>0, <2>1, <2>2 DEF ClickOK
    <2>5. Phase(o) = "released" /\ Phase(o)' = "over" /\ left[o] = <<>>
      BY <1>0, <2>1 DEF Phase, CardState, DraftState, RowOK
    <2>6. Promise!Step(o)
      BY <2>1, <2>5 DEF Promise!Step, Promise!Kept, Promise!Goes, Promise!Drop, Promise!NotLeft
    <2> QED
      BY <1>0, <2>1, <2>3, <2>4, <2>6, RowStep
  <1>6. ASSUME NEW c \in Clicks, NEW o \in Ops, Press(c, o)
        PROVE  Settled' /\ StepsUnlessRaced
    <2>1. /\ pc[c] = "idle" /\ pc'[c] = "check" /\ on'[c] = o
          /\ \A q \in Runners \ {c} : pc'[q] = pc[q]
          /\ \A d \in Clicks \ {c} : on'[d] = on[d]
          /\ \A p \in Ops \ {o} : op'[p] = op[p] /\ stamp'[p] = stamp[p]
          /\ stamp' = stamp /\ UNCHANGED <<list, answer, left>>
          /\ CardState(o) \in {"held", "failed"}
      BY <1>0, <1>6 DEF Press, Move, TypeOK, Rows, Runners
    <2> SUFFICES ASSUME o \notin raced, o \notin raced' PROVE Settled' /\ StepsUnlessRaced
      BY <1>0, <2>1, ClickStep DEF Handling
    <2>2. /\ op[o].state \in {"held", "failed"} /\ op'[o].state = "held"
          /\ op'[o].error = op[o].error /\ op'[o].words = op[o].words
          /\ left[o] = <<>> /\ op[o].error # "interrupted" /\ stamp[o] \notin {"none", "ambiguous"}
          /\ \A d \in Clicks : on[d] = o => pc[d] \notin {"yes", "stamp"}
      <3>1. /\ op[o].state \in {"held", "failed"} /\ stamp[o] \notin {"none", "ambiguous"}
            /\ op[o].error # "interrupted"
            /\ \A d \in Clicks : on[d] = o => pc[d] \notin {"yes", "stamp"}
        BY <1>0, <1>6, <2>1, Touched DEF Press, CardState, DraftState, Halfway, RowOK
      <3>2. op'[o].state = "held" /\ op'[o].error = op[o].error /\ op'[o].words = op[o].words
        BY <1>0, <1>6, <3>1 DEF Press, Move, TypeOK, Rows
      <3> QED
        BY <1>0, <3>1, <3>2 DEF RowOK
    <2>3. RowOK(o)'
      BY <1>0, <2>1, <2>2 DEF RowOK
    <2>4. ClickOK(c)' /\ ~Handling(c)' /\ ~Approving(c)'
      BY <2>1, <2>2 DEF ClickOK, Handling, Approving
    <2>5. \A d \in Clicks \ {c} : on[d] = o => ClickOK(d)'
      BY <1>0, <2>1, <2>2 DEF ClickOK, Runners
    <2>6. Phase(o)' = Phase(o)
      BY <2>1, <2>2 DEF Phase, CardState, DraftState
    <2>7. Promise!Step(o)
      BY <2>1, <2>2, <2>6 DEF Promise!Step, Promise!Kept, Promise!Goes, Promise!Edit
    <2> QED
      BY <1>0, <2>1, <2>2, <2>3, <2>4, <2>5, <2>7, ClickStep
  <1>7. ASSUME NEW c \in Clicks, Check(c)
        PROVE  Settled' /\ StepsUnlessRaced
    <2> PICK o \in Ops : o = on[c]
      BY <1>0, <1>7 DEF Check, ClickOK
    <2>1. /\ pc[c] = "check"
          /\ \A q \in Runners \ {c} : pc'[q] = pc[q]
          /\ \A d \in Clicks \ {c} : on'[d] = on[d]
          /\ op' = op /\ stamp' = stamp /\ UNCHANGED <<list, answer, left>>
          /\ \/ MayBeSent(o) /\ pc'[c] = "yes" /\ on'[c] = o
             \/ pc'[c] = "idle"
      BY <1>0, <1>7 DEF Check, Goto, TypeOK, ClickOK, rows, Runners
    <2> SUFFICES ASSUME o \notin raced, o \notin raced' PROVE Settled' /\ StepsUnlessRaced
      BY <1>0, <2>1, ClickStep DEF Handling
    <2>2. RowOK(o)'
      BY <1>0, <2>1 DEF RowOK
    <2>3. ClickOK(c)' /\ ~Handling(c)'
      BY <1>0, <2>1 DEF ClickOK, Handling, MayBeSent, DraftState
    <2>4. \A d \in Clicks : on[d] = o => ~Approving(d)
      BY <1>7, Touched DEF Check, Halfway, Approving
    <2>5. \A d \in Clicks \ {c} : on[d] = o => ClickOK(d)'
      BY <1>0, <2>1 DEF ClickOK, Runners
    <2>6. Promise!Step(o)
      BY <2>1
      DEF Promise!Step, Promise!Kept, Promise!Goes, Phase, CardState, DraftState
    <2> QED
      BY <1>0, <2>1, <2>2, <2>3, <2>4, <2>5, <2>6, ClickStep
  <1>8. ASSUME NEW c \in Clicks, Approve(c)
        PROVE  Settled' /\ StepsUnlessRaced
    <2> PICK o \in Ops : o = on[c]
      BY <1>0, <1>8 DEF Approve, ClickOK
    <2>1. /\ pc[c] = "yes" /\ pc'[c] \in {"stamp", "idle"} /\ (pc'[c] = "stamp" => on'[c] = o)
          /\ \A q \in Runners \ {c} : pc'[q] = pc[q]
          /\ \A d \in Clicks \ {c} : on'[d] = on[d]
          /\ \A p \in Ops \ {o} : op'[p] = op[p] /\ stamp'[p] = stamp[p]
          /\ UNCHANGED <<list, answer, left>>
      BY <1>0, <1>8 DEF Approve, Goto, TypeOK, Runners
    <2> SUFFICES ASSUME o \notin raced, o \notin raced' PROVE Settled' /\ StepsUnlessRaced
      BY <1>0, <2>1, ClickStep DEF Handling
    <2>2. /\ pc[c] = "yes" /\ op[o].state = "held" /\ stamp[o] \notin {"none", "ambiguous"}
      BY <1>0, <1>8 DEF Approve, ClickOK
    <2>3. /\ op'[o].state = "pending" /\ op'[o].error = "none" /\ op'[o].words = op[o].words
          /\ \A p \in Ops \ {o} : op'[p] = op[p] /\ stamp'[p] = stamp[p]
          /\ pc'[c] = "stamp" /\ on'[c] = o
          /\ \A q \in Runners \ {c} : pc'[q] = pc[q]
          /\ \A d \in Clicks \ {c} : on'[d] = on[d]
          /\ stamp' = stamp /\ UNCHANGED <<list, answer, left>>
      <3>1. /\ op' = [op EXCEPT ![o].state = "pending", ![o].attempts = 0, ![o].error = "none"]
            /\ Goto(c, "stamp") /\ UNCHANGED <<stamp, list, answer, left>>
        BY <1>8, <2>2 DEF Approve
      <3>2. /\ op'[o].state = "pending" /\ op'[o].error = "none" /\ op'[o].words = op[o].words
            /\ \A p \in Ops \ {o} : op'[p] = op[p]
        BY <1>0, <3>1 DEF TypeOK, Rows
      <3> QED
        BY <1>0, <3>1, <3>2 DEF Goto, TypeOK, Runners
    <2>4. RowOK(o)'
      BY <1>0, <2>2, <2>3 DEF RowOK
    <2>5. ClickOK(c)' /\ ~Handling(c)'
      BY <2>2, <2>3 DEF ClickOK, Handling
    <2>6. \A d \in Clicks \ {c} : on[d] = o => ~Approving(d)
      BY <1>0, <2>2 DEF Settled, OneApproves, Approving
    <2>7. \A d \in Clicks \ {c} : on[d] = o => ClickOK(d)'
      BY <1>0, <2>2, <2>3, <2>6 DEF ClickOK, Runners, Approving
    <2>8. Phase(o) = "waiting" /\ Phase(o)' = "released" /\ left[o] = <<>>
      BY <1>0, <2>2, <2>3 DEF Phase, CardState, DraftState, RowOK
    <2>9. Promise!Step(o)
      BY <2>3, <2>8 DEF Promise!Step, Promise!Kept, Promise!Goes, Promise!Approve, Promise!NotLeft
    <2> QED
      BY <1>0, <2>2, <2>3, <2>4, <2>5, <2>6, <2>7, <2>9, ClickStep
  <1>9. ASSUME NEW c \in Clicks, Stamp(c)
        PROVE  Settled' /\ StepsUnlessRaced
    <2> PICK o \in Ops : o = on[c]
      BY <1>0, <1>9 DEF Stamp, ClickOK
    <2>1. /\ op' = op /\ stamp' = Stamped(o, "queued")
          /\ \A p \in Ops \ {o} : op'[p] = op[p] /\ stamp'[p] = stamp[p]
          /\ pc[c] = "stamp" /\ pc'[c] = "pass" /\ on'[c] = o
          /\ \A q \in Runners \ {c} : pc'[q] = pc[q]
          /\ \A d \in Clicks \ {c} : on'[d] = on[d]
          /\ UNCHANGED <<list, answer, left>>
      BY <1>0, <1>9 DEF Stamp, Stamped, Goto, TypeOK, Runners
    <2> SUFFICES ASSUME o \notin raced, o \notin raced' PROVE Settled' /\ StepsUnlessRaced
      BY <1>0, <2>1, ClickStep DEF Handling
    <2>2. /\ op[o].state = "pending" /\ stamp[o] # "none" /\ op[o].error # "interrupted"
          /\ stamp'[o] = "queued"
      BY <1>0, <2>1 DEF ClickOK, Stamped, TypeOK
    <2>3. RowOK(o)'
      BY <1>0, <2>1, <2>2 DEF RowOK
    <2>4. ClickOK(c)' /\ ~Handling(c)' /\ ~Approving(c)'
      BY <2>1, <2>2 DEF ClickOK, Handling, Approving
    <2>5. \A d \in Clicks \ {c} : on[d] = o => ClickOK(d)'
      BY <1>0, <2>1, <2>2 DEF ClickOK, Runners
    <2>6. Promise!Step(o)
      BY <2>1, <2>2
      DEF Promise!Step, Promise!Kept, Promise!Goes, Phase, CardState, DraftState
    <2> QED
      BY <1>0, <2>1, <2>2, <2>3, <2>4, <2>5, <2>6, ClickStep
  <1>10. ASSUME NEW c \in Clicks, Read(c)
        PROVE  Settled' /\ StepsUnlessRaced
    <2> PICK o \in Ops : o = on[c]
      BY <1>0, <1>10 DEF Read, ClickOK
    <2>1. /\ pc[c] = "read" /\ pc'[c] \in {"return", "idle"} /\ (pc'[c] = "return" => on'[c] = o)
          /\ \A q \in Runners \ {c} : pc'[q] = pc[q]
          /\ \A d \in Clicks \ {c} : on'[d] = on[d]
          /\ op' = op /\ stamp' = stamp /\ UNCHANGED <<list, answer, left>>
      BY <1>0, <1>10 DEF Read, Goto, TypeOK, rows, Runners
    <2> SUFFICES ASSUME o \notin raced, o \notin raced' PROVE Settled' /\ StepsUnlessRaced
      BY <1>0, <2>1, ClickStep DEF Handling
    <2>2. RowOK(o)'
      BY <1>0, <2>1 DEF RowOK
    <2>3. ClickOK(c)' /\ ~Handling(c)' /\ ~Approving(c)'
      BY <1>0, <2>1 DEF ClickOK, Handling, Approving
    <2>4. \A d \in Clicks \ {c} : on[d] = o => ClickOK(d)'
      BY <1>0, <2>1 DEF ClickOK, Runners
    <2>5. Promise!Step(o)
      BY <2>1
      DEF Promise!Step, Promise!Kept, Promise!Goes, Phase, CardState, DraftState
    <2> QED
      BY <1>0, <2>1, <2>2, <2>3, <2>4, <2>5, ClickStep
  <1>11. ASSUME NEW c \in Clicks, Return(c)
        PROVE  Settled' /\ StepsUnlessRaced
    <2> PICK o \in Ops : o = on[c]
      BY <1>0, <1>11 DEF Return, ClickOK
    <2>1. /\ pc[c] = "return" /\ pc'[c] = "idle"
          /\ \A q \in Runners \ {c} : pc'[q] = pc[q]
          /\ \A d \in Clicks \ {c} : on'[d] = on[d]
          /\ \A p \in Ops \ {o} : op'[p] = op[p] /\ stamp'[p] = stamp[p]
          /\ op' = Move(o, "failed", "held")
          /\ stamp' = stamp /\ UNCHANGED <<list, answer, left>>
      BY <1>0, <1>11 DEF Return, Move, Goto, TypeOK, Runners
    <2> SUFFICES ASSUME o \notin raced, o \notin raced' PROVE Settled' /\ StepsUnlessRaced
      BY <1>0, <2>1, ClickStep DEF Handling
    <2>2. /\ op'[o].error = op[o].error /\ op[o].error # "interrupted" /\ op'[o].words = op[o].words
          /\ \/ op'[o] = op[o]
             \/ op[o].state = "failed" /\ op'[o].state = "held"
      BY <1>0, <2>1 DEF Move, TypeOK, Rows, ClickOK
    <2>3. RowOK(o)'
      BY <1>0, <2>1, <2>2 DEF RowOK
    <2>4. ClickOK(c)' /\ ~Handling(c)' /\ ~Approving(c)'
      BY <2>1, <2>2 DEF ClickOK, Handling, Approving
    <2>5. \A d \in Clicks \ {c} : on[d] = o => ClickOK(d)'
      BY <1>0, <1>11, <2>1, <2>2, Touched DEF ClickOK, Runners, Return, Halfway
    <2>6. Phase(o)' = Phase(o)
      BY <2>1, <2>2 DEF Phase, CardState, DraftState
    <2>7. Promise!Step(o)
      BY <2>1, <2>2, <2>6 DEF Promise!Step, Promise!Kept, Promise!Goes, Promise!Edit
    <2> QED
      BY <1>0, <2>1, <2>2, <2>3, <2>4, <2>5, <2>7, ClickStep
  <1>12. ASSUME NEW r \in Runners, StartPass(r)
        PROVE  Settled' /\ StepsUnlessRaced
    <2>1. PICK S \in SUBSET {o \in Ops : Stranded(o)} :
              /\ op' = [o \in Ops |-> IF o \in S THEN Reclaimed(o) ELSE op[o]]
              /\ raced' = raced \cup {o \in S : InHand(o)}
      BY <1>12 DEF StartPass
    <2>2. /\ pc[r] \in {"idle", "pass"} /\ (r \in Clicks => pc[r] = "pass") /\ pc'[r] = "drain"
          /\ on' = on
          /\ \A q \in Runners \ {r} : pc'[q] = pc[q] /\ list'[q] = list[q] /\ answer'[q] = answer[q]
          /\ stamp' = stamp /\ UNCHANGED <<answer, left>>
      BY <1>0, <1>12 DEF StartPass, Goto, TypeOK, Runners
    <2>3. \A o \in S : /\ op[o].state = "sending" /\ op'[o].state = "failed"
                      /\ op'[o].error = "interrupted" /\ op'[o].words = op[o].words
      <3>1. \A o \in S : op[o].state = "sending" /\ op[o] \in Rows /\ op'[o] = Reclaimed(o)
        BY <1>0, <2>1 DEF Stranded, TypeOK
      <3> QED
        BY <3>1 DEF Reclaimed, Rows
    <2>4. \A p \in Ops \ S : op'[p] = op[p]
      BY <1>0, <2>1
    <2>5. /\ \A q \in Runners : Handling(q) /\ Current(q) \in S => Current(q) \in raced'
          /\ \A c \in Clicks : on[c] \in S /\ pc[c] # "idle" => on[c] \in raced'
      BY <2>1 DEF InHand, Current
    <2>6. \A o \in S \ raced' : RowOK(o)'
      BY <1>0, <2>1, <2>2, <2>3 DEF RowOK
    <2>7. HandlerOK(r)' /\ ~Handling(r)' /\ ~Approving(r)'
      BY <2>2 DEF HandlerOK, Handling, Approving
    <2>8. \A c \in Clicks : c = r \/ on[c] \in S => ClickOK(c)'
      BY <1>0, <2>2, <2>4, <2>5 DEF ClickOK, Runners
    <2>9. \A o \in S \ raced' : Promise!Step(o)
      <3> SUFFICES ASSUME NEW o \in S \ raced' PROVE Promise!Step(o)
        OBVIOUS
      <3>1. Phase(o) = "released" /\ Phase(o)' = "unknown"
        BY <2>3 DEF Phase, CardState, DraftState
      <3> QED
        BY <2>2, <2>3, <3>1 DEF Promise!Step, Promise!Kept, Promise!Goes, Promise!Lose
    <2>10. ASSUME NEW q \in Runners, Handling(q), Current(q) \in S, q # r
           PROVE  HandlerOK(q)'
      BY <1>0, <2>2, <2>5, <2>10 DEF HandlerOK, Handling, Current
    <2> QED
      BY <1>0, <2>1, <2>2, <2>4, <2>6, <2>7, <2>8, <2>9, <2>10, StepFrame, S \in SUBSET Ops,
         {r} \in SUBSET Runners
  <1>13. ASSUME NEW r \in Runners, Cap(r)
        PROVE  Settled' /\ StepsUnlessRaced
    <2>1. list[r] # <<>> /\ Current(r) \in Ops /\ pc[r] = "drain"
      BY <1>0, <1>13, FirstRow DEF Cap, AtRow, Listing, Current
    <2> PICK o \in Ops : o = Current(r)
      BY <2>1
    <2>2. /\ op' = [op EXCEPT ![o].state = "failed", ![o].error = "error"]
          /\ \A q \in Runners \ {r} : list'[q] = list[q]
          /\ UNCHANGED <<stamp, pc, answer, on, left>>
      BY <1>0, <1>13 DEF Cap, AtRow, Current, TypeOK
    <2>3. /\ op'[o].state = "failed" /\ op'[o].error = "error" /\ op'[o].words = op[o].words
          /\ \A p \in Ops \ {o} : op'[p] = op[p]
      BY <1>0, <2>2 DEF TypeOK, Rows
    <2> SUFFICES ASSUME o \notin raced, o \notin raced' PROVE Settled' /\ StepsUnlessRaced
      BY <1>0, <2>1, <2>2, <2>3, PassStep DEF Handling
    <2>4. op[o].state = "pending" /\ ~Halfway(o)
      BY <1>13, Touched DEF Cap, Current
    <2>5. RowOK(o)'
      BY <1>0, <2>2, <2>3, <2>4 DEF RowOK, Halfway
    <2>6. HandlerOK(r)' /\ ~Handling(r)'
      BY <2>1, <2>2 DEF HandlerOK, Handling
    <2>7. \A c \in Clicks : on[c] = o => ClickOK(c)'
      BY <1>0, <2>2, <2>3, <2>4 DEF ClickOK, Halfway
    <2>8. \A q \in Runners \ {r} : ~(Handling(q) /\ Current(q) = o)
      BY <1>0, <2>4 DEF HandlerOK
    <2>9. Phase(o) = "released" /\ Phase(o)' \in {"waiting", "unknown"} /\ left[o] = <<>>
      BY <1>0, <2>2, <2>3, <2>4 DEF Phase, CardState, DraftState, RowOK
    <2>10. Promise!Step(o)
      BY <2>2, <2>3, <2>9
      DEF Promise!Step, Promise!Kept, Promise!Goes, Promise!Return, Promise!Lose,
          Promise!NotLeft
    <2> QED
      BY <1>0, <2>1, <2>2, <2>3, <2>5, <2>6, <2>7, <2>8, <2>10, PassStep
  <1>14. ASSUME NEW r \in Runners, Claim(r)
        PROVE  Settled' /\ StepsUnlessRaced
    <2>1. list[r] # <<>> /\ list[r][1] \in Listing /\ Current(r) \in Ops /\ pc[r] = "drain"
      BY <1>0, <1>14, FirstRow DEF Claim, AtRow, Listing, Current
    <2> PICK o \in Ops : o = Current(r)
      BY <2>1
    <2>2. /\ op[o].state = "pending" /\ Goto(r, "send")
          /\ op' = [op EXCEPT ![o].state = "sending",
                              ![o].attempts = IF @ < MaxAttempts THEN @ + 1 ELSE @]
          /\ list' = [list EXCEPT ![r][1] = Row(r)]
          /\ UNCHANGED <<stamp, answer, left>>
      BY <1>14 DEF Claim, AtRow, Claimable, Current
    <2>3. /\ op'[o].state = "sending" /\ op'[o].error = op[o].error /\ op'[o].words = op[o].words
          /\ \A p \in Ops \ {o} : op'[p] = op[p]
      BY <1>0, <2>2 DEF TypeOK, Rows
    <2>4. Row(r).id = o
      BY <1>0, <2>1 DEF Row, Current, Listing
    <2>5. /\ list'[r] # <<>> /\ list'[r][1] = Row(r)
          /\ \A q \in Runners \ {r} : list'[q] = list[q]
      <3>1. list[r] \in Seq(Listing) /\ Len(list[r]) \in Nat \ {0}
        BY <1>0, <2>1 DEF TypeOK
      <3>2. list'[r] = [list[r] EXCEPT ![1] = Row(r)] /\ \A q \in Runners \ {r} : list'[q] = list[q]
        BY <1>0, <2>2 DEF TypeOK
      <3>3. 1 \in DOMAIN list[r]
        BY <3>1
      <3>4. list'[r][1] = Row(r) /\ DOMAIN list'[r] = DOMAIN list[r]
        BY <3>2, <3>3
      <3> QED
        BY <3>2, <3>3, <3>4
    <2>6. /\ on' = on /\ pc'[r] = "send"
          /\ \A q \in Runners \ {r} : pc'[q] = pc[q]
      BY <1>0, <2>2 DEF Goto, TypeOK
    <2> SUFFICES ASSUME o \notin raced, o \notin raced' PROVE Settled' /\ StepsUnlessRaced
      <3>1. list'[r] # <<>> /\ Current(r)' = o
        BY <2>4, <2>5 DEF Current
      <3>2. UNCHANGED <<stamp, answer, left>>
        BY <2>2
      <3> QED
        BY <1>0, <2>1, <2>3, <2>5, <2>6, <3>1, <3>2, PassStep
    <2>7. ~Halfway(o) /\ Row(r).words = op[o].words
      BY <1>14, Touched DEF Claim, Current
    <2>8. RowOK(o)'
      BY <1>0, <2>2, <2>3, <2>7 DEF RowOK, Halfway
    <2>9. HandlerOK(r)' /\ Current(r)' = o
      <3>1. left[o] = <<>>
        BY <1>0, <2>2 DEF RowOK
      <3>2. Current(r)' = o /\ list'[r][1].words = op'[o].words /\ left' = left
        BY <2>2, <2>3, <2>4, <2>5, <2>7 DEF Current
      <3> QED
        BY <2>3, <2>5, <2>6, <3>1, <3>2 DEF HandlerOK
    <2>10. \A c \in Clicks : on[c] = o => ClickOK(c)'
      BY <1>0, <2>1, <2>2, <2>3, <2>6, <2>7 DEF ClickOK, Halfway, Runners
    <2>11. \A q \in Runners \ {r} : ~(Handling(q) /\ Current(q) = o)
      BY <1>0, <2>2 DEF HandlerOK
    <2>12. Promise!Step(o)
      BY <2>2, <2>3
      DEF Promise!Step, Promise!Kept, Promise!Goes, Phase, CardState, DraftState
    <2>13. UNCHANGED <<stamp, answer, left>> /\ list'[r] # <<>>
      BY <2>2, <2>5, <2>9
    <2> QED
      BY <1>0, <2>1, <2>3, <2>5, <2>6, <2>8, <2>9, <2>10, <2>11, <2>12, <2>13, PassStep
  <1>15. ASSUME NEW r \in Runners, Skip(r)
        PROVE  Settled' /\ StepsUnlessRaced
    <2>1. /\ pc[r] = "drain" /\ UNCHANGED <<op, stamp, pc, answer, on, left>>
          /\ \A q \in Runners \ {r} : list'[q] = list[q]
      BY <1>0, <1>15 DEF Skip, AtRow, rows, TypeOK
    <2>2. HandlerOK(r)' /\ ~Handling(r)' /\ ~Approving(r)' /\ (r \in Clicks => ClickOK(r)')
      BY <1>0, <2>1 DEF HandlerOK, Handling, Approving, ClickOK
    <2> QED
      BY <1>0, <2>1, <2>2, StepFrame, {} \in SUBSET Ops, {r} \in SUBSET Runners
  <1>16. ASSUME NEW r \in Runners, Transmit(r)
        PROVE  Settled' /\ StepsUnlessRaced
    <2>1. pc[r] = "send" /\ Handling(r)
      BY <1>16 DEF Transmit, Handling
    <2> PICK o \in Ops : o = Current(r)
      BY <1>0, <2>1 DEF HandlerOK
    <2>2. PICK a \in Answers, gone \in BOOLEAN :
              /\ a = "ok" => gone
              /\ a \in {"retry", "refused"} => ~gone
              /\ answer' = [answer EXCEPT ![r] = a]
              /\ left' = IF gone THEN [left EXCEPT ![o] = Append(@, list[r][1].words)] ELSE left
              /\ Goto(r, IF a = "retry" THEN "mark" ELSE "ledger")
              /\ UNCHANGED <<op, stamp, list>>
      BY <1>16 DEF Transmit, Current, rows
    <2>3. /\ on' = on /\ pc'[r] = (IF a = "retry" THEN "mark" ELSE "ledger")
          /\ \A q \in Runners \ {r} : pc'[q] = pc[q] /\ answer'[q] = answer[q]
          /\ answer'[r] = a
      BY <1>0, <2>2 DEF Goto, TypeOK
    <2>4. /\ \A p \in Ops \ {o} : left'[p] = left[p]
          /\ list[r] # <<>> /\ Current(r)' = o
      BY <1>0, <2>1, <2>2 DEF HandlerOK, Current, TypeOK
    <2> SUFFICES ASSUME o \notin raced, o \notin raced' PROVE Settled' /\ StepsUnlessRaced
      BY <1>0, <2>1, <2>2, <2>3, <2>4, PassStep
    <2>5. /\ op[o].state = "sending" /\ left[o] = <<>> /\ list[r] # <<>>
          /\ stamp[o] # "none" /\ list[r][1].words = op[o].words
      BY <1>0, <2>1 DEF HandlerOK, RowOK
    <2>6. /\ left'[o] = IF gone THEN <<list[r][1].words>> ELSE <<>>
          /\ \A p \in Ops \ {o} : left'[p] = left[p]
      BY <1>0, <2>2, <2>5 DEF TypeOK
    <2>7. left'[o] # <<>> <=> gone
      BY <2>6
    <2>8. RowOK(o)'
      BY <1>0, <2>2, <2>5, <2>6, <2>7 DEF RowOK
    <2>9. HandlerOK(r)' /\ Current(r)' = o
      BY <2>2, <2>3, <2>5, <2>7 DEF HandlerOK, Current, Handling, Answers
    <2>10. \A c \in Clicks : on[c] = o => ClickOK(c)'
      BY <1>0, <2>1, <2>2, <2>3, <2>5 DEF ClickOK, Runners
    <2>11. \A q \in Runners \ {r} : ~(Handling(q) /\ Current(q) = o)
      BY <1>0, <2>1 DEF Settled, OneHandles
    <2>12. Phase(o) = "released" /\ Phase(o)' = Phase(o)
      BY <2>2, <2>5 DEF Phase, CardState, DraftState
    <2>13. Promise!Step(o)
      BY <2>2, <2>5, <2>6, <2>12
      DEF Promise!Step, Promise!Kept, Promise!Goes, Promise!Leave, Promise!NotLeft
    <2> QED
      BY <1>0, <2>1, <2>2, <2>3, <2>5, <2>6, <2>8, <2>9, <2>10, <2>11, <2>13, PassStep
  <1>17. ASSUME NEW r \in Runners, Ledger(r)
        PROVE  Settled' /\ StepsUnlessRaced
    <2>1. pc[r] = "ledger" /\ Handling(r)
      BY <1>17 DEF Ledger, Handling
    <2> PICK o \in Ops : o = Current(r)
      BY <1>0, <2>1 DEF HandlerOK
    <2>2. /\ stamp' = Stamped(o, Word(r)) /\ Goto(r, "mark")
          /\ UNCHANGED <<op, list, answer, left>>
      BY <1>17 DEF Ledger, Current
    <2>3. /\ \A p \in Ops \ {o} : stamp'[p] = stamp[p]
          /\ on' = on /\ pc'[r] = "mark" /\ \A q \in Runners \ {r} : pc'[q] = pc[q]
          /\ list[r] # <<>> /\ Current(r)' = o
      BY <1>0, <2>1, <2>2 DEF HandlerOK, Current, Stamped, Goto, TypeOK
    <2> SUFFICES ASSUME o \notin raced, o \notin raced' PROVE Settled' /\ StepsUnlessRaced
      BY <1>0, <2>1, <2>2, <2>3, PassStep
    <2>4. op[o].state = "sending" /\ stamp[o] # "none" /\ list[r] # <<>> /\ answer[r] # "retry"
      BY <1>0, <2>1 DEF HandlerOK, RowOK
    <2>5. /\ stamp'[o] = Word(r) /\ \A p \in Ops \ {o} : stamp'[p] = stamp[p]
          /\ on' = on /\ pc'[r] = "mark" /\ \A q \in Runners \ {r} : pc'[q] = pc[q]
      BY <1>0, <2>2, <2>4 DEF Stamped, Goto, TypeOK
    <2>6. Word(r) # "none" /\ (answer[r] = "unsure" => Word(r) = "ambiguous")
      BY DEF Word
    <2>7. RowOK(o)'
      BY <1>0, <2>2, <2>4, <2>5, <2>6 DEF RowOK
    <2>8. HandlerOK(r)' /\ Current(r)' = o
      BY <1>0, <2>1, <2>2, <2>4, <2>5, <2>6 DEF HandlerOK, Current, Handling
    <2>9. \A c \in Clicks : on[c] = o => ClickOK(c)'
      BY <1>0, <2>1, <2>2, <2>4, <2>5, <2>6 DEF ClickOK, Runners
    <2>10. \A q \in Runners \ {r} : ~(Handling(q) /\ Current(q) = o)
      BY <1>0, <2>1 DEF Settled, OneHandles
    <2>11. Promise!Step(o)
      BY <2>2, <2>4, <2>5
      DEF Promise!Step, Promise!Kept, Promise!Goes, Phase, CardState, DraftState
    <2> QED
      BY <1>0, <2>1, <2>2, <2>4, <2>5, <2>7, <2>8, <2>9, <2>10, <2>11, PassStep
  <1>18. ASSUME NEW r \in Runners, Mark(r)
        PROVE  Settled' /\ StepsUnlessRaced
    <2>1. pc[r] = "mark" /\ Handling(r)
      BY <1>18 DEF Mark, Handling
    <2> PICK o \in Ops : o = Current(r)
      BY <1>0, <2>1 DEF HandlerOK
    <2>2. /\ \A p \in Ops \ {o} : op'[p] = op[p]
          /\ on' = on /\ pc'[r] = "drain"
          /\ \A q \in Runners \ {r} : pc'[q] = pc[q] /\ list'[q] = list[q] /\ answer'[q] = answer[q]
          /\ UNCHANGED <<stamp, left>>
      BY <1>0, <1>18 DEF Mark, Move, Goto, TypeOK, Current
    <2> SUFFICES ASSUME o \notin raced, o \notin raced' PROVE Settled' /\ StepsUnlessRaced
      BY <1>0, <2>1, <2>2, PassStep DEF Handling
    <2>3. op[o].state = "sending" /\ stamp[o] # "none" /\ answer[r] \in Answers /\ op[o] \in Rows
      <3>1. op[o].state = "sending"
        BY <1>0, <2>1 DEF HandlerOK
      <3>2. stamp[o] # "none"
        BY <1>0, <3>1 DEF RowOK
      <3> QED
        BY <1>0, <3>1, <3>2 DEF TypeOK
    <2>4. /\ \A p \in Ops \ {o} : op'[p] = op[p]
          /\ op'[o].words = op[o].words
          /\ \/ answer[r] = "ok" /\ op'[o].state = "done" /\ op'[o].error = op[o].error
             \/ answer[r] = "retry" /\ op'[o].state = "pending" /\ op'[o].error = "error"
             \/ answer[r] \in {"refused", "unsure"} /\ op'[o].state = "failed" /\ op'[o].error = "error"
      BY <1>0, <1>18, <2>3 DEF Mark, Move, Current, TypeOK, Rows, Answers
    <2>5. /\ on' = on /\ pc'[r] = "drain" /\ ~Halfway(o)
          /\ \A q \in Runners \ {r} : pc'[q] = pc[q] /\ list'[q] = list[q] /\ answer'[q] = answer[q]
          /\ UNCHANGED <<stamp, left>>
      BY <1>18, <2>2, Touched DEF Mark, Current
    <2>6. RowOK(o)'
      BY <1>0, <2>1, <2>3, <2>4, <2>5 DEF RowOK, HandlerOK
    <2>7. HandlerOK(r)' /\ ~Handling(r)'
      BY <2>5 DEF HandlerOK, Handling
    <2>8. \A c \in Clicks : on[c] = o => ClickOK(c)'
      BY <1>0, <2>1, <2>3, <2>4, <2>5 DEF ClickOK, Halfway, Runners
    <2>9. \A q \in Runners \ {r} : ~(Handling(q) /\ Current(q) = o)
      BY <1>0, <2>1 DEF Settled, OneHandles
    <2>10. /\ Phase(o) = "released"
           /\ \/ answer[r] = "ok" /\ Phase(o)' = "over" /\ left[o] # <<>>
              \/ answer[r] = "retry" /\ Phase(o)' = "released"
              \/ answer[r] = "refused" /\ Phase(o)' \in {"waiting", "unknown"} /\ left[o] = <<>>
              \/ answer[r] = "unsure" /\ Phase(o)' = "unknown"
      BY <1>0, <2>1, <2>3, <2>4, <2>5 DEF Phase, CardState, DraftState, HandlerOK
    <2>11. Promise!Step(o)
      BY <2>4, <2>5, <2>10
      DEF Promise!Step, Promise!Kept, Promise!Goes, Promise!Return, Promise!Lose,
          Promise!Finish, Promise!NotLeft
    <2> QED
      BY <1>0, <2>1, <2>4, <2>5, <2>6, <2>7, <2>8, <2>9, <2>11, PassStep
  <1>19. ASSUME NEW r \in Runners, EndPass(r)
        PROVE  Settled' /\ StepsUnlessRaced
    <2>1. /\ pc[r] = "drain" /\ pc'[r] \in {"read", "idle"} /\ UNCHANGED <<op, stamp, list, answer, left>>
          /\ r \in Clicks => pc'[r] = "read"
          /\ on' = on /\ \A q \in Runners \ {r} : pc'[q] = pc[q]
      BY <1>0, <1>19 DEF EndPass, Goto, rows, TypeOK
    <2>2. HandlerOK(r)' /\ ~Handling(r)' /\ ~Approving(r)' /\ (r \in Clicks => ClickOK(r)')
      BY <1>0, <2>1 DEF HandlerOK, Handling, Approving, ClickOK
    <2> QED
      BY <1>0, <2>1, <2>2, StepFrame, {} \in SUBSET Ops, {r} \in SUBSET Runners
  <1>20. ASSUME NEW r \in Runners, Crash(r)
        PROVE  Settled' /\ StepsUnlessRaced
    <2>1. /\ pc'[r] = "idle" /\ UNCHANGED <<op, stamp, left>>
          /\ \A c \in Clicks \ {r} : on'[c] = on[c]
          /\ \A q \in Runners \ {r} : pc'[q] = pc[q] /\ list'[q] = list[q] /\ answer'[q] = answer[q]
      BY <1>0, <1>20 DEF Crash, Goto, rows, TypeOK
    <2>2. HandlerOK(r)' /\ ~Handling(r)' /\ ~Approving(r)' /\ ClickOK(r)'
      BY <2>1 DEF HandlerOK, Handling, Approving, ClickOK
    <2> QED
      BY <1>0, <2>1, <2>2, StepFrame, {} \in SUBSET Ops, {r} \in SUBSET Runners
  <1>21. CASE UNCHANGED vars
    <2>1. UNCHANGED <<op, stamp, pc, list, answer, on, left>>
      BY <1>21 DEF vars, rows, runners
    <2> QED
      BY <1>0, <2>1, StepFrame, {} \in SUBSET Ops, {} \in SUBSET Runners
  <1> QED
    BY <1>1, <1>2, <1>3, <1>4, <1>5, <1>6, <1>7, <1>8, <1>9, <1>10, <1>11, <1>12, <1>13, <1>14,
       <1>15, <1>16, <1>17, <1>18, <1>19, <1>20, <1>21 DEF Next, Pass, Send

LEMMA OutboxInit == Init => OutboxInv
  <1> SUFFICES ASSUME Init PROVE OutboxInv
    OBVIOUS
  <1> USE MailOutboxAssumption DEF MailOutboxAssumption
  <1>1. TypeOK
    <2>1. op \in [Ops -> Rows]
      BY DEF Init, Rows, States
    <2>2. 0 \in 0..MaxPresses /\ 0 \in 0..MaxCrashes
      OBVIOUS
    <2> QED
      BY <2>1, <2>2 DEF Init, TypeOK, Stamps, Places, Answers
  <1>2. /\ \A o \in Ops : op[o].state = "none" /\ op[o].error = "none" /\ stamp[o] = "none" /\ left[o] = <<>>
        /\ \A r \in Runners : pc[r] = "idle"
    BY DEF Init
  <1>3. \A o \in Ops : RowOK(o)
    BY <1>2 DEF RowOK
  <1>4. \A r \in Runners : ~Handling(r) /\ HandlerOK(r)
    BY <1>2 DEF Handling, HandlerOK
  <1>5. \A c \in Clicks : ~Approving(c) /\ ClickOK(c)
    BY <1>2 DEF Approving, ClickOK, Runners
  <1> QED
    BY <1>1, <1>3, <1>4, <1>5 DEF OutboxInv, Settled, OneApproves, OneHandles, Unraced

LEMMA OutboxNext == OutboxInv /\ [Next]_vars => OutboxInv'
  BY TypeNext, SettledHaveRows, SettledNext DEF OutboxInv

-----------------------------------------------------------------------------
(* What follows *)

\* The outbox keeps to its types also without the assumptions: when rows change
\* under a pass, leases are outlived and pairs of writes are torn, no attempt is
\* counted beyond the bound and no pass marks what it has not listed.
THEOREM TypeCorrect == Spec => []TypeOK
  <1>1. Init => TypeOK /\ StepsHaveRows
    <2> SUFFICES ASSUME Init PROVE TypeOK /\ StepsHaveRows
      OBVIOUS
    <2>1. TypeOK
      BY OutboxInit DEF OutboxInv
    <2>2. StepsHaveRows
      BY DEF Init, StepsHaveRows, Handling, Runners
    <2> QED
      BY <2>1, <2>2
  <1>2. TypeOK /\ StepsHaveRows /\ [Next]_vars => TypeOK' /\ StepsHaveRows'
    BY TypeNext, RowsStay
  <1> QED
    BY <1>1, <1>2, PTL DEF Spec

\* The outbox keeps to its types and to its invariant.
THEOREM OutboxInvariant == Spec => []OutboxInv
  <1>1. Init => OutboxInv
    BY OutboxInit
  <1>2. OutboxInv /\ [Next]_vars => OutboxInv'
    BY OutboxNext
  <1> QED
    BY <1>1, <1>2, PTL DEF Spec

\* A message is on the wire at most once, unless a stale pass acted on its row,
\* its claim was reaped while in hand, or someone came between its two writes:
\* with any number of Sends and sweeps in flight, whatever the transport leaves
\* unconfirmed, wherever a process dies, and whatever races others met with.
THEOREM NeverTwice == Spec => []OnceUnlessRaced
  <1>1. OutboxInv => OnceUnlessRaced
    <2> SUFFICES ASSUME OutboxInv, NEW o \in Unraced PROVE Len(left[o]) <= 1
      BY DEF OnceUnlessRaced
    <2>1. RowOK(o) /\ left[o] \in Seq(0..MaxEdits)
      BY DEF OutboxInv, Settled, TypeOK, Unraced
    <2>2. CASE left[o] = <<>>
      BY <2>2
    <2>3. CASE left[o] # <<>>
      <3>1. Len(left[o]) = 1
        BY <2>1, <2>3 DEF RowOK
      <3> QED
        BY <3>1
    <2> QED
      BY <2>2, <2>3
  <1> QED
    BY <1>1, OutboxInvariant, PTL

\* The card of an unraced message offers Send only if the message has not left,
\* says sent only if it has, and discarded, before an attempt, only if it has not.
THEOREM CardIsTrue == Spec => []TruthUnlessRaced
  <1>1. OutboxInv => TruthUnlessRaced
    <2> SUFFICES ASSUME OutboxInv, NEW o \in Unraced PROVE CardTrue(o)
      BY DEF TruthUnlessRaced
    <2>1. RowOK(o) /\ op[o].state \in States
      BY DEF OutboxInv, Settled, TypeOK, Rows, Unraced
    <2> QED
      BY <2>1 DEF CardTrue, RowOK, CardState, DraftState, States
  <1> QED
    BY <1>1, OutboxInvariant, PTL

\* The outbox treats every unraced message as Delivery says: it goes out at most
\* once, only after a yes, in the words it had when the yes was given; what waits
\* for the person has not left, and what may have left can only be dropped.
THEOREM ImplementsDelivery == Spec => KeptUnlessRaced
  <1>1. Init => Promise!Init
    <2> SUFFICES ASSUME Init PROVE Promise!Init
      OBVIOUS
    <2>1. \A o \in Ops : Phase(o) = "none" /\ op[o].words = 0
      BY DEF Init, Phase
    <2>2. 0 \in 0..MaxEdits
      BY MailOutboxAssumption DEF MailOutboxAssumption
    <2> QED
      BY <2>1, <2>2 DEF Init, Promise!Init
  <1>2. OutboxInv /\ [Next]_vars => StepsUnlessRaced
    BY SettledNext
  <1> QED
    BY <1>1, <1>2, OutboxInvariant, PTL DEF Spec, KeptUnlessRaced
=============================================================================
