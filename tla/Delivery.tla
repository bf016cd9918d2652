------------------------------ MODULE Delivery ------------------------------
(***************************************************************************)
(* What an outbox promises the person: a message leaves at most once, only *)
(* after a yes, in the words it had when the yes was given.  What waits    *)
(* for the person has not left; what may have left can only be dropped;    *)
(* what was dropped before it was released, or delivered, is over.         *)
(***************************************************************************)
EXTENDS Sequences

CONSTANTS Messages, Texts

VARIABLES phase,   \* per message "none", "waiting", "released", "unknown" or "over"
          text,    \* its words
          left     \* the copies on the wire, by their words

vars == <<phase, text, left>>

Init ==
    /\ phase = [m \in Messages |-> "none"]
    /\ text \in [Messages -> Texts]
    /\ left = [m \in Messages |-> <<>>]

Goes(m, from, to) == phase[m] \in from /\ phase'[m] \in to
Kept(m)           == text'[m] = text[m] /\ left'[m] = left[m]
NotLeft(m)        == left[m] = <<>>

Write(m)   == Goes(m, {"none"}, {"waiting", "released"}) /\ Kept(m)
Edit(m)    == /\ Goes(m, {"waiting"}, {"waiting"})
              /\ left'[m] = left[m] /\ text'[m] \in Texts
Approve(m) == Goes(m, {"waiting"}, {"released"}) /\ NotLeft(m) /\ Kept(m)
Leave(m)   == /\ \/ Goes(m, {"released"}, {"released"})
                 \/ Goes(m, {"unknown"}, {"unknown", "over"})
              /\ NotLeft(m)
              /\ left'[m] = <<text[m]>> /\ text'[m] = text[m]
Return(m)  == Goes(m, {"released"}, {"waiting"}) /\ NotLeft(m) /\ Kept(m)
Lose(m)    == Goes(m, {"released"}, {"unknown"}) /\ Kept(m)
Finish(m)  == Goes(m, {"released"}, {"over"}) /\ ~NotLeft(m) /\ Kept(m)
Drop(m)    == /\ \/ Goes(m, {"waiting", "unknown"}, {"over"})
                 \/ Goes(m, {"released"}, {"over"}) /\ NotLeft(m)
              /\ Kept(m)

Step(m) ==
    \/ Write(m) \/ Edit(m) \/ Approve(m) \/ Leave(m) \/ Return(m)
    \/ Lose(m) \/ Finish(m) \/ Drop(m)
    \/ phase'[m] = phase[m] /\ Kept(m)

\* Several messages may be lost at once.
Next == \A m \in Messages : Step(m)

Spec == Init /\ [][Next]_vars
=============================================================================
