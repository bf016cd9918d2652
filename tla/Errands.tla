------------------------------ MODULE Errands ------------------------------
(***************************************************************************)
(* What the sub-agent queue promises: a task that was handed out gets one  *)
(* answer, and its chat is told that answer once.                          *)
(***************************************************************************)
CONSTANTS Tasks

VARIABLE state      \* per task "new", "asked", "withdrawn", "answered" or "told"

Init == state = [t \in Tasks |-> "new"]

\* The tasks of S go from one state to the next.
Advance(S, from, to) ==
    /\ \A t \in S : state[t] = from
    /\ state' = [t \in Tasks |-> IF t \in S THEN to ELSE state[t]]

Ask(t)      == Advance({t}, "new", "asked")
Withdraw(t) == Advance({t}, "asked", "withdrawn")
Tell(t)     == Advance({t}, "answered", "told")

\* Several sub-agents may be declared dead at once.
Answer(S) == Advance(S, "asked", "answered")

Next ==
    \/ \E t \in Tasks : Ask(t) \/ Withdraw(t) \/ Tell(t)
    \/ \E S \in SUBSET Tasks : Answer(S)

Spec == Init /\ [][Next]_state
=============================================================================
