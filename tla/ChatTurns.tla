----------------------------- MODULE ChatTurns -----------------------------
(***************************************************************************)
(* What the task queue promises its chats, whatever the workers do: a turn *)
(* that was submitted begins at most once or is withdrawn, and in one chat *)
(* one thing runs at a time, a turn or the summary of a sub-agent's        *)
(* result.  Module TaskQueue is checked and proved to implement this.      *)
(***************************************************************************)
CONSTANTS Tasks, Sessions, SessionOf,
          Nobody,      \* nothing runs in a chat
          Summary      \* a summary turn runs in it

VARIABLES waiting,     \* submitted turns that have not begun
          running      \* what runs in each chat

vars == <<waiting, running>>

Init ==
    /\ waiting = {}
    /\ running = [s \in Sessions |-> Nobody]

Submit(t) ==
    /\ t \notin waiting
    /\ \A s \in Sessions : running[s] # t
    /\ waiting' = waiting \cup {t}
    /\ UNCHANGED running

Begin(t) ==
    /\ t \in waiting
    /\ running[SessionOf[t]] = Nobody
    /\ waiting' = waiting \ {t}
    /\ running' = [running EXCEPT ![SessionOf[t]] = t]

Summarise(s) ==
    /\ running[s] = Nobody
    /\ running' = [running EXCEPT ![s] = Summary]
    /\ UNCHANGED waiting

End(s) ==
    /\ running[s] # Nobody
    /\ running' = [running EXCEPT ![s] = Nobody]
    /\ UNCHANGED waiting

\* The turns of one chat that have not begun are taken back.
Withdraw(s) ==
    /\ waiting' = {t \in waiting : SessionOf[t] # s}
    /\ UNCHANGED running

Next ==
    \/ \E t \in Tasks : Submit(t) \/ Begin(t)
    \/ \E s \in Sessions : Summarise(s) \/ End(s) \/ Withdraw(s)

Spec == Init /\ [][Next]_vars
=============================================================================
