----------------------------- MODULE Selection -----------------------------
(***************************************************************************)
(* What the task queue holds, and which queued task goes next              *)
(* (_select_locked in vaf/core/task_queue.py): the class with the largest  *)
(* budget left, in it the lowest priority, in that band the fair order's   *)
(* next.  The same routine serves the real pop and the calculation of      *)
(* places, so these operators are stated for any bands and budgets, and    *)
(* module PlaceReports instantiates them with copies.                      *)
(***************************************************************************)
EXTENDS Naturals, FiniteSets

CONSTANTS Tasks, Persons, Sessions,
          PersonOf,     \* a task's fair key
          SessionOf,    \* a task's chat
          PriorityOf, ClassOf,
          Weight,       \* queue_weight_*, by class
          Legacy        \* queue_policy is not weighted_fair

VARIABLES orders,       \* _orders, by band; the band the code deletes is an empty one
          chatLine,     \* _queued_by_session
          budget        \* _scheduler_budget

RR == INSTANCE RoundRobin WITH Items <- Tasks, Keys <- Persons, KeyOf <- PersonOf

Classes == {"interactive", "automation", "background"}

ASSUME SelectionAssumption ==
    /\ IsFiniteSet(Tasks) /\ IsFiniteSet(Persons)
    /\ PersonOf \in [Tasks -> Persons]
    /\ SessionOf \in [Tasks -> Sessions]
    /\ PriorityOf \in [Tasks -> Nat]
    /\ ClassOf \in [Tasks -> Classes]
    /\ Weight \in [Classes -> Nat \ {0}]
    /\ Legacy \in BOOLEAN

Band(t) == <<IF Legacy THEN "all" ELSE ClassOf[t], PriorityOf[t]>>
Bands   == {Band(t) : t \in Tasks}

Queued  == {t \in Tasks : t \in RR!Queued(orders[Band(t)])}

-----------------------------------------------------------------------------
(* Which of the queued tasks of E goes next. *)

Waiting(E, b)   == E \cap RR!Queued(orders[b])
\* Classes with a task of E, and whether class c goes before class d.
Available(E)    == {c \in Classes : \E b \in Bands : b[1] = c /\ Waiting(E, b) # {}}
ClassName(c)    == CASE c = "automation" -> 1 [] c = "background" -> 2 [] OTHER -> 3
GoesFirst(share, c, d) ==
    share[c] > share[d] \/ (share[c] = share[d] /\ ClassName(c) <= ClassName(d))

Spendable(E) == {c \in Available(E) : budget[c] > 0}

\* Mutant: the budgets are renewed as soon as one available class has spent its own.
FreshTooSoon(E) == \E c \in Available(E) : budget[c] = 0

\* The class whose turn it is: the largest budget left; once every available
\* class has spent its own, all budgets are fresh.
FreshBudget(E) == Spendable(E) = {}
Share(E)       == IF FreshBudget(E) THEN Weight ELSE budget
ClassIsNext(E, c) ==
    LET candidates == IF FreshBudget(E) THEN Available(E) ELSE Spendable(E)
    IN  c \in candidates /\ \A d \in candidates : GoesFirst(Share(E), c, d)

\* Mutant: bands sorted the wrong way round.
BandIsLast(E, b) ==
    /\ Waiting(E, b) # {}
    /\ Legacy \/ ClassIsNext(E, b[1])
    /\ \A c \in Bands : c[1] = b[1] /\ Waiting(E, c) # {} => b[2] >= c[2]

\* The lowest priority with a task of E, in the lane whose turn it is.
BandIsNext(E, b) ==
    /\ Waiting(E, b) # {}
    /\ Legacy \/ ClassIsNext(E, b[1])
    /\ \A c \in Bands : c[1] = b[1] /\ Waiting(E, c) # {} => b[2] <= c[2]

\* Mutant: the newest task of the band instead of the fair order's next.
TaskIsNewest(E, t) ==
    LET line == orders[Band(t)].line
    IN  /\ BandIsNext(E, Band(t))
        /\ t \in Waiting(E, Band(t))
        /\ \A u \in Waiting(E, Band(t)) : line[u] <= line[t]

TaskIsNext(E, t) ==
    BandIsNext(E, Band(t)) /\ RR!IsNext(orders[Band(t)], E, t)

Spend(E, t) == IF Legacy THEN budget ELSE [Share(E) EXCEPT ![ClassOf[t]] = @ - 1]
=============================================================================
