---------------------------- MODULE MCTaskQueue ----------------------------
(* TaskQueue for TLC: a chat of ann with two turns and one of bob with one.   *)
EXTENDS TaskQueue, TLC

CONSTANTS w1, w2, t1, t2, t3, c1, c2, ann, bob

MCWorkers  == {w1, w2}
MCOne      == {w1}
MCSecond   == {w2}
MCNone     == {}
MCTasks    == {t1, t2, t3}
MCTwoTasks == {t1, t3}
MCSessions == {c1, c2}
MCPersons  == {ann, bob}
\* t1 and t2 are turns of one chat.
MCSessionOf  == (t1 :> c1) @@ (t2 :> c1) @@ (t3 :> c2)
MCPersonOf   == (t1 :> ann) @@ (t2 :> ann) @@ (t3 :> bob)
MCSamePriority == [t \in Tasks |-> 10]
MCInteractive  == [t \in Tasks |-> "interactive"]
MCWeight     == [interactive |-> 5, automation |-> 3, background |-> 1]
\* bob's task is the command RELOAD_CONFIG, of priority 1.
MCCommandPriority == (t1 :> 10) @@ (t2 :> 10) @@ (t3 :> 1)
MCCommandClass    == (t1 :> "interactive") @@ (t2 :> "interactive") @@ (t3 :> "background")
MCTwoSessionOf == (t1 :> c1) @@ (t3 :> c2)
MCTwoPersonOf  == (t1 :> ann) @@ (t3 :> bob)
MCTwoClass     == (t1 :> "interactive") @@ (t3 :> "automation")
MCSmallWeight  == [interactive |-> 3, automation |-> 2, background |-> 1]
=============================================================================
