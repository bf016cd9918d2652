--------------------------- MODULE MCPlaceReports ---------------------------
(* PlaceReports for TLC: two turns of ann in one chat, one of bob in another *)
(* and one that nobody watches.                                              *)
EXTENDS PlaceReports, TLC

CONSTANTS t1, t2, t3, t4, c1, c2, c3, ann, bob

MCTasks    == {t1, t2, t3, t4}
MCSessions == {c1, c2, c3}
MCPersons  == {ann, bob}
MCSessionOf == (t1 :> c1) @@ (t2 :> c1) @@ (t3 :> c2) @@ (t4 :> c3)
MCPersonOf  == (t1 :> ann) @@ (t2 :> ann) @@ (t3 :> bob) @@ (t4 :> bob)
MCWatched   == {t1, t2, t3}
MCPriority  == [t \in Tasks |-> 10]
\* t4 is an automation's task.
MCClassOf   == [t \in Tasks |-> IF t = t4 THEN "automation" ELSE "interactive"]
MCWeight    == [interactive |-> 2, automation |-> 1, background |-> 1]
\* A call's delegated turn t1 goes into the chat without on_wait.
MCTwoTasks  == {t1, t2}
MCOneChat   == {c1}
MCAnn       == {ann}
MCTwoSessionOf == [t \in {t1, t2} |-> c1]
MCTwoPersonOf  == [t \in {t1, t2} |-> ann]
MCOnlySecond   == {t2}
=============================================================================
