--------------------------- MODULE MCAutomations ---------------------------
(* Small instances of Automations: one task, a one-time or a daily one. *)
EXTENDS Automations

CONSTANTS task, r1, r2, x1

MCTask    == {task}
MCThreads == {r1, r2}
MCThread  == {r1}
MCTerm    == {x1}
MCNone    == {}
=============================================================================
