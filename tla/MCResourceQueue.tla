-------------------------- MODULE MCResourceQueue --------------------------
(* ResourceQueue for TLC: three threads of two people, two of which may give   *)
(* up.                                                                         *)
EXTENDS ResourceQueue, TLC

CONSTANTS t1, t2, t3, ann, bob

MCThreads  == {t1, t2, t3}
MCPersons  == {ann, bob}
MCPersonOf == (t1 :> ann) @@ (t2 :> ann) @@ (t3 :> bob)
MCLeavers  == {t2, t3}
=============================================================================
