---------------------------- MODULE MCHeldCalls ----------------------------
(* HeldCalls for TLC: two drafts to one person, two requests.                *)
EXTENDS HeldCalls

CONSTANTS k1, k2, anna, bob

MCDrafts   == {1, 2}
MCTo       == [d \in MCDrafts |-> anna]
MCClicks   == {k1, k2}
MCOneClick == {k1}
=============================================================================
