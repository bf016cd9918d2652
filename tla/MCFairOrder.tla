---------------------------- MODULE MCFairOrder ----------------------------
(* FairOrder for TLC: four items of three people, one of them with two. *)
EXTENDS FairOrder, TLC

CONSTANTS i1, i2, i3, i4, ann, bob, cy

MCItems == {i1, i2, i3, i4}
MCKeys  == {ann, bob, cy}
MCKeyOf == (i1 :> ann) @@ (i2 :> ann) @@ (i3 :> bob) @@ (i4 :> cy)
=============================================================================
