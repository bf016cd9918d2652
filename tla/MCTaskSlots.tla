---------------------------- MODULE MCTaskSlots ----------------------------
(* TaskSlots for TLC: three launches, of which the last has a process of its  *)
(* own and the second may be held up before it registers.                     *)
EXTENDS TaskSlots

MCInline == {1, 2}
MCNone   == {}
MCSecond == {2}
=============================================================================
