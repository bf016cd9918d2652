--------------------------- MODULE MCSubagentTasks ---------------------------
(* SubagentTasks for TLC: a fan-out of two tasks in one chat, and a task of    *)
(* another chat.                                                                *)
EXTENDS SubagentTasks, TLC

CONSTANTS t1, t2, t3, c1, c2, f1

MCTasks  == {t1, t2, t3}
MCPair   == {t1, t2}
MCChats  == {c1, c2}
MCOneChat == {c1}
MCNone   == {}
MCFirst  == {t1}
MCChatOf == (t1 :> c1) @@ (t2 :> c1) @@ (t3 :> c2)
MCPairChatOf == (t1 :> c1) @@ (t2 :> c1)
MCFanOf  == (t1 :> f1) @@ (t2 :> f1) @@ (t3 :> NoFan)
MCPairFanOf == (t1 :> f1) @@ (t2 :> f1)
MCTwoChatOf == (t1 :> c1) @@ (t2 :> c2)
MCNoFanOf   == (t1 :> NoFan) @@ (t2 :> NoFan)
=============================================================================
