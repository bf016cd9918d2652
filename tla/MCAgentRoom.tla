---------------------------- MODULE MCAgentRoom ----------------------------
(* AgentRoom for TLC: two members that write and one that is polled.          *)
EXTENDS AgentRoom, TLC

CONSTANTS w1, w2, r1, r2

MCMembers == 3
MCWriters == {w1, w2}
MCReaders == {r1, r2}
MCReader  == {r1}
MCPeerOf  == (w1 :> 1) @@ (w2 :> 2) @@ (r1 :> 3) @@ (r2 :> 1)
\* Two processes of one person.
MCSamePeer == (w1 :> 1) @@ (w2 :> 1) @@ (r1 :> 2)
MCOneReader == (w1 :> 1) @@ (w2 :> 2) @@ (r1 :> 3)
MCWays    == (r1 :> {"wake"}) @@ (r2 :> {"tool", "wait", "view"})
\* The agent's turn shows one frame, and so does the other's view.
MCLimit   == (r1 :> 1) @@ (r2 :> 1)
\* A limit that is never met.
MCAmple   == r1 :> 9
\* One frame, for an instance with one reader.
MCOne     == r1 :> 1
MCWake    == r1 :> {"wake"}
MCWait    == r1 :> {"wait"}
MCView    == r1 :> {"view"}
MCClosers == {w1}
MCNone    == {}
MCFrames  == <<1, 1, 0>>
\* For two processes of one person.
MCTwoFrames == <<2, 0, 0>>
=============================================================================
