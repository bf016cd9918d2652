----------------------------- MODULE AgentRoom -----------------------------
(***************************************************************************)
(* One agent room on disk (vaf/core/a2a/store.py) and the surfaces that    *)
(* write into it and read from it (room.py, agent.py, cli/cmd/a2a.py,      *)
(* tools/room_tools.py, web_server.py).  Every member has a lane, a        *)
(* directory of numbered frames, and a cursor, the Lamport position up to  *)
(* which it has read.  There is no lock: a write is some reads of the      *)
(* lanes, one after the other, and then a file; a read goes through the    *)
(* lanes in the order of their names too.                                  *)
(*                                                                         *)
(* Every member has joined before and stays; a frame is for everybody and  *)
(* wakes an agent.                                                         *)
(***************************************************************************)
EXTENDS Naturals, FiniteSets

CONSTANTS Members,           \* how many there are; a member is its place by name
          Writers, Readers,  \* the processes that write and read as one of them
          PeerOf,            \* the member a process acts as
          Ways,              \* per reader: the ways it may read in
          Limit,             \* per reader: how many frames it shows at most
          Failing,           \* the readers whose wake turns may be refused or fail
          Closers,           \* the writers that may close the room
          MaxFrames, MaxCrashes                \* bounds: of each lane, in all

Peers == 1..Members
Procs == Writers \cup Readers

\* A runner's wake turn, the room_read tool, `vaf a2a read`, `vaf a2a wait` for
\* one message, and the browser's view of the room.
AllWays == {"wake", "tool", "read", "wait", "view"}

ASSUME AgentRoomAssumption ==
    /\ Members \in Nat /\ Writers \cap Readers = {}
    /\ PeerOf \in [Procs -> Peers] /\ Ways \in [Readers -> SUBSET AllWays]
    /\ Limit \in [Readers -> Nat \ {0}] /\ Failing \subseteq Readers
    /\ Closers \subseteq Writers /\ MaxFrames \in [Peers -> Nat] /\ MaxCrashes \in Nat

\* `met` is history: others wrote meanwhile, or somebody was reading.
Frame == [by : Writers, seq : Nat \ {0}, lamport : Nat \ {0}, ends : BOOLEAN, met : BOOLEAN]

VARIABLES log,             \* the frames in all lanes
          cursor,          \* per member: the position up to which it has read
          at, lane,        \* per process: where it is, the next lane it reads
          seq,             \* per writer: the number of its frame
          top,             \* per process: the highest position met so far
          way, since, got, \* per reader: how it reads, from where, what it has read
          crashes,
          told,            \* history: the frames put before a member
          lost,            \* history: those of wake turns that were refused or failed
          heard,           \* history: what its member had heard or said as a write began
          alone            \* history: no other write was under way during this one

writes  == <<seq, heard, alone>>
reads   == <<way, since, got>>
vars    == <<log, cursor, at, lane, top, writes, reads, crashes, told, lost>>

Sender(f) == PeerOf[f.by]
Lane(p)   == {f \in log : Sender(f) = p}
Closed    == \E f \in log : f.ends

Writing(w) == at[w] # "idle"
Reading(r) == at[r] \in {"scan", "rescan"}

\* The greatest member of a set of numbers, or zero.
Highest(S) == IF S = {} THEN 0 ELSE CHOOSE n \in S : \A m \in S : m <= n

TypeOK ==
    /\ log \subseteq Frame /\ cursor \in [Peers -> Nat]
    /\ at \in [Procs -> {"idle", "scan", "write", "rescan", "move"}]
    /\ lane \in [Procs -> 1..(Members + 1)]
    /\ seq \in [Writers -> Nat] /\ top \in [Procs -> Nat]
    /\ way \in [Readers -> AllWays] /\ since \in [Readers -> Nat]
    /\ got \in [Readers -> SUBSET Frame]
    /\ crashes \in 0..MaxCrashes
    /\ told \in [Peers -> SUBSET Frame] /\ lost \in [Peers -> SUBSET Frame]
    /\ heard \in [Writers -> SUBSET Frame]
    /\ alone \in [Writers -> BOOLEAN]

Init ==
    /\ log = {} /\ cursor = [p \in Peers |-> 0]
    /\ at = [x \in Procs |-> "idle"] /\ lane = [x \in Procs |-> 1]
    /\ seq = [w \in Writers |-> 0] /\ top = [x \in Procs |-> 0]
    /\ way = [r \in Readers |-> "read"] /\ since = [r \in Readers |-> 0]
    /\ got = [r \in Readers |-> {}]
    /\ crashes = 0
    /\ told = [p \in Peers |-> {}] /\ lost = [p \in Peers |-> {}]
    /\ heard = [w \in Writers |-> {}]
    /\ alone = [w \in Writers |-> FALSE]

-----------------------------------------------------------------------------
(* Writing *)

\* A member's process begins a frame, unless the room is closed: its number is
\* the one after the last in the lane.
Begin(w) ==
    /\ at[w] = "idle" /\ ~Closed
    /\ Cardinality(Lane(PeerOf[w])) < MaxFrames[PeerOf[w]]
    /\ seq' = [seq EXCEPT ![w] = Highest({f.seq : f \in Lane(PeerOf[w])}) + 1]
    /\ at' = [at EXCEPT ![w] = "scan"]
    /\ heard' = [heard EXCEPT ![w] = told[PeerOf[w]] \cup Lane(PeerOf[w])]
    /\ alone' = [v \in Writers |-> IF v = w THEN \A u \in Writers : ~Writing(u)
                                             ELSE FALSE]
    /\ UNCHANGED <<log, cursor, lane, top, reads, crashes, told, lost>>

\* The positions in the lane a process comes to.
Lamports(x) == {f.lamport : f \in Lane(lane[x])}

\* The next lane's positions, to place a frame behind them or to mark them read.
Survey(x) ==
    /\ at[x] = IF x \in Writers THEN "scan" ELSE "rescan"
    /\ lane[x] <= Members
    /\ top' = [top EXCEPT ![x] = Highest(Lamports(x) \cup {@})]
    /\ lane' = [lane EXCEPT ![x] = @ + 1]
    /\ UNCHANGED <<log, cursor, at, writes, reads, crashes, told, lost>>

\* The process is done, and keeps nothing.
Rest(x) ==
    /\ at' = [at EXCEPT ![x] = "idle"] /\ lane' = [lane EXCEPT ![x] = 1]
    /\ top' = [top EXCEPT ![x] = 0]

Forget(w) ==
    /\ seq' = [seq EXCEPT ![w] = 0] /\ heard' = [heard EXCEPT ![w] = {}]
    /\ alone' = [alone EXCEPT ![w] = FALSE]

\* The frame is refused when its number is taken, and is written otherwise.
Check(w) ==
    /\ at[w] = "scan" /\ lane[w] = Members + 1
    /\ IF \E f \in Lane(PeerOf[w]) : f.seq = seq[w]
       THEN Rest(w) /\ Forget(w)
       ELSE at' = [at EXCEPT ![w] = "write"] /\ UNCHANGED <<lane, top, writes>>
    /\ UNCHANGED <<log, cursor, reads, crashes, told, lost>>

\* Mutant: a frame's position is its number, a counter of the writer's own.
NewBySeq(w, ends) ==
    [by |-> w, seq |-> seq[w], lamport |-> seq[w], ends |-> ends,
     met |-> ~alone[w] \/ \E r \in Readers : Reading(r)]

New(w, ends) ==
    [by |-> w, seq |-> seq[w], lamport |-> top[w] + 1, ends |-> ends,
     met |-> ~alone[w] \/ \E r \in Readers : Reading(r)]

\* The frame's file takes its place, and that of any other of its number.
Write(w, ends) ==
    /\ at[w] = "write"
    /\ ends => w \in Closers
    /\ log' = {f \in log : Sender(f) # PeerOf[w] \/ f.seq # seq[w]} \cup {New(w, ends)}
    /\ Rest(w) /\ Forget(w)
    /\ UNCHANGED <<cursor, reads, crashes, told, lost>>

-----------------------------------------------------------------------------
(* Reading *)

\* A reader begins: from its member's cursor, or the whole room for a view.
Look(r, how) ==
    /\ at[r] = "idle" /\ how \in Ways[r]
    /\ how \in {"wake", "wait"} => ~Closed
    /\ at' = [at EXCEPT ![r] = "scan"]
    /\ way' = [way EXCEPT ![r] = how]
    /\ since' = [since EXCEPT ![r] = IF how = "view" THEN 0 ELSE cursor[PeerOf[r]]]
    /\ UNCHANGED <<log, cursor, lane, top, writes, got, crashes, told, lost>>

\* Mutant: the frame right behind the cursor counts as read.
UnreadOffByOne(r) == {f \in Lane(lane[r]) : f.lamport > since[r] + 1}

\* What stands behind the cursor in the lane it comes to.
Unread(r) == {f \in Lane(lane[r]) : f.lamport > since[r]}

\* It reads the next lane.
ReadLane(r) ==
    /\ at[r] = "scan" /\ lane[r] <= Members
    /\ got' = [got EXCEPT ![r] = @ \cup Unread(r)]
    /\ lane' = [lane EXCEPT ![r] = @ + 1]
    /\ UNCHANGED <<log, cursor, at, top, writes, way, since, crashes, told, lost>>

\* The order of every transcript.
Before(f, g) ==
    \/ f.lamport < g.lamport
    \/ f.lamport = g.lamport /\ Sender(f) < Sender(g)
    \/ f.lamport = g.lamport /\ Sender(f) = Sender(g) /\ f.seq < g.seq

Others(r) == {f \in got[r] : Sender(f) # PeerOf[r]}

\* What a reader comes by: a view shows the member its own frames too.
Rows(r) == IF way[r] = "view" THEN got[r] ELSE Others(r)

\* Mutant: a limit keeps the frames that came first.
OldestFirst(F, n) ==
    {C \in SUBSET F : /\ Cardinality(C) = n \/ (C = F /\ Cardinality(C) < n)
                      /\ \A f \in F \ C, g \in C : Before(g, f)}

\* The last n frames in their order, or all if there are no more: rows[-n:].
Newest(F, n) ==
    {C \in SUBSET F : /\ Cardinality(C) = n \/ (C = F /\ Cardinality(C) < n)
                      /\ \A f \in F \ C, g \in C : Before(f, g)}

\* The first frame, as it is printed before the cursor moves to it.
First(F) == {f \in F : \A g \in F \ {f} : Before(f, g)}

\* What is put before the member: the first that others wrote, all of it, or
\* the newest (a wake's prompt, the room_read tool, the browser's transcript).
Shown(r) ==
    CASE way[r] = "wait" -> {First(Others(r))}
      [] way[r] = "read" -> {Others(r)}
      [] OTHER           -> Newest(Rows(r), Limit[r])

Done(r) ==
    /\ Rest(r)
    /\ got' = [got EXCEPT ![r] = {}] /\ since' = [since EXCEPT ![r] = 0]
    /\ way' = [way EXCEPT ![r] = "read"]

\* With nothing new it is done; else the cursor will go to the last of the frames.
Passing(r, frames) ==
    IF frames = {} THEN Done(r)
    ELSE /\ at' = [at EXCEPT ![r] = "move"] /\ lane' = [lane EXCEPT ![r] = 1]
         /\ top' = [top EXCEPT ![r] = Highest({f.lamport : f \in frames})]
         /\ got' = [got EXCEPT ![r] = {}] /\ UNCHANGED <<way, since>>

\* It puts before its member what it has read, and moves the cursor later: past
\* what it showed, and past all it read if that was for a wake.
Tell(r) ==
    /\ at[r] = "scan" /\ lane[r] = Members + 1
    /\ \E C \in Shown(r) :
          /\ told' = [told EXCEPT ![PeerOf[r]] = @ \cup C]
          /\ IF way[r] = "view"
             THEN /\ at' = [at EXCEPT ![r] = "rescan"] /\ lane' = [lane EXCEPT ![r] = 1]
                  /\ got' = [got EXCEPT ![r] = {}] /\ UNCHANGED <<top, way, since>>
             ELSE Passing(r, IF way[r] = "wake" THEN Others(r) ELSE C)
    /\ UNCHANGED <<log, cursor, writes, crashes, lost>>

\* A wake turn is refused or fails: its member is told nothing, and the cursor
\* goes on as after any other.
Fail(r) ==
    /\ at[r] = "scan" /\ lane[r] = Members + 1
    /\ way[r] = "wake" /\ r \in Failing /\ Others(r) # {}
    /\ lost' = [lost EXCEPT ![PeerOf[r]] = @ \cup Others(r)]
    /\ Passing(r, Others(r))
    /\ UNCHANGED <<log, cursor, writes, crashes, told>>

\* The cursor goes to the last of them.
Move(r) ==
    /\ at[r] = "move"
    /\ cursor' = [cursor EXCEPT ![PeerOf[r]] = top[r]]
    /\ Done(r)
    /\ UNCHANGED <<log, writes, crashes, told, lost>>

\* A view's cursor goes on to the newest frame there is by now.
MarkRead(r) ==
    /\ at[r] = "rescan" /\ lane[r] = Members + 1
    /\ cursor' = [cursor EXCEPT ![PeerOf[r]] =
                     IF ~Closed /\ @ < top[r] THEN top[r] ELSE @]
    /\ Done(r)
    /\ UNCHANGED <<log, writes, crashes, told, lost>>

-----------------------------------------------------------------------------
\* A process ends in the middle of a write or of a read.
Crash(x) ==
    /\ at[x] # "idle"
    /\ crashes < MaxCrashes /\ crashes' = crashes + 1
    /\ \/ x \in Writers /\ Rest(x) /\ Forget(x) /\ UNCHANGED reads
       \/ x \in Readers /\ Done(x) /\ UNCHANGED writes
    /\ UNCHANGED <<log, cursor, told, lost>>

ReadStep(r) == ReadLane(r) \/ Tell(r) \/ Fail(r) \/ Move(r) \/ MarkRead(r)

Next ==
    \/ \E w \in Writers : Begin(w) \/ Check(w) \/ \E b \in BOOLEAN : Write(w, b)
    \/ \E r \in Readers : ReadStep(r) \/ \E how \in AllWays : Look(r, how)
    \/ \E x \in Procs : Survey(x) \/ Crash(x)

Spec == Init /\ [][Next]_vars

\* A process that has begun goes on, and the runner looks again and again.
FairSpec ==
    /\ Spec
    /\ \A r \in Readers : WF_vars(ReadStep(r)) /\ WF_vars(Look(r, "wake"))
    /\ \A x \in Procs : WF_vars(Survey(x))

-----------------------------------------------------------------------------
(* Correctness *)

\* A reader of the member has put as many later ones before it as it shows.
Crowded(p, f) ==
    \E r \in Readers : PeerOf[r] = p /\ \E C \in SUBSET told[p] :
        Cardinality(C) = Limit[r] /\ \A g \in C : Before(f, g)

\* A cursor goes past a frame that was not put before the member only behind as
\* many later ones as a reader shows, with a wake turn that failed, or when the
\* frame was written while another one was or while somebody read
\* (store.py:358 "Moved by the reader AFTER it has the frames in hand").
NothingSkipped ==
    \A p \in Peers : \A f \in log :
        Sender(f) # p /\ f.lamport <= cursor[p] =>
            f \in told[p] \cup lost[p] \/ Crowded(p, f) \/ f.met

\* A frame stands after everything its member had heard or said before it was
\* begun, in the order of every reader (A2A_PROTOCOL.md:615 "Causal order").
AnswersComeAfter ==
    [][\A f \in log' \ log : \A g \in heard[f.by] : Before(g, f)]_vars

\* What a member writes while nobody else writes or reads comes before every
\* other one whose agent is polled, unless the room is closed, the turn it comes
\* with fails, or as many later frames as a turn shows come with it
\* (A2A_PROTOCOL.md:617 "At-least-once delivery").
Polled == {PeerOf[r] : r \in {q \in Readers : "wake" \in Ways[q]}}
EveryFrameIsTold ==
    \A w \in Writers : \A n \in 1..MaxFrames[PeerOf[w]], p \in Polled :
        (\E f \in log : f.by = w /\ f.seq = n /\ ~f.met)
            ~> \/ Closed \/ p = PeerOf[w]
               \/ \E f \in log : /\ f.by = w /\ f.seq = n
                                 /\ f \in told[p] \cup lost[p] \/ Crowded(p, f)

\* Every frame is put before a member before its cursor passes it
\* (A2A_PROTOCOL.md:617 "At-least-once delivery").
NeverSkipped ==
    \A p \in Peers : \A f \in log : Sender(f) # p /\ f.lamport <= cursor[p] => f \in told[p]

\* A frame that is written stays as it is (store.py:256 "once and forever").
FramesStay == [][log \subseteq log']_vars

\* A closed room takes nothing more (A2A_PROTOCOL.md:708 "Nothing more is
\* accepted from anybody").
NothingAfterClose == [][Closed => log' \subseteq log]_vars
=============================================================================
