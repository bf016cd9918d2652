------------------------- MODULE AgentRoom_proofs -------------------------
(***************************************************************************)
(* Theorems about AgentRoom, for any number of members, writers and        *)
(* readers: its types, and, when every member has one process that writes, *)
(* its order and its cursors.                                              *)
(***************************************************************************)
EXTENDS AgentRoom, NaturalsInduction, WellFoundedInduction, TLAPS

-----------------------------------------------------------------------------
(* The greatest of a set of numbers, and of the positions of frames. *)

HasTop(F) == F = {} \/ \E g \in F : \A f \in F : f.lamport <= g.lamport

LEMMA HighestIs ==
  ASSUME NEW S \in SUBSET Nat, S = {} \/ \E k \in S : \A m \in S : m <= k
  PROVE  /\ Highest(S) \in Nat
         /\ \A m \in S : m <= Highest(S)
         /\ S # {} => Highest(S) \in S
         /\ S = {} => Highest(S) = 0
  BY DEF Highest

LEMMA FrameFields ==
  ASSUME NEW f \in Frame
  PROVE  /\ f.by \in Writers /\ f.seq \in Nat /\ f.seq > 0
         /\ f.lamport \in Nat /\ f.lamport > 0 /\ f.met \in BOOLEAN /\ Sender(f) \in Peers
  BY AgentRoomAssumption DEF Frame, Sender, AgentRoomAssumption, Procs

LEMMA UnionHasTop ==
  ASSUME NEW F \in SUBSET Frame, NEW G \in SUBSET Frame, HasTop(F), HasTop(G)
  PROVE  HasTop(F \cup G)
  <1>1. CASE F = {} \/ G = {}
    BY <1>1 DEF HasTop
  <1>2. CASE F # {} /\ G # {}
    <2>1. PICK f \in F : \A h \in F : h.lamport <= f.lamport
      BY <1>2 DEF HasTop
    <2>2. PICK g \in G : \A h \in G : h.lamport <= g.lamport
      BY <1>2 DEF HasTop
    <2>3. \A h \in F \cup G : h.lamport \in Nat
      BY FrameFields
    <2>4. CASE f.lamport <= g.lamport
      BY <2>1, <2>2, <2>3, <2>4 DEF HasTop
    <2>5. CASE g.lamport <= f.lamport
      BY <2>1, <2>2, <2>3, <2>5 DEF HasTop
    <2> QED
      BY <2>3, <2>4, <2>5
  <1> QED
    BY <1>1, <1>2

-----------------------------------------------------------------------------
(* Types, where a process is, and the ends of the lanes. *)

HasLast(F) == F = {} \/ \E g \in F : \A f \in F : f.seq <= g.seq

LEMMA UnionHasLast ==
  ASSUME NEW F \in SUBSET Frame, NEW G \in SUBSET Frame, HasLast(F), HasLast(G)
  PROVE  HasLast(F \cup G)
  <1>1. CASE F = {} \/ G = {}
    BY <1>1 DEF HasLast
  <1>2. CASE F # {} /\ G # {}
    <2>1. PICK f \in F : \A h \in F : h.seq <= f.seq
      BY <1>2 DEF HasLast
    <2>2. PICK g \in G : \A h \in G : h.seq <= g.seq
      BY <1>2 DEF HasLast
    <2>3. \A h \in F \cup G : h.seq \in Nat
      BY FrameFields
    <2>4. CASE f.seq <= g.seq
      BY <2>1, <2>2, <2>3, <2>4 DEF HasLast
    <2>5. CASE g.seq <= f.seq
      BY <2>1, <2>2, <2>3, <2>5 DEF HasLast
    <2> QED
      BY <2>3, <2>4, <2>5
  <1> QED
    BY <1>1, <1>2

\* A set of numbers under a bound has a greatest one: the one below its least bound.
LEMMA BoundedHasGreatest ==
  ASSUME NEW S \in SUBSET Nat, S # {}, NEW b \in Nat, \A m \in S : m <= b
  PROVE  \E k \in S : \A m \in S : m <= k
  <1> DEFINE B == {n \in Nat : \A m \in S : m <= n}
  <1>1. PICK n \in B : \A m \in B : ~(<<m, n>> \in OpToRel(<, Nat))
    <2>1. B \in SUBSET Nat /\ B # {}
      OBVIOUS
    <2> QED
      BY ONLY <2>1, WFMin, NatLessThanWellFounded
  <1>2. \A m \in B : ~(m < n)
    BY <1>1 DEF OpToRel
  <1>3. CASE n \in S
    BY <1>3
  <1>4. CASE n \notin S
    <2>1. n \in Nat /\ \A m \in S : m <= n
      BY <1>1
    <2>2. \A m \in S : m \in Nat /\ m <= n /\ m # n
      BY <2>1, <1>4
    <2>3. \A m \in S : m <= n - 1
      BY <2>1, <2>2
    <2>4. n - 1 \in Nat
      <3>1. PICK m \in S : TRUE
        OBVIOUS
      <3> QED
        BY <3>1, <2>1, <2>2
    <2>5. n - 1 \in B
      BY <2>3, <2>4
    <2> QED
      BY <2>5, <2>1, <1>2
  <1> QED
    BY <1>3, <1>4

\* What is left of a lane when a frame is replaced has its ends too.
LEMMA PartsHaveEnds ==
  ASSUME NEW F \in SUBSET Frame, NEW G \in SUBSET F
  PROVE  /\ HasTop(F) => HasTop(G)
         /\ HasLast(F) => HasLast(G)
  <1>1. CASE G = {}
    BY <1>1 DEF HasTop, HasLast
  <1>2. CASE G # {}
    <2>1. ASSUME HasTop(F) PROVE HasTop(G)
      <3>1. PICK g \in F : \A f \in F : f.lamport <= g.lamport
        BY <2>1, <1>2 DEF HasTop
      <3> DEFINE S == {f.lamport : f \in G}
      <3>2. S \in SUBSET Nat /\ S # {} /\ g.lamport \in Nat /\ \A m \in S : m <= g.lamport
        BY <3>1, <1>2, FrameFields
      <3>3. \E k \in S : \A m \in S : m <= k
        BY <3>2, BoundedHasGreatest
      <3> QED
        BY <3>3 DEF HasTop
    <2>2. ASSUME HasLast(F) PROVE HasLast(G)
      <3>1. PICK g \in F : \A f \in F : f.seq <= g.seq
        BY <2>2, <1>2 DEF HasLast
      <3> DEFINE S == {f.seq : f \in G}
      <3>2. S \in SUBSET Nat /\ S # {} /\ g.seq \in Nat /\ \A m \in S : m <= g.seq
        BY <3>1, <1>2, FrameFields
      <3>3. \E k \in S : \A m \in S : m <= k
        BY <3>2, BoundedHasGreatest
      <3> QED
        BY <3>3 DEF HasLast
    <2> QED
      BY <2>1, <2>2
  <1> QED
    BY <1>1, <1>2

LanesHaveEnds == \A p \in Peers : HasTop(Lane(p)) /\ HasLast(Lane(p))

WritersStand ==
    \A w \in Writers :
        /\ at[w] \in {"idle", "scan", "write"}
        /\ at[w] = "idle" => lane[w] = 1
        /\ at[w] # "idle" => seq[w] > 0
        /\ at[w] = "write" => lane[w] = Members + 1

ReadersStand ==
    \A r \in Readers :
        /\ at[r] \in {"idle", "scan", "rescan", "move"}
        /\ at[r] = "idle" => lane[r] = 1

ReadEnds == \A r \in Readers : HasTop(Others(r))

StandInv == TypeOK /\ LanesHaveEnds /\ WritersStand /\ ReadersStand /\ ReadEnds

LEMMA StandInit == Init => StandInv
  <1> SUFFICES ASSUME Init PROVE StandInv
    OBVIOUS
  <1> USE AgentRoomAssumption DEF AgentRoomAssumption, Procs
  <1>1. TypeOK
    BY DEF Init, TypeOK, AllWays
  <1>2. LanesHaveEnds
    BY DEF Init, LanesHaveEnds, HasTop, HasLast, Lane
  <1>3. WritersStand /\ ReadersStand
    BY DEF Init, WritersStand, ReadersStand
  <1>4. ReadEnds
    BY DEF Init, ReadEnds, HasTop, Others
  <1> QED
    BY <1>1, <1>2, <1>3, <1>4 DEF StandInv

LEMMA BeginFacts ==
  ASSUME StandInv, NEW w \in Writers, Begin(w)
  PROVE  seq' = [seq EXCEPT ![w] = seq'[w]] /\ seq'[w] \in Nat /\ seq'[w] > 0
  <1> USE AgentRoomAssumption DEF AgentRoomAssumption, Procs
  <1> DEFINE S == {f.seq : f \in Lane(PeerOf[w])}
  <1>1. PeerOf[w] \in Peers /\ Lane(PeerOf[w]) \subseteq Frame
    BY DEF StandInv, TypeOK, Lane
  <1>2. S \in SUBSET Nat
    BY <1>1, FrameFields
  <1>3. S = {} \/ \E k \in S : \A m \in S : m <= k
    <2>1. CASE Lane(PeerOf[w]) = {}
      BY <2>1
    <2>2. CASE Lane(PeerOf[w]) # {}
      <3>1. PICK g \in Lane(PeerOf[w]) : \A f \in Lane(PeerOf[w]) : f.seq <= g.seq
        BY <1>1, <2>2 DEF StandInv, LanesHaveEnds, HasLast
      <3> QED
        BY <3>1
    <2> QED
      BY <2>1, <2>2
  <1>4. Highest(S) \in Nat
    BY <1>2, <1>3, HighestIs
  <1>5. seq' = [seq EXCEPT ![w] = Highest(S) + 1] /\ seq \in [Writers -> Nat]
    BY DEF Begin, StandInv, TypeOK
  <1> QED
    BY <1>4, <1>5

LEMMA SurveyFacts ==
  ASSUME StandInv, NEW x \in Procs, Survey(x)
  PROVE  /\ top' = [top EXCEPT ![x] = top'[x]] /\ top'[x] \in Nat /\ top'[x] >= top[x]
         /\ lane[x] \in Peers
         /\ \A f \in Lane(lane[x]) : f.lamport <= top'[x]
         /\ top'[x] = top[x] \/ \E f \in log : f.lamport = top'[x]
  <1> USE AgentRoomAssumption DEF AgentRoomAssumption
  <1> DEFINE S == Lamports(x) \cup {top[x]}
  <1>1. lane[x] \in Peers /\ Lane(lane[x]) \subseteq Frame /\ top \in [Procs -> Nat]
    BY DEF StandInv, TypeOK, Lane, Survey, Peers
  <1>2. S \in SUBSET Nat /\ top[x] \in Nat
    BY <1>1, FrameFields DEF Lamports
  <1>3. \E k \in S : \A m \in S : m <= k
    <2>1. CASE Lane(lane[x]) = {}
      BY <2>1, <1>2 DEF Lamports
    <2>2. CASE Lane(lane[x]) # {}
      <3>1. PICK g \in Lane(lane[x]) : \A f \in Lane(lane[x]) : f.lamport <= g.lamport
        BY <1>1, <2>2 DEF StandInv, LanesHaveEnds, HasTop
      <3>2. g.lamport \in S /\ \A m \in Lamports(x) : m <= g.lamport
        BY <3>1 DEF Lamports
      <3>3. CASE g.lamport <= top[x]
        <4>1. \A m \in S : m <= top[x]
          BY <3>2, <3>3, <1>2
        <4> QED
          BY <4>1
      <3>4. CASE top[x] <= g.lamport
        <4>1. \A m \in S : m <= g.lamport
          BY <3>2, <3>4, <1>2
        <4> QED
          BY <4>1, <3>2
      <3> QED
        BY <3>2, <3>3, <3>4, <1>2
    <2> QED
      BY <2>1, <2>2
  <1>4. Highest(S) \in S /\ \A m \in S : m <= Highest(S)
    BY <1>2, <1>3, HighestIs
  <1>5. top' = [top EXCEPT ![x] = Highest(S)]
    BY DEF Survey
  <1>6. top'[x] = Highest(S)
    BY <1>1, <1>5
  <1>7. \A f \in Lane(lane[x]) : f.lamport \in S /\ f \in log
    BY DEF Lamports, Lane
  <1>8. top'[x] >= top[x] /\ \A f \in Lane(lane[x]) : f.lamport <= top'[x]
    BY <1>2, <1>4, <1>6, <1>7
  <1>9. top'[x] = top[x] \/ \E f \in log : f.lamport = top'[x]
    BY <1>4, <1>6, <1>7 DEF Lamports
  <1> QED
    BY <1>1, <1>2, <1>4, <1>5, <1>6, <1>8, <1>9

LEMMA ShownFacts ==
  ASSUME StandInv, NEW r \in Readers
  PROVE  /\ Others(r) \subseteq got[r] /\ got[r] \subseteq Frame
         /\ \A C \in Shown(r) : /\ C \subseteq got[r]
                                /\ way[r] # "view" => C \subseteq Others(r)
  <1>1. Others(r) \subseteq got[r] /\ got[r] \subseteq Frame
    BY DEF Others, StandInv, TypeOK
  <1>2. \A C \in Shown(r) : C \subseteq Rows(r)
    <2>1. Others(r) = Rows(r) \/ way[r] = "view"
      BY DEF Rows
    <2>2. CASE way[r] = "wait"
      BY <2>1, <2>2 DEF Shown, First
    <2>3. CASE way[r] = "read"
      BY <2>1, <2>3 DEF Shown
    <2>4. CASE way[r] # "wait" /\ way[r] # "read"
      BY <2>4 DEF Shown, Newest
    <2> QED
      BY <2>2, <2>3, <2>4
  <1> QED
    BY <1>1, <1>2 DEF Rows

\* A reader that passes frames comes to one of them, the last.
LEMMA PassingFacts ==
  ASSUME StandInv, NEW r \in Readers, NEW F \in SUBSET Others(r), Passing(r, F)
  PROVE  /\ at' = [at EXCEPT ![r] = at'[r]] /\ at'[r] \in {"idle", "move"}
         /\ lane' = [lane EXCEPT ![r] = 1] /\ got' = [got EXCEPT ![r] = {}]
         /\ top' = [top EXCEPT ![r] = top'[r]] /\ top'[r] \in Nat
         /\ way' \in [Readers -> AllWays] /\ since' \in [Readers -> Nat]
         /\ \A q \in Readers \ {r} : since'[q] = since[q]
         /\ at'[r] = "move" => \E f \in F : top'[r] = f.lamport
         /\ at'[r] = "idle" => top'[r] = 0
  <1> DEFINE S == {f.lamport : f \in F}
  <1>1. /\ top \in [Procs -> Nat] /\ at \in [Procs -> {"idle", "scan", "write", "rescan", "move"}]
        /\ way \in [Readers -> AllWays] /\ since \in [Readers -> Nat]
        /\ r \in Procs /\ "read" \in AllWays
    BY DEF StandInv, TypeOK, Procs, AllWays
  <1>2. CASE F = {}
    BY <1>1, <1>2 DEF Passing, Done, Rest
  <1>3. CASE F # {}
    <2>1. F \in SUBSET Frame /\ HasTop(Others(r)) /\ Others(r) \in SUBSET Frame
      BY ShownFacts DEF StandInv, ReadEnds
    <2>2. HasTop(F)
      BY <2>1, PartsHaveEnds
    <2>3. S \in SUBSET Nat /\ S # {}
      BY <1>3, <2>1, FrameFields
    <2>4. \E k \in S : \A m \in S : m <= k
      <3>1. PICK g \in F : \A f \in F : f.lamport <= g.lamport
        BY <1>3, <2>2 DEF HasTop
      <3> QED
        BY <3>1
    <2>5. Highest(S) \in S /\ Highest(S) \in Nat
      BY <2>3, <2>4, HighestIs
    <2>6. top' = [top EXCEPT ![r] = Highest(S)] /\ at' = [at EXCEPT ![r] = "move"]
      BY <1>3 DEF Passing
    <2>7. top'[r] = Highest(S) /\ at'[r] = "move"
      BY <1>1, <2>6
    <2>8. \E f \in F : top'[r] = f.lamport
      BY <2>5, <2>7
    <2> QED
      BY <1>1, <1>3, <2>5, <2>6, <2>7, <2>8 DEF Passing
  <1> QED
    BY <1>2, <1>3

\* The frames a turn or a tool passes: all it came by for a wake, else what it shows.
Goes(r, C) == IF way[r] = "wake" THEN Others(r) ELSE C

LEMMA TellFacts ==
  ASSUME StandInv, NEW r \in Readers, Tell(r)
  PROVE  \E C \in Shown(r) :
            /\ told' = [told EXCEPT ![PeerOf[r]] = @ \cup C] /\ C \subseteq got[r]
            /\ \/ way[r] = "view" /\ at'[r] = "rescan" /\ at' = [at EXCEPT ![r] = "rescan"]
                  /\ lane' = [lane EXCEPT ![r] = 1] /\ got' = [got EXCEPT ![r] = {}]
                  /\ UNCHANGED <<top, way, since>>
               \/ way[r] # "view" /\ Goes(r, C) \in SUBSET Others(r) /\ Passing(r, Goes(r, C))
  <1>1. r \in Procs /\ at \in [Procs -> {"idle", "scan", "write", "rescan", "move"}]
    BY DEF StandInv, TypeOK, Procs
  <1>2. PICK C \in Shown(r) :
           /\ told' = [told EXCEPT ![PeerOf[r]] = @ \cup C]
           /\ IF way[r] = "view"
              THEN /\ at' = [at EXCEPT ![r] = "rescan"] /\ lane' = [lane EXCEPT ![r] = 1]
                   /\ got' = [got EXCEPT ![r] = {}] /\ UNCHANGED <<top, way, since>>
              ELSE Passing(r, Goes(r, C))
    BY DEF Tell, Goes
  <1>3. C \subseteq got[r] /\ (way[r] # "view" => C \subseteq Others(r))
    BY ShownFacts
  <1>4. way[r] # "view" => Goes(r, C) \in SUBSET Others(r)
    BY <1>3 DEF Goes
  <1> QED
    BY <1>1, <1>2, <1>3, <1>4

\* A turn, whether it tells or fails.
LEMMA TurnFacts ==
  ASSUME StandInv, NEW r \in Readers, Tell(r) \/ Fail(r)
  PROVE  /\ UNCHANGED <<log, cursor, seq, heard, alone, crashes>>
         /\ at' = [at EXCEPT ![r] = at'[r]] /\ at'[r] \in {"idle", "rescan", "move"}
         /\ lane' = [lane EXCEPT ![r] = 1] /\ got' = [got EXCEPT ![r] = {}]
         /\ top' = [top EXCEPT ![r] = top'[r]] /\ top'[r] \in Nat
         /\ way' \in [Readers -> AllWays] /\ since' \in [Readers -> Nat]
         /\ \A q \in Readers \ {r} : since'[q] = since[q]
         /\ \E C \in SUBSET got[r] : told' = [told EXCEPT ![PeerOf[r]] = @ \cup C]
         /\ \E C \in SUBSET got[r] : lost' = [lost EXCEPT ![PeerOf[r]] = @ \cup C]
         /\ at'[r] = "move" => \E f \in Others(r) : top'[r] = f.lamport
         /\ at'[r] = "rescan" => Tell(r) /\ way[r] = "view" /\ top'[r] = top[r]
         /\ at'[r] = "idle" => top'[r] = 0
  <1>1. /\ top \in [Procs -> Nat] /\ r \in Procs /\ way \in [Readers -> AllWays]
        /\ since \in [Readers -> Nat] /\ told \in [Peers -> SUBSET Frame]
        /\ lost \in [Peers -> SUBSET Frame]
        /\ at \in [Procs -> {"idle", "scan", "write", "rescan", "move"}]
    BY DEF StandInv, TypeOK, Procs
  <1>2. UNCHANGED <<log, cursor, seq, heard, alone, crashes>>
    BY DEF Tell, Fail, writes
  <1>3. CASE Tell(r)
    <2>1. PICK C \in Shown(r) :
            /\ told' = [told EXCEPT ![PeerOf[r]] = @ \cup C] /\ C \subseteq got[r]
            /\ \/ way[r] = "view" /\ at'[r] = "rescan" /\ at' = [at EXCEPT ![r] = "rescan"]
                  /\ lane' = [lane EXCEPT ![r] = 1] /\ got' = [got EXCEPT ![r] = {}]
                  /\ UNCHANGED <<top, way, since>>
               \/ way[r] # "view" /\ Goes(r, C) \in SUBSET Others(r) /\ Passing(r, Goes(r, C))
      BY <1>3, TellFacts
    <2>2. lost' = [lost EXCEPT ![PeerOf[r]] = @ \cup {}] /\ {} \in SUBSET got[r]
      BY <1>1, <1>3 DEF Tell
    <2>3. CASE way[r] = "view"
      <3>1. UNCHANGED <<top, way, since>> /\ at'[r] = "rescan" /\ at' = [at EXCEPT ![r] = "rescan"]
            /\ lane' = [lane EXCEPT ![r] = 1] /\ got' = [got EXCEPT ![r] = {}]
        BY <2>1, <2>3
      <3>2. top' = [top EXCEPT ![r] = top'[r]] /\ top'[r] \in Nat
        BY <3>1, <1>1
      <3> QED
        BY <1>1, <1>2, <1>3, <2>1, <2>2, <2>3, <3>1, <3>2
    <2>4. CASE way[r] # "view"
      <3>1. PICK F \in SUBSET Others(r) : Passing(r, F)
        BY <2>1, <2>4
      <3>2. at'[r] = "move" => \E f \in F : top'[r] = f.lamport
        BY <3>1, PassingFacts
      <3>3. /\ at' = [at EXCEPT ![r] = at'[r]] /\ at'[r] \in {"idle", "move"}
            /\ lane' = [lane EXCEPT ![r] = 1] /\ got' = [got EXCEPT ![r] = {}]
            /\ top' = [top EXCEPT ![r] = top'[r]] /\ top'[r] \in Nat
            /\ way' \in [Readers -> AllWays] /\ since' \in [Readers -> Nat]
            /\ \A q \in Readers \ {r} : since'[q] = since[q]
            /\ at'[r] = "idle" => top'[r] = 0
        BY <3>1, PassingFacts
      <3>4. /\ \E D \in SUBSET got[r] : told' = [told EXCEPT ![PeerOf[r]] = @ \cup D]
            /\ \E D \in SUBSET got[r] : lost' = [lost EXCEPT ![PeerOf[r]] = @ \cup D]
        BY <2>1, <2>2
      <3> QED
        BY <1>2, <3>2, <3>3, <3>4
    <2> QED
      BY <2>3, <2>4
  <1>4. CASE Fail(r)
    <2>1. /\ Others(r) \in SUBSET Others(r) /\ Passing(r, Others(r)) /\ Others(r) \subseteq got[r]
          /\ lost' = [lost EXCEPT ![PeerOf[r]] = @ \cup Others(r)]
      BY <1>4, ShownFacts DEF Fail
    <2>2. told' = [told EXCEPT ![PeerOf[r]] = @ \cup {}] /\ {} \in SUBSET got[r]
      BY <1>1, <1>4 DEF Fail
    <2> QED
      BY <1>2, <2>1, <2>2, PassingFacts
  <1> QED
    BY <1>3, <1>4

LEMMA WriteFacts ==
  ASSUME StandInv, NEW w \in Writers, NEW ends \in BOOLEAN, Write(w, ends)
  PROVE  /\ New(w, ends) \in Frame
         /\ Sender(New(w, ends)) = PeerOf[w] /\ PeerOf[w] \in Peers
  <1> USE AgentRoomAssumption DEF AgentRoomAssumption
  <1>1. w \in Procs /\ PeerOf[w] \in Peers /\ top[w] \in Nat /\ seq[w] \in Nat /\ seq[w] > 0
    BY DEF StandInv, TypeOK, WritersStand, Write, Procs
  <1>2. New(w, ends).by = w /\ New(w, ends) \in Frame
    BY <1>1 DEF New, Frame
  <1> QED
    BY <1>1, <1>2 DEF Sender

LEMMA StandNext == StandInv /\ [Next]_vars => StandInv'
  <1> SUFFICES ASSUME StandInv, [Next]_vars PROVE StandInv'
    OBVIOUS
  <1> USE AgentRoomAssumption DEF AgentRoomAssumption, Procs
  <1>a. /\ TypeOK /\ LanesHaveEnds /\ WritersStand /\ ReadersStand /\ ReadEnds
        /\ \A x \in Procs : PeerOf[x] \in Peers
    BY DEF StandInv
  <1>1. CASE UNCHANGED vars
    <2>1. UNCHANGED <<log, cursor, at, lane, top, seq, heard, alone, way, since, got, crashes, told, lost>>
      BY <1>1 DEF vars, writes, reads
    <2>2. \A p : Lane(p)' = Lane(p)
      BY <2>1 DEF Lane
    <2>3. \A r : Others(r)' = Others(r)
      BY <2>1 DEF Others
    <2>4. TypeOK'
      BY <2>1, <1>a DEF TypeOK
    <2>5. LanesHaveEnds' /\ WritersStand' /\ ReadersStand' /\ ReadEnds'
      BY <2>1, <2>2, <2>3, <1>a DEF LanesHaveEnds, WritersStand, ReadersStand, ReadEnds
    <2> QED
      BY <2>4, <2>5 DEF StandInv
  \* Every step but a write leaves the log, and what follows from it alone.
  <1>b. ASSUME UNCHANGED log
        PROVE  LanesHaveEnds' /\ \A p : Lane(p)' = Lane(p)
    BY <1>b, <1>a DEF Lane, LanesHaveEnds
  <1>2. ASSUME NEW w \in Writers, Begin(w) PROVE StandInv'
    <2>1. UNCHANGED <<log, cursor, lane, top, way, since, got, crashes, told, lost>>
      BY <1>2 DEF Begin, reads
    <2>2. seq' = [seq EXCEPT ![w] = seq'[w]] /\ seq'[w] \in Nat /\ seq'[w] > 0
      BY <1>2, BeginFacts
    <2>4. heard' \in [Writers -> SUBSET Frame]
      BY <1>2, <1>a DEF Begin, TypeOK, Lane
    <2>5. at' = [at EXCEPT ![w] = "scan"] /\ alone' \in [Writers -> BOOLEAN]
      BY <1>2 DEF Begin
    <2>6. TypeOK'
      BY <2>1, <2>2, <2>4, <2>5, <1>a DEF TypeOK
    <2>7. WritersStand' /\ ReadersStand'
      BY <2>1, <2>2, <2>5, <1>a, <1>b DEF WritersStand, ReadersStand, TypeOK
    <2>8. ReadEnds'
      BY <2>1, <1>a DEF ReadEnds, Others
    <2> QED
      BY <2>1, <2>6, <2>7, <2>8, <1>b DEF StandInv
  <1>3. ASSUME NEW x \in Procs, Survey(x) PROVE StandInv'
    <2>1. UNCHANGED <<log, cursor, at, seq, heard, alone, way, since, got, crashes, told, lost>>
      BY <1>3 DEF Survey, writes, reads
    <2>2. top' = [top EXCEPT ![x] = top'[x]] /\ top'[x] \in Nat
      BY <1>3, SurveyFacts
    <2>3. lane' = [lane EXCEPT ![x] = @ + 1] /\ lane[x] <= Members /\ at[x] \in {"scan", "rescan"}
      BY <1>3 DEF Survey
    <2>4. TypeOK'
      BY <2>1, <2>2, <2>3, <1>a DEF TypeOK
    <2>5. WritersStand' /\ ReadersStand'
      BY <2>1, <2>3, <1>a, <1>b DEF WritersStand, ReadersStand, TypeOK
    <2>6. ReadEnds'
      BY <2>1, <1>a DEF ReadEnds, Others
    <2> QED
      BY <2>1, <2>4, <2>5, <2>6, <1>b DEF StandInv
  <1>4. ASSUME NEW w \in Writers, Check(w) PROVE StandInv'
    <2>1. UNCHANGED <<log, cursor, way, since, got, crashes, told, lost>>
      BY <1>4 DEF Check, reads
    <2>2. \/ Rest(w) /\ Forget(w)
          \/ /\ at' = [at EXCEPT ![w] = "write"] /\ UNCHANGED <<lane, top, seq, heard, alone>>
      BY <1>4 DEF Check, writes
    <2>3. at[w] = "scan" /\ lane[w] = Members + 1
      BY <1>4 DEF Check
    <2>4. CASE Rest(w) /\ Forget(w)
      <3>1. TypeOK'
        BY <2>1, <2>4, <1>a DEF TypeOK, Rest, Forget
      <3>2. WritersStand' /\ ReadersStand'
        BY <2>1, <2>4, <1>a, <1>b DEF WritersStand, ReadersStand, TypeOK, Rest, Forget
      <3>3. ReadEnds'
        BY <2>1, <2>4, <1>a DEF ReadEnds, Others, Forget, TypeOK
      <3> QED
        BY <2>1, <3>1, <3>2, <3>3, <1>b DEF StandInv
    <2>5. CASE ~(Rest(w) /\ Forget(w))
      <3>1. TypeOK'
        BY <2>1, <2>2, <2>5, <1>a DEF TypeOK
      <3>2. WritersStand' /\ ReadersStand'
        BY <2>1, <2>2, <2>3, <2>5, <1>a, <1>b DEF WritersStand, ReadersStand, TypeOK
      <3>3. ReadEnds'
        BY <2>1, <2>2, <2>5, <1>a DEF ReadEnds, Others
      <3> QED
        BY <2>1, <3>1, <3>2, <3>3, <1>b DEF StandInv
    <2> QED
      BY <2>4, <2>5
  <1>5. ASSUME NEW w \in Writers, NEW ends \in BOOLEAN, Write(w, ends) PROVE StandInv'
    <2> DEFINE n == New(w, ends)
    <2>1. n \in Frame /\ Sender(n) = PeerOf[w] /\ PeerOf[w] \in Peers
      BY <1>5, WriteFacts
    <2>2. UNCHANGED <<cursor, way, since, got, crashes, told, lost>> /\ Rest(w) /\ Forget(w) /\ at[w] = "write"
      BY <1>5 DEF Write, reads
    <2>3. \A p \in Peers : Lane(p)' = IF p = PeerOf[w] THEN {f \in Lane(p) : f.seq # seq[w]} \cup {n}
                                                       ELSE Lane(p)
      BY <2>1, <1>5 DEF Lane, Write
    <2>4. TypeOK'
      <3>1. log' \subseteq Frame
        BY <1>5, <2>1, <1>a DEF Write, TypeOK
      <3> QED
        BY <3>1, <2>2, <1>a DEF TypeOK, Rest, Forget
    <2>5. LanesHaveEnds'
      <3>1. ASSUME NEW p \in Peers PROVE HasTop(Lane(p))' /\ HasLast(Lane(p))'
        <4>1. CASE p # PeerOf[w]
          BY <4>1, <2>3, <1>a DEF LanesHaveEnds, HasTop, HasLast
        <4>2. CASE p = PeerOf[w]
          <5> DEFINE kept == {f \in Lane(p) : f.seq # seq[w]}
          <5>1. Lane(p) \in SUBSET Frame /\ kept \in SUBSET Lane(p) /\ {n} \in SUBSET Frame
            BY <2>1, <1>a DEF Lane, TypeOK
          <5>2. HasTop({n}) /\ HasLast({n})
            BY <2>1, FrameFields DEF HasTop, HasLast
          <5>5. HasTop(kept) /\ HasLast(kept)
            BY <5>1, <1>a, PartsHaveEnds DEF LanesHaveEnds
          <5> HIDE DEF kept
          <5>3. HasTop(kept \cup {n})
            BY <5>1, <5>2, <5>5, UnionHasTop
          <5>4. HasLast(kept \cup {n})
            BY <5>1, <5>2, <5>5, UnionHasLast
          <5> QED
            BY <5>3, <5>4, <4>2, <2>3 DEF HasTop, HasLast, kept
        <4> QED
          BY <4>1, <4>2
      <3> QED
        BY <3>1 DEF LanesHaveEnds
    <2>6. WritersStand' /\ ReadersStand'
      <3>1. ASSUME NEW v \in Writers, v # w
            PROVE  at'[v] = at[v] /\ lane'[v] = lane[v] /\ seq'[v] = seq[v]
        BY <3>1, <2>2, <1>a DEF Rest, Forget, TypeOK
      <3>2. at'[w] = "idle" /\ lane'[w] = 1
        BY <2>2, <1>a DEF Rest, TypeOK
      <3>3. WritersStand'
        BY <3>1, <3>2, <1>a DEF WritersStand
      <3>4. \A r \in Readers : at'[r] = at[r] /\ lane'[r] = lane[r]
        BY <2>2, <1>a DEF Rest, TypeOK
      <3> QED
        BY <3>3, <3>4, <1>a DEF ReadersStand
    <2>7. ReadEnds'
      BY <2>2, <1>a DEF ReadEnds, Others
    <2> QED
      BY <2>4, <2>5, <2>6, <2>7 DEF StandInv
  <1>6. ASSUME NEW r \in Readers, NEW how \in AllWays, Look(r, how) PROVE StandInv'
    <2>1. UNCHANGED <<log, cursor, lane, top, seq, heard, alone, got, crashes, told, lost>>
      BY <1>6 DEF Look, writes
    <2>2. TypeOK'
      BY <1>6, <2>1, <1>a DEF Look, TypeOK, AllWays
    <2>3. WritersStand' /\ ReadersStand'
      BY <1>6, <2>1, <1>a, <1>b DEF Look, WritersStand, ReadersStand, TypeOK
    <2>4. ReadEnds'
      BY <2>1, <1>a DEF ReadEnds, Others
    <2> QED
      BY <2>1, <2>2, <2>3, <2>4, <1>b DEF StandInv
  <1>7. ASSUME NEW r \in Readers, ReadLane(r) PROVE StandInv'
    <2>1. UNCHANGED <<log, cursor, at, top, seq, heard, alone, way, since, crashes, told, lost>>
      BY <1>7 DEF ReadLane, writes
    <2>2. /\ lane' = [lane EXCEPT ![r] = @ + 1] /\ got' = [got EXCEPT ![r] = @ \cup Unread(r)]
          /\ at[r] = "scan" /\ lane[r] \in Peers /\ lane[r] <= Members
      BY <1>7, <1>a DEF ReadLane, TypeOK, Peers
    <2>3. Unread(r) \subseteq Lane(lane[r]) /\ Lane(lane[r]) \subseteq log /\ log \subseteq Frame
      BY <1>a DEF Unread, Lane, TypeOK
    <2>4. TypeOK'
      BY <2>1, <2>2, <2>3, <1>a DEF TypeOK
    <2>5. WritersStand' /\ ReadersStand'
      BY <2>1, <2>2, <1>a, <1>b DEF WritersStand, ReadersStand, TypeOK
    <2>6. HasTop(Others(r))'
      <3> DEFINE U == {f \in Unread(r) : Sender(f) # PeerOf[r]}
      <3>1. Others(r)' = Others(r) \cup U
        BY <2>2, <1>a DEF Others, TypeOK
      <3>2. HasTop(U)
        <4>1. CASE U = {}
          BY <4>1 DEF HasTop
        <4>2. CASE U # {}
          <5>1. PICK u \in U : TRUE
            BY <4>2
          <5>2. PICK g \in Lane(lane[r]) : \A f \in Lane(lane[r]) : f.lamport <= g.lamport
            BY <5>1, <2>2, <2>3, <1>a DEF LanesHaveEnds, HasTop
          <5>3. /\ u \in Lane(lane[r]) /\ Sender(u) = lane[r] /\ Sender(g) = lane[r]
                /\ u.lamport > since[r] /\ Sender(u) # PeerOf[r]
            BY <5>1 DEF Unread, Lane
          <5>4. u.lamport \in Nat /\ g.lamport \in Nat /\ since[r] \in Nat
            BY <2>3, <5>3, FrameFields, <1>a DEF TypeOK
          <5>5. g \in U
            BY <5>2, <5>3, <5>4 DEF Unread
          <5> QED
            BY <5>2, <5>5, <2>3 DEF HasTop
        <4> QED
          BY <4>1, <4>2
      <3>3. Others(r) \in SUBSET Frame /\ U \in SUBSET Frame
        BY <2>3, ShownFacts
      <3>4. HasTop(Others(r) \cup U)
        BY <3>2, <3>3, <1>a, UnionHasTop DEF ReadEnds
      <3> QED
        BY <3>1, <3>4 DEF HasTop
    <2>7. ReadEnds'
      <3>1. ASSUME NEW q \in Readers, q # r PROVE HasTop(Others(q))'
        <4>1. got'[q] = got[q] /\ Others(q)' = Others(q)
          BY <3>1, <2>2, <1>a DEF Others, TypeOK
        <4> QED
          BY <4>1, <2>1, <1>a DEF ReadEnds, HasTop
      <3> QED
        BY <3>1, <2>6 DEF ReadEnds
    <2> QED
      BY <2>1, <2>4, <2>5, <2>7, <1>b DEF StandInv
  <1>8. ASSUME NEW r \in Readers, Tell(r) \/ Fail(r) PROVE StandInv'
    <2>1. /\ UNCHANGED <<log, cursor, seq, heard, alone, crashes>>
          /\ at' = [at EXCEPT ![r] = at'[r]] /\ at'[r] \in {"idle", "rescan", "move"}
          /\ lane' = [lane EXCEPT ![r] = 1] /\ got' = [got EXCEPT ![r] = {}]
          /\ top' = [top EXCEPT ![r] = top'[r]] /\ top'[r] \in Nat
          /\ way' \in [Readers -> AllWays] /\ since' \in [Readers -> Nat]
      BY <1>8, TurnFacts
    <2>2. told' \in [Peers -> SUBSET Frame] /\ lost' \in [Peers -> SUBSET Frame]
      <3>1. PICK C \in SUBSET got[r] : told' = [told EXCEPT ![PeerOf[r]] = @ \cup C]
        BY <1>8, TurnFacts
      <3>2. PICK D \in SUBSET got[r] : lost' = [lost EXCEPT ![PeerOf[r]] = @ \cup D]
        BY <1>8, TurnFacts
      <3>3. C \subseteq Frame /\ D \subseteq Frame
        BY <1>a DEF TypeOK
      <3> QED
        BY <3>1, <3>2, <3>3, <1>a DEF TypeOK
    <2>3. TypeOK'
      <3>1. /\ at' \in [Procs -> {"idle", "scan", "write", "rescan", "move"}]
            /\ lane' \in [Procs -> 1..(Members + 1)] /\ top' \in [Procs -> Nat]
            /\ got' \in [Readers -> SUBSET Frame]
        BY <2>1, <1>a DEF TypeOK
      <3> QED
        BY <2>1, <2>2, <3>1, <1>a DEF TypeOK
    <2>4. WritersStand' /\ ReadersStand'
      BY <2>1, <1>a, <1>b DEF WritersStand, ReadersStand, TypeOK
    <2>5. ReadEnds'
      <3>1. \A q \in Readers : got'[q] \subseteq got[q] /\ (got'[q] = got[q] \/ got'[q] = {})
        BY <2>1, <1>a DEF TypeOK
      <3>2. \A q \in Readers : Others(q)' = Others(q) \/ Others(q)' = {}
        BY <3>1 DEF Others
      <3> QED
        BY <2>1, <3>1, <3>2, <1>a DEF ReadEnds, HasTop
    <2> QED
      BY <2>1, <2>3, <2>4, <2>5, <1>b DEF StandInv
  <1>9. ASSUME NEW r \in Readers, Move(r) \/ MarkRead(r) PROVE StandInv'
    <2>1. UNCHANGED <<log, seq, heard, alone, crashes, told, lost>> /\ Done(r)
      BY <1>9 DEF Move, MarkRead, writes
    <2>2. cursor' \in [Peers -> Nat]
      BY <1>9, <1>a DEF Move, MarkRead, TypeOK
    <2>3. TypeOK'
      BY <2>1, <2>2, <1>a DEF TypeOK, Done, Rest, AllWays
    <2>4. WritersStand' /\ ReadersStand'
      BY <2>1, <1>a, <1>b DEF WritersStand, ReadersStand, TypeOK, Done, Rest
    <2>5. ReadEnds'
      <3>1. \A q \in Readers : got'[q] \subseteq got[q] /\ (got'[q] = got[q] \/ got'[q] = {})
        BY <2>1, <1>a DEF TypeOK, Done
      <3>2. \A q \in Readers : Others(q)' = Others(q) \/ Others(q)' = {}
        BY <3>1 DEF Others
      <3> QED
        BY <2>1, <3>1, <3>2, <1>a DEF ReadEnds, HasTop
    <2> QED
      BY <2>1, <2>3, <2>4, <2>5, <1>b DEF StandInv
  <1>10. ASSUME NEW x \in Procs, Crash(x) PROVE StandInv'
    <2>1. UNCHANGED <<log, cursor, told, lost>> /\ crashes' \in 0..MaxCrashes
      BY <1>10, <1>a DEF Crash, TypeOK
    <2>2. CASE x \in Writers /\ Rest(x) /\ Forget(x) /\ UNCHANGED reads
      <3>1. UNCHANGED <<way, since, got>>
        BY <2>2 DEF reads
      <3>2. TypeOK'
        BY <2>1, <2>2, <3>1, <1>a DEF TypeOK, Rest, Forget
      <3>3. WritersStand' /\ ReadersStand'
        BY <2>1, <2>2, <1>a, <1>b DEF WritersStand, ReadersStand, TypeOK, Rest, Forget
      <3>4. ReadEnds'
        BY <2>1, <2>2, <3>1, <1>a DEF ReadEnds, Others, Forget, TypeOK
      <3> QED
        BY <2>1, <3>2, <3>3, <3>4, <1>b DEF StandInv
    <2>3. CASE x \in Readers /\ Done(x) /\ UNCHANGED writes
      <3>1. UNCHANGED <<seq, heard, alone>>
        BY <2>3 DEF writes
      <3>2. TypeOK'
        BY <2>1, <2>3, <3>1, <1>a DEF TypeOK, Done, Rest, AllWays
      <3>3. WritersStand' /\ ReadersStand'
        BY <2>1, <2>3, <3>1, <1>a, <1>b DEF WritersStand, ReadersStand, TypeOK, Done, Rest
      <3>4. ReadEnds'
        <4>1. \A q \in Readers : got'[q] \subseteq got[q] /\ (got'[q] = got[q] \/ got'[q] = {})
          BY <2>3, <1>a DEF TypeOK, Done
        <4>2. \A q \in Readers : Others(q)' = Others(q) \/ Others(q)' = {}
          BY <4>1 DEF Others
        <4> QED
          BY <2>1, <3>1, <4>1, <4>2, <1>a DEF ReadEnds, HasTop
      <3> QED
        BY <2>1, <3>2, <3>3, <3>4, <1>b DEF StandInv
    <2> QED
      BY <1>10, <2>2, <2>3 DEF Crash
  <1> QED
    BY <1>1, <1>2, <1>3, <1>4, <1>5, <1>6, <1>7, <1>8, <1>9, <1>10 DEF Next, ReadStep

\* The room keeps to its types, also when two processes write as one member and
\* one replaces the other's frame.
THEOREM TypeCorrect == Spec => []TypeOK
  <1>1. StandInv => TypeOK
    BY DEF StandInv
  <1> QED
    BY <1>1, StandInit, StandNext, PTL DEF Spec

-----------------------------------------------------------------------------
(* When every member has one process that writes, no frame is replaced. *)

OneWriterEach == \A u, w \in Writers : PeerOf[u] = PeerOf[w] => u = w

NumbersAreFree ==
    \A w \in Writers : at[w] = "write" => \A f \in Lane(PeerOf[w]) : f.seq # seq[w]

\* What is put before a member has been read, and what was read is in the log.
FromLog ==
    /\ \A p \in Peers : told[p] \subseteq log
    /\ \A w \in Writers : heard[w] \subseteq log
    /\ \A r \in Readers : got[r] \subseteq log

LaneInv == StandInv /\ NumbersAreFree /\ FromLog

LEMMA LaneInit == Init => LaneInv
  BY StandInit DEF Init, LaneInv, NumbersAreFree, FromLog, Procs

LEMMA WriteAdds ==
  ASSUME LaneInv, NEW w \in Writers, NEW ends \in BOOLEAN, Write(w, ends)
  PROVE  New(w, ends) \notin log /\ log' = log \cup {New(w, ends)}
  <1>1. \A f \in log : Sender(f) # PeerOf[w] \/ f.seq # seq[w]
    BY DEF LaneInv, NumbersAreFree, Write, Lane
  <1>2. New(w, ends).seq = seq[w] /\ Sender(New(w, ends)) = PeerOf[w]
    BY DEF New, Sender
  <1> QED
    BY <1>1, <1>2 DEF Write

LEMMA LaneNext == OneWriterEach /\ LaneInv /\ [Next]_vars => LaneInv'
  <1> SUFFICES ASSUME OneWriterEach, LaneInv, [Next]_vars PROVE NumbersAreFree' /\ FromLog'
    BY StandNext DEF LaneInv
  <1> USE AgentRoomAssumption DEF AgentRoomAssumption, Procs
  <1>a. TypeOK /\ NumbersAreFree /\ FromLog /\ \A w \in Writers : w \notin Readers
    BY DEF LaneInv, StandInv
  <1>b. ASSUME UNCHANGED log PROVE \A p : Lane(p)' = Lane(p)
    BY <1>b DEF Lane
  <1>1. CASE UNCHANGED vars
    BY <1>1, <1>a, <1>b DEF vars, writes, reads, NumbersAreFree, FromLog
  <1>2. ASSUME NEW w \in Writers, Begin(w) PROVE NumbersAreFree' /\ FromLog'
    <2>1. /\ UNCHANGED <<log, told, got>> /\ at'[w] = "scan"
          /\ \A v \in Writers \ {w} : at'[v] = at[v] /\ seq'[v] = seq[v] /\ heard'[v] = heard[v]
      BY <1>2, <1>a DEF Begin, reads, TypeOK
    <2>2. heard'[w] \subseteq log
      BY <1>2, <1>a DEF Begin, Lane, TypeOK, FromLog
    <2> QED
      BY <2>1, <2>2, <1>a, <1>b DEF NumbersAreFree, FromLog
  <1>3. ASSUME NEW x \in Procs, Survey(x) PROVE NumbersAreFree' /\ FromLog'
    BY <1>3, <1>a, <1>b DEF Survey, writes, reads, NumbersAreFree, FromLog
  <1>4. ASSUME NEW w \in Writers, Check(w) PROVE NumbersAreFree' /\ FromLog'
    <2>1. /\ UNCHANGED <<log, told, got>> /\ \A v \in Writers : heard'[v] \subseteq heard[v]
          /\ \A v \in Writers \ {w} : at'[v] = at[v] /\ seq'[v] = seq[v]
      BY <1>4, <1>a DEF Check, Rest, Forget, reads, writes, TypeOK
    <2>2. at'[w] = "write" => seq'[w] = seq[w] /\ \A f \in Lane(PeerOf[w]) : f.seq # seq[w]
      BY <1>4, <1>a DEF Check, Rest, Forget, writes, TypeOK
    <2> QED
      BY <2>1, <2>2, <1>a, <1>b DEF NumbersAreFree, FromLog
  <1>5. ASSUME NEW w \in Writers, NEW ends \in BOOLEAN, Write(w, ends) PROVE NumbersAreFree' /\ FromLog'
    <2>1. log' = log \cup {New(w, ends)} /\ Sender(New(w, ends)) = PeerOf[w]
      BY <1>5, WriteAdds, WriteFacts DEF LaneInv
    <2>2. /\ UNCHANGED <<told, got>> /\ at'[w] = "idle"
          /\ \A v \in Writers \ {w} : at'[v] = at[v] /\ seq'[v] = seq[v]
          /\ \A v \in Writers : heard'[v] \subseteq heard[v]
      BY <1>5, <1>a DEF Write, Rest, Forget, reads, TypeOK
    <2>3. \A v \in Writers \ {w} : Lane(PeerOf[v])' = Lane(PeerOf[v])
      BY <2>1 DEF OneWriterEach, Lane
    <2>4. NumbersAreFree'
      BY <2>2, <2>3, <1>a DEF NumbersAreFree
    <2> QED
      BY <2>1, <2>2, <2>4, <1>a DEF FromLog
  <1>6. ASSUME NEW r \in Readers, ReadStep(r) \/ \E how \in AllWays : Look(r, how)
        PROVE  NumbersAreFree' /\ FromLog'
    <2>1. CASE Tell(r) \/ Fail(r)
      <3>1. /\ UNCHANGED <<log, seq, heard>> /\ \A w \in Writers : at'[w] = at[w]
            /\ got' = [got EXCEPT ![r] = {}]
            /\ \E C \in SUBSET got[r] : told' = [told EXCEPT ![PeerOf[r]] = @ \cup C]
        <4>1. /\ UNCHANGED <<log, seq, heard>> /\ at' = [at EXCEPT ![r] = at'[r]]
              /\ got' = [got EXCEPT ![r] = {}]
              /\ \E C \in SUBSET got[r] : told' = [told EXCEPT ![PeerOf[r]] = @ \cup C]
          BY <2>1, TurnFacts DEF LaneInv
        <4>2. \A w \in Writers : w # r /\ w \in Procs
          BY <1>a
        <4>3. \A w \in Writers : at'[w] = at[w]
          BY <4>1, <4>2, <1>a DEF TypeOK
        <4> QED
          BY <4>1, <4>3
      <3>2. PICK C \in SUBSET got[r] : told' = [told EXCEPT ![PeerOf[r]] = @ \cup C]
        BY <3>1
      <3>3. \A p \in Peers : told'[p] \subseteq log
        BY <3>2, <1>a DEF TypeOK, FromLog
      <3>4. \A q \in Readers : got'[q] \subseteq log
        BY <3>1, <1>a DEF TypeOK, FromLog
      <3> QED
        BY <3>1, <3>3, <3>4, <1>a, <1>b DEF NumbersAreFree, FromLog
    <2>2. CASE ReadLane(r) \/ Move(r) \/ MarkRead(r) \/ \E how \in AllWays : Look(r, how)
      <3>1. UNCHANGED <<log, seq, heard, told>> /\ \A w \in Writers : at'[w] = at[w]
        BY <2>2, <1>a DEF Look, ReadLane, Move, MarkRead, Done, Rest, writes, TypeOK
      <3>2. \A q \in Readers : got'[q] \subseteq log
        BY <2>2, <1>a DEF Look, ReadLane, Move, MarkRead, Done, Unread, Lane, TypeOK, FromLog
      <3> QED
        BY <3>1, <3>2, <1>a, <1>b DEF NumbersAreFree, FromLog
    <2> QED
      BY <1>6, <2>1, <2>2 DEF ReadStep
  <1>7. ASSUME NEW x \in Procs, Crash(x) PROVE NumbersAreFree' /\ FromLog'
    <2>1. /\ UNCHANGED <<log, told>> /\ \A r \in Readers : got'[r] \subseteq got[r]
          /\ \A w \in Writers : heard'[w] \subseteq heard[w]
      BY <1>7, <1>a DEF Crash, Rest, Forget, Done, reads, writes, TypeOK
    <2>2. \A w \in Writers : at'[w] = "write" => at[w] = "write" /\ seq'[w] = seq[w]
      BY <1>7, <1>a DEF Crash, Rest, Forget, Done, reads, writes, TypeOK
    <2>3. NumbersAreFree'
      BY <2>1, <2>2, <1>a, <1>b DEF NumbersAreFree
    <2>4. FromLog'
      BY <2>1, <1>a DEF FromLog
    <2> QED
      BY <2>3, <2>4
  <1> QED
    BY <1>1, <1>2, <1>3, <1>4, <1>5, <1>6, <1>7 DEF Next

-----------------------------------------------------------------------------
(* Positions. *)

\* A writer that noted nobody else writing is still the only one.
OnlyWriter == \A w \in Writers : alone[w] => \A u \in Writers \ {w} : at[u] = "idle"

\* Of the lanes it has read, a writer is past every frame that was written amid
\* nothing, past those its member knows, and past all if nobody else writes.
Surveyed ==
    \A w \in Writers : at[w] \in {"scan", "write"} =>
        \A g \in log : Sender(g) < lane[w] /\ (~g.met \/ alone[w] \/ g \in heard[w])
                           => g.lamport <= top[w]

\* A frame written amid nothing shares its position with no other.
Apart == \A f, g \in log : f # g /\ ~f.met => f.lamport # g.lamport

PositionInv == LaneInv /\ OnlyWriter /\ Surveyed /\ Apart

LEMMA NewFrame ==
  ASSUME PositionInv, NEW w \in Writers, NEW ends \in BOOLEAN, Write(w, ends)
  PROVE  LET n == New(w, ends) IN
         /\ n.lamport \in Nat /\ n.lamport > 0
         /\ \A g \in log : g.lamport \in Nat /\ (~g.met \/ ~n.met \/ g \in heard[w] => g.lamport < n.lamport)
         /\ ~n.met => alone[w] /\ \A r \in Readers : at[r] \notin {"scan", "rescan"}
  <1> USE AgentRoomAssumption DEF AgentRoomAssumption
  <1> DEFINE n == New(w, ends)
  <1>1. at[w] = "write" /\ lane[w] = Members + 1 /\ top[w] \in Nat
    BY DEF PositionInv, LaneInv, StandInv, TypeOK, WritersStand, Write, Procs
  <1>2. n.lamport = top[w] + 1 /\ (~n.met => alone[w] /\ \A r \in Readers : ~Reading(r))
    BY DEF New
  <1>3. ASSUME NEW g \in log
        PROVE  g.lamport \in Nat /\ (~g.met \/ ~n.met \/ g \in heard[w] => g.lamport < n.lamport)
    <2>1. g \in Frame
      BY DEF PositionInv, LaneInv, StandInv, TypeOK
    <2>2. g.lamport \in Nat /\ Sender(g) < lane[w]
      BY <2>1, <1>1, FrameFields DEF Peers
    <2>3. ~g.met \/ ~n.met \/ g \in heard[w] => g.lamport <= top[w]
      BY <1>1, <1>2, <2>2 DEF PositionInv, Surveyed
    <2> QED
      BY <2>2, <2>3, <1>1, <1>2
  <1> QED
    BY <1>1, <1>2, <1>3 DEF Reading

LEMMA PositionInit == Init => PositionInv
  BY LaneInit DEF Init, PositionInv, OnlyWriter, Surveyed, Apart

LEMMA PositionNext == OneWriterEach /\ PositionInv /\ [Next]_vars => PositionInv'
  <1> SUFFICES ASSUME OneWriterEach, PositionInv, [Next]_vars PROVE PositionInv'
    OBVIOUS
  <1> USE AgentRoomAssumption DEF AgentRoomAssumption
  <1>a. LaneInv' /\ LaneInv /\ StandInv' /\ StandInv
    BY LaneNext DEF PositionInv, LaneInv
  <1>b. TypeOK /\ OnlyWriter /\ Surveyed /\ Apart /\ WritersStand
    BY DEF PositionInv, LaneInv, StandInv
  <1>c. /\ at \in [Procs -> {"idle", "scan", "write", "rescan", "move"}]
        /\ lane \in [Procs -> 1..(Members + 1)] /\ top \in [Procs -> Nat]
        /\ alone \in [Writers -> BOOLEAN] /\ heard \in [Writers -> SUBSET Frame]
        /\ \A w \in Writers : w \in Procs /\ w \notin Readers
    BY <1>b DEF TypeOK, Procs
  \* A step of a reader leaves all this alone.
  <1>d. ASSUME UNCHANGED <<log, alone, heard>>,
               \A w \in Writers : at'[w] = at[w] /\ lane'[w] = lane[w] /\ top'[w] = top[w]
        PROVE  PositionInv'
    BY <1>a, <1>b, <1>d DEF PositionInv, OnlyWriter, Surveyed, Apart
  \* A writer that stops keeps nothing.
  <1>e. ASSUME NEW w \in Writers, Rest(w), Forget(w), UNCHANGED log
        PROVE  PositionInv'
    <2>1. /\ at'[w] = "idle" /\ ~alone'[w]
          /\ \A v \in Writers \ {w} : /\ at'[v] = at[v] /\ lane'[v] = lane[v] /\ top'[v] = top[v]
                                      /\ alone'[v] = alone[v] /\ heard'[v] = heard[v]
      BY <1>e, <1>c DEF Rest, Forget
    <2>2. OnlyWriter'
      BY <2>1, <1>b DEF OnlyWriter
    <2>3. Surveyed'
      BY <2>1, <1>b, <1>e DEF Surveyed
    <2> QED
      BY <2>2, <2>3, <1>a, <1>b, <1>e DEF PositionInv, Apart
  <1>1. CASE UNCHANGED vars
    BY <1>1, <1>d DEF vars, writes
  <1>2. ASSUME NEW w \in Writers, Begin(w) PROVE PositionInv'
    <2>1. UNCHANGED <<log, lane, top>> /\ at' = [at EXCEPT ![w] = "scan"]
      BY <1>2 DEF Begin
    <2>2. lane[w] = 1 /\ \A g \in log : ~(Sender(g) < lane[w])
      <3>1. lane[w] = 1
        BY <1>2, <1>b DEF Begin, WritersStand
      <3>2. \A g \in log : Sender(g) \in Peers
        BY <1>b, FrameFields DEF TypeOK
      <3> QED
        BY <3>1, <3>2 DEF Peers
    <2>3. /\ \A v \in Writers \ {w} : ~alone'[v] /\ heard'[v] = heard[v] /\ at'[v] = at[v]
          /\ alone'[w] => \A u \in Writers : ~Writing(u)
      BY <1>2, <1>c, <2>1 DEF Begin
    <2>4. OnlyWriter'
      BY <2>3 DEF OnlyWriter, Writing
    <2>5. Surveyed'
      BY <2>1, <2>2, <2>3, <1>b DEF Surveyed
    <2> QED
      BY <2>1, <2>4, <2>5, <1>a, <1>b DEF PositionInv, Apart
  <1>3. ASSUME NEW x \in Procs, Survey(x) PROVE PositionInv'
    <2>1. UNCHANGED <<log, at, alone, heard>> /\ lane' = [lane EXCEPT ![x] = @ + 1]
      BY <1>3 DEF Survey, writes
    <2>2. /\ top' = [top EXCEPT ![x] = top'[x]] /\ top'[x] \in Nat /\ top'[x] >= top[x]
          /\ \A f \in Lane(lane[x]) : f.lamport <= top'[x]
      BY <1>3, <1>a, SurveyFacts
    <2>3. Surveyed'
      <3> SUFFICES ASSUME NEW w \in Writers, at[w] \in {"scan", "write"}, NEW g \in log,
                          Sender(g) < lane'[w], ~g.met \/ alone[w] \/ g \in heard[w]
                   PROVE  g.lamport <= top'[w]
        BY <2>1 DEF Surveyed
      <3>0. g.lamport \in Nat /\ Sender(g) \in Nat /\ lane[w] \in Nat /\ top[w] \in Nat
        <4>1. g \in Frame /\ w \in Procs
          BY <1>b DEF TypeOK, Procs
        <4>2. lane[w] \in Peers \cup {Members + 1} /\ top[w] \in Nat
          BY <4>1, <1>b, AgentRoomAssumption DEF TypeOK, Peers
        <4> QED
          BY <4>1, <4>2, FrameFields, AgentRoomAssumption DEF Peers
      <3>1. CASE w # x
        <4>1. lane'[w] = lane[w] /\ top'[w] = top[w]
          BY <2>1, <2>2, <3>1, <1>c
        <4> QED
          BY <4>1, <1>b DEF Surveyed
      <3>2. CASE w = x
        <4>1. lane'[w] = lane[w] + 1
          BY <2>1, <3>2, <1>c
        <4>2. CASE Sender(g) = lane[w]
          BY <4>2, <2>2, <3>2 DEF Lane
        <4>3. CASE Sender(g) < lane[w]
          <5>1. g.lamport <= top[w]
            BY <4>3, <1>b DEF Surveyed
          <5> QED
            BY <5>1, <2>2, <3>0, <3>2
        <4> QED
          BY <4>1, <4>2, <4>3, <3>0
      <3> QED
        BY <3>1, <3>2
    <2> QED
      BY <2>1, <2>3, <1>a, <1>b DEF PositionInv, OnlyWriter, Apart
  <1>4. ASSUME NEW w \in Writers, Check(w) PROVE PositionInv'
    <2>1. UNCHANGED log /\ at[w] = "scan"
      BY <1>4 DEF Check
    <2>2. CASE Rest(w) /\ Forget(w)
      BY <2>1, <2>2, <1>e
    <2>3. CASE at' = [at EXCEPT ![w] = "write"] /\ UNCHANGED <<lane, top, writes>>
      <3>1. /\ UNCHANGED <<lane, top, alone, heard>> /\ at'[w] = "write"
            /\ \A v \in Writers \ {w} : at'[v] = at[v]
        BY <2>3, <1>c DEF writes
      <3>2. OnlyWriter'
        BY <3>1, <2>1, <1>b DEF OnlyWriter
      <3>3. Surveyed'
        BY <3>1, <2>1, <1>b DEF Surveyed
      <3> QED
        BY <2>1, <3>2, <3>3, <1>a, <1>b DEF PositionInv, Apart
    <2> QED
      BY <1>4, <2>2, <2>3 DEF Check
  <1>5. ASSUME NEW w \in Writers, NEW ends \in BOOLEAN, Write(w, ends) PROVE PositionInv'
    <2> DEFINE n == New(w, ends)
    <2>1. n \notin log /\ log' = log \cup {n}
      BY <1>5, <1>a, WriteAdds
    <2>2. at[w] = "write" /\ Rest(w) /\ Forget(w)
      BY <1>5 DEF Write
    <2>3. /\ at'[w] = "idle" /\ ~alone'[w]
          /\ \A v \in Writers \ {w} : /\ at'[v] = at[v] /\ lane'[v] = lane[v] /\ top'[v] = top[v]
                                      /\ alone'[v] = alone[v] /\ heard'[v] = heard[v]
      BY <2>2, <1>c DEF Rest, Forget
    <2>4. /\ n.lamport \in Nat
          /\ \A g \in log : g.lamport \in Nat /\ (~g.met \/ ~n.met => g.lamport < n.lamport)
          /\ ~n.met => alone[w]
      BY <1>5, NewFrame
    <2>5. OnlyWriter'
      BY <2>3, <1>b DEF OnlyWriter
    <2>6. Surveyed'
      <3> SUFFICES ASSUME NEW v \in Writers, at'[v] \in {"scan", "write"}, NEW g \in log',
                          Sender(g) < lane'[v], ~g.met \/ alone'[v] \/ g \in heard'[v]
                   PROVE  g.lamport <= top'[v]
        BY DEF Surveyed
      <3>1. v # w /\ at[v] # "idle"
        BY <2>3
      <3>2. ~alone[w] /\ ~alone[v]
        BY <3>1, <2>2, <1>b DEF OnlyWriter
      <3>3. n \notin heard[v]
        BY <2>1, <1>a DEF LaneInv, FromLog
      <3>4. g # n
        BY <2>3, <2>4, <3>1, <3>2, <3>3
      <3> QED
        BY <3>1, <3>4, <2>1, <2>3, <1>b DEF Surveyed
    <2>7. Apart'
      <3> SUFFICES ASSUME NEW f \in log \cup {n}, NEW g \in log \cup {n}, f # g, ~f.met
                   PROVE  f.lamport # g.lamport
        BY <2>1 DEF Apart
      <3>1. CASE f \in log /\ g \in log
        BY <3>1, <1>b DEF Apart
      <3>2. CASE f = n /\ g \in log
        BY <3>2, <2>4
      <3>3. CASE g = n /\ f \in log
        BY <3>3, <2>4
      <3> QED
        BY <3>1, <3>2, <3>3
    <2> QED
      BY <2>5, <2>6, <2>7, <1>a DEF PositionInv
  <1>6. ASSUME NEW r \in Readers, ReadStep(r) \/ \E how \in AllWays : Look(r, how) PROVE PositionInv'
    <2>1. UNCHANGED <<log, alone, heard>>
      BY <1>6 DEF ReadStep, Look, ReadLane, Tell, Fail, Move, MarkRead, writes
    <2>2. \A x \in Procs \ {r} : at'[x] = at[x] /\ lane'[x] = lane[x] /\ top'[x] = top[x]
      <3>1. CASE \E how \in AllWays : Look(r, how)
        BY <3>1, <1>c DEF Look
      <3>2. CASE ReadLane(r)
        BY <3>2, <1>c DEF ReadLane
      <3>3. CASE Tell(r) \/ Fail(r)
        <4>1. /\ at' = [at EXCEPT ![r] = at'[r]] /\ lane' = [lane EXCEPT ![r] = 1]
              /\ top' = [top EXCEPT ![r] = top'[r]]
          BY <3>3, TurnFacts DEF PositionInv, LaneInv
        <4> QED
          BY <4>1, <1>c
      <3>4. CASE Move(r) \/ MarkRead(r)
        BY <3>4, <1>c DEF Move, MarkRead, Done, Rest
      <3> QED
        BY <1>6, <3>1, <3>2, <3>3, <3>4 DEF ReadStep
    <2> QED
      BY <2>1, <2>2, <1>c, <1>d
  <1>7. ASSUME NEW x \in Procs, Crash(x) PROVE PositionInv'
    <2>1. UNCHANGED log
      BY <1>7 DEF Crash
    <2>2. CASE x \in Writers /\ Rest(x) /\ Forget(x)
      BY <2>1, <2>2, <1>e
    <2>3. CASE x \in Readers /\ Done(x) /\ UNCHANGED writes
      BY <2>1, <2>3, <1>c, <1>d DEF Done, Rest, writes
    <2> QED
      BY <1>7, <2>2, <2>3 DEF Crash
  <1> QED
    BY <1>1, <1>2, <1>3, <1>4, <1>5, <1>6, <1>7 DEF Next

\* Whatever the instance, a frame stands after everything its member had heard
\* or said before it was begun.
THEOREM AnswersStandAfter ==
  ASSUME OneWriterEach
  PROVE  Spec => AnswersComeAfter
  <1>1. PositionInv /\ [Next]_vars =>
            [\A f \in log' \ log : \A g \in heard[f.by] : Before(g, f)]_vars
    <2> SUFFICES ASSUME PositionInv, Next, NEW f \in log' \ log, NEW g \in heard[f.by]
                 PROVE  Before(g, f)
      BY DEF vars
    <2>1. PICK w \in Writers, ends \in BOOLEAN : Write(w, ends)
      <3>1. log' # log
        OBVIOUS
      <3> QED
        BY <3>1 DEF Next, ReadStep, Begin, Survey, Check, Look, ReadLane, Tell, Fail, Move, MarkRead, Crash
    <2>2. f = New(w, ends)
      BY <2>1, WriteAdds DEF PositionInv
    <2>3. f.by = w
      BY <2>2 DEF New
    <2>4. heard[w] \subseteq log
      BY DEF PositionInv, LaneInv, FromLog
    <2>5. g.lamport < f.lamport
      BY <2>1, <2>2, <2>3, <2>4, NewFrame
    <2> QED
      BY <2>5 DEF Before
  <1> QED
    BY <1>1, PositionInit, PositionNext, PTL DEF Spec, AnswersComeAfter

-----------------------------------------------------------------------------
(* Reading. *)

\* A position somebody has met in the lanes, or none.
Known(F, k) == k = 0 \/ \E f \in F : k <= f.lamport

\* What was put before a member, went with a turn that failed, or was left behind
\* as many later frames as are shown at once.
Seen(p) == {f \in Frame : f \in told[p] \cup lost[p] \/ Crowded(p, f)}

\* What is seen stays seen.
LEMMA SeenGrows ==
  ASSUME NEW p, told[p] \subseteq told'[p], lost[p] \subseteq lost'[p]
  PROVE  Seen(p) \subseteq Seen(p)'
  <1>1. ASSUME NEW f, Crowded(p, f) PROVE Crowded(p, f)'
    BY <1>1 DEF Crowded
  <1> QED
    BY <1>1 DEF Seen

\* Of what others wrote, up to the position k, all is in T, but for what was
\* written amid something.
Passed(F, T, p, k) == \A f \in F : Sender(f) # p /\ f.lamport <= k => f \in T \/ f.met

CursorsPassed ==
    \A p \in Peers : Known(log, cursor[p]) /\ Passed(log, Seen(p), p, cursor[p])

\* A reader has read the lanes behind it, has told what it moves the cursor past,
\* and a view has told the whole room.
ReadersRead ==
    \A r \in Readers :
        /\ Known(log, top[r])
        /\ at[r] = "scan" =>
               /\ Passed(log, Seen(PeerOf[r]), PeerOf[r], since[r])
               /\ \A f \in log : Sender(f) < lane[r] /\ since[r] < f.lamport => f \in got[r] \/ f.met
        /\ at[r] = "move" => Passed(log, Seen(PeerOf[r]), PeerOf[r], top[r])
        /\ at[r] = "rescan" => \A f \in log : Sender(f) # PeerOf[r] => f \in Seen(PeerOf[r]) \/ f.met

ReadInv == PositionInv /\ CursorsPassed /\ ReadersRead

\* Nothing is passed over by a frame that is new.
LEMMA NewIsBeyond ==
  ASSUME NEW F \in SUBSET Frame, NEW T, NEW p, NEW k \in Nat, NEW n,
         n.lamport \in Nat, n.lamport > 0,
         n.met \/ \A g \in F : g.lamport < n.lamport,
         Known(F, k), Passed(F, T, p, k)
  PROVE  Known(F \cup {n}, k) /\ Passed(F \cup {n}, T, p, k)
  <1>1. Known(F \cup {n}, k)
    BY DEF Known
  <1>2. ASSUME ~n.met PROVE ~(n.lamport <= k)
    <2>1. CASE k = 0
      BY <2>1
    <2>2. CASE k # 0
      <3>1. PICK g \in F : k <= g.lamport
        BY <2>2 DEF Known
      <3>2. g.lamport \in Nat /\ g.lamport < n.lamport
        BY <1>2, FrameFields
      <3> QED
        BY <3>1, <3>2
    <2> QED
      BY <2>1, <2>2
  <1> QED
    BY <1>1, <1>2 DEF Passed

LEMMA ReadInit == Init => ReadInv
  <1> SUFFICES ASSUME Init PROVE ReadInv
    OBVIOUS
  <1> USE AgentRoomAssumption DEF AgentRoomAssumption, Procs
  <1>1. CursorsPassed
    BY DEF Init, CursorsPassed, Known, Passed
  <1>2. ReadersRead
    BY DEF Init, ReadersRead, Known
  <1> QED
    BY <1>1, <1>2, PositionInit DEF ReadInv

\* What a turn comes by is seen after it, but of a wait only the first.
LEMMA TurnSees ==
  ASSUME ReadInv, NEW r \in Readers, Tell(r) \/ Fail(r), NEW f \in log,
         Sender(f) # PeerOf[r], ~f.met,
         at'[r] = "rescan" \/ (at'[r] = "move" /\ f.lamport <= top'[r])
  PROVE  f \in Seen(PeerOf[r])'
  <1> USE AgentRoomAssumption DEF AgentRoomAssumption
  <1>1. /\ StandInv /\ Apart /\ log \subseteq Frame /\ r \in Procs /\ PeerOf[r] \in Peers
        /\ lane[r] = Members + 1 /\ at[r] = "scan" /\ since[r] \in Nat
        /\ told \in [Peers -> SUBSET Frame] /\ lost \in [Peers -> SUBSET Frame]
    BY DEF ReadInv, PositionInv, LaneInv, StandInv, TypeOK, Tell, Fail, Procs
  <1>2. f \in Frame /\ f.lamport \in Nat /\ Sender(f) < lane[r]
    BY <1>1, FrameFields DEF Peers
  <1>3. CASE f.lamport <= since[r]
    <2>1. f \in Seen(PeerOf[r])
      BY <1>1, <1>3 DEF ReadInv, ReadersRead, Passed
    <2>2. told[PeerOf[r]] \subseteq told'[PeerOf[r]] /\ lost[PeerOf[r]] \subseteq lost'[PeerOf[r]]
      BY <1>1 DEF Tell, Fail
    <2> QED
      BY <2>1, <2>2, SeenGrows
  <1>4. CASE since[r] < f.lamport
    <2>1. f \in Others(r) /\ f \in Rows(r)
      BY <1>1, <1>2, <1>4 DEF ReadInv, ReadersRead, Others, Rows
    <2>2. CASE Fail(r)
      BY <2>1, <2>2, <1>1, <1>2 DEF Fail, Seen
    <2>3. CASE Tell(r)
      <3>1. PICK C \in Shown(r) :
              /\ told' = [told EXCEPT ![PeerOf[r]] = @ \cup C] /\ C \subseteq got[r]
              /\ \/ way[r] = "view" /\ at'[r] = "rescan" /\ at' = [at EXCEPT ![r] = "rescan"]
                    /\ lane' = [lane EXCEPT ![r] = 1] /\ got' = [got EXCEPT ![r] = {}]
                    /\ UNCHANGED <<top, way, since>>
                 \/ way[r] # "view" /\ Goes(r, C) \in SUBSET Others(r) /\ Passing(r, Goes(r, C))
        BY <2>3, <1>1, TellFacts
      <3>2. told'[PeerOf[r]] = told[PeerOf[r]] \cup C
        BY <3>1, <1>1
      <3>3. CASE f \in C
        BY <3>2, <3>3, <1>2 DEF Seen
      <3>4. CASE f \notin C /\ way[r] = "wait"
        <4>1. C = First(Others(r)) /\ Goes(r, C) = C
          BY <3>1, <3>4 DEF Shown, Goes
        <4>2. at'[r] = "move" /\ Passing(r, C) /\ C \in SUBSET Others(r)
          <5>1. Passing(r, Goes(r, C)) /\ Goes(r, C) \in SUBSET Others(r)
            BY <3>1, <3>4
          <5>2. Passing(r, C) /\ C \in SUBSET Others(r)
            BY <4>1, <5>1
          <5>3. at'[r] \in {"idle", "move"}
            BY <5>2, <1>1, PassingFacts
          <5> QED
            BY <5>2, <5>3
        <4>3. PICK s \in C : top'[r] = s.lamport
          BY <4>2, <1>1, PassingFacts
        <4>4. s \in Others(r) /\ s \in log /\ s.lamport \in Nat
          BY <4>2, <1>1, ShownFacts, FrameFields DEF ReadInv, PositionInv, LaneInv, FromLog
        <4>5. Before(s, f)
          BY <2>1, <3>4, <4>1, <4>3 DEF First
        <4>6. f.lamport # s.lamport
          BY <4>3, <4>4, <3>4, <1>1 DEF Apart
        <4>7. f.lamport <= s.lamport
          BY <4>2, <4>3
        <4> QED
          BY <4>5, <4>6, <4>7, <4>4, <1>2 DEF Before
      <3>5. CASE f \notin C /\ way[r] = "read"
        BY <2>1, <3>1, <3>5 DEF Shown
      <3>6. CASE f \notin C /\ way[r] # "wait" /\ way[r] # "read"
        <4>1. C \in Newest(Rows(r), Limit[r])
          BY <3>1, <3>6 DEF Shown
        <4>2. Cardinality(C) = Limit[r] /\ \A g \in C : Before(f, g)
          BY <2>1, <3>6, <4>1 DEF Newest
        <4>3. C \in SUBSET told'[PeerOf[r]]
          BY <3>2
        <4>4. Crowded(PeerOf[r], f)'
          BY <4>2, <4>3 DEF Crowded
        <4> QED
          BY <4>4, <1>2 DEF Seen
      <3> QED
        BY <3>3, <3>4, <3>5, <3>6
    <2> QED
      BY <2>2, <2>3
  <1> QED
    BY <1>1, <1>2, <1>3, <1>4

LEMMA ReadNext == OneWriterEach /\ ReadInv /\ [Next]_vars => ReadInv'
  <1> SUFFICES ASSUME OneWriterEach, ReadInv, [Next]_vars PROVE ReadInv'
    OBVIOUS
  <1> USE AgentRoomAssumption DEF AgentRoomAssumption
  <1>a. PositionInv' /\ PositionInv
    BY PositionNext DEF ReadInv
  <1>b. TypeOK /\ CursorsPassed /\ ReadersRead /\ ReadersStand
    BY DEF ReadInv, PositionInv, LaneInv, StandInv
  <1>c. /\ at \in [Procs -> {"idle", "scan", "write", "rescan", "move"}]
        /\ lane \in [Procs -> 1..(Members + 1)] /\ top \in [Procs -> Nat]
        /\ got \in [Readers -> SUBSET Frame] /\ since \in [Readers -> Nat]
        /\ cursor \in [Peers -> Nat] /\ log \subseteq Frame
        /\ told \in [Peers -> SUBSET Frame] /\ lost \in [Peers -> SUBSET Frame]
        /\ \A r \in Readers : r \in Procs /\ r \notin Writers /\ PeerOf[r] \in Peers
        /\ \A f \in log : Sender(f) \in Peers /\ f.lamport \in Nat
    BY <1>b, FrameFields DEF TypeOK, Procs
  \* What others do to a reader that stays: nothing, or its member is told more.
  <1>d. ASSUME NEW q \in Readers, UNCHANGED log,
               at'[q] = at[q], lane'[q] = lane[q], top'[q] = top[q],
               got'[q] = got[q], since'[q] = since[q],
               Seen(PeerOf[q]) \subseteq Seen(PeerOf[q])'
        PROVE  /\ Known(log', top'[q])
               /\ at'[q] = "scan" =>
                      /\ Passed(log', Seen(PeerOf[q])', PeerOf[q], since'[q])
                      /\ \A f \in log' : Sender(f) < lane'[q] /\ since'[q] < f.lamport => f \in got'[q] \/ f.met
               /\ at'[q] = "move" => Passed(log', Seen(PeerOf[q])', PeerOf[q], top'[q])
               /\ at'[q] = "rescan" => \A f \in log' : Sender(f) # PeerOf[q] => f \in Seen(PeerOf[q])' \/ f.met
    BY <1>b, <1>d DEF ReadersRead, Passed
  \* Who is told or loses nothing has seen what it had seen.
  <1>g. ASSUME UNCHANGED <<told, lost>> PROVE \A p \in Peers : Seen(p)' = Seen(p)
    BY <1>g DEF Seen, Crowded
  \* A reader that stops keeps nothing.
  <1>e. ASSUME NEW r \in Readers, Done(r), UNCHANGED <<log, told, lost>>
        PROVE  ReadersRead'
    <2>1. at'[r] = "idle" /\ top'[r] = 0
      BY <1>e, <1>c DEF Done, Rest
    <2>2. ASSUME NEW q \in Readers, q # r
          PROVE  /\ at'[q] = at[q] /\ lane'[q] = lane[q] /\ top'[q] = top[q]
                 /\ got'[q] = got[q] /\ since'[q] = since[q]
      BY <1>e, <1>c, <2>2 DEF Done, Rest
    <2> QED
      BY <1>c, <1>d, <1>e, <1>g, <2>1, <2>2 DEF ReadersRead, Known
  \* A step that leaves the readers alone.
  <1>f. ASSUME UNCHANGED <<log, cursor, since, got, told, lost>>,
               \A r \in Readers : at'[r] = at[r] /\ lane'[r] = lane[r] /\ top'[r] = top[r]
        PROVE  ReadInv'
    <2>1. CursorsPassed'
      BY <1>f, <1>g, <1>b DEF CursorsPassed
    <2>2. ReadersRead'
      BY <1>c, <1>d, <1>f, <1>g DEF ReadersRead
    <2> QED
      BY <2>1, <2>2, <1>a DEF ReadInv
  <1>1. CASE UNCHANGED vars
    BY <1>1, <1>f DEF vars, reads
  <1>2. ASSUME NEW w \in Writers, Begin(w) \/ Check(w) PROVE ReadInv'
    <2>1. UNCHANGED <<log, cursor, since, got, told, lost>>
      BY <1>2 DEF Begin, Check, reads
    <2>2. \A r \in Readers : at'[r] = at[r] /\ lane'[r] = lane[r] /\ top'[r] = top[r]
      BY <1>2, <1>c DEF Begin, Check, Rest
    <2> QED
      BY <2>1, <2>2, <1>f
  <1>3. ASSUME NEW w \in Writers, NEW ends \in BOOLEAN, Write(w, ends) PROVE ReadInv'
    <2> DEFINE n == New(w, ends)
    <2>1. log' = log \cup {n} /\ UNCHANGED <<cursor, since, got, told, lost>>
      BY <1>3, <1>a, WriteAdds DEF PositionInv, Write, reads
    <2>2. /\ n.lamport \in Nat /\ n.lamport > 0
          /\ n.met \/ \A g \in log : g.lamport < n.lamport
          /\ ~n.met => \A r \in Readers : at[r] \notin {"scan", "rescan"}
      BY <1>3, <1>a, NewFrame
    <2>3. \A r \in Readers : at'[r] = at[r] /\ lane'[r] = lane[r] /\ top'[r] = top[r]
      BY <1>3, <1>c DEF Write, Rest
    <2>4. CursorsPassed'
      <3> SUFFICES ASSUME NEW p \in Peers
                   PROVE  Known(log \cup {n}, cursor[p]) /\ Passed(log \cup {n}, Seen(p), p, cursor[p])
        BY <2>1, <1>g DEF CursorsPassed
      <3>1. Known(log, cursor[p]) /\ Passed(log, Seen(p), p, cursor[p]) /\ cursor[p] \in Nat
        BY <1>b, <1>c DEF CursorsPassed
      <3> HIDE DEF n
      <3> QED
        BY <3>1, <2>2, <1>c, NewIsBeyond
    <2>5. ReadersRead'
      <3> SUFFICES ASSUME NEW r \in Readers
                   PROVE  /\ Known(log', top[r])
                          /\ at[r] = "scan" =>
                                 /\ Passed(log', Seen(PeerOf[r]), PeerOf[r], since[r])
                                 /\ \A f \in log' : Sender(f) < lane[r] /\ since[r] < f.lamport => f \in got[r] \/ f.met
                          /\ at[r] = "move" => Passed(log', Seen(PeerOf[r]), PeerOf[r], top[r])
                          /\ at[r] = "rescan" => \A f \in log' : Sender(f) # PeerOf[r] => f \in Seen(PeerOf[r]) \/ f.met
        BY <2>1, <2>3, <1>c, <1>g DEF ReadersRead
      <3>1. Known(log', top[r])
        BY <1>b, <2>1 DEF ReadersRead, Known
      <3>2. CASE at[r] = "move"
        <4>1. Known(log, top[r]) /\ Passed(log, Seen(PeerOf[r]), PeerOf[r], top[r]) /\ top[r] \in Nat
          BY <3>2, <1>b, <1>c DEF ReadersRead
        <4>2. Passed(log \cup {n}, Seen(PeerOf[r]), PeerOf[r], top[r])
          <5> HIDE DEF n
          <5> QED
            BY <4>1, <2>2, <1>c, NewIsBeyond
        <4> QED
          BY <3>1, <3>2, <4>2, <2>1
      <3>3. CASE at[r] = "scan"
        BY <3>1, <3>3, <1>b, <2>1, <2>2 DEF ReadersRead, Passed
      <3>4. CASE at[r] = "rescan"
        BY <3>1, <3>4, <1>b, <2>1, <2>2 DEF ReadersRead
      <3> QED
        BY <3>1, <3>2, <3>3, <3>4
    <2> QED
      BY <2>4, <2>5, <1>a DEF ReadInv
  <1>4. ASSUME NEW r \in Readers, NEW how \in AllWays, Look(r, how) PROVE ReadInv'
    <2>1. /\ UNCHANGED <<log, cursor, lane, top, got, told, lost>> /\ at[r] = "idle" /\ at'[r] = "scan"
          /\ since'[r] = 0 \/ since'[r] = cursor[PeerOf[r]]
          /\ \A q \in Readers \ {r} : at'[q] = at[q] /\ since'[q] = since[q]
      BY <1>4, <1>c DEF Look
    <2>2. Passed(log', Seen(PeerOf[r])', PeerOf[r], since'[r])
      <3>1. CASE since'[r] = 0
        <4>1. \A f \in log : f.lamport > 0
          BY <1>c, FrameFields
        <4> QED
          BY <3>1, <4>1, <1>c, <2>1 DEF Passed
      <3>2. CASE since'[r] = cursor[PeerOf[r]]
        BY <3>2, <1>b, <1>c, <1>g, <2>1 DEF CursorsPassed
      <3> QED
        BY <2>1, <3>1, <3>2
    <2>3. \A f \in log' : ~(Sender(f) < lane'[r])
      <3>1. lane[r] = 1
        BY <2>1, <1>b DEF ReadersStand
      <3> QED
        BY <3>1, <2>1, <1>c DEF Peers
    <2>4. ReadersRead'
      <3>1. ASSUME NEW q \in Readers, q # r
            PROVE  /\ Known(log', top'[q])
                   /\ at'[q] = "scan" =>
                          /\ Passed(log', Seen(PeerOf[q])', PeerOf[q], since'[q])
                          /\ \A f \in log' : Sender(f) < lane'[q] /\ since'[q] < f.lamport => f \in got'[q] \/ f.met
                   /\ at'[q] = "move" => Passed(log', Seen(PeerOf[q])', PeerOf[q], top'[q])
                   /\ at'[q] = "rescan" => \A f \in log' : Sender(f) # PeerOf[q] => f \in Seen(PeerOf[q])' \/ f.met
        BY <3>1, <2>1, <1>c, <1>d, <1>g
      <3>2. Known(log', top'[r])
        BY <2>1, <1>b DEF ReadersRead
      <3> QED
        BY <3>1, <3>2, <2>1, <2>2, <2>3 DEF ReadersRead
    <2>5. CursorsPassed'
      BY <2>1, <1>b, <1>g DEF CursorsPassed
    <2> QED
      BY <2>4, <2>5, <1>a DEF ReadInv
  <1>5. ASSUME NEW r \in Readers, ReadLane(r) PROVE ReadInv'
    <2>1. /\ UNCHANGED <<log, cursor, at, top, since, told, lost>> /\ at[r] = "scan"
          /\ lane'[r] = lane[r] + 1 /\ got'[r] = got[r] \cup Unread(r)
          /\ \A q \in Readers \ {r} : lane'[q] = lane[q] /\ got'[q] = got[q]
      BY <1>5, <1>c DEF ReadLane
    <2>2. ASSUME NEW f \in log, Sender(f) < lane'[r], since[r] < f.lamport
          PROVE  f \in got'[r] \/ f.met
      <3>1. CASE Sender(f) = lane[r]
        BY <2>1, <2>2, <3>1 DEF Unread, Lane
      <3>2. CASE Sender(f) < lane[r]
        BY <2>1, <2>2, <3>2, <1>b DEF ReadersRead
      <3>3. Sender(f) \in Nat /\ lane[r] \in Nat
        BY <1>c DEF Peers
      <3> QED
        BY <2>1, <2>2, <3>1, <3>2, <3>3
    <2>3. ReadersRead'
      <3>1. Known(log, top[r]) /\ Passed(log, Seen(PeerOf[r]), PeerOf[r], since[r])
        BY <2>1, <1>b DEF ReadersRead
      <3>2. ASSUME NEW q \in Readers, q # r
            PROVE  /\ Known(log', top'[q])
                   /\ at'[q] = "scan" =>
                          /\ Passed(log', Seen(PeerOf[q])', PeerOf[q], since'[q])
                          /\ \A f \in log' : Sender(f) < lane'[q] /\ since'[q] < f.lamport => f \in got'[q] \/ f.met
                   /\ at'[q] = "move" => Passed(log', Seen(PeerOf[q])', PeerOf[q], top'[q])
                   /\ at'[q] = "rescan" => \A f \in log' : Sender(f) # PeerOf[q] => f \in Seen(PeerOf[q])' \/ f.met
        BY <3>2, <2>1, <1>c, <1>d, <1>g
      <3> QED
        BY <3>1, <3>2, <2>1, <2>2, <1>c, <1>g DEF ReadersRead
    <2>4. CursorsPassed'
      BY <2>1, <1>b, <1>g DEF CursorsPassed
    <2> QED
      BY <2>3, <2>4, <1>a DEF ReadInv
  <1>6. ASSUME NEW r \in Readers, Tell(r) \/ Fail(r) PROVE ReadInv'
    <2>1. /\ UNCHANGED <<log, cursor>>
          /\ at' = [at EXCEPT ![r] = at'[r]] /\ at'[r] \in {"idle", "rescan", "move"}
          /\ lane' = [lane EXCEPT ![r] = 1] /\ got' = [got EXCEPT ![r] = {}]
          /\ top' = [top EXCEPT ![r] = top'[r]]
          /\ \A q \in Readers \ {r} : since'[q] = since[q]
          /\ at'[r] = "move" => \E f \in Others(r) : top'[r] = f.lamport
          /\ at'[r] = "rescan" => top'[r] = top[r]
          /\ at'[r] = "idle" => top'[r] = 0
      BY <1>6, <1>a, TurnFacts DEF PositionInv, LaneInv
    <2>2. \A p \in Peers : Seen(p) \subseteq Seen(p)'
      <3>1. \A p \in Peers : told[p] \subseteq told'[p] /\ lost[p] \subseteq lost'[p]
        <4>1. CASE Tell(r)
          <5>1. PICK C \in Shown(r) : told' = [told EXCEPT ![PeerOf[r]] = @ \cup C]
            BY <4>1 DEF Tell
          <5> QED
            BY <5>1, <4>1, <1>c DEF Tell
        <4>2. CASE Fail(r)
          BY <4>2, <1>c DEF Fail
        <4> QED
          BY <1>6, <4>1, <4>2
      <3> QED
        BY <3>1, SeenGrows
    <2>3. ASSUME NEW q \in Readers, q # r
          PROVE  /\ at'[q] = at[q] /\ lane'[q] = lane[q] /\ top'[q] = top[q]
                 /\ got'[q] = got[q] /\ since'[q] = since[q]
      BY <2>1, <2>3, <1>c
    <2>4. Known(log', top'[r])
      <3>1. CASE at'[r] = "move"
        <4>1. PICK f \in Others(r) : top'[r] = f.lamport
          BY <2>1, <3>1
        <4>2. f \in log /\ f.lamport \in Nat
          BY <4>1, <1>a, <1>c, ShownFacts DEF PositionInv, LaneInv, FromLog
        <4> QED
          BY <4>1, <4>2, <2>1 DEF Known
      <3>2. CASE at'[r] = "rescan"
        BY <3>2, <2>1, <1>b DEF ReadersRead
      <3>3. CASE at'[r] = "idle"
        BY <3>3, <2>1 DEF Known
      <3> QED
        BY <2>1, <3>1, <3>2, <3>3
    <2>5. at'[r] = "move" => Passed(log', Seen(PeerOf[r])', PeerOf[r], top'[r])
      BY <1>6, <2>1, TurnSees DEF Passed
    <2>6. at'[r] = "rescan" => \A f \in log' : Sender(f) # PeerOf[r] => f \in Seen(PeerOf[r])' \/ f.met
      BY <1>6, <2>1, TurnSees
    <2>7. ReadersRead'
      BY <2>1, <2>2, <2>3, <2>4, <2>5, <2>6, <1>c, <1>d DEF ReadersRead
    <2>8. CursorsPassed'
      BY <2>1, <2>2, <1>b DEF CursorsPassed, Passed
    <2> QED
      BY <2>7, <2>8, <1>a DEF ReadInv
  <1>7. ASSUME NEW r \in Readers, Move(r) \/ MarkRead(r) PROVE ReadInv'
    <2>1. UNCHANGED <<log, told, lost>> /\ Done(r)
      BY <1>7 DEF Move, MarkRead
    <2>2. /\ \A p \in Peers \ {PeerOf[r]} : cursor'[p] = cursor[p]
          /\ cursor'[PeerOf[r]] = top[r] \/ cursor'[PeerOf[r]] = cursor[PeerOf[r]]
      BY <1>7, <1>c DEF Move, MarkRead
    <2>3. Known(log, top[r]) /\ Passed(log, Seen(PeerOf[r]), PeerOf[r], top[r])
      BY <1>7, <1>b DEF ReadersRead, Move, MarkRead, Passed
    <2>4. CursorsPassed'
      BY <2>1, <2>2, <2>3, <1>b, <1>g DEF CursorsPassed
    <2>5. ReadersRead'
      BY <2>1, <1>e
    <2> QED
      BY <2>4, <2>5, <1>a DEF ReadInv
  <1>8. ASSUME NEW x \in Procs, Survey(x) PROVE ReadInv'
    <2>1. UNCHANGED <<log, cursor, at, since, got, told, lost>>
      BY <1>8 DEF Survey, reads
    <2>2. /\ \A y \in Procs \ {x} : lane'[y] = lane[y] /\ top'[y] = top[y]
          /\ top'[x] = top[x] \/ \E f \in log : f.lamport = top'[x]
          /\ top'[x] \in Nat
      BY <1>8, <1>a, <1>c, SurveyFacts DEF PositionInv, LaneInv, Survey
    <2>3. CASE x \in Writers
      <3>1. \A r \in Readers : at'[r] = at[r] /\ lane'[r] = lane[r] /\ top'[r] = top[r]
        BY <2>1, <2>2, <2>3, <1>c
      <3> QED
        BY <2>1, <3>1, <1>f
    <2>4. CASE x \in Readers
      <3>1. at[x] = "rescan"
        BY <1>8, <2>4, <1>c DEF Survey
      <3>2. Known(log, top'[x])
        BY <2>2, <2>4, <1>b, <1>c DEF ReadersRead, Known
      <3>3. ReadersRead'
        BY <3>1, <3>2, <2>1, <2>2, <2>4, <1>b, <1>c, <1>d, <1>g DEF ReadersRead
      <3>4. CursorsPassed'
        BY <2>1, <1>b, <1>g DEF CursorsPassed
      <3> QED
        BY <3>3, <3>4, <1>a DEF ReadInv
    <2> QED
      BY <2>3, <2>4 DEF Procs
  <1>9. ASSUME NEW x \in Procs, Crash(x) PROVE ReadInv'
    <2>1. UNCHANGED <<log, cursor, told, lost>>
      BY <1>9 DEF Crash
    <2>2. CASE x \in Writers /\ Rest(x) /\ UNCHANGED reads
      <3>1. \A r \in Readers : at'[r] = at[r] /\ lane'[r] = lane[r] /\ top'[r] = top[r]
        BY <2>2, <1>c DEF Rest
      <3> QED
        BY <2>1, <2>2, <3>1, <1>f DEF reads
    <2>3. CASE x \in Readers /\ Done(x)
      <3>1. ReadersRead'
        BY <2>1, <2>3, <1>e
      <3>2. CursorsPassed'
        BY <2>1, <1>b, <1>g DEF CursorsPassed
      <3> QED
        BY <3>1, <3>2, <1>a DEF ReadInv
    <2> QED
      BY <1>9, <2>2, <2>3 DEF Crash
  <1> QED
    BY <1>1, <1>2, <1>3, <1>4, <1>5, <1>6, <1>7, <1>8, <1>9 DEF Next, ReadStep

\* Whatever the instance, no cursor goes past a frame that was written amid
\* nothing and not put before the member.
THEOREM NothingIsSkipped ==
  ASSUME OneWriterEach
  PROVE  Spec => []NothingSkipped
  <1>1. ReadInv => NothingSkipped
    BY DEF ReadInv, CursorsPassed, Passed, NothingSkipped, Seen
  <1> QED
    BY <1>1, ReadInit, ReadNext, PTL DEF Spec
=============================================================================
