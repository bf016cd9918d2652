-------------------------- MODULE TaskSlots_proofs --------------------------
(***************************************************************************)
(* What is proved of the launch guard, for any number of launches, inline  *)
(* or not: it is well typed, leaves no ghosts, and among launches that are *)
(* not held up between stamp and registration the gap between the two      *)
(* reads is the only way to two runs.                                      *)
(***************************************************************************)
EXTENDS TaskSlots, WellFoundedInduction, TLAPS

\* A launch is in the files from its registration until it withdraws or ends.
Registered == {"registered", "claim", "won", "lost"}

InTheFiles(l) == l \in pending \/ l \in active \/ l = moving

FilesMatchStages == \A l \in Launches : InTheFiles(l) <=> at[l] \in Registered

\* An inline launch is marked before it claims.
InlineIsActive == \A l \in Inline : at[l] \in {"claim", "won"} => l \in active

Types ==
    /\ pending \in SUBSET Launches /\ active \in SUBSET Launches
    /\ pending \cap active = {}
    /\ moving \in Launches \cup {Nobody} /\ moving \notin pending \cup active
    /\ at \in [Launches -> Stages]
    /\ created \in [Launches -> Nat] /\ clock \in Nat
    /\ seen \in [Launches -> SUBSET Launches] /\ missed \in [Launches -> SUBSET Launches]
    /\ \A l \in Launches : at[l] = "stamped" => l \in Preempted
    /\ FilesMatchStages
    /\ InlineIsActive

\* A launch that claims did not overlook an active one, but for those on the move.
OverlookedAreMissed ==
    \A k, l \in Launches :
        at[l] = "claim" /\ (k \in active \/ k = moving) /\ k \notin seen[l] => k \in missed[l]

\* The clock has gone on since the stamp of a launch that began to claim.
StampsArePast ==
    /\ \A l \in Launches : created[l] <= clock
    /\ \A l \in Launches : at[l] \in {"claim", "won"} => created[l] < clock

\* A launch that won is older than every other that is registered, but for the
\* ones it missed and those that may be held up.
WinnersAreOldest ==
    \A k \in Launches, l \in Launches \ Preempted :
        k # l /\ at[k] = "won" /\ at[l] \in {"registered", "claim", "won"} =>
            Before(k, l) \/ l \in missed[k]

IInv == Types /\ OverlookedAreMissed /\ StampsArePast /\ WinnersAreOldest

-----------------------------------------------------------------------------
\* Initially no launch has begun: everything is empty.
LEMMA InitTypes == Init => Types
BY TaskSlotsAssumption DEF Init, Types, FilesMatchStages, InTheFiles, InlineIsActive,
   Registered, Stages

\* Every step of a launch, and the end of a move, keeps the types and the match
\* between the files and the stages.
LEMMA StepTypes == Types /\ [Next]_vars => Types'
<1> SUFFICES ASSUME Types, [Next]_vars PROVE Types'
  OBVIOUS
<1> USE TaskSlotsAssumption DEF Types, FilesMatchStages, InTheFiles, InlineIsActive,
        Registered, Stages, files, Go
<1>1. CASE Marked
  BY <1>1 DEF Marked
<1>2. ASSUME NEW l \in Launches, LookActive(l) PROVE Types'
  BY <1>2 DEF LookActive
<1>3. ASSUME NEW l \in Launches, LookPending(l) PROVE Types'
  BY <1>3 DEF LookPending
<1>4. ASSUME NEW l \in Launches, Stamp(l) PROVE Types'
  BY <1>4 DEF Stamp, TakeStamp
<1>5. ASSUME NEW l \in Launches, Register(l) PROVE Types'
  BY <1>5 DEF Register, TakeStamp, GuardFree
<1>6. ASSUME NEW l \in Launches, Mark(l) PROVE Types'
  BY <1>6 DEF Mark, MayMark, GuardFree
<1>7. ASSUME NEW l \in Launches, ClaimActive(l) PROVE Types'
  BY <1>7 DEF ClaimActive
<1>8. ASSUME NEW l \in Launches, ClaimPending(l) PROVE Types'
  BY <1>8 DEF ClaimPending
<1>9. ASSUME NEW l \in Launches, Withdraw(l) PROVE Types'
  BY <1>9 DEF Withdraw, Cancel, GuardFree
<1>10. ASSUME NEW l \in Launches, End(l) PROVE Types'
  BY <1>10 DEF End, Cancel, GuardFree
<1>11. CASE UNCHANGED vars
  BY <1>11 DEF vars
<1> QED
  BY <1>1, <1>2, <1>3, <1>4, <1>5, <1>6, <1>7, <1>8, <1>9, <1>10, <1>11 DEF Next

\* The types are invariant, whoever is held up.
LEMMA TypesInvariant == Spec => []Types
BY InitTypes, StepTypes, PTL DEF Spec

\* Every reachable state of the launch guard is well typed.
THEOREM TypeCorrect == Spec => []TypeOK
<1>1. Types => TypeOK
  BY DEF Types, TypeOK, InlineIsActive
<1> QED
  BY <1>1, TypesInvariant, PTL

\* No refused or finished launch leaves an entry behind that would refuse the
\* next one.
THEOREM LeavesNoGhosts == Spec => []NoGhosts
<1>1. Types => NoGhosts
  BY TaskSlotsAssumption DEF Types, NoGhosts, FilesMatchStages, InTheFiles, Registered
<1> QED
  BY <1>1, TypesInvariant, PTL

-----------------------------------------------------------------------------
\* A rival is overlooked by the two reads only if it was on the move.
LEMMA StepOverlooked ==
    Types /\ OverlookedAreMissed /\ [Next]_vars => OverlookedAreMissed'
<1> SUFFICES ASSUME Types, OverlookedAreMissed, [Next]_vars,
                    NEW k \in Launches, NEW l \in Launches,
                    at'[l] = "claim", k \in active' \/ k = moving', k \notin seen'[l]
             PROVE  k \in missed'[l]
  BY DEF OverlookedAreMissed
<1> USE TaskSlotsAssumption DEF Types, OverlookedAreMissed, files, Go, Stages
<1>1. CASE Marked
  BY <1>1 DEF Marked
<1>2. ASSUME NEW m \in Launches, LookActive(m) PROVE k \in missed'[l]
  BY <1>2 DEF LookActive
<1>3. ASSUME NEW m \in Launches, LookPending(m) PROVE k \in missed'[l]
  BY <1>3 DEF LookPending
<1>4. ASSUME NEW m \in Launches, Stamp(m) PROVE k \in missed'[l]
  BY <1>4 DEF Stamp
<1>5. ASSUME NEW m \in Launches, Register(m) PROVE k \in missed'[l]
  BY <1>5 DEF Register
<1>6. ASSUME NEW m \in Launches, Mark(m) PROVE k \in missed'[l]
  BY <1>6 DEF Mark
<1>7. ASSUME NEW m \in Launches, ClaimActive(m) PROVE k \in missed'[l]
  BY <1>7 DEF ClaimActive
<1>8. ASSUME NEW m \in Launches, ClaimPending(m) PROVE k \in missed'[l]
  BY <1>8 DEF ClaimPending
<1>9. ASSUME NEW m \in Launches, Withdraw(m) PROVE k \in missed'[l]
  BY <1>9 DEF Withdraw, Cancel
<1>10. ASSUME NEW m \in Launches, End(m) PROVE k \in missed'[l]
  BY <1>10 DEF End, Cancel
<1>11. CASE UNCHANGED vars
  BY <1>11 DEF vars
<1> QED
  BY <1>1, <1>2, <1>3, <1>4, <1>5, <1>6, <1>7, <1>8, <1>9, <1>10, <1>11 DEF Next

\* Stamps are never ahead of the clock, and behind it once a launch claims.
LEMMA StepStamps == Types /\ StampsArePast /\ [Next]_vars => StampsArePast'
<1> SUFFICES ASSUME Types, StampsArePast, [Next]_vars PROVE StampsArePast'
  OBVIOUS
<1> USE TaskSlotsAssumption DEF Types, StampsArePast, files, Go, Stages
<1>1. CASE Marked
  BY <1>1 DEF Marked
<1>2. ASSUME NEW m \in Launches, LookActive(m) PROVE StampsArePast'
  BY <1>2 DEF LookActive
<1>3. ASSUME NEW m \in Launches, LookPending(m) PROVE StampsArePast'
  BY <1>3 DEF LookPending
<1>4. ASSUME NEW m \in Launches, Stamp(m) PROVE StampsArePast'
  BY <1>4 DEF Stamp, TakeStamp
<1>5. ASSUME NEW m \in Launches, Register(m) PROVE StampsArePast'
  BY <1>5 DEF Register, TakeStamp
<1>6. ASSUME NEW m \in Launches, Mark(m) PROVE StampsArePast'
  BY <1>6 DEF Mark
<1>7. ASSUME NEW m \in Launches, ClaimActive(m) PROVE StampsArePast'
  BY <1>7 DEF ClaimActive
<1>8. ASSUME NEW m \in Launches, ClaimPending(m) PROVE StampsArePast'
  BY <1>8 DEF ClaimPending
<1>9. ASSUME NEW m \in Launches, Withdraw(m) PROVE StampsArePast'
  BY <1>9 DEF Withdraw, Cancel
<1>10. ASSUME NEW m \in Launches, End(m) PROVE StampsArePast'
  BY <1>10 DEF End, Cancel
<1>11. CASE UNCHANGED vars
  BY <1>11 DEF vars
<1> QED
  BY <1>1, <1>2, <1>3, <1>4, <1>5, <1>6, <1>7, <1>8, <1>9, <1>10, <1>11 DEF Next

\* A winner stays the oldest: a rival that registers later is younger, because
\* it takes its stamp then, and a new winner is compared with all it did not
\* miss.
LEMMA StepWinners == IInv /\ [Next]_vars => WinnersAreOldest'
<1> SUFFICES ASSUME IInv, [Next]_vars, NEW k \in Launches,
                    NEW l \in Launches \ Preempted, k # l,
                    at'[k] = "won", at'[l] \in {"registered", "claim", "won"}
             PROVE  Before(k, l)' \/ l \in missed'[k]
  BY DEF WinnersAreOldest
<1> USE TaskSlotsAssumption DEF IInv, Types, WinnersAreOldest, files, Go, Stages, Before
<1>1. CASE Marked
  BY <1>1 DEF Marked
<1>2. ASSUME NEW m \in Launches, LookActive(m) PROVE Before(k, l)' \/ l \in missed'[k]
  BY <1>2 DEF LookActive
<1>3. ASSUME NEW m \in Launches, LookPending(m) PROVE Before(k, l)' \/ l \in missed'[k]
  BY <1>3 DEF LookPending
<1>4. ASSUME NEW m \in Launches, Stamp(m) PROVE Before(k, l)' \/ l \in missed'[k]
  BY <1>4 DEF Stamp, TakeStamp
<1>5. ASSUME NEW m \in Launches, Register(m) PROVE Before(k, l)' \/ l \in missed'[k]
  <2>1. missed' = missed /\ at' = [at EXCEPT ![m] = "registered"]
    BY <1>5 DEF Register
  <2>2. k # m /\ at[k] = "won" /\ created[k] < clock
    BY <2>1 DEF StampsArePast
  <2>3. created'[k] = created[k]
    BY <1>5, <2>2 DEF Register, TakeStamp
  <2>4. CASE l = m
    <3>1. created'[l] = clock' /\ clock' \in {clock, clock + 1}
      BY <1>5, <2>4 DEF Register, TakeStamp
    <3> QED
      BY <2>2, <2>3, <3>1
  <2>5. CASE l # m
    <3>1. created'[l] = created[l]
      BY <1>5, <2>5 DEF Register, TakeStamp
    <3> QED
      BY <2>1, <2>2, <2>3, <2>5, <3>1
  <2> QED
    BY <2>4, <2>5
<1>6. ASSUME NEW m \in Launches, Mark(m) PROVE Before(k, l)' \/ l \in missed'[k]
  BY <1>6 DEF Mark
<1>7. ASSUME NEW m \in Launches, ClaimActive(m) PROVE Before(k, l)' \/ l \in missed'[k]
  BY <1>7 DEF ClaimActive
<1>8. ASSUME NEW m \in Launches, ClaimPending(m) PROVE Before(k, l)' \/ l \in missed'[k]
  <2>1. CASE k = m
    <3>1. at[k] = "claim" /\ Wins(k, seen[k] \cup pending)
          /\ UNCHANGED <<files, created, clock, seen, missed>>
      BY <1>8, <2>1 DEF ClaimPending
    <3>2. at[l] \in Registered
      BY <1>8, <2>1 DEF ClaimPending, Registered
    <3>3. l \in pending \/ l \in active \/ l = moving
      BY <3>2 DEF FilesMatchStages, InTheFiles
    <3>4. CASE l \in seen[k] \cup pending
      BY <3>1, <3>4 DEF Wins
    <3>5. CASE l \notin seen[k] \cup pending
      BY <3>1, <3>3, <3>5 DEF OverlookedAreMissed
    <3> QED
      BY <3>4, <3>5
  <2>2. CASE k # m
    BY <1>8, <2>2 DEF ClaimPending
  <2> QED
    BY <2>1, <2>2
<1>9. ASSUME NEW m \in Launches, Withdraw(m) PROVE Before(k, l)' \/ l \in missed'[k]
  BY <1>9 DEF Withdraw, Cancel
<1>10. ASSUME NEW m \in Launches, End(m) PROVE Before(k, l)' \/ l \in missed'[k]
  BY <1>10 DEF End, Cancel
<1>11. CASE UNCHANGED vars
  BY <1>11 DEF vars
<1> QED
  BY <1>1, <1>2, <1>3, <1>4, <1>5, <1>6, <1>7, <1>8, <1>9, <1>10, <1>11 DEF Next

\* Two launches that are not held up run together only if one was on its way
\* between the files while the other read them.
THEOREM OnlyTheGap == Spec => []OneRunButForTheGap
<1>1. Init => IInv
  BY InitTypes, TaskSlotsAssumption
     DEF Init, IInv, OverlookedAreMissed, StampsArePast, WinnersAreOldest
<1>2. IInv /\ [Next]_vars => IInv'
  BY StepTypes, StepOverlooked, StepStamps, StepWinners DEF IInv
<1>3. IInv => OneRunButForTheGap
  <2> SUFFICES ASSUME IInv, NEW k \in Runs \ Preempted, NEW l \in Runs \ Preempted,
                      k # l
               PROVE  k \in missed[l] \/ l \in missed[k]
    BY DEF OneRunButForTheGap
  <2>1. (Before(k, l) \/ l \in missed[k]) /\ (Before(l, k) \/ k \in missed[l])
    BY DEF IInv, WinnersAreOldest, Runs
  <2>2. created[k] \in Nat /\ created[l] \in Nat /\ k \in Int /\ l \in Int
    BY DEF IInv, Types, Runs, Launches
  <2> QED
    BY <2>1, <2>2 DEF Before
<1> QED
  BY <1>1, <1>2, <1>3, PTL DEF Spec

-----------------------------------------------------------------------------
(* The launches never refuse one another all. *)

Entered == Registered \cup {"withdrawn", "over"}

\* An inline launch moves before it claims, another one after.
MovesInTime == moving # Nobody /\ moving \notin Inline => at[moving] = "won"

\* What was read is, or has been, registered, and a launch reads itself.
ReadsAreEntered ==
    /\ \A l \in Launches : at[l] = "claim" => l \in seen[l] \cup pending
    /\ \A k, l \in Launches : k \in seen[l] => at[k] \in Entered

\* Who was refused met a registered launch, and who withdrew met an older one.
RefusedByAnother ==
    /\ \A l \in Launches : at[l] = "refused" => \E k \in Launches : at[k] \in Entered
    /\ \A l \in Launches : at[l] \in {"lost", "withdrawn"} =>
          \E k \in Launches : at[k] \in Entered /\ Before(k, l)

Meeting == MovesInTime /\ ReadsAreEntered /\ RefusedByAnother

\* Two launches are never equally old.
LEMMA OneIsOlder ==
    ASSUME Types, NEW k \in Launches, NEW l \in Launches, k # l
    PROVE  Before(k, l) \/ Before(l, k)
BY DEF Types, Before, Launches

\* A launch that has registered keeps its stamp and stays registered or past it.
LEMMA EnteredStays ==
    ASSUME Types, [Next]_vars, NEW k \in Launches, at[k] \in Entered
    PROVE  at'[k] \in Entered /\ created'[k] = created[k]
<1> USE DEF Types, files, Go, Stages, Entered, Registered
<1>1. CASE Marked
  BY <1>1 DEF Marked
<1>2. ASSUME NEW m \in Launches, LookActive(m) \/ LookPending(m)
      PROVE  at'[k] \in Entered /\ created'[k] = created[k]
  BY <1>2 DEF LookActive, LookPending
<1>3. ASSUME NEW m \in Launches, Stamp(m) \/ Register(m)
      PROVE  at'[k] \in Entered /\ created'[k] = created[k]
  BY <1>3 DEF Stamp, Register, TakeStamp
<1>4. ASSUME NEW m \in Launches, Mark(m) \/ ClaimActive(m) \/ ClaimPending(m)
      PROVE  at'[k] \in Entered /\ created'[k] = created[k]
  BY <1>4 DEF Mark, ClaimActive, ClaimPending
<1>5. ASSUME NEW m \in Launches, Withdraw(m) \/ End(m)
      PROVE  at'[k] \in Entered /\ created'[k] = created[k]
  BY <1>5 DEF Withdraw, End
<1>6. CASE UNCHANGED vars
  BY <1>6 DEF vars
<1> QED
  BY <1>1, <1>2, <1>3, <1>4, <1>5, <1>6 DEF Next

\* Every step keeps the launch that moves at its place, and a launch in what it
\* reads of itself.
LEMMA StepMovesReads ==
    Types /\ MovesInTime /\ ReadsAreEntered /\ [Next]_vars
        => MovesInTime' /\ ReadsAreEntered'
<1> SUFFICES ASSUME Types, MovesInTime, ReadsAreEntered, [Next]_vars
             PROVE  MovesInTime' /\ ReadsAreEntered'
  OBVIOUS
<1> USE TaskSlotsAssumption
    DEF Types, MovesInTime, ReadsAreEntered, FilesMatchStages, InTheFiles, Registered,
        Entered, files, Go, Stages
<1>1. CASE Marked
  BY <1>1 DEF Marked
<1>2. ASSUME NEW m \in Launches, LookActive(m) \/ LookPending(m)
      PROVE  MovesInTime' /\ ReadsAreEntered'
  BY <1>2 DEF LookActive, LookPending
<1>3. ASSUME NEW m \in Launches, Stamp(m) \/ Register(m)
      PROVE  MovesInTime' /\ ReadsAreEntered'
  BY <1>3 DEF Stamp, Register
<1>4. ASSUME NEW m \in Launches, Mark(m) PROVE MovesInTime' /\ ReadsAreEntered'
  BY <1>4 DEF Mark, MayMark
<1>5. ASSUME NEW m \in Launches, ClaimActive(m) PROVE MovesInTime' /\ ReadsAreEntered'
  BY <1>5 DEF ClaimActive
<1>6. ASSUME NEW m \in Launches, ClaimPending(m) PROVE MovesInTime' /\ ReadsAreEntered'
  BY <1>6 DEF ClaimPending
<1>7. ASSUME NEW m \in Launches, Withdraw(m) \/ End(m)
      PROVE  MovesInTime' /\ ReadsAreEntered'
  BY <1>7 DEF Withdraw, End, Cancel, GuardFree
<1>8. CASE UNCHANGED vars
  BY <1>8 DEF vars
<1> QED
  BY <1>1, <1>2, <1>3, <1>4, <1>5, <1>6, <1>7, <1>8 DEF Next

\* Whoever gives way gives way to a launch that is, or was, registered.
LEMMA StepRefused == Types /\ Meeting /\ [Next]_vars => RefusedByAnother'
<1> SUFFICES ASSUME Types, Meeting, [Next]_vars, NEW l \in Launches
             PROVE  /\ at'[l] = "refused" => \E k \in Launches : at'[k] \in Entered
                    /\ at'[l] \in {"lost", "withdrawn"} =>
                          \E k \in Launches : at'[k] \in Entered /\ Before(k, l)'
  BY DEF RefusedByAnother
<1>1. CASE at[l] = "refused"
  <2>1. PICK k \in Launches : at[k] \in Entered
    BY <1>1 DEF Meeting, RefusedByAnother
  <2>2. at'[k] \in Entered
    BY <2>1, EnteredStays
  <2>3. at'[l] = "refused"
    BY <1>1 DEF Types, Next, vars, files, Go, Marked, LookActive, LookPending, Stamp,
       Register, Mark, ClaimActive, ClaimPending, Withdraw, End
  <2> QED
    BY <2>2, <2>3
<1>2. CASE at[l] \in {"lost", "withdrawn"}
  <2>1. PICK k \in Launches : at[k] \in Entered /\ Before(k, l)
    BY <1>2 DEF Meeting, RefusedByAnother
  <2>2. at[l] \in Entered
    BY <1>2 DEF Entered, Registered
  <2>3. /\ at'[k] \in Entered /\ created'[k] = created[k]
        /\ at'[l] \in Entered /\ created'[l] = created[l]
    BY <2>1, <2>2, EnteredStays
  <2>4. Before(k, l)'
    BY <2>1, <2>3 DEF Before
  <2> QED
    BY <2>3, <2>4 DEF Entered, Registered
<1>3. CASE at[l] \notin {"refused", "lost", "withdrawn"}
  <2> SUFFICES ASSUME at'[l] \in {"refused", "lost", "withdrawn"}
               PROVE  \E k \in Launches :
                         at'[k] \in Entered /\ (at'[l] # "refused" => Before(k, l)')
    OBVIOUS
  <2>1. \/ LookActive(l) \/ LookPending(l)
        \/ ClaimPending(l)
    BY <1>3 DEF Types, Next, vars, files, Go, Marked, LookActive, LookPending, Stamp,
       Register, Mark, ClaimActive, ClaimPending, Withdraw, End
  <2>2. CASE LookActive(l) \/ LookPending(l)
    <3>1. PICK k \in Launches : k \in pending \cup active
      BY <1>3, <2>2 DEF Types, LookActive, LookPending, Go
    <3>2. at[k] \in Entered
      BY <3>1 DEF Types, FilesMatchStages, InTheFiles, Entered
    <3>3. at'[k] \in Entered
      BY <3>2, EnteredStays
    <3>4. at'[l] = "refused"
      BY <1>3, <2>2 DEF Types, LookActive, LookPending, Go
    <3> QED
      BY <3>3, <3>4
  <2>3. CASE ClaimPending(l)
    <3>1. at[l] = "claim" /\ ~Wins(l, seen[l] \cup pending) /\ created' = created
      BY <1>3, <2>3 DEF Types, ClaimPending, Go
    <3>2. l \in seen[l] \cup pending
      BY <3>1 DEF Meeting, ReadsAreEntered
    <3>3. PICK k \in (seen[l] \cup pending) \ {l} : ~Before(l, k)
      BY <3>1, <3>2 DEF Wins
    <3>4. k \in Launches
      BY <3>3 DEF Types
    <3>5. Before(k, l)
      BY <3>3, <3>4, OneIsOlder
    <3>6. at[k] \in Entered
      BY <3>3, <3>4
         DEF Meeting, ReadsAreEntered, Types, FilesMatchStages, InTheFiles, Entered
    <3>7. at'[k] \in Entered
      BY <3>4, <3>6, EnteredStays
    <3>8. Before(k, l)'
      BY <3>1, <3>5 DEF Before
    <3> QED
      BY <3>4, <3>7, <3>8
  <2> QED
    BY <2>1, <2>2, <2>3
<1> QED
  BY <1>1, <1>2, <1>3

\* A set of natural numbers has a smallest one.
LEMMA SmallestOf ==
    ASSUME NEW T \in SUBSET Nat, T # {}
    PROVE  \E n \in T : \A m \in T : n <= m
<1>1. PICK n \in T : \A m \in T : ~(<<m, n>> \in OpToRel(<, Nat))
  BY NatLessThanWellFounded, WFMin
<1>2. \A m \in T : ~(m < n)
  BY <1>1 DEF OpToRel
<1> QED
  BY <1>2

\* Among the launches that have registered one is the oldest: the one with the
\* smallest number among those with the smallest stamp.
LEMMA OneIsOldest ==
    ASSUME Types, NEW S \in SUBSET Launches, S # {}
    PROVE  \E k \in S : \A l \in S : ~Before(l, k)
<1> DEFINE Stamps == {created[l] : l \in S}
<1>1. Stamps \in SUBSET Nat /\ Stamps # {}
  BY DEF Types
<1>2. PICK first \in Stamps : \A n \in Stamps : first <= n
  BY <1>1, SmallestOf
<1> DEFINE Firsts == {l \in S : created[l] = first}
<1>3. Firsts \in SUBSET Nat /\ Firsts # {}
  <2>1. Launches \subseteq Nat
    BY DEF Launches
  <2>2. PICK l \in S : created[l] = first
    BY <1>2
  <2> QED
    BY <2>1, <2>2
<1>4. PICK k \in Firsts : \A l \in Firsts : k <= l
  BY <1>3, SmallestOf
<1>5. ASSUME NEW l \in S, Before(l, k) PROVE FALSE
  <2>1. first <= created[l] /\ first \in Nat /\ created[l] \in Nat
    BY <1>1, <1>2
  <2>2. created[k] = first /\ k \in S
    BY <1>4
  <2>3. created[l] = first /\ l < k
    BY <1>5, <2>1, <2>2 DEF Before
  <2>4. k <= l /\ k \in Int /\ l \in Int
    BY <1>3, <1>4, <2>3
  <2> QED
    BY <2>3, <2>4
<1> QED
  BY <1>4, <1>5

\* When launches were refused or withdrew, another one is on its way, runs or
\* has run, also when launches are held up between stamp and registration.
THEOREM SomeoneProceeds == Spec => []NotAllRefused
<1>1. Init => Types /\ Meeting
  BY InitTypes, TaskSlotsAssumption
     DEF Init, Meeting, MovesInTime, ReadsAreEntered, RefusedByAnother
<1>2. Types /\ Meeting /\ [Next]_vars => (Types /\ Meeting)'
  BY StepTypes, StepMovesReads, StepRefused DEF Meeting
<1>3. Types /\ Meeting => NotAllRefused
  <2> SUFFICES ASSUME Types, Meeting, NEW l \in Launches,
                      at[l] \in {"refused", "lost", "withdrawn"}
               PROVE  \E k \in Launches : at[k] \in {"registered", "claim", "won", "over"}
    BY DEF NotAllRefused
  <2> DEFINE S == {k \in Launches : at[k] \in Entered}
  <2>1. S # {}
    BY DEF Meeting, RefusedByAnother
  <2>2. PICK k \in S : \A m \in S : ~Before(m, k)
    BY <2>1, OneIsOldest
  <2>3. at[k] \notin {"lost", "withdrawn"}
    BY <2>2 DEF Meeting, RefusedByAnother
  <2>4. at[k] \in {"registered", "claim", "won", "over"}
    BY <2>2, <2>3 DEF Entered, Registered
  <2> QED
    BY <2>2, <2>4
<1> QED
  BY <1>1, <1>2, <1>3, PTL DEF Spec
=============================================================================
