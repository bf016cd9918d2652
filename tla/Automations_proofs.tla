------------------------- MODULE Automations_proofs -------------------------
(***************************************************************************)
(* What holds of the automations for any tasks, runs and bounds: the run   *)
(* lock keeps the runs of a task apart unless it was broken, no lock is    *)
(* left behind, and what a person wrote stays in the file.                 *)
(***************************************************************************)
EXTENDS Automations, FiniteSetTheorems, TLAPS

-----------------------------------------------------------------------------
(* The run lock *)

TypeLock ==
    /\ lock \in [Tasks -> Runs \cup {Free, Dead}]
    /\ at \in [Runs -> Stages] /\ on \in [Runs -> Tasks]
    /\ seen \in [Runs -> Runs \cup {Free, Dead}] /\ broken \in [Tasks -> BOOLEAN]

\* The lock of a task names its one holder, unless it was broken.
LockNamesHolder ==
    \A r \in Runs : at[r] \in Inside /\ ~broken[on[r]] => lock[on[r]] = r

\* A run that is about to take a lock found none that keeps it out.
LookedWell == \A r \in Runs : at[r] = "take" => Takeable(seen[r])

LockInv == TypeLock /\ LockNamesHolder /\ LookedWell /\ NoLockIsLeft

LEMMA LockInit == Init => LockInv
  <1>1. (CHOOSE t \in Tasks : TRUE) \in Tasks
    BY AutomationsAssumption DEF AutomationsAssumption
  <1>2. SUFFICES ASSUME Init PROVE LockInv
    OBVIOUS
  <1>3. TypeLock
    BY <1>1, <1>2 DEF Init, TypeLock, Stages
  <1>4. /\ \A r \in Runs : at[r] = "idle"
        /\ \A t \in Tasks : lock[t] = Free
    BY <1>2 DEF Init
  <1> QED
    BY <1>3, <1>4, AutomationsAssumption
    DEF LockInv, LockNamesHolder, LookedWell, NoLockIsLeft, Inside, AutomationsAssumption

LEMMA LockNext == LockInv /\ [Next]_vars => LockInv'
  <1> SUFFICES ASSUME LockInv, [Next]_vars PROVE LockInv'
    OBVIOUS
  <1> USE AutomationsAssumption DEF AutomationsAssumption
  <1> USE DEF LockInv, TypeLock, LockNamesHolder, LookedWell, NoLockIsLeft, Holders, Takeable, Inside, Stages
  <1>1. ASSUME Slot
        PROVE  LockInv'
    BY <1>1, LockInv DEF Slot, files, clock, runs, counts, history
  <1>2. ASSUME Arm
        PROVE  LockInv'
    BY <1>2, LockInv DEF Arm, Armed, Spent, files, clock, runs, counts, history
  <1>3. ASSUME Load
        PROVE  LockInv'
    BY <1>3, LockInv DEF Load, ReadFiles, files, clock, runs, counts, history
  <1>4. ASSUME Start
        PROVE  LockInv'
    BY <1>4, LockInv DEF Start, ReadFiles, files, clock, runs, counts, history
  <1>5. ASSUME Refresh
        PROVE  LockInv'
    BY <1>5, LockInv DEF Refresh, Clear, files, clock, runs, counts, history
  <1>6. ASSUME RefreshForOther
        PROVE  LockInv'
    BY <1>6, LockInv DEF RefreshForOther, Clear, Change, files, clock, runs, counts, history
  <1>7. ASSUME Crash
        PROVE  LockInv'
    <2>1. Lost(Threads) /\ Threads \subseteq Runs
      BY <1>7 DEF Crash, Runs
    <2> QED
      BY <2>1 DEF Lost, history
  <1>8. ASSUME NEW t \in Tasks, NEW r \in Runs, Fire(t, r)
        PROVE  LockInv'
    BY <1>8, LockInv DEF Fire, files, clock, runs, counts, history
  <1>9. ASSUME NEW t \in Tasks, NEW r \in Runs, RunByHand(t, r)
        PROVE  LockInv'
    BY <1>9, LockInv DEF RunByHand, files, clock, runs, counts, history
  <1>10. ASSUME NEW r \in Runs, Look(r)
        PROVE  LockInv'
    BY <1>10, LockInv DEF Look, TurnedAway, Goto, End, Takeable, files, clock, runs, counts, history
  <1>11. ASSUME NEW r \in Runs, Take(r)
        PROVE  LockInv'
    <2> DEFINE t == on[r]
    <2>1. t \in Tasks /\ at[r] = "take" /\ Takeable(seen[r])
      BY <1>11 DEF Take
    <2>2. /\ lock' = [lock EXCEPT ![t] = r] /\ at' = [at EXCEPT ![r] = "work"]
          /\ seen' = [seen EXCEPT ![r] = Free] /\ on' = on
          /\ broken' = [broken EXCEPT ![t] =
                 @ \/ (lock[t] \in Runs /\ (lock[t] \in Long \/ lock[t] # seen[r]))]
      BY <1>11 DEF Take, Goto
    <2> HIDE DEF t
    <2>3. TypeLock'
      BY <2>1, <2>2
    <2>4. LookedWell'
      BY <2>1, <2>2
    <2>5. NoLockIsLeft'
      BY <2>1, <2>2, on[r] = t DEF t
    <2>6. ASSUME NEW q \in Runs, at'[q] \in Inside, ~broken'[on'[q]]
          PROVE  lock'[on'[q]] = q
      <3>1. CASE q = r
        BY <2>1, <2>2, <3>1 DEF t
      <3>2. CASE q # r
        <4>1. at[q] \in Inside /\ ~broken[on[q]] /\ lock[on[q]] = q
          BY <2>1, <2>2, <2>6, <3>2
        <4>2. ASSUME on[q] = t PROVE FALSE
          <5>1. lock[t] = q /\ ~broken'[t]
            BY <2>2, <2>6, <4>1, <4>2
          <5>2. broken'[t] = (broken[t] \/ (lock[t] \in Runs /\ (lock[t] \in Long \/ lock[t] # seen[r])))
            BY <2>1, <2>2
          <5>3. seen[r] = q /\ q \notin Long
            BY <5>1, <5>2
          <5> QED
            BY <2>1, <5>3
        <4> QED
          BY <2>1, <2>2, <4>1, <4>2
      <3> QED
        BY <3>1, <3>2
    <2> QED
      BY <2>3, <2>4, <2>5, <2>6
  <1>12. ASSUME NEW r \in Runs, Work(r)
        PROVE  LockInv'
    BY <1>12, LockInv DEF Work, Goto, files, clock, runs, counts, history
  <1>13. ASSUME NEW r \in Runs, Save(r)
        PROVE  LockInv'
    BY <1>13, LockInv DEF Save, Goto, files, clock, runs, counts, history
  <1>14. ASSUME NEW r \in Runs, Spend(r)
        PROVE  LockInv'
    BY <1>14, LockInv DEF Spend, Goto, Drop, files, clock, runs, counts, history
  <1>15. ASSUME NEW r \in Runs, Release(r)
        PROVE  LockInv'
    BY <1>15, LockInv DEF Release, Goto, End, Holders, files, clock, runs, counts, history
  <1>16. ASSUME NEW r \in Runs, Consume(r)
        PROVE  LockInv'
    BY <1>16, LockInv DEF Consume, End, Drop, files, clock, runs, counts, history
  <1>17. ASSUME NEW r \in Runs, CloseTerminal(r)
        PROVE  LockInv'
    <2>1. Lost({r}) /\ {r} \subseteq Runs
      BY <1>17 DEF CloseTerminal, Runs
    <2> QED
      BY <2>1 DEF Lost, history
  <1>18. ASSUME NEW t \in Tasks, NEW b \in BOOLEAN, Edit(t, b)
        PROVE  LockInv'
    BY <1>18, LockInv DEF Edit, Change, files, clock, runs, counts, history
  <1>19. ASSUME NEW t \in Tasks, NEW b \in BOOLEAN, Delete(t, b)
        PROVE  LockInv'
    BY <1>19, LockInv DEF Delete, Change, files, clock, runs, counts, history
  <1>20. ASSUME NEW b \in BOOLEAN, SaveEdit(b)
        PROVE  LockInv'
    BY <1>20, LockInv DEF SaveEdit, files, clock, runs, counts, history
  <1>21. ASSUME NEW t \in Tasks, Restore(t)
        PROVE  LockInv'
    BY <1>21, LockInv DEF Restore, Change, files, clock, runs, counts, history
  <1>22. CASE UNCHANGED vars
    BY <1>22 DEF vars, files, clock, runs, counts, history
  <1> QED
    BY <1>1, <1>2, <1>3, <1>4, <1>5, <1>6, <1>7, <1>8, <1>9, <1>10, <1>11, <1>12, <1>13, <1>14, <1>15, <1>16, <1>17, <1>18, <1>19, <1>20, <1>21, <1>22 DEF Next, Step, RunStep

\* Two runs of one automation are under way at once only when its lock was
\* broken: what run_task's singleton protection promises, as far as it is kept.
THEOREM RunsAreApart == Spec => []OneRunAtATime
  <1>1. LockInv => OneRunAtATime
    <2> SUFFICES ASSUME LockInv, NEW t \in Tasks, ~broken[t]
                 PROVE  ~(Cardinality(Holders(t)) > 1)
      BY DEF OneRunAtATime
    <2>1. \A r \in Holders(t) : r = lock[t]
      BY DEF LockInv, LockNamesHolder, Holders
    <2>2. Holders(t) = {} \/ Holders(t) = {lock[t]}
      BY <2>1
    <2>3. Cardinality(Holders(t)) \in {0, 1}
      BY <2>2, FS_EmptySet, FS_Singleton
    <2> QED
      BY <2>3
  <1> QED
    BY <1>1, LockInit, LockNext, PTL DEF Spec

\* A lock that names a live process is held by a run that is under way.
THEOREM LocksAreReleased == Spec => []NoLockIsLeft
  <1>1. LockInv => NoLockIsLeft
    BY DEF LockInv
  <1> QED
    BY <1>1, LockInit, LockNext, PTL DEF Spec

-----------------------------------------------------------------------------
(* What a person wrote *)

TypeRec ==
    /\ TypeLock
    /\ disk \in [Tasks -> Record \cup {Gone}] /\ trash \in [Tasks -> Record \cup {Gone}]
    /\ loaded \in [Tasks -> Record \cup {Gone}]
    /\ job \in [Tasks -> Job \cup {NoJob}]
    /\ sched \in {"down", "up", "clear", "load"}
    /\ rec \in [Runs -> Record \cup {Gone}]
    /\ \A r \in Runs : at[r] # "idle" => rec[r] # Gone
    /\ editor \in Changes \cup {NoEdit}
    /\ changes \in 0..MaxChanges
    /\ latest \in [Tasks -> Versions] /\ unread \in [Tasks -> BOOLEAN]
    /\ meddled \in [Tasks -> BOOLEAN]

LEMMA RecInit == Init => TypeRec
  <1> SUFFICES ASSUME Init PROVE TypeRec
    OBVIOUS
  <1> USE AutomationsAssumption DEF AutomationsAssumption
  <1>1. 0 \in Versions /\ 0 \in 0..MaxChanges
    BY DEF Versions
  <1>2. New(TRUE) \in Record /\ New(FALSE) \in Record
    BY <1>1 DEF New, Record
  <1>3. disk \in [Tasks -> Record]
    BY <1>2 DEF Init
  <1>4. job \in [Tasks -> Job \cup {NoJob}]
    BY <1>3 DEF Init, Job
  <1>5. TypeLock
    BY LockInit DEF LockInv
  <1> QED
    BY <1>1, <1>3, <1>4, <1>5 DEF Init, TypeRec

LEMMA RecordFacts ==
    /\ \A x \in Record : x.ver \in Versions /\ [x EXCEPT !.done = TRUE] \in Record
    /\ \A x \in Record, v \in Versions, b \in BOOLEAN :
           [x EXCEPT !.ver = v, !.enabled = b] \in Record
    /\ \A j \in Job : j.rec \in Record /\ [j EXCEPT !.due = TRUE] \in Job
                                       /\ [j EXCEPT !.due = FALSE] \in Job
    /\ \A x \in Record, b \in BOOLEAN : [rec |-> x, due |-> b] \in Job
    /\ \A c \in Changes : /\ c.task \in Tasks /\ c.rec \in Record /\ c.ver \in Versions
                          /\ [c EXCEPT !.step = "refresh"] \in Changes
  BY DEF Record, Job, Changes

LEMMA RecNext == TypeRec /\ LockInv /\ [Next]_vars => TypeRec'
  <1> SUFFICES ASSUME TypeRec, LockInv, [Next]_vars PROVE TypeRec'
    OBVIOUS
  <1> USE AutomationsAssumption DEF AutomationsAssumption
  <1>0. TypeLock'
    BY LockNext DEF LockInv
  <1>a. at \in [Runs -> Stages] /\ on \in [Runs -> Tasks]
    BY DEF TypeRec, TypeLock
  <1> USE <1>0, <1>a
  <1> USE DEF TypeRec, Noted
  <1>1. ASSUME Noted, Slot
        PROVE  TypeRec'
    BY <1>1, TypeRec, RecordFacts DEF Slot, files, clock, runs, counts, history
  <1>2. ASSUME Noted, Arm
        PROVE  TypeRec'
    BY <1>2, TypeRec, RecordFacts DEF Arm, Armed, Spent, files, clock, runs, counts, history
  <1>3. ASSUME Noted, Load
        PROVE  TypeRec'
    BY <1>3, TypeRec DEF Load, ReadFiles, files, clock, runs, counts, history
  <1>4. ASSUME Noted, Start
        PROVE  TypeRec'
    BY <1>4, TypeRec DEF Start, ReadFiles, files, clock, runs, counts, history
  <1>5. ASSUME Noted, Refresh
        PROVE  TypeRec'
    BY <1>5, TypeRec DEF Refresh, Clear, files, clock, runs, counts, history
  <1>6. ASSUME Noted, RefreshForOther
        PROVE  TypeRec'
    BY <1>6, TypeRec DEF RefreshForOther, Clear, Change, files, clock, runs, counts, history
  <1>7. ASSUME Noted, Crash
        PROVE  TypeRec'
    <2>1. Lost(Threads) /\ Threads \subseteq Runs
      BY <1>7 DEF Crash, Runs
    <2>2. /\ at' \in [Runs -> Stages] /\ rec' \in [Runs -> Record \cup {Gone}]
          /\ \A q \in Runs : at'[q] # "idle" => rec'[q] # Gone
      BY <2>1 DEF Lost, Stages
    <2> QED
      BY <2>1, <2>2, <1>7 DEF Lost, Crash, files, history
  <1>8. ASSUME NEW t \in Tasks, NEW r \in Runs, Noted, Fire(t, r)
        PROVE  TypeRec'
    <2>0. job[t] \in Job
      BY <1>8 DEF Fire
    <2>1. job[t].rec \in Record /\ job[t].rec # Gone /\ [job[t] EXCEPT !.due = FALSE] \in Job
      BY <2>0, RecordFacts
    <2>2. rec' \in [Runs -> Record \cup {Gone}] /\ \A q \in Runs : at'[q] # "idle" => rec'[q] # Gone
      BY <1>8, <2>1 DEF Fire
    <2>3. job' \in [Tasks -> Job \cup {NoJob}]
      <3>1. CASE job[t].rec.once
        BY <1>8, <3>1 DEF Fire
      <3>2. CASE ~job[t].rec.once
        BY <1>8, <2>1, <3>2 DEF Fire
      <3> QED
        BY <3>1, <3>2
    <2> QED
      BY <1>8, <2>2, <2>3 DEF Fire, files, counts, history
  <1>9. ASSUME NEW t \in Tasks, NEW r \in Runs, Noted, RunByHand(t, r)
        PROVE  TypeRec'
    BY <1>9, TypeRec DEF RunByHand, files, clock, runs, counts, history
  <1>10. ASSUME NEW r \in Runs, Noted, Look(r)
        PROVE  TypeRec'
    BY <1>10, TypeRec DEF Look, TurnedAway, Goto, End, Takeable, files, clock, runs, counts, history
  <1>11. ASSUME NEW r \in Runs, Noted, Take(r)
        PROVE  TypeRec'
    BY <1>11, TypeRec DEF Take, Goto, files, clock, runs, counts, history
  <1>12. ASSUME NEW r \in Runs, Noted, Work(r)
        PROVE  TypeRec'
    BY <1>12, TypeRec DEF Work, Goto, files, clock, runs, counts, history
  <1>13. ASSUME NEW r \in Runs, Noted, Save(r)
        PROVE  TypeRec'
    BY <1>13, TypeRec, RecordFacts DEF Save, Goto, files, clock, runs, counts, history
  <1>14. ASSUME NEW r \in Runs, Noted, Spend(r)
        PROVE  TypeRec'
    BY <1>14, TypeRec DEF Spend, Goto, Drop, files, clock, runs, counts, history
  <1>15. ASSUME NEW r \in Runs, Noted, Release(r)
        PROVE  TypeRec'
    BY <1>15, TypeRec DEF Release, Goto, End, Holders, files, clock, runs, counts, history
  <1>16. ASSUME NEW r \in Runs, Noted, Consume(r)
        PROVE  TypeRec'
    BY <1>16, TypeRec DEF Consume, End, Drop, files, clock, runs, counts, history
  <1>17. ASSUME NEW r \in Runs, Noted, CloseTerminal(r)
        PROVE  TypeRec'
    <2>1. Lost({r}) /\ {r} \subseteq Runs
      BY <1>17 DEF CloseTerminal, Runs
    <2>2. /\ at' \in [Runs -> Stages] /\ rec' \in [Runs -> Record \cup {Gone}]
          /\ \A q \in Runs : at'[q] # "idle" => rec'[q] # Gone
      BY <2>1 DEF Lost, Stages
    <2> QED
      BY <2>1, <2>2, <1>17 DEF Lost, CloseTerminal, clock, files, history
  <1>18. ASSUME NEW t \in Tasks, NEW b \in BOOLEAN, Noted, Edit(t, b)
        PROVE  TypeRec'
    <2>1. disk[t] \in Record /\ changes' \in Versions /\ changes' \in 0..MaxChanges
      BY <1>18 DEF Edit, Change, Versions
    <2>2. editor' \in Changes
      BY <1>18, <2>1 DEF Edit, Changes
    <2> QED
      BY <1>18, <2>1, <2>2 DEF Edit, files, clock, runs, history
  <1>19. ASSUME NEW t \in Tasks, NEW b \in BOOLEAN, Noted, Delete(t, b)
        PROVE  TypeRec'
    BY <1>19, TypeRec DEF Delete, Change, files, clock, runs, counts, history
  <1>20. ASSUME NEW b \in BOOLEAN, Noted, SaveEdit(b)
        PROVE  TypeRec'
    BY <1>20, TypeRec, RecordFacts DEF SaveEdit, files, clock, runs, counts, history
  <1>21. ASSUME NEW t \in Tasks, Noted, Restore(t)
        PROVE  TypeRec'
    <2>0. trash[t] \in Record /\ changes' \in 0..MaxChanges
      BY <1>21 DEF Restore, Change
    <2>1. trash[t].ver \in Versions
      BY <2>0, RecordFacts
    <2> QED
      BY <1>21, <2>0, <2>1 DEF Restore, clock, runs
  <1>22. CASE UNCHANGED vars
    BY <1>22 DEF vars, files, clock, runs, counts, history
  <1> QED
    BY <1>1, <1>2, <1>3, <1>4, <1>5, <1>6, <1>7, <1>8, <1>9, <1>10, <1>11, <1>12, <1>13, <1>14, <1>15, <1>16, <1>17, <1>18, <1>19, <1>20, <1>21, <1>22 DEF Next, Step, RunStep

\* The file, the runs and the job of a task have the version a person wrote
\* last; the job and what the scheduler read may be behind while a change is
\* on its way to them.
Current(t) ==
    /\ disk[t] # Gone => disk[t].ver = latest[t]
    /\ \A r \in Runs : on[r] = t /\ at[r] # "idle" => rec[r].ver = latest[t]
    /\ job[t] # NoJob => job[t].rec.ver = latest[t] \/ Changing(t)
    /\ sched = "load" /\ loaded[t] # Gone =>
           \/ loaded[t].ver = latest[t] \/ unread[t]
           \/ editor # NoEdit /\ editor.task = t

Watched(t) == UnderWay(t) => ~Changing(t)

\* Unless a change met a run of the task.
EditInv ==
    /\ TypeRec
    /\ \A t \in Tasks : ~meddled[t] => Current(t) /\ Watched(t)

LEMMA EditInit == Init => EditInv
  <1> SUFFICES ASSUME Init PROVE EditInv
    OBVIOUS
  <1>1. ASSUME NEW t \in Tasks PROVE Current(t) /\ Watched(t)
    BY DEF Init, Current, Watched, UnderWay, New
  <1> QED
    BY <1>1, RecInit DEF Init, EditInv

LEMMA NotedFacts ==
  ASSUME TypeRec, Noted, NEW t \in Tasks, ~meddled'[t]
  PROVE  /\ ~meddled[t]
         /\ UnderWay(t)' => ~Changing(t)' /\ latest'[t] = latest[t]
  BY DEF Noted, TypeRec

LEMMA EditNext ==
  ASSUME EditInv, TypeRec', [Next]_vars
  PROVE  EditInv'
  <1>a. TypeRec
    BY DEF EditInv
  <1>1. CASE UNCHANGED vars
    BY <1>1 DEF EditInv, Current, Watched, UnderWay, Changing, vars, files, clock, runs, counts, history
  <1>3. ASSUME Step, Noted, NEW s \in Tasks, ~meddled'[s]
        PROVE  (Current(s) /\ Watched(s))'
    <2>a. ~meddled[s] /\ (UnderWay(s)' => ~Changing(s)' /\ latest'[s] = latest[s])
      BY <1>a, <1>3, NotedFacts
    <2>b. Current(s) /\ Watched(s)
      BY <1>3, <2>a DEF EditInv
    <2>c. Watched(s)'
      BY <2>a DEF Watched
    <2> SUFFICES Current(s)'
      BY <2>c
    <2> HIDE DEF EditInv
    <2> USE DEF UnderWay, Changing, Current, Watched
    <2> USE AutomationsAssumption DEF AutomationsAssumption
    <2>1. ASSUME Slot
          PROVE  Current(s)'
      BY <2>1, <1>a, <2>a, <2>b DEF Slot, TypeRec, files, clock, runs, counts, history
    <2>2. ASSUME Arm
          PROVE  Current(s)'
      BY <2>2, <1>a, <2>a, <2>b DEF Arm, Armed, Spent, TypeRec, files, clock, runs, counts, history
    <2>3. ASSUME Load
          PROVE  Current(s)'
      BY <2>3, <1>a, <2>a, <2>b DEF Load, ReadFiles, TypeRec, files, clock, runs, counts, history
    <2>4. ASSUME Start
          PROVE  Current(s)'
      BY <2>4, <1>a, <2>a, <2>b DEF Start, ReadFiles, TypeRec, files, clock, runs, counts, history
    <2>5. ASSUME Refresh
          PROVE  Current(s)'
      BY <2>5, <1>a, <2>a, <2>b DEF Refresh, Clear, TypeRec, files, clock, runs, counts, history
    <2>6. ASSUME RefreshForOther
          PROVE  Current(s)'
      BY <2>6, <1>a, <2>a, <2>b DEF RefreshForOther, Clear, Change, TypeRec, files, clock, runs, counts, history
    <2>7. ASSUME Crash
          PROVE  Current(s)'
      BY <2>7, <1>a, <2>a, <2>b DEF Crash, Lost, TypeRec, files, clock, runs, counts, history
    <2>8. ASSUME NEW t \in Tasks, NEW r \in Runs, Fire(t, r)
          PROVE  Current(s)'
      <3>0. /\ at \in [Runs -> Stages] /\ on \in [Runs -> Tasks] /\ rec \in [Runs -> Record \cup {Gone}]
            /\ job \in [Tasks -> Job \cup {NoJob}]
        BY <1>a DEF TypeRec, TypeLock
      <3>1. /\ at[r] = "idle" /\ job[t] # NoJob /\ UNCHANGED <<files, loaded, sched, editor, history>>
            /\ \A q \in Runs : q # r => at'[q] = at[q] /\ rec'[q] = rec[q] /\ on'[q] = on[q]
            /\ on'[r] = t /\ rec'[r] = job[t].rec /\ at'[r] = "look"
        BY <2>8, <3>0 DEF Fire
      <3>2. job'[s] # NoJob => job[s] # NoJob /\ job'[s].rec = job[s].rec
        BY <2>8, <3>0 DEF Fire, Job
      <3>3. disk'[s] # Gone => disk'[s].ver = latest'[s]
        BY <2>b, <3>1 DEF files, history
      <3>4. job'[s] # NoJob => job'[s].rec.ver = latest'[s] \/ Changing(s)'
        BY <2>b, <3>1, <3>2 DEF files, history
      <3>5. ASSUME NEW q \in Runs, on'[q] = s, at'[q] # "idle" PROVE rec'[q].ver = latest'[s]
        <4>1. CASE q # r
          BY <2>b, <3>1, <3>5, <4>1 DEF history
        <4>2. CASE q = r
          <5>1. t = s /\ UnderWay(s)' /\ ~Changing(s)'
            BY <2>a, <3>1, <3>5, <4>2
          <5>2. ~Changing(s)
            BY <3>1, <5>1 DEF history
          <5> QED
            BY <2>b, <3>1, <4>2, <5>1, <5>2 DEF history
        <4> QED
          BY <4>1, <4>2
      <3>6. (sched = "load" /\ loaded[s] # Gone =>
                \/ loaded[s].ver = latest[s] \/ unread[s]
                \/ editor # NoEdit /\ editor.task = s)'
        BY <2>b, <3>1 DEF history
      <3> QED
        BY <3>3, <3>4, <3>5, <3>6
    <2>9. ASSUME NEW t \in Tasks, NEW r \in Runs, RunByHand(t, r)
          PROVE  Current(s)'
      <3>1. at \in [Runs -> Stages] /\ on \in [Runs -> Tasks] /\ rec \in [Runs -> Record \cup {Gone}]
        BY <1>a DEF TypeRec, TypeLock
      <3>2. /\ at[r] = "idle" /\ disk[t] # Gone /\ UNCHANGED <<files, clock, editor, history>>
            /\ \A q \in Runs : q # r => at'[q] = at[q] /\ rec'[q] = rec[q] /\ on'[q] = on[q]
            /\ on'[r] = t /\ rec'[r] = disk[t]
        BY <2>9, <3>1 DEF RunByHand
      <3> QED
        BY <2>b, <3>2 DEF files, clock, history
    <2>10. ASSUME NEW r \in Runs, Look(r)
          PROVE  Current(s)'
      <3>1. at \in [Runs -> Stages] /\ on \in [Runs -> Tasks] /\ rec \in [Runs -> Record \cup {Gone}]
        BY <1>a DEF TypeRec, TypeLock
      <3>2. /\ at[r] = "look" /\ UNCHANGED <<files, clock, on, editor, latest, unread>>
            /\ \A q \in Runs : q # r => at'[q] = at[q] /\ rec'[q] = rec[q]
            /\ at'[r] # "idle" => rec'[r] = rec[r]
        BY <2>10, <3>1 DEF Look, TurnedAway, Goto, End
      <3> QED
        BY <2>b, <3>1, <3>2 DEF files, clock, history
    <2>11. ASSUME NEW r \in Runs, Take(r)
          PROVE  Current(s)'
      BY <2>11, <1>a, <2>a, <2>b DEF Take, Goto, TypeRec, files, clock, runs, counts, history
    <2>12. ASSUME NEW r \in Runs, Work(r)
          PROVE  Current(s)'
      <3>1. at \in [Runs -> Stages] /\ on \in [Runs -> Tasks] /\ rec \in [Runs -> Record \cup {Gone}]
        BY <1>a DEF TypeRec, TypeLock
      <3>2. /\ at[r] = "work" /\ UNCHANGED <<files, clock, on, editor, history>>
            /\ \A q \in Runs : q # r => at'[q] = at[q] /\ rec'[q] = rec[q]
            /\ at'[r] # "idle" => rec'[r] = rec[r]
        BY <2>12, <3>1 DEF Work, Goto
      <3> QED
        BY <2>b, <3>1, <3>2 DEF files, clock, history
    <2>13. ASSUME NEW r \in Runs, Save(r)
          PROVE  Current(s)'
      BY <2>13, <1>a, <2>a, <2>b DEF Save, Goto, TypeRec, files, clock, runs, counts, history
    <2>14. ASSUME NEW r \in Runs, Spend(r)
          PROVE  Current(s)'
      BY <2>14, <1>a, <2>a, <2>b DEF Spend, Goto, Drop, TypeRec, files, clock, runs, counts, history
    <2>15. ASSUME NEW r \in Runs, Release(r)
          PROVE  Current(s)'
      <3>1. at \in [Runs -> Stages] /\ on \in [Runs -> Tasks] /\ rec \in [Runs -> Record \cup {Gone}]
        BY <1>a DEF TypeRec, TypeLock
      <3>2. /\ at[r] = "release" /\ UNCHANGED <<files, clock, on, editor, history>>
            /\ \A q \in Runs : q # r => at'[q] = at[q] /\ rec'[q] = rec[q]
            /\ at'[r] # "idle" => rec'[r] = rec[r]
        BY <2>15, <3>1 DEF Release, Goto, End
      <3> QED
        BY <2>b, <3>1, <3>2 DEF files, clock, history
    <2>16. ASSUME NEW r \in Runs, Consume(r)
          PROVE  Current(s)'
      BY <2>16, <1>a, <2>a, <2>b DEF Consume, End, Drop, TypeRec, files, clock, runs, counts, history
    <2>17. ASSUME NEW r \in Runs, CloseTerminal(r)
          PROVE  Current(s)'
      BY <2>17, <1>a, <2>a, <2>b DEF CloseTerminal, Lost, TypeRec, files, clock, runs, counts, history
    <2>18. ASSUME NEW t \in Tasks, NEW b \in BOOLEAN, Edit(t, b)
          PROVE  Current(s)'
      BY <2>18, <1>a, <2>a, <2>b DEF Edit, Change, TypeRec, files, clock, runs, counts, history
    <2>19. ASSUME NEW t \in Tasks, NEW b \in BOOLEAN, Delete(t, b)
          PROVE  Current(s)'
      BY <2>19, <1>a, <2>a, <2>b DEF Delete, Change, TypeRec, files, clock, runs, counts, history
    <2>20. ASSUME NEW b \in BOOLEAN, SaveEdit(b)
          PROVE  Current(s)'
      <3>1. /\ editor \in Changes /\ editor # NoEdit
            /\ disk \in [Tasks -> Record \cup {Gone}] /\ latest \in [Tasks -> Versions]
            /\ on \in [Runs -> Tasks] /\ unread \in [Tasks -> BOOLEAN]
        BY <2>20, <1>a DEF SaveEdit, TypeRec, TypeLock
      <3> DEFINE k == editor.task
      <3>2. k \in Tasks /\ editor.rec \in Record /\ editor.ver \in Versions
        BY <3>1 DEF Changes
      <3>3. /\ latest' = [latest EXCEPT ![k] = editor.ver]
            /\ disk' = [disk EXCEPT ![k] = [editor.rec EXCEPT !.ver = editor.ver, !.enabled = b]]
            /\ unread' = [unread EXCEPT ![k] = @ \/ ~editor.here]
            /\ editor' = IF editor.here THEN [editor EXCEPT !.step = "refresh"] ELSE NoEdit
            /\ UNCHANGED <<clock, runs>>
        BY <2>20, <3>1 DEF SaveEdit
      <3>4. editor' # NoEdit => editor'.task = k
        BY <3>1, <3>3 DEF Changes
      <3>5. [editor.rec EXCEPT !.ver = editor.ver, !.enabled = b].ver = editor.ver
        BY <3>2 DEF Record
      <3>0. unread'[k] \/ (editor' # NoEdit /\ editor'.task = k)
        <4>1. CASE editor.here
          <5>1. editor' = [editor EXCEPT !.step = "refresh"]
            BY <3>3, <4>1
          <5>2. editor' \in Changes /\ editor'.task = k
            BY <5>1, <3>1, RecordFacts DEF Changes
          <5> QED
            BY <5>2, AutomationsAssumption DEF AutomationsAssumption
        <4>2. CASE ~editor.here
          BY <3>1, <3>2, <3>3, <4>2
        <4> QED
          BY <4>1, <4>2
      <3> HIDE DEF k
      <3>6. CASE s = k
        <4>1. disk'[s].ver = latest'[s]
          BY <3>1, <3>2, <3>3, <3>5, <3>6
        <4>2. Changing(s)' /\ ~UnderWay(s)'
          BY <2>a, <3>0, <3>6
        <4> QED
          BY <3>0, <3>6, <4>1, <4>2
      <3>7. CASE s # k
        <4>1. disk'[s] = disk[s] /\ latest'[s] = latest[s] /\ unread'[s] = unread[s]
          BY <3>1, <3>2, <3>3, <3>7
        <4>2. Changing(s) => Changing(s)'
          BY <3>3, <3>7, <4>1 DEF k, clock
        <4> QED
          BY <2>b, <3>3, <3>7, <4>1, <4>2 DEF clock, runs, k
      <3> QED
        BY <3>6, <3>7
    <2>21. ASSUME NEW t \in Tasks, Restore(t)
          PROVE  Current(s)'
      BY <2>21, <1>a, <2>a, <2>b DEF Restore, Change, TypeRec, files, clock, runs, counts, history
    <2> QED
      BY <2>1, <2>2, <2>3, <2>4, <2>5, <2>6, <2>7, <2>8, <2>9, <2>10, <2>11, <2>12, <2>13, <2>14, <2>15, <2>16, <2>17, <2>18, <2>19, <2>20, <2>21, <1>3 DEF Step, RunStep
  <1> QED
    BY <1>1, <1>3 DEF Next, EditInv

\* What a person wrote last stays in the file, whichever process wrote it, unless a
\* run was under way before the scheduler had read it.
THEOREM EditsAreKept == Spec => []EditsStay
  <1>1. EditInv => EditsStay
    BY DEF EditInv, Current, EditsStay
  <1>2. LockInv /\ EditInv /\ [Next]_vars => (LockInv /\ EditInv)'
    BY LockNext, RecNext, EditNext DEF EditInv
  <1> QED
    BY <1>1, <1>2, LockInit, EditInit, PTL DEF Spec

-----------------------------------------------------------------------------
(* A one-time task *)

\* A run in the server that may still succeed, with a record of a one-time task.
Ahead(r, t) ==
    /\ r \in Threads
    /\ on[r] = t /\ at[r] \in {"look", "take", "work", "save"} /\ rec[r].once

\* A record that a scheduler which reads it would arm for one more time.
Waits(x) == x # Gone /\ x.once /\ ~x.done

\* The task has one chance: its job or one run in the server.  When that run has
\* succeeded there is none, nor a record that could bring one.  A terminal's run
\* leaves only stamped records.
OneChance(t) ==
    /\ wins[t] <= 1
    /\ \A r, q \in Runs : Ahead(r, t) /\ Ahead(q, t) => r = q
    /\ job[t] # NoJob /\ job[t].rec.once => \A r \in Runs : ~Ahead(r, t)
    /\ wins[t] > 0 =>
           /\ \A r \in Runs : ~Ahead(r, t)
           /\ job[t] # NoJob => ~job[t].rec.once
           /\ ~Waits(disk[t])
           /\ sched = "load" => ~Waits(loaded[t])
           /\ editor # NoEdit /\ editor.task = t => ~Waits(editor.rec)

\* Unless a change met a run of the task.
OnceInv ==
    /\ TypeRec /\ wins \in [Tasks -> 0..2]
    /\ \A t \in Tasks : ~meddled[t] => OneChance(t) /\ Watched(t)

LEMMA OnceInit == Init => OnceInv
  <1> SUFFICES ASSUME Init PROVE OnceInv
    OBVIOUS
  <1>1. ASSUME NEW t \in Tasks PROVE OneChance(t) /\ Watched(t)
    BY DEF Init, OneChance, Ahead, Watched, UnderWay
  <1>2. wins \in [Tasks -> 0..2]
    BY DEF Init
  <1> QED
    BY <1>1, <1>2, RecInit DEF OnceInv

LEMMA OnceNext ==
  ASSUME OnceInv, TypeRec', [Next]_vars
  PROVE  OnceInv'
  <1>a. TypeRec /\ wins \in [Tasks -> 0..2]
    BY DEF OnceInv
  <1>1. CASE UNCHANGED vars
    BY <1>1 DEF OnceInv, OneChance, Ahead, Watched, UnderWay, Changing, vars, files, clock, runs, counts, history
  <1>2. ASSUME Step PROVE wins' \in [Tasks -> 0..2]
    <2>1. ASSUME NEW r \in Runs, Save(r)
          PROVE  wins' \in [Tasks -> 0..2]
      <3>1. wins' = [wins EXCEPT ![on[r]] = IF rec[r].once /\ r \in Threads /\ @ < 2 THEN @ + 1 ELSE @]
        BY <2>1 DEF Save
      <3> DEFINE k == on[r]
                 n == IF rec[r].once /\ r \in Threads /\ wins[k] < 2 THEN wins[k] + 1 ELSE wins[k]
      <3>2. k \in Tasks
        BY <1>a DEF TypeRec, TypeLock
      <3>3. wins' = [wins EXCEPT ![k] = n]
        BY <3>1, <3>2
      <3>4. n \in 0..2
        <4> HIDE DEF k
        <4> QED
          BY <1>a, <3>2
      <3> HIDE DEF k, n
      <3> QED
        BY <1>a, <3>3, <3>4
    <2>2. CASE \E t \in Tasks : Restore(t)
      BY <2>2, <1>a DEF Restore
    <2>3. CASE UNCHANGED wins
      BY <2>3, <1>a
    <2> QED
      <3>1. ASSUME NEW r \in Runs, RunStep(r) PROVE Save(r) \/ UNCHANGED wins
        BY <3>1 DEF RunStep, Look, Take, Work, Spend, Release, Consume, history
      <3>2. ASSUME NEW r \in Runs, CloseTerminal(r) PROVE UNCHANGED wins
        BY <3>2 DEF CloseTerminal, Lost, history
      <3>3. ASSUME NEW t \in Tasks, NEW r \in Runs, Fire(t, r) \/ RunByHand(t, r) PROVE UNCHANGED wins
        BY <3>3 DEF Fire, RunByHand, history
      <3>4. ASSUME NEW t \in Tasks, NEW b \in BOOLEAN, Edit(t, b) \/ Delete(t, b)
            PROVE  UNCHANGED wins
        BY <3>4 DEF Edit, Delete, history
      <3>5. ASSUME NEW b \in BOOLEAN, SaveEdit(b) PROVE UNCHANGED wins
        BY <3>5 DEF SaveEdit, history
      <3>6. ASSUME Slot \/ Arm \/ Load \/ Start \/ Refresh \/ RefreshForOther \/ Crash PROVE UNCHANGED wins
        BY <3>6 DEF Slot, Arm, Load, Start, Refresh, RefreshForOther, Clear, Crash, Lost, history
      <3> QED
        BY <1>2, <2>1, <2>2, <2>3, <3>1, <3>2, <3>3, <3>4, <3>5, <3>6 DEF Step
  <1>3. ASSUME Step, Noted, NEW s \in Tasks, ~meddled'[s]
        PROVE  (OneChance(s) /\ Watched(s))'
    <2>a. ~meddled[s] /\ (UnderWay(s)' => ~Changing(s)' /\ latest'[s] = latest[s])
      BY <1>a, <1>3, NotedFacts
    <2>b. OneChance(s) /\ Watched(s)
      BY <1>3, <2>a DEF OnceInv
    <2>c. Watched(s)'
      BY <2>a DEF Watched
    <2> SUFFICES OneChance(s)'
      BY <2>c
    <2> USE DEF UnderWay, Changing, OneChance, Ahead, Waits, Watched
    <2> USE AutomationsAssumption DEF AutomationsAssumption
    <2>1. ASSUME Slot
          PROVE  OneChance(s)'
      BY <2>1, <1>a, <2>a, <2>b DEF Slot, TypeRec, TypeLock, files, clock, runs, counts, history
    <2>2. ASSUME Arm
          PROVE  OneChance(s)'
      BY <2>2, <1>a, <2>a, <2>b DEF Arm, Armed, Spent, TypeRec, TypeLock, files, clock, runs, counts, history
    <2>3. ASSUME Load
          PROVE  OneChance(s)'
      BY <2>3, <1>a, <2>a, <2>b DEF Load, ReadFiles, TypeRec, TypeLock, files, clock, runs, counts, history
    <2>4. ASSUME Start
          PROVE  OneChance(s)'
      BY <2>4, <1>a, <2>a, <2>b DEF Start, ReadFiles, TypeRec, TypeLock, files, clock, runs, counts, history
    <2>5. ASSUME Refresh
          PROVE  OneChance(s)'
      BY <2>5, <1>a, <2>a, <2>b DEF Refresh, Clear, TypeRec, TypeLock, files, clock, runs, counts, history
    <2>6. ASSUME RefreshForOther
          PROVE  OneChance(s)'
      BY <2>6, <1>a, <2>a, <2>b DEF RefreshForOther, Clear, Change, TypeRec, TypeLock, files, clock, runs, counts, history
    <2>7. ASSUME Crash
          PROVE  OneChance(s)'
      BY <2>7, <1>a, <2>a, <2>b DEF Crash, Lost, TypeRec, TypeLock, files, clock, runs, counts, history
    <2>8. ASSUME NEW t \in Tasks, NEW r \in Runs, Fire(t, r)
          PROVE  OneChance(s)'
      BY <2>8, <1>a, <2>a, <2>b DEF Fire, TypeRec, TypeLock, files, clock, runs, counts, history
    <2>9. ASSUME NEW t \in Tasks, NEW r \in Runs, RunByHand(t, r)
          PROVE  OneChance(s)'
      BY <2>9, <1>a, <2>a, <2>b DEF RunByHand, TypeRec, TypeLock, files, clock, runs, counts, history
    <2>10. ASSUME NEW r \in Runs, Look(r)
          PROVE  OneChance(s)'
      BY <2>10, <1>a, <2>a, <2>b DEF Look, TurnedAway, Goto, End, TypeRec, TypeLock, files, clock, runs, counts, history
    <2>11. ASSUME NEW r \in Runs, Take(r)
          PROVE  OneChance(s)'
      BY <2>11, <1>a, <2>a, <2>b DEF Take, Goto, TypeRec, TypeLock, files, clock, runs, counts, history
    <2>12. ASSUME NEW r \in Runs, Work(r)
          PROVE  OneChance(s)'
      BY <2>12, <1>a, <2>a, <2>b DEF Work, Goto, TypeRec, TypeLock, files, clock, runs, counts, history
    <2>13. ASSUME NEW r \in Runs, Save(r)
          PROVE  OneChance(s)'
      BY <2>13, <1>a, <2>a, <2>b DEF Save, Goto, TypeRec, TypeLock, files, clock, runs, counts, history
    <2>14. ASSUME NEW r \in Runs, Spend(r)
          PROVE  OneChance(s)'
      BY <2>14, <1>a, <2>a, <2>b DEF Spend, Goto, Drop, TypeRec, TypeLock, files, clock, runs, counts, history
    <2>15. ASSUME NEW r \in Runs, Release(r)
          PROVE  OneChance(s)'
      BY <2>15, <1>a, <2>a, <2>b DEF Release, Goto, End, TypeRec, TypeLock, files, clock, runs, counts, history
    <2>16. ASSUME NEW r \in Runs, Consume(r)
          PROVE  OneChance(s)'
      BY <2>16, <1>a, <2>a, <2>b DEF Consume, End, Drop, TypeRec, TypeLock, files, clock, runs, counts, history
    <2>17. ASSUME NEW r \in Runs, CloseTerminal(r)
          PROVE  OneChance(s)'
      BY <2>17, <1>a, <2>a, <2>b DEF CloseTerminal, Lost, TypeRec, TypeLock, files, clock, runs, counts, history
    <2>18. ASSUME NEW t \in Tasks, NEW b \in BOOLEAN, Edit(t, b)
          PROVE  OneChance(s)'
      BY <2>18, <1>a, <2>a, <2>b DEF Edit, Change, TypeRec, TypeLock, files, clock, runs, counts, history
    <2>19. ASSUME NEW t \in Tasks, NEW b \in BOOLEAN, Delete(t, b)
          PROVE  OneChance(s)'
      BY <2>19, <1>a, <2>a, <2>b DEF Delete, Change, TypeRec, TypeLock, files, clock, runs, counts, history
    <2>20. ASSUME NEW b \in BOOLEAN, SaveEdit(b)
          PROVE  OneChance(s)'
      <3>1. /\ editor \in Changes /\ editor # NoEdit
            /\ disk \in [Tasks -> Record \cup {Gone}]
        BY <2>20, <1>a DEF SaveEdit, TypeRec
      <3> DEFINE k == editor.task
                 x == [editor.rec EXCEPT !.ver = editor.ver, !.enabled = b]
      <3>2. k \in Tasks /\ editor.rec \in Record
        BY <3>1 DEF Changes
      <3>3. /\ disk' = [disk EXCEPT ![k] = x]
            /\ editor' \in {NoEdit, [editor EXCEPT !.step = "refresh"]}
            /\ UNCHANGED <<job, sched, loaded, runs, wins>>
        BY <2>20 DEF SaveEdit, clock
      <3>4. editor' # NoEdit => editor'.task = k /\ editor'.rec = editor.rec
        BY <3>1, <3>3 DEF Changes
      <3>5. Waits(x) => Waits(editor.rec)
        BY <3>2, AutomationsAssumption DEF Record, AutomationsAssumption
      <3> HIDE DEF x
      <3>6. disk'[k] = x /\ (s # k => disk'[s] = disk[s])
        BY <3>1, <3>2, <3>3
      <3>7. ASSUME wins'[s] > 0 PROVE ~Waits(disk'[s])
        BY <2>b, <3>1, <3>3, <3>5, <3>6, <3>7
      <3> QED
        BY <2>b, <3>1, <3>3, <3>4, <3>7 DEF runs
    <2>21. ASSUME NEW t \in Tasks, Restore(t)
          PROVE  OneChance(s)'
      BY <2>21, <1>a, <2>a, <2>b DEF Restore, Change, TypeRec, TypeLock, files, clock, runs, counts, history
    <2> QED
      BY <2>1, <2>2, <2>3, <2>4, <2>5, <2>6, <2>7, <2>8, <2>9, <2>10, <2>11, <2>12, <2>13, <2>14, <2>15, <2>16, <2>17, <2>18, <2>19, <2>20, <2>21, <1>3 DEF Step, RunStep
  <1> QED
    BY <1>1, <1>2, <1>3, <1>a DEF Next, OnceInv

\* The server runs a one-time task to success once, unless it was changed or read
\* again during a run of it, whatever ends meanwhile and whoever runs it in a terminal.
THEOREM RunsOnce == Spec => []OnceIsOnce
  <1>1. OnceInv => OnceIsOnce
    BY DEF OnceInv, OneChance, OnceIsOnce
  <1>2. LockInv /\ OnceInv /\ [Next]_vars => (LockInv /\ OnceInv)'
    BY LockNext, RecNext, OnceNext DEF OnceInv
  <1> QED
    BY <1>1, <1>2, LockInit, OnceInit, PTL DEF Spec

\* What TypeOK says and TypeRec does not.
TypeRest ==
    /\ knows \in [Runs -> BOOLEAN] /\ crashes \in 0..MaxCrashes /\ wins \in [Tasks -> 0..2]
    /\ byHand \in [Tasks -> BOOLEAN] /\ refused \in [Tasks -> BOOLEAN]

LEMMA RestNext == TypeRec /\ TypeRest /\ [Next]_vars => TypeRest'
  <1> SUFFICES ASSUME TypeRec, TypeRest, [Next]_vars PROVE TypeRest'
    OBVIOUS
  <1> USE AutomationsAssumption DEF AutomationsAssumption
  <1>0. MaxCrashes \in Nat /\ at \in [Runs -> Stages] /\ on \in [Runs -> Tasks]
    BY DEF TypeRec, TypeLock
  <1>1. CASE Slot \/ Arm \/ Load \/ Start \/ Refresh \/ RefreshForOther
    BY <1>1 DEF Slot, Arm, Load, Start, Refresh, RefreshForOther, Clear, ReadFiles, Change, runs,
       counts, history, TypeRest
  <1>2. ASSUME NEW dead, Lost(dead) PROVE TypeRest'
    BY <1>0, <1>2 DEF Lost, history, TypeRest
  <1>3. ASSUME NEW t \in Tasks, NEW r \in Runs, Fire(t, r) \/ RunByHand(t, r) PROVE TypeRest'
    BY <1>3 DEF Fire, RunByHand, counts, history, TypeRest
  <1>4. ASSUME NEW r \in Runs, Look(r) \/ Take(r) \/ Work(r) \/ Release(r) PROVE TypeRest'
    <2>1. CASE Look(r)
      BY <1>0, <2>1 DEF Look, TurnedAway, counts, TypeRest
    <2>2. CASE Take(r) \/ Work(r) \/ Release(r)
      BY <2>2 DEF Take, Work, Release, counts, history, TypeRest
    <2> QED
      BY <1>4, <2>1, <2>2
  <1>5. ASSUME NEW r \in Runs, Save(r) PROVE TypeRest'
    <2>1. wins' = [wins EXCEPT ![on[r]] = IF rec[r].once /\ r \in Threads /\ @ < 2 THEN @ + 1 ELSE @]
      BY <1>5 DEF Save
    <2>2. wins' \in [Tasks -> 0..2]
      BY <1>0, <2>1 DEF TypeRest
    <2> QED
      BY <1>5, <2>2 DEF Save, counts, TypeRest
  <1>6. ASSUME NEW r \in Runs, Spend(r) \/ Consume(r) PROVE TypeRest'
    BY <1>6 DEF Spend, Consume, Drop, counts, history, TypeRest
  <1>7. ASSUME NEW t \in Tasks, NEW b \in BOOLEAN, Edit(t, b) \/ Delete(t, b) PROVE TypeRest'
    BY <1>7 DEF Edit, Delete, Change, runs, history, TypeRest
  <1>8. ASSUME NEW b \in BOOLEAN, SaveEdit(b) PROVE TypeRest'
    BY <1>8 DEF SaveEdit, runs, counts, TypeRest
  <1>9. ASSUME NEW t \in Tasks, Restore(t) PROVE TypeRest'
    BY <1>9 DEF Restore, Change, runs, TypeRest
  <1>10. CASE UNCHANGED vars
    BY <1>10 DEF vars, runs, counts, history, TypeRest
  <1> QED
    BY <1>1, <1>2, <1>3, <1>4, <1>5, <1>6, <1>7, <1>8, <1>9, <1>10
    DEF Next, Step, RunStep, Crash, CloseTerminal

\* The records, jobs, locks, runs and changes keep to their types, whatever dies, is
\* changed elsewhere or run by hand: no job or change holds a record that is gone.
THEOREM TypeCorrect == Spec => []TypeOK
  <1>1. Init => TypeRest
    <2>1. 0 \in 0..MaxCrashes
      BY AutomationsAssumption DEF AutomationsAssumption
    <2> QED
      BY <2>1 DEF Init, TypeRest
  <1>2. TypeRec /\ TypeRest => TypeOK
    BY DEF TypeRec, TypeRest, TypeLock, TypeOK
  <1> QED
    BY <1>1, <1>2, LockInit, LockNext, RecInit, RecNext, RestNext, PTL DEF Spec
=============================================================================
