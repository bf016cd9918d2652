------------------------ MODULE SubagentTasks_proofs ------------------------
(***************************************************************************)
(* Proofs about SubagentTasks for any number of tasks and chats.           *)
(*                                                                         *)
(* FileInv is about the two files and the mutation under way, and assumes  *)
(* nothing of how sub-agents behave: TypeCorrect and NoOtherIsLost.        *)
(* AnswerInv is about who can still answer for a task, DrainInv about the  *)
(* results the drain has read.  They need that no sub-agent is declared    *)
(* dead and reports after all (Stalling, Overlong and Loose are empty):    *)
(* AnswersAreToldOnce and ImplementsErrands.                               *)
(***************************************************************************)
EXTENDS SubagentTasks, FiniteSetTheorems, SequenceTheorems, WellFoundedInduction, TLAPS

-----------------------------------------------------------------------------
(* Lists of results *)

Distinct(s) == \A i, j \in DOMAIN s : s[i].task = s[j].task => i = j

\* A list of one result.
LEMMA OneResult ==
  ASSUME NEW r \in Results
  PROVE  /\ <<r>> \in Seq(Results) /\ Distinct(<<r>>)
         /\ Reported(<<r>>) = {r.task}
  BY DEF Distinct, Reported, Results

\* Two lists that name different tasks, one after the other (complete_task and its
\* like append to the results file).
LEMMA Joined ==
  ASSUME NEW s \in Seq(Results), NEW u \in Seq(Results)
  PROVE  /\ s \o u \in Seq(Results)
         /\ Reported(s \o u) = Reported(s) \cup Reported(u)
         /\ Distinct(s) /\ Distinct(u) /\ Reported(s) \cap Reported(u) = {}
               => Distinct(s \o u)
<1> DEFINE v == s \o u
<1>1. /\ v \in Seq(Results) /\ Len(v) = Len(s) + Len(u)
      /\ \A i \in 1..Len(s) : v[i] = s[i]
      /\ \A i \in 1..Len(u) : v[Len(s) + i] = u[i]
  OBVIOUS
<1>2. DOMAIN s = 1..Len(s) /\ DOMAIN u = 1..Len(u) /\ DOMAIN v = 1..(Len(s) + Len(u))
  BY <1>1
<1> HIDE DEF v
<1>3. \A i \in DOMAIN v : \/ i \in DOMAIN s /\ v[i] = s[i]
                          \/ i - Len(s) \in DOMAIN u /\ v[i] = u[i - Len(s)]
  <2> TAKE i \in DOMAIN v
  <2>1. CASE i \in 1..Len(s)
    BY <1>1, <1>2, <2>1
  <2>2. CASE i \notin 1..Len(s)
    <3>1. i - Len(s) \in 1..Len(u) /\ Len(s) + (i - Len(s)) = i
      BY <1>2, <2>2
    <3> QED
      BY <1>1, <1>2, <3>1
  <2> QED
    BY <2>1, <2>2
<1>4. Reported(v) = Reported(s) \cup Reported(u)
  <2>1. Reported(v) \subseteq Reported(s) \cup Reported(u)
    BY <1>3 DEF Reported
  <2>2. \A i \in DOMAIN s : i \in DOMAIN v /\ v[i] = s[i]
    BY <1>1, <1>2
  <2>3. \A i \in DOMAIN u : Len(s) + i \in DOMAIN v /\ v[Len(s) + i] = u[i]
    BY <1>1, <1>2
  <2>4. Reported(s) \subseteq Reported(v)
    BY <2>2 DEF Reported
  <2>5. Reported(u) \subseteq Reported(v)
    BY <2>3 DEF Reported
  <2> QED
    BY <2>1, <2>4, <2>5
<1>5. ASSUME Distinct(s), Distinct(u), Reported(s) \cap Reported(u) = {}
      PROVE  Distinct(v)
  <2> SUFFICES ASSUME NEW i \in DOMAIN v, NEW j \in DOMAIN v, v[i].task = v[j].task
               PROVE  i = j
    BY DEF Distinct
  <2>1. CASE i \in DOMAIN s /\ v[i] = s[i] /\ j \in DOMAIN s /\ v[j] = s[j]
    BY <1>5, <2>1 DEF Distinct
  <2>2. CASE /\ i - Len(s) \in DOMAIN u /\ v[i] = u[i - Len(s)]
             /\ j - Len(s) \in DOMAIN u /\ v[j] = u[j - Len(s)]
    <3>1. i - Len(s) = j - Len(s)
      BY <1>5, <2>2 DEF Distinct
    <3> QED
      BY <1>2, <3>1
  <2> QED
    BY <1>3, <1>5, <2>1, <2>2 DEF Reported
<1> QED
  BY <1>1, <1>4, <1>5 DEF v

\* The records of a set of tasks, one after the other (_check_zombies_locked).
LEMMA ListedLists ==
  ASSUME NEW S \in SUBSET Tasks
  PROVE  /\ Listed(S) \in Seq(Results) /\ Distinct(Listed(S))
         /\ Reported(Listed(S)) = S
<1> DEFINE n == Cardinality(S)
           s == SetToSeq(S)
<1>1. IsFiniteSet(S)
  BY SubagentTasksAssumption, FS_Subset
<1>2. n \in Nat /\ ExistsBijection(1..n, S)
  BY <1>1, FS_CardinalityType
<1>3. \E f \in [1..n -> S] : IsInjective(f)
  BY <1>2 DEF ExistsBijection, Bijection, Injection
<1>4. s \in [1..n -> S] /\ IsInjective(s)
  BY <1>3 DEF SetToSeq
<1>5. Cardinality(1..n) = n
  BY <1>2, FS_Interval
<1> HIDE DEF n, s
<1>6. s \in Injection(1..n, S)
  BY <1>4 DEF Injection
<1>7. s \in Surjection(1..n, S)
  BY <1>1, <1>5, <1>6, FS_Injection DEF n
<1>8. \A t \in S : \E i \in 1..n : s[i] = t
  BY <1>7 DEF Surjection
<1> DEFINE l == [i \in 1..n |-> Record(s[i])]
<1>9. Listed(S) = l
  BY <1>4 DEF Listed, s
<1>10. \A i \in 1..n : l[i] = Record(s[i]) /\ l[i].task = s[i] /\ l[i] \in Results
  BY <1>4 DEF Record, Results
<1>11. l \in Seq(Results)
  BY <1>2, <1>10
<1>12. Distinct(l)
  BY <1>4, <1>10 DEF Distinct, IsInjective
<1>13. Reported(l) = S
  BY <1>4, <1>8, <1>10 DEF Reported
<1> QED
  BY <1>9, <1>11, <1>12, <1>13

\* A task that is in a list has a first place in it.
LEMMA FirstPlace ==
  ASSUME NEW s \in Seq(Results), NEW t \in Reported(s)
  PROVE  \E i \in DOMAIN s : s[i].task = t /\ \A j \in 1..(i-1) : s[j].task # t
<1> DEFINE T == {i \in DOMAIN s : s[i].task = t}
<1>1. T \subseteq Nat /\ T # {}
  BY DEF Reported
<1> HIDE DEF T
<1>2. PICK i \in T : \A j \in T : ~(<<j, i>> \in OpToRel(<, Nat))
  BY <1>1, WFMin, NatLessThanWellFounded
<1>3. \A j \in T : ~(j < i)
  BY <1>1, <1>2 DEF OpToRel
<1>4. i \in DOMAIN s /\ s[i].task = t
  BY DEF T
<1>5. \A j \in 1..(i-1) : j \in DOMAIN s /\ j < i
  BY <1>4
<1> QED
  BY <1>3, <1>4, <1>5 DEF T

\* A sequence without the element at place i.
LEMMA WithoutOne ==
  ASSUME NEW S, NEW s \in Seq(S), NEW i \in 1..Len(s), NEW r,
         r = SubSeq(s, 1, i - 1) \o SubSeq(s, i + 1, Len(s))
  PROVE  /\ r \in Seq(S) /\ Len(r) = Len(s) - 1
         /\ \A j \in 1..(Len(s) - 1) : r[j] = IF j < i THEN s[j] ELSE s[j + 1]
<1> DEFINE a == SubSeq(s, 1, i - 1)
           b == SubSeq(s, i + 1, Len(s))
<1>1. a \in Seq(S) /\ Len(a) = i - 1 /\ \A j \in 1..(i - 1) : a[j] = s[j]
  OBVIOUS
<1>2. b \in Seq(S) /\ Len(b) = Len(s) - i /\ \A j \in 1..(Len(s) - i) : b[j] = s[j + i]
  OBVIOUS
<1>3. r = a \o b
  OBVIOUS
<1> HIDE DEF a, b
<1>4. r \in Seq(S) /\ Len(r) = Len(a) + Len(b)
  BY ONLY <1>1, <1>2, <1>3, ConcatProperties
<1>5. Len(s) \in Nat /\ i \in 1..Len(s)
  OBVIOUS
<1>6. Len(r) = Len(s) - 1
  BY ONLY <1>1, <1>2, <1>4, <1>5
<1>7. ASSUME NEW j \in 1..(Len(s) - 1)
      PROVE  r[j] = IF j < i THEN s[j] ELSE s[j + 1]
  <2>1. j \in 1..(Len(a) + Len(b))
    BY ONLY <1>1, <1>2, <1>5, j \in 1..(Len(s) - 1)
  <2>2. r[j] = IF j <= Len(a) THEN a[j] ELSE b[j - Len(a)]
    BY ONLY <1>1, <1>2, <1>3, <2>1, ConcatProperties
  <2>3. CASE j < i
    BY ONLY <1>1, <1>5, <2>2, <2>3, j \in 1..(Len(s) - 1)
  <2>4. CASE ~(j < i)
    <3>1. j - (i - 1) \in 1..(Len(s) - i) /\ j - (i - 1) + i = j + 1 /\ ~(j <= i - 1)
      BY ONLY <1>5, <2>4, j \in 1..(Len(s) - 1)
    <3> QED
      BY ONLY <1>1, <1>2, <2>2, <2>4, <3>1
  <2> QED
    BY <2>3, <2>4
<1> QED
  BY <1>4, <1>6, <1>7

\* consume_result takes one result of the task out, and no result of another.
LEMMA ConsumesOne ==
  ASSUME results \in Seq(Results), NEW t \in Tasks
  PROVE  /\ Consumed(t) \in Seq(Results)
         /\ Reported(results) \ {t} \subseteq Reported(Consumed(t))
         /\ Distinct(results) => /\ Distinct(Consumed(t))
                                 /\ Reported(Consumed(t)) = Reported(results) \ {t}
<1>1. CASE t \notin Reported(results)
  BY <1>1 DEF Consumed
<1>2. CASE t \in Reported(results)
  <2> DEFINE i == CHOOSE i \in DOMAIN results : IsFirst(i, t)
             n == Len(results)
             r == Consumed(t)
  <2>1. \E k \in DOMAIN results : IsFirst(k, t)
    BY <1>2, FirstPlace DEF IsFirst
  <2>2. i \in DOMAIN results /\ IsFirst(i, t)
    BY <2>1
  <2>3. r = SubSeq(results, 1, i - 1) \o SubSeq(results, i + 1, n)
    BY <1>2 DEF Consumed, RemoveAt
  <2> HIDE DEF i, r
  <2>4. i \in 1..n /\ n \in Nat /\ results[i].task = t
    BY <2>2 DEF IsFirst
  <2>5. /\ r \in Seq(Results) /\ Len(r) = n - 1
        /\ \A j \in 1..(n - 1) : r[j] = IF j < i THEN results[j] ELSE results[j + 1]
    BY ONLY <2>3, <2>4, results \in Seq(Results), WithoutOne
  <2> DEFINE from(j) == IF j < i THEN j ELSE j + 1
  <2>6. \A j \in DOMAIN r : from(j) \in DOMAIN results /\ from(j) # i /\ r[j] = results[from(j)]
    BY <2>4, <2>5
  <2>7. \A j, k \in DOMAIN r : from(j) = from(k) => j = k
    BY <2>4, <2>5
  <2>8. \A l \in DOMAIN results : l # i => \E j \in DOMAIN r : from(j) = l
    <3> TAKE l \in DOMAIN results
    <3>1. CASE l < i
      BY <2>4, <2>5, <3>1
    <3>2. CASE l > i
      <4>1. l - 1 \in DOMAIN r /\ from(l - 1) = l
        BY <2>4, <2>5, <3>2
      <4> QED
        BY <4>1
    <3> QED
      BY <2>4, <3>1, <3>2
  <2> HIDE DEF from
  <2>9. Reported(results) \ {t} \subseteq Reported(r)
    BY <2>4, <2>6, <2>8 DEF Reported
  <2>10. ASSUME Distinct(results)
         PROVE  Distinct(r) /\ Reported(r) = Reported(results) \ {t}
    <3>1. Distinct(r)
      BY <2>6, <2>7, <2>10 DEF Distinct
    <3>2. \A j \in DOMAIN r : r[j].task # t
      BY <2>4, <2>6, <2>10 DEF Distinct
    <3>3. Reported(r) \subseteq Reported(results) \ {t}
      BY <2>6, <3>2 DEF Reported
    <3> QED
      BY <2>9, <3>1, <3>3
  <2> QED
    BY <2>5, <2>9, <2>10 DEF r
<1> QED
  BY <1>1, <1>2

-----------------------------------------------------------------------------
(* The writes to come *)

Filed == pending \cup active
Ws    == DOMAIN writing

\* What a mutation will do to the files: it takes tasks out of the file they are
\* in, each once, and marks only tasks that are up or over.
TakenOut(i) == \A t \in writing[i].out :
    /\ \/ writing[i].file = "pending" /\ t \in pending
       \/ writing[i].file = "active" /\ t \in active
    /\ \A j \in Ws : j # i => t \notin writing[j].out

PutIn(i) == \A t \in writing[i].in :
    /\ writing[i].file = "active"
    /\ child[t] \in {"up", "over"}
    /\ t \in Filed => \E k \in Ws : k < i /\ t \in writing[k].out
    /\ \A j \in Ws : j # i => t \notin writing[j].in

\* A task that is taken out is put into a file, or posted, later.
HandedOn(i) == \A t \in writing[i].out :
    \E j \in Ws : j > i /\ t \in writing[j].in \cup Reported(writing[j].posts)

\* A sub-agent's process writes about its own task only.
OwnTask(i) == writer \in Tasks => writing[i].in \cup Reported(writing[i].posts) \subseteq {writer}

\* The files, whatever the sub-agents do.
FileInv ==
    /\ TypeOK
    /\ \A t \in active : child[t] \in {"up", "over"}
    /\ \A i \in Ws : TakenOut(i) /\ PutIn(i) /\ HandedOn(i) /\ OwnTask(i)
    /\ OthersNeverLost

-----------------------------------------------------------------------------
(* What the mutations write *)

\* The list W takes tasks out of their file and posts a result for each; S are
\* the tasks it posts.
Settles(W, S) ==
    /\ W \in Seq(Writes)
    /\ \A i \in DOMAIN W :
          /\ W[i].in = {} /\ Distinct(W[i].posts)
          /\ \A t \in W[i].out :
                /\ \/ W[i].file = "pending" /\ t \in pending
                   \/ W[i].file = "active" /\ t \in active
                /\ \A j \in DOMAIN W : j # i => t \notin W[j].out
                /\ \E j \in DOMAIN W : j > i /\ t \in Reported(W[j].posts)
          /\ \A t \in Reported(W[i].posts) :
                /\ t \in S
                /\ t \in Filed => \E k \in DOMAIN W : k < i /\ t \in W[k].out
                /\ \A j \in DOMAIN W : j # i => t \notin Reported(W[j].posts)

LEMMA NoResult == /\ <<>> \in Seq(Results) /\ Distinct(<<>>) /\ Reported(<<>>) = {}
  BY DEF Distinct, Reported

LEMMA LeavesAndPosts ==
  ASSUME NEW S \in SUBSET Tasks, NEW s \in Seq(Results), NEW f \in {"pending", "active"}
  PROVE  /\ Leave(f, S) \in Writes /\ Leave(f, S).file = f
         /\ Leave(f, S).out = S /\ Leave(f, S).in = {} /\ Leave(f, S).posts = <<>>
         /\ Post(s) \in Writes /\ Post(s).file = "results"
         /\ Post(s).out = {} /\ Post(s).in = {} /\ Post(s).posts = s
  BY NoResult DEF Leave, Post, Writes

\* Tasks of one file are taken out and posted.
LEMMA OnePair ==
  ASSUME TypeOK, NEW f \in {"pending", "active"},
         NEW S \in SUBSET (IF f = "pending" THEN pending ELSE active),
         NEW s \in Seq(Results), Distinct(s), Reported(s) = S
  PROVE  Settles(<<Leave(f, S), Post(s)>>, S)
<1> DEFINE W == <<Leave(f, S), Post(s)>>
<1>1. S \in SUBSET Tasks
  BY DEF TypeOK
<1>2. /\ W \in Seq(Writes) /\ DOMAIN W = {1, 2}
      /\ W[1].file = f /\ W[1].out = S /\ W[1].in = {} /\ W[1].posts = <<>>
      /\ W[2].out = {} /\ W[2].in = {} /\ W[2].posts = s
  BY <1>1, LeavesAndPosts
<1> HIDE DEF W
<1>3. Settles(W, S)
  BY <1>2, NoResult DEF Settles
<1> QED
  BY <1>3 DEF W

\* Nothing is found, nothing is done.
LEMMA NoPair == Settles(<<>>, {})
  BY DEF Settles

\* Tasks of both files.
LEMMA TwoPairs ==
  ASSUME TypeOK, NEW A \in SUBSET active, NEW P \in SUBSET pending,
         NEW a \in Seq(Results), Distinct(a), Reported(a) = A,
         NEW p \in Seq(Results), Distinct(p), Reported(p) = P
  PROVE  Settles(<<Leave("active", A), Post(a), Leave("pending", P), Post(p)>>, A \cup P)
<1> DEFINE W == <<Leave("active", A), Post(a), Leave("pending", P), Post(p)>>
<1>1. A \in SUBSET Tasks /\ P \in SUBSET Tasks /\ A \cap P = {} /\ A \cap pending = {}
      /\ P \cap active = {}
  BY DEF TypeOK
<1>2. /\ W \in Seq(Writes) /\ DOMAIN W = {1, 2, 3, 4}
      /\ W[1].file = "active" /\ W[1].out = A /\ W[1].in = {} /\ W[1].posts = <<>>
      /\ W[2].out = {} /\ W[2].in = {} /\ W[2].posts = a
      /\ W[3].file = "pending" /\ W[3].out = P /\ W[3].in = {} /\ W[3].posts = <<>>
      /\ W[4].out = {} /\ W[4].in = {} /\ W[4].posts = p
  BY <1>1, LeavesAndPosts
<1> HIDE DEF W
<1>3. \A i \in DOMAIN W : \A t \in W[i].out :
         /\ \/ W[i].file = "pending" /\ t \in pending
            \/ W[i].file = "active" /\ t \in active
         /\ \A j \in DOMAIN W : j # i => t \notin W[j].out
         /\ \E j \in DOMAIN W : j > i /\ t \in Reported(W[j].posts)
  BY <1>1, <1>2
<1>4. \A i \in DOMAIN W : \A t \in Reported(W[i].posts) :
         /\ t \in A \cup P
         /\ \E k \in DOMAIN W : k < i /\ t \in W[k].out
         /\ \A j \in DOMAIN W : j # i => t \notin Reported(W[j].posts)
  BY <1>1, <1>2, NoResult
<1>5. \A i \in DOMAIN W : W[i].in = {} /\ Distinct(W[i].posts)
  BY <1>2, NoResult
<1>6. Settles(W, A \cup P)
  BY <1>2, <1>3, <1>4, <1>5 DEF Settles
<1> QED
  BY <1>6 DEF W

\* fail_task: the task is settled, if it is in a file.
LEMMA FailingSettles ==
  ASSUME TypeOK, NEW t \in Tasks
  PROVE  Settles(Failing(t), {t} \cap Filed)
<1> DEFINE s == <<Record(t)>>
<1>1. s \in Seq(Results) /\ Distinct(s) /\ Reported(s) = {t}
  BY OneResult DEF Record, Results
<1> HIDE DEF s
<1>2. CASE t \in active
  <2>1. Settles(<<Leave("active", {t}), Post(s)>>, {t})
    BY <1>1, <1>2, OnePair
  <2> QED
    BY <1>2, <2>1 DEF Failing, Settle, Filed, s
<1>3. CASE t \in pending \ active
  <2>1. Settles(<<Leave("pending", {t}), Post(s)>>, {t})
    BY <1>1, <1>3, OnePair
  <2> QED
    BY <1>3, <2>1 DEF Failing, Settle, Filed, s
<1>4. CASE t \notin Filed
  BY <1>4, NoPair DEF Failing, Settle, Filed
<1> QED
  BY <1>2, <1>3, <1>4 DEF Filed

\* complete_task: so it is, and otherwise a record is made up.
LEMMA CompletingSettles ==
  ASSUME TypeOK, NEW t \in Tasks
  PROVE  Settles(Completing(t), {t})
<1>1. CASE t \in Filed
  <2>1. Completing(t) = Failing(t) /\ {t} \cap Filed = {t}
    BY <1>1 DEF Completing, Failing, Filed
  <2> QED
    BY <2>1, FailingSettles
<1>2. CASE t \notin Filed
  <2> DEFINE s == <<Nameless(t)>>
             W == <<Post(s)>>
  <2>1. s \in Seq(Results) /\ Distinct(s) /\ Reported(s) = {t}
    BY OneResult DEF Nameless, Results
  <2> HIDE DEF s
  <2>2. /\ W \in Seq(Writes) /\ DOMAIN W = {1}
        /\ W[1].out = {} /\ W[1].in = {} /\ W[1].posts = s
    BY <2>1, LeavesAndPosts
  <2> HIDE DEF W
  <2>3. Settles(W, {t})
    BY <1>2, <2>1, <2>2 DEF Settles
  <2> QED
    BY <1>2, <2>3 DEF Completing, Filed, W, s
<1> QED
  BY <1>1, <1>2

\* Two lists of two are a list of four.
LEMMA FourWrites ==
  ASSUME NEW w, NEW x, NEW y, NEW z
  PROVE  <<w, x>> \o <<y, z>> = <<w, x, y, z>>
<1> DEFINE S == {w, x, y, z}
           s == <<w, x>> \o <<y, z>>
           t == <<w, x, y, z>>
<1>1. /\ s \in Seq(S) /\ Len(s) = 4
      /\ s[1] = w /\ s[2] = x /\ s[3] = y /\ s[4] = z
  <2>1. /\ <<w, x>> \in Seq(S) /\ Len(<<w, x>>) = 2
        /\ <<y, z>> \in Seq(S) /\ Len(<<y, z>>) = 2
    OBVIOUS
  <2>2. /\ s \in Seq(S) /\ Len(s) = 4
        /\ \A i \in 1..4 : s[i] = IF i <= 2 THEN <<w, x>>[i] ELSE <<y, z>>[i - 2]
    BY <2>1, ConcatProperties
  <2> QED
    BY <2>2
<1>2. /\ t \in Seq(S) /\ Len(t) = 4
      /\ t[1] = w /\ t[2] = x /\ t[3] = y /\ t[4] = z
  OBVIOUS
<1> HIDE DEF s, t
<1>3. \A i \in 1..4 : s[i] = t[i]
  BY <1>1, <1>2
<1>4. s = t
  BY <1>1, <1>2, <1>3, SeqEqual
<1> QED
  BY <1>4 DEF s, t

\* _check_zombies_locked: all that is quiet, of the one file and of the other.
LEMMA ReapedSettles ==
  ASSUME TypeOK
  PROVE  Settles(Reaped, Filed \cap quiet)
<1> DEFINE A == active \cap quiet
           P == pending \cap quiet
           a == Listed(A)
           p == Listed(P)
           first  == <<Leave("active", A), Post(a)>>
           second == <<Leave("pending", P), Post(p)>>
<1>1. A \in SUBSET Tasks /\ P \in SUBSET Tasks /\ Filed \cap quiet = A \cup P
  BY DEF TypeOK, Filed
<1>2. /\ a \in Seq(Results) /\ Distinct(a) /\ Reported(a) = A
      /\ p \in Seq(Results) /\ Distinct(p) /\ Reported(p) = P
  BY <1>1, ListedLists
<1>3. Reaped = (IF A = {} THEN <<>> ELSE first) \o (IF P = {} THEN <<>> ELSE second)
  BY DEF Reaped
<1> HIDE DEF a, p
<1>4. CASE A = {} /\ P = {}
  <2>1. Reaped = <<>> /\ A \cup P = {}
    BY <1>3, <1>4
  <2> QED
    BY <1>1, <2>1, NoPair
<1>5. CASE A # {} /\ P = {}
  <2>1. Settles(first, A)
    BY <1>2, OnePair
  <2>2. Reaped = first /\ A \cup P = A
    BY <1>3, <1>5
  <2> QED
    BY <1>1, <2>1, <2>2
<1>6. CASE A = {} /\ P # {}
  <2>1. Settles(second, P)
    BY <1>2, OnePair
  <2>2. Reaped = second /\ A \cup P = P
    BY <1>3, <1>6
  <2> QED
    BY <1>1, <2>1, <2>2
<1>7. CASE A # {} /\ P # {}
  <2>1. Settles(<<Leave("active", A), Post(a), Leave("pending", P), Post(p)>>, A \cup P)
    BY <1>2, TwoPairs
  <2>2. Reaped = first \o second
    BY <1>3, <1>7
  <2>3. first \o second = <<Leave("active", A), Post(a), Leave("pending", P), Post(p)>>
    BY FourWrites
  <2>4. Reaped = <<Leave("active", A), Post(a), Leave("pending", P), Post(p)>>
    BY <2>2, <2>3
  <2> QED
    BY <1>1, <2>1, <2>4
<1> QED
  BY <1>4, <1>5, <1>6, <1>7

-----------------------------------------------------------------------------
(* The steps by what they do to the files *)

States == {"none", "created", "up", "over", "cancelled"}

\* Processes come up and end.
Grows ==
    /\ child' \in [Tasks -> States]
    /\ \A t \in Tasks : \/ child'[t] = child[t]
                        \/ child[t] = "created" /\ child'[t] = "up"
                        \/ child[t] = "up" /\ child'[t] = "over"

\* No file is touched.
Elsewhere == UNCHANGED <<files, guard, told>> /\ Grows

\* The tasks of S are settled: their sub-agents report, or they are in a file and
\* declared dead.
Settling(S) ==
    /\ Free /\ Settles(writing', S)
    /\ writer' \in Tasks => S \subseteq {writer'}
    /\ UNCHANGED <<files, told>> /\ Grows
    /\ \A t \in S : \/ child[t] = "up" /\ child'[t] = "over"
                    \/ t \in Filed /\ \/ child[t] = "over"
                                      \/ t \in quiet \cup stopping \cup Overlong

LEMMA SettlingSteps ==
  ASSUME TypeOK, NEW t \in Tasks,
         Complete(t) \/ Fail(t) \/ Watch(t) \/ CleanUpStale(t) \/ FailStopped(t)
  PROVE  Settling({t}) \/ Settling({t} \cap Filed)
<1>1. ASSUME Over(t), child[t] = "up"
      PROVE  Grows /\ child'[t] = "over"
  BY <1>1 DEF Over, Grows, States, TypeOK
<1>2. ASSUME UNCHANGED child
      PROVE  Grows
  BY <1>2 DEF Grows, States, TypeOK
<1>3. CASE Complete(t)
  BY <1>1, <1>3, CompletingSettles DEF Complete, Mutate, Settling, files
<1>4. CASE Fail(t)
  BY <1>1, <1>4, FailingSettles DEF Fail, Mutate, Settling, files
<1>5. CASE Watch(t)
  BY <1>2, <1>5, FailingSettles, SubagentTasksAssumption DEF Watch, Mutate, Settling, files
<1>6. CASE CleanUpStale(t)
  BY <1>2, <1>6, FailingSettles, SubagentTasksAssumption DEF CleanUpStale, Mutate, Settling, files
<1>7. CASE FailStopped(t)
  BY <1>2, <1>7, FailingSettles, SubagentTasksAssumption DEF FailStopped, Mutate, Settling, files
<1> QED
  BY <1>3, <1>4, <1>5, <1>6, <1>7

LEMMA ReapingStep ==
  ASSUME TypeOK, CheckZombies
  PROVE  Settling(Filed \cap quiet)
  BY ReapedSettles, SubagentTasksAssumption
  DEF CheckZombies, Mutate, Settling, files, Grows, States, TypeOK

LEMMA StepsElsewhere ==
  ASSUME TypeOK,
         \/ \E t \in Tasks : Open(t) \/ Beat(t) \/ Vanish(t) \/ Silence(t)
         \/ \E c \in Chats : Stop(c) \/ TurnBegins(c) \/ TurnEnds(c)
         \/ Look \/ HoldOpenFanouts \/ Claim \/ ClaimNone \/ Release
         \/ UNCHANGED vars
  PROVE  Elsewhere
<1>1. ASSUME UNCHANGED child PROVE Grows
  BY <1>1 DEF Grows, States, TypeOK
<1>2. CASE \E t \in Tasks : Open(t) \/ Beat(t) \/ Vanish(t) \/ Silence(t)
  BY <1>1, <1>2 DEF Elsewhere, Open, Beat, Vanish, Over, Silence, Grows, States, TypeOK
<1>3. CASE \E c \in Chats : Stop(c)
  BY <1>3 DEF Elsewhere, Stop, Grows, States, TypeOK
<1>4. CASE \E c \in Chats : TurnBegins(c) \/ TurnEnds(c)
  BY <1>1, <1>4 DEF Elsewhere, TurnBegins, TurnEnds
<1>5. CASE Look \/ HoldOpenFanouts \/ Claim \/ ClaimNone \/ Release \/ UNCHANGED vars
  BY <1>1, <1>5 DEF Elsewhere, Look, HoldOpenFanouts, Claim, ClaimNone, Release, vars
<1> QED
  BY <1>2, <1>3, <1>4, <1>5

\* The kinds of steps.
LEMMA Kinds ==
  ASSUME TypeOK, [Next]_vars
  PROVE  \/ Elsewhere \/ (\E S \in SUBSET Tasks : Settling(S))
         \/ Write \/ Cut \/ Deliver
         \/ \E t \in Tasks : Mark(t) \/ Create(t) \/ FailSpawn(t)
<1>1. ASSUME NEW t \in Tasks, Settling({t}) \/ Settling({t} \cap Filed)
      PROVE  \E S \in SUBSET Tasks : Settling(S)
  BY <1>1
<1>2. CASE CheckZombies
  <2>1. Filed \cap quiet \in SUBSET Tasks
    BY DEF TypeOK
  <2> QED
    BY <1>2, <2>1, ReapingStep
<1> QED
  BY <1>1, <1>2, SettlingSteps, StepsElsewhere DEF Next, Spawning, Reporting, Draining

\* What a write does: the tasks it takes out are in no file then, those it puts in
\* are in one, and the writes after it come next.
LEMMA WriteFacts ==
  ASSUME FileInv, Write
  PROVE  LET w == writing[1]
         IN  /\ 1 \in Ws /\ w \in Writes
             /\ pending' \subseteq Tasks /\ active' \subseteq Tasks
             /\ pending' \cap active' = {}
             /\ active' \subseteq active \cup w.in
             /\ Filed' = (Filed \ w.out) \cup w.in
             /\ results' = results \o w.posts
             /\ writing' \in Seq(Writes)
             /\ \A i \in Ws' : i + 1 \in Ws /\ writing'[i] = writing[i + 1]
             /\ \A i \in Ws : i # 1 => i - 1 \in Ws' /\ writing'[i - 1] = writing[i]
             /\ \A i \in Ws : \A t \in writing[i].out : i # 1 =>
                   /\ writing[i].file = "pending" => t \in pending'
                   /\ writing[i].file = "active" => t \in active'
<1> DEFINE w == writing[1]
<1>1. writing \in Seq(Writes) /\ writing # <<>> /\ Head(writing) = w /\ 1 \in Ws /\ w \in Writes
  <2>1. writing \in Seq(Writes) /\ writing # <<>>
    BY DEF FileInv, TypeOK, Write
  <2>2. Len(writing) \in Nat /\ Len(writing) > 0 /\ Ws = 1..Len(writing)
    BY <2>1 DEF Ws
  <2> QED
    BY <2>1, <2>2
<1>2. /\ writing' \in Seq(Writes) /\ Ws' = 1..(Len(writing) - 1) /\ Ws = 1..Len(writing)
      /\ \A i \in Ws' : writing'[i] = writing[i + 1]
  <2>1. writing' = Tail(writing)
    BY DEF Write
  <2>2. /\ Tail(writing) \in Seq(Writes) /\ Len(Tail(writing)) = Len(writing) - 1
        /\ \A i \in 1..Len(Tail(writing)) : Tail(writing)[i] = writing[i + 1]
    BY <1>1, HeadTailProperties
  <2> QED
    BY <1>1, <2>1, <2>2 DEF Ws
<1>3. /\ pending' = IF w.file = "pending" THEN (pending \ w.out) \cup w.in ELSE pending
      /\ active' = IF w.file = "active" THEN (active \ w.out) \cup w.in ELSE active
      /\ results' = results \o w.posts
  BY <1>1 DEF Write
<1>4. /\ \A t \in w.out : \/ w.file = "pending" /\ t \in pending
                          \/ w.file = "active" /\ t \in active
      /\ \A t \in w.in : w.file = "active" /\ t \notin Filed
  BY <1>1, <1>2 DEF FileInv, TakenOut, PutIn
<1>5. w.in \subseteq Tasks /\ pending \subseteq Tasks /\ active \subseteq Tasks
      /\ pending \cap active = {}
  BY <1>1 DEF Writes, FileInv, TypeOK
<1>6. \A i \in Ws : i # 1 => i - 1 \in Ws' /\ writing'[i - 1] = writing[i]
  BY <1>1, <1>2
<1>7. \A i \in Ws : \A t \in writing[i].out : i # 1 => t \notin w.out
  BY <1>1 DEF FileInv, TakenOut
<1>8. \A i \in Ws : \A t \in writing[i].out :
         /\ writing[i].file = "pending" => t \in pending
         /\ writing[i].file = "active" => t \in active
  BY DEF FileInv, TakenOut
<1> HIDE DEF w
<1>9. Filed' = (Filed \ w.out) \cup w.in
  BY <1>3, <1>4, <1>5 DEF Filed
<1>10. pending' \cap active' = {}
  BY <1>3, <1>4, <1>5 DEF Filed
<1>11. \A i \in Ws' : i + 1 \in Ws
  BY <1>1, <1>2
<1>12. pending' \subseteq Tasks /\ active' \subseteq Tasks /\ active' \subseteq active \cup w.in
  BY <1>3, <1>5
<1>13. \A i \in Ws : \A t \in writing[i].out : i # 1 =>
         /\ writing[i].file = "pending" => t \in pending'
         /\ writing[i].file = "active" => t \in active'
  BY <1>3, <1>7, <1>8
<1> QED
  BY <1>1, <1>2, <1>3, <1>6, <1>9, <1>10, <1>11, <1>12, <1>13 DEF w

-----------------------------------------------------------------------------
(* The files *)

\* mark_task_running moves one task.
LEMMA MarkFacts ==
  ASSUME TypeOK, NEW t \in Tasks, Mark(t)
  PROVE  /\ writing' \in Seq(Writes) /\ Ws' = {1, 2}
         /\ writing'[1].file = "pending" /\ writing'[1].out = {t}
         /\ writing'[1].in = {} /\ writing'[1].posts = <<>>
         /\ writing'[2].file = "active" /\ writing'[2].out = {}
         /\ writing'[2].in = {t} /\ writing'[2].posts = <<>>
  BY NoResult DEF Mark, Mutate, Leave, Enter, Writes, Ws

LEMMA BatchTyped ==
  ASSUME TypeOK
  PROVE  \A i \in picked : batch[i].task \in Tasks
<1>1. \A i \in picked : batch[i] \in Results
  BY DEF TypeOK
<1> QED
  BY <1>1 DEF Results

\* A delivery consumes what it tells.
LEMMA DeliverFacts ==
  ASSUME TypeOK, Deliver
  PROVE  \E i \in picked :
            /\ batch[i].task \in Tasks
            /\ told' = [told EXCEPT ![batch[i].task] = @ + 1]
            /\ results' = Consumed(batch[i].task)
            /\ picked' = picked \ {i}
<1>1. \A i \in picked : batch[i].task \in Tasks
  BY BatchTyped
<1> QED
  BY <1>1 DEF Deliver

LEMMA DrainTyped ==
  ASSUME TypeOK, [Next]_vars
  PROVE  /\ phase' \in {"idle", "hold", "claim", "deliver"}
         /\ batch' \in Seq(Results) /\ picked' \subseteq DOMAIN batch'
         /\ serving' \in Chats \cup {NoChat}
<1>1. CASE Look
  BY <1>1 DEF Look, TypeOK
<1>2. CASE HoldOpenFanouts
  BY <1>2 DEF HoldOpenFanouts, TypeOK
<1>3. CASE Claim
  <2>1. PICK i \in picked : serving' = ChatOf[batch[i].task]
    BY <1>3 DEF Claim
  <2>2. serving' \in Chats
    BY <2>1, BatchTyped, SubagentTasksAssumption
  <2> QED
    BY <1>3, <2>2 DEF Claim, TypeOK
<1>4. CASE ClaimNone
  BY <1>4 DEF ClaimNone, TypeOK
<1>5. CASE Deliver
  BY <1>5 DEF Deliver, TypeOK
<1>6. CASE Release
  BY <1>6 DEF Release, TypeOK
<1>7. CASE UNCHANGED drain
  BY <1>7 DEF drain, TypeOK
<1> QED
  BY <1>1, <1>2, <1>3, <1>4, <1>5, <1>6, <1>7
  DEF Next, Draining, Spawning, Reporting, Write, Cut, Create, Open, FailSpawn, Mark, Beat,
      Complete, Fail, Vanish, Watch, Silence, CleanUpStale, FailStopped, CheckZombies,
      Stop, TurnBegins, TurnEnds, vars

LEMMA RestTyped ==
  ASSUME TypeOK, [Next]_vars
  PROVE  /\ quiet' \subseteq Tasks /\ busy' \subseteq Chats /\ stopping' \subseteq Tasks
         /\ stopped' \subseteq Tasks
<1>1. CASE \E t \in Tasks : Beat(t) \/ Silence(t) \/ FailStopped(t)
  BY <1>1 DEF Beat, Silence, FailStopped, TypeOK
<1>2. CASE \E c \in Chats : Stop(c) \/ TurnBegins(c) \/ TurnEnds(c)
  BY <1>2 DEF Stop, TurnBegins, TurnEnds, TypeOK
<1>3. CASE UNCHANGED <<quiet, busy, stopping, stopped>>
  BY <1>3 DEF TypeOK
<1> QED
  BY <1>1, <1>2, <1>3
  DEF Next, Draining, Spawning, Reporting, Write, Cut, Create, Open, FailSpawn, Mark,
      Complete, Fail, Vanish, Watch, CleanUpStale, CheckZombies,
      Look, HoldOpenFanouts, Claim, ClaimNone, Deliver, Release, vars

LEMMA WriterTyped ==
  ASSUME TypeOK, [Next]_vars
  PROVE  writer' \in Tasks \cup {Runner}
<1>1. CASE \E t \in Tasks : \/ Mark(t) \/ Complete(t) \/ Fail(t) \/ Watch(t) \/ CleanUpStale(t)
                            \/ FailStopped(t)
  BY <1>1 DEF Mark, Complete, Fail, Watch, CleanUpStale, FailStopped, Mutate
<1>2. CASE CheckZombies
  BY <1>2 DEF CheckZombies, Mutate
<1>3. CASE UNCHANGED writer
  BY <1>3 DEF TypeOK
<1> QED
  BY <1>1, <1>2, <1>3
  DEF Next, Draining, Spawning, Reporting, Write, Cut, Create, Open, FailSpawn, Beat,
      Vanish, Silence, Stop, TurnBegins, TurnEnds, guard,
      Look, HoldOpenFanouts, Claim, ClaimNone, Deliver, Release, vars

LEMMA TypesNext ==
  ASSUME FileInv, [Next]_vars
  PROVE  TypeOK'
<1>0. TypeOK
  BY DEF FileInv
<1>1. /\ phase' \in {"idle", "hold", "claim", "deliver"}
      /\ batch' \in Seq(Results) /\ picked' \subseteq DOMAIN batch'
      /\ serving' \in Chats \cup {NoChat}
  BY <1>0, DrainTyped
<1>2. /\ quiet' \subseteq Tasks /\ busy' \subseteq Chats /\ stopping' \subseteq Tasks
      /\ stopped' \subseteq Tasks /\ writer' \in Tasks \cup {Runner}
  BY <1>0, RestTyped, WriterTyped
<1> SUFFICES /\ pending' \subseteq Tasks /\ active' \subseteq Tasks /\ pending' \cap active' = {}
             /\ results' \in Seq(Results)
             /\ writing' \in Seq(Writes)
             /\ child' \in [Tasks -> {"none", "created", "up", "over", "cancelled"}]
             /\ told' \in [Tasks -> Nat]
  BY <1>1, <1>2 DEF TypeOK
<1>3. CASE Elsewhere
  BY <1>0, <1>3 DEF Elsewhere, files, guard, Grows, States, TypeOK
<1>4. ASSUME NEW S \in SUBSET Tasks, Settling(S)
      PROVE  TypeOK'
  BY <1>0, <1>1, <1>2, <1>4 DEF Settling, Settles, files, Grows, States, TypeOK
<1>5. CASE Write
  <2>1. results \in Seq(Results) /\ writing[1].posts \in Seq(Results)
    BY <1>0, <1>5, WriteFacts DEF TypeOK, Writes
  <2>2. results' = results \o writing[1].posts
    BY <1>5, WriteFacts
  <2>3. results' \in Seq(Results)
    BY <2>1, <2>2, Joined
  <2>4. UNCHANGED <<child, told>>
    BY <1>5 DEF Write
  <2> QED
    BY <1>0, <1>5, <2>3, <2>4, WriteFacts DEF TypeOK
<1>6. CASE Cut
  BY <1>0, <1>6 DEF Cut, files, TypeOK
<1>7. CASE Deliver
  <2>1. PICK i \in picked : /\ batch[i].task \in Tasks
                            /\ told' = [told EXCEPT ![batch[i].task] = @ + 1]
                            /\ results' = Consumed(batch[i].task)
    BY <1>0, <1>7, DeliverFacts
  <2>2. results' \in Seq(Results)
    BY <1>0, <2>1, ConsumesOne DEF TypeOK
  <2>3. UNCHANGED <<pending, active, guard, child>>
    BY <1>7 DEF Deliver
  <2> QED
    BY <1>0, <2>1, <2>2, <2>3 DEF TypeOK, guard
<1>8. ASSUME NEW t \in Tasks, Mark(t)
      PROVE  TypeOK'
  <2>1. UNCHANGED <<files, child, told>> /\ writing' \in Seq(Writes)
    BY <1>0, <1>8, MarkFacts DEF Mark
  <2> QED
    BY <1>0, <1>1, <1>2, <2>1 DEF files, TypeOK
<1>9. ASSUME NEW t \in Tasks, Create(t)
      PROVE  TypeOK'
  <2>1. t \notin active
    BY <1>9 DEF FileInv, Create
  <2> QED
    BY <1>0, <1>1, <1>2, <1>9, <2>1 DEF Create, guard, TypeOK
<1>10. ASSUME NEW t \in Tasks, FailSpawn(t)
       PROVE  TypeOK'
  BY <1>0, <1>1, <1>2, <1>10 DEF FailSpawn, guard, TypeOK
<1> QED
  BY <1>0, <1>3, <1>4, <1>5, <1>6, <1>7, <1>8, <1>9, <1>10, Kinds DEF TypeOK

LEMMA WrittenIs ==
  \A t : t \in Written <=> \E i \in Ws : t \in writing[i].in \cup Reported(writing[i].posts)
  BY DEF Written, Ws

LEMMA FreeIsEmpty == Free => Ws = {} /\ Written = {}
<1>1. Free => Ws = {}
  BY DEF Free, Ws
<1> QED
  BY <1>1, WrittenIs

\* What would be lost after a step that leaves the files as they are and drops no
\* write was lost before.
LEMMA StillFound ==
  ASSUME FileInv, Grows, UNCHANGED <<files, told>>, Free \/ UNCHANGED writing
  PROVE  OthersNeverLost'
<1> SUFFICES ASSUME NEW t \in Tasks \ Fragile, Lost(t)'
             PROVE  FALSE
  BY DEF OthersNeverLost
<1>1. child[t] \in {"created", "up", "over"} /\ told[t] = 0
  BY DEF Lost, Grows
<1>2. t \notin pending \cup active \cup Reported(results) \cup Written
  <2>1. t \notin pending' \cup active' \cup Reported(results') \cup Written'
    BY DEF Lost
  <2>2. Written = {} \/ Written' = Written
    BY FreeIsEmpty DEF Written
  <2> QED
    BY <2>1, <2>2 DEF files
<1> QED
  BY <1>1, <1>2 DEF FileInv, OthersNeverLost, Lost

LEMMA FileElsewhere ==
  ASSUME FileInv, TypeOK', Elsewhere
  PROVE  FileInv'
<1>1. UNCHANGED <<files, guard>> /\ Grows
  BY DEF Elsewhere
<1>2. \A i \in Ws' : TakenOut(i)' /\ HandedOn(i)' /\ OwnTask(i)'
  BY <1>1 DEF FileInv, files, guard, Ws, TakenOut, HandedOn, OwnTask
<1>3. \A i \in Ws : writing[i].in \subseteq Tasks
  <2>1. \A i \in Ws : writing[i] \in Writes
    BY DEF FileInv, TypeOK, Ws
  <2> QED
    BY <2>1 DEF Writes
<1>4. \A i \in Ws' : PutIn(i)'
  BY <1>1, <1>3 DEF FileInv, files, guard, Ws, Filed, PutIn, Grows
<1>5. \A t \in active' : child'[t] \in {"up", "over"}
  BY <1>1 DEF FileInv, TypeOK, files, Grows
<1>6. OthersNeverLost'
  BY <1>1, StillFound DEF Elsewhere, guard
<1> QED
  BY <1>2, <1>4, <1>5, <1>6 DEF FileInv

LEMMA FileSettling ==
  ASSUME FileInv, TypeOK', NEW S \in SUBSET Tasks, Settling(S)
  PROVE  FileInv'
<1>1. UNCHANGED files /\ Grows /\ Free /\ Settles(writing', S)
  BY DEF Settling
<1>2. \A i \in Ws' : TakenOut(i)' /\ PutIn(i)' /\ HandedOn(i)'
  BY <1>1 DEF Settles, files, Ws, TakenOut, PutIn, HandedOn
<1>3. \A i \in Ws' : OwnTask(i)'
  <2>1. \A i \in Ws' : writing'[i].in = {} /\ Reported(writing'[i].posts) \subseteq S
    BY <1>1 DEF Settles, Ws
  <2> QED
    BY <2>1 DEF OwnTask, Settling
<1>4. \A t \in active' : child'[t] \in {"up", "over"}
  BY <1>1 DEF FileInv, TypeOK, files, Grows
<1>5. OthersNeverLost'
  BY <1>1, StillFound DEF Settling
<1> QED
  BY <1>2, <1>3, <1>4, <1>5 DEF FileInv

LEMMA FileMark ==
  ASSUME FileInv, TypeOK', NEW t \in Tasks, Mark(t)
  PROVE  FileInv'
<1>1. /\ UNCHANGED <<files, child, told>> /\ Free /\ t \in pending /\ child[t] = "up"
      /\ writer' = t
  BY DEF Mark, Mutate
<1>2. /\ Ws' = {1, 2}
      /\ writing'[1].file = "pending" /\ writing'[1].out = {t}
      /\ writing'[1].in = {} /\ writing'[1].posts = <<>>
      /\ writing'[2].file = "active" /\ writing'[2].out = {}
      /\ writing'[2].in = {t} /\ writing'[2].posts = <<>>
  BY MarkFacts DEF FileInv
<1>3. \A i \in Ws' : TakenOut(i)' /\ PutIn(i)' /\ HandedOn(i)' /\ OwnTask(i)'
  BY <1>1, <1>2, NoResult DEF files, TakenOut, PutIn, HandedOn, OwnTask
<1>4. OthersNeverLost'
  <2>1. Grows
    BY <1>1 DEF FileInv, TypeOK, Grows, States
  <2> QED
    BY <1>1, <2>1, StillFound
<1> QED
  BY <1>1, <1>3, <1>4 DEF FileInv, files

LEMMA FileWrite ==
  ASSUME FileInv, TypeOK', Write
  PROVE  FileInv'
<1> DEFINE w == writing[1]
<1>1. /\ 1 \in Ws /\ w \in Writes
      /\ active' \subseteq active \cup w.in
      /\ Filed' = (Filed \ w.out) \cup w.in
      /\ results' = results \o w.posts
      /\ \A i \in Ws' : i + 1 \in Ws /\ writing'[i] = writing[i + 1]
      /\ \A i \in Ws : i # 1 => i - 1 \in Ws' /\ writing'[i - 1] = writing[i]
      /\ \A i \in Ws : \A t \in writing[i].out : i # 1 =>
            /\ writing[i].file = "pending" => t \in pending'
            /\ writing[i].file = "active" => t \in active'
  BY WriteFacts
<1>2. UNCHANGED <<writer, child, told>>
  BY DEF Write
<1>3. Ws \subseteq Nat \ {0} /\ Ws' \subseteq Nat \ {0}
  BY DEF FileInv, TypeOK, Ws
<1>4. Reported(results') = Reported(results) \cup Reported(w.posts)
  <2>1. results \in Seq(Results) /\ w.posts \in Seq(Results)
    BY <1>1 DEF FileInv, TypeOK, Writes
  <2> QED
    BY <1>1, <2>1, Joined
<1> HIDE DEF w
<1>5. ASSUME NEW i \in Ws'
      PROVE  TakenOut(i)' /\ PutIn(i)' /\ HandedOn(i)' /\ OwnTask(i)'
  <2> DEFINE v == writing[i + 1]
  <2>1. /\ i + 1 \in Ws /\ writing'[i] = v /\ i + 1 # 1 /\ i \in Nat
        /\ TakenOut(i + 1) /\ PutIn(i + 1) /\ HandedOn(i + 1) /\ OwnTask(i + 1)
    BY <1>1, <1>3 DEF FileInv
  <2>2. TakenOut(i)'
    <3>1. ASSUME NEW t \in v.out
          PROVE  \/ v.file = "pending" /\ t \in pending'
                 \/ v.file = "active" /\ t \in active'
      BY <1>1, <2>1, <3>1 DEF TakenOut
    <3>2. ASSUME NEW t \in v.out, NEW j \in Ws', j # i
          PROVE  t \notin writing'[j].out
      BY <1>1, <1>3, <2>1, <3>2 DEF TakenOut
    <3> QED
      BY <2>1, <3>1, <3>2 DEF TakenOut
  <2>3. PutIn(i)'
    <3>1. ASSUME NEW t \in v.in
          PROVE  v.file = "active" /\ child'[t] \in {"up", "over"} /\ t \notin w.in
      BY <1>1, <1>2, <2>1 DEF PutIn, w
    <3>2. ASSUME NEW t \in v.in, t \in Filed'
          PROVE  \E k \in Ws' : k < i /\ t \in writing'[k].out
      <4>1. t \in Filed /\ t \notin w.out
        BY <1>1, <3>1, <3>2
      <4>2. PICK k \in Ws : k < i + 1 /\ t \in writing[k].out
        BY <2>1, <4>1 DEF PutIn
      <4>3. k # 1
        BY <4>1, <4>2 DEF w
      <4> QED
        BY <1>1, <1>3, <2>1, <4>2, <4>3
    <3>3. ASSUME NEW t \in v.in, NEW j \in Ws', j # i
          PROVE  t \notin writing'[j].in
      BY <1>1, <1>3, <2>1, <3>3 DEF PutIn
    <3> QED
      BY <2>1, <3>1, <3>2, <3>3 DEF PutIn
  <2>4. HandedOn(i)'
    <3>1. ASSUME NEW t \in v.out
          PROVE  \E j \in Ws' : j > i /\ t \in writing'[j].in \cup Reported(writing'[j].posts)
      <4>1. PICK j \in Ws : j > i + 1 /\ t \in writing[j].in \cup Reported(writing[j].posts)
        BY <2>1 DEF HandedOn
      <4> QED
        BY <1>1, <1>3, <2>1, <4>1
    <3> QED
      BY <2>1, <3>1 DEF HandedOn
  <2>5. OwnTask(i)'
    BY <1>2, <2>1 DEF OwnTask
  <2> QED
    BY <2>2, <2>3, <2>4, <2>5
<1>6. \A t \in active' : child'[t] \in {"up", "over"}
  BY <1>1, <1>2 DEF FileInv, PutIn, w
<1>7. OthersNeverLost'
  <2> SUFFICES ASSUME NEW t \in Tasks \ Fragile, Lost(t)'
               PROVE  FALSE
    BY DEF OthersNeverLost
  <2>1. /\ child[t] \in {"created", "up", "over"} /\ told[t] = 0
        /\ t \notin Filed' /\ t \notin Reported(results') /\ t \notin Written'
    BY <1>2 DEF Lost, Filed
  <2>2. ASSUME NEW j \in Ws, j # 1
        PROVE  t \notin writing[j].in \cup Reported(writing[j].posts)
    <3>1. \A i \in Ws' : t \notin writing'[i].in \cup Reported(writing'[i].posts)
      BY <2>1 DEF Written, Ws
    <3> QED
      BY <1>1, <2>2, <3>1
  <2>3. t \notin w.in \cup Reported(w.posts) /\ t \notin Reported(results)
    BY <1>1, <1>4, <2>1
  <2>4. t \notin Written
    BY <2>2, <2>3, WrittenIs DEF w
  <2>5. t \in Filed
    BY <2>1, <2>3, <2>4 DEF FileInv, OthersNeverLost, Lost, Filed
  <2>6. t \in w.out
    BY <1>1, <2>1, <2>5
  <2>7. PICK j \in Ws : j > 1 /\ t \in writing[j].in \cup Reported(writing[j].posts)
    BY <1>1, <2>6 DEF FileInv, HandedOn, w
  <2> QED
    BY <1>3, <2>2, <2>7
<1> QED
  BY <1>5, <1>6, <1>7 DEF FileInv

LEMMA FileCut ==
  ASSUME FileInv, TypeOK', Cut
  PROVE  FileInv'
<1>1. /\ UNCHANGED <<pending, active, results, child, told>> /\ writer \in Fragile
      /\ writing' = <<>>
  BY DEF Cut, files
<1>2. Ws' = {} /\ writer \in Tasks
  BY <1>1, SubagentTasksAssumption DEF Ws
\* What was still to be written was the writer's own.
<1>3. ASSUME NEW t \in Tasks \ Fragile, Lost(t)'
      PROVE  FALSE
  <2>1. t \notin Written
    BY <1>1, <1>2, WrittenIs DEF FileInv, OwnTask
  <2> QED
    BY <1>1, <1>3, <2>1 DEF FileInv, OthersNeverLost, Lost
<1> QED
  BY <1>1, <1>2, <1>3 DEF FileInv, OthersNeverLost

LEMMA FileCreate ==
  ASSUME FileInv, TypeOK', NEW t \in Tasks, Create(t)
  PROVE  FileInv'
<1>1. /\ pending' = pending \cup {t} /\ child' = [child EXCEPT ![t] = "created"]
      /\ UNCHANGED <<active, results, told>> /\ writing = <<>> /\ writing' = <<>>
      /\ child[t] = "none"
  BY DEF Create, Free, guard
<1>2. Ws' = {} /\ Written' = {} /\ Written = {}
  BY <1>1 DEF Ws, Written
<1>3. ASSUME NEW u \in Tasks \ Fragile, Lost(u)'
      PROVE  FALSE
  <2>1. u # t
    BY <1>1, <1>3 DEF Lost
  <2>2. child'[u] = child[u]
    BY <1>1, <2>1 DEF FileInv, TypeOK
  <2> QED
    BY <1>1, <1>2, <1>3, <2>2 DEF FileInv, OthersNeverLost, Lost
<1>4. \A u \in active' : child'[u] \in {"up", "over"}
  BY <1>1 DEF FileInv, TypeOK
<1> QED
  BY <1>2, <1>3, <1>4 DEF FileInv, OthersNeverLost

LEMMA FileFailSpawn ==
  ASSUME FileInv, TypeOK', NEW t \in Tasks, FailSpawn(t)
  PROVE  FileInv'
<1>1. /\ pending' = pending \ {t} /\ child' = [child EXCEPT ![t] = "cancelled"]
      /\ UNCHANGED <<active, results, told>> /\ writing = <<>> /\ writing' = <<>>
      /\ child[t] = "created"
  BY DEF FailSpawn, Free, guard
<1>2. Ws' = {} /\ Written' = {} /\ Written = {}
  BY <1>1 DEF Ws, Written
<1>3. ASSUME NEW u \in Tasks \ Fragile, Lost(u)'
      PROVE  FALSE
  <2>1. child'[u] \in {"created", "up", "over"}
    BY <1>3 DEF Lost
  <2>2. u # t /\ child'[u] = child[u]
    BY <1>1, <2>1 DEF FileInv, TypeOK
  <2> QED
    BY <1>1, <1>2, <1>3, <2>2 DEF FileInv, OthersNeverLost, Lost
<1>4. \A u \in active' : child'[u] \in {"up", "over"}
  BY <1>1 DEF FileInv, TypeOK
<1> QED
  BY <1>2, <1>3, <1>4 DEF FileInv, OthersNeverLost

LEMMA FileDeliver ==
  ASSUME FileInv, TypeOK', Deliver
  PROVE  FileInv'
<1>1. PICK i \in picked : /\ batch[i].task \in Tasks
                          /\ told' = [told EXCEPT ![batch[i].task] = @ + 1]
                          /\ results' = Consumed(batch[i].task)
  BY DeliverFacts DEF FileInv
<1>2. UNCHANGED <<pending, active, child>> /\ writing = <<>> /\ writing' = <<>>
  BY DEF Deliver, Free, guard
<1>3. Ws' = {} /\ Written' = {} /\ Written = {}
  BY <1>2 DEF Ws, Written
<1>4. Reported(results) \ {batch[i].task} \subseteq Reported(results')
  BY <1>1, ConsumesOne DEF FileInv, TypeOK
<1>5. ASSUME NEW u \in Tasks \ Fragile, Lost(u)'
      PROVE  FALSE
  <2>1. told[batch[i].task] \in Nat
    BY <1>1 DEF FileInv, TypeOK
  <2>2. u # batch[i].task
    BY <1>1, <1>5, <2>1 DEF Lost, FileInv, TypeOK
  <2>3. told'[u] = told[u]
    BY <1>1, <2>2 DEF FileInv, TypeOK
  <2> QED
    BY <1>2, <1>3, <1>4, <1>5, <2>2, <2>3 DEF FileInv, OthersNeverLost, Lost
<1> QED
  BY <1>2, <1>3, <1>5 DEF FileInv, OthersNeverLost

LEMMA FileInit == Init => FileInv
<1> SUFFICES ASSUME Init PROVE FileInv
  OBVIOUS
<1>1. TypeOK
  BY DEF Init, TypeOK
<1>2. Ws = {} /\ active = {} /\ \A t \in Tasks : child[t] = "none"
  BY DEF Init, Ws
<1> QED
  BY <1>1, <1>2 DEF FileInv, OthersNeverLost, Lost

LEMMA FileNext == FileInv /\ [Next]_vars => FileInv'
<1> SUFFICES ASSUME FileInv, [Next]_vars PROVE FileInv'
  OBVIOUS
<1>1. TypeOK /\ TypeOK'
  BY TypesNext DEF FileInv
<1> QED
  BY <1>1, Kinds, FileElsewhere, FileSettling, FileWrite, FileCut, FileDeliver, FileMark,
     FileCreate, FileFailSpawn

\* Every reachable state is well typed, and a task is in one of the two files at
\* most (the mutations of SubAgentIPC).
THEOREM TypeCorrect == Spec => []TypeOK
<1>1. FileInv => TypeOK
  BY DEF FileInv
<1> QED
  BY <1>1, FileInit, FileNext, PTL DEF Spec

\* Only a process that is killed between two writes loses a task, and only its own:
\* a task of any other is in a file, about to be written to one, or told, whatever
\* the sub-agents, reapers and stops do.
THEOREM NoOtherIsLost == Spec => []OthersNeverLost
<1>1. FileInv => OthersNeverLost
  BY DEF FileInv
<1> QED
  BY <1>1, FileInit, FileNext, PTL DEF Spec

-----------------------------------------------------------------------------
(* One answer a task *)

\* The chat has not been told and will not be by what is in the results.
Unanswered(t) == told[t] = 0 /\ t \notin Reported(results)

\* A result that will be posted is the first of its task, which is over and leaves
\* its file before.
FirstAnswers(i) ==
    /\ Distinct(writing[i].posts)
    /\ \A t \in Reported(writing[i].posts) :
          /\ child[t] = "over" /\ Unanswered(t)
          /\ t \in Filed => \E k \in Ws : k < i /\ t \in writing[k].out
          /\ \A j \in Ws : /\ t \notin writing[j].in
                           /\ j # i => t \notin Reported(writing[j].posts)

\* Only what is over can be declared dead, and only what is over is answered.
AnswerInv ==
    /\ \A t \in quiet \cup stopping : child[t] = "over"
    /\ \A t \in Filed : Unanswered(t)
    /\ \A i \in Ws : FirstAnswers(i) /\ \A t \in writing[i].in : Unanswered(t)
    /\ Distinct(results)
    /\ \A t \in Reported(results) : child[t] = "over" /\ told[t] = 0
    /\ \A t \in Tasks : told[t] = 0 \/ (told[t] = 1 /\ child[t] = "over")

\* What the drain works on is still in the results, each task once.
DrainInv ==
    /\ phase = "idle" => picked = {}
    /\ \A i \in picked : batch[i].task \in Reported(results)
    /\ \A i, j \in picked : batch[i].task = batch[j].task => i = j

LEMMA AnswerInit == Init => AnswerInv /\ DrainInv
<1> SUFFICES ASSUME Init PROVE AnswerInv /\ DrainInv
  OBVIOUS
<1>1. /\ quiet = {} /\ stopping = {} /\ Filed = {} /\ Ws = {} /\ results = <<>>
      /\ \A t \in Tasks : told[t] = 0
      /\ phase = "idle" /\ picked = {}
  BY DEF Init, Filed, Ws
<1> QED
  BY <1>1, NoResult DEF AnswerInv, DrainInv

\* A live sub-agent is not taken for dead when none stalls and a stop kills what it
\* stops.
LEMMA DeadAreOver ==
  ASSUME FileInv, AnswerInv, Stalling = {}, Loose = {}, [Next]_vars
  PROVE  \A t \in quiet' \cup stopping' : child'[t] = "over"
<1>0. TypeOK
  BY DEF FileInv
<1>1. quiet \subseteq Tasks /\ stopping \subseteq Tasks
      /\ \A t \in quiet \cup stopping : child[t] = "over"
  BY <1>0 DEF TypeOK, AnswerInv
<1>2. ASSUME NEW t \in Tasks, child[t] = "over"
      PROVE  child'[t] = "over"
  <2>1. CASE Elsewhere \/ \E S \in SUBSET Tasks : Settling(S)
    BY <1>2, <2>1 DEF Elsewhere, Settling, Grows
  <2>2. CASE Write \/ Cut \/ Deliver \/ \E u \in Tasks : Mark(u)
    BY <1>2, <2>2 DEF Write, Cut, Deliver, Mark
  <2>3. CASE \E u \in Tasks : Create(u) \/ FailSpawn(u)
    BY <1>0, <1>2, <2>3 DEF Create, FailSpawn, TypeOK
  <2> QED
    BY <1>0, <2>1, <2>2, <2>3, Kinds
<1>3. ASSUME NEW t \in Tasks, Silence(t)
      PROVE  quiet' = quiet \cup {t} /\ stopping' = stopping /\ child[t] = "over"
  BY <1>3 DEF Silence
<1>4. ASSUME NEW c \in Chats, Stop(c)
      PROVE  /\ quiet' = quiet
             /\ \A t \in stopping' : t \in Tasks /\ child'[t] = "over"
  <2>1. \A t \in active : child[t] \in {"up", "over"}
    BY DEF FileInv
  <2> QED
    BY <1>0, <1>4, <2>1 DEF Stop, TypeOK
<1>5. \/ (\E t \in Tasks : Silence(t)) \/ (\E c \in Chats : Stop(c))
      \/ quiet' \subseteq quiet /\ stopping' \subseteq stopping
  BY DEF Next, Draining, Spawning, Reporting, Write, Cut, Create, Open, FailSpawn, Mark, Beat,
      Complete, Fail, Vanish, Watch, CleanUpStale, FailStopped, CheckZombies,
      TurnBegins, TurnEnds, Look, HoldOpenFanouts, Claim, ClaimNone, Deliver, Release, vars
<1> QED
  BY <1>1, <1>2, <1>3, <1>4, <1>5

\* An answered task is over.
LEMMA AnsweredAreOver ==
  ASSUME FileInv, AnswerInv, NEW t \in Tasks, child[t] # "over"
  PROVE  Unanswered(t)
  BY DEF AnswerInv, Unanswered

\* The rest of AnswerInv, step by step.
Answered ==
    /\ \A t \in Filed : Unanswered(t)
    /\ \A i \in Ws : FirstAnswers(i) /\ \A t \in writing[i].in : Unanswered(t)
    /\ Distinct(results)
    /\ \A t \in Reported(results) : child[t] = "over" /\ told[t] = 0
    /\ \A t \in Tasks : told[t] = 0 \/ (told[t] = 1 /\ child[t] = "over")

LEMMA Typing ==
  ASSUME TypeOK
  PROVE  /\ Filed \subseteq Tasks /\ Reported(results) \subseteq Tasks
         /\ \A i \in Ws : /\ writing[i].in \subseteq Tasks /\ writing[i].posts \in Seq(Results)
                          /\ Reported(writing[i].posts) \subseteq Tasks
<1>1. \A s \in Seq(Results) : Reported(s) \subseteq Tasks
  <2> SUFFICES ASSUME NEW s \in Seq(Results), NEW i \in DOMAIN s
               PROVE  s[i].task \in Tasks
    BY DEF Reported
  <2>1. s[i] \in Results
    OBVIOUS
  <2> QED
    BY <2>1 DEF Results
<1>2. \A i \in Ws : writing[i] \in Writes
  BY DEF TypeOK, Ws
<1> QED
  BY <1>1, <1>2 DEF TypeOK, Filed, Writes

LEMMA AnswerElsewhere ==
  ASSUME FileInv, AnswerInv, Elsewhere
  PROVE  Answered'
<1>1. UNCHANGED <<pending, active, results, writing, told>> /\ Grows
  BY DEF Elsewhere, files, guard
<1>2. /\ Filed' = Filed /\ Ws' = Ws /\ Reported(results)' = Reported(results)
      /\ \A t : Unanswered(t)' <=> Unanswered(t)
  BY <1>1 DEF Filed, Ws, Unanswered
<1>3. \A t \in Tasks : child[t] = "over" => child'[t] = "over"
  BY <1>1 DEF Grows
<1>4. TypeOK
  BY DEF FileInv
<1>5. \A i \in Ws : FirstAnswers(i)'
  BY <1>1, <1>2, <1>3, <1>4, Typing DEF AnswerInv, FirstAnswers
<1> QED
  BY <1>1, <1>2, <1>3, <1>4, <1>5, Typing DEF AnswerInv, Answered

LEMMA AnswerSettling ==
  ASSUME FileInv, AnswerInv, Overlong = {}, NEW S \in SUBSET Tasks, Settling(S)
  PROVE  Answered'
<1>1. UNCHANGED <<pending, active, results, told>> /\ Grows /\ Settles(writing', S)
  BY DEF Settling, files
<1>2. /\ Filed' = Filed /\ Reported(results)' = Reported(results)
      /\ \A t : Unanswered(t)' <=> Unanswered(t)
  BY <1>1 DEF Filed, Unanswered
<1>3. \A t \in Tasks : child[t] = "over" => child'[t] = "over"
  BY <1>1 DEF Grows
<1>4. TypeOK
  BY DEF FileInv
<1>5. ASSUME NEW t \in S
      PROVE  child'[t] = "over" /\ Unanswered(t)
  <2>1. CASE child[t] = "up" /\ child'[t] = "over"
    BY <2>1, AnsweredAreOver
  <2>2. CASE t \in Filed /\ (child[t] = "over" \/ t \in quiet \cup stopping)
    BY <1>3, <2>2 DEF AnswerInv
  <2> QED
    BY <2>1, <2>2 DEF Settling
<1>6. \A i \in Ws' : FirstAnswers(i)' /\ writing'[i].in = {}
  BY <1>1, <1>2, <1>5 DEF Settles, Ws, FirstAnswers
<1> QED
  BY <1>1, <1>2, <1>3, <1>4, <1>6, Typing DEF AnswerInv, Answered

LEMMA AnswerMark ==
  ASSUME FileInv, AnswerInv, NEW t \in Tasks, Mark(t)
  PROVE  Answered'
<1>1. UNCHANGED <<pending, active, results, told, child>> /\ t \in pending
  BY DEF Mark, files
<1>2. /\ Filed' = Filed /\ Reported(results)' = Reported(results)
      /\ \A u : Unanswered(u)' <=> Unanswered(u)
  BY <1>1 DEF Filed, Unanswered
<1>3. /\ Ws' = {1, 2}
      /\ writing'[1].in = {} /\ writing'[1].posts = <<>>
      /\ writing'[2].in = {t} /\ writing'[2].posts = <<>>
  BY MarkFacts DEF FileInv
<1>4. \A i \in Ws' : FirstAnswers(i)' /\ \A u \in writing'[i].in : u = t
  BY <1>3, NoResult DEF FirstAnswers
<1> QED
  BY <1>1, <1>2, <1>4 DEF AnswerInv, Answered, Filed

LEMMA AnswerWrite ==
  ASSUME FileInv, AnswerInv, Write
  PROVE  Answered'
<1> DEFINE w == writing[1]
<1>0. TypeOK
  BY DEF FileInv
<1>1. /\ 1 \in Ws
      /\ Filed' = (Filed \ w.out) \cup w.in
      /\ results' = results \o w.posts
      /\ writing' \in Seq(Writes)
      /\ \A i \in Ws' : i + 1 \in Ws /\ writing'[i] = writing[i + 1]
      /\ \A i \in Ws : i # 1 => i - 1 \in Ws' /\ writing'[i - 1] = writing[i]
  BY WriteFacts
<1>2. UNCHANGED <<child, told>>
  BY DEF Write
<1>3. Ws \subseteq Nat \ {0} /\ Ws' \subseteq Nat \ {0}
  BY <1>0, <1>1 DEF TypeOK, Ws
<1>4. /\ Distinct(w.posts)
      /\ \A t \in Reported(w.posts) :
            /\ child[t] = "over" /\ told[t] = 0 /\ t \notin Reported(results) /\ t \notin Filed
            /\ \A j \in Ws : t \notin writing[j].in /\ (j # 1 => t \notin Reported(writing[j].posts))
  <2>1. FirstAnswers(1)
    BY <1>1 DEF AnswerInv
  <2>2. \A k \in Ws : ~(k < 1)
    BY <1>3
  <2> QED
    BY <2>1, <2>2 DEF FirstAnswers, Unanswered
<1>5. /\ Reported(results') = Reported(results) \cup Reported(w.posts)
      /\ Distinct(results')
  <2>1. results \in Seq(Results) /\ w.posts \in Seq(Results) /\ Distinct(results)
    BY <1>0, <1>1, Typing DEF TypeOK, AnswerInv
  <2>2. Reported(results) \cap Reported(w.posts) = {}
    BY <1>4
  <2> QED
    BY <1>1, <1>4, <2>1, <2>2, Joined
<1>6. \A t : Unanswered(t)' <=> Unanswered(t) /\ t \notin Reported(w.posts)
  BY <1>2, <1>5 DEF Unanswered
<1>7. ASSUME NEW t \in Filed'
      PROVE  Unanswered(t)'
  <2>1. CASE t \in Filed
    BY <1>4, <1>6, <2>1 DEF AnswerInv
  <2>2. CASE t \in w.in
    BY <1>1, <1>4, <1>6, <2>2 DEF AnswerInv
  <2> QED
    BY <1>1, <1>7, <2>1, <2>2
<1>8. \A t \in Reported(results') : child'[t] = "over" /\ told'[t] = 0
  BY <1>2, <1>4, <1>5 DEF AnswerInv
<1>9. ASSUME NEW i \in Ws'
      PROVE  FirstAnswers(i)' /\ \A t \in writing'[i].in : Unanswered(t)'
  <2> DEFINE v == writing[i + 1]
  <2>1. /\ i + 1 \in Ws /\ writing'[i] = v /\ i + 1 # 1 /\ i \in Nat
        /\ FirstAnswers(i + 1) /\ \A t \in v.in : Unanswered(t)
    BY <1>1, <1>3 DEF AnswerInv
  <2>2. \A t \in v.in : Unanswered(t)'
    BY <1>4, <1>6, <2>1
  <2>3. ASSUME NEW t \in Reported(v.posts)
        PROVE  child'[t] = "over" /\ Unanswered(t)'
    BY <1>2, <1>4, <1>6, <2>1 DEF FirstAnswers
  <2>4. ASSUME NEW t \in Reported(v.posts), t \in Filed'
        PROVE  \E k \in Ws' : k < i /\ t \in writing'[k].out
    <3>1. t \notin w.in
      BY <1>1, <2>1 DEF FirstAnswers, w
    <3>2. t \in Filed /\ t \notin w.out
      BY <1>1, <2>4, <3>1
    <3>3. PICK k \in Ws : k < i + 1 /\ t \in writing[k].out
      BY <2>1, <3>2 DEF FirstAnswers
    <3>4. k # 1
      BY <3>2, <3>3
    <3> QED
      BY <1>1, <1>3, <2>1, <3>3, <3>4
  <2>5. ASSUME NEW t \in Reported(v.posts), NEW j \in Ws'
        PROVE  t \notin writing'[j].in /\ (j # i => t \notin Reported(writing'[j].posts))
    BY <1>1, <1>3, <2>1 DEF FirstAnswers
  <2>6. Distinct(v.posts)
    BY <2>1 DEF FirstAnswers
  <2> HIDE DEF v
  <2>7. FirstAnswers(i)'
    BY <2>1, <2>3, <2>4, <2>5, <2>6 DEF FirstAnswers
  <2> QED
    BY <2>1, <2>2, <2>7
<1> QED
  BY <1>2, <1>5, <1>7, <1>8, <1>9 DEF AnswerInv, Answered

LEMMA AnswerDeliver ==
  ASSUME FileInv, AnswerInv, DrainInv, Deliver
  PROVE  Answered'
<1>1. PICK i \in picked : /\ batch[i].task \in Tasks
                          /\ told' = [told EXCEPT ![batch[i].task] = @ + 1]
                          /\ results' = Consumed(batch[i].task)
  BY DeliverFacts DEF FileInv
<1> DEFINE t == batch[i].task
<1>2. UNCHANGED <<pending, active, child>> /\ Ws' = {}
  BY DEF Deliver, Free, guard, Ws
<1>3. t \in Reported(results) /\ child[t] = "over" /\ told[t] = 0
  BY <1>1 DEF DrainInv, AnswerInv
<1>4. Reported(results') = Reported(results) \ {t} /\ Distinct(results')
  BY <1>1, ConsumesOne DEF FileInv, TypeOK, AnswerInv
<1>5. told'[t] = 1 /\ \A u \in Tasks : u # t => told'[u] = told[u]
  BY <1>1, <1>3 DEF FileInv, TypeOK
<1>6. Filed' = Filed /\ t \notin Filed
  BY <1>2, <1>3 DEF Filed, AnswerInv, Unanswered
<1>7. Filed \subseteq Tasks /\ Reported(results) \subseteq Tasks
  BY Typing DEF FileInv
<1> HIDE DEF t
<1>8. \A u \in Filed' : Unanswered(u)'
  BY <1>4, <1>5, <1>6, <1>7 DEF AnswerInv, Unanswered
<1> QED
  BY <1>2, <1>3, <1>4, <1>5, <1>7, <1>8 DEF AnswerInv, Answered

LEMMA AnswerSpawn ==
  ASSUME FileInv, AnswerInv, NEW t \in Tasks, Create(t) \/ FailSpawn(t)
  PROVE  Answered'
<1>1. /\ Filed' \subseteq Filed \cup {t} /\ UNCHANGED <<results, told>> /\ Ws' = {}
      /\ child[t] # "over"
  BY DEF Create, FailSpawn, Free, guard, Filed, Ws
<1>2. \A u \in Tasks : u # t => child'[u] = child[u]
  BY DEF Create, FailSpawn, FileInv, TypeOK
<1>3. Unanswered(t)
  BY <1>1, AnsweredAreOver
<1>4. Filed \subseteq Tasks /\ Reported(results) \subseteq Tasks
  BY Typing DEF FileInv
<1> QED
  BY <1>1, <1>2, <1>3, <1>4 DEF AnswerInv, Answered, Unanswered

LEMMA AnswerNext ==
  ASSUME FileInv, AnswerInv, DrainInv, Stalling = {}, Overlong = {}, Loose = {}, [Next]_vars
  PROVE  AnswerInv'
<1>1. Answered'
  <2>1. CASE Cut
    BY <2>1 DEF Cut, files, AnswerInv, Answered, Filed, Unanswered, Ws
  <2> QED
    BY <2>1, Kinds, AnswerElsewhere, AnswerSettling, AnswerMark, AnswerWrite, AnswerDeliver,
       AnswerSpawn DEF FileInv
<1> QED
  BY <1>1, DeadAreOver DEF Answered, AnswerInv

-----------------------------------------------------------------------------
(* The drain *)

LEMMA DrainNext ==
  ASSUME FileInv, AnswerInv, DrainInv, [Next]_vars
  PROVE  DrainInv'
<1>0. TypeOK
  BY DEF FileInv
<1>1. CASE Deliver
  <2>1. PICK i \in picked : /\ batch[i].task \in Tasks
                            /\ results' = Consumed(batch[i].task)
                            /\ picked' = picked \ {i}
    BY <1>0, <1>1, DeliverFacts
  <2>2. batch' = batch /\ phase' = phase /\ phase = "deliver"
    BY <1>1 DEF Deliver
  <2>3. Reported(results) \ {batch[i].task} \subseteq Reported(results')
    BY <1>0, <2>1, ConsumesOne DEF TypeOK
  <2> QED
    BY <2>1, <2>2, <2>3 DEF DrainInv
<1>2. CASE Look
  BY <1>2 DEF Look, files, DrainInv, AnswerInv, Distinct, Reported
<1>3. CASE HoldOpenFanouts
  BY <1>3 DEF HoldOpenFanouts, files, DrainInv
<1>4. CASE Claim
  <2>1. picked' \subseteq picked /\ phase' = "deliver" /\ UNCHANGED <<results, batch>>
    BY <1>4 DEF Claim, files
  <2> QED
    BY <2>1 DEF DrainInv
<1>5. CASE ClaimNone \/ Release
  BY <1>5 DEF ClaimNone, Release, DrainInv
<1>6. ASSUME UNCHANGED drain, Reported(results) \subseteq Reported(results')
      PROVE  DrainInv'
  BY <1>6 DEF drain, DrainInv
<1>7. CASE Write
  <2>1. /\ results' = results \o writing[1].posts
        /\ results \in Seq(Results) /\ writing[1].posts \in Seq(Results)
    BY <1>0, <1>7, WriteFacts, Typing DEF TypeOK
  <2>2. Reported(results) \subseteq Reported(results')
    BY <2>1, Joined
  <2> QED
    BY <1>6, <1>7, <2>2 DEF Write
<1>8. CASE UNCHANGED <<drain, results>>
  BY <1>6, <1>8
<1> QED
  BY <1>1, <1>2, <1>3, <1>4, <1>5, <1>7, <1>8
  DEF Next, Draining, Spawning, Reporting, Cut, Create, Open, FailSpawn, Mark, Beat, Complete,
      Fail, Vanish, Watch, Silence, CleanUpStale, FailStopped, CheckZombies, Stop, TurnBegins,
      TurnEnds, files, vars

\* When no live sub-agent is taken for dead, a chat is told each of its tasks once
\* at most, whoever dies when and in whatever order reapers, reports and the drain
\* come (the drain's pass, complete_task, fail_task, check_zombies, stop_session).
THEOREM AnswersAreToldOnce ==
  ASSUME Stalling = {}, Overlong = {}, Loose = {}
  PROVE  Spec => []ToldOnce
<1>1. AnswerInv => ToldOnce
  BY DEF AnswerInv, ToldOnce
<1>2. FileInv /\ AnswerInv /\ DrainInv /\ [Next]_vars => FileInv' /\ AnswerInv' /\ DrainInv'
  BY FileNext, AnswerNext, DrainNext
<1> QED
  BY <1>1, <1>2, FileInit, AnswerInit, PTL DEF Spec

-----------------------------------------------------------------------------
(* The promise *)

\* A task's state, by what is known of it.
LEMMA StateIs ==
  ASSUME NEW t \in Tasks
  PROVE  /\ child[t] = "none" => StateOf(t) = "new"
         /\ child[t] = "cancelled" => StateOf(t) = "withdrawn"
         /\ child[t] \notin {"none", "cancelled"} =>
               /\ t \in Reported(results) => StateOf(t) = "answered"
               /\ t \notin Reported(results) /\ told[t] > 0 => StateOf(t) = "told"
               /\ Unanswered(t) => StateOf(t) = "asked"
  BY DEF StateOf, Unanswered

LEMMA InitPromises == Init => Promise!Init
  BY StateIs DEF Init, Promise!Init

\* The tasks of S go on, the others stay: a step of Errands.
LEMMA Advances ==
  ASSUME NEW S \in SUBSET Tasks, NEW from, NEW to,
         \A t \in S : StateOf(t) = from /\ StateOf(t)' = to,
         \A t \in Tasks \ S : StateOf(t)' = StateOf(t)
  PROVE  Promise!Advance(S, from, to)
<1>1. \A t \in Tasks : StateOf(t)' = IF t \in S THEN to ELSE StateOf(t)
  OBVIOUS
<1> QED
  BY <1>1 DEF Promise!Advance

LEMMA Stays ==
  ASSUME TypeOK, Grows, UNCHANGED <<results, told>>
  PROVE  \A t \in Tasks : StateOf(t)' = StateOf(t)
  BY DEF StateOf, Grows

LEMMA StepPromises ==
  ASSUME FileInv, AnswerInv, DrainInv, AnswerInv', [Next]_vars
  PROVE  [Promise!Next]_[t \in Tasks |-> StateOf(t)]
<1>0. TypeOK
  BY DEF FileInv
<1> DEFINE state == [t \in Tasks |-> StateOf(t)]
<1>1. ASSUME \A t \in Tasks : StateOf(t)' = StateOf(t)
      PROVE  state' = state
  BY <1>1
<1>2. CASE Elsewhere \/ \E S \in SUBSET Tasks : Settling(S)
  BY <1>0, <1>1, <1>2, Stays DEF Elsewhere, Settling, files
<1>3. CASE Cut \/ \E t \in Tasks : Mark(t)
  <2>1. UNCHANGED <<child, results, told>>
    BY <1>3 DEF Cut, Mark, files
  <2> QED
    BY <1>1, <2>1 DEF StateOf
<1>4. CASE Write
  <2> DEFINE S == Reported(writing[1].posts)
  <2>1. /\ 1 \in Ws /\ S \subseteq Tasks /\ results' = results \o writing[1].posts
        /\ results \in Seq(Results) /\ writing[1].posts \in Seq(Results)
    BY <1>0, <1>4, WriteFacts, Typing DEF TypeOK
  <2>2. Reported(results') = Reported(results) \cup S /\ UNCHANGED <<child, told>>
    BY <1>4, <2>1, Joined DEF Write
  <2>3. \A t \in S : child[t] = "over" /\ Unanswered(t)
    BY <2>1 DEF AnswerInv, FirstAnswers
  <2>4. \A t \in S : StateOf(t) = "asked" /\ StateOf(t)' = "answered"
    BY <2>1, <2>2, <2>3 DEF StateOf, Unanswered
  <2>5. \A t \in Tasks \ S : StateOf(t)' = StateOf(t)
    BY <2>2 DEF StateOf
  <2> HIDE DEF S
  <2>6. Promise!Answer(S)
    BY <2>1, <2>4, <2>5, Advances DEF Promise!Answer
  <2> QED
    BY <2>1, <2>6 DEF Promise!Next
<1>5. ASSUME NEW t \in Tasks, Create(t)
      PROVE  Promise!Ask(t)
  <2>1. /\ child[t] = "none" /\ child' = [child EXCEPT ![t] = "created"]
        /\ UNCHANGED <<results, told>>
    BY <1>5 DEF Create
  <2>2. Unanswered(t)
    BY <2>1, AnsweredAreOver
  <2>3. StateOf(t) = "new" /\ StateOf(t)' = "asked"
    BY <1>0, <2>1, <2>2 DEF StateOf, Unanswered, TypeOK
  <2>4. \A u \in Tasks \ {t} : StateOf(u)' = StateOf(u)
    BY <1>0, <2>1 DEF StateOf, TypeOK
  <2> QED
    BY <2>3, <2>4, Advances DEF Promise!Ask
<1>6. ASSUME NEW t \in Tasks, FailSpawn(t)
      PROVE  Promise!Withdraw(t)
  <2>1. /\ child[t] = "created" /\ child' = [child EXCEPT ![t] = "cancelled"]
        /\ UNCHANGED <<results, told>>
    BY <1>6 DEF FailSpawn
  <2>2. Unanswered(t)
    BY <2>1, AnsweredAreOver
  <2>3. StateOf(t) = "asked" /\ StateOf(t)' = "withdrawn"
    BY <1>0, <2>1, <2>2 DEF StateOf, Unanswered, TypeOK
  <2>4. \A u \in Tasks \ {t} : StateOf(u)' = StateOf(u)
    BY <1>0, <2>1 DEF StateOf, TypeOK
  <2> QED
    BY <2>3, <2>4, Advances DEF Promise!Withdraw
<1>7. CASE Deliver
  <2>1. PICK t \in Tasks : /\ t \in Reported(results)
                           /\ told' = [told EXCEPT ![t] = @ + 1]
                           /\ results' = Consumed(t)
    BY <1>0, <1>7, DeliverFacts DEF DrainInv
  <2>2. child' = child
    BY <1>7 DEF Deliver
  <2>3. child[t] = "over" /\ told[t] = 0
    BY <2>1 DEF AnswerInv
  <2>4. Reported(results') = Reported(results) \ {t}
    BY <1>0, <2>1, ConsumesOne DEF TypeOK, AnswerInv
  <2>5. told'[t] > 0
    BY <1>0, <2>1, <2>3 DEF TypeOK
  <2>6. StateOf(t) = "answered" /\ StateOf(t)' = "told"
    BY <2>1, <2>2, <2>3, <2>4, <2>5 DEF StateOf
  <2>7. \A u \in Tasks \ {t} : StateOf(u)' = StateOf(u)
    BY <1>0, <2>1, <2>2, <2>4 DEF StateOf, TypeOK
  <2>8. Promise!Tell(t)
    BY <2>6, <2>7, Advances DEF Promise!Tell
  <2> QED
    BY <2>8 DEF Promise!Next
<1> QED
  BY <1>0, <1>2, <1>3, <1>4, <1>5, <1>6, <1>7, Kinds DEF Promise!Next

\* The task files, the sub-agents, the reapers and the drain implement Errands:
\* one answer a task, told once.
THEOREM ImplementsErrands ==
  ASSUME Stalling = {}, Overlong = {}, Loose = {}
  PROVE  Spec => KeepsErrands
<1>1. FileInv /\ AnswerInv /\ DrainInv /\ [Next]_vars => FileInv' /\ AnswerInv' /\ DrainInv'
  BY FileNext, AnswerNext, DrainNext
<1>2. FileInv /\ AnswerInv /\ DrainInv /\ AnswerInv' /\ [Next]_vars
          => [Promise!Next]_[t \in Tasks |-> StateOf(t)]
  BY StepPromises
<1> QED
  BY <1>1, <1>2, FileInit, AnswerInit, InitPromises, PTL DEF Spec, KeepsErrands, Promise!Spec

=============================================================================
