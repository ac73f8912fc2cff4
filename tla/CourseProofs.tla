---------------------------- MODULE CourseProofs ----------------------------
(***************************************************************************)
(* Proofs about courses: about CourseQueue, for any courses, drivers,      *)
(* editors and bounds, and, from "The codes of the parser" on, about the   *)
(* documents of one of its runs, GuidePipeline, for any guides, answers,   *)
(* profiles and settings.                                                  *)
(***************************************************************************)
EXTENDS CourseQueue, GuidePipeline, FiniteSetTheorems, WellFoundedInduction, TLAPS

Statuses == {"queued", "running", "stopped"}
Entries  == [topic : Topics, status : Statuses, stop : Kinds \cup {Absent}]

\* A queue as every reader finds it: no course twice, a stop for what stopped.
Sound(q) ==
    /\ q \in Seq(Entries)
    /\ \A i, j \in DOMAIN q : q[i].topic = q[j].topic => i = j
    /\ \A i \in DOMAIN q : q[i].status = "stopped" => q[i].stop # Absent

RunsTyped ==
    /\ at \in [Topics -> Nat]
    /\ \A t \in Topics : at[t] \in 1..Len(Path[t])
    /\ job \in [Topics -> Drivers \cup {Absent}]
    /\ archived \subseteq Topics

EditsSound ==
    /\ DOMAIN edited = Editors
    /\ \A e \in Editors : pc[e] = "save" => Sound(edited[e])

PassesTyped ==
    /\ DOMAIN pc = Drivers \cup Editors
    /\ DOMAIN seen = Drivers
    /\ todo \in [Drivers -> Seq(Topics)]
    /\ taken \in [Drivers -> 0..MaxSteps]
    /\ stop \in [Drivers -> Kinds \cup {Absent}]
    /\ \A d \in Drivers :
          /\ IsInjective(todo[d])
          /\ pc[d] \notin {"idle", "take"} => todo[d] # <<>>
          /\ pc[d] = "finish" => stop[d] # Absent

\* The inductive invariant of the queue and its passes.
QueueInv ==
    /\ RunsTyped
    /\ Sound(file)
    /\ EditsSound
    /\ PassesTyped

-----------------------------------------------------------------------------
\* What the transitions of a queue keep.

LEMMA StatusesAndKinds ==
    /\ Absent \notin Kinds
    /\ \A t \in Topics, s \in Statuses, k \in Kinds \cup {Absent} : Entry(t, s, k) \in Entries
  BY QueueAssumption DEF Entry, Entries

LEMMA AddSound ==
    ASSUME NEW q, Sound(q), NEW t \in Topics
    PROVE  Sound(AddEntry(q, t))
<1>1. Entry(t, "queued", Absent) \in Entries
  BY StatusesAndKinds DEF Statuses
<1>2. CASE t \notin Queued(q)
  <2>1. AddEntry(q, t) = Append(q, Entry(t, "queued", Absent))
    BY <1>2 DEF AddEntry
  <2> QED
    BY <1>1, <1>2, <2>1 DEF Sound, Queued, Entry
<1>3. CASE t \in Queued(q)
  <2>1. AddEntry(q, t) = [i \in DOMAIN q |-> IF q[i].topic = t THEN Entry(t, "queued", Absent) ELSE q[i]]
    BY <1>3 DEF AddEntry
  <2> QED
    BY <1>1, <2>1 DEF Sound, Entry
<1> QED
  BY <1>2, <1>3

LEMMA RemoveSound ==
    ASSUME NEW q, Sound(q), NEW t \in Queued(q)
    PROVE  Sound(RemoveEntry(q, t))
<1> DEFINE n == CHOOSE i \in DOMAIN q : q[i].topic = t
           u == SubSeq(q, 1, n - 1)
           v == SubSeq(q, n + 1, Len(q))
           r == RemoveEntry(q, t)
<1>1. q \in Seq(Entries) /\ n \in 1..Len(q)
  BY DEF Queued, Sound
<1> HIDE DEF n
<1>2. r = u \o v
  BY DEF RemoveEntry, RemoveAt, n
<1>3. /\ u \in Seq(Entries) /\ Len(u) = n - 1
      /\ \A i \in 1..(n - 1) : u[i] = q[i]
  BY <1>1
<1>4. /\ v \in Seq(Entries) /\ Len(v) = Len(q) - n
      /\ \A i \in 1..(Len(q) - n) : v[i] = q[i + n]
  BY <1>1
<1> HIDE DEF r, u, v
<1>5. r \in Seq(Entries) /\ Len(r) = Len(u) + Len(v)
  <2>1. u \in Seq(Entries) /\ v \in Seq(Entries)
    BY <1>3, <1>4
  <2>2. u \o v \in Seq(Entries)
    BY <2>1
  <2>3. Len(u \o v) = Len(u) + Len(v)
    BY <2>1
  <2> QED
    BY <1>2, <2>2, <2>3
<1>6. Len(r) = Len(q) - 1 /\ Len(q) \in Nat
  BY <1>1, <1>3, <1>4, <1>5
<1>7. \A i \in 1..Len(r) : r[i] = q[IF i < n THEN i ELSE i + 1]
  <2> TAKE i \in 1..Len(r)
  <2>1. CASE i < n
    BY <1>1, <1>2, <1>3, <1>4, <2>1
  <2>2. CASE ~(i < n)
    <3> DEFINE j == i - Len(u)
    <3>1. j \in 1..Len(v) /\ r[i] = v[j]
      BY <1>1, <1>2, <1>3, <1>4, <1>6, <2>2, SMTT(60)
    <3>2. j \in 1..(Len(q) - n) /\ j + n = i + 1
      BY <1>1, <1>3, <1>4, <3>1
    <3> HIDE DEF j
    <3>3. v[j] = q[i + 1]
      BY <1>4, <3>2
    <3> QED
      BY <2>2, <3>1, <3>3
  <2> QED
    BY <2>1, <2>2
<1>8. DOMAIN r = 1..Len(r) /\ DOMAIN q = 1..Len(q)
  BY <1>1, <1>5
<1>9. Sound(r)
  <2>1. \A i \in DOMAIN r : r[i].status = "stopped" => r[i].stop # Absent
    BY <1>1, <1>6, <1>7, <1>8 DEF Sound
  <2>2. \A i, j \in DOMAIN r : r[i].topic = r[j].topic => i = j
    <3> SUFFICES ASSUME NEW i \in 1..Len(r), NEW j \in 1..Len(r), r[i].topic = r[j].topic
                 PROVE  i = j
      BY <1>8
    <3> DEFINE k == IF i < n THEN i ELSE i + 1
               l == IF j < n THEN j ELSE j + 1
    <3>1. k \in DOMAIN q /\ l \in DOMAIN q
      BY <1>1, <1>6, <1>8
    <3>2. q[k].topic = q[l].topic
      BY <1>7
    <3>3. k = l
      BY <3>1, <3>2 DEF Sound
    <3> QED
      BY <1>1, <3>3
  <2> QED
    BY <1>5, <2>1, <2>2 DEF Sound
<1> QED
  BY <1>9 DEF r

LEMMA MarkSound ==
    ASSUME NEW q, Sound(q), NEW t \in Topics, NEW k \in Kinds
    PROVE  Sound(MarkRunning(q, t)) /\ Sound(MarkStopped(q, t, k))
<1>1. Entry(t, "stopped", k) \in Entries /\ k # Absent
  BY StatusesAndKinds DEF Statuses
<1>2. \A i \in DOMAIN q : Entry(t, "running", q[i].stop) \in Entries
  <2> TAKE i \in DOMAIN q
  <2>1. q[i] \in Entries
    BY DEF Sound
  <2>2. q[i].stop \in Kinds \cup {Absent}
    BY <2>1 DEF Entries
  <2> QED
    BY <2>2, StatusesAndKinds DEF Statuses
<1>3. Sound(MarkRunning(q, t))
  BY <1>2 DEF Sound, MarkRunning, Entry
<1>4. Sound(MarkStopped(q, t, k))
  BY <1>1 DEF Sound, MarkStopped, Entry
<1> QED
  BY <1>3, <1>4

\* Counting the positions up to each one numbers them: the count grows with the
\* position, so it takes every value from 1 on once.
LEMMA NthOfSet ==
    ASSUME NEW S \in SUBSET Nat, IsFiniteSet(S), NEW k \in 1..Cardinality(S)
    PROVE  Nth(S, k) \in S /\ Cardinality({j \in S : j <= Nth(S, k)}) = k
<1> DEFINE upTo(i) == {j \in S : j <= i}
           rank    == [i \in S |-> Cardinality(upTo(i))]
           n       == Cardinality(S)
<1>1. \A i \in S : IsFiniteSet(upTo(i)) /\ Cardinality(upTo(i)) \in 1..n
  <2> TAKE i \in S
  <2>1. upTo(i) \in SUBSET S /\ i \in upTo(i)
    OBVIOUS
  <2>2. IsFiniteSet(upTo(i)) /\ Cardinality(upTo(i)) <= n
    BY <2>1, FS_Subset
  <2>3. Cardinality(upTo(i)) \in Nat /\ Cardinality(upTo(i)) # 0 /\ n \in Nat
    BY <2>1, <2>2, FS_CardinalityType, FS_EmptySet
  <2> QED
    BY <2>2, <2>3
<1>2. \A i, j \in S : i < j => Cardinality(upTo(i)) < Cardinality(upTo(j))
  <2> TAKE i, j \in S
  <2> HAVE i < j
  <2>1. upTo(i) \in SUBSET upTo(j) /\ upTo(i) # upTo(j)
    <3>1. j \in upTo(j) /\ j \notin upTo(i)
      OBVIOUS
    <3>2. \A x \in S : x <= i => x <= j
      OBVIOUS
    <3> QED
      BY <3>1, <3>2
  <2>2. Cardinality(upTo(i)) < Cardinality(upTo(j))
    BY <1>1, <2>1, FS_Subset
  <2> QED
    BY <2>2
<1> HIDE DEF upTo
<1>3. rank \in Injection(S, 1..n)
  <2>1. rank \in [S -> 1..n]
    BY <1>1
  <2>2. \A i, j \in S : rank[i] = rank[j] => i = j
    <3> TAKE i, j \in S
    <3> HAVE rank[i] = rank[j]
    <3>1. rank[i] \in Nat /\ rank[j] \in Nat
      BY <1>1
    <3>2. ~(i < j) /\ ~(j < i)
      BY <1>2, <3>1
    <3> QED
      BY <3>2
  <2> QED
    BY <2>1, <2>2 DEF Injection, IsInjective
<1>4. IsFiniteSet(1..n) /\ Cardinality(1..n) = n
  BY FS_CardinalityType, FS_Interval
<1>5. rank \in Surjection(S, 1..n)
  BY <1>3, <1>4, FS_Injection
<1>6. \E i \in S : Cardinality(upTo(i)) = k
  BY <1>5 DEF Surjection
<1> QED
  BY <1>6 DEF Nth, upTo

\* The pass drives every pending course once.
LEMMA PassOnce ==
    ASSUME NEW q, Sound(q)
    PROVE  LET P == Pending(q)
               pass == [k \in 1..Cardinality(P) |-> q[Nth(P, k)].topic]
           IN  pass \in Seq(Topics) /\ IsInjective(pass)
<1> DEFINE P    == Pending(q)
           pass == [k \in 1..Cardinality(P) |-> q[Nth(P, k)].topic]
<1>1. P \in SUBSET (1..Len(q)) /\ q \in Seq(Entries)
  BY DEF Pending, Sound
<1>2. IsFiniteSet(P) /\ Cardinality(P) \in Nat /\ P \in SUBSET Nat
  <2>1. Len(q) \in Nat /\ IsFiniteSet(1..Len(q))
    BY <1>1, FS_Interval
  <2>2. IsFiniteSet(P)
    BY <1>1, <2>1, FS_Subset
  <2> QED
    BY <1>1, <2>1, <2>2, FS_CardinalityType
<1> HIDE DEF P
<1>3. \A k \in 1..Cardinality(P) : Nth(P, k) \in P /\ Cardinality({j \in P : j <= Nth(P, k)}) = k
  BY <1>2, NthOfSet
<1>4. \A k \in 1..Cardinality(P) : Nth(P, k) \in DOMAIN q
  <2>1. P \subseteq DOMAIN q
    BY DEF P, Pending
  <2> QED
    BY <1>3, <2>1
<1>5. pass \in Seq(Topics)
  <2>1. \A k \in 1..Cardinality(P) : q[Nth(P, k)].topic \in Topics
    <3> TAKE k \in 1..Cardinality(P)
    <3>1. q[Nth(P, k)] \in Entries
      BY <1>4, <1>1
    <3> QED
      BY <3>1 DEF Entries
  <2> QED
    BY <1>2, <2>1
<1>6. IsInjective(pass)
  <2> SUFFICES ASSUME NEW k \in 1..Cardinality(P), NEW l \in 1..Cardinality(P), pass[k] = pass[l]
               PROVE  k = l
    BY DEF IsInjective
  <2>1. Nth(P, k) = Nth(P, l)
    <3>1. Nth(P, k) \in DOMAIN q /\ Nth(P, l) \in DOMAIN q
      BY <1>4
    <3>2. q[Nth(P, k)].topic = q[Nth(P, l)].topic
      OBVIOUS
    <3> QED
      BY <3>1, <3>2 DEF Sound
  <2> QED
    BY <1>3, <2>1
<1> QED
  BY <1>5, <1>6 DEF P

-----------------------------------------------------------------------------
\* The invariant, part by part.

\* A run whose next action is not its last has a next position.
LEMMA Onward ==
    ASSUME RunsTyped, NEW t \in Topics, Next_(t) # "done"
    PROVE  /\ at[t] + 1 \in 1..Len(Path[t])
           /\ [at EXCEPT ![t] = @ + 1] \in [Topics -> Nat]
           /\ \A u \in Topics : [at EXCEPT ![t] = @ + 1][u] \in 1..Len(Path[u])
<1>1. Len(Path[t]) \in Nat /\ Path[t][Len(Path[t])] = "done"
  BY QueueAssumption
<1>2. at[t] \in 1..Len(Path[t]) /\ at[t] # Len(Path[t])
  BY <1>1 DEF RunsTyped, Next_
<1>3. at[t] + 1 \in 1..Len(Path[t])
  BY <1>1, <1>2
<1> QED
  BY <1>3 DEF RunsTyped

LEMMA QueueStarts == QueueInit => QueueInv
<1> SUFFICES ASSUME QueueInit
             PROVE  QueueInv
  OBVIOUS
<1>1. RunsTyped
  <2>1. \A t \in Topics : 1 \in 1..Len(Path[t])
    <3> TAKE t \in Topics
    <3>1. Len(Path[t]) \in Nat /\ Len(Path[t]) > 0
      BY QueueAssumption
    <3> QED
      BY <3>1
  <2> QED
    BY <2>1 DEF QueueInit, RunsTyped
<1>2. Sound(file)
  BY DEF QueueInit, Sound
<1>3. EditsSound
  BY DEF QueueInit, EditsSound
<1>4. PassesTyped
  BY QueueAssumption DEF QueueInit, PassesTyped, IsInjective
<1> QED
  BY <1>1, <1>2, <1>3, <1>4 DEF QueueInv

LEMMA RunsStep == QueueInv /\ [QueueNext]_queueVars => RunsTyped'
<1> SUFFICES ASSUME QueueInv, [QueueNext]_queueVars
             PROVE  RunsTyped'
  OBVIOUS
<1>0. RunsTyped /\ PassesTyped
  BY DEF QueueInv
<1>1. ASSUME NEW d \in Drivers, Drive(d)
      PROVE  RunsTyped'
  <2>1. CASE Take(d) \/ Connect(d) \/ Finish(d) \/ OutOfSteps(d) \/ ReadStatus(d) \/ Stop(d) \/ Waited(d)
    BY <1>0, <2>1 DEF Take, Connect, Finish, OutOfSteps, ReadStatus, Stop, Waited, RunsTyped, runs
  <2>2. CASE Inside(d)
    <3>1. todo[d] \in Seq(Topics) /\ todo[d] # <<>>
      BY <1>0, <2>2 DEF Inside, PassesTyped
    <3>2. Topic(d) \in Topics
      BY <3>1 DEF Topic
    <3>3. CASE Advance(d)
      <4>1. at' \in {at, [at EXCEPT ![Topic(d)] = @ + 1]} /\ (at' # at => Next_(Topic(d)) # "done")
        BY <3>3 DEF Advance, Advanced, Machine
      <4>2. UNCHANGED <<archived, job>>
        BY <3>3 DEF Advance
      <4> QED
        BY <1>0, <3>2, <4>1, <4>2, Onward DEF RunsTyped
    <3>4. CASE Validate(d)
      <4>1. at' \in {at, [at EXCEPT ![Topic(d)] = @ + 1]} /\ (at' # at => Next_(Topic(d)) # "done")
        BY <3>4 DEF Validate
      <4>2. UNCHANGED <<archived, job>>
        BY <3>4 DEF Validate
      <4> QED
        BY <1>0, <3>2, <4>1, <4>2, Onward DEF RunsTyped
    <3>5. CASE StartJob(d)
      BY <1>0, <3>2, <3>5 DEF StartJob, RunsTyped
    <3>6. CASE OutOfSteps(d) \/ ReadStatus(d) \/ Stop(d)
      BY <2>1, <3>6
    <3> QED
      BY <1>1, <2>1, <2>2, <3>3, <3>4, <3>5 DEF Drive
  <2>3. (Advance(d) \/ Validate(d) \/ StartJob(d)) => Inside(d)
    BY DEF Advance, Validate, StartJob, Sees
  <2> QED
    BY <1>1, <2>1, <2>2, <2>3 DEF Drive
<1>2. ASSUME NEW d \in Drivers, Begin(d) \/ Die(d)
      PROVE  RunsTyped'
  BY <1>0, <1>2 DEF Begin, Die, RunsTyped, runs
<1>3. ASSUME NEW e \in Editors, LoadForEdit(e) \/ SaveEdit(e)
      PROVE  RunsTyped'
  BY <1>0, <1>3 DEF LoadForEdit, SaveEdit, RunsTyped, runs
<1>4. ASSUME NEW t \in Topics, JobEnds(t)
      PROVE  RunsTyped'
  <2>1. at' \in {at, [at EXCEPT ![t] = @ + 1]} /\ (at' # at => Next_(t) # "done")
    BY <1>4 DEF JobEnds
  <2>2. job' = [job EXCEPT ![t] = Absent] /\ UNCHANGED archived
    BY <1>4 DEF JobEnds
  <2>3. at' \in [Topics -> Nat] /\ \A u \in Topics : at'[u] \in 1..Len(Path[u])
    BY <1>0, <2>1, Onward DEF RunsTyped
  <2> QED
    BY <1>0, <2>2, <2>3 DEF RunsTyped
<1>5. ASSUME NEW t \in Topics, Judge(t)
      PROVE  RunsTyped'
  <2>1. at' = [at EXCEPT ![t] = @ + 1] /\ Next_(t) # "done" /\ UNCHANGED <<archived, job>>
    BY <1>5 DEF Judge
  <2> QED
    BY <1>0, <2>1, Onward DEF RunsTyped
<1>6. ASSUME NEW t \in Topics, Rework(t)
      PROVE  RunsTyped'
  <2>1. CASE at' = [at EXCEPT ![t] = @ + 1] /\ Next_(t) # "done" /\ UNCHANGED <<archived, job>>
    BY <1>0, <2>1, Onward DEF RunsTyped
  <2>2. CASE at' = [at EXCEPT ![t] = 1] /\ UNCHANGED <<archived, job>>
    <3>1. 1 \in 1..Len(Path[t])
      BY QueueAssumption
    <3> QED
      BY <1>0, <2>2, <3>1 DEF RunsTyped
  <2>3. CASE UNCHANGED <<at, job>> /\ archived' \in {archived \ {t}, archived \cup {t}}
    BY <1>0, <2>3 DEF RunsTyped
  <2> QED
    BY <1>6, <2>1, <2>2, <2>3 DEF Rework
<1>7. CASE UNCHANGED queueVars
  BY <1>0, <1>7 DEF queueVars, runs, RunsTyped
<1> QED
  BY <1>1, <1>2, <1>3, <1>4, <1>5, <1>6, <1>7 DEF QueueNext

LEMMA FileStep == QueueInv /\ [QueueNext]_queueVars => Sound(file)'
<1> SUFFICES ASSUME QueueInv, [QueueNext]_queueVars
             PROVE  Sound(file)'
  OBVIOUS
<1>0. Sound(file) /\ EditsSound /\ PassesTyped
  BY DEF QueueInv
<1>1. ASSUME NEW d \in Drivers, Take(d) \/ Finish(d)
      PROVE  Sound(file)'
  <2>1. CASE UNCHANGED file
    BY <1>0, <2>1 DEF Sound
  <2>2. CASE Take(d) /\ ~UNCHANGED file
    <3>1. file' = MarkRunning(file, Topic(d)) /\ todo[d] # <<>>
      BY <2>2 DEF Take
    <3>2. Topic(d) \in Topics
      BY <1>0, <3>1 DEF PassesTyped, Topic
    <3>3. Sound(MarkRunning(file, Topic(d)))
      BY <1>0, <3>2, MarkSound DEF Kinds, Judgment
    <3> QED
      BY <3>1, <3>3 DEF Sound
  <2>3. CASE Finish(d)
    <3>1. file' = MarkStopped(file, Topic(d), stop[d]) /\ todo[d] # <<>> /\ stop[d] \in Kinds
      BY <1>0, <2>3 DEF Finish, PassesTyped
    <3>2. Topic(d) \in Topics
      BY <1>0, <3>1 DEF PassesTyped, Topic
    <3>3. Sound(MarkStopped(file, Topic(d), stop[d]))
      BY <1>0, <3>1, <3>2, MarkSound
    <3> QED
      BY <3>1, <3>3 DEF Sound
  <2> QED
    BY <1>1, <2>1, <2>2, <2>3
<1>2. ASSUME NEW d \in Drivers,
             Begin(d) \/ Die(d) \/ Connect(d) \/ OutOfSteps(d) \/ ReadStatus(d) \/ Advance(d)
             \/ Validate(d) \/ StartJob(d) \/ Stop(d) \/ Waited(d)
      PROVE  UNCHANGED file
  BY <1>2 DEF Begin, Die, Connect, OutOfSteps, ReadStatus, Advance, Validate, StartJob, Stop, Waited
<1>3. ASSUME NEW e \in Editors, LoadForEdit(e)
      PROVE  UNCHANGED file
  BY <1>3 DEF LoadForEdit
<1>4. ASSUME NEW e \in Editors, SaveEdit(e)
      PROVE  Sound(file)'
  <2>1. file' = edited[e] /\ Sound(edited[e])
    BY <1>0, <1>4 DEF SaveEdit, EditsSound
  <2> QED
    BY <2>1 DEF Sound
<1>5. ASSUME NEW t \in Topics, JobEnds(t) \/ Judge(t) \/ Rework(t)
      PROVE  UNCHANGED file
  BY <1>5 DEF JobEnds, Judge, Rework
<1>6. UNCHANGED file => Sound(file)'
  BY <1>0 DEF Sound
<1>7. UNCHANGED queueVars => UNCHANGED file
  BY DEF queueVars
<1> QED
  BY <1>1, <1>2, <1>3, <1>4, <1>5, <1>6, <1>7 DEF QueueNext, Drive

\* What an editor is to save it has made of a sound queue, and nobody else moves
\* an editor.
LEMMA EditsStep == QueueInv /\ [QueueNext]_queueVars => EditsSound'
<1> SUFFICES ASSUME QueueInv, [QueueNext]_queueVars
             PROVE  EditsSound'
  OBVIOUS
<1>0. Sound(file) /\ EditsSound /\ PassesTyped
  BY DEF QueueInv
<1> DEFINE Others(S) == \A p \in (Drivers \cup Editors) \ S : pc'[p] = pc[p]
<1>1. ASSUME UNCHANGED edited, Others(Drivers)
      PROVE  EditsSound'
  <2>1. \A e \in Editors : pc'[e] = pc[e]
    BY <1>1, QueueAssumption
  <2> QED
    BY <1>0, <1>1, <2>1 DEF EditsSound, Sound
<1>2. ASSUME NEW d \in Drivers, Begin(d) \/ Die(d) \/ Drive(d)
      PROVE  UNCHANGED edited /\ Others(Drivers)
  BY <1>0, <1>2
  DEF PassesTyped, Goto, StopWith, Begin, Die, Drive, Take, Connect, Finish, OutOfSteps, ReadStatus,
      Advance, Validate, StartJob, Stop, Waited
<1>3. ASSUME NEW t \in Topics, JobEnds(t) \/ Judge(t) \/ Rework(t)
      PROVE  UNCHANGED edited /\ Others(Drivers)
  BY <1>0, <1>3 DEF PassesTyped, Goto, StopWith, JobEnds, Judge, Rework
<1>4. ASSUME NEW e \in Editors, LoadForEdit(e)
      PROVE  EditsSound'
  <2>1. PICK q : edited' = [edited EXCEPT ![e] = q] /\ Sound(q)
    BY <1>0, <1>4, AddSound, RemoveSound DEF LoadForEdit
  <2>2. pc' = [pc EXCEPT ![e] = "save"]
    BY <1>4 DEF LoadForEdit, Goto
  <2>3. DOMAIN edited' = Editors /\ \A f \in Editors : edited'[f] = IF f = e THEN q ELSE edited[f]
    BY <1>0, <2>1 DEF EditsSound
  <2>4. \A f \in Editors : pc'[f] = IF f = e THEN "save" ELSE pc[f]
    BY <1>0, <2>2 DEF PassesTyped
  <2>5. \A f \in Editors : pc'[f] = "save" => Sound(edited'[f])
    BY <1>0, <2>1, <2>3, <2>4 DEF EditsSound
  <2> QED
    BY <2>3, <2>5 DEF EditsSound, Sound
<1>5. ASSUME NEW e \in Editors, SaveEdit(e)
      PROVE  EditsSound'
  <2>1. edited' = [edited EXCEPT ![e] = Absent] /\ pc' = [pc EXCEPT ![e] = "idle"]
    BY <1>5 DEF SaveEdit, Goto
  <2>2. DOMAIN edited' = Editors /\ \A f \in Editors : f # e => edited'[f] = edited[f]
    BY <1>0, <2>1 DEF EditsSound
  <2>3. \A f \in Editors : pc'[f] = IF f = e THEN "idle" ELSE pc[f]
    BY <1>0, <2>1 DEF PassesTyped
  <2>4. \A f \in Editors : pc'[f] = "save" => Sound(edited'[f])
    BY <1>0, <2>2, <2>3 DEF EditsSound
  <2> QED
    BY <2>2, <2>4 DEF EditsSound, Sound
<1>6. CASE UNCHANGED queueVars
  BY <1>0, <1>6 DEF queueVars, EditsSound, Sound
<1> QED
  BY <1>1, <1>2, <1>3, <1>4, <1>5, <1>6 DEF QueueNext

LEMMA TailOnce ==
    ASSUME NEW f \in Seq(Topics), IsInjective(f), f # <<>>
    PROVE  Tail(f) \in Seq(Topics) /\ IsInjective(Tail(f))
<1>1. /\ Tail(f) \in Seq(Topics) /\ Len(Tail(f)) = Len(f) - 1 /\ Len(f) \in Nat
      /\ \A i \in 1..(Len(f) - 1) : Tail(f)[i] = f[i + 1]
  OBVIOUS
<1>2. DOMAIN Tail(f) = 1..(Len(f) - 1) /\ DOMAIN f = 1..Len(f)
  BY <1>1
<1>3. \A i, j \in 1..(Len(f) - 1) : Tail(f)[i] = Tail(f)[j] => i = j
  <2> TAKE i, j \in 1..(Len(f) - 1)
  <2> HAVE Tail(f)[i] = Tail(f)[j]
  <2>1. f[i + 1] = f[j + 1] /\ i + 1 \in DOMAIN f /\ j + 1 \in DOMAIN f
    BY <1>1, <1>2
  <2>2. i + 1 = j + 1
    BY <2>1 DEF IsInjective
  <2> QED
    BY <2>2
<1> QED
  BY <1>1, <1>2, <1>3 DEF IsInjective

\* A pass that is at a course has it in hand, and where its loop has stopped
\* says why.
LEMMA PassesStep == QueueInv /\ [QueueNext]_queueVars => PassesTyped'
<1> SUFFICES ASSUME QueueInv, [QueueNext]_queueVars
             PROVE  PassesTyped'
  OBVIOUS
<1>0. Sound(file) /\ PassesTyped
  BY DEF QueueInv
<1> DEFINE Onto(d, label) == pc' = [pc EXCEPT ![d] = label]
<1>1. ASSUME NEW d \in Drivers, Begin(d)
      PROVE  PassesTyped'
  <2>1. PICK pass \in Seq(Topics) : IsInjective(pass) /\ todo' = [todo EXCEPT ![d] = pass]
    BY <1>0, <1>1, PassOnce DEF Begin
  <2>2. Onto(d, "take") /\ UNCHANGED loops
    BY <1>1 DEF Begin, Goto
  <2> QED
    BY <1>0, <2>1, <2>2 DEF PassesTyped, loops
<1>2. ASSUME NEW d \in Drivers, Take(d)
      PROVE  PassesTyped'
  <2>1. CASE UNCHANGED todo
    <3>1. Onto(d, "idle") \/ (Onto(d, "connect") /\ todo[d] # <<>>)
      BY <1>2, <2>1, <1>0, TailOnce DEF Take, Goto, PassesTyped
    <3> QED
      BY <1>0, <1>2, <2>1, <3>1 DEF PassesTyped, Take, loops
  <2>2. CASE todo' = [todo EXCEPT ![d] = Tail(@)] /\ todo[d] # <<>>
    <3>1. UNCHANGED <<pc, loops>> \/ UNCHANGED <<todo, loops>>
      BY <1>2 DEF Take
    <3>2. Tail(todo[d]) \in Seq(Topics) /\ IsInjective(Tail(todo[d]))
      BY <1>0, <2>2, TailOnce DEF PassesTyped
    <3>3. CASE UNCHANGED <<pc, loops>>
      BY <1>0, <1>2, <2>2, <3>2, <3>3 DEF PassesTyped, loops, Take
    <3> QED
      BY <2>1, <3>1, <3>3
  <2> QED
    BY <1>2, <2>1, <2>2 DEF Take
<1>3. ASSUME NEW d \in Drivers, Connect(d)
      PROVE  PassesTyped'
  <2>1. CASE Onto(d, "loop") /\ UNCHANGED todo
    BY <1>0, <1>3, <2>1 DEF PassesTyped, Connect, loops
  <2>2. CASE Onto(d, "idle") /\ todo' = [todo EXCEPT ![d] = <<>>]
    BY <1>0, <1>3, <2>2 DEF PassesTyped, Connect, loops, IsInjective
  <2> QED
    BY <1>3, <2>1, <2>2 DEF Connect, Goto
<1>4. ASSUME NEW d \in Drivers, Finish(d)
      PROVE  PassesTyped'
  <2>1. Tail(todo[d]) \in Seq(Topics) /\ IsInjective(Tail(todo[d]))
    BY <1>0, <1>4, TailOnce DEF PassesTyped, Finish
  <2>2. Onto(d, "take") /\ todo' = [todo EXCEPT ![d] = Tail(@)]
    BY <1>4 DEF Finish, Goto
  <2>3. /\ seen' = [seen EXCEPT ![d] = Absent] /\ taken' = [taken EXCEPT ![d] = 0]
        /\ stop' = [stop EXCEPT ![d] = Absent]
    BY <1>4 DEF Finish, Forget
  <2> QED
    BY <1>0, <2>1, <2>2, <2>3, QueueAssumption DEF PassesTyped
<1>5. ASSUME NEW d \in Drivers, Die(d)
      PROVE  PassesTyped'
  <2>1. /\ seen' = [seen EXCEPT ![d] = Absent] /\ taken' = [taken EXCEPT ![d] = 0]
        /\ stop' = [stop EXCEPT ![d] = Absent] /\ Onto(d, "idle")
        /\ todo' = [todo EXCEPT ![d] = <<>>]
    BY <1>5 DEF Die, Forget, Goto
  <2> QED
    BY <1>0, <2>1, QueueAssumption DEF PassesTyped, IsInjective
<1>6. ASSUME NEW d \in Drivers, NEW k \in Kinds, StopWith(d, k), todo[d] # <<>>, UNCHANGED todo,
             DOMAIN seen' = Drivers, taken' \in [Drivers -> 0..MaxSteps]
      PROVE  PassesTyped'
  <2>1. stop' = [stop EXCEPT ![d] = k] /\ Onto(d, "finish") /\ k # Absent
    BY <1>6, StatusesAndKinds DEF StopWith, Goto
  <2> QED
    BY <1>0, <1>6, <2>1 DEF PassesTyped
<1>7. ASSUME NEW d \in Drivers, todo[d] # <<>>, UNCHANGED <<todo, stop>>,
             pc' = pc \/ \E l \in {"loop", "wait", "waited"} : Onto(d, l),
             DOMAIN seen' = Drivers, taken' \in [Drivers -> 0..MaxSteps]
      PROVE  PassesTyped'
  BY <1>0, <1>7 DEF PassesTyped
<1>8. ASSUME NEW d \in Drivers, Inside(d), Iteration(d)
      PROVE  taken' \in [Drivers -> 0..MaxSteps]
  BY <1>0, <1>8, QueueAssumption DEF Inside, Iteration, PassesTyped
<1>9. "failed" \in Kinds /\ "unfinished" \in Kinds /\ {"manual", "plan_unreadable"} \subseteq Kinds /\ Judgment \subseteq Kinds
  BY DEF Kinds
<1>10. ASSUME NEW d \in Drivers, OutOfSteps(d) \/ ReadStatus(d) \/ Stop(d) \/ Waited(d)
       PROVE  PassesTyped'
  <2>1. todo[d] # <<>> /\ UNCHANGED <<todo, taken>> /\ DOMAIN seen' = Drivers
    BY <1>0, <1>10 DEF OutOfSteps, ReadStatus, Stop, Waited, Sees, Inside, PassesTyped
  <2>2. taken' \in [Drivers -> 0..MaxSteps]
    BY <1>0, <2>1 DEF PassesTyped
  <2>3. \/ \E k \in Kinds : StopWith(d, k)
        \/ UNCHANGED stop /\ (pc' = pc \/ Onto(d, "loop"))
    BY <1>9, <1>10 DEF OutOfSteps, ReadStatus, Stop, Waited, Sees, Goto
  <2> QED
    BY <1>6, <1>7, <2>1, <2>2, <2>3
<1>11. ASSUME NEW d \in Drivers, Advance(d) \/ Validate(d) \/ StartJob(d)
       PROVE  PassesTyped'
  <2>1. Inside(d) /\ todo[d] # <<>> /\ UNCHANGED todo /\ DOMAIN seen' = Drivers
    BY <1>0, <1>11 DEF Advance, Validate, StartJob, Sees, Inside, PassesTyped
  <2>2. taken' \in [Drivers -> 0..MaxSteps]
    <3>1. Iteration(d) \/ UNCHANGED taken
      BY <1>11 DEF Advance, Validate, StartJob
    <3> QED
      BY <1>0, <1>8, <2>1, <3>1 DEF PassesTyped
  <2>3. \/ \E k \in Kinds : StopWith(d, k)
        \/ UNCHANGED stop /\ (pc' = pc \/ Onto(d, "wait"))
    BY <1>9, <1>11 DEF Advance, Validate, StartJob, Goto
  <2> QED
    BY <1>6, <1>7, <2>1, <2>2, <2>3
<1>12. ASSUME NEW t \in Topics, JobEnds(t)
       PROVE  PassesTyped'
  <2> DEFINE d == job[t]
  <2>1. UNCHANGED <<todo, taken, seen>>
    BY <1>12 DEF JobEnds
  <2>2. \/ UNCHANGED <<pc, stop>>
        \/ d \in Drivers /\ todo[d] # <<>> /\ Onto(d, "waited") /\ UNCHANGED stop
        \/ d \in Drivers /\ todo[d] # <<>> /\ StopWith(d, "failed")
    BY <1>12 DEF JobEnds, Goto
  <2>3. taken' \in [Drivers -> 0..MaxSteps] /\ DOMAIN seen' = Drivers
    BY <1>0, <2>1 DEF PassesTyped
  <2>4. UNCHANGED <<pc, stop>> => PassesTyped'
    BY <1>0, <2>1 DEF PassesTyped
  <2> QED
    BY <1>6, <1>7, <1>9, <2>1, <2>2, <2>3, <2>4
<1>13. ASSUME NEW e \in Editors, LoadForEdit(e) \/ SaveEdit(e)
       PROVE  PassesTyped'
  <2>1. UNCHANGED <<todo, loops>> /\ \E l \in {"save", "idle"} : Onto(e, l)
    BY <1>13 DEF LoadForEdit, SaveEdit, Goto
  <2>2. e \notin Drivers
    BY QueueAssumption
  <2> QED
    BY <1>0, <2>1, <2>2 DEF PassesTyped, loops
<1>14. ASSUME UNCHANGED <<pc, todo, loops>>
       PROVE  PassesTyped'
  BY <1>0, <1>14 DEF PassesTyped, loops
<1>15. ASSUME NEW t \in Topics, Judge(t) \/ Rework(t)
       PROVE  UNCHANGED <<pc, todo, loops>>
  BY <1>15 DEF Judge, Rework
<1>16. UNCHANGED queueVars => UNCHANGED <<pc, todo, loops>>
  BY DEF queueVars
<1> QED
  BY <1>1, <1>2, <1>3, <1>4, <1>5, <1>10, <1>11, <1>12, <1>13, <1>14, <1>15, <1>16 DEF QueueNext, Drive

-----------------------------------------------------------------------------
\* What a step does to the entries and to the runs.

LEMMA MarksOne ==
    ASSUME NEW q, NEW t, NEW k
    PROVE  /\ DOMAIN MarkRunning(q, t) = DOMAIN q /\ DOMAIN MarkStopped(q, t, k) = DOMAIN q
           /\ \A i \in DOMAIN q : /\ MarkRunning(q, t)[i] # q[i] => q[i].topic = t
                                  /\ MarkStopped(q, t, k)[i] # q[i] => q[i].topic = t
  BY DEF MarkRunning, MarkStopped

LEMMA EntryStep ==
    ASSUME QueueInv, [QueueNext]_queueVars, NEW d \in Drivers
    PROVE  WritesItsEntry(d)
<1> SUFFICES ASSUME pc[d] \in {"take", "finish"}, pc'[d] # pc[d], file' # file
             PROVE  /\ DOMAIN file' = DOMAIN file
                    /\ \A i \in DOMAIN file : file'[i] # file[i] => file[i].topic = Topic(d)
  BY DEF WritesItsEntry
<1>0. PassesTyped
  BY DEF QueueInv
<1>1. ASSUME NEW c \in Drivers, Take(c) \/ Finish(c)
      PROVE  c = d
  <2>1. c # d => pc'[d] = pc[d]
    BY <1>0, <1>1 DEF Take, Finish, Goto, PassesTyped
  <2> QED
    BY <2>1
<1>2. ASSUME Take(d) \/ Finish(d)
      PROVE  file' = MarkRunning(file, Topic(d)) \/ file' = MarkStopped(file, Topic(d), stop[d])
  BY <1>2 DEF Take, Finish
<1>3. ASSUME NEW c \in Drivers,
             Begin(c) \/ Die(c) \/ Connect(c) \/ OutOfSteps(c) \/ ReadStatus(c) \/ Advance(c)
             \/ Validate(c) \/ StartJob(c) \/ Stop(c) \/ Waited(c)
      PROVE  FALSE
  BY <1>3 DEF Begin, Die, Connect, OutOfSteps, ReadStatus, Advance, Validate, StartJob, Stop, Waited
<1>4. ASSUME NEW e \in Editors, LoadForEdit(e) \/ SaveEdit(e)
      PROVE  FALSE
  <2>1. d # e
    BY QueueAssumption
  <2>2. pc'[d] = pc[d]
    BY <1>0, <1>4, <2>1 DEF LoadForEdit, SaveEdit, Goto, PassesTyped
  <2> QED
    BY <2>2
<1>5. ASSUME NEW t \in Topics, JobEnds(t) \/ Judge(t) \/ Rework(t)
      PROVE  FALSE
  BY <1>5 DEF JobEnds, Judge, Rework
<1>6. ~UNCHANGED queueVars
  BY DEF queueVars
<1>7. Take(d) \/ Finish(d)
  BY <1>1, <1>3, <1>4, <1>5, <1>6 DEF QueueNext, Drive
<1>8. CASE file' = MarkRunning(file, Topic(d))
  BY <1>8, MarksOne
<1>9. CASE file' = MarkStopped(file, Topic(d), stop[d])
  BY <1>9, MarksOne
<1> QED
  BY <1>2, <1>7, <1>8, <1>9

\* advance takes what waits for people only when it finalizes, and then the loop
\* has read another status.
LEMMA JudgmentStep ==
    ASSUME QueueInv, [QueueNext]_queueVars, NEW d \in Drivers
    PROVE  JudgesNothing(d)
<1> SUFFICES ASSUME NEW t \in Topics, Next_(t) \in Judgment, at'[t] # at[t],
                    pc[d] = "loop", Topic(d) = t, taken'[d] # taken[d]
             PROVE  Next_(t) = "finalize" /\ seen[d] # at[t]
  BY DEF JudgesNothing
<1>0. RunsTyped /\ PassesTyped
  BY DEF QueueInv
<1>1. CASE Advance(d)
  <2>1. at' = Advanced(t) /\ Path[t][seen[d]] \in Writes
    BY <1>1 DEF Advance, Sees
  <2>2. Next_(t) \in Machine \cup {"finalize"}
    BY <2>1 DEF Advanced
  <2>3. Next_(t) = "finalize"
    BY <2>2 DEF Machine, Judgment
  <2> QED
    BY <2>1, <2>3 DEF Next_, Writes
<1>2. CASE Validate(d)
  BY <1>2 DEF Validate, Judgment
<1>3. ASSUME NEW c \in Drivers, c # d, Advance(c) \/ Validate(c) \/ Finish(c) \/ Die(c) \/ StartJob(c)
      PROVE  FALSE
  BY <1>0, <1>3 DEF Advance, Validate, Finish, Die, StartJob, Iteration, Forget, PassesTyped
<1>4. ASSUME NEW c \in Drivers,
             Begin(c) \/ Take(c) \/ Connect(c) \/ OutOfSteps(c) \/ ReadStatus(c) \/ Stop(c) \/ Waited(c)
             \/ Finish(c) \/ Die(c) \/ StartJob(c)
      PROVE  FALSE
  BY <1>4 DEF Begin, Take, Connect, OutOfSteps, ReadStatus, Stop, Waited, Finish, Die, StartJob, runs
<1>5. ASSUME NEW e \in Editors, LoadForEdit(e) \/ SaveEdit(e)
      PROVE  FALSE
  BY <1>5 DEF LoadForEdit, SaveEdit, runs
<1>6. ASSUME NEW u \in Topics, JobEnds(u) \/ Judge(u) \/ Rework(u)
      PROVE  FALSE
  BY <1>6 DEF JobEnds, Judge, Rework, loops
<1>7. ~UNCHANGED queueVars
  BY DEF queueVars, runs
<1> QED
  BY <1>1, <1>2, <1>3, <1>4, <1>5, <1>6, <1>7 DEF QueueNext, Drive

-----------------------------------------------------------------------------
\* The inductive invariant of the queue: sound in the file and in the hands of
\* every editor, and passes that know which course they are at.
THEOREM QueueInvariance == QueueSpec => []QueueInv
<1>1. QueueInv /\ [QueueNext]_queueVars => QueueInv'
  BY RunsStep, FileStep, EditsStep, PassesStep DEF QueueInv
<1> QED
  BY QueueStarts, <1>1, PTL DEF QueueSpec

\* However edits and passes cross, no course is queued twice, every entry that
\* stopped says where, no pass drives a course twice, and no loop exceeds its
\* cap (course_queue.py, run_until_judgment).
THEOREM QueueTyped == QueueSpec => []QueueTypeOK
<1>1. QueueInv => QueueTypeOK
  <2> SUFFICES ASSUME QueueInv
               PROVE  QueueTypeOK
    OBVIOUS
  <2>1. \A i \in DOMAIN file : file[i] \in Entries
    BY DEF QueueInv, Sound
  <2>2. \A i \in DOMAIN file : /\ file[i].topic \in Topics /\ file[i].status \in Statuses
                               /\ file[i].stop \in Kinds \cup {Absent}
    BY <2>1 DEF Entries
  <2>3. /\ \A t \in Topics : at[t] \in 1..Len(Path[t]) /\ job[t] \in Drivers \cup {Absent}
        /\ archived \subseteq Topics
    BY DEF QueueInv, RunsTyped
  <2>4. \A d \in Drivers : IsInjective(todo[d]) /\ taken[d] \in 0..MaxSteps
    BY DEF QueueInv, PassesTyped
  <2>5. /\ \A i, j \in DOMAIN file : file[i].topic = file[j].topic => i = j
        /\ \A i \in DOMAIN file : file[i].status = "stopped" => file[i].stop # Absent
    BY DEF QueueInv, Sound
  <2> QED
    BY <2>2, <2>3, <2>4, <2>5 DEF QueueTypeOK, Statuses
<1> QED
  BY <1>1, QueueInvariance, PTL

\* A pass changes no entry but that of the course it is at, and its loop takes
\* no judgment from people, but for finalizing a run that others moved there
\* after it had read the status (_queue_transition, run_until_judgment, advance).
THEOREM PassesKeep == QueueSpec => PassesKeepToTheirCourse
<1>1. QueueInv /\ [QueueNext]_queueVars =>
          [\A d \in Drivers : WritesItsEntry(d) /\ JudgesNothing(d)]_queueVars
  BY EntryStep, JudgmentStep
<1> QED
  BY QueueInvariance, <1>1, PTL DEF QueueSpec, PassesKeepToTheirCourse

-----------------------------------------------------------------------------
\* Passes run out.

\* An iteration is worth four steps, and a course all that it may take.
LEMMA RoundsOf ==
    ASSUME NEW k \in 0..MaxSteps
    PROVE  /\ Rounds(k) \in Nat /\ Rounds(0) \in Nat /\ Rounds(k) <= Rounds(0)
           /\ k < MaxSteps => k + 1 \in 0..MaxSteps /\ Rounds(k) = Rounds(k + 1) + 4
BY QueueAssumption DEF Rounds

LEMMA CoursesOf ==
    ASSUME NEW n \in Nat
    PROVE  /\ AllStepsOf(n) \in Nat
           /\ n > 0 => AllStepsOf(n - 1) = AllStepsOf(n) - (Rounds(0) + 7)
<1> DEFINE K == Rounds(0) + 7
<1>1. K \in Nat
  BY RoundsOf, QueueAssumption
<1>2. \A m, k \in Nat : m * k \in Nat /\ (m > 0 => (m - 1) * k = m * k - k)
  OBVIOUS
<1> HIDE DEF K
<1>3. n * K \in Nat /\ (n > 0 => (n - 1) * K = n * K - K)
  BY <1>1, <1>2
<1> QED
  BY <1>3 DEF AllStepsOf, K

\* What a step of a pass does to its place, its courses and its loop: it stops,
\* it goes on with a course fewer, or it moves within its course.
LEMMA DriveShortens ==
    ASSUME QueueInv, NEW d \in Drivers, Drive(d)
    PROVE  StepsLeft(d)' < StepsLeft(d)
<1>0. /\ PassesTyped /\ RunsTyped
      /\ d \in DOMAIN pc /\ taken[d] \in 0..MaxSteps /\ todo[d] \in Seq(Topics)
  BY DEF QueueInv, PassesTyped
<1> DEFINE n == Len(todo[d])
           M == MaxSteps
           k == taken[d]
<1>1. /\ n \in Nat /\ k \in 0..M /\ 0 \in 0..M
      /\ Rounds(k) \in Nat /\ Rounds(0) \in Nat /\ Rounds(k) <= Rounds(0)
      /\ k < M => k + 1 \in 0..M /\ Rounds(k) = Rounds(k + 1) + 4
      /\ AllStepsOf(n) \in Nat /\ (n > 0 => AllStepsOf(n - 1) = AllStepsOf(n) - (Rounds(0) + 7))
  <2>1. n \in Nat /\ k \in 0..M /\ 0 \in 0..M
    BY <1>0, QueueAssumption
  <2> HIDE DEF n, k
  <2> QED
    BY <2>1, RoundsOf, CoursesOf
<1>2. todo[d] # <<>> => n > 0 /\ Len(Tail(todo[d])) = n - 1 /\ Tail(todo[d]) \in Seq(Topics)
  BY <1>0
<1>3. Len(<<>>) = 0
  OBVIOUS
<1>4. ASSUME NEW place, NEW c \in Nat, NEW b \in 0..M, NEW s,
             pc'[d] = place, Len(todo'[d]) = c, taken'[d] = b, seen'[d] = s
      PROVE  StepsLeft(d)' = StepsAt(place, c, b, s)
  BY <1>4 DEF StepsLeft
<1>5. StepsLeft(d) = StepsAt(pc[d], n, k, seen[d])
  BY DEF StepsLeft
<1>6. CASE Take(d)
  <2>1. pc[d] = "take" /\ UNCHANGED loops
    BY <1>6 DEF Take
  <2>2. CASE todo[d] = <<>>
    <3>1. pc'[d] = "idle" /\ Len(todo'[d]) = 0
      BY <1>0, <1>3, <1>6, <2>2 DEF Take, Goto
    <3>2. StepsLeft(d)' = StepsAt("idle", 0, k, seen[d])
      BY <1>1, <1>4, <2>1, <3>1 DEF loops
    <3> QED
      BY <1>1, <1>5, <2>1, <3>2 DEF StepsAt
  <2>3. CASE todo[d] # <<>> /\ Topic(d) \notin Queued(file)
    <3>1. pc'[d] = "take" /\ Len(todo'[d]) = n - 1
      BY <1>0, <1>2, <1>6, <2>1, <2>3 DEF Take, PassesTyped
    <3>2. n - 1 \in Nat /\ n > 0
      BY <1>1, <1>2, <2>3
    <3>3. StepsLeft(d)' = StepsAt("take", n - 1, k, seen[d])
      BY <1>1, <1>4, <2>1, <3>1, <3>2 DEF loops
    <3>4. StepsAt("take", n - 1, k, seen[d]) = AllStepsOf(n - 1) + Rounds(0) + 6
      BY <1>1, <3>2 DEF StepsAt
    <3>5. /\ StepsAt("take", n, k, seen[d]) = AllStepsOf(n) + Rounds(0) + 6
          /\ AllStepsOf(n) \in Nat /\ AllStepsOf(n - 1) = AllStepsOf(n) - (Rounds(0) + 7)
      BY <1>1, <3>2 DEF StepsAt
    <3> HIDE DEF M, n
    <3> QED
      BY <1>1, <1>5, <2>1, <3>3, <3>4, <3>5
  <2>4. CASE todo[d] # <<>> /\ Topic(d) \in Queued(file)
    <3>1. pc'[d] = "connect" /\ Len(todo'[d]) = n
      BY <1>0, <1>6, <2>4 DEF Take, Goto
    <3>2. StepsLeft(d)' = StepsAt("connect", n, k, seen[d])
      BY <1>1, <1>4, <2>1, <3>1 DEF loops
    <3> QED
      BY <1>1, <1>5, <2>1, <3>2 DEF StepsAt
  <2> QED
    BY <2>2, <2>3, <2>4
<1>7. CASE Connect(d)
  <2>1. pc[d] = "connect" /\ UNCHANGED loops
    BY <1>7 DEF Connect
  <2>2. CASE Goto(d, "loop") /\ UNCHANGED todo
    <3>1. pc'[d] = "loop"
      BY <1>0, <2>2 DEF Goto
    <3>2. StepsLeft(d)' = StepsAt("loop", n, k, seen[d])
      BY <1>1, <1>4, <2>1, <2>2, <3>1 DEF loops
    <3>3. StepsAt("loop", n, k, seen[d]) <= AllStepsOf(n) + Rounds(k) + 3
          /\ StepsAt("connect", n, k, seen[d]) = AllStepsOf(n) + Rounds(0) + 5
          /\ AllStepsOf(n) \in Nat /\ StepsAt("loop", n, k, seen[d]) \in Int
      BY <1>1 DEF StepsAt
    <3> QED
      BY <1>1, <1>5, <2>1, <3>2, <3>3
  <2>3. CASE Goto(d, "idle") /\ todo' = [todo EXCEPT ![d] = <<>>]
    <3>1. pc'[d] = "idle" /\ Len(todo'[d]) = 0
      BY <1>0, <1>3, <2>3 DEF Goto, PassesTyped
    <3>2. StepsLeft(d)' = StepsAt("idle", 0, k, seen[d])
      BY <1>1, <1>4, <2>1, <3>1 DEF loops
    <3>3. StepsAt("idle", 0, k, seen[d]) = 0
      BY <1>1 DEF StepsAt
    <3> QED
      BY <1>1, <1>5, <2>1, <3>2, <3>3 DEF StepsAt
  <2> QED
    BY <1>7, <2>2, <2>3 DEF Connect
<1>8. CASE Finish(d)
  <2>1. pc[d] = "finish" /\ todo[d] # <<>>
    BY <1>0, <1>8 DEF Finish, PassesTyped
  <2>2. pc'[d] = "take" /\ Len(todo'[d]) = n - 1 /\ taken'[d] = 0 /\ seen'[d] = Absent
    BY <1>0, <1>2, <1>8, <2>1 DEF Finish, Goto, Forget, PassesTyped
  <2>3. n - 1 \in Nat /\ n > 0 /\ 0 \in 0..M
    BY <1>1, <1>2, <2>1
  <2>4. StepsLeft(d)' = StepsAt("take", n - 1, 0, Absent)
    BY <1>4, <2>2, <2>3
  <2>5. StepsAt("take", n - 1, 0, Absent) = AllStepsOf(n - 1) + Rounds(0) + 6
    BY <1>1, <2>3 DEF StepsAt
  <2>6. /\ StepsAt("finish", n, k, seen[d]) = AllStepsOf(n) + 1
        /\ AllStepsOf(n) \in Nat /\ AllStepsOf(n - 1) = AllStepsOf(n) - (Rounds(0) + 7)
    BY <1>1, <2>3 DEF StepsAt
  <2> HIDE DEF M, n
  <2> QED
    BY <1>1, <1>5, <2>1, <2>4, <2>5, <2>6
<1>9. ASSUME pc[d] \in {"loop", "waited"}, pc'[d] = "finish", UNCHANGED <<todo, taken>>
      PROVE  StepsLeft(d)' < StepsLeft(d)
  <2>1. StepsLeft(d)' = StepsAt("finish", n, k, seen'[d])
    BY <1>1, <1>4, <1>9
  <2>2. StepsAt("finish", n, k, seen'[d]) = AllStepsOf(n) + 1 /\ AllStepsOf(n) \in Nat
    BY <1>1 DEF StepsAt
  <2>3. StepsLeft(d) >= AllStepsOf(n) + 2 /\ StepsLeft(d) \in Int
    BY <1>1, <1>5, <1>9 DEF StepsAt
  <2> QED
    BY <2>1, <2>2, <2>3
<1>10. ASSUME pc[d] = "loop", pc'[d] \in {"loop", "wait"}, UNCHANGED todo,
              k < M, taken'[d] = k + 1, seen[d] # Absent
       PROVE  StepsLeft(d)' < StepsLeft(d)
  <2>1. k + 1 \in 0..M /\ Rounds(k + 1) \in Nat /\ Rounds(k) = Rounds(k + 1) + 4
    BY <1>1, <1>10, RoundsOf
  <2>2. StepsLeft(d)' = StepsAt(pc'[d], n, k + 1, seen'[d])
    BY <1>1, <1>4, <1>10, <2>1
  <2>3. /\ StepsAt(pc'[d], n, k + 1, seen'[d]) <= AllStepsOf(n) + Rounds(k + 1) + 5
        /\ StepsAt(pc'[d], n, k + 1, seen'[d]) \in Int
    BY <1>1, <1>10, <2>1 DEF StepsAt
  <2>4. StepsLeft(d) = AllStepsOf(n) + Rounds(k) + 2 /\ AllStepsOf(n) \in Nat
    BY <1>1, <1>5, <1>10 DEF StepsAt
  <2> QED
    BY <2>1, <2>2, <2>3, <2>4
<1>11. ASSUME NEW kind, StopWith(d, kind)
       PROVE  pc'[d] = "finish"
  BY <1>0, <1>11 DEF StopWith, Goto
<1>12. CASE OutOfSteps(d) \/ Stop(d)
  BY <1>9, <1>11, <1>12 DEF OutOfSteps, Stop, Sees, Inside
<1>13. CASE ReadStatus(d)
  <2>1. /\ pc[d] = "loop" /\ seen[d] = Absent /\ UNCHANGED <<pc, todo, taken>>
        /\ seen'[d] = at[Topic(d)] /\ todo[d] # <<>>
    BY <1>0, <1>13 DEF ReadStatus, Inside, PassesTyped
  <2>2. Topic(d) \in Topics
    BY <1>0, <2>1 DEF Topic
  <2>3. seen'[d] # Absent
    BY <1>0, <2>1, <2>2, QueueAssumption DEF RunsTyped
  <2>4. StepsLeft(d)' = StepsAt("loop", n, k, seen'[d])
    BY <1>1, <1>4, <2>1
  <2>5. StepsAt("loop", n, k, seen'[d]) = AllStepsOf(n) + Rounds(k) + 2 /\ AllStepsOf(n) \in Nat
    BY <1>1, <2>3 DEF StepsAt
  <2>6. StepsLeft(d) = AllStepsOf(n) + Rounds(k) + 3
    BY <1>1, <1>5, <2>1 DEF StepsAt
  <2> QED
    BY <1>1, <2>4, <2>5, <2>6
<1>14. CASE Advance(d) \/ Validate(d) \/ StartJob(d)
  <2>1. pc[d] = "loop" /\ k < M /\ seen[d] # Absent /\ UNCHANGED todo
    BY <1>14 DEF Advance, Validate, StartJob, Sees, Inside
  <2>2. \/ UNCHANGED taken /\ \E kind \in Kinds : StopWith(d, kind)
        \/ Iteration(d) /\ (UNCHANGED pc \/ Goto(d, "wait"))
    BY <1>14 DEF Advance, Validate, StartJob, Kinds
  <2>3. CASE UNCHANGED taken /\ \E kind \in Kinds : StopWith(d, kind)
    BY <1>9, <1>11, <2>1, <2>3
  <2>4. CASE Iteration(d) /\ (UNCHANGED pc \/ Goto(d, "wait"))
    <3>1. taken'[d] = k + 1 /\ pc'[d] \in {"loop", "wait"}
      BY <1>0, <2>1, <2>4 DEF Iteration, Goto, PassesTyped
    <3> QED
      BY <1>10, <2>1, <3>1
  <2> QED
    BY <2>2, <2>3, <2>4
<1>15. CASE Waited(d)
  <2>1. pc[d] = "waited" /\ UNCHANGED <<todo, taken>>
    BY <1>15 DEF Waited
  <2>2. CASE StopWith(d, "failed")
    BY <1>9, <1>11, <2>1, <2>2
  <2>3. CASE Goto(d, "loop")
    <3>1. pc'[d] = "loop"
      BY <1>0, <2>3 DEF Goto
    <3>2. StepsLeft(d)' = StepsAt("loop", n, k, seen'[d])
      BY <1>1, <1>4, <2>1, <3>1
    <3>3. /\ StepsAt("loop", n, k, seen'[d]) <= AllStepsOf(n) + Rounds(k) + 3
          /\ StepsAt("loop", n, k, seen'[d]) \in Int /\ AllStepsOf(n) \in Nat
      BY <1>1 DEF StepsAt
    <3>4. StepsLeft(d) = AllStepsOf(n) + Rounds(k) + 4
      BY <1>1, <1>5, <2>1 DEF StepsAt
    <3> QED
      BY <1>1, <3>2, <3>3, <3>4
  <2> QED
    BY <1>15, <2>2, <2>3 DEF Waited
<1> QED
  BY <1>6, <1>7, <1>8, <1>12, <1>13, <1>14, <1>15 DEF Drive

\* The end of a job, and a death, bring a pass nearer to its end; nothing else of
\* the others touches it.
LEMMA OthersSpare ==
    ASSUME QueueInv, [QueueNext]_queueVars, NEW d \in Drivers, pc[d] # "idle"
    PROVE  StepsLeft(d)' <= StepsLeft(d)
<1>0. /\ PassesTyped
      /\ taken[d] \in 0..MaxSteps /\ todo[d] \in Seq(Topics) /\ Len(todo[d]) \in Nat
      /\ DOMAIN pc = Drivers \cup Editors /\ DOMAIN seen = Drivers
      /\ DOMAIN todo = Drivers /\ DOMAIN taken = Drivers
  BY DEF QueueInv, PassesTyped
<1>1. StepsLeft(d) \in Nat
  <2>1. Rounds(taken[d]) \in Nat /\ Rounds(0) \in Nat /\ AllStepsOf(Len(todo[d])) \in Nat
    BY <1>0, RoundsOf, CoursesOf
  <2> QED
    BY <2>1, SMTT(60) DEF StepsLeft, StepsAt
<1>2. ASSUME pc'[d] = pc[d], todo'[d] = todo[d], taken'[d] = taken[d], seen'[d] = seen[d]
      PROVE  StepsLeft(d)' <= StepsLeft(d)
  <2>1. StepsLeft(d)' = StepsLeft(d)
    BY <1>2 DEF StepsLeft
  <2> QED
    BY <1>1, <2>1
<1>3. ASSUME Drive(d)
      PROVE  StepsLeft(d)' <= StepsLeft(d)
  <2>1. StepsLeft(d)' < StepsLeft(d)
    BY <1>3, DriveShortens
  <2>2. StepsLeft(d)' \in Int
    <3>1. PassesTyped'
      BY PassesStep
    <3>2. taken'[d] \in 0..MaxSteps /\ Len(todo'[d]) \in Nat
      BY <3>1, QueueAssumption DEF PassesTyped
    <3>3. Rounds(taken'[d]) \in Nat /\ Rounds(0) \in Nat /\ AllStepsOf(Len(todo'[d])) \in Nat
      BY <3>2, RoundsOf, CoursesOf
    <3> QED
      BY <3>3 DEF StepsLeft, StepsAt
  <2> QED
    BY <1>1, <2>1, <2>2
<1>4. ASSUME NEW c \in Drivers, c # d, Begin(c) \/ Drive(c) \/ Die(c)
      PROVE  StepsLeft(d)' <= StepsLeft(d)
  <2>1. pc'[d] = pc[d]
    BY <1>0, <1>4 DEF Begin, Die, Goto, Drive, Take, Connect, Finish, OutOfSteps, ReadStatus,
                      Advance, Validate, StartJob, Stop, Waited, StopWith
  <2>2. todo'[d] = todo[d]
    BY <1>0, <1>4 DEF Begin, Die, Drive, Take, Connect, Finish, OutOfSteps, ReadStatus,
                      Advance, Validate, StartJob, Stop, Waited
  <2>3. taken'[d] = taken[d]
    BY <1>0, <1>4 DEF Begin, Die, Drive, Take, Connect, Finish, OutOfSteps, ReadStatus,
                      Advance, Validate, StartJob, Stop, Waited, loops, Forget, Iteration
  <2>4. seen'[d] = seen[d]
    BY <1>0, <1>4 DEF Begin, Die, Drive, Take, Connect, Finish, OutOfSteps, ReadStatus,
                      Advance, Validate, StartJob, Stop, Waited, loops, Forget
  <2> QED
    BY <1>2, <2>1, <2>2, <2>3, <2>4
<1>5. ASSUME Begin(d)
      PROVE  FALSE
  BY <1>5 DEF Begin
<1>6. ASSUME Die(d)
      PROVE  StepsLeft(d)' <= StepsLeft(d)
  <2>1. pc'[d] = "idle"
    BY <1>0, <1>6 DEF Die, Goto
  <2>2. StepsLeft(d)' = 0
    BY <2>1 DEF StepsLeft, StepsAt
  <2> QED
    BY <1>1, <2>2
<1>7. ASSUME NEW t \in Topics, JobEnds(t)
      PROVE  StepsLeft(d)' <= StepsLeft(d)
  <2>1. UNCHANGED <<todo, taken, seen>>
    BY <1>7 DEF JobEnds
  <2>2. \/ pc'[d] = pc[d]
        \/ pc[d] = "wait" /\ pc'[d] \in {"waited", "finish"}
    BY <1>0, <1>7 DEF JobEnds, Goto, StopWith
  <2>3. CASE pc[d] = "wait" /\ pc'[d] \in {"waited", "finish"}
    <3>1. StepsLeft(d)' = StepsAt(pc'[d], Len(todo[d]), taken[d], seen[d])
      BY <2>1 DEF StepsLeft
    <3>2. StepsLeft(d) = StepsAt("wait", Len(todo[d]), taken[d], seen[d])
      BY <2>3 DEF StepsLeft
    <3>3. Rounds(taken[d]) \in Nat /\ AllStepsOf(Len(todo[d])) \in Nat
      BY <1>0, RoundsOf, CoursesOf
    <3> QED
      BY <1>0, <2>3, <3>1, <3>2, <3>3 DEF StepsAt
  <2> QED
    BY <1>2, <2>1, <2>2, <2>3
<1>8. ASSUME NEW e \in Editors, LoadForEdit(e) \/ SaveEdit(e)
      PROVE  StepsLeft(d)' <= StepsLeft(d)
  <2>1. e # d
    BY QueueAssumption
  <2>2. pc'[d] = pc[d] /\ UNCHANGED <<todo, taken, seen>>
    BY <1>0, <1>8, <2>1 DEF LoadForEdit, SaveEdit, Goto, loops
  <2> QED
    BY <1>2, <2>2
<1>9. ASSUME NEW t \in Topics, Judge(t) \/ Rework(t)
      PROVE  StepsLeft(d)' <= StepsLeft(d)
  <2>1. UNCHANGED <<pc, todo, taken, seen>>
    BY <1>9 DEF Judge, Rework, loops
  <2> QED
    BY <1>2, <2>1
<1>10. CASE UNCHANGED queueVars
  BY <1>2, <1>10 DEF queueVars, loops
<1> QED
  BY <1>3, <1>4, <1>5, <1>6, <1>7, <1>8, <1>9, <1>10 DEF QueueNext

\* Every pass ends after a number of steps of its own that is fixed when it
\* begins and that nothing can raise, for any courses, drivers, editors and
\* bounds: no machine step that clears nothing, and no rework or edit, keeps a
\* loop going (MAX_STEPS). With EveryCourseStops' fairness it does end.
THEOREM PassesEnd == QueueSpec => PassesRunOut
<1>1. QueueInv /\ [QueueNext]_queueVars =>
          [\A d \in Drivers :
              /\ Drive(d) => StepsLeft(d)' < StepsLeft(d)
              /\ pc[d] # "idle" => StepsLeft(d)' <= StepsLeft(d)]_queueVars
  BY DriveShortens, OthersSpare
<1> QED
  BY QueueInvariance, <1>1, PTL DEF QueueSpec, PassesRunOut

-----------------------------------------------------------------------------
\* The codes of the parser.

ParserCodes ==
    {"json.invalid", "schema.missing_field", "schema.unknown_field", "schema.invalid_type",
     "schema.invalid_value", "schema.invalid_id", "schema.cardinality",
     "schema.duplicate_reference", "schema.invalid_goal_id", "schema.unsupported_version",
     "schema.unknown_block_type", "schema.duplicate_id", "schema.unknown_reference",
     "source.invalid_url", "source.unknown_reference", "content.empty",
     "content.excessive_length", "content.raw_html", "link.image_not_supported",
     "link.unsafe_target", "link.unknown_internal_target",
     "knowledge_check.invalid_answer_set", "worked_reveal.too_few_steps",
     "scenario.invalid_quality_set", "diagram.unknown_value_key", "diagram.missing_value",
     "diagram.duplicate_id", "diagram.text_too_long", "diagram.multiline_text",
     "diagram.unknown_node", "diagram.self_edge", "diagram.duplicate_edge",
     "diagram.isolated_node", "diagram.disconnected", "module.no_interaction",
     "interaction.missing_required_type", "outcome.untaught", "outcome.unassessed",
     "outcome.unassigned"}

LEMMA LoudCodes ==
    \A c \in ParserCodes : ReportedAs(c) \in Advisory => c = "content.excessive_length"
BY DEF ParserCodes, ReportedAs, Advisory

LEMMA WhenSays ==
    \A bad, code : code \in ParserCodes => When(bad, code) \subseteq ParserCodes
BY DEF When

LEMMA SmallCodes ==
    /\ \A s, least, most : Cardinal(s, least, most) \subseteq ParserCodes
    /\ \A text, markdown : TextCodes(text, markdown) \subseteq ParserCodes
    /\ \A marks : FaultCodes(marks) \subseteq ParserCodes
    /\ \A refs, least : RefCodes(refs, least) \subseteq ParserCodes
    /\ \A version, e, goals : GoalCodes(version, e, goals) \subseteq ParserCodes
<1>1. \A s, least, most : Cardinal(s, least, most) \subseteq ParserCodes
  BY DEF Cardinal, When, ParserCodes
<1>2. \A text, markdown : TextCodes(text, markdown) \subseteq ParserCodes
  BY DEF TextCodes, TextMarks, MarkdownMarks, ParserCodes
<1>3. \A marks : FaultCodes(marks) \subseteq ParserCodes
  BY DEF FaultCodes, FaultMarks, ParserCodes
<1>4. \A refs, least : RefCodes(refs, least) \subseteq ParserCodes
  BY <1>1 DEF RefCodes, When, ParserCodes
<1>5. \A version, e, goals : GoalCodes(version, e, goals) \subseteq ParserCodes
  BY DEF GoalCodes, When, ParserCodes
<1> QED BY <1>1, <1>2, <1>3, <1>4, <1>5

LEMMA ElementSays == \A e, markdown : ElementCodes(e, markdown) \subseteq ParserCodes
BY SmallCodes DEF ElementCodes, When, ParserCodes

LEMMA CourseSays == \A version, c : CourseCodes(version, c) \subseteq ParserCodes
<1> SUFFICES ASSUME NEW version, NEW c PROVE CourseCodes(version, c) \subseteq ParserCodes
  OBVIOUS
<1> DEFINE own     == ElementCodes(c, TRUE) \cup GoalCodes(version, c, ExcludedGoals(c))
           texts   == UNION {TextCodes(c.exclusions[i].text, FALSE) : i \in DOMAIN c.exclusions}
           scalars == When(\/ c.minutes \notin 5 .. 10000
                           \/ c.difficulty \notin {"introductory", "intermediate",
                                                   "advanced", "mixed"},
                           "schema.invalid_value")
<1>1. own \subseteq ParserCodes
  BY ElementSays, SmallCodes
<1>2. texts \subseteq ParserCodes
  BY SmallCodes
<1>3. scalars \subseteq ParserCodes
  BY DEF ParserCodes, When
<1>4. CourseCodes(version, c) = own \cup texts \cup scalars
  BY DEF CourseCodes, SumUp
<1> HIDE DEF own, texts, scalars
<1> QED BY <1>1, <1>2, <1>3, <1>4

LEMMA OutcomeSays == \A version, o : OutcomeCodes(version, o) \subseteq ParserCodes
BY ElementSays, SmallCodes DEF OutcomeCodes

LEMMA KnowledgeSays == \A b : KnowledgeCodes(b) \subseteq ParserCodes
<1> SUFFICES ASSUME NEW b PROVE KnowledgeCodes(b) \subseteq ParserCodes
  OBVIOUS
<1>1. Cardinal(b.choices, 2, 8) \subseteq ParserCodes
  BY SmallCodes
<1>2. UNION {ElementCodes(b.choices[i], FALSE) : i \in DOMAIN b.choices} \subseteq ParserCodes
  BY ElementSays
<1>3. \A bad : /\ When(bad, "schema.invalid_value") \subseteq ParserCodes
               /\ When(bad, "knowledge_check.invalid_answer_set") \subseteq ParserCodes
  BY WhenSays DEF ParserCodes
<1> QED BY <1>1, <1>2, <1>3 DEF KnowledgeCodes, SumUp

LEMMA StepSays == \A b : StepCodes(b) \subseteq ParserCodes
<1> SUFFICES ASSUME NEW b, NEW x \in StepCodes(b) PROVE x \in ParserCodes
  OBVIOUS
<1>1. "worked_reveal.too_few_steps" \in ParserCodes
  BY DEF ParserCodes
<1> QED BY ElementSays, WhenSays, <1>1, ZenonT(60) DEF StepCodes, SumUp

LEMMA ScenarioSays == \A b : ScenarioCodes(b) \subseteq ParserCodes
<1> SUFFICES ASSUME NEW b, NEW x \in ScenarioCodes(b) PROVE x \in ParserCodes
  OBVIOUS
<1>1. {"schema.invalid_value", "scenario.invalid_quality_set"} \subseteq ParserCodes
  BY DEF ParserCodes
<1> QED BY SmallCodes, ElementSays, WhenSays, <1>1 DEF ScenarioCodes, SumUp

LEMMA DiagramShapeSays == \A b : DiagramShape(b) \subseteq ParserCodes
<1> SUFFICES ASSUME NEW b PROVE DiagramShape(b) \subseteq ParserCodes
  OBVIOUS
<1> DEFINE marked == Array(b, "nodes") \o Array(b, "events")
           plain  == Array(b, "items") \o Array(b, "criteria")
           edges  == Array(b, "edges")
           told(c)    == UNION {TextCodes(c.values[i].text, TRUE) : i \in DOMAIN c.values}
           strange(c) == When(~ (ItemKeys(c) \subseteq ToSet(Ids(b.items))), "diagram.unknown_value_key")
           lacking(c) == When(~ (ToSet(Ids(b.items)) \subseteq ItemKeys(c)), "diagram.missing_value")
<1>1. UNION {FaultCodes(marked[i].faults) \cup TextCodes(marked[i].text, TRUE) : i \in DOMAIN marked}
          \subseteq ParserCodes
  BY SmallCodes
<1>2. UNION {FaultCodes(plain[i].faults) \cup TextCodes(plain[i].text, FALSE) : i \in DOMAIN plain}
          \subseteq ParserCodes
  BY SmallCodes
<1>3. UNION {TextCodes(edges[i].text, FALSE) : i \in DOMAIN edges} \subseteq ParserCodes
  BY SmallCodes
<1>4. \A bad : /\ When(bad, "schema.unknown_field") \subseteq ParserCodes
               /\ When(bad, "diagram.unknown_value_key") \subseteq ParserCodes
               /\ When(bad, "diagram.missing_value") \subseteq ParserCodes
  BY WhenSays DEF ParserCodes
<1>5. \A c : told(c) \cup strange(c) \cup lacking(c) \subseteq ParserCodes
  <2> TAKE c
  <2>1. told(c) \subseteq ParserCodes
    BY SmallCodes
  <2>2. strange(c) \subseteq ParserCodes /\ lacking(c) \subseteq ParserCodes
    BY <1>4
  <2> QED BY <2>1, <2>2
<1>6. UNION {told(b.criteria[i]) \cup strange(b.criteria[i]) \cup lacking(b.criteria[i]) :
                i \in DOMAIN b.criteria} \subseteq ParserCodes
  BY <1>5
<1> QED BY <1>1, <1>2, <1>3, <1>4, <1>6 DEF DiagramShape, SumUp

LEMMA DiagramSays == \A b : b.kind \in DOMAIN KindFields => DiagramCodes(b) \subseteq ParserCodes
<1> SUFFICES ASSUME NEW b, b.kind \in DOMAIN KindFields
             PROVE  DiagramCodes(b) \subseteq ParserCodes
  OBVIOUS
<1>1. DiagramBounds(b) \subseteq ParserCodes
  BY SmallCodes DEF DiagramBounds, KindFields
<1>2. LocalIds(b) \subseteq ParserCodes
  BY DEF LocalIds, When, ParserCodes
<1>3. DiagramTexts(b) \subseteq ParserCodes
  BY DEF DiagramTexts, When, ParserCodes
<1>4. EdgeCodes(b) \subseteq ParserCodes
  BY DEF EdgeCodes, When, ParserCodes
<1> QED BY <1>1, <1>2, <1>3, <1>4 DEF DiagramCodes

LEMMA BlockSays == \A version, b : BlockCodes(version, b) \subseteq ParserCodes
<1> SUFFICES ASSUME NEW version, NEW b PROVE BlockCodes(version, b) \subseteq ParserCodes
  OBVIOUS
<1> DEFINE common == ElementCodes(b, TRUE) \cup RefCodes(b.sources, 0) \cup
                RefCodes(b.outcomes, IF b.type \in Interactive THEN 1 ELSE 0)
<1>1. common \subseteq ParserCodes
  BY ElementSays, SmallCodes
<1>2. {"schema.invalid_value", "schema.unknown_block_type"} \subseteq ParserCodes
  BY DEF ParserCodes
<1>3. /\ Known(version, b) => b.type \in {"diagram", "knowledge_check", "worked_reveal", "scenario",
                                           "rich_text", "callout", "reflection"}
      /\ b.type \in {"knowledge_check", "worked_reveal", "scenario",
                     "rich_text", "callout", "reflection"} => Known(version, b)
  BY DEF Known, BlockTypes, Interactive
<1>4. CASE ~ Known(version, b)
  <2>1. BlockCodes(version, b) = {"schema.unknown_block_type"}
    BY <1>3, <1>4 DEF BlockCodes
  <2> QED BY <2>1, <1>2
<1>5. CASE Known(version, b) /\ b.type = "diagram"
  BY <1>1, <1>2, <1>5, DiagramShapeSays, DiagramSays DEF BlockCodes
<1>6. CASE Known(version, b) /\ b.type # "diagram"
  <2>1. \/ BlockCodes(version, b) = common
        \/ BlockCodes(version, b) = common \cup KnowledgeCodes(b)
        \/ BlockCodes(version, b) = common \cup StepCodes(b)
        \/ BlockCodes(version, b) = common \cup ScenarioCodes(b)
    BY <1>3, <1>6 DEF BlockCodes
  <2> HIDE DEF common
  <2> QED BY <1>1, <2>1, KnowledgeSays, StepSays, ScenarioSays
<1> QED BY <1>4, <1>5, <1>6

LEMMA SectionSays == \A version, s : SectionCodes(version, s) \subseteq ParserCodes
<1> SUFFICES ASSUME NEW version, NEW s PROVE SectionCodes(version, s) \subseteq ParserCodes
  OBVIOUS
<1>1. {"schema.missing_field", "schema.unknown_field"} \subseteq ParserCodes
  BY DEF ParserCodes
<1>2. ElementCodes(s, FALSE) \cup Cardinal(s.blocks, 1, 1 + Len(s.blocks)) \subseteq ParserCodes
  BY ElementSays, SmallCodes
<1>3. UNION {BlockCodes(version, s.blocks[i]) : i \in DOMAIN s.blocks} \subseteq ParserCodes
  BY BlockSays
<1> QED BY <1>1, <1>2, <1>3 DEF SectionCodes, SumUp

LEMMA ModuleSays == \A version, m : ModuleCodes(version, m, FALSE) \subseteq ParserCodes
<1> SUFFICES ASSUME NEW version, NEW m PROVE ModuleCodes(version, m, FALSE) \subseteq ParserCodes
  OBVIOUS
<1> DEFINE own     == ElementCodes(m, TRUE) \cup RefCodes(m.outcomes, 1) \cup
                      GoalCodes(version, m, m.serves)
           scalars == When(m.minutes \notin 1 .. 1000, "schema.invalid_value") \cup
                      When(m.gives # <<>>, "schema.unknown_field")
           number  == Cardinal(m.sections, 1, 1 + Len(m.sections))
           inside  == UNION {SectionCodes(version, m.sections[i]) : i \in DOMAIN m.sections}
<1>1. {"schema.missing_field", "schema.unknown_field"} \subseteq ParserCodes
  BY DEF ParserCodes
<1>2. own \subseteq ParserCodes
  BY ElementSays, SmallCodes
<1>3. scalars \subseteq ParserCodes
  BY DEF ParserCodes, When
<1>4. number \subseteq ParserCodes
  BY SmallCodes
<1>5. inside \subseteq ParserCodes
  BY SectionSays
<1>6. CASE ~ Shaped(m, "module")
  BY <1>1, <1>6 DEF ModuleCodes
<1>7. CASE Shaped(m, "module")
  <2>1. ModuleCodes(version, m, FALSE) = own \cup scalars \cup (number \cup inside)
    BY <1>7 DEF ModuleCodes, SumUp
  <2> HIDE DEF own, scalars, number, inside
  <2> QED BY <2>1, <1>2, <1>3, <1>4, <1>5
<1> QED BY <1>6, <1>7

\* Every diagnostic of the parser has one of its codes.
LEMMA ParserSays == \A g : \A e \in Check(g, FALSE) : e.code \in ParserCodes
<1> SUFFICES ASSUME NEW g, NEW e \in Check(g, FALSE) PROVE e.code \in ParserCodes
  OBVIOUS
<1>0. \A code, place, id : code \in ParserCodes =>
          Error(code, place).code \in ParserCodes /\ Quoting(code, place, id).code \in ParserCodes
  BY DEF Error, Quoting
<1>1. ASSUME NEW codes, NEW place, codes \subseteq ParserCodes, NEW x \in Errors(codes, place)
      PROVE  x.code \in ParserCodes
  BY <1>0, <1>1 DEF Errors
<1>2. {"json.invalid", "schema.missing_field", "schema.unknown_field",
       "schema.unsupported_version", "schema.duplicate_id", "schema.unknown_reference",
       "source.unknown_reference", "outcome.unassigned", "link.unknown_internal_target",
       "module.no_interaction", "interaction.missing_required_type", "outcome.untaught",
       "outcome.unassessed"} \subseteq ParserCodes
  BY DEF ParserCodes
<1>3. ASSUME NEW h, NEW x \in DuplicateIds(h) PROVE x.code \in ParserCodes
  BY <1>0, <1>2, <1>3 DEF DuplicateIds
<1>4. ASSUME NEW h, NEW x \in UnknownRefs(h) PROVE x.code \in ParserCodes
  BY <1>0, <1>2, <1>4 DEF UnknownRefs
<1>5. ASSUME NEW x \in Unassigned(g) PROVE x.code \in ParserCodes
  BY <1>0, <1>2, <1>5 DEF Unassigned
<1>6. ASSUME NEW h, NEW x \in DanglingLinks(h) PROVE x.code \in ParserCodes
  BY <1>0, <1>2, <1>6 DEF DanglingLinks
<1>7. ASSUME NEW x \in Coverage(g) PROVE x.code \in ParserCodes
  BY <1>0, <1>2, <1>7 DEF Coverage
<1>8. ASSUME NEW x \in FieldErrors(g, FALSE) PROVE x.code \in ParserCodes
  <2> DEFINE top      == FaultCodes(g.faults) \cup
                         When(g.version \notin SupportedVersions, "schema.unsupported_version")
             outcomes == Cardinal(g.outcomes, 1, 20) \cup
                         SumUp(LAMBDA o : OutcomeCodes(g.version, o), g.outcomes)
             number   == Cardinal(g.modules, 1, 1 + Len(g.modules))
             inside   == UNION {Errors(ModuleCodes(g.version, g.modules[i], FALSE), Place(i)) :
                                  i \in DOMAIN g.modules}
             entries(s) == SumUp(EntryCodes, s)
  <2>1. top \subseteq ParserCodes
    BY SmallCodes, <1>2 DEF When
  <2>2. CourseCodes(g.version, g.course) \subseteq ParserCodes
    BY CourseSays
  <2>3. outcomes \subseteq ParserCodes
    BY SmallCodes, OutcomeSays DEF SumUp
  <2>4. number \subseteq ParserCodes
    BY SmallCodes
  <2>5. ASSUME NEW y \in inside PROVE y.code \in ParserCodes
    BY <1>1, ModuleSays, <2>5
  <2>6. entries(g.glossary) \subseteq ParserCodes /\ entries(g.sources) \subseteq ParserCodes
    BY ElementSays DEF SumUp, EntryCodes
  <2>7. x \in Errors(top, <<>>) \cup Errors(CourseCodes(g.version, g.course), <<"course">>) \cup
              Errors(outcomes, <<"outcomes">>) \cup Errors(number, <<"modules">>) \cup
              inside \cup Errors(entries(g.glossary), <<"glossary">>) \cup
              Errors(entries(g.sources), <<"sources">>)
    BY <1>8 DEF FieldErrors, SumUp
  <2> HIDE DEF top, outcomes, number, inside, entries
  <2> QED BY <1>1, <2>1, <2>2, <2>3, <2>4, <2>5, <2>6, <2>7
<1>13. CASE g.kind = "text"
  <2>1. Check(g, FALSE) = {Error("json.invalid", <<>>)}
    BY <1>13, Zenon DEF Check
  <2> QED BY <2>1, <1>0, <1>2
<1>14. CASE g.kind # "text" /\ ~ Shaped(g, "guide")
  <2>1. Check(g, FALSE) = Errors({"schema.missing_field", "schema.unknown_field"}, <<>>)
    BY <1>14, Zenon DEF Check
  <2> QED BY <2>1, <1>1, <1>2
<1>15. CASE g.kind # "text" /\ Shaped(g, "guide")
  <2> DEFINE walked == Understood(g)
  <2>1. Check(g, FALSE) = FieldErrors(g, FALSE) \cup DuplicateIds(walked) \cup UnknownRefs(walked) \cup
                          Unassigned(g) \cup (DanglingLinks(walked) \cup Coverage(g))
    BY <1>15 DEF Check
  <2> HIDE DEF walked
  <2> QED BY <2>1, <1>3, <1>4, <1>5, <1>6, <1>7, <1>8
<1> QED BY <1>13, <1>14, <1>15

-----------------------------------------------------------------------------
\* What the findings of a report are.

Formed(f) ==
    /\ DOMAIN f = {"rule", "blocking", "waivable", "says"}
    /\ f.blocking <=> f.rule \notin Advisory

Clean(f, private) == \A s \in Surfaces : f.says[s] \cap private = {}

\* Some finding of a set has a rule.
Names(findings, rule) == \E f \in findings : f.rule = rule

LEMMA FindingFormed ==
    \A rule, name, place, message, related :
        /\ Formed(Finding(rule, name, place, message, related))
        /\ Finding(rule, name, place, message, related).rule = rule
<1> SUFFICES ASSUME NEW rule, NEW name, NEW place, NEW message, NEW related
             PROVE  /\ Formed(Finding(rule, name, place, message, related))
                    /\ Finding(rule, name, place, message, related).rule = rule
  OBVIOUS
<1> DEFINE f == Finding(rule, name, place, message, related)
<1>1. DOMAIN f = {"rule", "blocking", "waivable", "says"}
  BY DEF Finding
<1>2. f.rule = rule /\ f.blocking = (rule \notin Advisory)
  BY DEF Finding
<1> HIDE DEF f
<1>3. f.blocking <=> f.rule \notin Advisory
  BY <1>2, Zenon
<1> QED
  BY <1>1, <1>2, <1>3 DEF Formed, f

LEMMA PlainFormed ==
    \A rule : /\ Formed(Plain(rule)) /\ Plain(rule).rule = rule
              /\ \A private : Clean(Plain(rule), private)
<1> SUFFICES ASSUME NEW rule
             PROVE  /\ Formed(Plain(rule)) /\ Plain(rule).rule = rule
                    /\ \A private : Clean(Plain(rule), private)
  OBVIOUS
<1>1. Plain(rule) = Finding(rule, {}, {}, {}, {})
  BY DEF Plain
<1>2. \A s \in Surfaces : Plain(rule).says[s] = {}
  BY <1>1 DEF Finding, Surfaces
<1> QED BY <1>1, <1>2, FindingFormed DEF Clean

LEMMA AboutFormed == \A rule, id : Formed(About(rule, id)) /\ About(rule, id).rule = rule
BY FindingFormed DEF About

LEMMA DiagnosticFormed ==
    ASSUME NEW e, NEW private
    PROVE  /\ Formed(FromDiagnostic(e, private))
           /\ FromDiagnostic(e, private).rule = ReportedAs(e.code)
<1> DEFINE quoted == {e.says} \ ({""} \cup private)
           named  == IF e.code \in NamedByQuote THEN quoted ELSE {}
<1>1. FromDiagnostic(e, private) = Finding(ReportedAs(e.code), named, {}, quoted, {})
  BY DEF FromDiagnostic
<1> HIDE DEF quoted, named
<1> QED BY <1>1, FindingFormed

LEMMA SanitizedClean ==
    ASSUME NEW f, NEW private, Formed(f)
    PROVE  /\ Formed(Sanitized(f, private)) /\ Clean(Sanitized(f, private), private)
           /\ Sanitized(f, private).rule = f.rule
<1> DEFINE kept == [s \in Surfaces |-> f.says[s] \ private]
<1>1. Sanitized(f, private) = [f EXCEPT !.says = kept]
  BY DEF Sanitized
<1>2. /\ Sanitized(f, private).rule = f.rule
      /\ Sanitized(f, private).blocking = f.blocking
      /\ Sanitized(f, private).says = kept
      /\ DOMAIN Sanitized(f, private) = DOMAIN f
  BY <1>1 DEF Formed
<1>3. \A s \in Surfaces : kept[s] \cap private = {}
  OBVIOUS
<1> QED BY <1>2, <1>3 DEF Formed, Clean

LEMMA PersonalizationFormed ==
    ASSUME NEW g, NEW p, NEW f \in PersonalizationFindings(g, p)
    PROVE  Formed(f)
<1>1. CASE p = NoProfile
  <2>1. PersonalizationFindings(g, p) \subseteq
          {Plain("personalization.no_profile"), Plain("personalization.unexpected_annotations")}
    BY <1>1 DEF PersonalizationFindings
  <2> QED BY <2>1, PlainFormed
<1>2. CASE p # NoProfile
  <2>1. \/ f = Plain("personalization.no_annotations")
        \/ \E v \in Violations(g, Goals(p)) :
              f = Finding("personalization." \o v.code, {v.id, v.goal}, {}, {}, {v.id, v.goal})
        \/ \E x \in Goals(p) : f = About("personalization.goal_uncovered", x)
    BY <1>2 DEF PersonalizationFindings
  <2>2. ASSUME NEW v, f = Finding("personalization." \o v.code, {v.id, v.goal}, {}, {}, {v.id, v.goal})
        PROVE  Formed(f)
    <3> DEFINE rule == "personalization." \o v.code
    <3> HIDE DEF rule
    <3> QED BY <2>2, FindingFormed DEF rule
  <2> QED BY <2>1, <2>2, PlainFormed, AboutFormed
<1> QED BY <1>1, <1>2

LEMMA ContentFormed ==
    ASSUME NEW g, NEW private, NEW f \in ContentFindings(g, private)
    PROVE  Formed(f)
BY PlainFormed DEF ContentFindings

LEMMA CalibrationFormed ==
    ASSUME NEW g, NEW p, NEW setting, NEW f \in CalibrationFindings(g, p, setting)
    PROVE  Formed(f)
<1>1. \A rule, id : \A x \in {About(rule, id)} : Formed(x)
  BY AboutFormed
<1>2. \E rule, id : f = About(rule, id)
  BY DEF CalibrationFindings, AboutIf
<1> QED BY <1>1, <1>2

LEMMA StaticFormed ==
    ASSUME NEW g, NEW f \in StaticFindings(g)
    PROVE  Formed(f) /\ \A private : Clean(f, private)
<1>1. \E rule : f = Plain(rule)
  BY DEF StaticFindings
<1> QED BY <1>1, PlainFormed

LEMMA TraceFormed ==
    ASSUME NEW g, NEW p, NEW f \in TraceFinding(g, p)
    PROVE  Formed(f) /\ \A private : Clean(f, private)
<1>1. \E rule : f = Plain(rule)
  BY DEF TraceFinding
<1> QED BY <1>1, PlainFormed

\* The findings before they are sanitized.
Raw(g, p, setting) ==
    IF ~ Parses(g)
    THEN {FromDiagnostic(e, Protected(p)) : e \in Check(g, FALSE)}
         \cup IF p = NoProfile THEN {Plain("personalization.no_profile")} ELSE {}
    ELSE PersonalizationFindings(g, p) \cup
         ContentFindings(Projection(g), Protected(p)) \cup
         (IF SumOf(LAMBDA m : m.minutes, g.modules) = Projection(g).course.minutes THEN {}
          ELSE {About("time.module_total_mismatch", Projection(g).course.id)}) \cup
         (IF Projection(g).course.summary THEN {}
          ELSE {About("personalization.no_visible_connection", Projection(g).course.id)}) \cup
         CalibrationFindings(Projection(g), p, setting)

LEMMA RawFormed ==
    ASSUME NEW g, NEW p, NEW setting, NEW f \in Raw(g, p, setting)
    PROVE  Formed(f)
<1>1. CASE ~ Parses(g)
  BY <1>1, DiagnosticFormed, PlainFormed DEF Raw
<1>2. CASE Parses(g)
  <2>1. \/ f \in PersonalizationFindings(g, p)
        \/ f \in ContentFindings(Projection(g), Protected(p))
        \/ f \in CalibrationFindings(Projection(g), p, setting)
        \/ \E rule, id : f = About(rule, id)
    BY <1>2 DEF Raw
  <2> QED BY <2>1, PersonalizationFormed, ContentFormed, CalibrationFormed, AboutFormed
<1> QED BY <1>1, <1>2

LEMMA FindingsAreRaw ==
    ASSUME NEW g, NEW p, NEW setting
    PROVE  Findings(g, p, setting) = {Sanitized(f, Protected(p)) : f \in Raw(g, p, setting)}
BY DEF Findings, Raw

\* Every finding of a report is formed by the rules, and clean.
LEMMA FindingsClean ==
    ASSUME NEW g, NEW p, NEW setting, NEW f \in Findings(g, p, setting)
    PROVE  Formed(f) /\ Clean(f, Protected(p))
BY FindingsAreRaw, RawFormed, SanitizedClean

LEMMA RawIsNamed ==
    ASSUME NEW g, NEW p, NEW setting, NEW f \in Raw(g, p, setting)
    PROVE  Names(Findings(g, p, setting), f.rule)
BY FindingsAreRaw, RawFormed, SanitizedClean DEF Names

LEMMA DiagnosticsAreFound ==
    ASSUME NEW g, NEW p, NEW setting, ~ Parses(g), NEW e \in Check(g, FALSE)
    PROVE  Names(Findings(g, p, setting), ReportedAs(e.code))
<1>1. FromDiagnostic(e, Protected(p)) \in Raw(g, p, setting)
  BY DEF Raw
<1> QED BY <1>1, RawIsNamed, DiagnosticFormed

LEMMA OtherBlueprintIsFound ==
    ASSUME NEW g, NEW p, NEW setting, Parses(g),
           setting.blueprint \notin {"", Projection(g).course.blueprint}
    PROVE  Names(Findings(g, p, setting), "blueprint.contract_mismatch")
<1> DEFINE f == About("blueprint.contract_mismatch", Projection(g).course.id)
<1>1. f \in CalibrationFindings(Projection(g), p, setting)
  BY DEF CalibrationFindings, AboutIf
<1>2. f \in Raw(g, p, setting)
  BY <1>1 DEF Raw
<1>3. f.rule = "blueprint.contract_mismatch"
  BY AboutFormed
<1> HIDE DEF f
<1> QED BY <1>2, <1>3, RawIsNamed

\* The rules read all that is published.
LEMMA DiagramIsRead == \A b : InDiagram(b) \subseteq DiagramStrings(b)
<1> SUFFICES ASSUME NEW b PROVE InDiagram(b) \subseteq DiagramStrings(b)
  OBVIOUS
<1> DEFINE edges  == UNION {{e.from, e.to} \cup e.text : e \in ToSet(b.edges)}
           values == UNION {v.text : v \in UNION {ToSet(c.values) : c \in ToSet(b.criteria)}}
           drawn  == Said(ToSet(b.nodes) \cup ToSet(b.events) \cup ToSet(b.items) \cup ToSet(b.criteria))
<1>1. \A s : Said(ToSet(s)) \subseteq SumUp(Own, s)
  BY DEF Said, SumUp, ToSet
<1>2. drawn \subseteq DiagramStrings(b)
  <2>1. drawn =
          Said(ToSet(b.nodes)) \cup Said(ToSet(b.events)) \cup
          Said(ToSet(b.items)) \cup Said(ToSet(b.criteria))
    BY DEF Said
  <2> QED BY <2>1, <1>1 DEF DiagramStrings
<1>3. edges \subseteq DiagramStrings(b)
  BY DEF DiagramStrings, SumUp, ToSet
<1>4. values \subseteq DiagramStrings(b)
  BY DEF DiagramStrings, SumUp, ToSet
<1>5. b.hub \in DiagramStrings(b)
  BY DEF DiagramStrings
<1>6. InDiagram(b) = {b.hub} \cup drawn \cup edges \cup values
  BY DEF InDiagram
<1> HIDE DEF drawn, edges, values
<1> QED BY <1>2, <1>3, <1>4, <1>5, <1>6

LEMMA BlockIsRead == \A b : InBlock(b) \subseteq BlockStrings(b)
<1> SUFFICES ASSUME NEW b PROVE InBlock(b) \subseteq BlockStrings(b)
  OBVIOUS
<1>1. Said({b} \cup ToSet(Parts(b))) = Own(b) \cup SumUp(Own, Parts(b))
  BY DEF Said, SumUp, ToSet
<1>2. Own(b) \cup SumUp(Own, Parts(b)) \subseteq BlockStrings(b)
  BY DEF BlockStrings
<1>3. ASSUME b.type = "diagram" PROVE InDiagram(b) \subseteq BlockStrings(b)
  BY <1>3, DiagramIsRead DEF BlockStrings
<1> QED BY <1>1, <1>2, <1>3 DEF InBlock

LEMMA ModuleIsRead == \A m : InModule(m) \subseteq ModuleStrings(m)
<1> SUFFICES ASSUME NEW m PROVE InModule(m) \subseteq ModuleStrings(m)
  OBVIOUS
<1>1. Said({m} \cup ToSet(m.sections)) = Own(m) \cup SumUp(Own, m.sections)
  BY DEF Said, SumUp, ToSet
<1>2. UNION {InBlock(b) : b \in ToSet(Blocks(m))} \subseteq SumUp(BlockStrings, Blocks(m))
  BY BlockIsRead DEF SumUp, ToSet
<1> QED BY <1>1, <1>2 DEF InModule, ModuleStrings

LEMMA PublishedIsRead == \A g : Published(g) \subseteq Strings(g)
<1> SUFFICES ASSUME NEW g PROVE Published(g) \subseteq Strings(g)
  OBVIOUS
<1>1. Said({g.course} \cup ToSet(g.outcomes) \cup ToSet(g.glossary) \cup ToSet(g.sources)) =
        Own(g.course) \cup SumUp(Own, g.outcomes) \cup SumUp(Own, g.glossary) \cup SumUp(Own, g.sources)
  BY DEF Said, SumUp, ToSet
<1>2. SumUp(Own, g.outcomes) \subseteq SumUp(LAMBDA o : Own(o) \cup ToSet(o.serves), g.outcomes)
  BY DEF SumUp
<1>3. UNION {InModule(m) : m \in ToSet(g.modules)} \subseteq SumUp(ModuleStrings, g.modules)
  BY ModuleIsRead DEF SumUp, ToSet
<1> QED BY <1>1, <1>2, <1>3 DEF Published, Strings

LEMMA PrivateTextIsFound ==
    ASSUME NEW g, NEW p, NEW setting, Parses(g),
           NEW w \in Published(Projection(g)), w \in Protected(p)
    PROVE  Names(Findings(g, p, setting), "privacy.exact_private_value")
<1> DEFINE public == Projection(g)
           f == Plain("privacy.exact_private_value")
<1>1. w \in Strings(public)
  BY PublishedIsRead
<1>2. f \in ContentFindings(public, Protected(p))
  BY <1>1 DEF ContentFindings
<1>3. f \in Raw(g, p, setting)
  BY <1>2 DEF Raw
<1> QED BY <1>3, RawIsNamed, PlainFormed

-----------------------------------------------------------------------------
\* What a report shows, and what an open gate means.

LEMMA ReportClean ==
    ASSUME NEW g
    PROVE  /\ Report(g).guide = g /\ Report(g).profile = profile
           /\ \A f \in Report(g).findings : Formed(f) /\ Clean(f, Protected(profile))
<1>1. Report(g).findings = Findings(g, profile, Setting) \cup TraceFinding(g, profile)
  BY DEF Report
<1> QED BY <1>1, FindingsClean, TraceFormed DEF Report

LEMMA FinalReportClean ==
    ASSUME NEW g
    PROVE  /\ FinalReport(g).guide = g /\ FinalReport(g).profile = profile
           /\ FinalReport(g).trace = Trace(g, profile)
           /\ \A f \in FinalReport(g).findings : Formed(f) /\ Clean(f, Protected(profile))
<1>1. FinalReport(g).findings = Report(g).findings \cup StaticFindings(g)
  BY DEF FinalReport
<1> QED BY <1>1, ReportClean, StaticFormed DEF FinalReport

LEMMA CleanShowsNothing ==
    ASSUME NEW findings, NEW private, \A f \in findings : Clean(f, private)
    PROVE  Shown(findings) \cap private = {}
BY DEF Shown, Clean

\* A rule of the findings of an open report is an advice.
LEMMA OpenMeansAdvice ==
    ASSUME NEW g, NEW rule, Open(FinalReport(g)),
           Names(FinalReport(g).findings, rule)
    PROVE  rule \in Advisory
<1>1. PICK f \in FinalReport(g).findings : f.rule = rule
  BY DEF Names
<1>2. Formed(f) /\ ~ f.blocking
  BY FinalReportClean DEF Open, Blocking
<1> QED BY <1>1, <1>2 DEF Formed

LEMMA FinalHasFindings ==
    ASSUME NEW g, NEW rule,
           Names(Findings(g, profile, Setting), rule) \/ Names(TraceFinding(g, profile), rule)
    PROVE  Names(FinalReport(g).findings, rule)
BY DEF Names, FinalReport, Report

\* The sound gate, of the report that ValidateFinal writes.
SoundGate(r) ==
    LET public == Projection(r.guide) IN
    /\ \A e \in Check(r.guide, FALSE) : e.code = "content.excessive_length"
    /\ Parses(r.guide) =>
          /\ Setting.blueprint \in {"", public.course.blueprint}
          /\ r.profile /= NoProfile => r.trace /= NoTrace
          /\ Published(public) \cap Protected(r.profile) = {}

LEMMA FinalGateSound ==
    ASSUME NEW g, Open(FinalReport(g))
    PROVE  SoundGate(FinalReport(g))
<1> DEFINE r == FinalReport(g)
<1>1. r.guide = g /\ r.profile = profile /\ r.trace = Trace(g, profile)
  BY FinalReportClean
<1>2. ASSUME NEW e \in Check(g, FALSE) PROVE e.code = "content.excessive_length"
  <2>1. ~ Parses(g)
    BY <1>2 DEF Parses
  <2>2. ReportedAs(e.code) \in Advisory
    BY <2>1, <1>2, DiagnosticsAreFound, FinalHasFindings, OpenMeansAdvice
  <2> QED BY <2>2, <1>2, ParserSays, LoudCodes
<1>3. ASSUME Parses(g)
      PROVE  Setting.blueprint \in {"", Projection(g).course.blueprint}
  <2>1. "blueprint.contract_mismatch" \notin Advisory
    BY DEF Advisory
  <2> QED BY <2>1, <1>3, OtherBlueprintIsFound, FinalHasFindings, OpenMeansAdvice
<1>4. ASSUME Parses(g), profile # NoProfile
      PROVE  r.trace # NoTrace
  <2>1. CASE TraceIsSafe(g)
    BY <2>1, <1>1, <1>4 DEF Trace, NoTrace
  <2>2. CASE ~ TraceIsSafe(g)
    <3>1. "personalization.trace_integrity" \notin Advisory
      BY DEF Advisory
    <3>2. Names(TraceFinding(g, profile), "personalization.trace_integrity")
      BY <2>2, <1>4, PlainFormed DEF TraceFinding, Names
    <3> QED BY <3>1, <3>2, FinalHasFindings, OpenMeansAdvice
  <2> QED BY <2>1, <2>2
<1>5. ASSUME Parses(g), NEW w \in Published(Projection(g))
      PROVE  w \notin Protected(profile)
  <2>1. "privacy.exact_private_value" \notin Advisory
    BY DEF Advisory
  <2> QED BY <2>1, <1>5, PrivateTextIsFound, FinalHasFindings, OpenMeansAdvice
<1> HIDE DEF r
<1>6. SoundGate(r)
  BY <1>1, <1>2, <1>3, <1>4, <1>5 DEF SoundGate
<1> QED BY <1>6 DEF r

-----------------------------------------------------------------------------
\* What an audit shows.

LEMMA SaidAlikeAuditsAlike ==
    ASSUME NEW a, NEW b, SaidAlike(a, b)
    PROVE  SafeAudit(a) = SafeAudit(b)
<1> DEFINE of(s, kind) ==
          {AuditFinding("audit." \o kind \o "_" \o x.verdict, {x.id}, {x.id}) :
              x \in {x \in ToSet(s) : x.verdict /= "served"}}
           flagged(s) == {AuditFinding("audit." \o f.rule, {f.reason, f.at.id}, {f.at.id}) :
                            f \in ToSet(s)}
<1>1. ASSUME NEW s, NEW t, NEW kind,
             {Verdict(x) : x \in ToSet(s)} \subseteq {Verdict(x) : x \in ToSet(t)}
      PROVE  of(s, kind) \subseteq of(t, kind)
  <2>1. ASSUME NEW x \in ToSet(s)
        PROVE  \E y \in ToSet(t) : y.id = x.id /\ y.verdict = x.verdict
    <3>1. PICK y \in ToSet(t) : Verdict(y) = Verdict(x)
      BY <1>1, <2>1
    <3> QED BY <3>1 DEF Verdict
  <2> QED BY <2>1
<1>2. ASSUME NEW s, NEW t, {Mark(f) : f \in ToSet(s)} \subseteq {Mark(f) : f \in ToSet(t)}
      PROVE  flagged(s) \subseteq flagged(t)
  <2>1. ASSUME NEW x \in ToSet(s)
        PROVE  \E y \in ToSet(t) : y.rule = x.rule /\ y.reason = x.reason /\ y.at = x.at
    <3>1. PICK y \in ToSet(t) : Mark(y) = Mark(x)
      BY <1>2, <2>1
    <3> QED BY <3>1 DEF Mark
  <2> QED BY <2>1
<1>3. /\ {Verdict(x) : x \in ToSet(a.goals)} = {Verdict(x) : x \in ToSet(b.goals)}
      /\ {Verdict(x) : x \in ToSet(a.facets)} = {Verdict(x) : x \in ToSet(b.facets)}
      /\ {Mark(f) : f \in ToSet(a.flags)} = {Mark(f) : f \in ToSet(b.flags)}
  BY DEF SaidAlike
<1>4. \A c : SafeAudit(c) = of(c.goals, "goal") \cup of(c.facets, "facet") \cup flagged(c.flags)
  BY DEF SafeAudit
<1> HIDE DEF of, flagged
<1> QED BY <1>1, <1>2, <1>3, <1>4

-----------------------------------------------------------------------------
\* What parses has its shape, and what is merged parses.

LEMMA ParsedShape ==
    ASSUME NEW g, Parses(g)
    PROVE  /\ Shaped(g, "guide") /\ DOMAIN g = Keys["guide"]
           /\ g.kind = "guide" /\ g.version \in SupportedVersions
           /\ \A i \in DOMAIN g.modules : Shaped(g.modules[i], "module")
<1>1. Check(g, FALSE) = {}
  BY DEF Parses
<1>2. g.kind # "text"
  BY <1>1 DEF Check
<1>3. Shaped(g, "guide")
  BY <1>1, <1>2 DEF Check, Errors
<1>4. FieldErrors(g, FALSE) = {}
  BY <1>1, <1>2, <1>3 DEF Check
<1>5. ASSUME NEW i \in DOMAIN g.modules PROVE Shaped(g.modules[i], "module")
  <2>1. Errors(ModuleCodes(g.version, g.modules[i], FALSE), Place(i)) = {}
    BY <1>4 DEF FieldErrors
  <2>2. ModuleCodes(g.version, g.modules[i], FALSE) = {}
    BY <2>1 DEF Errors
  <2> QED BY <2>2 DEF ModuleCodes
<1>6. g.version \in SupportedVersions
  <2> DEFINE top == FaultCodes(g.faults) \cup
                    When(g.version \notin SupportedVersions, "schema.unsupported_version")
  <2>1. Errors(top, <<>>) = {}
    BY <1>4 DEF FieldErrors
  <2>2. top = {}
    BY <2>1 DEF Errors
  <2> QED BY <2>2 DEF When
<1> QED BY <1>3, <1>5, <1>6 DEF Shaped

LEMMA SplicedParses ==
    ASSUME NEW base, NEW scope, NEW text, Spliced(base, scope, text).ok
    PROVE  LET g == Spliced(base, scope, text).guide IN
           /\ Parses(base) /\ Parses(g) /\ g.version = base.version
           /\ Outside(g, scope) = Outside(base, scope)
<1> DEFINE mid == scope.module
           g   == Spliced(base, scope, text).guide
           i   == Index(base.modules, mid)
<1>1. CASE scope.section = ""
  <2> DEFINE ms == [base.modules EXCEPT ![i] = text]
             new == [base EXCEPT !.modules = ms]
  <2>1. /\ Parses(base) /\ FragmentFits(text, "module", mid)
        /\ mid \in ToSet(Ids(base.modules))
        /\ Parses(new) /\ g = new
    BY <1>1 DEF Spliced, SpliceModule, MergedOrRefused, Merged, Refused
  <2>2. DOMAIN base = Keys["guide"]
    BY <2>1, ParsedShape
  <2>3. i \in DOMAIN base.modules /\ base.modules[i].id = mid /\ text.id = mid
    BY <2>1 DEF Index, ToSet, Ids, FragmentFits
  <2>4. new.version = base.version /\ new.modules = ms /\ DOMAIN new = DOMAIN base
    BY <2>2 DEF Keys
  <2> DEFINE without(s) == [k \in DOMAIN s |-> IF s[k].id = mid THEN mid ELSE s[k]]
  <2>5. without(ms) = without(base.modules)
    BY <2>3
  <2>6. Outside(new, scope) = [new EXCEPT !.modules = without(ms)]
    BY <1>1, <2>4, <2>2, ZenonT(60) DEF Outside, Keys
  <2>7. Outside(base, scope) = [base EXCEPT !.modules = without(base.modules)]
    BY <1>1 DEF Outside
  <2> HIDE DEF without, ms
  <2>8. [new EXCEPT !.modules = without(ms)] = [base EXCEPT !.modules = without(base.modules)]
    BY <2>5
  <2> QED BY <2>1, <2>4, <2>6, <2>7, <2>8
<1>2. CASE scope.section # ""
  <2> DEFINE sid == scope.section
             m   == base.modules[i]
             j   == Index(m.sections, sid)
             ss  == [m.sections EXCEPT ![j] = text]
             ms  == [base.modules EXCEPT ![i] = [m EXCEPT !.sections = ss]]
             new == [base EXCEPT !.modules = ms]
  <2>0. [base EXCEPT !.modules[i].sections[j] = text] = new
    OBVIOUS
  <2>1. /\ Parses(base) /\ FragmentFits(text, "section", sid)
        /\ mid \in ToSet(Ids(base.modules))
        /\ sid \in ToSet(Ids(m.sections))
        /\ Parses(new) /\ g = new
    BY <1>2, <2>0 DEF Spliced, SpliceSection, MergedOrRefused, Merged, Refused
  <2>2. DOMAIN base = Keys["guide"] /\ \A k \in DOMAIN base.modules : Shaped(base.modules[k], "module")
    BY <2>1, ParsedShape
  <2>3. i \in DOMAIN base.modules /\ m.id = mid
    BY <2>1, ZenonT(60) DEF Index, ToSet, Ids
  <2>4. j \in DOMAIN m.sections /\ m.sections[j].id = sid /\ text.id = sid
    BY <2>1, ZenonT(60) DEF Index, ToSet, Ids, FragmentFits
  <2>5. DOMAIN m = Keys["module"]
    BY <2>2, <2>3 DEF Shaped
  <2>6. new.version = base.version /\ new.modules = ms /\ DOMAIN new = DOMAIN base
    BY <2>2 DEF Keys
  <2> DEFINE inner(s) == [k \in DOMAIN s |-> IF s[k].id = sid THEN sid ELSE s[k]]
             cut(x)   == OutsideSection(x, sid)
             without(s) == [k \in DOMAIN s |-> IF s[k].id # mid THEN s[k] ELSE cut(s[k])]
  <2>7. inner(ss) = inner(m.sections) /\ \A x : cut(x) = [x EXCEPT !.sections = inner(x.sections)]
    BY <2>4 DEF OutsideSection
  <2>8. ms[i].id = mid /\ cut(ms[i]) = cut(m) /\ \A k \in DOMAIN ms \ {i} : ms[k] = base.modules[k]
    <3>1. ms[i] = [m EXCEPT !.sections = ss]
      BY <2>3
    <3>2. ms[i].id = mid /\ ms[i].sections = ss
      BY <3>1, <2>3, <2>5 DEF Keys, ElementKeys
    <3> HIDE DEF inner, ss, cut
    <3>3. cut(ms[i]) = [ms[i] EXCEPT !.sections = inner(m.sections)]
      <4> HIDE DEF ms
      <4> QED BY <3>2, <2>7
    <3>4. [ms[i] EXCEPT !.sections = inner(m.sections)] = [m EXCEPT !.sections = inner(m.sections)]
      BY <3>1
    <3> QED BY <3>2, <3>3, <3>4, <2>7
  <2>9. without(ms) = without(base.modules)
    <3>1. DOMAIN ms = DOMAIN base.modules
      OBVIOUS
    <3> HIDE DEF cut, ms
    <3> QED BY <2>8, <3>1, <2>3
  <2>10. \A x : Outside(x, scope) = [x EXCEPT !.modules = without(x.modules)]
    BY <1>2 DEF Outside
  <2> HIDE DEF without, ms
  <2>11. Outside(new, scope) = [new EXCEPT !.modules = without(ms)]
    <3> HIDE DEF new
    <3> QED BY <2>6, <2>10
  <2>12. [new EXCEPT !.modules = without(ms)] = [base EXCEPT !.modules = without(base.modules)]
    BY <2>9
  <2> QED BY <2>1, <2>6, <2>10, <2>11, <2>12
<1> QED BY <1>1, <1>2

-----------------------------------------------------------------------------
\* The inductive invariant of the pipeline.

SpecOfRun  == spec # None => spec.schema = RunVersion
FinalTraced == final # None => final.trace = Trace(final.guide, final.profile)

PipelineInv == GuideInv /\ ReportsSound /\ SpecOfRun /\ FinalTraced

LEMMA NotAbsent ==
    /\ \A s, o, x : Contract(s, o, x) # None
    /\ \A scope, g : [scope |-> scope, draft |-> g] # None
    /\ \A scope, g : [guide |-> g, scope |-> scope] # None
    /\ \A g : FinalReport(g) # None /\ Report(g) # None
    /\ \A a, t : [answer |-> a, trace |-> t] # None
<1>1. DOMAIN None = {"kind"}
  BY DEF None
<1>2. \A s, o, x : "schema" \in DOMAIN Contract(s, o, x)
  BY DEF Contract
<1>3. \A scope, g : "scope" \in DOMAIN [scope |-> scope, draft |-> g]
  OBVIOUS
<1>4. \A scope, g : "scope" \in DOMAIN [guide |-> g, scope |-> scope]
  OBVIOUS
<1>5. \A g : "guide" \in DOMAIN FinalReport(g) /\ "guide" \in DOMAIN Report(g)
  BY DEF FinalReport, Report
<1>6. \A a, t : "answer" \in DOMAIN [answer |-> a, trace |-> t]
  OBVIOUS
<1> QED BY <1>1, <1>2, <1>3, <1>4, <1>5, <1>6

LEMMA AssembledParses ==
    ASSUME NEW s, NEW answers, NEW order, Assemble(s, answers, order).ok
    PROVE  Parses(Assemble(s, answers, order).guide)
BY DEF Assemble, Merged, Refused

LEMMA RedoBounded ==
    ASSUME NEW fresh, Redo(fresh), redone \in 0 .. MaxRedo
    PROVE  redone' \in 0 .. MaxRedo
BY PipelineAssumption DEF Redo

\* What is derived from a document is never there without it.
LEMMA PipelineTyped ==
    ASSUME PipelineInv, [Next]_vars
    PROVE  TypeOK'
<1> USE DEF early, late
<1>0. TypeOK /\ MaxRedo \in Nat /\ None \notin Specs \cup Outlines
  BY PipelineAssumption DEF PipelineInv, GuideInv
<1>1. ASSUME NEW s \in Specs, ApproveSpec(s) PROVE TypeOK'
  BY <1>0, <1>1, RedoBounded DEF TypeOK, ApproveSpec, Documents
<1>2. ASSUME NEW o \in Outlines, ApproveOutline(o) PROVE TypeOK'
  BY <1>0, <1>2, RedoBounded DEF TypeOK, ApproveOutline, Documents
<1>3. CASE WriteDraftPrompt
  BY <1>0, <1>3, RedoBounded, NotAbsent DEF TypeOK, WriteDraftPrompt, Documents
<1>4. ASSUME NEW p \in Profiles, AttachProfile(p) PROVE TypeOK'
  BY <1>0, <1>4, RedoBounded DEF TypeOK, AttachProfile, Documents
<1>5. ASSUME NEW s \in Skeletons, NEW answers \in Saved, AssembleDraft(s, answers) PROVE TypeOK'
  <2>1. drafted'.kind \in AnswerKinds
    BY <1>5, AssembledParses, ParsedShape DEF AssembleDraft, AnswerKinds
  <2> QED BY <1>0, <1>5, <2>1, RedoBounded DEF TypeOK, AssembleDraft, Documents
<1>6. ASSUME NEW g \in Guides, AnswerDraft(g) PROVE TypeOK'
  BY <1>0, <1>6, RedoBounded, PipelineAssumption DEF TypeOK, AnswerDraft, Documents
<1>7. CASE ApproveDraft
  BY <1>0, <1>7 DEF TypeOK, ApproveDraft, Documents
<1>8. CASE ValidateDraft
  BY <1>0, <1>8 DEF TypeOK, ValidateDraft, Documents
<1>9. CASE Review
  BY <1>0, <1>9 DEF TypeOK, Review, Documents
<1>10. ASSUME NEW scope, WriteRepairPrompt(scope) PROVE TypeOK'
  <2>1. /\ prompt' = [scope |-> scope, draft |-> draft]
        /\ contract # None /\ draft # None
    BY <1>10 DEF WriteRepairPrompt, RepairReady, Reviewable
  <2>2. prompt'.draft # None
    BY <2>1
  <2> QED BY <1>0, <1>10, <2>1, <2>2, RedoBounded, NotAbsent DEF TypeOK, WriteRepairPrompt, Documents
<1>11. ASSUME NEW text, ApproveRepair(text) PROVE TypeOK'
  BY <1>0, <1>11, RedoBounded, NotAbsent
  DEF TypeOK, ApproveRepair, ApproveWhole, ApproveScoped, Documents
<1>12. CASE ValidateFinal
  BY <1>0, <1>12, NotAbsent DEF TypeOK, ValidateFinal, Documents
<1>13. ASSUME NEW a \in Answers, ApproveAudit(a) PROVE TypeOK'
  BY <1>0, <1>13, RedoBounded DEF TypeOK, ApproveAudit, Of, Documents
<1>14. CASE UNCHANGED vars
  BY <1>0, <1>14 DEF TypeOK, vars, Documents
<1> QED
  BY <1>1, <1>2, <1>3, <1>4, <1>5, <1>6, <1>7, <1>8, <1>9, <1>10, <1>11, <1>12, <1>13, <1>14
  DEF Next

LEMMA PipelineOneVersion ==
    ASSUME PipelineInv, [Next]_vars
    PROVE  ContractClosed' /\ OneVersion' /\ SpecOfRun'
<1> USE DEF early, late
<1>0. TypeOK /\ ContractClosed /\ OneVersion /\ SpecOfRun
  BY DEF PipelineInv, GuideInv
<1>1. ASSUME NEW s \in Specs, ApproveSpec(s) PROVE ContractClosed' /\ OneVersion' /\ SpecOfRun'
  BY <1>0, <1>1 DEF ApproveSpec, ContractClosed, OneVersion, SpecOfRun
<1>2. CASE WriteDraftPrompt
  <2>1. /\ contract' = Contract(spec, outline, Summary(profile))
        /\ Agree(spec, outline) /\ spec # None
    BY <1>2 DEF WriteDraftPrompt, Buildable
  <2>2. /\ contract'.modules = ToSet(outline.modules)
        /\ contract'.outcomes = spec.outcomes /\ contract'.schema = RunVersion
    BY <2>1, <1>0 DEF Contract, SpecOfRun
  <2>3. ContractClosed'
    BY <2>1, <2>2 DEF ContractClosed, Agree
  <2> QED BY <2>3, <1>0, <1>2 DEF WriteDraftPrompt, OneVersion, SpecOfRun
<1>3. CASE ApproveDraft
  <2>1. draft'.kind = "guide" => draft'.version \notin SupportedVersions \ {RunVersion}
    BY <1>3 DEF ApproveDraft, VersionFits
  <2> QED BY <2>1, <1>0, <1>3 DEF ApproveDraft, ContractClosed, OneVersion, SpecOfRun
<1>4. ASSUME NEW text, ApproveRepair(text) PROVE ContractClosed' /\ OneVersion' /\ SpecOfRun'
  <2>1. repair'.guide.kind = "guide" =>
            repair'.guide.version \notin SupportedVersions \ {RunVersion}
    <3>1. CASE ApproveWhole(text)
      BY <1>4, <3>1 DEF ApproveRepair, ApproveWhole, VersionFits
    <3>2. CASE ApproveScoped(text)
      <4>1. /\ Spliced(draft, RepairScope, text).ok
            /\ repair'.guide = Spliced(draft, RepairScope, text).guide
        BY <3>2 DEF ApproveScoped
      <4>2. Parses(draft) /\ repair'.guide.version = draft.version
        BY <4>1, SplicedParses
      <4>3. draft # None
        BY <4>2, ParsedShape DEF None
      <4> QED BY <4>2, <4>3, <1>0, ParsedShape DEF OneVersion
    <3> QED BY <1>4, <3>1, <3>2 DEF ApproveRepair
  <2> QED BY <2>1, <1>0, <1>4 DEF ApproveRepair, ContractClosed, OneVersion, SpecOfRun
<1>5. ASSUME UNCHANGED <<spec, contract, draft, repair>>
      PROVE  ContractClosed' /\ OneVersion' /\ SpecOfRun'
  BY <1>0, <1>5 DEF ContractClosed, OneVersion, SpecOfRun
<1>6. \/ \E s \in Specs : ApproveSpec(s)
      \/ WriteDraftPrompt \/ ApproveDraft
      \/ \E text : ApproveRepair(text)
      \/ UNCHANGED <<spec, contract, draft, repair>>
  BY DEF Next, vars, ApproveOutline, AttachProfile, AssembleDraft, AnswerDraft, ValidateDraft,
         Review, WriteRepairPrompt, ValidateFinal, ApproveAudit
<1> QED BY <1>1, <1>2, <1>3, <1>4, <1>5, <1>6

LEMMA PipelineReports ==
    ASSUME PipelineInv, [Next]_vars
    PROVE  ReportsSound' /\ FinalTraced'
<1> USE DEF early, late
<1>0. ReportsSound /\ FinalTraced
  BY DEF PipelineInv
<1> DEFINE Hidden(r) == r # None => Shown(r.findings) \cap Protected(r.profile) = {}
           Audited == audit # None =>
              LET a == audit.answer IN
              /\ \A k \in {"goals", "facets", "flags"} : \A x \in ToSet(a[k]) :
                    x.text \cap Protected(audit.trace.profile) = {}
              /\ a.text \cap Protected(audit.trace.profile) = {}
              /\ \A b \in Answers : SaidAlike(a, b) => SafeAudit(a) = SafeAudit(b)
<1>1. NothingPrivateShown <=> Hidden(report) /\ Hidden(final) /\ Audited
  BY DEF NothingPrivateShown
<1>2. CASE ValidateDraft
  <2>1. report' = Report(draft) /\ UNCHANGED <<final, audit>>
    BY <1>2 DEF ValidateDraft
  <2>2. Hidden(report')
    BY <2>1, ReportClean, CleanShowsNothing
  <2> QED BY <2>1, <2>2, <1>0, <1>1
          DEF ReportsSound, NothingPrivateShown, OpenGateIsSound, AuditIsComplete, FinalTraced
<1>3. CASE ValidateFinal
  <2>1. final' = FinalReport(repair.guide) /\ UNCHANGED <<report, audit>>
    BY <1>3 DEF ValidateFinal
  <2>2. Hidden(final')
    BY <2>1, FinalReportClean, CleanShowsNothing
  <2>3. OpenGateIsSound'
    BY <2>1, FinalGateSound DEF OpenGateIsSound, SoundGate
  <2>4. FinalTraced'
    BY <2>1, FinalReportClean DEF FinalTraced
  <2> QED BY <2>1, <2>2, <2>3, <2>4, <1>0, <1>1
          DEF ReportsSound, NothingPrivateShown, AuditIsComplete
<1>4. ASSUME NEW a \in Answers, ApproveAudit(a) PROVE ReportsSound' /\ FinalTraced'
  <2> DEFINE g == final.guide
             p == final.profile
  <2>1. /\ audit' = [answer |-> a, trace |-> final.trace] /\ UNCHANGED <<report, final>>
        /\ final # None /\ g = repair.guide /\ p = profile /\ final.trace # NoTrace
        /\ AnswerFits(a, g, final.trace, Protected(p))
    BY <1>4 DEF ApproveAudit, Of
  <2>2. /\ final.trace.guide = g /\ final.trace.profile = p
        /\ final.trace.facets = p.facets /\ DOMAIN final.trace.goals = Goals(p)
    <3>1. final.trace = Trace(g, p)
      BY <1>0, <2>1 DEF FinalTraced
    <3> QED BY <2>1, <3>1 DEF Trace, GoalIndex
  <2>3. audit'.answer = a /\ audit'.trace = final.trace
    BY <2>1
  <2>4. Audited'
    <3>1. /\ \A x \in ToSet(a.goals) : x.text \cap Protected(p) = {}
          /\ \A x \in ToSet(a.facets) : x.text \cap Protected(p) = {}
          /\ \A x \in ToSet(a.flags) : x.text \cap Protected(p) = {}
          /\ a.text \cap Protected(p) = {}
      BY <2>1 DEF AnswerFits, AssessmentsFit, FlagsFit
    <3> QED BY <3>1, <2>2, <2>3, SaidAlikeAuditsAlike
  <2>5. AuditIsComplete'
    <3>1. /\ ToSet(Ids(a.goals)) = Goals(p) /\ ToSet(Ids(a.facets)) = p.facets
          /\ \A x \in ToSet(a.goals) \cup ToSet(a.facets) : AssessmentFits(x, g)
      BY <2>1, <2>2 DEF AnswerFits, AssessmentsFit
    <3>2. ASSUME NEW x \in ToSet(a.goals) \cup ToSet(a.facets)
          PROVE  /\ x.verdict # "missing" => x.evidence # <<>>
                 /\ \A r \in ToSet(x.evidence) :
                       r.id \in ToSet(Ids(g.outcomes)) \cup ToSet(Ids(g.modules))
      <4>1. AssessmentFits(x, g)
        BY <3>1, <3>2
      <4>2. ASSUME NEW r \in Locations(g), r.kind \in {"module", "outcome"}
            PROVE  r.id \in ToSet(Ids(g.outcomes)) \cup ToSet(Ids(g.modules))
        <5>1. \/ \E o \in ToSet(g.outcomes) : r.id = o.id
              \/ \E m \in ToSet(g.modules) : r.id = m.id
          BY <4>2 DEF Locations, Reference
        <5> QED BY <5>1 DEF ToSet, Ids
      <4> QED BY <4>1, <4>2 DEF AssessmentFits
    <3> QED BY <3>1, <3>2, <2>2, <2>3 DEF AuditIsComplete
  <2> QED BY <2>1, <2>4, <2>5, <1>0, <1>1
          DEF ReportsSound, NothingPrivateShown, OpenGateIsSound, FinalTraced
<1>5. ASSUME UNCHANGED <<report, final, audit>> PROVE ReportsSound' /\ FinalTraced'
  BY <1>0, <1>5
  DEF ReportsSound, NothingPrivateShown, OpenGateIsSound, AuditIsComplete, FinalTraced
<1>6. \/ ValidateDraft \/ ValidateFinal
      \/ \E a \in Answers : ApproveAudit(a)
      \/ UNCHANGED <<report, final, audit>>
  BY DEF Next, vars, ApproveSpec, ApproveOutline, WriteDraftPrompt, AttachProfile, AssembleDraft,
         AnswerDraft, ApproveDraft, Review, WriteRepairPrompt, ApproveRepair
<1> QED BY <1>2, <1>3, <1>4, <1>5, <1>6

LEMMA PipelineStarts == Init => PipelineInv
BY PipelineAssumption
DEF Init, PipelineInv, GuideInv, TypeOK, Documents, ContractClosed, OneVersion, ReportsSound,
    NothingPrivateShown, OpenGateIsSound, AuditIsComplete, SpecOfRun, FinalTraced

LEMMA PipelineHolds == Spec => []PipelineInv
<1>1. PipelineInv /\ [Next]_vars => PipelineInv'
  BY PipelineTyped, PipelineOneVersion, PipelineReports DEF PipelineInv, GuideInv
<1> QED BY <1>1, PipelineStarts, PTL DEF Spec

\* The documents of a run keep their shape, its contract is closed and its
\* guides are of its version, whichever of them is approved anew.
THEOREM DocumentsFit == Spec => []GuideInv
<1>1. PipelineInv => GuideInv
  BY DEF PipelineInv
<1> QED BY <1>1, PipelineHolds, PTL

\* A report shows no protected word and an open gate means what it says, for
\* any guide and any answer: what does not parse and is not blocked has no
\* defect but over-long texts, and what parses publishes no protected word in
\* any id or text, those inside a diagram among them (validate_guide,
\* _text_fields, parse_audit_response).
THEOREM ReportsAreSound == Spec => []ReportsSound
<1>1. PipelineInv => ReportsSound
  BY DEF PipelineInv
<1> QED BY <1>1, PipelineHolds, PTL

\* A scoped repair parses and changes nothing outside of its scope, whatever
\* fragment was answered and whatever was approved since its prompt.
THEOREM RepairsAreLocal == Spec => RepairIsLocal
<1>1. ASSUME [Next]_vars, repair' # repair, RepairScope # Whole
      PROVE  /\ Parses(repair'.guide)
             /\ Outside(repair'.guide, RepairScope) = Outside(prompt.draft, RepairScope)
  <2>1. PICK text : ApproveRepair(text)
    BY <1>1
    DEF Next, vars, early, late, ApproveSpec, ApproveOutline, WriteDraftPrompt, AttachProfile,
        AssembleDraft, AnswerDraft, ApproveDraft, ValidateDraft, Review, WriteRepairPrompt,
        ValidateFinal, ApproveAudit
  <2>2. ApproveScoped(text)
    BY <2>1, <1>1 DEF ApproveRepair, ApproveWhole
  <2>3. /\ draft = prompt.draft /\ Spliced(draft, RepairScope, text).ok
        /\ repair'.guide = Spliced(draft, RepairScope, text).guide
    BY <2>2 DEF ApproveScoped, BaseStands
  <2> QED BY <2>3, SplicedParses
<1>2. [Next]_vars =>
        [repair' /= repair /\ RepairScope /= Whole =>
           /\ Parses(repair'.guide)
           /\ Outside(repair'.guide, RepairScope) = Outside(prompt.draft, RepairScope)]_vars
  BY <1>1
<1> QED BY <1>2, PTL DEF Spec, RepairIsLocal

-----------------------------------------------------------------------------
\* Assembly. A walk over entries or modules is a recursive function: what
\* holds of it is proved by the least prefix of which it would not hold.

LEMMA LeastOf ==
    ASSUME NEW T, T \subseteq Nat, T # {}
    PROVE  \E x \in T : \A y \in T : x <= y
<1> DEFINE R == {p \in Nat \X Nat : p[1] < p[2]}
<1>1. IsWellFoundedOn(R, Nat)
  BY NatLessThanWellFounded DEF OpToRel
<1>2. \A x, y \in Nat : y < x => <<y, x>> \in R
  BY DEF R
<1> HIDE DEF R
<1>3. PICK x \in T : \A y \in T : ~ (<<y, x>> \in R)
  BY <1>1, WFMin
<1>4. ASSUME NEW y \in T PROVE x <= y
  <2>1. x \in Nat /\ y \in Nat /\ ~ (y < x)
    BY <1>2, <1>3
  <2> QED BY <2>1
<1> QED BY <1>4

\* Induction over the prefixes of a list of n entries.
LEMMA EveryPrefix ==
    ASSUME NEW n \in Nat, NEW G, 0 \in G,
           \A k \in 0..n : k > 0 /\ k - 1 \in G => k \in G
    PROVE  0..n \subseteq G
<1> DEFINE T == (0..n) \ G
<1>1. SUFFICES ASSUME T # {} PROVE FALSE
  OBVIOUS
<1>2. PICK x \in T : \A y \in T : x <= y
  <2>1. T \subseteq Nat
    OBVIOUS
  <2> HIDE DEF T
  <2> QED BY <1>1, <2>1, LeastOf
<1>3. x > 0 /\ x \in 0..n /\ x - 1 \in 0..n /\ x - 1 \notin T
  BY <1>2
<1> QED BY <1>2, <1>3

\* The recursive definition of a walk over entries has a solution.
LEMMA ContributedDef ==
    ASSUME NEW walk, NEW key, NEW by, NEW entries, Len(entries) \in Nat
    PROVE  Contributed(walk, key, by, entries) =
               [n \in 0 .. Len(entries) |->
                   IF n = 0 THEN walk
                   ELSE Contribute(Contributed(walk, key, by, entries)[n - 1], key, by, entries[n])]
<1> DEFINE Step(w, n) == Contribute(w, key, by, entries[n])
           Solves(g, k) == g = [n \in 0..k |-> IF n = 0 THEN walk ELSE Step(g[n - 1], n)]
           G == {k \in Nat : \E g : Solves(g, k)}
<1>1. 0 \in G
  <2> DEFINE g == [n \in 0..0 |-> walk]
  <2>1. Solves(g, 0)
    OBVIOUS
  <2> QED BY <2>1
<1>2. ASSUME NEW k \in 0 .. Len(entries), k > 0, k - 1 \in G
      PROVE  k \in G
  <2>1. PICK g : Solves(g, k - 1)
    BY <1>2
  <2> DEFINE h == [n \in 0..k |-> IF n = k THEN Step(g[k - 1], k) ELSE g[n]]
  <2> HIDE DEF Step
  <2>2. \A n \in 0..k : h[n] = IF n = 0 THEN walk ELSE Step(h[n - 1], n)
    <3> TAKE n \in 0..k
    <3>1. CASE n = k
      BY <1>2, <3>1
    <3>2. CASE n # k
      <4>1. n \in 0..(k - 1)
        BY <1>2, <3>2
      <4>2. h[n] = g[n] /\ (n # 0 => h[n - 1] = g[n - 1])
        BY <1>2, <4>1
      <4> QED BY <2>1, <4>1, <4>2
    <3> QED BY <3>1, <3>2
  <2>3. Solves(h, k)
    BY <2>2
  <2> HIDE DEF h, Solves
  <2> QED BY <1>2, <2>3
<1>3. \E g : Solves(g, Len(entries))
  <2> HIDE DEF G
  <2>1. 0 .. Len(entries) \subseteq G
    BY <1>1, <1>2, EveryPrefix
  <2> USE DEF G
  <2> QED BY <2>1
<1> QED BY <1>3 DEF Contributed

LEMMA TakenDef ==
    ASSUME NEW start, NEW fragments, NEW order, Len(order) \in Nat
    PROVE  Taken(start, fragments, order) =
               [n \in 0 .. Len(order) |->
                   IF n = 0 THEN start
                   ELSE TakeModule(Taken(start, fragments, order)[n - 1], order[n],
                                   fragments[order[n]])]
<1> DEFINE Step(w, n) == TakeModule(w, order[n], fragments[order[n]])
           Solves(g, k) == g = [n \in 0..k |-> IF n = 0 THEN start ELSE Step(g[n - 1], n)]
           G == {k \in Nat : \E g : Solves(g, k)}
<1>1. 0 \in G
  <2> DEFINE g == [n \in 0..0 |-> start]
  <2>1. Solves(g, 0)
    OBVIOUS
  <2> QED BY <2>1
<1>2. ASSUME NEW k \in 0 .. Len(order), k > 0, k - 1 \in G
      PROVE  k \in G
  <2>1. PICK g : Solves(g, k - 1)
    BY <1>2
  <2> DEFINE h == [n \in 0..k |-> IF n = k THEN Step(g[k - 1], k) ELSE g[n]]
  <2> HIDE DEF Step
  <2>2. \A n \in 0..k : h[n] = IF n = 0 THEN start ELSE Step(h[n - 1], n)
    <3> TAKE n \in 0..k
    <3>1. CASE n = k
      BY <1>2, <3>1
    <3>2. CASE n # k
      <4>1. n \in 0..(k - 1)
        BY <1>2, <3>2
      <4>2. h[n] = g[n] /\ (n # 0 => h[n - 1] = g[n - 1])
        BY <1>2, <4>1
      <4> QED BY <2>1, <4>1, <4>2
    <3> QED BY <3>1, <3>2
  <2>3. Solves(h, k)
    BY <2>2
  <2> HIDE DEF h, Solves
  <2> QED BY <1>2, <2>3
<1>3. \E g : Solves(g, Len(order))
  <2> HIDE DEF G
  <2>1. 0 .. Len(order) \subseteq G
    BY <1>1, <1>2, EveryPrefix
  <2> USE DEF G
  <2> QED BY <2>1
<1> QED BY <1>3 DEF Taken

\* What a walk always is, over the entries E: while it is not refused, each
\* entry that it knows of is in its list.
WalkFields == {"owners", "given", "lists", "modules", "refused", "blamed"}

WalkOk(w, E) ==
    /\ DOMAIN w = WalkFields
    /\ w.refused \in BOOLEAN
    /\ w.lists \in [Lists -> Seq(E)]
    /\ \A c \in w.given : c.key \in Lists /\ c.entry \in ToSet(w.lists[c.key])

\* A walk that was not refused is behind v, with no entry more than v has.
Grows(v, w) ==
    ~ v.refused =>
        /\ ~ w.refused
        /\ v.modules = w.modules
        /\ \A key \in Lists : ToSet(w.lists[key]) \subseteq ToSet(v.lists[key])

LEMMA AppendToSet ==
    ASSUME NEW E, NEW s \in Seq(E), NEW e \in E
    PROVE  /\ Append(s, e) \in Seq(E)
           /\ ToSet(s) \subseteq ToSet(Append(s, e)) /\ e \in ToSet(Append(s, e))
<1>1. /\ Append(s, e) \in Seq(E) /\ Len(Append(s, e)) = Len(s) + 1 /\ Len(s) \in Nat
      /\ DOMAIN s = 1 .. Len(s) /\ DOMAIN Append(s, e) = 1 .. Len(s) + 1
  OBVIOUS
<1>2. \A i \in 1 .. Len(s) : Append(s, e)[i] = s[i]
  OBVIOUS
<1>3. Append(s, e)[Len(s) + 1] = e
  OBVIOUS
<1> QED BY <1>1, <1>2, <1>3 DEF ToSet

LEMMA ContributeKeeps ==
    ASSUME NEW E, NEW w, WalkOk(w, E), NEW key \in Lists, NEW by, NEW entry \in E
    PROVE  LET v == Contribute(w, key, by, entry) IN
           /\ WalkOk(v, E) /\ Grows(v, w)
           /\ ~ v.refused => entry \in ToSet(v.lists[key])
<1> DEFINE v == Contribute(w, key, by, entry)
           earlier == {c \in w.given : c.entry.id = entry.id}
<1>1. CASE w.refused
  <2>1. v = w
    BY <1>1 DEF Contribute
  <2> QED BY <1>1, <2>1 DEF Grows
<1>2. CASE ~ w.refused /\ earlier = {}
  <2> DEFINE new == [key |-> key, by |-> by, entry |-> entry]
             lists == [w.lists EXCEPT ![key] = Append(@, entry)]
  <2>1. v = [w EXCEPT !.lists = lists, !.given = @ \cup {new}]
    BY <1>2 DEF Contribute
  <2>2. /\ DOMAIN v = WalkFields /\ v.refused = w.refused /\ v.modules = w.modules
        /\ v.lists = lists /\ v.given = w.given \cup {new}
    BY <2>1 DEF WalkOk, WalkFields
  <2>3. w.lists[key] \in Seq(E) /\ w.lists \in [Lists -> Seq(E)]
    BY DEF WalkOk
  <2>4. lists \in [Lists -> Seq(E)]
    BY <2>3, AppendToSet
  <2>5. entry \in ToSet(lists[key]) /\ \A k \in Lists : ToSet(w.lists[k]) \subseteq ToSet(lists[k])
    <3>1. lists[key] = Append(w.lists[key], entry)
      BY <2>3
    <3>2. \A k \in Lists : k # key => lists[k] = w.lists[k]
      BY <2>3
    <3> QED BY <2>3, <3>1, <3>2, AppendToSet
  <2> HIDE DEF v, lists
  <2>6. \A c \in v.given : c.key \in Lists /\ c.entry \in ToSet(v.lists[c.key])
    <3> SUFFICES ASSUME NEW c \in v.given
                 PROVE  c.key \in Lists /\ c.entry \in ToSet(v.lists[c.key])
      OBVIOUS
    <3>1. CASE c \in w.given
      BY <2>2, <2>5, <3>1 DEF WalkOk
    <3>2. CASE c = new
      BY <2>2, <2>5, <3>2
    <3> QED BY <2>2, <3>1, <3>2
  <2>7. WalkOk(v, E)
    BY <2>2, <2>4, <2>6 DEF WalkOk
  <2>8. Grows(v, w)
    BY <1>2, <2>2, <2>5 DEF Grows
  <2>9. v.lists = lists
    BY <2>2
  <2> QED BY <2>5, <2>7, <2>8, <2>9 DEF v
<1>3. CASE ~ w.refused /\ earlier # {} /\ \E c \in earlier : c.key = key /\ c.entry = entry
  <2>1. v = w
    BY <1>3 DEF Contribute
  <2>2. entry \in ToSet(w.lists[key])
    BY <1>3 DEF WalkOk
  <2> QED BY <1>3, <2>1, <2>2 DEF Grows
<1>4. CASE ~ w.refused /\ earlier # {} /\ ~ \E c \in earlier : c.key = key /\ c.entry = entry
  <2>1. PICK blamed : v = Stopped(w, blamed)
    BY <1>4 DEF Contribute
  <2>2. /\ DOMAIN v = WalkFields /\ v.refused = TRUE
        /\ v.lists = w.lists /\ v.given = w.given
    BY <2>1 DEF Stopped, WalkOk, WalkFields
  <2> HIDE DEF v
  <2>3. WalkOk(v, E) /\ Grows(v, w)
    BY <2>2 DEF WalkOk, Grows
  <2> QED BY <2>2, <2>3 DEF v
<1> QED BY <1>1, <1>2, <1>3, <1>4

LEMMA ContributedKeeps ==
    ASSUME NEW E, NEW w, WalkOk(w, E), NEW key \in Lists, NEW by, NEW entries \in Seq(E)
    PROVE  LET v == Contributed(w, key, by, entries)[Len(entries)] IN
           /\ WalkOk(v, E) /\ Grows(v, w)
           /\ ~ v.refused => ToSet(entries) \subseteq ToSet(v.lists[key])
<1> DEFINE after == Contributed(w, key, by, entries)
           Fine(n) == /\ WalkOk(after[n], E) /\ Grows(after[n], w)
                      /\ ~ after[n].refused =>
                            \A i \in 1..n : entries[i] \in ToSet(after[n].lists[key])
           G == {n \in 0 .. Len(entries) : Fine(n)}
<1>1. Len(entries) \in Nat /\ DOMAIN entries = 1 .. Len(entries)
  OBVIOUS
<1>2. \A n \in 0 .. Len(entries) :
         after[n] = IF n = 0 THEN w ELSE Contribute(after[n - 1], key, by, entries[n])
  <2>1. after = [n \in 0 .. Len(entries) |->
                   IF n = 0 THEN w ELSE Contribute(after[n - 1], key, by, entries[n])]
    BY <1>1, ContributedDef
  <2> HIDE DEF after
  <2> QED BY <2>1
<1> HIDE DEF after
<1>3. 0 \in G
  <2>1. after[0] = w
    BY <1>1, <1>2
  <2>2. Fine(0)
    BY <2>1 DEF Grows
  <2> QED BY <1>1, <2>2
<1>4. ASSUME NEW k \in 0 .. Len(entries), k > 0, k - 1 \in G
      PROVE  k \in G
  <2> DEFINE u == after[k - 1]
             v == Contribute(u, key, by, entries[k])
  <2>1. after[k] = v
    BY <1>1, <1>2, <1>4
  <2>2. WalkOk(u, E) /\ Grows(u, w) /\ Fine(k - 1) /\ entries[k] \in E
    BY <1>1, <1>4
  <2> HIDE DEF u
  <2>3. /\ WalkOk(v, E) /\ Grows(v, u)
        /\ ~ v.refused => entries[k] \in ToSet(v.lists[key])
    BY <2>2, ContributeKeeps
  <2> HIDE DEF v
  <2>4. Grows(v, w)
    BY <2>2, <2>3 DEF Grows
  <2>5. ASSUME ~ v.refused, NEW i \in 1..k
        PROVE  entries[i] \in ToSet(v.lists[key])
    <3>1. CASE i = k
      BY <2>3, <2>5, <3>1
    <3>2. CASE i # k
      <4>1. i \in 1 .. k - 1
        BY <1>4, <3>2
      <4>2. ~ u.refused /\ ToSet(u.lists[key]) \subseteq ToSet(v.lists[key])
        BY <2>3, <2>5 DEF Grows
      <4>3. entries[i] \in ToSet(u.lists[key])
        BY <2>2, <4>1, <4>2 DEF u
      <4> QED BY <4>2, <4>3
    <3> QED BY <3>1, <3>2
  <2>6. Fine(k)
    BY <2>1, <2>3, <2>4, <2>5
  <2> HIDE DEF Fine
  <2> QED BY <2>6
<1>5. Fine(Len(entries))
  <2> HIDE DEF G
  <2>1. 0 .. Len(entries) \subseteq G
    BY <1>1, <1>3, <1>4, EveryPrefix
  <2> USE DEF G
  <2> HIDE DEF Fine
  <2> QED BY <1>1, <2>1
<1>6. ~ after[Len(entries)].refused =>
         ToSet(entries) \subseteq ToSet(after[Len(entries)].lists[key])
  BY <1>1, <1>5 DEF ToSet
<1> QED BY <1>5, <1>6 DEF after

\* A module whose lists are of entries of E.
GivesOf(m, E) == DOMAIN m.gives \subseteq Lists /\ \A key \in DOMAIN m.gives : m.gives[key] \in Seq(E)

LEMMA GiveKeeps ==
    ASSUME NEW E, NEW w, WalkOk(w, E), NEW m, GivesOf(m, E), NEW key \in Lists
    PROVE  LET v == Give(w, m, key) IN
           /\ WalkOk(v, E) /\ Grows(v, w)
           /\ ~ v.refused /\ key \in DOMAIN m.gives => ToSet(m.gives[key]) \subseteq ToSet(v.lists[key])
<1> DEFINE v == Give(w, m, key)
<1>1. CASE key \notin DOMAIN m.gives
  <2>1. v = w
    BY <1>1 DEF Give
  <2> QED BY <1>1, <2>1 DEF Grows
<1>2. CASE key \in DOMAIN m.gives
  <2>1. m.gives[key] \in Seq(E)
    BY <1>2 DEF GivesOf
  <2>2. v = Contributed(w, key, m.id, m.gives[key])[Len(m.gives[key])]
    BY <1>2 DEF Give
  <2>3. /\ WalkOk(v, E) /\ Grows(v, w)
        /\ ~ v.refused => ToSet(m.gives[key]) \subseteq ToSet(v.lists[key])
    BY <2>1, <2>2, ContributedKeeps
  <2> QED BY <2>3
<1> QED BY <1>1, <1>2

Body(m) == [m EXCEPT !.gives = <<>>]

\* v is the walk w with the module m of the id mid.
Took(v, w, mid, m) ==
    /\ ~ w.refused
    /\ m.kind = "module" /\ m.id = mid
    /\ v.modules = Append(w.modules, Body(m))
    /\ \A key \in Lists : ToSet(w.lists[key]) \subseteq ToSet(v.lists[key])
    /\ \A key \in DOMAIN m.gives : ToSet(m.gives[key]) \subseteq ToSet(v.lists[key])

LEMMA TakeModuleKeeps ==
    ASSUME NEW E, NEW w, WalkOk(w, E), NEW mid, NEW m, m.kind = "module" => GivesOf(m, E)
    PROVE  LET v == TakeModule(w, mid, m) IN
           /\ WalkOk(v, E)
           /\ ~ v.refused => Took(v, w, mid, m)
<1> DEFINE v == TakeModule(w, mid, m)
<1>1. CASE w.refused
  <2>1. v = w
    BY <1>1 DEF TakeModule
  <2> QED BY <1>1, <2>1
<1>2. CASE /\ ~ w.refused
           /\ \/ ~ FragmentFits(m, "module", mid) \/ m.kind # "module"
              \/ Clashes(w.owners, Body(m)) # {}
  <2>1. PICK blamed : v = Stopped(w, blamed)
    BY <1>2 DEF TakeModule, Body
  <2>2. /\ DOMAIN v = WalkFields /\ v.refused = TRUE
        /\ v.lists = w.lists /\ v.given = w.given
    BY <2>1 DEF Stopped, WalkOk, WalkFields
  <2> HIDE DEF v
  <2>3. WalkOk(v, E)
    BY <2>2 DEF WalkOk
  <2> QED BY <2>2, <2>3 DEF v
<1>3. CASE /\ ~ w.refused
           /\ FragmentFits(m, "module", mid) /\ m.kind = "module"
           /\ Clashes(w.owners, Body(m)) = {}
  <2> DEFINE ids == {[id |-> i, by |-> mid] : i \in ToSet(AllIds(Body(m)))}
             own == [w EXCEPT !.owners = @ \cup ids, !.modules = Append(@, Body(m))]
             u == Give(own, m, "glossary")
  <2>1. v = Give(u, m, "sources")
    BY <1>3 DEF TakeModule, Body
  <2>2. /\ DOMAIN own = WalkFields /\ own.refused = w.refused
        /\ own.lists = w.lists /\ own.given = w.given
        /\ own.modules = Append(w.modules, Body(m))
    BY DEF WalkOk, WalkFields
  <2> HIDE DEF own
  <2>3. WalkOk(own, E) /\ GivesOf(m, E)
    BY <1>3, <2>2 DEF WalkOk
  <2>4. "glossary" \in Lists /\ "sources" \in Lists
    BY DEF Lists
  <2>5. /\ WalkOk(u, E) /\ Grows(u, own)
        /\ ~ u.refused /\ "glossary" \in DOMAIN m.gives =>
              ToSet(m.gives["glossary"]) \subseteq ToSet(u.lists["glossary"])
    BY <2>3, <2>4, GiveKeeps
  <2> HIDE DEF u
  <2>6. /\ WalkOk(v, E) /\ Grows(v, u)
        /\ ~ v.refused /\ "sources" \in DOMAIN m.gives =>
              ToSet(m.gives["sources"]) \subseteq ToSet(v.lists["sources"])
    BY <2>1, <2>3, <2>4, <2>5, GiveKeeps
  <2> HIDE DEF v
  <2>7. ASSUME ~ v.refused PROVE Took(v, w, mid, m)
    <3>1. /\ ~ u.refused /\ v.modules = u.modules
          /\ \A key \in Lists : ToSet(u.lists[key]) \subseteq ToSet(v.lists[key])
      BY <2>6, <2>7 DEF Grows
    <3>2. /\ u.modules = own.modules
          /\ \A key \in Lists : ToSet(own.lists[key]) \subseteq ToSet(u.lists[key])
      BY <2>5, <3>1 DEF Grows
    <3>3. ASSUME NEW key \in DOMAIN m.gives
          PROVE  ToSet(m.gives[key]) \subseteq ToSet(v.lists[key])
      <4>1. key \in Lists
        BY <2>3 DEF GivesOf
      <4>2. CASE key = "glossary"
        BY <2>4, <2>5, <3>1, <4>2
      <4>3. CASE key = "sources"
        BY <2>6, <2>7, <4>3
      <4> QED BY <4>1, <4>2, <4>3 DEF Lists
    <3> QED BY <1>3, <2>2, <3>1, <3>2, <3>3 DEF Took, FragmentFits
  <2> QED BY <2>6, <2>7 DEF v
<1> QED BY <1>1, <1>2, <1>3

\* The modules of the order, taken one after the other.
AllTaken(w, fragments, order, n) ==
    /\ w.modules \in Seq({Body(fragments[order[i]]) : i \in 1 .. Len(order)})
    /\ Len(w.modules) = n
    /\ \A i \in 1..n :
          LET m == fragments[order[i]] IN
          /\ w.modules[i] = Body(m) /\ m.kind = "module" /\ m.id = order[i]
          /\ \A key \in DOMAIN m.gives : ToSet(m.gives[key]) \subseteq ToSet(w.lists[key])

LEMMA TakenKeeps ==
    ASSUME NEW E, NEW start, WalkOk(start, E), start.modules = <<>>,
           NEW fragments, NEW order, Len(order) \in Nat,
           \A i \in 1 .. Len(order) : LET m == fragments[order[i]] IN
               m.kind = "module" => GivesOf(m, E)
    PROVE  LET v == Taken(start, fragments, order)[Len(order)] IN
           ~ v.refused => WalkOk(v, E) /\ AllTaken(v, fragments, order, Len(order))
<1> DEFINE after == Taken(start, fragments, order)
           Fine(n) == /\ WalkOk(after[n], E)
                      /\ ~ after[n].refused => AllTaken(after[n], fragments, order, n)
           G == {n \in 0 .. Len(order) : Fine(n)}
<1>1. \A n \in 0 .. Len(order) :
         after[n] = IF n = 0 THEN start
                    ELSE TakeModule(after[n - 1], order[n], fragments[order[n]])
  <2>1. after = [n \in 0 .. Len(order) |->
                   IF n = 0 THEN start
                   ELSE TakeModule(after[n - 1], order[n], fragments[order[n]])]
    BY TakenDef
  <2> HIDE DEF after
  <2> QED BY <2>1
<1> HIDE DEF after
<1>2. 0 \in G
  <2>1. after[0] = start
    BY <1>1
  <2>2. AllTaken(start, fragments, order, 0)
    <3>1. start.modules \in Seq({Body(fragments[order[i]]) : i \in 1 .. Len(order)})
      OBVIOUS
    <3>2. Len(start.modules) = 0 /\ 1..0 = {}
      OBVIOUS
    <3> QED BY <3>1, <3>2 DEF AllTaken
  <2>3. Fine(0)
    BY <2>1, <2>2
  <2> HIDE DEF Fine
  <2> QED BY <2>3
<1>3. ASSUME NEW k \in 0 .. Len(order), k > 0, k - 1 \in G
      PROVE  k \in G
  <2> DEFINE u == after[k - 1]
             m == fragments[order[k]]
             v == TakeModule(u, order[k], m)
             B == {Body(fragments[order[i]]) : i \in 1 .. Len(order)}
  <2>1. after[k] = v
    BY <1>1, <1>3
  <2>2. /\ WalkOk(u, E) /\ k \in 1 .. Len(order) /\ k - 1 \in Nat
        /\ ~ u.refused => AllTaken(u, fragments, order, k - 1)
    BY <1>3
  <2>3. m.kind = "module" => GivesOf(m, E)
    BY <2>2
  <2> HIDE DEF u
  <2>4. WalkOk(v, E) /\ (~ v.refused => Took(v, u, order[k], m))
    BY <2>2, <2>3, TakeModuleKeeps
  <2> HIDE DEF v
  <2>5. ASSUME ~ v.refused PROVE AllTaken(v, fragments, order, k)
    <3>1. Took(v, u, order[k], m) /\ AllTaken(u, fragments, order, k - 1)
      BY <2>2, <2>4, <2>5 DEF Took
    <3>2. Body(m) \in B /\ u.modules \in Seq(B) /\ Len(u.modules) = k - 1
      BY <2>2, <3>1 DEF AllTaken
    <3>3. v.modules = Append(u.modules, Body(m))
      BY <3>1 DEF Took
    <3>4. /\ v.modules \in Seq(B) /\ Len(v.modules) = k /\ v.modules[k] = Body(m)
          /\ \A i \in 1 .. k - 1 : v.modules[i] = u.modules[i]
      <4> HIDE DEF B, m
      <4> QED BY <2>2, <3>2, <3>3
    <3>5. ASSUME NEW i \in 1..k
          PROVE  LET x == fragments[order[i]] IN
                 /\ v.modules[i] = Body(x) /\ x.kind = "module" /\ x.id = order[i]
                 /\ \A key \in DOMAIN x.gives : ToSet(x.gives[key]) \subseteq ToSet(v.lists[key])
      <4>1. CASE i = k
        BY <3>1, <3>4, <4>1 DEF Took
      <4>2. CASE i # k
        <5> DEFINE x == fragments[order[i]]
        <5>1. i \in 1 .. k - 1 /\ i \in 1 .. Len(order)
          BY <2>2, <4>2
        <5>2. /\ u.modules[i] = Body(x) /\ x.kind = "module" /\ x.id = order[i]
              /\ \A key \in DOMAIN x.gives : ToSet(x.gives[key]) \subseteq ToSet(u.lists[key])
          BY <3>1, <5>1 DEF AllTaken
        <5>3. DOMAIN x.gives \subseteq Lists
          BY <5>1, <5>2 DEF GivesOf
        <5> HIDE DEF x
        <5>4. \A key \in DOMAIN x.gives : ToSet(x.gives[key]) \subseteq ToSet(v.lists[key])
          BY <3>1, <5>2, <5>3 DEF Took
        <5>5. v.modules[i] = Body(x)
          BY <3>4, <5>1, <5>2
        <5> QED BY <5>2, <5>4, <5>5 DEF x
      <4> QED BY <4>1, <4>2
    <3> QED BY <3>4, <3>5 DEF AllTaken
  <2>6. Fine(k)
    BY <2>1, <2>4, <2>5
  <2> HIDE DEF Fine
  <2> QED BY <2>6
<1>4. Fine(Len(order))
  <2> HIDE DEF G
  <2>1. 0 .. Len(order) \subseteq G
    BY <1>2, <1>3, EveryPrefix
  <2> USE DEF G
  <2> HIDE DEF Fine
  <2> QED BY <2>1
<1> QED BY <1>4 DEF after

LEMMA ArrayOf ==
    ASSUME NEW s, IsArray(s), NEW E, ToSet(s) \subseteq E
    PROVE  s \in Seq(E)
<1>1. s \in Seq(ToSet(s)) /\ \A i \in 1 .. Len(s) : s[i] \in ToSet(s)
  BY DEF IsArray
<1> QED BY <1>1

LEMMA StartOk ==
    ASSUME NEW s, NEW E, \A key \in Lists : s[key] \in Seq(E)
    PROVE  WalkOk(Start(s), E) /\ Start(s).modules = <<>>
<1> DEFINE entries(key) == {[key |-> key, by |-> TheSkeleton, entry |-> e] : e \in ToSet(s[key])}
<1>1. /\ DOMAIN Start(s) = WalkFields /\ Start(s).refused = FALSE
      /\ Start(s).modules = <<>> /\ Start(s).lists = [key \in Lists |-> s[key]]
      /\ Start(s).given = UNION {entries(key) : key \in Lists}
  BY DEF Start, WalkFields
<1>2. ASSUME NEW c \in Start(s).given
      PROVE  c.key \in Lists /\ c.entry \in ToSet(Start(s).lists[c.key])
  <2>1. PICK key \in Lists : c \in entries(key)
    BY <1>1, <1>2
  <2>2. c.key = key /\ c.entry \in ToSet(s[key])
    BY <2>1
  <2> QED BY <1>1, <2>2
<1>3. Start(s).lists \in [Lists -> Seq(E)]
  BY <1>1
<1> QED BY <1>1, <1>2, <1>3 DEF WalkOk

LEMMA SkeletonShape ==
    ASSUME NEW g, NEW order, CheckSkeleton(g, order) = {}
    PROVE  g.kind = "guide" /\ DOMAIN g = Keys["guide"]
<1>1. Check(g, TRUE) = {}
  BY DEF CheckSkeleton
<1>2. g.kind # "text"
  BY <1>1 DEF Check
<1>3. Shaped(g, "guide")
  BY <1>1, <1>2 DEF Check, Errors
<1> QED BY <1>3 DEF Shaped

\* What an assembly that is not refused has.
LEMMA AssembledKeeps ==
    ASSUME NEW s, NEW I, NEW order \in Seq(I), NEW answers, DOMAIN answers = ToSet(order),
           s.kind = "guide" => \A key \in Lists : IsArray(s[key]),
           \A m \in DOMAIN answers : answers[m].kind = "module" => GivesLists(answers[m]),
           Assemble(s, answers, order).ok
    PROVE  LET g == Assemble(s, answers, order).guide IN
           /\ Parses(g)
           /\ Ids(g.modules) = order
           /\ \A m \in ToSet(g.modules) : [answers[m.id] EXCEPT !.gives = <<>>] = m
           /\ \A m \in DOMAIN answers : \A key \in DOMAIN answers[m].gives :
                 ToSet(answers[m].gives[key]) \subseteq ToSet(g[key])
<1> DEFINE n == Len(order)
           g == Assemble(s, answers, order).guide
           walk == Taken(Start(s), answers, order)[Len(order)]
           E == {e : e \in UNION {ToSet(s[key]) : key \in Lists}} \cup
                UNION {UNION {ToSet(answers[m].gives[key]) : key \in DOMAIN answers[m].gives} :
                          m \in DOMAIN answers}
<1>1. CheckSkeleton(s, order) = {}
  BY DEF Assemble, Refused
<1>2. s.kind = "guide" /\ DOMAIN s = Keys["guide"]
  BY <1>1, SkeletonShape
<1>3. ~ walk.refused
  BY <1>1 DEF Assemble, Refused
<1>4. g = [s EXCEPT !.modules = walk.modules, !.glossary = walk.lists["glossary"],
                    !.sources = walk.lists["sources"]]
  BY <1>1, <1>3 DEF Assemble, Merged, Refused
<1>5. Parses(g)
  BY AssembledParses
<1>6. g.modules = walk.modules /\ \A key \in Lists : g[key] = walk.lists[key]
  BY <1>2, <1>4 DEF Keys, Lists
<1>7. \A key \in Lists : s[key] \in Seq(E)
  <2> TAKE key \in Lists
  <2>1. IsArray(s[key]) /\ ToSet(s[key]) \subseteq E
    BY <1>2
  <2> HIDE DEF E
  <2> QED BY <2>1, ArrayOf
<1>8. \A i \in 1..n : order[i] \in DOMAIN answers
  BY DEF ToSet
<1>9. ASSUME NEW i \in 1..n, answers[order[i]].kind = "module"
      PROVE  GivesOf(answers[order[i]], E)
  <2> DEFINE m == answers[order[i]]
  <2>1. GivesLists(m) /\ \A key \in DOMAIN m.gives : ToSet(m.gives[key]) \subseteq E
    BY <1>8, <1>9
  <2> HIDE DEF E, m
  <2>2. \A key \in DOMAIN m.gives : m.gives[key] \in Seq(E)
    BY <2>1, ArrayOf DEF GivesLists
  <2> QED BY <2>1, <2>2 DEF GivesLists, GivesOf, m
<1> HIDE DEF E, g
<1>10. WalkOk(walk, E) /\ AllTaken(walk, answers, order, n)
  <2>1. WalkOk(Start(s), E) /\ Start(s).modules = <<>>
    BY <1>7, StartOk
  <2> QED BY <1>3, <1>9, <2>1, TakenKeeps
<1> HIDE DEF walk
<1>11. /\ walk.modules \in Seq({Body(answers[order[i]]) : i \in 1..n})
       /\ Len(walk.modules) = n /\ DOMAIN walk.modules = 1..n
       /\ \A i \in 1..n :
             LET m == answers[order[i]] IN
             /\ walk.modules[i] = Body(m) /\ m.kind = "module" /\ m.id = order[i]
             /\ \A key \in DOMAIN m.gives : ToSet(m.gives[key]) \subseteq ToSet(walk.lists[key])
  <2>1. walk.modules \in Seq({Body(answers[order[i]]) : i \in 1..n}) /\ Len(walk.modules) = n
    BY <1>10 DEF AllTaken
  <2>2. DOMAIN walk.modules = 1..n
    BY <2>1
  <2>3. \A i \in 1..n :
             LET m == answers[order[i]] IN
             /\ walk.modules[i] = Body(m) /\ m.kind = "module" /\ m.id = order[i]
             /\ \A key \in DOMAIN m.gives : ToSet(m.gives[key]) \subseteq ToSet(walk.lists[key])
    BY <1>10 DEF AllTaken
  <2> QED BY <2>1, <2>2, <2>3
<1>12. ASSUME NEW i \in 1..n PROVE walk.modules[i].id = order[i]
  <2> DEFINE m == answers[order[i]]
  <2>1. walk.modules[i] = Body(m) /\ m.id = order[i]
    BY <1>11
  <2>2. Shaped(g.modules[i], "module") /\ "id" \in Keys["module"]
    BY <1>5, <1>6, <1>11, ParsedShape DEF Keys, ElementKeys
  <2>3. "id" \in DOMAIN Body(m)
    BY <1>6, <2>1, <2>2 DEF Shaped
  <2>4. DOMAIN Body(m) = DOMAIN m /\ Body(m).id = m.id
    BY <2>3 DEF Body
  <2> QED BY <2>1, <2>4
<1>13. Ids(g.modules) = order
  <2>1. Ids(walk.modules) = [i \in 1..n |-> walk.modules[i].id]
    BY <1>11 DEF Ids
  <2>2. order = [i \in 1..n |-> order[i]]
    OBVIOUS
  <2> QED BY <1>6, <1>12, <2>1, <2>2
<1>14. ASSUME NEW m \in ToSet(g.modules) PROVE [answers[m.id] EXCEPT !.gives = <<>>] = m
  <2>1. PICK i \in 1..n : m = walk.modules[i]
    BY <1>6, <1>11, <1>14 DEF ToSet
  <2>2. m.id = order[i] /\ m = Body(answers[order[i]])
    BY <1>11, <1>12, <2>1
  <2> QED BY <2>2 DEF Body
<1>15. ASSUME NEW m \in DOMAIN answers, NEW key \in DOMAIN answers[m].gives
       PROVE  ToSet(answers[m].gives[key]) \subseteq ToSet(g[key])
  <2>1. PICK i \in 1..n : m = order[i]
    BY DEF ToSet
  <2>2. key \in Lists
    BY <1>9, <1>11, <2>1 DEF GivesOf
  <2> QED BY <1>6, <1>11, <2>1, <2>2
<1> QED BY <1>5, <1>13, <1>14, <1>15 DEF g

\* An assembled draft has every module of the outline, in its order and as it
\* was answered, and every entry that any of them gave, however the answers
\* repeat or contradict one another (assemble_guide).
THEOREM AssemblyKeepsEverything == Spec => AssemblyLosesNothing
<1> DEFINE Lossless ==
              drafted' /= drafted =>
                 \A s \in Skeletons, answers \in Saved :
                    AssembleDraft(s, answers) => Keeps(answers, drafted')
<1>1. ASSUME PipelineInv, NEW s \in Skeletons, NEW answers \in Saved, AssembleDraft(s, answers)
      PROVE  Keeps(answers, drafted')
  <2> DEFINE order == Ids(outline.modules)
             n == Len(outline.modules)
  <2>1. outline \in Outlines /\ answers \in [ToSet(order) -> Units]
    BY <1>1 DEF Saved, PipelineInv, GuideInv, TypeOK
  <2>2. outline.modules \in Seq(ToSet(outline.modules))
    BY <2>1, PipelineAssumption DEF IsArray
  <2>3. n \in Nat /\ DOMAIN outline.modules = 1..n
    BY <2>2
  <2>4. order = [i \in 1..n |-> outline.modules[i].id]
    BY <2>3 DEF Ids
  <2> HIDE DEF n
  <2>5. order \in Seq({outline.modules[i].id : i \in 1..n})
    BY <2>3, <2>4
  <2>6. s.kind = "guide" => \A key \in Lists : IsArray(s[key])
    BY PipelineAssumption
  <2>7. DOMAIN answers = ToSet(order)
    BY <2>1
  <2>8. \A m \in DOMAIN answers : answers[m].kind = "module" => GivesLists(answers[m])
    BY <2>1, PipelineAssumption
  <2>9. Assemble(s, answers, order).ok /\ drafted' = Assemble(s, answers, order).guide
    BY <1>1 DEF AssembleDraft
  <2> HIDE DEF order
  <2>10. LET g == drafted' IN
         /\ Parses(g)
         /\ Ids(g.modules) = order
         /\ \A m \in ToSet(g.modules) : [answers[m.id] EXCEPT !.gives = <<>>] = m
         /\ \A m \in DOMAIN answers : \A key \in DOMAIN answers[m].gives :
               ToSet(answers[m].gives[key]) \subseteq ToSet(g[key])
    BY <2>3, <2>5, <2>6, <2>7, <2>8, <2>9, AssembledKeeps
  <2> QED BY <2>10 DEF Keeps, order
<1>2. ASSUME PipelineInv PROVE Lossless
  BY <1>1, <1>2
<1> HIDE DEF Lossless
<1>3. PipelineInv /\ [Next]_vars => [Lossless]_vars
  BY <1>2
<1>4. Spec => [][Lossless]_vars
  BY <1>3, PipelineHolds, PTL DEF Spec
<1> QED BY <1>4 DEF AssemblyLosesNothing, Lossless

=============================================================================
