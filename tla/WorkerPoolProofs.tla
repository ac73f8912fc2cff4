-------------------------- MODULE WorkerPoolProofs --------------------------
(***************************************************************************)
(* Proofs about WorkerPool for every set of jobs, threads and clients and  *)
(* every number of deaths of the daemon.                                   *)
(***************************************************************************)
EXTENDS WorkerPoolInvariant, FiniteSetTheorems, SequenceTheorems, WellFoundedInduction, TLAPS

-----------------------------------------------------------------------------
\* Sequences.

\* A non-empty set of natural numbers has a least element.
LEMMA LeastElement ==
    ASSUME NEW I, I \subseteq Nat, I # {}
    PROVE  Min(I) \in I
<1> DEFINE R == OpToRel(<, Nat)
<1>1. IsWellFoundedOn(R, Nat)
  BY NatLessThanWellFounded
<1>2. ASSUME NEW x \in Nat, NEW y \in Nat, y < x
      PROVE  <<y, x>> \in R
  BY <1>2 DEF OpToRel
<1> HIDE DEF R
<1>3. PICK x \in I : \A y \in I : <<y, x>> \notin R
  BY <1>1, WFMin
<1>4. ASSUME NEW y \in I
      PROVE  x =< y
  <2>1. x \in Nat /\ y \in Nat
    OBVIOUS
  <2>2. ~ (y < x)
    BY <1>2, <1>3, <2>1
  <2> QED
    BY <2>1, <2>2
<1> QED
  BY <1>4 DEF Min

\* Dropping a job from the admission order leaves a sequence of jobs.
LEMMA RemoveFirstType ==
    ASSUME NEW S, NEW s \in Seq(S), NEW e
    PROVE  RemoveFirst(s, e) \in Seq(S)
<1>1. Len(s) \in Nat
  BY LenProperties
<1>2. CASE \E i \in 1..Len(s) : s[i] = e
  <2> DEFINE I == {i \in 1..Len(s) : s[i] = e}
  <2>1. RemoveFirst(s, e) = RemoveAt(s, Min(I))
    BY <1>2 DEF RemoveFirst, SelectInSeq
  <2>2. I \subseteq 1..Len(s) /\ I \subseteq Nat /\ I # {}
    BY <1>1, <1>2
  <2> HIDE DEF I
  <2>3. PICK k \in 1..Len(s) : k = Min(I)
    BY <2>2, LeastElement
  <2>4. SubSeq(s, 1, k - 1) \in Seq(S) /\ SubSeq(s, k + 1, Len(s)) \in Seq(S)
    <3>1. \A i \in 1..(k - 1) : s[i] \in S
      BY <1>1, <2>3, ElementOfSeq
    <3>2. \A i \in (k + 1)..Len(s) : s[i] \in S
      BY <1>1, <2>3, ElementOfSeq
    <3> QED
      BY <1>1, <2>3, <3>1, <3>2, SubSeqProperties
  <2> QED
    BY <2>1, <2>3, <2>4, ConcatProperties DEF RemoveAt
<1>3. CASE ~ \E i \in 1..Len(s) : s[i] = e
  BY <1>3 DEF RemoveFirst
<1> QED
  BY <1>2, <1>3

\* Removing a job keeps the order of the others, and leaves none of it behind
\* where no job was there twice.
LEMMA RemoveFirstOrder ==
    ASSUME NEW S, NEW s \in Seq(S), NEW e
    PROVE  LET r == RemoveFirst(s, e) IN
           /\ \A x, y : Before(r, x, y) => Before(s, x, y)
           /\ \A i \in DOMAIN r : \E k \in DOMAIN s : s[k] = r[i]
           /\ ~ Before(s, e, e) => \A i \in DOMAIN r : r[i] # e
<1> DEFINE r == RemoveFirst(s, e)
<1>1. Len(s) \in Nat /\ DOMAIN s = 1..Len(s)
  BY LenProperties
<1>2. CASE \E i \in 1..Len(s) : s[i] = e
  <2> DEFINE I == {i \in 1..Len(s) : s[i] = e}
  <2>1. r = RemoveAt(s, Min(I))
    BY <1>2 DEF RemoveFirst, SelectInSeq
  <2>2. I \subseteq 1..Len(s) /\ I \subseteq Nat /\ I # {}
    BY <1>1, <1>2
  <2>3. Min(I) \in I
    <3> HIDE DEF I
    <3> QED
      BY <2>2, LeastElement
  <2>4. PICK k \in 1..Len(s) : k = Min(I) /\ s[k] = e
    BY <2>2, <2>3
  <2> HIDE DEF I
  <2> DEFINE u == SubSeq(s, 1, k - 1)
             v == SubSeq(s, k + 1, Len(s))
             from(i) == IF i < k THEN i ELSE i + 1
  <2>5. /\ u \in Seq(S) /\ Len(u) = k - 1
        /\ \A i \in 1..(k - 1) : u[i] = s[i]
    BY <1>1, <2>4
  <2>6. /\ v \in Seq(S) /\ Len(v) = Len(s) - k
        /\ \A i \in 1..(Len(s) - k) : v[i] = s[i + k]
    BY <1>1, <2>4
  <2>7. r = u \o v
    BY <2>1, <2>4 DEF RemoveAt
  <2> HIDE DEF r, u, v
  <2>8. DOMAIN r = 1..(Len(s) - 1) /\ \A i \in 1..(Len(s) - 1) : r[i] = s[from(i)]
    <3>1. /\ Len(r) = Len(u) + Len(v) /\ DOMAIN r = 1..Len(r)
          /\ \A i \in 1..Len(r) : r[i] = IF i <= Len(u) THEN u[i] ELSE v[i - Len(u)]
      <4>1. u \in Seq(S) /\ v \in Seq(S)
        BY <2>5, <2>6
      <4>2. /\ r \in Seq(S) /\ Len(r) = Len(u) + Len(v)
            /\ \A i \in 1..(Len(u) + Len(v)) :
                  r[i] = IF i <= Len(u) THEN u[i] ELSE v[i - Len(u)]
        BY <2>7, <4>1, ConcatProperties
      <4> QED
        BY <4>2, LenProperties
    <3>2. DOMAIN r = 1..(Len(s) - 1)
      BY <1>1, <2>4, <2>5, <2>6, <3>1
    <3>3. ASSUME NEW i \in 1..(Len(s) - 1)
          PROVE  r[i] = s[from(i)]
      <4>1. CASE i < k
        BY <1>1, <2>4, <2>5, <3>1, <3>2, <4>1
      <4>2. CASE ~ (i < k)
        <5> DEFINE d == i - (k - 1)
        <5>1. d \in 1..(Len(s) - k) /\ d + k = i + 1
          BY <1>1, <2>4, <4>2
        <5>2. r[i] = v[d]
          <6>1. i \in 1..Len(r) /\ ~ (i <= Len(u)) /\ i - Len(u) = d
            BY <1>1, <2>4, <2>5, <3>1, <3>2, <4>2
          <6> QED
            BY <3>1, <6>1
        <5> HIDE DEF d
        <5>3. v[d] = s[i + 1]
          BY <2>6, <5>1
        <5> QED
          BY <4>2, <5>2, <5>3
      <4> QED
        BY <4>1, <4>2
    <3> QED
      BY <3>2, <3>3
  <2>9. \A i \in 1..(Len(s) - 1) : from(i) \in 1..Len(s) /\ from(i) # k
    BY <1>1, <2>4
  <2>10. \A i, j \in 1..(Len(s) - 1) : i < j => from(i) < from(j)
    BY <1>1, <2>4
  <2> HIDE DEF from
  <2>11. ASSUME NEW x, NEW y, Before(r, x, y)
         PROVE  Before(s, x, y)
    <3>1. PICK i \in DOMAIN r, j \in DOMAIN r : i < j /\ r[i] = x /\ r[j] = y
      BY <2>11 DEF Before
    <3>2. /\ from(i) \in DOMAIN s /\ from(j) \in DOMAIN s /\ from(i) < from(j)
          /\ s[from(i)] = x /\ s[from(j)] = y
      BY <1>1, <2>8, <2>9, <2>10, <3>1
    <3> QED
      BY <3>2 DEF Before
  <2>12. \A i \in DOMAIN r : \E n \in DOMAIN s : s[n] = r[i]
    BY <1>1, <2>8, <2>9
  <2>13. ASSUME ~ Before(s, e, e), NEW i \in DOMAIN r
         PROVE  r[i] # e
    <3>1. /\ from(i) \in DOMAIN s /\ from(i) # k /\ r[i] = s[from(i)]
          /\ k \in DOMAIN s /\ from(i) \in Int /\ k \in Int
      BY <1>1, <2>4, <2>8, <2>9
    <3>2. from(i) < k \/ k < from(i)
      BY <3>1
    <3> QED
      BY <2>4, <2>13, <3>1, <3>2 DEF Before
  <2> QED
    BY <2>11, <2>12, <2>13 DEF r
<1>3. CASE ~ \E i \in 1..Len(s) : s[i] = e
  BY <1>1, <1>3 DEF RemoveFirst
<1> QED
  BY <1>2, <1>3

\* What the reconciled queue can be.
LEMMA RequeueType ==
    ASSUME NEW s \in RequeueOrders
    PROVE  /\ s \in Seq(Jobs)
           /\ \A i, k \in DOMAIN s : s[i] = s[k] => i = k
           /\ \A i \in DOMAIN s : status[s[i]] = "queued"
           /\ \A j \in Jobs : status[j] = "queued" => \E i \in DOMAIN s : s[i] = j
<1> DEFINE Q == {j \in Jobs : status[j] = "queued"}
<1>1. Cardinality(Q) \in Nat
  BY PoolAssumption, FS_Subset, FS_CardinalityType
<1>2. s \in [1..Cardinality(Q) -> Q]
      /\ \A i, k \in 1..Cardinality(Q) : i # k => s[i] # s[k]
  BY DEF RequeueOrders, SetToSeqs
<1>3. DOMAIN s = 1..Cardinality(Q) /\ \A i \in DOMAIN s : s[i] \in Q
  BY <1>2
<1>4. s \in Seq(Jobs)
  BY <1>1, <1>2, <1>3, IsASeq
<1>5. \A j \in Q : \E i \in DOMAIN s : s[i] = j
  <2>1. IsFiniteSet(Q)
    BY PoolAssumption, FS_Subset
  <2>2. Cardinality(1..Cardinality(Q)) = Cardinality(Q)
    BY <1>1, FS_Interval
  <2> HIDE DEF Q
  <2>3. s \in Injection(1..Cardinality(Q), Q)
    BY <1>2 DEF Injection, IsInjective
  <2>4. s \in Surjection(1..Cardinality(Q), Q)
    BY <2>1, <2>2, <2>3, FS_Injection
  <2> QED
    BY <1>3, <2>4 DEF Surjection
<1> QED
  BY <1>2, <1>3, <1>4, <1>5

-----------------------------------------------------------------------------
\* Type correctness. The types alone are not inductive: what a thread adds to
\* the claims is what it holds, so it must hold a job whenever it is past Get.

LEMMA TypeInit == Init => TypeOK /\ HandsOK
<1> SUFFICES ASSUME Init
             PROVE  TypeOK /\ HandsOK
  OBVIOUS
<1>1. Cardinality(Threads) \in Nat
  BY PoolAssumption, FS_CardinalityType
<1>2. queue \in Seq(Jobs \cup {Sentinel}) /\ waiting \in Seq(Jobs)
  BY EmptySeq DEF Init
<1>3. /\ status \in [Jobs -> Status]
      /\ pc \in [Threads -> ThreadPC] /\ held \in [Threads -> Jobs \cup {NoJob}]
      /\ cpc \in [Clients -> ClientPC] /\ cjob \in [Clients -> Jobs \cup {NoJob}]
      /\ hooks \in [Jobs -> Nat]
  BY DEF Init, Status, ThreadPC, ClientPC
<1>5. crashes \in 0..MaxCrashes /\ owed \in 0..Cardinality(Threads)
  BY <1>1, PoolAssumption DEF Init
<1>6. TypeOK
  BY <1>2, <1>3, <1>5 DEF Init, TypeOK
<1>4. HandsOK
  BY DEF Init, HandsOK
<1> QED
  BY <1>4, <1>6

LEMMA HandsStep == TypeOK /\ HandsOK /\ [Next]_vars => HandsOK'
<1> SUFFICES ASSUME TypeOK, HandsOK, [Next]_vars
             PROVE  HandsOK'
  OBVIOUS
<1> USE PoolAssumption DEF HandsOK, vars, threads, clients, At, Goto
<1>0. /\ queue \in Seq(Jobs \cup {Sentinel})
      /\ pc \in [Threads -> ThreadPC]
      /\ held \in [Threads -> Jobs \cup {NoJob}]
      /\ cpc \in [Clients -> ClientPC]
      /\ cjob \in [Clients -> Jobs \cup {NoJob}]
  BY DEF TypeOK
<1>1. ASSUME NEW j \in Jobs, Enqueue(j)
      PROVE  HandsOK'
  BY <1>1, <1>0 DEF Enqueue
<1>2. ASSUME NEW f \in StopModes, Stop(f)
      PROVE  HandsOK'
  BY <1>2, <1>0 DEF Stop, Sentinels
<1>3. ASSUME PutSentinel
      PROVE  HandsOK'
  BY <1>3, <1>0 DEF PutSentinel
<1>4. ASSUME NEW j \in Jobs, ProviderExits(j)
      PROVE  HandsOK'
  BY <1>4, <1>0 DEF ProviderExits
<1>5. ASSUME NEW t \in Threads, Get(t)
      PROVE  HandsOK'
  BY <1>5, <1>0, HeadTailProperties DEF Get
<1>6. ASSUME NEW t \in Threads, Claim(t)
      PROVE  HandsOK'
  BY <1>6, <1>0 DEF Claim
<1>7. ASSUME NEW t \in Threads, ReadQueued(t)
      PROVE  HandsOK'
  BY <1>7, <1>0 DEF ReadQueued
<1>8. ASSUME NEW t \in Threads, ReadSettled(t)
      PROVE  HandsOK'
  BY <1>8, <1>0 DEF ReadSettled
<1>9. ASSUME NEW t \in Threads, Admit(t)
      PROVE  HandsOK'
  BY <1>9, <1>0 DEF Admit
<1>10. ASSUME NEW t \in Threads, DropCanceled(t)
      PROVE  HandsOK'
  BY <1>10, <1>0 DEF DropCanceled
<1>11. ASSUME NEW t \in Threads, DropRelease(t)
      PROVE  HandsOK'
  BY <1>11, <1>0 DEF DropRelease
<1>12. ASSUME NEW t \in Threads, Release(t)
      PROVE  HandsOK'
  BY <1>12, <1>0 DEF Release
<1>13. ASSUME NEW t \in Threads, Notify(t)
      PROVE  HandsOK'
  BY <1>13, <1>0 DEF Notify
<1>14. ASSUME NEW t \in Threads, StartRunning(t)
      PROVE  HandsOK'
  BY <1>14, <1>0 DEF StartRunning
<1>15. ASSUME NEW t \in Threads, StartFailed(t)
      PROVE  HandsOK'
  BY <1>15, <1>0 DEF StartFailed
<1>16. ASSUME NEW t \in Threads, NotSpawned(t)
      PROVE  HandsOK'
  BY <1>16, <1>0 DEF NotSpawned
<1>17. ASSUME NEW t \in Threads, Spawn(t)
      PROVE  HandsOK'
  BY <1>17, <1>0 DEF Spawn
<1>18. ASSUME NEW t \in Threads, SavePid(t)
      PROVE  HandsOK'
  BY <1>18, <1>0 DEF SavePid
<1>19. ASSUME NEW t \in Threads, Collect(t)
      PROVE  HandsOK'
  BY <1>19, <1>0 DEF Collect
<1>20. ASSUME NEW t \in Threads, SeeCancel(t)
      PROVE  HandsOK'
  BY <1>20, <1>0 DEF SeeCancel
<1>21. ASSUME NEW t \in Threads, Timeout(t)
      PROVE  HandsOK'
  BY <1>21, <1>0 DEF Timeout
<1>22. ASSUME NEW t \in Threads, SpawnError(t)
      PROVE  HandsOK'
  BY <1>22, <1>0 DEF SpawnError
<1>23. ASSUME NEW t \in Threads, Ingest(t)
      PROVE  HandsOK'
  BY <1>23, <1>0 DEF Ingest
<1>24. ASSUME NEW t \in Threads, SaveRefused(t)
      PROVE  HandsOK'
  BY <1>24, <1>0 DEF SaveRefused
<1>25. ASSUME NEW t \in Threads, Finishes(t)
      PROVE  HandsOK'
  BY <1>25, <1>0 DEF Finishes, Finish
<1>26. ASSUME NEW c \in Clients, NEW j \in Jobs, CancelLook(c, j)
      PROVE  HandsOK'
  BY <1>26, <1>0 DEF CancelLook
<1>27. ASSUME NEW c \in Clients, CancelDecide(c)
      PROVE  HandsOK'
  BY <1>27, <1>0 DEF CancelDecide, CancelOwns
<1>28. ASSUME NEW c \in Clients, CancelSet(c)
      PROVE  HandsOK'
  BY <1>28, <1>0 DEF CancelSet
<1>29. ASSUME NEW c \in Clients, CancelForget(c)
      PROVE  HandsOK'
  BY <1>29, <1>0 DEF CancelForget
<1>30. ASSUME NEW c \in Clients, CancelNotify(c)
      PROVE  HandsOK'
  BY <1>30, <1>0 DEF CancelNotify
<1>31. ASSUME Crash
      PROVE  HandsOK'
  BY <1>31, <1>0 DEF Crash
<1>32. ASSUME Restart
      PROVE  HandsOK'
  BY <1>32, <1>0 DEF Restart
<1>33. ASSUME NEW j \in Jobs, ReconcileRunning(j)
      PROVE  HandsOK'
  BY <1>33, <1>0 DEF ReconcileRunning
<1>34. ASSUME ReconcileQueued
      PROVE  HandsOK'
  BY <1>34, <1>0 DEF ReconcileQueued
<1>35. ASSUME UNCHANGED vars
      PROVE  HandsOK'
  BY <1>35, <1>0
<1> QED
  BY <1>1, <1>2, <1>3, <1>4, <1>5, <1>6, <1>7, <1>8, <1>9, <1>10, <1>11,
     <1>12, <1>13, <1>14, <1>15, <1>16, <1>17, <1>18, <1>19, <1>20, <1>21,
     <1>22, <1>23, <1>24, <1>25, <1>26, <1>27, <1>28, <1>29, <1>30, <1>31,
     <1>32, <1>33, <1>34, <1>35
     DEF Next, Loop, Execute, CancelStep, Recover

LEMMA TypeStep == TypeOK /\ HandsOK /\ [Next]_vars => TypeOK'
<1> SUFFICES ASSUME TypeOK, HandsOK, [Next]_vars
             PROVE  TypeOK'
  OBVIOUS
<1> USE DEF TypeOK, vars, disk, memory, threads, clients, life
<1> USE DEF Status, Terminal, ThreadPC, Executing, ClientPC
<1> USE DEF HandsOK, At, Goto, Write, Announce, Forget, Reap
<1>1. ASSUME NEW j \in Jobs, Enqueue(j)
      PROVE  TypeOK'
  BY <1>1, AppendProperties DEF Enqueue
<1>2. ASSUME NEW f \in StopModes, Stop(f)
      PROVE  TypeOK'
  BY <1>2, PoolAssumption, FS_CardinalityType DEF Stop, Sentinels
<1>3. ASSUME PutSentinel
      PROVE  TypeOK'
  BY <1>3, PoolAssumption, FS_CardinalityType, AppendProperties DEF PutSentinel
<1>4. ASSUME NEW j \in Jobs, ProviderExits(j)
      PROVE  TypeOK'
  BY <1>4 DEF ProviderExits
<1>5. ASSUME NEW t \in Threads, Get(t)
      PROVE  TypeOK'
  <2>1. Head(queue) \in Jobs \cup {Sentinel} /\ Tail(queue) \in Seq(Jobs \cup {Sentinel})
    BY <1>5, HeadTailProperties DEF Get
  <2>2. CASE Head(queue) = Sentinel
    BY <1>5, <2>1, <2>2 DEF Get
  <2>3. CASE Head(queue) \in Jobs
    <3>1. Head(queue) # Sentinel
      BY <2>3, PoolAssumption
    <3>2. held' \in [Threads -> Jobs \cup {NoJob}] /\ pc' \in [Threads -> ThreadPC]
      BY <1>5, <2>3, <3>1 DEF Get
    <3> QED
      BY <1>5, <2>1, <3>1, <3>2 DEF Get
  <2> QED
    BY <2>1, <2>2, <2>3
<1>6. ASSUME NEW t \in Threads, Claim(t)
      PROVE  TypeOK'
  BY <1>6 DEF Claim
<1>7. ASSUME NEW t \in Threads, ReadQueued(t)
      PROVE  TypeOK'
  BY <1>7 DEF ReadQueued
<1>8. ASSUME NEW t \in Threads, ReadSettled(t)
      PROVE  TypeOK'
  BY <1>8, RemoveFirstType DEF ReadSettled
<1>9. ASSUME NEW t \in Threads, Admit(t)
      PROVE  TypeOK'
  BY <1>9, RemoveFirstType DEF Admit
<1>10. ASSUME NEW t \in Threads, DropCanceled(t)
      PROVE  TypeOK'
  BY <1>10 DEF DropCanceled
<1>11. ASSUME NEW t \in Threads, DropRelease(t)
      PROVE  TypeOK'
  BY <1>11, RemoveFirstType DEF DropRelease
<1>12. ASSUME NEW t \in Threads, Release(t)
      PROVE  TypeOK'
  BY <1>12 DEF Release
<1>13. ASSUME NEW t \in Threads, Notify(t)
      PROVE  TypeOK'
  <2>1. held[t] \in Jobs
    BY <1>13 DEF Notify
  <2>2. hooks' \in [Jobs -> Nat]
    BY <1>13, <2>1 DEF Notify
  <2> QED
    BY <1>13, <2>2 DEF Notify
<1>14. ASSUME NEW t \in Threads, StartRunning(t)
      PROVE  TypeOK'
  BY <1>14 DEF StartRunning
<1>15. ASSUME NEW t \in Threads, StartFailed(t)
      PROVE  TypeOK'
  BY <1>15 DEF StartFailed
<1>16. ASSUME NEW t \in Threads, NotSpawned(t)
      PROVE  TypeOK'
  BY <1>16 DEF NotSpawned
<1>17. ASSUME NEW t \in Threads, Spawn(t)
      PROVE  TypeOK'
  BY <1>17 DEF Spawn
<1>18. ASSUME NEW t \in Threads, SavePid(t)
      PROVE  TypeOK'
  BY <1>18 DEF SavePid
<1>19. ASSUME NEW t \in Threads, Collect(t)
      PROVE  TypeOK'
  BY <1>19 DEF Collect
<1>20. ASSUME NEW t \in Threads, SeeCancel(t)
      PROVE  TypeOK'
  BY <1>20 DEF SeeCancel
<1>21. ASSUME NEW t \in Threads, Timeout(t)
      PROVE  TypeOK'
  BY <1>21 DEF Timeout
<1>22. ASSUME NEW t \in Threads, SpawnError(t)
      PROVE  TypeOK'
  BY <1>22 DEF SpawnError
<1>23. ASSUME NEW t \in Threads, Ingest(t)
      PROVE  TypeOK'
  BY <1>23 DEF Ingest
<1>24. ASSUME NEW t \in Threads, SaveRefused(t)
      PROVE  TypeOK'
  BY <1>24 DEF SaveRefused
<1>25. ASSUME NEW t \in Threads, Finishes(t)
      PROVE  TypeOK'
  BY <1>25 DEF Finishes, Finish
<1>26. ASSUME NEW c \in Clients, NEW j \in Jobs, CancelLook(c, j)
      PROVE  TypeOK'
  BY <1>26 DEF CancelLook
<1>27. ASSUME NEW c \in Clients, CancelDecide(c)
      PROVE  TypeOK'
  BY <1>27 DEF CancelDecide, CancelOwns
<1>28. ASSUME NEW c \in Clients, CancelSet(c)
      PROVE  TypeOK'
  BY <1>28 DEF CancelSet
<1>29. ASSUME NEW c \in Clients, CancelForget(c)
      PROVE  TypeOK'
  BY <1>29, RemoveFirstType DEF CancelForget
<1>30. ASSUME NEW c \in Clients, CancelNotify(c)
      PROVE  TypeOK'
  BY <1>30 DEF CancelNotify
<1>31. ASSUME Crash
      PROVE  TypeOK'
  <2>1. queue' \in Seq(Jobs \cup {Sentinel}) /\ waiting' \in Seq(Jobs)
    BY <1>31, EmptySeq DEF Crash
  <2>2. owed' \in 0..Cardinality(Threads) /\ crashes' \in 0..MaxCrashes
    BY <1>31, PoolAssumption, FS_CardinalityType DEF Crash
  <2> QED
    BY <1>31, <2>1, <2>2 DEF Crash
<1>32. ASSUME Restart
      PROVE  TypeOK'
  BY <1>32 DEF Restart
<1>33. ASSUME NEW j \in Jobs, ReconcileRunning(j)
      PROVE  TypeOK'
  BY <1>33 DEF ReconcileRunning
<1>34. ASSUME ReconcileQueued
      PROVE  TypeOK'
  BY <1>34, RequeueType DEF ReconcileQueued
<1>35. ASSUME UNCHANGED vars
      PROVE  TypeOK'
  BY <1>35
<1> QED
  BY <1>1, <1>2, <1>3, <1>4, <1>5, <1>6, <1>7, <1>8, <1>9, <1>10, <1>11,
     <1>12, <1>13, <1>14, <1>15, <1>16, <1>17, <1>18, <1>19, <1>20, <1>21,
     <1>22, <1>23, <1>24, <1>25, <1>26, <1>27, <1>28, <1>29, <1>30, <1>31,
     <1>32, <1>33, <1>34, <1>35
     DEF Next, Loop, Execute, CancelStep, Recover

\* Every variable keeps its type in every behaviour.
THEOREM TypeCorrect == Spec => []TypeOK
<1> QED
  BY TypeInit, TypeStep, HandsStep, PTL DEF Spec

-----------------------------------------------------------------------------
\* The inductive invariant.

LEMMA InvInit == Init => PoolInv
<1> SUFFICES ASSUME Init
             PROVE  PoolInv
  OBVIOUS
<1>1. TypeOK /\ HandsOK
  BY TypeInit
<1>2. Asleep /\ OnePlace /\ HeldRecord /\ Slots /\ OneAnnouncer
  BY DEF Init, Asleep, OnePlace, HeldRecord, Slots, OneAnnouncer, Executing,
         InSlot, Owing, Mine
<1>3. OneBatchAtATime /\ HookOnce /\ Traces /\ RecordTellsTruth /\ NothingLost
  BY DEF Init, OneBatchAtATime, HookOnce, Terminal, Traces, RecordTellsTruth,
         NothingLost
<1>4. AdmissionOrder /\ SlotsHeld /\ SentinelForEach /\ PoolMoves
  BY DEF Init, AdmissionOrder, Before, On, SlotsHeld, SentinelForEach, SentinelsIn, Exited,
         PoolMoves
<1>5. HookOwed
  BY DEF Init, HookOwed, Terminal
<1> QED
  BY <1>1, <1>2, <1>3, <1>4, <1>5 DEF PoolInv

\* Only death and recovery happen while the daemon is not up.
LEMMA AsleepStep == TypeOK /\ Asleep /\ [Next]_vars => Asleep'
<1> SUFFICES ASSUME TypeOK, Asleep, [Next]_vars
             PROVE  Asleep'
  OBVIOUS
<1> USE DEF Asleep, vars, memory, threads, clients, life
<1>1. CASE \E j \in Jobs : Enqueue(j) \/ ProviderExits(j)
  BY <1>1 DEF Enqueue, ProviderExits
<1>2. CASE (\E f \in StopModes : Stop(f)) \/ PutSentinel
  BY <1>2 DEF Stop, PutSentinel
<1>3. CASE \E t \in Threads : Loop(t)
  BY <1>3 DEF Loop, At, Get, Claim, ReadQueued, ReadSettled, Admit,
              DropCanceled, DropRelease, Release, Notify
<1>4. CASE \E t \in Threads : Execute(t)
  BY <1>4 DEF Execute, At, StartRunning, StartFailed, NotSpawned, Spawn, SavePid, Collect, SeeCancel, Timeout, SpawnError, Ingest, SaveRefused, Finishes, Finish
<1>5. CASE \E c \in Clients : CancelStep(c) \/ \E j \in Jobs : CancelLook(c, j)
  BY <1>5 DEF CancelStep, CancelLook, CancelDecide, CancelOwns, CancelSet, CancelForget, CancelNotify
<1>6. CASE Crash
  BY <1>6 DEF Crash
<1>7. CASE Recover
  BY <1>7 DEF Recover, Restart, ReconcileRunning, ReconcileQueued
<1>8. CASE UNCHANGED vars
  BY <1>8
<1> QED
  BY <1>1, <1>2, <1>3, <1>4, <1>5, <1>6, <1>7, <1>8 DEF Next

\* A job moves from the queue into one pair of hands and never back.
LEMMA OnePlaceStep ==
    TypeOK /\ HandsOK /\ Asleep /\ OnePlace /\ [Next]_vars => OnePlace'
<1> SUFFICES ASSUME TypeOK, HandsOK, Asleep, OnePlace, [Next]_vars
             PROVE  OnePlace'
  OBVIOUS
<1> USE PoolAssumption
    DEF OnePlace, HandsOK, vars, disk, memory, threads, clients, life, At, Goto, Write
<1>0. /\ queue \in Seq(Jobs \cup {Sentinel})
      /\ status \in [Jobs -> Status]
      /\ pc \in [Threads -> ThreadPC]
      /\ held \in [Threads -> Jobs \cup {NoJob}]
      /\ cjob \in [Clients -> Jobs \cup {NoJob}]
  BY DEF TypeOK
<1>1. ASSUME NEW j \in Jobs, Enqueue(j)
      PROVE  OnePlace'
  <2>1. /\ queue' \in Seq(Jobs \cup {Sentinel})
        /\ Len(queue) \in Nat
        /\ Len(queue') = Len(queue) + 1
        /\ \A i \in 1..Len(queue) : queue'[i] = queue[i]
        /\ queue'[Len(queue) + 1] = j
    BY <1>0, <1>1, AppendProperties, LenProperties DEF Enqueue
  <2>2. DOMAIN queue = 1..Len(queue) /\ DOMAIN queue' = 1..(Len(queue) + 1)
    BY <1>0, <2>1, LenProperties
  <2>3. /\ \A i \in DOMAIN queue : queue[i] # j
        /\ \A t \in Threads : held[t] # j
    BY <1>1 DEF Enqueue
  <2> QED
    BY <1>0, <1>1, <2>1, <2>2, <2>3 DEF Enqueue
<1>2. ASSUME PutSentinel
      PROVE  OnePlace'
  <2>1. /\ queue' \in Seq(Jobs \cup {Sentinel})
        /\ Len(queue) \in Nat
        /\ Len(queue') = Len(queue) + 1
        /\ \A i \in 1..Len(queue) : queue'[i] = queue[i]
        /\ queue'[Len(queue) + 1] = Sentinel
    BY <1>0, <1>2, AppendProperties, LenProperties DEF PutSentinel
  <2>2. DOMAIN queue = 1..Len(queue) /\ DOMAIN queue' = 1..(Len(queue) + 1)
    BY <1>0, <2>1, LenProperties
  <2>3. UNCHANGED <<held, status>>
    BY <1>2 DEF PutSentinel
  <2>4. \A i \in DOMAIN queue' :
            \/ i \in DOMAIN queue /\ queue'[i] = queue[i]
            \/ i = Len(queue) + 1 /\ queue'[i] = Sentinel
    BY <2>1, <2>2
  <2>5. Sentinel \notin Jobs /\ \A t \in Threads : held[t] # Sentinel
    BY <1>0
  <2> QED
    BY <2>3, <2>4, <2>5
<1>3. ASSUME NEW t \in Threads, Get(t)
      PROVE  OnePlace'
  <2>1. /\ Len(queue) \in Nat \ {0}
        /\ Head(queue) = queue[1]
        /\ DOMAIN queue = 1..Len(queue)
        /\ DOMAIN queue' = 1..(Len(queue) - 1)
        /\ \A i \in DOMAIN queue' : queue'[i] = queue[i + 1]
    BY <1>0, <1>3, HeadTailProperties, LenProperties DEF Get
  <2>2. 1 \in DOMAIN queue /\ \A i \in DOMAIN queue' : i + 1 \in DOMAIN queue
    BY <2>1
  <2>3. queue[1] \in Jobs \cup {Sentinel}
    BY <1>0, <2>2, SMTT(60)
  <2>4. /\ status' = status
        /\ \/ held' = held
           \/ queue[1] \in Jobs /\ held' = [held EXCEPT ![t] = queue[1]]
    BY <1>0, <1>3, <2>1, <2>3 DEF Get
  <2>5. \A i, k \in DOMAIN queue' :
            queue'[i] = queue'[k] /\ queue'[i] \in Jobs => i = k
    <3> TAKE i, k \in DOMAIN queue'
    <3>1. i \in Int /\ k \in Int /\ i + 1 \in DOMAIN queue /\ k + 1 \in DOMAIN queue
      BY <2>1, <2>2
    <3>2. queue'[i] = queue[i + 1] /\ queue'[k] = queue[k + 1]
      BY <2>1
    <3>3. \A a, b \in DOMAIN queue : queue[a] = queue[b] /\ queue[a] \in Jobs => a = b
      OBVIOUS
    <3>4. queue[i + 1] = queue[k + 1] /\ queue[i + 1] \in Jobs => i + 1 = k + 1
      BY <3>1, <3>3
    <3> HIDE DEF OnePlace
    <3> QED
      BY <3>1, <3>2, <3>4
  <2>6. \A i \in DOMAIN queue' :
            /\ \A u \in Threads : queue'[i] # held[u]
            /\ queue'[i] \in Jobs => queue'[i] # queue[1] /\ status[queue'[i]] # "none"
    <3> TAKE i \in DOMAIN queue'
    <3>1. i \in Int /\ i # 0 /\ i + 1 \in DOMAIN queue /\ queue'[i] = queue[i + 1]
      BY <2>1, <2>2
    <3> QED
      BY <2>2, <3>1
  <2>7. queue[1] \in Jobs =>
            status[queue[1]] # "none" /\ \A u \in Threads : held[u] # queue[1]
    BY <2>2
  <2>8. held[t] = NoJob
    BY <1>3 DEF Get
  <2> QED
    BY <1>0, <2>4, <2>5, <2>6, <2>7, <2>8
<1>4. ASSUME NEW t \in Threads, ReadSettled(t) \/ Notify(t)
      PROVE  OnePlace'
  BY <1>0, <1>4 DEF ReadSettled, Notify
<1>5. ASSUME NEW t \in Threads,
             Claim(t) \/ ReadQueued(t) \/ Admit(t) \/ DropCanceled(t)
                 \/ DropRelease(t) \/ Release(t)
      PROVE  OnePlace'
  BY <1>0, <1>5 DEF Claim, ReadQueued, Admit, DropCanceled, DropRelease, Release
<1>6. ASSUME NEW t \in Threads, Execute(t)
      PROVE  OnePlace'
  <2>1. UNCHANGED <<queue, held>>
    BY <1>6 DEF Execute, StartRunning, StartFailed, NotSpawned, Spawn, SavePid, Collect, SeeCancel, Timeout, SpawnError, Ingest, SaveRefused, Finishes, Finish
  <2>2. \A j \in Jobs : status[j] # "none" => status'[j] # "none"
    BY <1>0, <1>6 DEF Execute, StartRunning, StartFailed, NotSpawned, Spawn, SavePid, Collect, SeeCancel, Timeout, SpawnError, Ingest, SaveRefused, Finishes, Finish
  <2> QED
    BY <1>0, <2>1, <2>2
<1>7. ASSUME NEW c \in Clients, CancelStep(c) \/ \E j \in Jobs : CancelLook(c, j)
      PROVE  OnePlace'
  BY <1>0, <1>7 DEF CancelStep, CancelLook, CancelDecide, CancelOwns, CancelSet, CancelForget, CancelNotify
<1>8. CASE Crash
  BY <1>0, <1>8, EmptySeq DEF Crash
<1>9. CASE ReconcileQueued
  BY <1>0, <1>9, RequeueType DEF ReconcileQueued, Asleep
<1>10. ASSUME NEW j \in Jobs, ReconcileRunning(j)
       PROVE  OnePlace'
  BY <1>0, <1>10 DEF ReconcileRunning
<1>11. CASE Restart \/ (\E j \in Jobs : ProviderExits(j))
            \/ (\E f \in StopModes : Stop(f)) \/ UNCHANGED vars
  BY <1>11 DEF Restart, ProviderExits, Stop
<1> QED
  BY <1>1, <1>2, <1>3, <1>4, <1>5, <1>6, <1>7, <1>8, <1>9, <1>10, <1>11
     DEF Next, Loop, Recover

\* Nobody but its own thread changes what a held job's record says.
LEMMA HeldRecordStep ==
    PoolInv /\ [Next]_vars => HeldRecord'
<1> SUFFICES ASSUME PoolInv, [Next]_vars
             PROVE  HeldRecord'
  OBVIOUS
<1> USE DEF HeldRecord, InSlot, Owing, Executing, Terminal, vars, disk, memory,
            threads, clients, life, At, Goto, Write
<1>0. /\ status \in [Jobs -> Status]
      /\ hooks \in [Jobs -> Nat]
      /\ pc \in [Threads -> ThreadPC]
      /\ held \in [Threads -> Jobs \cup {NoJob}]
      /\ cjob \in [Clients -> Jobs \cup {NoJob}]
      /\ NoJob \notin Jobs
      /\ HeldRecord /\ HandsOK
      /\ \A t \in Threads : held[t] = NoJob <=> pc[t] \in {"get", "exited"}
      /\ \A t, u \in Threads : held[t] = held[u] /\ held[t] # NoJob => t = u
      /\ \A t \in Threads : held[t] # NoJob => status[held[t]] # "none"
  BY PoolAssumption DEF PoolInv, TypeOK, OnePlace, HandsOK
<1>1. ASSUME NEW j \in Jobs, Enqueue(j)
      PROVE  HeldRecord'
  BY <1>0, <1>1 DEF Enqueue
<1>2. CASE (\E f \in StopModes : Stop(f)) \/ PutSentinel
           \/ (\E j \in Jobs : ProviderExits(j)) \/ Restart \/ UNCHANGED vars
  BY <1>0, <1>2 DEF Stop, PutSentinel, ProviderExits, Restart
<1>3. ASSUME NEW t \in Threads, Get(t) \/ Claim(t) \/ ReadQueued(t) \/ ReadSettled(t)
      PROVE  HeldRecord'
  BY <1>0, <1>3 DEF Get, Claim, ReadQueued, ReadSettled
<1>4. ASSUME NEW t \in Threads, Admit(t) \/ DropRelease(t) \/ Release(t)
      PROVE  HeldRecord'
  BY <1>0, <1>4 DEF Admit, DropRelease, Release
<1>5. ASSUME NEW t \in Threads, DropCanceled(t) \/ StartFailed(t) \/ Finishes(t)
      PROVE  HeldRecord'
  <2>1. hooks[held[t]] = 0
    BY <1>0, <1>5 DEF PoolInv, HookOnce, DropCanceled, StartFailed, Finishes, Finish
  <2> QED
    BY <1>0, <1>5, <2>1 DEF DropCanceled, StartFailed, Finishes, Finish
<1>6. ASSUME NEW t \in Threads, Notify(t)
      PROVE  HeldRecord'
  BY <1>0, <1>6 DEF Notify, Announce
<1>7. ASSUME NEW t \in Threads,
             StartRunning(t) \/ NotSpawned(t) \/ Spawn(t) \/ SavePid(t) \/ Collect(t)
                 \/ SeeCancel(t) \/ Timeout(t) \/ SpawnError(t) \/ Ingest(t)
                 \/ SaveRefused(t)
      PROVE  HeldRecord'
  BY <1>0, <1>7
     DEF StartRunning, NotSpawned, Spawn, SavePid, Collect, SeeCancel, Timeout,
         SpawnError, Ingest, SaveRefused
<1>8. ASSUME NEW c \in Clients, CancelDecide(c)
      PROVE  HeldRecord'
  BY <1>0, <1>8 DEF CancelDecide, CancelOwns
<1>9. ASSUME NEW c \in Clients,
             CancelSet(c) \/ CancelForget(c) \/ \E j \in Jobs : CancelLook(c, j)
      PROVE  HeldRecord'
  BY <1>0, <1>9 DEF CancelSet, CancelForget, CancelLook
<1>10. ASSUME NEW c \in Clients, CancelNotify(c)
       PROVE  HeldRecord'
  <2>1. \A t \in Threads : pc[t] \in Owing => held[t] # cjob[c]
    BY <1>0, <1>10 DEF PoolInv, OneAnnouncer, Mine, CancelNotify
  <2> QED
    BY <1>0, <1>10, <2>1 DEF CancelNotify, Announce
<1>11. CASE Crash \/ ReconcileQueued \/ \E j \in Jobs : ReconcileRunning(j)
  BY <1>0, <1>11 DEF Crash, ReconcileQueued, ReconcileRunning, PoolInv, Asleep
<1> QED
  BY <1>1, <1>2, <1>3, <1>4, <1>5, <1>6, <1>7, <1>8, <1>9, <1>10, <1>11
     DEF Next, Loop, Execute, CancelStep, Recover

\* Taking a slot respects the batch rule; a record says "running" only in one.
LEMMA SlotsStep ==
    PoolInv /\ [Next]_vars => Slots' /\ OneBatchAtATime'
<1> SUFFICES ASSUME PoolInv, [Next]_vars
             PROVE  Slots' /\ OneBatchAtATime'
  OBVIOUS
<1> USE DEF Slots, OneBatchAtATime, vars, disk, memory, threads, clients, life, At,
            Goto, Write
<1>0. /\ status \in [Jobs -> Status]
      /\ running \subseteq Jobs
      /\ held \in [Threads -> Jobs \cup {NoJob}]
      /\ cjob \in [Clients -> Jobs \cup {NoJob}]
      /\ NoJob \notin Jobs
      /\ Slots /\ OneBatchAtATime /\ HeldRecord
      /\ \A t \in Threads : held[t] = NoJob <=> pc[t] \in {"get", "exited"}
      /\ \A c \in Clients : cjob[c] = NoJob <=> cpc[c] = "idle"
  BY PoolAssumption DEF PoolInv, TypeOK, HandsOK
<1>1. ASSUME NEW t \in Threads, Admit(t)
      PROVE  Slots' /\ OneBatchAtATime'
  <2>1. held[t] \in Jobs
    BY <1>0, <1>1 DEF Admit
  <2>2. \A k \in running : Batch[held[t]] # NoBatch /\ Batch[k] = Batch[held[t]]
    BY <1>1 DEF Admit, Admissible
  <2> QED
    BY <1>0, <1>1, <2>1, <2>2 DEF Admit
<1>2. ASSUME NEW t \in Threads, StartRunning(t)
      PROVE  Slots' /\ OneBatchAtATime'
  <2>1. held[t] \in Jobs /\ held[t] \in running
    BY <1>0, <1>2 DEF StartRunning, HeldRecord, InSlot, Executing
  <2> QED
    BY <1>0, <1>2, <2>1 DEF StartRunning
<1>3. ASSUME NEW t \in Threads, Release(t)
      PROVE  Slots' /\ OneBatchAtATime'
  <2>1. status[held[t]] # "running"
    BY <1>0, <1>3 DEF Release, HeldRecord, Owing, Terminal
  <2> QED
    BY <1>0, <1>3, <2>1 DEF Release
<1>4. CASE Crash \/ Restart \/ ReconcileQueued \/ \E j \in Jobs : ReconcileRunning(j)
  BY <1>0, <1>4 DEF Crash, Restart, ReconcileQueued, ReconcileRunning
<1>5. ASSUME UNCHANGED <<running, phase>>,
             \A j \in Jobs : status'[j] = "running" => status[j] = "running"
      PROVE  Slots' /\ OneBatchAtATime'
  BY <1>0, <1>5
<1>6. ASSUME NEW j \in Jobs, Enqueue(j) \/ ProviderExits(j)
      PROVE  Slots' /\ OneBatchAtATime'
  BY <1>0, <1>5, <1>6 DEF Enqueue, ProviderExits
<1>7. CASE (\E f \in StopModes : Stop(f)) \/ PutSentinel \/ UNCHANGED vars
  BY <1>5, <1>7 DEF Stop, PutSentinel
<1>8. ASSUME NEW t \in Threads,
             Get(t) \/ Claim(t) \/ ReadQueued(t) \/ ReadSettled(t) \/ DropCanceled(t)
                 \/ DropRelease(t) \/ Notify(t)
      PROVE  Slots' /\ OneBatchAtATime'
  BY <1>0, <1>5, <1>8 DEF Get, Claim, ReadQueued, ReadSettled, DropCanceled,
                          DropRelease, Notify
<1>9. ASSUME NEW t \in Threads, Execute(t), ~ StartRunning(t)
      PROVE  Slots' /\ OneBatchAtATime'
  BY <1>0, <1>5, <1>9
     DEF Execute, StartFailed, NotSpawned, Spawn, SavePid, Collect, SeeCancel,
         Timeout, SpawnError, Ingest, SaveRefused, Finishes, Finish
<1>10. ASSUME NEW c \in Clients, CancelStep(c) \/ \E j \in Jobs : CancelLook(c, j)
       PROVE  Slots' /\ OneBatchAtATime'
  BY <1>0, <1>5, <1>10 DEF CancelStep, CancelLook, CancelDecide, CancelOwns, CancelSet, CancelForget, CancelNotify
<1> QED
  BY <1>1, <1>2, <1>3, <1>4, <1>6, <1>7, <1>8, <1>9, <1>10 DEF Next, Loop, Recover

\* Whoever makes a job terminal is the only one that can still announce it.
LEMMA AnnouncerStep ==
    PoolInv /\ [Next]_vars => OneAnnouncer' /\ HookOnce'
<1> SUFFICES ASSUME PoolInv, [Next]_vars
             PROVE  OneAnnouncer' /\ HookOnce'
  OBVIOUS
<1> USE DEF OneAnnouncer, HookOnce, Mine, Terminal, vars, disk, memory, threads,
            clients, life, At, Goto, Write
<1>0. /\ status \in [Jobs -> Status]
      /\ hooks \in [Jobs -> Nat]
      /\ pc \in [Threads -> ThreadPC]
      /\ held \in [Threads -> Jobs \cup {NoJob}]
      /\ cpc \in [Clients -> ClientPC]
      /\ cjob \in [Clients -> Jobs \cup {NoJob}]
      /\ NoJob \notin Jobs
      /\ OneAnnouncer /\ HookOnce /\ HeldRecord
      /\ \A t \in Threads : held[t] = NoJob <=> pc[t] \in {"get", "exited"}
      /\ \A c \in Clients : cjob[c] = NoJob <=> cpc[c] = "idle"
      /\ \A t, u \in Threads : held[t] = held[u] /\ held[t] # NoJob => t = u
  BY PoolAssumption DEF PoolInv, TypeOK, HandsOK, OnePlace
<1>1. ASSUME NEW j \in Jobs, Enqueue(j)
      PROVE  OneAnnouncer' /\ HookOnce'
  BY <1>0, <1>1 DEF Enqueue
<1>2. CASE (\E f \in StopModes : Stop(f)) \/ PutSentinel
           \/ (\E j \in Jobs : ProviderExits(j)) \/ Restart \/ UNCHANGED vars
  BY <1>0, <1>2 DEF Stop, PutSentinel, ProviderExits, Restart
<1>3. ASSUME NEW t \in Threads, Get(t)
      PROVE  OneAnnouncer' /\ HookOnce'
  BY <1>0, <1>3 DEF Get
<1>4. ASSUME NEW t \in Threads,
             Claim(t) \/ ReadQueued(t) \/ ReadSettled(t) \/ Admit(t) \/ DropRelease(t)
                 \/ Release(t)
      PROVE  OneAnnouncer' /\ HookOnce'
  BY <1>0, <1>4 DEF Claim, ReadQueued, ReadSettled, Admit, DropRelease, Release
<1>5. ASSUME NEW t \in Threads, DropCanceled(t)
      PROVE  OneAnnouncer' /\ HookOnce'
  <2>1. status[held[t]] = "queued" /\ held[t] \in Jobs
    BY <1>0, <1>5 DEF DropCanceled, HeldRecord
  <2> QED
    BY <1>0, <1>5, <2>1 DEF DropCanceled
<1>6. ASSUME NEW t \in Threads, Execute(t)
      PROVE  OneAnnouncer' /\ HookOnce'
  <2>1. pc[t] \in Executing /\ held[t] \in Jobs
    BY <1>0, <1>6 DEF Execute, Executing, StartRunning, StartFailed, NotSpawned, Spawn, SavePid, Collect, SeeCancel, Timeout, SpawnError, Ingest, SaveRefused, Finishes, Finish
  <2>2. status[held[t]] \in {"queued", "running"}
    BY <1>0, <2>1 DEF HeldRecord
  <2>3. \A c \in Clients : cpc[c] \in Mine => cjob[c] # held[t]
    BY <1>0, <2>2
  <2>4. /\ UNCHANGED <<hooks, clients>>
        /\ \A j \in Jobs \ {held[t]} : status'[j] = status[j]
        /\ \A u \in Threads \ {t} : pc'[u] = pc[u]
        /\ held' = held
    BY <1>0, <1>6, <2>1 DEF Execute, StartRunning, StartFailed, NotSpawned, Spawn, SavePid, Collect, SeeCancel, Timeout, SpawnError, Ingest, SaveRefused, Finishes, Finish
  <2>5. hooks[held[t]] = 0
    BY <1>0, <2>1, <2>2
  <2> QED
    BY <1>0, <2>1, <2>3, <2>4, <2>5
<1>7. ASSUME NEW t \in Threads, Notify(t)
      PROVE  OneAnnouncer' /\ HookOnce'
  <2>1. held[t] \in Jobs /\ status[held[t]] \in Terminal /\ hooks[held[t]] = 0
    BY <1>0, <1>7 DEF Notify, HeldRecord, Owing
  <2>2. \A c \in Clients : cpc[c] \in Mine => cjob[c] # held[t]
    BY <1>0, <1>7 DEF Notify
  <2> QED
    BY <1>0, <1>7, <2>1, <2>2 DEF Notify, Announce
<1>8. ASSUME NEW c \in Clients, NEW j \in Jobs, CancelLook(c, j)
      PROVE  OneAnnouncer' /\ HookOnce'
  BY <1>0, <1>8 DEF CancelLook
<1>9. ASSUME NEW c \in Clients, CancelDecide(c)
      PROVE  OneAnnouncer' /\ HookOnce'
  <2>1. cjob[c] \in Jobs
    BY <1>0, <1>9 DEF CancelDecide
  <2>2. CASE CancelOwns(cjob[c])
    <3>1. hooks[cjob[c]] = 0
      BY <1>0, <2>1, <2>2 DEF CancelOwns
    <3>2. \A d \in Clients : cpc[d] \in Mine => cjob[d] # cjob[c]
      BY <1>0, <2>2 DEF CancelOwns
    <3>3. \A t \in Threads : held[t] = cjob[c] => pc[t] = "claim"
      BY <1>0, <2>1, <2>2
         DEF CancelOwns, HeldRecord, Owing, Executing, ThreadPC
    <3> QED
      BY <1>0, <1>9, <2>1, <2>2, <3>1, <3>2, <3>3 DEF CancelDecide
  <2>3. CASE ~ CancelOwns(cjob[c])
    BY <1>0, <1>9, <2>1, <2>3 DEF CancelDecide
  <2> QED
    BY <2>2, <2>3
<1>10. ASSUME NEW c \in Clients, CancelSet(c) \/ CancelForget(c)
       PROVE  OneAnnouncer' /\ HookOnce'
  BY <1>0, <1>10 DEF CancelSet, CancelForget
<1>11. ASSUME NEW c \in Clients, CancelNotify(c)
       PROVE  OneAnnouncer' /\ HookOnce'
  BY <1>0, <1>11 DEF CancelNotify, Announce
<1>12. CASE Crash
  BY <1>0, <1>12 DEF Crash
<1>13. CASE ReconcileQueued \/ \E j \in Jobs : ReconcileRunning(j)
  BY <1>0, <1>13 DEF ReconcileQueued, ReconcileRunning, PoolInv, Asleep
<1> QED
  BY <1>1, <1>2, <1>3, <1>4, <1>5, <1>6, <1>7, <1>8, <1>9, <1>10, <1>11, <1>12, <1>13
     DEF Next, Loop, CancelStep, Recover

\* A job leaves the queue only into the hands of a thread, and a thread lets it
\* go only when its record is terminal.
LEMMA NothingLostStep == PoolInv /\ [Next]_vars => NothingLost'
<1> SUFFICES ASSUME PoolInv, [Next]_vars
             PROVE  NothingLost'
  OBVIOUS
<1> USE DEF vars, disk, memory, threads, clients, life, At, Goto, Write
<1>0. /\ queue \in Seq(Jobs \cup {Sentinel})
      /\ status \in [Jobs -> Status]
      /\ pc \in [Threads -> ThreadPC]
      /\ held \in [Threads -> Jobs \cup {NoJob}]
      /\ cjob \in [Clients -> Jobs \cup {NoJob}]
      /\ NoJob \notin Jobs /\ Sentinel \notin Jobs
      /\ NothingLost /\ HeldRecord
      /\ \A t \in Threads : held[t] = NoJob <=> pc[t] \in {"get", "exited"}
      /\ \A t, u \in Threads : held[t] = held[u] /\ held[t] # NoJob => t = u
  BY PoolAssumption DEF PoolInv, TypeOK, HandsOK, OnePlace
<1>1. ASSUME UNCHANGED <<queue, phase, held>>,
             \A j \in Jobs : status'[j] = "queued" => status[j] = "queued",
             \A j \in Jobs : status'[j] = "running" => status[j] = "running",
             \A t \in Threads : pc[t] \in Executing =>
                 pc'[t] \in Executing \/ status'[held[t]] # "running"
      PROVE  NothingLost'
  BY <1>0, <1>1 DEF NothingLost
<1>2. ASSUME NEW k \in Jobs, Enqueue(k)
      PROVE  NothingLost'
  <2>1. /\ Len(queue) \in Nat
        /\ \A i \in 1..Len(queue) : queue'[i] = queue[i]
        /\ queue'[Len(queue) + 1] = k
        /\ DOMAIN queue = 1..Len(queue) /\ DOMAIN queue' = 1..(Len(queue) + 1)
    BY <1>0, <1>2, AppendProperties, LenProperties DEF Enqueue
  <2>2. Len(queue) + 1 \in DOMAIN queue'
    BY <2>1
  <2>3. \A j \in Jobs \ {k} : status'[j] = status[j]
    BY <1>0, <1>2 DEF Enqueue
  <2>4. status'[k] = "queued" /\ UNCHANGED <<held, pc, phase>>
    BY <1>0, <1>2 DEF Enqueue
  <2>5. \A i \in DOMAIN queue : i \in DOMAIN queue' /\ queue'[i] = queue[i]
    BY <2>1
  <2> QED
    BY <1>0, <2>1, <2>2, <2>3, <2>4, <2>5 DEF NothingLost
<1>3. ASSUME PutSentinel
      PROVE  NothingLost'
  <2>1. \A i \in DOMAIN queue : i \in DOMAIN queue' /\ queue'[i] = queue[i]
    BY <1>0, <1>3, AppendProperties, LenProperties DEF PutSentinel
  <2>2. UNCHANGED <<status, held, pc, phase>>
    BY <1>3 DEF PutSentinel
  <2> QED
    BY <1>0, <2>1, <2>2 DEF NothingLost
<1>4. ASSUME NEW t \in Threads, Get(t)
      PROVE  NothingLost'
  <2>1. /\ Len(queue) \in Nat \ {0}
        /\ Head(queue) = queue[1]
        /\ DOMAIN queue = 1..Len(queue)
        /\ DOMAIN queue' = 1..(Len(queue) - 1)
        /\ \A i \in DOMAIN queue' : queue'[i] = queue[i + 1]
    BY <1>0, <1>4, HeadTailProperties, LenProperties DEF Get
  <2>2. \A i \in DOMAIN queue : i = 1 \/ (i - 1 \in DOMAIN queue' /\ queue'[i - 1] = queue[i])
    BY <2>1
  <2>3. UNCHANGED <<status, phase>> /\ held[t] = NoJob /\ pc[t] = "get"
    BY <1>0, <1>4, SMTT(60) DEF Get
  <2>4. /\ queue[1] \in Jobs => held'[t] = queue[1]
        /\ \A u \in Threads \ {t} : held'[u] = held[u] /\ pc'[u] = pc[u]
    BY <1>0, <1>4, <2>1, ZenonT(60) DEF Get
  <2>5. \A j \in Jobs : (\E i \in DOMAIN queue : queue[i] = j) =>
            (\E i \in DOMAIN queue' : queue'[i] = j) \/ held'[t] = j
    BY <2>2, <2>4
  <2>6. \A u \in Threads : held[u] \in Jobs => u # t
    BY <1>0, <2>3
  <2>7. pc[t] \notin Executing
    BY <2>3 DEF Executing
  <2> QED
    BY <1>0, <2>3, <2>4, <2>5, <2>6, <2>7 DEF NothingLost
<1>5. ASSUME NEW t \in Threads, ReadSettled(t) \/ Notify(t)
      PROVE  NothingLost'
  <2>1. /\ pc[t] \notin Executing
        /\ status[held[t]] # "queued"
    BY <1>0, <1>5 DEF ReadSettled, Notify, Executing, HeldRecord, Owing, Terminal
  <2>2. /\ UNCHANGED <<queue, status, phase>>
        /\ \A u \in Threads \ {t} : held'[u] = held[u] /\ pc'[u] = pc[u]
    BY <1>0, <1>5 DEF ReadSettled, Notify
  <2> QED
    BY <1>0, <2>1, <2>2 DEF NothingLost
<1>6. ASSUME NEW t \in Threads,
             Claim(t) \/ ReadQueued(t) \/ Admit(t) \/ DropCanceled(t)
                 \/ DropRelease(t) \/ Release(t)
      PROVE  NothingLost'
  <2>1. \A u \in Threads : pc[u] \in Executing => pc'[u] \in Executing
    BY <1>0, <1>6
       DEF Claim, ReadQueued, Admit, DropCanceled, DropRelease, Release, Executing
  <2>2. /\ UNCHANGED <<queue, phase, held>>
        /\ \A j \in Jobs : status'[j] \in {"queued", "running"} => status[j] = status'[j]
    BY <1>0, <1>6
       DEF Claim, ReadQueued, Admit, DropCanceled, DropRelease, Release
  <2> QED
    BY <1>1, <2>1, <2>2
<1>7. ASSUME NEW t \in Threads, StartRunning(t)
      PROVE  NothingLost'
  <2>1. /\ UNCHANGED <<queue, phase, held>>
        /\ \A j \in Jobs \ {held[t]} : status'[j] = status[j]
        /\ \A u \in Threads \ {t} : pc'[u] = pc[u]
        /\ pc'[t] = "running"
    BY <1>0, <1>7 DEF StartRunning
  <2>2. pc'[t] \in Executing /\ status'[held[t]] = "running"
    BY <1>0, <1>7, <2>1 DEF StartRunning, Executing
  <2> QED
    BY <1>0, <2>1, <2>2 DEF NothingLost
<1>8. ASSUME NEW t \in Threads,
             NotSpawned(t) \/ Spawn(t) \/ SavePid(t) \/ Collect(t) \/ SeeCancel(t)
                 \/ Timeout(t) \/ SpawnError(t) \/ Ingest(t) \/ SaveRefused(t)
      PROVE  NothingLost'
  <2>1. UNCHANGED <<queue, phase, held, status>>
    BY <1>8
       DEF NotSpawned, Spawn, SavePid, Collect, SeeCancel, Timeout, SpawnError,
           Ingest, SaveRefused
  <2>2. \A u \in Threads : pc[u] \in Executing => pc'[u] \in Executing
    BY <1>0, <1>8
       DEF NotSpawned, Spawn, SavePid, Collect, SeeCancel, Timeout, SpawnError,
           Ingest, SaveRefused, Executing
  <2> QED
    BY <1>1, <2>1, <2>2
<1>9. ASSUME NEW t \in Threads, StartFailed(t) \/ Finishes(t)
      PROVE  NothingLost'
  <2>1. held[t] \in Jobs
    BY <1>0, <1>9 DEF StartFailed, Finishes, Finish
  <2>2. /\ UNCHANGED <<queue, phase, held>>
        /\ \A j \in Jobs \ {held[t]} : status'[j] = status[j]
        /\ status'[held[t]] \in Terminal
        /\ \A u \in Threads \ {t} : pc'[u] = pc[u]
    BY <1>0, <1>9, <2>1 DEF StartFailed, Finishes, Finish, Terminal
  <2>3. status'[held[t]] \notin {"queued", "running"}
    BY <2>2 DEF Terminal
  <2> QED
    BY <1>1, <2>1, <2>2, <2>3
<1>10. ASSUME NEW c \in Clients, CancelStep(c) \/ \E j \in Jobs : CancelLook(c, j)
       PROVE  NothingLost'
  <2>1. /\ UNCHANGED <<queue, phase, held, pc>>
        /\ \A j \in Jobs : status'[j] \in {"queued", "running"} => status[j] = status'[j]
    BY <1>0, <1>10
       DEF CancelStep, CancelLook, CancelDecide, CancelOwns, CancelSet, CancelForget,
           CancelNotify
  <2> QED
    BY <1>1, <2>1
<1>11. ASSUME \/ \E j \in Jobs : ProviderExits(j)
              \/ \E f \in StopModes : Stop(f)
              \/ UNCHANGED vars
       PROVE  NothingLost'
  BY <1>1, <1>11 DEF ProviderExits, Stop
<1>12. CASE Crash \/ Restart \/ \E j \in Jobs : ReconcileRunning(j)
  BY <1>12 DEF Crash, Restart, ReconcileRunning, NothingLost
<1>13. CASE ReconcileQueued
  BY <1>0, <1>13, RequeueType DEF ReconcileQueued, NothingLost
<1> QED
  BY <1>2, <1>3, <1>4, <1>5, <1>6, <1>7, <1>8, <1>9, <1>10, <1>11, <1>12, <1>13
     DEF Next, Loop, Execute, Recover

\* A step gives a job a provider or a response only through the thread that
\* executes it, and the last write follows from what that thread has seen.
LEMMA TracesStep == PoolInv /\ [Next]_vars => Traces' /\ RecordTellsTruth'
<1> SUFFICES ASSUME PoolInv, [Next]_vars
             PROVE  Traces' /\ RecordTellsTruth'
  OBVIOUS
<1> USE DEF vars, disk, memory, threads, clients, life, At, Goto, Write, Reap
<1>0. /\ status \in [Jobs -> Status]
      /\ child \subseteq Jobs /\ ingested \subseteq Jobs
      /\ pc \in [Threads -> ThreadPC]
      /\ held \in [Threads -> Jobs \cup {NoJob}]
      /\ cjob \in [Clients -> Jobs \cup {NoJob}]
      /\ NoJob \notin Jobs
      /\ Traces /\ RecordTellsTruth /\ HeldRecord
      /\ \A t \in Threads : held[t] = NoJob <=> pc[t] \in {"get", "exited"}
      /\ \A t, u \in Threads : held[t] = held[u] /\ held[t] # NoJob => t = u
  BY PoolAssumption DEF PoolInv, TypeOK, HandsOK, OnePlace
<1>1. ASSUME UNCHANGED <<status, held, pc, ingested>>, child' \subseteq child
      PROVE  Traces' /\ RecordTellsTruth'
  BY <1>0, <1>1 DEF Traces, RecordTellsTruth
<1>2. ASSUME NEW j \in Jobs, Enqueue(j) \/ ProviderExits(j)
      PROVE  Traces' /\ RecordTellsTruth'
  BY <1>0, <1>2 DEF Enqueue, ProviderExits, Traces, RecordTellsTruth
<1>3. ASSUME \/ (\E f \in StopModes : Stop(f)) \/ PutSentinel \/ Restart
             \/ ReconcileQueued \/ UNCHANGED vars
      PROVE  Traces' /\ RecordTellsTruth'
  BY <1>1, <1>3 DEF Stop, PutSentinel, Restart, ReconcileQueued
<1>4. ASSUME NEW t \in Threads,
             Get(t) \/ Claim(t) \/ ReadQueued(t) \/ ReadSettled(t) \/ Admit(t)
                 \/ DropRelease(t) \/ Release(t) \/ Notify(t)
      PROVE  Traces' /\ RecordTellsTruth'
  <2>1. UNCHANGED disk /\ \A u \in Threads \ {t} : held'[u] = held[u] /\ pc'[u] = pc[u]
    BY <1>0, <1>4
       DEF Get, Claim, ReadQueued, ReadSettled, Admit, DropRelease, Release, Notify
  <2>2. pc'[t] \in {"exited", "claim", "read", "park", "get", "start", "notify"}
    BY <1>0, <1>4
       DEF Get, Claim, ReadQueued, ReadSettled, Admit, DropRelease, Release, Notify
  <2> QED
    BY <1>0, <2>1, <2>2 DEF Traces, RecordTellsTruth
<1>5. ASSUME NEW t \in Threads, DropCanceled(t) \/ StartFailed(t) \/ StartRunning(t)
      PROVE  Traces' /\ RecordTellsTruth'
  <2>1. /\ status[held[t]] = "queued" /\ held[t] \in Jobs
        /\ held[t] \notin child /\ held[t] \notin ingested
    BY <1>0, <1>5 DEF DropCanceled, StartFailed, StartRunning, HeldRecord, Traces
  <2>2. /\ UNCHANGED <<child, ingested, held>>
        /\ \A j \in Jobs \ {held[t]} : status'[j] = status[j]
        /\ status'[held[t]] \in {"canceled", "failed", "running"}
        /\ \A u \in Threads \ {t} : pc'[u] = pc[u]
        /\ pc'[t] \in {"dropped", "release", "running"}
    BY <1>0, <1>5, <2>1 DEF DropCanceled, StartFailed, StartRunning
  <2> QED
    BY <1>0, <2>1, <2>2 DEF Traces, RecordTellsTruth
<1>6. ASSUME NEW t \in Threads,
             NotSpawned(t) \/ Spawn(t) \/ SavePid(t) \/ Collect(t) \/ SeeCancel(t)
                 \/ Timeout(t) \/ SpawnError(t) \/ Ingest(t) \/ SaveRefused(t)
      PROVE  Traces' /\ RecordTellsTruth'
  <2>1. status[held[t]] = "running" /\ held[t] \in Jobs
    BY <1>0, <1>6
       DEF HeldRecord, Executing, NotSpawned, Spawn, SavePid, Collect, SeeCancel,
           Timeout, SpawnError, Ingest, SaveRefused
  <2>2. /\ UNCHANGED <<status, held>>
        /\ \A j \in Jobs \ {held[t]} : j \in child' => j \in child
        /\ \A j \in Jobs \ {held[t]} : j \in ingested' <=> j \in ingested
        /\ \A u \in Threads \ {t} : pc'[u] = pc[u]
    BY <1>0, <1>6, <2>1
       DEF NotSpawned, Spawn, SavePid, Collect, SeeCancel, Timeout, SpawnError,
           Ingest, SaveRefused
  <2>3. \/ pc'[t] = "failing"
        \/ pc'[t] \in {"spawned", "await"} /\ held[t] \notin ingested'
        \/ pc'[t] \in {"ingest", "canceling"} /\ held[t] \notin ingested' \cup child'
        \/ pc'[t] = "succeeding" /\ held[t] \in ingested' \ child'
    BY <1>0, <1>6
       DEF Traces, NotSpawned, Spawn, SavePid, Collect, SeeCancel, Timeout, SpawnError,
           Ingest, SaveRefused
  <2>4. \A u \in Threads \ {t} : held[u] # held[t]
    BY <1>0, <2>1
  <2>5. \A u \in Threads \ {t} :
            pc[u] \notin {"get", "exited"} => held[u] \in Jobs \ {held[t]}
    BY <1>0, <2>4
  <2>6. Traces'
    BY <1>0, <2>1, <2>2, <2>3, <2>5 DEF Traces
  <2>7. RecordTellsTruth'
    BY <1>0, <2>1, <2>2 DEF RecordTellsTruth
  <2> QED
    BY <2>6, <2>7
<1>7. ASSUME NEW t \in Threads, Finishes(t)
      PROVE  Traces' /\ RecordTellsTruth'
  <2>1. held[t] \in Jobs
    BY <1>0, <1>7 DEF Finishes, Finish
  <2>2. /\ UNCHANGED <<child, ingested, held>>
        /\ \A j \in Jobs \ {held[t]} : status'[j] = status[j]
        /\ \A u \in Threads \ {t} : pc'[u] = pc[u]
        /\ pc'[t] = "release"
    BY <1>0, <1>7 DEF Finishes, Finish
  <2>3. \/ status'[held[t]] = "succeeded" /\ held[t] \in ingested \ child
        \/ status'[held[t]] = "failed"
        \/ status'[held[t]] = "canceled" /\ held[t] \notin ingested \cup child
    BY <1>0, <1>7, <2>1 DEF Finishes, Finish, Traces
  <2> QED
    BY <1>0, <2>1, <2>2, <2>3 DEF Traces, RecordTellsTruth
<1>8. ASSUME NEW c \in Clients, CancelDecide(c)
      PROVE  Traces' /\ RecordTellsTruth'
  BY <1>0, <1>8 DEF CancelDecide, CancelOwns, Traces, RecordTellsTruth
<1>9. ASSUME NEW c \in Clients,
             CancelSet(c) \/ CancelForget(c) \/ CancelNotify(c)
                 \/ \E j \in Jobs : CancelLook(c, j)
      PROVE  Traces' /\ RecordTellsTruth'
  BY <1>1, <1>9 DEF CancelSet, CancelForget, CancelNotify, CancelLook
<1>10. CASE Crash
  BY <1>0, <1>10 DEF Crash, Traces, RecordTellsTruth
<1>11. ASSUME NEW j \in Jobs, ReconcileRunning(j)
       PROVE  Traces' /\ RecordTellsTruth'
  BY <1>0, <1>11 DEF ReconcileRunning, Traces, RecordTellsTruth
<1> QED
  BY <1>2, <1>3, <1>4, <1>5, <1>6, <1>7, <1>8, <1>9, <1>10, <1>11
     DEF Next, Loop, Execute, CancelStep, Recover

\* A step that takes jobs from the admission order, or leaves it alone: whoever
\* stops waiting has its job forgotten.
LEMMA OrderShrinks ==
    ASSUME PoolInv, NEW e, UNCHANGED queue,
           \/ UNCHANGED <<waiting, phase>>
           \/ phase' = "up" /\ waiting' = RemoveFirst(waiting, e),
           \A t \in Threads : Waits(t) =>
               \/ Waits(t)' /\ held'[t] = held[t]
               \/ held[t] = e /\ e \in Jobs /\ waiting' = RemoveFirst(waiting, e)
    PROVE  AdmissionOrder'
<1>1. /\ waiting \in Seq(Jobs) /\ AdmissionOrder
      /\ held \in [Threads -> Jobs \cup {NoJob}]
  BY DEF PoolInv, TypeOK
<1>2. /\ \A x, y : Before(waiting', x, y) => Before(waiting, x, y)
      /\ \A i \in DOMAIN waiting' : \E k \in DOMAIN waiting : waiting[k] = waiting'[i]
  <2>1. CASE waiting' = waiting
    BY <2>1
  <2>2. CASE waiting' = RemoveFirst(waiting, e)
    BY <1>1, <2>2, RemoveFirstOrder
  <2> QED
    BY <2>1, <2>2
<1>3. \A j : On(queue', j) <=> On(queue, j)
  BY DEF On
<1>4. phase' # "up" => waiting' = <<>>
  BY <1>1 DEF AdmissionOrder
<1>5. \A j \in Jobs : ~ Before(waiting', j, j)
  BY <1>1, <1>2 DEF AdmissionOrder
<1>6. ASSUME NEW i \in DOMAIN waiting'
      PROVE  \/ On(queue', waiting'[i])
             \/ \E t \in Threads : held'[t] = waiting'[i] /\ Waits(t)'
  <2>1. PICK k \in DOMAIN waiting : waiting[k] = waiting'[i]
    BY <1>2, <1>6
  <2>2. CASE On(queue, waiting[k])
    BY <1>3, <2>1, <2>2
  <2>3. ASSUME NEW t \in Threads, held[t] = waiting[k], Waits(t)
        PROVE  Waits(t)' /\ held'[t] = held[t]
    <3>1. ASSUME held[t] = e, e \in Jobs, waiting' = RemoveFirst(waiting, e)
          PROVE  FALSE
      <4>1. ~ Before(waiting, e, e)
        BY <1>1, <3>1 DEF AdmissionOrder
      <4>2. \A n \in DOMAIN waiting' : waiting'[n] # e
        BY <1>1, <3>1, <4>1, RemoveFirstOrder
      <4> QED
        BY <1>6, <2>1, <2>3, <3>1, <4>2
    <3> QED
      BY <2>3, <3>1
  <2>4. On(queue, waiting[k]) \/ \E t \in Threads : held[t] = waiting[k] /\ Waits(t)
    BY <1>1 DEF AdmissionOrder
  <2> QED
    BY <2>1, <2>2, <2>3, <2>4
<1>7. \A j, k \in Jobs : Before(waiting', j, k) /\ On(queue', j) => Before(queue', j, k)
  BY <1>1, <1>2, <1>3 DEF AdmissionOrder
<1> QED
  BY <1>4, <1>5, <1>6, <1>7 DEF AdmissionOrder

\* Jobs leave the queue in the order in which they are admitted.
LEMMA AdmissionOrderStep == PoolInv /\ [Next]_vars => AdmissionOrder'
<1> SUFFICES ASSUME PoolInv, [Next]_vars
             PROVE  AdmissionOrder'
  OBVIOUS
<1> USE DEF vars, disk, memory, threads, clients, life, At, Goto, Write, Forget
<1>0. /\ queue \in Seq(Jobs \cup {Sentinel}) /\ waiting \in Seq(Jobs)
      /\ pc \in [Threads -> ThreadPC]
      /\ held \in [Threads -> Jobs \cup {NoJob}]
      /\ Sentinel \notin Jobs /\ NoJob \notin Jobs
      /\ AdmissionOrder /\ OnePlace /\ HandsOK /\ Asleep
  BY PoolAssumption DEF PoolInv, TypeOK
<1>1. ASSUME NEW j \in Jobs, Enqueue(j)
      PROVE  AdmissionOrder'
  <2>1. /\ Len(queue) \in Nat /\ Len(waiting) \in Nat
        /\ DOMAIN queue = 1..Len(queue) /\ DOMAIN waiting = 1..Len(waiting)
        /\ DOMAIN queue' = 1..(Len(queue) + 1) /\ DOMAIN waiting' = 1..(Len(waiting) + 1)
        /\ \A i \in 1..Len(queue) : queue'[i] = queue[i]
        /\ \A i \in 1..Len(waiting) : waiting'[i] = waiting[i]
        /\ queue'[Len(queue) + 1] = j /\ waiting'[Len(waiting) + 1] = j
    BY <1>0, <1>1, AppendProperties, LenProperties DEF Enqueue
  <2>2. UNCHANGED <<pc, held>> /\ phase' = "up" /\ status[j] = "none"
    BY <1>1 DEF Enqueue
  <2>3. \A k : On(queue, k) \/ (\E t \in Threads : held[t] = k /\ Waits(t)) => k # j
    BY <1>0, <1>1, <2>2 DEF On, OnePlace, HandsOK, Waits
  <2>4. \A i \in 1..Len(waiting) : waiting[i] # j
    BY <1>0, <2>1, <2>3 DEF AdmissionOrder
  <2>5. \A x, y : Before(waiting', x, y) =>
            Before(waiting, x, y) \/ (y = j /\ \E i \in DOMAIN waiting : waiting[i] = x)
    <3> SUFFICES ASSUME NEW x, NEW y, NEW i \in DOMAIN waiting', NEW k \in DOMAIN waiting',
                        i < k, waiting'[i] = x, waiting'[k] = y
                 PROVE  Before(waiting, x, y) \/ (y = j /\ \E n \in DOMAIN waiting : waiting[n] = x)
      BY DEF Before
    <3>1. i \in DOMAIN waiting /\ waiting[i] = x
      BY <2>1
    <3>2. CASE k = Len(waiting) + 1
      BY <2>1, <3>1, <3>2
    <3>3. CASE k # Len(waiting) + 1
      BY <2>1, <3>1, <3>3 DEF Before
    <3> QED
      BY <3>2, <3>3
  <2>6. \A k : On(queue', k) <=> On(queue, k) \/ k = j
    BY <2>1 DEF On
  <2>7. \A x, y : Before(queue, x, y) => Before(queue', x, y)
    BY <2>1 DEF Before
  <2>8. \A x : On(queue, x) => Before(queue', x, j)
    BY <2>1 DEF On, Before
  <2>9. \A k \in Jobs : ~ Before(waiting', k, k)
    BY <1>0, <2>1, <2>4, <2>5 DEF AdmissionOrder
  <2>10. ASSUME NEW i \in DOMAIN waiting'
         PROVE  On(queue', waiting'[i]) \/ \E t \in Threads : held'[t] = waiting'[i] /\ Waits(t)'
    <3>1. CASE i = Len(waiting) + 1
      BY <2>1, <2>6, <3>1
    <3>2. CASE i # Len(waiting) + 1
      <4>1. i \in DOMAIN waiting /\ waiting'[i] = waiting[i]
        BY <2>1, <3>2
      <4>2. On(queue, waiting[i]) \/ \E t \in Threads : held[t] = waiting[i] /\ Waits(t)
        BY <1>0, <4>1 DEF AdmissionOrder
      <4> QED
        BY <2>2, <2>6, <4>1, <4>2 DEF Waits
    <3> QED
      BY <3>1, <3>2
  <2>11. ASSUME NEW x \in Jobs, NEW y \in Jobs, Before(waiting', x, y), On(queue', x)
         PROVE  Before(queue', x, y)
    <3>1. CASE Before(waiting, x, y)
      <4>1. x # j
        BY <2>1, <2>4, <3>1 DEF Before
      <4>2. Before(queue, x, y)
        BY <1>0, <2>6, <2>11, <3>1, <4>1 DEF AdmissionOrder
      <4> QED
        BY <2>7, <4>2
    <3>2. CASE y = j /\ \E i \in DOMAIN waiting : waiting[i] = x
      <4>1. x # j
        BY <2>1, <2>4, <3>2
      <4> QED
        BY <2>6, <2>8, <2>11, <3>2, <4>1
    <3> QED
      BY <2>5, <2>11, <3>1, <3>2
  <2> QED
    BY <2>2, <2>9, <2>10, <2>11 DEF AdmissionOrder
<1>2. CASE PutSentinel
  <2>1. /\ Len(queue) \in Nat
        /\ DOMAIN queue = 1..Len(queue) /\ DOMAIN queue' = 1..(Len(queue) + 1)
        /\ \A i \in 1..Len(queue) : queue'[i] = queue[i]
        /\ queue'[Len(queue) + 1] = Sentinel
    BY <1>0, <1>2, AppendProperties, LenProperties DEF PutSentinel
  <2>2. UNCHANGED <<pc, held, waiting, phase>>
    BY <1>2 DEF PutSentinel
  <2>3. \A k \in Jobs : On(queue', k) <=> On(queue, k)
    BY <1>0, <2>1 DEF On
  <2>4. \A x, y : Before(queue, x, y) => Before(queue', x, y)
    BY <2>1 DEF Before
  <2>5. \A i \in DOMAIN waiting : waiting[i] \in Jobs
    BY <1>0, ElementOfSeq, LenProperties
  <2> QED
    BY <1>0, <2>2, <2>3, <2>4, <2>5 DEF AdmissionOrder, Waits
<1>3. ASSUME NEW t \in Threads, Get(t)
      PROVE  AdmissionOrder'
  <2>1. /\ Len(queue) \in Nat \ {0}
        /\ Head(queue) = queue[1]
        /\ DOMAIN queue = 1..Len(queue)
        /\ DOMAIN queue' = 1..(Len(queue) - 1)
        /\ \A i \in DOMAIN queue' : queue'[i] = queue[i + 1]
    BY <1>0, <1>3, HeadTailProperties, LenProperties DEF Get
  <2>2. UNCHANGED <<waiting, phase>> /\ pc[t] = "get"
    BY <1>3, SMTT(60) DEF Get
  <2>3. queue[1] \in Jobs => held'[t] = queue[1] /\ Waits(t)'
    BY <1>0, <1>3, <2>1 DEF Get, Waits
  <2>4. \A u \in Threads : u # t => held'[u] = held[u] /\ (Waits(u)' <=> Waits(u))
    BY <1>0, <1>3 DEF Get, Waits
  <2>5. \A k : On(queue, k) => On(queue', k) \/ k = queue[1]
    <3> SUFFICES ASSUME NEW k, NEW p \in DOMAIN queue, queue[p] = k, k # queue[1]
                 PROVE  On(queue', k)
      BY DEF On
    <3>1. p - 1 \in DOMAIN queue' /\ (p - 1) + 1 = p
      BY <2>1
    <3>2. queue'[p - 1] = k
      BY <2>1, <3>1
    <3> QED
      BY <3>1, <3>2 DEF On
  <2>6. ASSUME NEW i \in DOMAIN waiting
        PROVE  On(queue', waiting[i]) \/ \E u \in Threads : held'[u] = waiting[i] /\ Waits(u)'
    <3>1. waiting[i] \in Jobs
      BY <1>0, ElementOfSeq, LenProperties
    <3>2. CASE On(queue, waiting[i])
      BY <2>3, <2>5, <3>1, <3>2
    <3>3. CASE \E u \in Threads : held[u] = waiting[i] /\ Waits(u)
      <4>1. PICK u \in Threads : held[u] = waiting[i] /\ Waits(u)
        BY <3>3
      <4>2. u # t
        BY <2>2, <4>1 DEF Waits
      <4> QED
        BY <2>4, <4>1, <4>2
    <3> QED
      BY <1>0, <3>2, <3>3 DEF AdmissionOrder
  <2>7. ASSUME NEW x \in Jobs, NEW y \in Jobs, Before(waiting, x, y), On(queue', x)
        PROVE  Before(queue', x, y)
    <3>1. PICK n \in DOMAIN queue' : queue'[n] = x
      BY <2>7 DEF On
    <3>2. n + 1 \in DOMAIN queue /\ queue[n + 1] = x /\ n \in Nat /\ n > 0
      BY <2>1, <3>1
    <3>3. Before(queue, x, y)
      BY <1>0, <2>7, <3>2 DEF AdmissionOrder, On
    <3>4. PICK p \in DOMAIN queue, q \in DOMAIN queue : p < q /\ queue[p] = x /\ queue[q] = y
      BY <3>3 DEF Before
    <3>5. p = n + 1
      BY <1>0, <3>2, <3>4 DEF OnePlace
    <3>6. /\ q - 1 \in DOMAIN queue' /\ n < q - 1 /\ (q - 1) + 1 = q
      BY <2>1, <3>2, <3>4, <3>5
    <3>7. queue'[q - 1] = y
      BY <2>1, <3>4, <3>6
    <3> QED
      BY <3>1, <3>6, <3>7 DEF Before
  <2> QED
    BY <1>0, <2>2, <2>6, <2>7 DEF AdmissionOrder
<1>4. ASSUME NEW t \in Threads, ReadSettled(t) \/ Admit(t) \/ DropRelease(t)
      PROVE  AdmissionOrder'
  <2>1. held[t] \in Jobs /\ UNCHANGED queue /\ phase' = "up"
    BY <1>0, <1>4 DEF HandsOK, ReadSettled, Admit, DropRelease
  <2>2. waiting' = RemoveFirst(waiting, held[t])
    BY <1>4 DEF ReadSettled, Admit, DropRelease
  <2>3. \A u \in Threads : u # t /\ Waits(u) => Waits(u)' /\ held'[u] = held[u]
    BY <1>0, <1>4 DEF ReadSettled, Admit, DropRelease, Waits
  <2> QED
    BY <2>1, <2>2, <2>3, OrderShrinks
<1>5. ASSUME NEW c \in Clients, CancelForget(c)
      PROVE  AdmissionOrder'
  <2>1. waiting' = RemoveFirst(waiting, cjob[c]) /\ UNCHANGED <<queue, pc, held>> /\ phase' = "up"
    BY <1>5 DEF CancelForget
  <2> QED
    BY <2>1, OrderShrinks DEF Waits
<1>6. ASSUME UNCHANGED <<queue, waiting, phase>>,
             \A t \in Threads : Waits(t) => Waits(t)' /\ held'[t] = held[t]
      PROVE  AdmissionOrder'
  BY <1>6, OrderShrinks
<1>7. ASSUME NEW t \in Threads,
             Claim(t) \/ ReadQueued(t) \/ DropCanceled(t) \/ Release(t) \/ Notify(t)
      PROVE  AdmissionOrder'
  BY <1>0, <1>6, <1>7 DEF Claim, ReadQueued, DropCanceled, Release, Notify, Waits
<1>8. ASSUME NEW t \in Threads, Execute(t)
      PROVE  AdmissionOrder'
  BY <1>0, <1>6, <1>8 DEF Execute, StartRunning, StartFailed, NotSpawned, Spawn, SavePid, Collect,
        SeeCancel, Timeout, SpawnError, Ingest, SaveRefused, Finishes, Finish, Waits
<1>9. ASSUME NEW c \in Clients,
             CancelDecide(c) \/ CancelSet(c) \/ CancelNotify(c) \/ \E j \in Jobs : CancelLook(c, j)
      PROVE  AdmissionOrder'
  <2>1. UNCHANGED <<queue, waiting, phase, pc, held>>
    BY <1>9 DEF CancelDecide, CancelOwns, CancelSet, CancelNotify, CancelLook
  <2> QED
    BY <1>6, <2>1 DEF Waits
<1>10. CASE Crash
  <2>1. queue' = <<>> /\ waiting' = <<>>
    BY <1>10 DEF Crash
  <2> QED
    BY <2>1 DEF AdmissionOrder, Before
<1>11. CASE ReconcileQueued
  <2>1. PICK s \in RequeueOrders : queue' = s /\ waiting' = s
    BY <1>11 DEF ReconcileQueued
  <2>2. s \in Seq(Jobs) /\ \A i, k \in DOMAIN s : s[i] = s[k] => i = k
    BY <2>1, RequeueType
  <2>3. \A j : ~ Before(s, j, j)
    BY <2>2, LenProperties DEF Before
  <2>4. \A i \in DOMAIN waiting' : On(queue', waiting'[i])
    BY <2>1 DEF On
  <2>5. phase' = "up"
    BY <1>11 DEF ReconcileQueued
  <2> QED
    BY <2>1, <2>3, <2>4, <2>5 DEF AdmissionOrder
<1>12. CASE Restart
  <2>1. waiting = <<>> /\ waiting' = waiting /\ queue' = queue /\ queue = <<>>
    BY <1>0, <1>12 DEF Restart, AdmissionOrder, Asleep
  <2> QED
    BY <2>1 DEF AdmissionOrder, Before
<1>13. CASE (\E j \in Jobs : ProviderExits(j) \/ ReconcileRunning(j))
             \/ (\E f \in StopModes : Stop(f)) \/ UNCHANGED vars
  <2>1. UNCHANGED <<queue, waiting, phase, pc, held>>
    BY <1>13 DEF ProviderExits, ReconcileRunning, Stop
  <2> QED
    BY <1>6, <2>1 DEF Waits
<1> QED
  BY <1>1, <1>2, <1>3, <1>4, <1>5, <1>7, <1>8, <1>9, <1>10, <1>11, <1>12, <1>13
     DEF Next, Loop, CancelStep, Recover

\* A job leaves its slot with its thread.
LEMMA SlotsHeldStep == PoolInv /\ [Next]_vars => SlotsHeld'
<1> SUFFICES ASSUME PoolInv, [Next]_vars
             PROVE  SlotsHeld'
  OBVIOUS
<1> USE DEF vars, disk, memory, threads, clients, life, At, Goto, Write, InSlot, Executing
<1>0. /\ pc \in [Threads -> ThreadPC]
      /\ held \in [Threads -> Jobs \cup {NoJob}]
      /\ SlotsHeld
  BY DEF PoolInv, TypeOK
<1>1. ASSUME running' \subseteq running,
             \A t \in Threads : pc[t] \in InSlot =>
                 held[t] \notin running' \/ (pc'[t] \in InSlot /\ held'[t] = held[t])
      PROVE  SlotsHeld'
  BY <1>0, <1>1 DEF SlotsHeld
<1>2. ASSUME NEW t \in Threads, Admit(t)
      PROVE  SlotsHeld'
  <2>1. /\ running' = running \cup {held[t]} /\ pc'[t] = "start" /\ held' = held
        /\ \A u \in Threads : u # t => pc'[u] = pc[u]
        /\ pc[t] = "park"
    BY <1>0, <1>2 DEF Admit
  <2> QED
    BY <1>0, <2>1 DEF SlotsHeld
<1>3. ASSUME NEW t \in Threads, Release(t)
      PROVE  SlotsHeld'
  <2>1. /\ running' = running \ {held[t]} /\ held' = held
        /\ \A u \in Threads : u # t => pc'[u] = pc[u]
    BY <1>0, <1>3 DEF Release
  <2> QED
    BY <1>1, <2>1
<1>4. ASSUME NEW t \in Threads, Execute(t)
      PROVE  SlotsHeld'
  <2>1. UNCHANGED <<running, held>> /\ pc'[t] \in InSlot
    BY <1>0, <1>4 DEF Execute, StartRunning, StartFailed, NotSpawned, Spawn, SavePid, Collect,
        SeeCancel, Timeout, SpawnError, Ingest, SaveRefused, Finishes, Finish
  <2>2. \A u \in Threads : u # t => pc'[u] = pc[u]
    BY <1>0, <1>4 DEF Execute, StartRunning, StartFailed, NotSpawned, Spawn, SavePid, Collect,
        SeeCancel, Timeout, SpawnError, Ingest, SaveRefused, Finishes, Finish
  <2> HIDE DEF InSlot
  <2> QED
    BY <1>0, <1>1, <2>1, <2>2
<1>5. ASSUME NEW t \in Threads,
             Get(t) \/ Claim(t) \/ ReadQueued(t) \/ ReadSettled(t) \/ DropCanceled(t)
                 \/ DropRelease(t) \/ Notify(t)
      PROVE  SlotsHeld'
  BY <1>0, <1>1, <1>5
     DEF Get, Claim, ReadQueued, ReadSettled, DropCanceled, DropRelease, Notify
<1>6. ASSUME NEW c \in Clients, CancelStep(c) \/ \E j \in Jobs : CancelLook(c, j)
      PROVE  SlotsHeld'
  <2>1. UNCHANGED <<running, pc, held>>
    BY <1>6 DEF CancelStep, CancelDecide, CancelOwns, CancelSet, CancelForget, CancelNotify, CancelLook
  <2> QED
    BY <1>1, <2>1
<1>7. CASE Crash
  BY <1>7 DEF Crash, SlotsHeld
<1>8. CASE (\E j \in Jobs : Enqueue(j) \/ ProviderExits(j)) \/ Recover \/ PutSentinel
             \/ (\E f \in StopModes : Stop(f)) \/ UNCHANGED vars
  <2>1. UNCHANGED <<running, pc, held>>
    BY <1>8 DEF Enqueue, ProviderExits, Recover, Restart, ReconcileRunning, ReconcileQueued,
        PutSentinel, Stop
  <2> QED
    BY <1>1, <2>1
<1> QED
  BY <1>2, <1>3, <1>4, <1>5, <1>6, <1>7, <1>8 DEF Next, Loop

\* A queue without its head has as many sentinels, but for the head.
LEMMA SentinelsOfTail ==
    ASSUME NEW q, NEW n \in Nat, DOMAIN q = 1..(n + 1),
           NEW r, DOMAIN r = 1..n, \A i \in 1..n : r[i] = q[i + 1]
    PROVE  /\ IsFiniteSet(SentinelsIn(q)) /\ IsFiniteSet(SentinelsIn(r))
           /\ Cardinality(SentinelsIn(q)) =
                  Cardinality(SentinelsIn(r)) + (IF q[1] = Sentinel THEN 1 ELSE 0)
<1> DEFINE Q == {p \in DOMAIN q : q[p] = Sentinel}
           R == {p \in DOMAIN r : r[p] = Sentinel}
           f == [p \in R |-> p + 1]
<1>1. IsFiniteSet(Q) /\ IsFiniteSet(R)
  <2>1. Q \in SUBSET (1..(n + 1)) /\ R \in SUBSET (1..n)
    OBVIOUS
  <2>2. IsFiniteSet(1..(n + 1)) /\ IsFiniteSet(1..n)
    BY FS_Interval
  <2> HIDE DEF Q, R
  <2> QED
    BY <2>1, <2>2, FS_Subset
<1>2. f \in Bijection(R, Q \ {1})
  <2>1. f \in [R -> Q \ {1}]
    <3>1. ASSUME NEW p \in R PROVE p + 1 \in Q \ {1}
      OBVIOUS
    <3> HIDE DEF Q, R
    <3> QED
      BY <3>1
  <2>2. \A a, b \in R : f[a] = f[b] => a = b
    OBVIOUS
  <2>3. \A p \in Q \ {1} : \E a \in R : f[a] = p
    <3> SUFFICES ASSUME NEW p \in Q \ {1} PROVE \E a \in R : f[a] = p
      OBVIOUS
    <3>1. p - 1 \in 1..n /\ (p - 1) + 1 = p
      OBVIOUS
    <3>2. r[p - 1] = Sentinel
      BY <3>1
    <3> QED
      BY <3>1, <3>2
  <2> HIDE DEF Q, R, f
  <2> QED
    BY <2>1, <2>2, <2>3 DEF Bijection, Injection, Surjection, IsInjective
<1>3. Cardinality(Q \ {1}) = Cardinality(R)
  <2> HIDE DEF Q, R, f
  <2> QED
    BY <1>1, <1>2, FS_Bijection DEF ExistsBijection
<1>4. 1 \in Q <=> q[1] = Sentinel
  OBVIOUS
<1>5. Cardinality(Q) = Cardinality(R) + (IF q[1] = Sentinel THEN 1 ELSE 0)
  <2> HIDE DEF Q, R, f
  <2>1. Cardinality(Q) \in Nat /\ Cardinality(R) \in Nat
    BY <1>1, FS_CardinalityType
  <2>2. Cardinality(Q \ {1}) = IF 1 \in Q THEN Cardinality(Q) - 1 ELSE Cardinality(Q)
    BY <1>1, FS_RemoveElement
  <2> QED
    BY <1>3, <1>4, <2>1, <2>2
<1> HIDE DEF Q, R
<1>6. Q = SentinelsIn(q) /\ R = SentinelsIn(r)
  BY DEF Q, R, SentinelsIn
<1> QED
  BY <1>1, <1>5, <1>6

\* A sentinel is put for each thread, and each thread that returns takes one.
LEMMA SentinelForEachStep == PoolInv /\ [Next]_vars => SentinelForEach'
<1> SUFFICES ASSUME PoolInv, [Next]_vars
             PROVE  SentinelForEach'
  OBVIOUS
<1> USE DEF vars, disk, memory, threads, clients, life, At, Goto, Write
<1>0. /\ queue \in Seq(Jobs \cup {Sentinel}) /\ owed \in Nat
      /\ pc \in [Threads -> ThreadPC] /\ stopping \in BOOLEAN
      /\ Sentinel \notin Jobs /\ IsFiniteSet(Threads)
      /\ SentinelForEach /\ Asleep
  BY PoolAssumption DEF PoolInv, TypeOK
<1>1. /\ Len(queue) \in Nat /\ DOMAIN queue = 1..Len(queue)
      /\ IsFiniteSet(SentinelsIn(queue)) /\ IsFiniteSet(Exited)
      /\ Cardinality(SentinelsIn(queue)) \in Nat /\ Cardinality(Exited) \in Nat
      /\ Cardinality(Threads) \in Nat
  <2>1. Len(queue) \in Nat /\ DOMAIN queue = 1..Len(queue)
    BY <1>0, LenProperties
  <2>2. SentinelsIn(queue) \in SUBSET (1..Len(queue)) /\ Exited \in SUBSET Threads
    BY <2>1 DEF SentinelsIn, Exited
  <2>3. IsFiniteSet(SentinelsIn(queue)) /\ IsFiniteSet(Exited)
    <3>1. IsFiniteSet(1..Len(queue))
      BY <2>1, FS_Interval
    <3>2. IsFiniteSet(SentinelsIn(queue))
      BY <2>2, <3>1, FS_Subset
    <3> QED
      BY <1>0, <2>2, <3>2, FS_Subset
  <2> QED
    BY <1>0, <2>1, <2>3, FS_CardinalityType
<1>2. ASSUME UNCHANGED <<stopping, owed>>, stopping => phase' = "up",
             SentinelsIn(queue') = SentinelsIn(queue), Exited' = Exited
      PROVE  SentinelForEach'
  BY <1>0, <1>2 DEF SentinelForEach
<1>3. ASSUME NEW j \in Jobs, Enqueue(j)
      PROVE  SentinelForEach'
  <2>1. /\ DOMAIN queue' = 1..(Len(queue) + 1) /\ queue'[Len(queue) + 1] = j
        /\ \A i \in 1..Len(queue) : queue'[i] = queue[i]
    <3>1. queue' = Append(queue, j) /\ j \in Jobs \cup {Sentinel}
      BY <1>3 DEF Enqueue
    <3>2. /\ queue' \in Seq(Jobs \cup {Sentinel}) /\ Len(queue') = Len(queue) + 1
          /\ \A i \in 1..Len(queue) : queue'[i] = queue[i]
      BY <1>0, <3>1, AppendProperties
    <3>3. DOMAIN queue' = 1..Len(queue')
      BY <3>2, LenProperties
    <3> QED
      BY <1>0, <3>1, <3>2, <3>3, AppendProperties
  <2>2. SentinelsIn(queue') = SentinelsIn(queue)
    BY <1>0, <1>1, <2>1 DEF SentinelsIn
  <2> QED
    BY <1>2, <1>3, <2>2 DEF Enqueue, Exited
<1>4. CASE PutSentinel
  <2>1. /\ DOMAIN queue' = 1..(Len(queue) + 1) /\ queue'[Len(queue) + 1] = Sentinel
        /\ \A i \in 1..Len(queue) : queue'[i] = queue[i]
    <3>1. queue' = Append(queue, Sentinel) /\ Sentinel \in Jobs \cup {Sentinel}
      BY <1>4 DEF PutSentinel
    <3>2. /\ queue' \in Seq(Jobs \cup {Sentinel}) /\ Len(queue') = Len(queue) + 1
          /\ \A i \in 1..Len(queue) : queue'[i] = queue[i]
      BY <1>0, <3>1, AppendProperties
    <3>3. DOMAIN queue' = 1..Len(queue')
      BY <3>2, LenProperties
    <3> QED
      BY <1>0, <3>1, <3>2, <3>3, AppendProperties
  <2>2. SentinelsIn(queue') = SentinelsIn(queue) \cup {Len(queue) + 1} /\ Len(queue) + 1 \notin SentinelsIn(queue)
    BY <1>1, <2>1 DEF SentinelsIn
  <2>3. Cardinality(SentinelsIn(queue')) = Cardinality(SentinelsIn(queue)) + 1
    BY <1>1, <2>2, FS_AddElement
  <2>4. /\ owed' = owed - 1 /\ owed > 0 /\ Exited' = Exited
        /\ UNCHANGED <<stopping, phase>>
    BY <1>4 DEF PutSentinel, Exited
  <2> QED
    BY <1>0, <1>1, <2>3, <2>4 DEF SentinelForEach
<1>5. ASSUME NEW f \in StopModes, Stop(f)
      PROVE  SentinelForEach'
  <2>1. /\ SentinelsIn(queue') = {} /\ Exited' = {} /\ owed' = Cardinality(Threads)
        /\ stopping' = TRUE /\ phase' = "up"
    BY <1>0, <1>5 DEF Stop, Sentinels, SentinelForEach, SentinelsIn, Exited
  <2> QED
    BY <1>1, <2>1, FS_EmptySet DEF SentinelForEach
<1>6. ASSUME NEW t \in Threads, Get(t)
      PROVE  SentinelForEach'
  <2>1. /\ Len(queue) \in Nat \ {0} /\ Head(queue) = queue[1]
        /\ DOMAIN queue' = 1..(Len(queue) - 1)
        /\ \A i \in DOMAIN queue' : queue'[i] = queue[i + 1]
    <3>1. queue' = Tail(queue) /\ queue # <<>>
      BY <1>6, SMTT(60) DEF Get
    <3>2. /\ queue' \in Seq(Jobs \cup {Sentinel}) /\ Len(queue') = Len(queue) - 1
          /\ \A i \in 1..Len(queue') : queue'[i] = queue[i + 1]
          /\ Len(queue) # 0
      BY <1>0, <1>1, <3>1, HeadTailProperties, EmptySeq
    <3>3. DOMAIN queue' = 1..Len(queue')
      BY <3>2, LenProperties
    <3>4. Head(queue) = queue[1]
      BY <1>0, <3>1
    <3>5. DOMAIN queue' = 1..(Len(queue) - 1) /\ Len(queue) \in Nat \ {0}
      BY <1>1, <3>2, <3>3
    <3> QED
      BY <3>2, <3>3, <3>4, <3>5
  <2>2. /\ UNCHANGED <<owed, stopping, phase>> /\ pc[t] = "get" /\ phase = "up"
    BY <1>6 DEF Get
  <2>3. /\ IsFiniteSet(SentinelsIn(queue')) /\ Cardinality(SentinelsIn(queue')) \in Nat
        /\ Cardinality(SentinelsIn(queue)) =
               Cardinality(SentinelsIn(queue')) + (IF queue[1] = Sentinel THEN 1 ELSE 0)
    <3>1. Len(queue) - 1 \in Nat /\ DOMAIN queue = 1..((Len(queue) - 1) + 1)
      BY <1>1, <2>1
    <3>2. /\ IsFiniteSet(SentinelsIn(queue'))
          /\ Cardinality(SentinelsIn(queue)) =
                 Cardinality(SentinelsIn(queue')) + (IF queue[1] = Sentinel THEN 1 ELSE 0)
      <4> DEFINE n == Len(queue) - 1
      <4>1. /\ DOMAIN queue = 1..(n + 1) /\ DOMAIN queue' = 1..n /\ n \in Nat
            /\ \A i \in 1..n : queue'[i] = queue[i + 1]
        BY <2>1, <3>1
      <4> HIDE DEF n
      <4> QED
        BY <4>1, SentinelsOfTail
    <3> QED
      BY <3>2, FS_CardinalityType
  <2>4. CASE queue[1] = Sentinel
    <3>1. pc' = [pc EXCEPT ![t] = "exited"]
      BY <1>6, <2>1, <2>4 DEF Get
    <3>2. Exited' = Exited \cup {t} /\ t \notin Exited
      BY <1>0, <2>2, <3>1 DEF Exited
    <3>3. Cardinality(Exited') = Cardinality(Exited) + 1
      BY <1>1, <3>2, FS_AddElement
    <3>4. stopping
      BY <1>0, <1>1, <2>1, <2>4 DEF SentinelForEach, SentinelsIn
    <3> QED
      BY <1>0, <1>1, <2>2, <2>3, <2>4, <3>3, <3>4 DEF SentinelForEach
  <2>5. CASE queue[1] # Sentinel
    <3>1. pc' = [pc EXCEPT ![t] = "claim"]
      BY <1>6, <2>1, <2>5 DEF Get
    <3>2. Exited' = Exited
      BY <1>0, <2>2, <3>1 DEF Exited
    <3>3. SentinelsIn(queue) = {} => SentinelsIn(queue') = {}
      BY <1>1, <2>1 DEF SentinelsIn
    <3> QED
      BY <1>0, <1>1, <2>2, <2>3, <2>5, <3>2, <3>3 DEF SentinelForEach
  <2> QED
    BY <2>4, <2>5
<1>7. ASSUME NEW t \in Threads, (Loop(t) /\ ~ Get(t)) \/ Execute(t)
      PROVE  SentinelForEach'
  <2>1. UNCHANGED <<queue, owed, stopping, phase>> /\ phase = "up"
    BY <1>7 DEF Loop, Claim, ReadQueued, ReadSettled, Admit, DropCanceled, DropRelease, Release,
        Notify, Execute, StartRunning, StartFailed, NotSpawned, Spawn, SavePid, Collect,
        SeeCancel, Timeout, SpawnError, Ingest, SaveRefused, Finishes, Finish
  <2>2. pc[t] # "exited" /\ pc'[t] # "exited" /\ \A u \in Threads : u # t => pc'[u] = pc[u]
    BY <1>0, <1>7 DEF Loop, Claim, ReadQueued, ReadSettled, Admit, DropCanceled, DropRelease, Release,
        Notify, Execute, StartRunning, StartFailed, NotSpawned, Spawn, SavePid, Collect,
        SeeCancel, Timeout, SpawnError, Ingest, SaveRefused, Finishes, Finish
  <2>3. Exited' = Exited /\ SentinelsIn(queue') = SentinelsIn(queue)
    BY <2>1, <2>2 DEF Exited, SentinelsIn
  <2> QED
    BY <1>2, <2>1, <2>3
<1>8. ASSUME NEW c \in Clients, CancelStep(c) \/ \E j \in Jobs : CancelLook(c, j)
      PROVE  SentinelForEach'
  <2>1. UNCHANGED <<queue, pc, owed, stopping, phase>> /\ phase = "up"
    BY <1>8 DEF CancelStep, CancelDecide, CancelOwns, CancelSet, CancelForget, CancelNotify, CancelLook
  <2> QED
    BY <1>2, <2>1 DEF SentinelsIn, Exited
<1>9. CASE Crash
  BY <1>9 DEF Crash, SentinelForEach, SentinelsIn, Exited
<1>10. CASE ReconcileQueued
  <2>1. PICK s \in RequeueOrders : queue' = s
    BY <1>10 DEF ReconcileQueued
  <2>2. \A i \in DOMAIN s : s[i] # Sentinel
    <3>1. s \in Seq(Jobs)
      BY <2>1, RequeueType
    <3> QED
      BY <1>0, <3>1, ElementOfSeq, LenProperties
  <2>3. SentinelsIn(queue') = {}
    BY <2>1, <2>2 DEF SentinelsIn
  <2>4. UNCHANGED <<pc, owed, stopping>> /\ phase' = "up" /\ phase # "up"
    BY <1>10 DEF ReconcileQueued
  <2> QED
    BY <1>0, <2>3, <2>4 DEF SentinelForEach, Exited
<1>11. CASE Restart \/ (\E j \in Jobs : ProviderExits(j) \/ ReconcileRunning(j)) \/ UNCHANGED vars
  <2>1. UNCHANGED <<queue, pc, owed, stopping>> /\ (stopping => phase' = "up")
    BY <1>0, <1>11 DEF ProviderExits, ReconcileRunning, Restart, SentinelForEach
  <2> QED
    BY <1>2, <2>1 DEF SentinelsIn, Exited
<1> QED
  BY <1>3, <1>4, <1>5, <1>6, <1>7, <1>8, <1>9, <1>10, <1>11
     DEF Next, Loop, Recover

\* Somebody can go on: a thread in a slot; without one, the thread that has the
\* head of the admission order, which is not on the queue while a job behind it
\* is in a thread's hands.
LEMMA MovesFromOrder ==
    TypeOK /\ HandsOK /\ OnePlace /\ AdmissionOrder /\ SlotsHeld /\ SentinelForEach => PoolMoves
<1> SUFFICES ASSUME TypeOK, HandsOK, OnePlace, AdmissionOrder, SlotsHeld, SentinelForEach,
                    phase = "up"
             PROVE  /\ (\E t \in Threads : pc[t] = "park") => \E u \in Threads : CanGo(u)
                    /\ stopping => \A t \in Threads : pc[t] = "get" => queue # <<>> \/ owed > 0
  BY DEF PoolMoves
<1>0. /\ waiting \in Seq(Jobs) /\ queue \in Seq(Jobs \cup {Sentinel}) /\ owed \in Nat
      /\ running \subseteq Jobs /\ held \in [Threads -> Jobs \cup {NoJob}]
      /\ IsFiniteSet(Threads)
  BY PoolAssumption DEF TypeOK
<1>1. ASSUME NEW t \in Threads, pc[t] = "park"
      PROVE  \E u \in Threads : CanGo(u)
  <2>1. held[t] \in Jobs
    BY <1>0, <1>1 DEF HandsOK
  <2>2. CASE running # {}
    <3>1. PICK u \in Threads : pc[u] \in InSlot
      BY <2>2 DEF SlotsHeld
    <3> QED
      BY <3>1 DEF CanGo, InSlot, Executing
  <2>3. CASE running = {} /\ ~ On(waiting, held[t])
    BY <1>1, <2>3 DEF CanGo, Admissible, On
  <2>4. CASE running = {} /\ On(waiting, held[t])
    <3> DEFINE first == Head(waiting)
    <3>1. PICK i \in DOMAIN waiting : waiting[i] = held[t]
      BY <2>4 DEF On
    <3>2. 1 \in DOMAIN waiting /\ first = waiting[1] /\ first \in Jobs /\ i \in Nat /\ 1 <= i
      BY <1>0, <3>1, HeadTailProperties, LenProperties, ElementOfSeq
    <3> HIDE DEF first
    <3>3. CASE On(queue, first)
      <4>1. ~ On(queue, held[t])
        BY DEF OnePlace, On
      <4>2. i # 1
        BY <3>1, <3>2, <3>3, <4>1
      <4>3. Before(waiting, first, held[t])
        BY <3>1, <3>2, <4>2 DEF Before
      <4>4. Before(queue, first, held[t])
        BY <2>1, <3>2, <3>3, <4>3 DEF AdmissionOrder
      <4> QED
        BY <4>1, <4>4 DEF Before, On
    <3>4. ASSUME NEW u \in Threads, held[u] = first, Waits(u)
          PROVE  CanGo(u)
      BY <2>4, <3>4 DEF CanGo, Waits, Admissible, first
    <3> QED
      BY <3>2, <3>3, <3>4 DEF AdmissionOrder
  <2> QED
    BY <2>2, <2>3, <2>4
<1>2. ASSUME stopping, NEW t \in Threads, pc[t] = "get", queue = <<>>, ~ (owed > 0)
      PROVE  FALSE
  <2>1. SentinelsIn(queue) = {} /\ Cardinality(SentinelsIn(queue)) = 0
    BY <1>2, FS_EmptySet DEF SentinelsIn
  <2>2. Cardinality(Exited) \in Nat /\ Exited \in SUBSET Threads
    BY <1>0, FS_Subset, FS_CardinalityType DEF Exited
  <2>3. Cardinality(Exited) = Cardinality(Threads)
    BY <1>0, <1>2, <2>1, <2>2 DEF SentinelForEach
  <2>4. Exited = Threads
    BY <1>0, <2>2, <2>3, FS_Subset
  <2> QED
    BY <1>2, <2>4 DEF Exited
<1> QED
  BY <1>1, <1>2

\* A job becomes terminal only by whoever then owes its announcement, and what is
\* owed is kept until it is paid.
LEMMA HookOwedStep == PoolInv /\ [Next]_vars => HookOwed'
<1> SUFFICES ASSUME PoolInv, [Next]_vars
             PROVE  HookOwed'
  OBVIOUS
<1> USE DEF vars, disk, memory, threads, clients, life, At, Goto, Write
<1>0. /\ status \in [Jobs -> Status]
      /\ hooks \in [Jobs -> Nat]
      /\ pc \in [Threads -> ThreadPC]
      /\ held \in [Threads -> Jobs \cup {NoJob}]
      /\ cpc \in [Clients -> ClientPC]
      /\ cjob \in [Clients -> Jobs \cup {NoJob}]
      /\ crashes \in Nat
      /\ NoJob \notin Jobs
      /\ HookOwed
      /\ \A t \in Threads : held[t] = NoJob <=> pc[t] \in {"get", "exited"}
      /\ \A t \in Threads : pc[t] \in Owing => hooks[held[t]] = 0
      /\ \A c \in Clients : cpc[c] \in Mine => hooks[cjob[c]] = 0
      /\ \A c \in Clients : cjob[c] = NoJob <=> cpc[c] = "idle"
  BY PoolAssumption DEF PoolInv, TypeOK, HandsOK, HeldRecord, OneAnnouncer
<1>1. ASSUME UNCHANGED <<phase, crashes>>,
             \A j \in Jobs : status'[j] \in Terminal => status[j] \in Terminal,
             \A j \in Jobs : hooks[j] = 1 => hooks'[j] = 1,
             \A t \in Threads : pc[t] \in Owing =>
                 (pc'[t] \in Owing /\ held'[t] = held[t]) \/ hooks'[held[t]] = 1,
             \A c \in Clients : cpc[c] \in Mine =>
                 (cpc'[c] \in Mine /\ cjob'[c] = cjob[c]) \/ hooks'[cjob[c]] = 1
      PROVE  HookOwed'
  BY <1>0, <1>1 DEF HookOwed, Announcer
<1>2. ASSUME NEW j \in Jobs, Enqueue(j)
      PROVE  HookOwed'
  <2>1. \A k \in Jobs : status'[k] \in Terminal => status[k] \in Terminal
    BY <1>0, <1>2 DEF Enqueue, Terminal
  <2> QED
    BY <1>1, <1>2, <2>1 DEF Enqueue
<1>3. ASSUME \/ \E f \in StopModes : Stop(f)
             \/ PutSentinel
             \/ \E j \in Jobs : ProviderExits(j)
             \/ UNCHANGED vars
      PROVE  HookOwed'
  BY <1>1, <1>3 DEF Stop, PutSentinel, ProviderExits
<1>4. ASSUME NEW t \in Threads,
             Get(t) \/ Claim(t) \/ ReadQueued(t) \/ ReadSettled(t) \/ Admit(t)
                 \/ DropRelease(t) \/ Release(t)
      PROVE  HookOwed'
  <2>1. /\ UNCHANGED <<status, hooks, cpc, cjob, phase, crashes>>
        /\ \A u \in Threads \ {t} : pc'[u] = pc[u] /\ held'[u] = held[u]
        /\ pc[t] \in Owing => pc'[t] \in Owing /\ held'[t] = held[t]
    BY <1>0, <1>4
       DEF Get, Claim, ReadQueued, ReadSettled, Admit, DropRelease, Release, Owing
  <2> QED
    BY <1>1, <2>1
<1>5. ASSUME NEW t \in Threads, DropCanceled(t) \/ StartFailed(t) \/ Finishes(t)
      PROVE  HookOwed'
  <2>1. held[t] \in Jobs /\ pc[t] \notin Owing
    BY <1>0, <1>5 DEF DropCanceled, StartFailed, Finishes, Finish, Owing
  <2>2. /\ UNCHANGED <<hooks, cpc, cjob, phase, crashes, held>>
        /\ \A u \in Threads \ {t} : pc'[u] = pc[u]
        /\ pc'[t] \in Owing
        /\ \A j \in Jobs \ {held[t]} : status'[j] = status[j]
    BY <1>0, <1>5, <2>1 DEF DropCanceled, StartFailed, Finishes, Finish, Owing
  <2>3. Announcer(held[t])'
    BY <2>2 DEF Announcer
  <2>4. \A j \in Jobs : Announcer(j) => Announcer(j)'
    BY <2>1, <2>2 DEF Announcer
  <2> QED
    BY <1>0, <2>2, <2>3, <2>4 DEF HookOwed
<1>6. ASSUME NEW t \in Threads,
             StartRunning(t) \/ NotSpawned(t) \/ Spawn(t) \/ SavePid(t) \/ Collect(t)
                 \/ SeeCancel(t) \/ Timeout(t) \/ SpawnError(t) \/ Ingest(t) \/ SaveRefused(t)
      PROVE  HookOwed'
  <2>1. /\ UNCHANGED <<hooks, cpc, cjob, phase, crashes, held>>
        /\ \A u \in Threads \ {t} : pc'[u] = pc[u]
        /\ pc[t] \notin Owing
    BY <1>0, <1>6
       DEF StartRunning, NotSpawned, Spawn, SavePid, Collect, SeeCancel, Timeout,
           SpawnError, Ingest, SaveRefused, Owing
  <2>2. \A j \in Jobs : status'[j] \in Terminal => status[j] \in Terminal
    BY <1>0, <1>6
       DEF StartRunning, NotSpawned, Spawn, SavePid, Collect, SeeCancel, Timeout,
           SpawnError, Ingest, SaveRefused, Terminal
  <2> QED
    BY <1>1, <2>1, <2>2
<1>7. ASSUME NEW t \in Threads, Notify(t)
      PROVE  HookOwed'
  <2>1. held[t] \in Jobs /\ hooks[held[t]] = 0
    BY <1>0, <1>7 DEF Notify, Owing
  <2>2. /\ UNCHANGED <<status, cpc, cjob, phase, crashes>>
        /\ \A u \in Threads \ {t} : pc'[u] = pc[u] /\ held'[u] = held[u]
        /\ hooks'[held[t]] = 1
        /\ \A j \in Jobs \ {held[t]} : hooks'[j] = hooks[j]
    BY <1>0, <1>7, <2>1 DEF Notify, Announce
  <2> QED
    BY <1>1, <2>1, <2>2
<1>8. ASSUME NEW c \in Clients, CancelDecide(c)
      PROVE  HookOwed'
  <2>1. cjob[c] \in Jobs /\ cpc[c] \notin Mine
    BY <1>0, <1>8 DEF CancelDecide, Mine
  <2>2. /\ UNCHANGED <<hooks, cjob, phase, crashes, pc, held>>
        /\ \A d \in Clients \ {c} : cpc'[d] = cpc[d]
    BY <1>0, <1>8 DEF CancelDecide
  <2>3. \A j \in Jobs : Announcer(j) => Announcer(j)'
    BY <2>1, <2>2 DEF Announcer
  <2>4. CASE CancelOwns(cjob[c])
    <3>1. cpc'[c] \in Mine /\ \A j \in Jobs \ {cjob[c]} : status'[j] = status[j]
      BY <1>0, <1>8, <2>4 DEF CancelDecide, Mine
    <3>2. Announcer(cjob[c])'
      BY <2>2, <3>1 DEF Announcer
    <3> QED
      BY <1>0, <2>2, <2>3, <3>1, <3>2 DEF HookOwed
  <2>5. CASE ~ CancelOwns(cjob[c])
    <3>1. status' = status
      BY <1>8, <2>5 DEF CancelDecide
    <3> QED
      BY <1>0, <2>2, <2>3, <3>1 DEF HookOwed
  <2> QED
    BY <2>4, <2>5
<1>9. ASSUME NEW c \in Clients,
             CancelSet(c) \/ CancelForget(c) \/ \E j \in Jobs : CancelLook(c, j)
      PROVE  HookOwed'
  <2>1. /\ UNCHANGED <<status, hooks, phase, crashes, pc, held>>
        /\ \A d \in Clients \ {c} : cpc'[d] = cpc[d] /\ cjob'[d] = cjob[d]
        /\ cpc[c] \in Mine => cpc'[c] \in Mine /\ cjob'[c] = cjob[c]
    BY <1>0, <1>9 DEF CancelSet, CancelForget, CancelLook, Mine
  <2> QED
    BY <1>1, <2>1
<1>10. ASSUME NEW c \in Clients, CancelNotify(c)
       PROVE  HookOwed'
  <2>1. cjob[c] \in Jobs /\ hooks[cjob[c]] = 0
    BY <1>0, <1>10 DEF CancelNotify, Mine
  <2>2. /\ UNCHANGED <<status, phase, crashes, pc, held>>
        /\ \A d \in Clients \ {c} : cpc'[d] = cpc[d] /\ cjob'[d] = cjob[d]
        /\ hooks'[cjob[c]] = 1
        /\ \A j \in Jobs \ {cjob[c]} : hooks'[j] = hooks[j]
    BY <1>0, <1>10, <2>1 DEF CancelNotify, Announce
  <2> QED
    BY <1>1, <2>1, <2>2
<1>11. CASE Crash
  <2>1. crashes' # 0
    BY <1>0, <1>11 DEF Crash
  <2> QED
    BY <2>1 DEF HookOwed
<1>12. CASE Recover
  <2>1. crashes # 0 /\ crashes' = crashes
    BY <1>0, <1>12 DEF Recover, Restart, ReconcileRunning, ReconcileQueued, HookOwed
  <2> QED
    BY <2>1 DEF HookOwed
<1> QED
  BY <1>2, <1>3, <1>4, <1>5, <1>6, <1>7, <1>8, <1>9, <1>10, <1>11, <1>12
     DEF Next, Loop, Execute, CancelStep

LEMMA MovesFromOrderNext ==
    (TypeOK /\ HandsOK /\ OnePlace /\ AdmissionOrder /\ SlotsHeld /\ SentinelForEach)' => PoolMoves'
<1> QED
  BY MovesFromOrder, PTL

LEMMA InvStep == PoolInv /\ [Next]_vars => PoolInv'
<1> SUFFICES ASSUME PoolInv, [Next]_vars
             PROVE  PoolInv'
  OBVIOUS
<1>1. TypeOK' /\ HandsOK' /\ Asleep' /\ OnePlace'
  BY TypeStep, HandsStep, AsleepStep, OnePlaceStep DEF PoolInv
<1>2. HeldRecord' /\ Slots' /\ OneBatchAtATime' /\ OneAnnouncer' /\ HookOnce'
  BY HeldRecordStep, SlotsStep, AnnouncerStep
<1>3. Traces' /\ RecordTellsTruth' /\ NothingLost'
  BY TracesStep, NothingLostStep
<1>4. AdmissionOrder' /\ SlotsHeld' /\ SentinelForEach'
  BY AdmissionOrderStep, SlotsHeldStep, SentinelForEachStep
<1>5. PoolMoves'
  BY <1>1, <1>4, MovesFromOrderNext
<1>6. HookOwed'
  BY HookOwedStep
<1> QED
  BY <1>1, <1>2, <1>3, <1>4, <1>5, <1>6 DEF PoolInv

\* The invariant of the pool holds in every reachable state.
THEOREM Invariance == Spec => []PoolInv
<1> QED
  BY InvInit, InvStep, PTL DEF Spec

\* The admission rule, for every number of threads, jobs, batches and deaths.
THEOREM OneBatch == Spec => []OneBatchAtATime
<1>1. PoolInv => OneBatchAtATime
  BY DEF PoolInv
<1> QED
  BY <1>1, Invariance, PTL

\* No completion is announced twice, or before its terminal record.
THEOREM AnnouncedOnce == Spec => []HookOnce
<1>1. PoolInv => HookOnce
  BY DEF PoolInv
<1> QED
  BY <1>1, Invariance, PTL

\* No cancel, death or shutdown leaves a live record that nobody works on.
THEOREM NoneLost == Spec => []NothingLost
<1>1. PoolInv => NothingLost
  BY DEF PoolInv
<1> QED
  BY <1>1, Invariance, PTL

\* Nobody is parked for nothing: as long as a thread waits for admission some
\* thread has a step to take, and a shutdown leaves no thread on a dry queue, for
\* every number of threads, jobs and batches.
THEOREM NeverStuck == Spec => []PoolMoves
<1>1. PoolInv => PoolMoves
  BY DEF PoolInv
<1> QED
  BY <1>1, Invariance, PTL

\* Until a daemon dies no completion is forgotten: whoever made a job terminal, a
\* thread or a cancel, has announced it or still has to, for any jobs, threads and
\* clients. With AnnouncedOnce: exactly once.
THEOREM NoneUnannounced == Spec => []HookOwed
<1>1. PoolInv => HookOwed
  BY DEF PoolInv
<1> QED
  BY <1>1, Invariance, PTL

\* A terminal record agrees with the run and the provider it is about.
THEOREM TruthIsTold == Spec => []RecordTellsTruth
<1>1. PoolInv => RecordTellsTruth
  BY DEF PoolInv
<1> QED
  BY <1>1, Invariance, PTL

-----------------------------------------------------------------------------
\* The pool implements JobRecords.

LEMMA RecordsInit == Init => Records!Init
  BY DEF Init, Records!Init

\* A step of the pool is one step of one record, or none.
LEMMA RecordsStep == PoolInv /\ [Next]_vars => [Records!Next]_(Records!vars)
<1> SUFFICES ASSUME PoolInv, [Next]_vars
             PROVE  [Records!Next]_(Records!vars)
  OBVIOUS
<1> USE DEF vars, disk, memory, threads, clients, life, At, Goto, Write, Terminal,
            Records!vars, Records!Terminal
<1>0. /\ status \in [Jobs -> Status]
      /\ hooks \in [Jobs -> Nat]
      /\ held \in [Threads -> Jobs \cup {NoJob}]
      /\ cjob \in [Clients -> Jobs \cup {NoJob}]
      /\ NoJob \notin Jobs
      /\ HeldRecord
      /\ \A t \in Threads : held[t] = NoJob <=> pc[t] \in {"get", "exited"}
      /\ \A c \in Clients : cjob[c] = NoJob <=> cpc[c] = "idle"
  BY PoolAssumption DEF PoolInv, TypeOK, HandsOK
<1>1. ASSUME NEW j \in Jobs, Enqueue(j)
      PROVE  Records!Submit(j)
  BY <1>1 DEF Enqueue, Records!Submit
<1>2. ASSUME NEW t \in Threads, StartRunning(t)
      PROVE  held[t] \in Jobs /\ Records!Begin(held[t])
  <2>1. held[t] \in Jobs /\ held[t] \in running /\ status[held[t]] = "queued"
    BY <1>0, <1>2 DEF StartRunning, HeldRecord, InSlot, Executing
  <2>2. \A k \in Jobs : status[k] = "running" => k \in running /\ k # held[t]
    BY <1>2, <2>1 DEF StartRunning, PoolInv, Slots
  <2>3. \A k \in Jobs : status[k] = "running" =>
            Batch[held[t]] # NoBatch /\ Batch[k] = Batch[held[t]]
    BY <2>1, <2>2 DEF PoolInv, Slots
  <2> QED
    BY <1>2, <2>1, <2>3 DEF StartRunning, Records!Begin
<1>3. ASSUME NEW t \in Threads, DropCanceled(t) \/ StartFailed(t)
      PROVE  held[t] \in Jobs /\ \E s \in Terminal : Records!End(held[t], s)
  <2>1. held[t] \in Jobs /\ status[held[t]] = "queued"
    BY <1>0, <1>3 DEF DropCanceled, StartFailed, HeldRecord
  <2> QED
    BY <1>3, <2>1 DEF DropCanceled, StartFailed, Records!End
<1>4. ASSUME NEW t \in Threads, Finishes(t)
      PROVE  held[t] \in Jobs /\ \E s \in Terminal : Records!End(held[t], s)
  <2>1. held[t] \in Jobs /\ status[held[t]] = "running"
    BY <1>0, <1>4 DEF Finishes, Finish, HeldRecord, Executing
  <2> QED
    BY <1>4, <2>1 DEF Finishes, Finish, Records!End
<1>5. ASSUME NEW t \in Threads, Notify(t)
      PROVE  held[t] \in Jobs /\ Records!Announce(held[t])
  <2>1. held[t] \in Jobs /\ status[held[t]] \in Terminal /\ hooks[held[t]] = 0
    BY <1>0, <1>5 DEF Notify, HeldRecord, Owing
  <2> QED
    BY <1>0, <1>5, <2>1 DEF Notify, Announce, Records!Announce
<1>6. ASSUME NEW c \in Clients, CancelDecide(c)
      PROVE  \/ UNCHANGED <<status, hooks>>
             \/ cjob[c] \in Jobs /\ \E s \in Terminal : Records!End(cjob[c], s)
  <2>1. cjob[c] \in Jobs
    BY <1>0, <1>6 DEF CancelDecide
  <2> QED
    BY <1>6, <2>1 DEF CancelDecide, CancelOwns, Records!End
<1>7. ASSUME NEW c \in Clients, CancelNotify(c)
      PROVE  cjob[c] \in Jobs /\ Records!Announce(cjob[c])
  <2>1. cjob[c] \in Jobs /\ status[cjob[c]] \in Terminal /\ hooks[cjob[c]] = 0
    BY <1>0, <1>7 DEF CancelNotify, PoolInv, OneAnnouncer, Mine
  <2> QED
    BY <1>0, <1>7, <2>1 DEF CancelNotify, Announce, Records!Announce
<1>8. ASSUME NEW j \in Jobs, ReconcileRunning(j)
      PROVE  \E s \in Terminal : Records!End(j, s)
  BY <1>8 DEF ReconcileRunning, Records!End
<1>9. ASSUME NEW t \in Threads,
             Get(t) \/ Claim(t) \/ ReadQueued(t) \/ ReadSettled(t) \/ Admit(t)
                 \/ DropRelease(t) \/ Release(t)
      PROVE  UNCHANGED <<status, hooks>>
  BY <1>9 DEF Get, Claim, ReadQueued, ReadSettled, Admit, DropRelease, Release
<1>10. ASSUME NEW t \in Threads,
              NotSpawned(t) \/ Spawn(t) \/ SavePid(t) \/ Collect(t) \/ SeeCancel(t)
                  \/ Timeout(t) \/ SpawnError(t) \/ Ingest(t) \/ SaveRefused(t)
       PROVE  UNCHANGED <<status, hooks>>
  BY <1>10 DEF NotSpawned, Spawn, SavePid, Collect, SeeCancel, Timeout, SpawnError,
               Ingest, SaveRefused
<1>11. ASSUME NEW c \in Clients,
              CancelSet(c) \/ CancelForget(c) \/ \E j \in Jobs : CancelLook(c, j)
       PROVE  UNCHANGED <<status, hooks>>
  BY <1>11 DEF CancelSet, CancelForget, CancelLook
<1>12. ASSUME \/ (\E j \in Jobs : ProviderExits(j)) \/ (\E f \in StopModes : Stop(f))
              \/ PutSentinel \/ Crash \/ Restart \/ ReconcileQueued \/ UNCHANGED vars
       PROVE  UNCHANGED <<status, hooks>>
  BY <1>12 DEF ProviderExits, Stop, PutSentinel, Crash, Restart, ReconcileQueued
<1>13. \/ \E j \in Jobs : Records!Submit(j) \/ Records!Begin(j) \/ Records!Announce(j)
       \/ \E j \in Jobs : \E s \in Terminal : Records!End(j, s)
       \/ UNCHANGED <<status, hooks>>
  BY <1>1, <1>2, <1>3, <1>4, <1>5, <1>6, <1>7, <1>8, <1>9, <1>10, <1>11, <1>12
     DEF Next, Loop, Execute, CancelStep, Recover
<1> QED
  BY <1>13 DEF Records!Next

\* Every behaviour of the pool is one of the abstract record life: whatever is
\* proved of JobRecords holds of the daemon's job.json files.
THEOREM Implementation == Spec => ImplementsRecords
<1> QED
  BY RecordsInit, RecordsStep, Invariance, PTL DEF Spec, ImplementsRecords, Records!Spec

\* A record that is terminal stays as it is, in every behaviour.
THEOREM Final == Spec => TerminalIsFinal
<1>1. TypeOK /\ [Records!Next]_(Records!vars) =>
          [\A j \in Jobs : status[j] \in Terminal => status'[j] = status[j]]_vars
  <2> SUFFICES ASSUME TypeOK, [Records!Next]_(Records!vars), NEW j \in Jobs,
                      status[j] \in Terminal
               PROVE  status'[j] = status[j]
    OBVIOUS
  <2>0. status \in [Jobs -> Status]
    BY DEF TypeOK
  <2> USE DEF Terminal, Records!Terminal
  <2>1. CASE UNCHANGED Records!vars
    BY <2>1 DEF Records!vars
  <2>2. ASSUME NEW k \in Jobs,
               Records!Submit(k) \/ Records!Begin(k) \/ Records!Announce(k)
                   \/ \E s \in Records!Terminal : Records!End(k, s)
        PROVE  status'[j] = status[j]
    BY <2>0, <2>2 DEF Records!Submit, Records!Begin, Records!Announce, Records!End
  <2> QED
    BY <2>1, <2>2 DEF Records!Next
<1>2. PoolInv => TypeOK
  BY DEF PoolInv
<1> QED
  BY <1>1, <1>2, RecordsStep, Invariance, PTL DEF Spec, TerminalIsFinal
=============================================================================
