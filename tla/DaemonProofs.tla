---------------------------- MODULE DaemonProofs ----------------------------
(***************************************************************************)
(* Proofs about Discovery, who is the daemon of a workspace, for any       *)
(* number of daemons and commands, and about EventHub, whom it tells of    *)
(* changes, for any topics, streams and edits. They share no variable.     *)
(***************************************************************************)
EXTENDS Discovery, EventHub, FiniteSetTheorems, TLAPS

-----------------------------------------------------------------------------
\* Discovery.

Paced ==
    \A d \in Daemons :
        /\ client[d] \in {"idle", "spawning"} => pc[d] = "unborn"
        /\ pc[d] = "dead" => deaths > 0

LEMMA DiscoveryStarts == DiscoveryInit => DiscoveryInv
<1> SUFFICES ASSUME DiscoveryInit
             PROVE  DiscoveryInv
  OBVIOUS
<1> USE DiscoveryAssumption DEF DiscoveryInit, history
<1>1. DiscoveryTypeOK
  <2>1. overlapped \in BOOLEAN /\ meddled \in BOOLEAN
    OBVIOUS
  <2> QED
    BY <2>1 DEF DiscoveryTypeOK, Steps
<1>2. NothingLeftBehind
  BY DEF NothingLeftBehind
<1>3. ClaimsHold
  BY DEF ClaimsHold, OwnerKeepsFile, owning, claiming
<1> QED
  BY <1>1, <1>2, <1>3 DEF DiscoveryInv

LEMMA DiscoveryTypeStep == DiscoveryTypeOK /\ [DiscoveryNext]_discoveryVars => DiscoveryTypeOK'
<1> SUFFICES ASSUME DiscoveryTypeOK, [DiscoveryNext]_discoveryVars
             PROVE  DiscoveryTypeOK'
  OBVIOUS
<1> USE DiscoveryAssumption DEF DiscoveryTypeOK, Steps, Goto, history, discoveryVars
<1>1. ASSUME NEW d \in Daemons,
             Look(d) \/ RemoveStale(d) \/ Create(d) \/ WritePid(d) \/ FailToStart(d)
             \/ WriteDiscovery(d) \/ Interrupt(d) \/ Exit(d) \/ Die(d)
      PROVE  DiscoveryTypeOK'
  <2>1. CASE Interrupt(d)
    BY <2>1 DEF Interrupt
  <2>2. CASE ~Interrupt(d)
    <3>1. UNCHANGED history
      BY <1>1, <2>2 DEF Look, RemoveStale, Create, WritePid, FailToStart, WriteDiscovery, Exit, Die
    <3> QED
      BY <1>1, <2>2, <3>1
      DEF Look, RemoveStale, Create, WritePid, FailToStart, WriteDiscovery, Exit, Die
  <2> QED
    BY <2>1, <2>2
<1>2. ASSUME NEW d \in Daemons, Ensure(d) \/ Spawn(d) \/ Connect(d) \/ GiveUp(d)
      PROVE  DiscoveryTypeOK'
  BY <1>2 DEF Ensure, Spawn, Connect, GiveUp
<1>3. ASSUME NEW k \in Commands, StopLooks(k) \/ StopCalls(k) \/ FixLooks(k) \/ Tidy(k)
      PROVE  DiscoveryTypeOK'
  <2>1. CASE StopLooks(k) \/ FixLooks(k) \/ Tidy(k)
    BY <2>1 DEF StopLooks, FixLooks, Tidy
  <2>2. CASE StopCalls(k)
    <3>1. pc' \in [Daemons -> Steps]
      BY <2>2 DEF StopCalls, LiveRecord, OwnerLives, Read
    <3> QED
      BY <2>2, <3>1 DEF StopCalls
  <2> QED
    BY <1>3, <2>1, <2>2
<1>4. CASE UNCHANGED discoveryVars
  BY <1>4
<1> QED
  BY <1>1, <1>2, <1>3, <1>4 DEF DiscoveryNext

\* Whoever the file names is between its Create and its Exit, or was killed.
LEMMA ReleaseStep ==
    DiscoveryTypeOK /\ NothingLeftBehind /\ Paced /\ [DiscoveryNext]_discoveryVars => NothingLeftBehind' /\ Paced'
<1> SUFFICES ASSUME DiscoveryTypeOK, NothingLeftBehind, Paced, [DiscoveryNext]_discoveryVars
             PROVE  NothingLeftBehind' /\ Paced'
  OBVIOUS
<1> USE DiscoveryAssumption DEF DiscoveryTypeOK, NothingLeftBehind, Paced, Steps, Goto, history, discoveryVars
<1>1. ASSUME NEW d \in Daemons, Look(d) \/ RemoveStale(d)
      PROVE  NothingLeftBehind' /\ Paced'
  BY <1>1 DEF Look, RemoveStale
<1>2. ASSUME NEW d \in Daemons, Create(d)
      PROVE  NothingLeftBehind' /\ Paced'
  BY <1>2 DEF Create
<1>3. ASSUME NEW d \in Daemons, WritePid(d) \/ WriteDiscovery(d)
      PROVE  NothingLeftBehind' /\ Paced'
  BY <1>3 DEF WritePid, WriteDiscovery
<1>4. ASSUME NEW d \in Daemons, FailToStart(d) \/ Interrupt(d) \/ Exit(d)
      PROVE  NothingLeftBehind' /\ Paced'
  BY <1>4 DEF FailToStart, Interrupt, Exit
<1>5. ASSUME NEW d \in Daemons, Die(d)
      PROVE  NothingLeftBehind' /\ Paced'
  BY <1>5 DEF Die, Alive
<1>6. ASSUME NEW d \in Daemons, Ensure(d) \/ Connect(d) \/ GiveUp(d)
      PROVE  NothingLeftBehind' /\ Paced'
  BY <1>6 DEF Ensure, Connect, GiveUp
<1>7. ASSUME NEW d \in Daemons, Spawn(d)
      PROVE  NothingLeftBehind' /\ Paced'
  BY <1>7 DEF Spawn
<1>8. ASSUME NEW k \in Commands, StopLooks(k) \/ FixLooks(k) \/ Tidy(k)
      PROVE  NothingLeftBehind' /\ Paced'
  BY <1>8 DEF StopLooks, FixLooks, Tidy
<1>9. ASSUME NEW k \in Commands, StopCalls(k)
      PROVE  NothingLeftBehind' /\ Paced'
  BY <1>9 DEF StopCalls, LiveRecord, OwnerLives, Read
<1>10. CASE UNCHANGED discoveryVars
  BY <1>10
<1> QED
  BY <1>1, <1>2, <1>3, <1>4, <1>5, <1>6, <1>7, <1>8, <1>9, <1>10 DEF DiscoveryNext

\* No step makes the workspace orderly again.
LEMMA OrderlyBefore == DiscoveryTypeOK /\ [DiscoveryNext]_discoveryVars /\ Orderly' => Orderly
<1> SUFFICES ASSUME DiscoveryTypeOK, [DiscoveryNext]_discoveryVars, ~Orderly
             PROVE  ~Orderly'
  OBVIOUS
<1> USE DiscoveryAssumption DEF DiscoveryTypeOK, Orderly, history, discoveryVars
<1>1. CASE \E d \in Daemons :
             Look(d) \/ RemoveStale(d) \/ Create(d) \/ WritePid(d) \/ FailToStart(d)
             \/ WriteDiscovery(d) \/ Exit(d) \/ Ensure(d) \/ Connect(d) \/ GiveUp(d)
  BY <1>1 DEF Look, RemoveStale, Create, WritePid, FailToStart, WriteDiscovery, Exit, Ensure, Connect, GiveUp
<1>2. CASE \E d \in Daemons : Interrupt(d) \/ Die(d) \/ Spawn(d)
  BY <1>2 DEF Interrupt, Die, Spawn
<1>3. CASE \E k \in Commands : StopLooks(k) \/ StopCalls(k) \/ FixLooks(k) \/ Tidy(k)
  BY <1>3 DEF StopLooks, StopCalls, FixLooks, Tidy
<1>4. CASE UNCHANGED discoveryVars
  BY <1>4
<1> QED
  BY <1>1, <1>2, <1>3, <1>4 DEF DiscoveryNext

\* A claimant only meets a stale file when somebody was killed, and then it is
\* the only claimant: what it removes is stale, what it creates stays.
LEMMA ClaimsStep == DiscoveryInv /\ [DiscoveryNext]_discoveryVars => ClaimsHold'
<1> SUFFICES ASSUME DiscoveryInv, [DiscoveryNext]_discoveryVars, Orderly'
             PROVE  ClaimsHold'
  BY DEF ClaimsHold
<1>0. Orderly
  BY OrderlyBefore DEF DiscoveryInv
<1> USE DiscoveryAssumption DEF DiscoveryInv, DiscoveryTypeOK, ClaimsHold, OwnerKeepsFile, Steps,
        Goto, Alive, claiming, owning, history, discoveryVars
<1>1. ASSUME NEW d \in Daemons, Look(d)
      PROVE  ClaimsHold'
  <2>1. Stale => ~overlapped
    BY <1>0 DEF Stale, Read, NothingLeftBehind, Orderly
  <2>2. pc'[d] = "removing" => Stale
    BY <1>1 DEF Look
  <2> QED
    BY <1>0, <1>1, <2>1, <2>2 DEF Look, Stale, Read
<1>2. ASSUME NEW d \in Daemons, RemoveStale(d)
      PROVE  ClaimsHold'
  BY <1>0, <1>2 DEF RemoveStale
<1>3. ASSUME NEW d \in Daemons, Create(d)
      PROVE  ClaimsHold'
  BY <1>0, <1>3 DEF Create
<1>4. ASSUME NEW d \in Daemons, WritePid(d)
      PROVE  ClaimsHold'
  BY <1>0, <1>4 DEF WritePid
<1>5. ASSUME NEW d \in Daemons, WriteDiscovery(d)
      PROVE  ClaimsHold'
  BY <1>0, <1>5 DEF WriteDiscovery
<1>6. ASSUME NEW d \in Daemons, FailToStart(d) \/ Exit(d)
      PROVE  ClaimsHold'
  BY <1>0, <1>6 DEF FailToStart, Exit
<1>7. ASSUME NEW d \in Daemons, Interrupt(d)
      PROVE  ClaimsHold'
  BY <1>0, <1>7 DEF Interrupt, Orderly
<1>8. ASSUME NEW d \in Daemons, Die(d)
      PROVE  ClaimsHold'
  BY <1>0, <1>8 DEF Die
<1>9. ASSUME NEW d \in Daemons, Ensure(d) \/ Connect(d) \/ GiveUp(d)
      PROVE  ClaimsHold'
  BY <1>0, <1>9 DEF Ensure, Connect, GiveUp
<1>10. ASSUME NEW d \in Daemons, Spawn(d)
      PROVE  ClaimsHold'
  <2>1. claiming # {} => deaths = 0
    BY <1>10 DEF Spawn, Orderly
  <2>2. deaths = 0 => ~Stale /\ \A e \in Daemons : pc[e] # "removing"
    BY <1>0 DEF NothingLeftBehind, Stale, Read, Orderly
  <2>3. pc[d] = "unborn" /\ pc' = [pc EXCEPT ![d] = "reading"] /\ file' = file
    BY <1>10 DEF Spawn
  <2>4. OwnerKeepsFile' /\ UNCHANGED <<command, deaths>>
    BY <1>0, <1>10, <2>3 DEF Spawn
  <2>5. ASSUME NEW e \in Daemons, pc'[e] = "removing"
        PROVE  (file # Absent /\ ~Alive(file.owner) /\ ~overlapped)'
    <3>1. pc[e] = "removing" /\ e \in claiming
      BY <2>3, <2>5
    <3> QED
      BY <1>0, <2>1, <2>2, <3>1
  <2>6. ~overlapped' => claiming' = {d}
    BY <1>10, <2>3 DEF Spawn
  <2>7. ASSUME NEW e \in Daemons
        PROVE  /\ pc'[e] = "writing" => file' = [owner |-> e, text |-> "empty"]
               /\ pc'[e] \notin {"interrupted", "unwinding"}
    BY <1>0, <2>3
  <2> QED
    BY <1>0, <2>3, <2>4, <2>5, <2>6, <2>7
<1>11. ASSUME NEW k \in Commands, StopLooks(k) \/ FixLooks(k) \/ Tidy(k)
      PROVE  ClaimsHold'
  BY <1>0, <1>11, ZenonT(60) DEF StopLooks, FixLooks, Tidy, Orderly
<1>12. ASSUME NEW k \in Commands, StopCalls(k)
      PROVE  ClaimsHold'
  BY <1>0, <1>12 DEF StopCalls, LiveRecord, OwnerLives, Read
<1>13. CASE UNCHANGED discoveryVars
  BY <1>0, <1>13
<1> QED
  BY <1>1, <1>2, <1>3, <1>4, <1>5, <1>6, <1>7, <1>8, <1>9, <1>10, <1>11, <1>12, <1>13
  DEF DiscoveryNext

\* The inductive invariant of the discovery file.
THEOREM DiscoveryInvariance == DiscoverySpec => []DiscoveryInv
<1>1. DiscoveryInv /\ [DiscoveryNext]_discoveryVars => DiscoveryInv'
  BY DiscoveryTypeStep, ReleaseStep, ClaimsStep DEF DiscoveryInv, Paced
<1> QED
  BY DiscoveryStarts, <1>1, PTL DEF DiscoverySpec

\* With every fault of the model, a process that ends by itself leaves no file:
\* neither a failed start, nor a refusal, nor a stop locks the workspace.
THEOREM Released == DiscoverySpec => []NothingLeftBehind
<1>1. DiscoveryInv => NothingLeftBehind
  BY DEF DiscoveryInv
<1> QED
  BY <1>1, DiscoveryInvariance, PTL

\* The workspace has one daemon at a time, which has the file: with any number
\* of clients that start one, with concurrent starts as long as nobody is
\* killed, and with killed daemons that are replaced one at a time.
THEOREM OneDaemonAtATime == DiscoverySpec => []OneDaemon
<1>1. OwnerKeepsFile => OneOwner
  BY DEF OwnerKeepsFile, OneOwner, owning
<1>2. DiscoveryInv => OneDaemon
  BY <1>1 DEF DiscoveryInv, ClaimsHold, OneDaemon
<1> QED
  BY <1>2, DiscoveryInvariance, PTL

-----------------------------------------------------------------------------
\* EventHub.

\* What the pairs of diff_fingerprints are for: every page an edit concerns is
\* told by a key the edit changes.
LEMMA Covered ==
    ASSUME NEW e \in Edits
    PROVE  /\ KeysOf(e) \subseteq Keys
           /\ Concerns(e) \subseteq Notices
           /\ \A n \in Concerns(e) : \E k \in KeysOf(e) : n \in NoticesOf(k)
<1>1. e.kind \in AllKinds /\ e.topic \in Topics
  BY HubAssumption DEF Edits
<1>2. KeysOf(e) \subseteq Keys
  BY DEF Keys
<1>3. Concerns(e) \subseteq Notices
  BY <1>1 DEF Concerns, Notices, AllKinds
<1>4. \A n \in Concerns(e) : \E k \in KeysOf(e) : n \in NoticesOf(k)
  <2>1. CASE e.kind = "run"
    BY <2>1 DEF Concerns, KeysOf, NoticesOf
  <2>2. CASE e.kind = "attach"
    BY <2>2 DEF Concerns, KeysOf, NoticesOf
  <2>3. CASE e.kind = "job"
    BY <2>3 DEF Concerns, KeysOf, NoticesOf
  <2>4. CASE e.kind = "topic"
    BY <2>4 DEF Concerns, KeysOf, NoticesOf
  <2>5. CASE e.kind = "topic file"
    BY <2>5 DEF Concerns, KeysOf, NoticesOf
  <2>6. CASE e.kind = "settings"
    BY <2>6 DEF Concerns, KeysOf, NoticesOf
  <2> QED
    BY <1>1, <2>1, <2>2, <2>3, <2>4, <2>5, <2>6 DEF AllKinds
<1> QED
  BY <1>2, <1>3, <1>4

LEMMA KeyNotices ==
    ASSUME NEW k \in Keys
    PROVE  NoticesOf(k) \subseteq Notices
<1>1. PICK e \in Edits : k \in KeysOf(e)
  BY DEF Keys
<1>2. e.kind \in AllKinds /\ e.topic \in Topics
  BY HubAssumption DEF Edits
<1>3. \/ k = <<"topics">>
      \/ \E kind \in {"run", "jobs", "attach", "topic"} : k = <<kind, e.topic>>
  BY <1>1, <1>2 DEF KeysOf, AllKinds
<1>4. CASE k = <<"topics">>
  BY <1>4 DEF NoticesOf, Notices
<1>5. ASSUME NEW kind \in {"run", "jobs", "attach", "topic"}, k = <<kind, e.topic>>
      PROVE  NoticesOf(k) \subseteq Notices
  <2>1. k[1] = kind /\ k[2] = e.topic /\ k[1] # "topics"
    BY <1>5
  <2> QED
    BY <1>2, <2>1 DEF NoticesOf, Notices
<1> QED
  BY <1>3, <1>4, <1>5

LEMMA DifferenceNotices ==
    ASSUME NEW old, NEW new
    PROVE  Differences(old, new) \subseteq Notices
BY KeyNotices DEF Differences

LEMMA JobNotices == \A t \in Topics : {<<"jobs">>, <<"run", t>>} \subseteq Notices
BY DEF Notices

LEMMA HubInit == Init => HubInv
<1> SUFFICES ASSUME Init
             PROVE  HubInv
  OBVIOUS
<1> USE HubAssumption DEF Init, Generations
<1>1. TypeOK
  <2>1. disk \in [Keys -> Nat] /\ fp \in [Keys -> Nat] /\ walk \in [Keys -> Nat]
    OBVIOUS
  <2>2. gen \in 0..MaxGen /\ edits \in 0..MaxEdits
    OBVIOUS
  <2>3. /\ pending \in [Streams -> SUBSET Notices]
        /\ due \in [Streams -> SUBSET Notices]
    OBVIOUS
  <2> QED
    BY <2>1, <2>2, <2>3 DEF TypeOK
<1>2. LocksHeld
  BY DEF LocksHeld
<1>3. NothingLost /\ StaleNeverScans
  BY DEF NothingLost, StaleNeverScans
<1>4. Watched
  BY FS_EmptySet DEF Watched
<1>5. \A k \in Keys : fp[k] <= disk[k] /\ walk[k] <= disk[k]
  OBVIOUS
<1> QED
  BY <1>1, <1>2, <1>3, <1>4, <1>5 DEF HubInv

LEMMA TypeStep == TypeOK /\ [Next]_vars => TypeOK'
<1> SUFFICES ASSUME TypeOK, [Next]_vars
             PROVE  TypeOK'
  OBVIOUS
<1> USE HubAssumption DEF TypeOK, vars, hub, threads, Generations
<1>1. ASSUME NEW e \in Edits, Edit(e)
      PROVE  TypeOK'
  BY <1>1, Covered DEF Edit
<1>2. ASSUME NEW t \in Topics, JobSaved(t)
      PROVE  TypeOK'
  BY <1>2, JobNotices DEF JobSaved, Published
<1>3. ASSUME NEW s \in Streams, Request(s) \/ Refuse(s) \/ TakeBaseline(s) \/ Launch(s)
      PROVE  TypeOK'
  BY <1>3 DEF Request, Refuse, TakeBaseline, Launch
<1>4. ASSUME NEW s \in Streams, Share(s) \/ Drain(s) \/ Leave(s)
      PROVE  TypeOK'
  BY <1>4, ZenonT(60) DEF Share, Admit, Drain, Leave
<1>5. ASSUME NEW s \in Streams, Join(s)
      PROVE  TypeOK'
  <2>1. CASE closed
    BY <1>5, <2>1 DEF Join
  <2>2. CASE ~closed
    <3>1. gen' \in 0..MaxGen
      BY <1>5, <2>2 DEF Join
    <3>2. due' \in [Streams -> SUBSET Notices] /\ subs' \in SUBSET Streams
      BY <1>5, <2>2 DEF Join, Admit
    <3> QED
      BY <1>5, <2>2, <3>1, <3>2 DEF Join
  <2> QED
    BY <2>1, <2>2
<1>6. CASE Close
  BY <1>6 DEF Close
<1>7. ASSUME NEW g \in Generations, Check(g) \/ Wake(g) \/ Begin(g) \/ Fail(g)
      PROVE  TypeOK'
  BY <1>7 DEF Check, Wake, Begin, Fail
<1>8. ASSUME NEW g \in Generations, Publish(g)
      PROVE  TypeOK'
  <2>1. \A s \in Streams : pending'[s] \subseteq Notices
    BY <1>8, DifferenceNotices DEF Publish, Published
  <2>2. pending' \in [Streams -> SUBSET Notices]
    BY <1>8, <2>1 DEF Publish, Published
  <2> QED
    BY <1>8, <2>2 DEF Publish
<1>9. ASSUME NEW k \in Keys, Walk(k)
      PROVE  TypeOK'
  BY <1>9 DEF Walk
<1>10. CASE UNCHANGED vars
  BY <1>10
<1> QED
  BY <1>1, <1>2, <1>3, <1>4, <1>5, <1>6, <1>7, <1>8, <1>9, <1>10 DEF Next

\* One holder of _scan_lock, one scan at a time, by the current generation.
LEMMA LockStep ==
    TypeOK /\ LocksHeld /\ StaleNeverScans /\ [Next]_vars => LocksHeld' /\ StaleNeverScans'
<1> SUFFICES ASSUME TypeOK, LocksHeld, StaleNeverScans, [Next]_vars
             PROVE  LocksHeld' /\ StaleNeverScans'
  OBVIOUS
<1> USE HubAssumption DEF TypeOK, LocksHeld, StaleNeverScans, vars, hub, threads, Generations
<1>0. \A s \in Streams, g \in Generations : s # g /\ s # 0 /\ g # 0
  <2> SUFFICES ASSUME NEW s \in Streams, NEW g \in Generations
               PROVE  s # g /\ s # 0 /\ g # 0
    OBVIOUS
  <2>1. g \in 0..MaxGen /\ 0 \in 0..MaxGen /\ g # 0
    OBVIOUS
  <2>2. s \notin 0..MaxGen
    OBVIOUS
  <2> QED
    BY <2>1, <2>2
<1>1. ASSUME NEW e \in Edits, Edit(e)
      PROVE  LocksHeld' /\ StaleNeverScans'
  BY <1>1 DEF Edit
<1>2. ASSUME NEW t \in Topics, JobSaved(t)
      PROVE  LocksHeld' /\ StaleNeverScans'
  BY <1>2 DEF JobSaved
<1>3. ASSUME NEW s \in Streams, Request(s) \/ Refuse(s)
      PROVE  LocksHeld' /\ StaleNeverScans'
  BY <1>3, <1>0 DEF Request, Refuse
<1>4. ASSUME NEW s \in Streams, TakeBaseline(s)
      PROVE  LocksHeld' /\ StaleNeverScans'
  BY <1>4, <1>0 DEF TakeBaseline
<1>5. ASSUME NEW s \in Streams, Share(s)
      PROVE  LocksHeld' /\ StaleNeverScans'
  BY <1>5, <1>0 DEF Share, Admit
<1>6. ASSUME NEW s \in Streams, Join(s)
      PROVE  LocksHeld' /\ StaleNeverScans'
  <2>1. \A g \in Generations : scanner[g] # "walking"
    BY <1>6, <1>0 DEF Join
  <2>2. \A r \in Streams : r # s => stream[r] \notin {"baseline", "launching"}
    BY <1>6, <1>0 DEF Join
  <2>3. CASE closed
    BY <1>6, <1>0, <2>1, <2>2, <2>3 DEF Join
  <2>4. CASE ~closed
    BY <1>6, <1>0, <2>1, <2>2, <2>4 DEF Join, Admit
  <2> QED
    BY <2>3, <2>4
<1>7. ASSUME NEW s \in Streams, Launch(s)
      PROVE  LocksHeld' /\ StaleNeverScans'
  <2>1. \A g \in Generations : scanner[g] # "walking"
    BY <1>7, <1>0 DEF Launch
  <2>2. \A g \in Generations : scanner'[g] # "walking" /\ (scanner'[g] # "unborn" => g <= gen)
    BY <1>7, <2>1 DEF Launch
  <2> QED
    BY <1>7, <1>0, <2>2 DEF Launch
<1>8. ASSUME NEW s \in Streams, Drain(s) \/ Leave(s)
      PROVE  LocksHeld' /\ StaleNeverScans'
  <2>1. CASE Drain(s)
    BY <2>1 DEF Drain
  <2>2. CASE Leave(s)
    <3>1. lock # s /\ lock' = lock
      BY <2>2 DEF Leave
    <3> QED
      BY <2>2, <3>1 DEF Leave
  <2> QED
    BY <1>8, <2>1, <2>2
<1>9. CASE Close
  BY <1>9 DEF Close
<1>10. ASSUME NEW g \in Generations, Check(g) \/ Wake(g)
      PROVE  LocksHeld' /\ StaleNeverScans'
  BY <1>10, <1>0 DEF Check, Wake
<1>11. ASSUME NEW g \in Generations, Begin(g)
      PROVE  LocksHeld' /\ StaleNeverScans'
  BY <1>11, <1>0 DEF Begin, Live
<1>12. ASSUME NEW g \in Generations, Publish(g) \/ Fail(g)
      PROVE  LocksHeld' /\ StaleNeverScans'
  BY <1>12, <1>0 DEF Publish, Fail
<1>13. ASSUME NEW k \in Keys, Walk(k)
      PROVE  LocksHeld' /\ StaleNeverScans'
  BY <1>13 DEF Walk
<1>14. CASE UNCHANGED vars
  BY <1>14
<1> QED
  BY <1>1, <1>2, <1>3, <1>4, <1>5, <1>6, <1>7, <1>8, <1>9, <1>10, <1>11, <1>12, <1>13,
     <1>14 DEF Next

Behind == \A k \in Keys : fp[k] <= disk[k] /\ walk[k] <= disk[k]

LEMMA BehindStep == TypeOK /\ Behind /\ [Next]_vars => Behind'
<1> SUFFICES ASSUME TypeOK, Behind, [Next]_vars
             PROVE  Behind'
  OBVIOUS
<1> USE DEF TypeOK, Behind, vars, hub, threads
<1>1. ASSUME NEW e \in Edits, Edit(e)
      PROVE  Behind'
  BY <1>1 DEF Edit
<1>2. ASSUME NEW s \in Streams, Join(s)
      PROVE  Behind'
  BY <1>2 DEF Join
<1>3. ASSUME NEW g \in Generations, Publish(g)
      PROVE  Behind'
  BY <1>3 DEF Publish
<1>4. ASSUME NEW k \in Keys, Walk(k)
      PROVE  Behind'
  BY <1>4 DEF Walk
<1>5. ASSUME NEW t \in Topics, JobSaved(t)
      PROVE  Behind'
  BY <1>5 DEF JobSaved
<1>6. ASSUME NEW s \in Streams,
             Request(s) \/ Refuse(s) \/ Share(s) \/ TakeBaseline(s) \/ Launch(s)
             \/ Drain(s) \/ Leave(s)
      PROVE  Behind'
  BY <1>6 DEF Request, Refuse, Share, TakeBaseline, Launch, Drain, Leave
<1>7. ASSUME NEW g \in Generations, Check(g) \/ Wake(g) \/ Begin(g) \/ Fail(g)
      PROVE  Behind'
  BY <1>7 DEF Check, Wake, Begin, Fail
<1>8. CASE Close \/ UNCHANGED vars
  BY <1>8 DEF Close
<1> QED
  BY <1>1, <1>2, <1>3, <1>4, <1>5, <1>6, <1>7, <1>8 DEF Next

\* An edit is one change more than any fingerprint has seen; a pass that has
\* seen it publishes it, and one that has not leaves it to the next.
LEMMA NothingLostStep ==
    TypeOK /\ LocksHeld /\ Behind /\ NothingLost /\ [Next]_vars => NothingLost'
<1> SUFFICES ASSUME TypeOK, LocksHeld, Behind, NothingLost, [Next]_vars,
                    ~closed', NEW s \in subs', NEW n \in due'[s]
             PROVE  \/ n \in pending'[s]
                    \/ \E k \in Keys : n \in NoticesOf(k) /\ disk'[k] # fp'[k]
  BY DEF NothingLost
<1> DEFINE Owed == \/ n \in pending'[s]
                   \/ \E k \in Keys : n \in NoticesOf(k) /\ disk'[k] # fp'[k]
<1> USE DEF TypeOK, vars, hub, threads
<1>0. ASSUME ~closed, s \in subs, n \in due[s]
      PROVE  \/ n \in pending[s]
             \/ \E k \in Keys : n \in NoticesOf(k) /\ disk[k] # fp[k]
  BY <1>0 DEF NothingLost
<1>1. ASSUME NEW e \in Edits, Edit(e)
      PROVE  Owed
  <2>1. ~closed /\ s \in subs /\ s \in Streams /\ pending' = pending /\ fp' = fp
    BY <1>1 DEF Edit
  <2>2. \A k \in Keys : disk[k] # fp[k] => disk'[k] # fp[k]
    BY <1>1 DEF Edit, Behind
  <2>3. \A k \in KeysOf(e) : k \in Keys /\ disk'[k] # fp[k]
    BY <1>1, Covered DEF Edit, Behind
  <2>4. CASE n \in due[s]
    BY <1>0, <2>1, <2>2, <2>4
  <2>5. CASE n \notin due[s]
    <3>1. n \in Concerns(e)
      BY <1>1, <2>1, <2>5 DEF Edit
    <3>2. PICK k \in KeysOf(e) : n \in NoticesOf(k)
      BY <3>1, Covered
    <3> QED
      BY <3>2, <2>1, <2>3
  <2> QED
    BY <2>4, <2>5
<1>2. ASSUME NEW t \in Topics, JobSaved(t)
      PROVE  Owed
  BY <1>0, <1>2 DEF JobSaved, Published
<1>3. ASSUME NEW r \in Streams, Share(r)
      PROVE  Owed
  <2>1. s # r
    BY <1>3 DEF Share, Admit
  <2> QED
    BY <1>0, <1>3, <2>1 DEF Share, Admit
<1>4. ASSUME NEW r \in Streams, Join(r)
      PROVE  Owed
  <2>1. ~closed /\ subs = {} /\ subs' = {r} /\ due'[r] = {}
    BY <1>4 DEF Join, Admit, LocksHeld
  <2> QED
    BY <2>1
<1>5. ASSUME NEW r \in Streams, Drain(r)
      PROVE  Owed
  BY <1>0, <1>5 DEF Drain
<1>6. ASSUME NEW r \in Streams,
             Request(r) \/ Refuse(r) \/ TakeBaseline(r) \/ Launch(r) \/ Leave(r)
      PROVE  Owed
  BY <1>0, <1>6 DEF Request, Refuse, TakeBaseline, Launch, Leave
<1>7. ASSUME NEW g \in Generations, Publish(g)
      PROVE  Owed
  <2>1. /\ ~closed /\ s \in subs /\ s \in Streams /\ n \in due[s]
        /\ disk' = disk /\ fp' = walk
        /\ pending'[s] = pending[s] \cup Differences(fp, walk)
    BY <1>7 DEF Publish, Published
  <2>2. CASE n \in pending[s]
    BY <2>1, <2>2
  <2>3. CASE n \notin pending[s]
    <3>1. PICK k \in Keys : n \in NoticesOf(k) /\ disk[k] # fp[k]
      BY <1>0, <2>1, <2>3
    <3>2. CASE walk[k] = fp[k]
      BY <2>1, <3>1, <3>2
    <3>3. CASE walk[k] # fp[k]
      BY <2>1, <3>1, <3>3 DEF Differences
    <3> QED
      BY <3>2, <3>3
  <2> QED
    BY <2>2, <2>3
<1>8. ASSUME NEW g \in Generations, Check(g) \/ Wake(g) \/ Begin(g) \/ Fail(g)
      PROVE  Owed
  BY <1>0, <1>8 DEF Check, Wake, Begin, Fail
<1>9. ASSUME NEW k \in Keys, Walk(k)
      PROVE  Owed
  BY <1>0, <1>9 DEF Walk
<1>10. CASE Close \/ UNCHANGED vars
  BY <1>0, <1>10 DEF Close
<1> QED
  BY <1>1, <1>2, <1>3, <1>4, <1>5, <1>6, <1>7, <1>8, <1>9, <1>10 DEF Next

\* The cap, and a scanner for every stream: a thread of the current generation
\* only ends when it sees no stream, and a stream that comes after that starts
\* a generation of its own.
LEMMA WatchedStep == TypeOK /\ LocksHeld /\ Watched /\ [Next]_vars => Watched'
<1> SUFFICES ASSUME TypeOK, LocksHeld, Watched, [Next]_vars
             PROVE  Watched'
  OBVIOUS
<1> USE HubAssumption DEF TypeOK, vars, hub, threads, Generations
<1>0. IsFiniteSet(subs) /\ Cardinality(subs) \in Nat
  BY FS_Subset, FS_CardinalityType
<1>1. Cardinality(subs') <= MaxStreams
  <2>0. Cardinality(subs) <= MaxStreams
    BY DEF Watched
  <2>1. ASSUME NEW s \in Streams, Share(s)
        PROVE  Cardinality(subs') <= MaxStreams
    <3>1. subs' = subs \cup {s} /\ Cardinality(subs) < MaxStreams
      BY <2>1 DEF Share, Admit
    <3>2. Cardinality(subs \cup {s}) \in {Cardinality(subs), Cardinality(subs) + 1}
      BY <1>0, FS_AddElement
    <3> QED
      BY <1>0, <3>1, <3>2
  <2>2. ASSUME NEW s \in Streams, Join(s)
        PROVE  Cardinality(subs') <= MaxStreams
    <3>1. subs' \in {subs, {s}}
      BY <2>2 DEF Join, Admit, LocksHeld
    <3>2. Cardinality({s}) = 1
      BY FS_Singleton
    <3>3. CASE subs' = subs
      BY <2>0, <3>3
    <3>4. CASE subs' = {s}
      <4>1. Cardinality(subs') = 1
        BY <3>2, <3>4
      <4> QED
        BY <4>1
    <3> QED
      BY <3>1, <3>3, <3>4
  <2>3. ASSUME NEW s \in Streams, Leave(s)
        PROVE  Cardinality(subs') <= MaxStreams
    <3>1. subs' = subs \ {s}
      BY <2>3 DEF Leave
    <3>2. Cardinality(subs \ {s}) \in {Cardinality(subs), Cardinality(subs) - 1}
      BY <1>0, FS_RemoveElement
    <3> QED
      BY <1>0, <2>0, <3>1, <3>2
  <2>4. ASSUME subs' = subs
        PROVE  Cardinality(subs') <= MaxStreams
    BY <2>4 DEF Watched
  <2> QED
    BY <2>1, <2>2, <2>3, <2>4 DEF Next, Edit, JobSaved, Request, Refuse, TakeBaseline,
       Launch, Drain, Close, Check, Wake, Begin, Publish, Fail, Walk
<1>2. ASSUME subs' # {}, ~closed'
      PROVE  gen' \in Scanning' \/ \E s \in Streams : stream'[s] = "launching"
  <2> DEFINE Kept == gen' \in Scanning' \/ \E s \in Streams : stream'[s] = "launching"
  <2>0. ASSUME subs # {}, ~closed
        PROVE  gen \in Scanning \/ \E s \in Streams : stream[s] = "launching"
    BY <2>0 DEF Watched
  <2>1. ASSUME NEW s \in Streams, Join(s)
        PROVE  Kept
    BY <1>2, <2>1 DEF Join, LocksHeld
  <2>2. ASSUME NEW s \in Streams, Launch(s)
        PROVE  Kept
    <3>1. ~closed /\ gen' = gen /\ gen \in Generations
      BY <1>2, <2>2 DEF Launch, LocksHeld
    <3> QED
      BY <2>2, <3>1 DEF Launch, Scanning
  <2>3. ASSUME NEW s \in Streams, Share(s)
        PROVE  Kept
    <3>1. subs # {} /\ ~closed /\ gen' = gen /\ scanner' = scanner
      BY <2>3 DEF Share
    <3>2. \A r \in Streams : stream[r] = "launching" => stream'[r] = "launching"
      BY <2>3 DEF Share
    <3> QED
      BY <2>0, <3>1, <3>2 DEF Scanning
  <2>4. ASSUME NEW s \in Streams,
               Request(s) \/ Refuse(s) \/ TakeBaseline(s) \/ Drain(s) \/ Leave(s)
        PROVE  Kept
    <3>1. subs # {} /\ ~closed /\ gen' = gen /\ scanner' = scanner
      BY <1>2, <2>4 DEF Request, Refuse, TakeBaseline, Drain, Leave
    <3>2. \A r \in Streams : stream[r] = "launching" => stream'[r] = "launching"
      BY <2>4 DEF Request, Refuse, TakeBaseline, Drain, Leave
    <3> QED
      BY <2>0, <3>1, <3>2 DEF Scanning
  <2>5. ASSUME NEW g \in Generations, Check(g) \/ Wake(g) \/ Begin(g) \/ Publish(g) \/ Fail(g)
        PROVE  Kept
    <3>1. subs # {} /\ ~closed /\ gen' = gen /\ stream' = stream
      BY <1>2, <2>5 DEF Check, Wake, Begin, Publish, Fail
    <3>2. gen \in Scanning => gen \in Scanning'
      BY <2>5, <3>1 DEF Check, Wake, Begin, Publish, Fail, Live, Scanning
    <3> QED
      BY <2>0, <3>1, <3>2
  <2>6. CASE Close
    BY <1>2, <2>6 DEF Close
  <2>7. ASSUME /\ subs' = subs /\ closed' = closed /\ gen' = gen
               /\ stream' = stream /\ scanner' = scanner
        PROVE  Kept
    BY <1>2, <2>0, <2>7 DEF Scanning
  <2> QED
    BY <2>1, <2>2, <2>3, <2>4, <2>5, <2>6, <2>7 DEF Next, Edit, JobSaved, Walk
<1> QED
  BY <1>1, <1>2 DEF Watched

\* The inductive invariant of the hub.
THEOREM HubInvariance == Spec => []HubInv
<1>1. HubInv /\ [Next]_vars => HubInv'
  BY TypeStep, LockStep, BehindStep, NothingLostStep, WatchedStep DEF HubInv, Behind
<1> QED
  BY HubInit, <1>1, PTL DEF Spec

\* No stream misses a change: however edits, scans, streams that come and go,
\* nudges and close() interleave.
THEOREM NoNoticeLost == Spec => []NothingLost
<1>1. HubInv => NothingLost
  BY DEF HubInv
<1> QED
  BY <1>1, HubInvariance, PTL

\* Every open stream is watched by a scanner of the current generation, and no
\* more than max_streams are open.
THEOREM EveryStreamWatched == Spec => []Watched
<1>1. HubInv => Watched
  BY DEF HubInv
<1> QED
  BY <1>1, HubInvariance, PTL

\* No thread of an older generation runs a pass.
THEOREM OnlyCurrentScans == Spec => []StaleNeverScans
<1>1. HubInv => StaleNeverScans
  BY DEF HubInv
<1> QED
  BY <1>1, HubInvariance, PTL
=============================================================================
