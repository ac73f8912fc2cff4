----------------------- MODULE WorkspaceStoresProofs -----------------------
(***************************************************************************)
(* Proofs about WorkspaceLock, for every set of processes and blocks, and  *)
(* about WorkspaceStores, for every set of calls, processes and            *)
(* blueprints: the stores use the lock as WorkspaceLock describes it, and  *)
(* what is written under a lock was made from what is still there.         *)
(***************************************************************************)
EXTENDS WorkspaceStores, FiniteSetTheorems, TLAPS

(* The lock by itself.                                                     *)

LockInv == TypeOK /\ DepthIsExact

\* The blocks of one process that are inside, and how an action changes them.
InsideOf(p) == {b \in inside : Proc[b] = p}

LEMMA InsideFinite ==
    ASSUME NEW p \in Procs
    PROVE  IsFiniteSet(InsideOf(p)) /\ Cardinality(InsideOf(p)) \in Nat
<1>1. InsideOf(p) \subseteq Blocks
  BY DEF InsideOf, inside
<1> QED
  BY <1>1, LockAssumption, FS_Subset, FS_CardinalityType

LEMMA LockInit == Init => LockInv
<1> SUFFICES ASSUME Init
             PROVE  LockInv
  OBVIOUS
<1>1. TypeOK
  BY LockAssumption DEF Init, TypeOK
<1>2. \A p \in Procs : {b \in inside : Proc[b] = p} = {}
  BY DEF Init, inside
<1>3. DepthIsExact
  BY <1>2, FS_EmptySet, LockAssumption DEF Init, DepthIsExact
<1> QED
  BY <1>1, <1>3 DEF LockInv

LEMMA LockTypeStep == LockInv /\ [Next]_vars => TypeOK'
<1> SUFFICES ASSUME LockInv, [Next]_vars
             PROVE  TypeOK'
  OBVIOUS
<1> USE LockAssumption DEF LockInv, TypeOK, vars
<1>1. ASSUME NEW b \in Blocks, Request(b) \/ Join(b) \/ Win(b) \/ Refuse(b) \/ Retry(b)
      PROVE  TypeOK'
  BY <1>1 DEF Request, Join, Win, Refuse, Retry
<1>2. ASSUME NEW b \in Blocks, Release(b)
      PROVE  TypeOK'
  <2>1. b \in InsideOf(Proc[b]) /\ Proc[b] \in Procs
    BY <1>2 DEF Release, InsideOf, inside
  <2>2. Cardinality(InsideOf(Proc[b])) # 0
    BY <2>1, InsideFinite, FS_EmptySet
  <2>3. depth[Proc[b]] \in Nat \ {0}
    BY <2>1, <2>2 DEF DepthIsExact, InsideOf
  <2> QED
    BY <1>2, <2>1, <2>3 DEF Release
<1>3. ASSUME NEW p \in Procs, Die(p)
      PROVE  TypeOK'
  BY <1>3 DEF Die
<1>4. CASE UNCHANGED vars
  BY <1>4
<1> QED
  BY <1>1, <1>2, <1>3, <1>4 DEF Next

\* Entering adds one block to one process, leaving takes one away, dying takes
\* them all: the counter follows, and the file with it.
LEMMA DepthStep == LockInv /\ [Next]_vars => DepthIsExact'
<1> SUFFICES ASSUME LockInv, [Next]_vars
             PROVE  DepthIsExact'
  OBVIOUS
<1> USE LockAssumption DEF LockInv, TypeOK, vars
<1>0. \A p \in Procs : /\ depth[p] = Cardinality(InsideOf(p))
                       /\ depth[p] > 0 <=> owner = p
  BY DEF DepthIsExact, InsideOf
<1> SUFFICES ASSUME NEW p \in Procs
             PROVE  /\ depth'[p] = Cardinality(InsideOf(p)')
                    /\ depth'[p] > 0 <=> owner' = p
  BY DEF DepthIsExact, InsideOf
<1>1. IsFiniteSet(InsideOf(p)) /\ Cardinality(InsideOf(p)) \in Nat
  BY InsideFinite
<1>2. ASSUME NEW b \in Blocks, Request(b) \/ Refuse(b) \/ Retry(b)
      PROVE  InsideOf(p)' = InsideOf(p) /\ UNCHANGED <<depth, owner>>
  BY <1>2 DEF Request, Refuse, Retry, InsideOf, inside
<1>3. ASSUME NEW b \in Blocks, Join(b) \/ Win(b)
      PROVE  /\ depth'[p] = Cardinality(InsideOf(p)')
             /\ depth'[p] > 0 <=> owner' = p
  <2>1. b \notin InsideOf(p)
    BY <1>3 DEF Join, Win, InsideOf, inside
  <2>2. InsideOf(p)' = IF Proc[b] = p THEN InsideOf(p) \cup {b} ELSE InsideOf(p)
    BY <1>3 DEF Join, Win, InsideOf, inside
  <2>3. Cardinality(InsideOf(p)') =
            IF Proc[b] = p THEN Cardinality(InsideOf(p)) + 1 ELSE Cardinality(InsideOf(p))
    BY <1>1, <2>1, <2>2, FS_AddElement
  <2>4. Proc[b] \in Procs
    OBVIOUS
  <2>5. CASE Join(b)
    BY <1>0, <1>1, <2>3, <2>4, <2>5 DEF Join
  <2>6. CASE Win(b)
    BY <1>0, <1>1, <2>3, <2>4, <2>6 DEF Win
  <2> QED
    BY <1>3, <2>5, <2>6
<1>4. ASSUME NEW b \in Blocks, Release(b)
      PROVE  /\ depth'[p] = Cardinality(InsideOf(p)')
             /\ depth'[p] > 0 <=> owner' = p
  <2>1. InsideOf(p)' = IF Proc[b] = p THEN InsideOf(p) \ {b} ELSE InsideOf(p)
    BY <1>4 DEF Release, InsideOf, inside
  <2>2. Proc[b] = p => b \in InsideOf(p)
    BY <1>4 DEF Release, InsideOf, inside
  <2>3. Cardinality(InsideOf(p)') =
            IF Proc[b] = p THEN Cardinality(InsideOf(p)) - 1 ELSE Cardinality(InsideOf(p))
    BY <1>1, <2>1, <2>2, FS_RemoveElement
  <2>4. Proc[b] \in Procs
    OBVIOUS
  <2>5. Proc[b] = p => depth[p] > 0 /\ owner = p
    BY <1>0, <1>1, <2>2, FS_EmptySet
  <2>6. b \in InsideOf(Proc[b])
    BY <1>4 DEF Release, InsideOf, inside
  <2>7. depth[Proc[b]] > 0 /\ owner = Proc[b]
    BY <1>0, <2>4, <2>6, InsideFinite, FS_EmptySet
  <2> QED
    BY <1>0, <1>1, <1>4, <2>3, <2>4, <2>7 DEF Release
<1>5. ASSUME NEW q \in Procs, Die(q)
      PROVE  /\ depth'[p] = Cardinality(InsideOf(p)')
             /\ depth'[p] > 0 <=> owner' = p
  <2>1. InsideOf(p)' = IF p = q THEN {} ELSE InsideOf(p)
    BY <1>5 DEF Die, InsideOf, inside
  <2>2. Cardinality(InsideOf(p)') = IF p = q THEN 0 ELSE Cardinality(InsideOf(p))
    BY <2>1, FS_EmptySet
  <2> QED
    BY <1>0, <1>1, <1>5, <2>2 DEF Die
<1>6. CASE UNCHANGED vars
  BY <1>0, <1>6 DEF InsideOf, inside
<1> QED
  BY <1>0, <1>2, <1>3, <1>4, <1>5, <1>6 DEF Next

\* The counter and the file agree with the blocks, in every behaviour.
THEOREM DepthCorrect == Spec => []DepthIsExact
<1>1. LockInv /\ [Next]_vars => LockInv'
  BY LockTypeStep, DepthStep DEF LockInv
<1>2. LockInv => DepthIsExact
  BY DEF LockInv
<1> QED
  BY LockInit, <1>1, <1>2, PTL DEF Spec

\* Blocks of two processes never overlap: every step of the lock is a step of
\* ProcessExclusion or changes nothing it sees.
THEOREM Excludes == Spec => ImplementsExclusion
<1>1. Init => Exclusion!Init
  BY DEF Init, Exclusion!Init, inside
<1>2. LockInv /\ [Next]_vars => [Exclusion!Next]_inside
  <2> SUFFICES ASSUME LockInv, [Next]_vars
               PROVE  [Exclusion!Next]_inside
    OBVIOUS
  <2> USE LockAssumption DEF LockInv, TypeOK, vars
  <2>1. \A c \in inside : Proc[c] \in Procs /\ owner = Proc[c]
    <3> TAKE c \in inside
    <3>1. c \in InsideOf(Proc[c]) /\ Proc[c] \in Procs
      BY DEF InsideOf, inside
    <3>2. depth[Proc[c]] > 0
      <4>1. depth[Proc[c]] = Cardinality(InsideOf(Proc[c])) /\ depth[Proc[c]] \in Nat
        BY <3>1 DEF DepthIsExact, InsideOf
      <4>2. IsFiniteSet(InsideOf(Proc[c]))
        BY <3>1, InsideFinite
      <4>3. Cardinality(InsideOf(Proc[c])) # 0
        BY <3>1, <4>2, FS_EmptySet
      <4> QED
        BY <4>1, <4>3
    <3> QED
      BY <3>1, <3>2 DEF DepthIsExact
  <2>2. ASSUME NEW b \in Blocks, Join(b) \/ Win(b)
        PROVE  Exclusion!Enter(b)
    <3>1. inside' = inside \cup {b} /\ b \notin inside
      BY <2>2 DEF Join, Win, inside
    <3>2. \A c \in inside : Proc[c] = Proc[b]
      <4>1. Proc[b] \in Procs
        OBVIOUS
      <4>2. CASE Join(b)
        BY <2>1, <4>1, <4>2 DEF Join, DepthIsExact
      <4>3. CASE Win(b)
        BY <2>1, <4>3 DEF Win
      <4> QED
        BY <2>2, <4>2, <4>3
    <3> QED
      BY <3>1, <3>2 DEF Exclusion!Enter
  <2>3. ASSUME NEW b \in Blocks, Release(b)
        PROVE  Exclusion!Leave(b)
    BY <2>3 DEF Release, inside, Exclusion!Leave
  <2>4. ASSUME NEW p \in Procs, Die(p)
        PROVE  Exclusion!Die(p)
    BY <2>4 DEF Die, inside, Exclusion!Die
  <2>5. ASSUME NEW b \in Blocks, Request(b) \/ Refuse(b) \/ Retry(b)
        PROVE  UNCHANGED inside
    BY <2>5 DEF Request, Refuse, Retry, inside
  <2>6. CASE UNCHANGED vars
    BY <2>6 DEF inside
  <2> QED
    BY <2>2, <2>3, <2>4, <2>5, <2>6 DEF Next, Exclusion!Next
<1>3. LockInv /\ [Next]_vars => LockInv'
  BY LockTypeStep, DepthStep DEF LockInv
<1> QED
  BY LockInit, <1>1, <1>2, <1>3, PTL DEF Spec, ImplementsExclusion, Exclusion!Spec

-----------------------------------------------------------------------------
(* The stores.                                                             *)

(* The inductive invariant, part by part.                                  *)

Places == {"idle", "guarding", "begun", "waiting", "open", "decided", "written", "leaving"}

\* An operation and the file it rewrites.
Fits(o) ==
    /\ o.file \in Files
    /\ o.file = "manifest" <=> o.kind \in {"start", "flag", "append", "done"}
    /\ o.kind = "append" => o = AppendEvent
    /\ o.kind = "flag"   => o.archived \in BOOLEAN
    /\ o.kind = "start"  => /\ o.contract \in {None, "legacy"}
                            /\ o.blueprint \in Blueprints \cup {None}

StoresTypes ==
    /\ DOMAIN file = Files
    /\ at \in [Calls -> Places]
    /\ DOMAIN op = Calls
    /\ DOMAIN seen = Calls
    /\ begun \in Nat
    /\ file["manifest"] \in Manifests \cup {None}

\* Only the daemon archives, and a call under way has something to do.
Operations ==
    \A c \in Calls :
        /\ Fits(op[c])
        /\ op[c].kind = "flag" => In(c) = Daemon
        /\ op[c].kind = "done" => at[c] \in {"idle", "written", "leaving"}

\* One call at a time has the lock of a process on a file.
HoldsOnce ==
    \A c, d \in Calls :
        c \in Holding /\ d \in Holding /\ In(c) = In(d) /\ op[c].file = op[d].file
            => c = d \/ Scope(op[c].file) = "nothing"

\* Who rewrites the manifest is in the section of the run.
InSection ==
    \A c \in Calls :
        /\ at[c] \in {"open", "decided"} /\ op[c].file = "manifest" => pc[Section(c)] = "in"
        /\ at[c] = "written" => op[c].file = "manifest" /\ pc[Section(c)] = "in"

\* A command that moves the run is inside its guard, and the run is active.
Moves(o) == o.kind = "append" \/ (o.kind = "start" /\ o.then)

GuardHeld ==
    \A c \in Calls :
        /\ Moves(op[c]) /\ In(c) /= Daemon
        /\ at[c] \in {"begun", "waiting", "open", "decided", "written"}
        => pc[Guard(c)] = "in" /\ ~ Archived

\* What was decided on is still there, and what is appended to exists.
Current(c) ==
    LET f == op[c].file IN
    \/ file[f] = seen[c]
    \/ Scope(f) = "nothing"
    \/ Scope(f) = "process" /\ file[f] /= None /\ file[f].by /= In(c)

SeenNow ==
    \A c \in Calls :
        /\ at[c] = "decided" => Current(c)
        /\ op[c].kind = "append" \/ (at[c] = "decided" /\ op[c].kind = "flag")
              => file["manifest"] /= None

StoresInv ==
    /\ StoresTypes /\ Operations /\ HoldsOnce /\ InSection /\ GuardHeld /\ SeenNow
-----------------------------------------------------------------------------
(* The lock as the stores use it.                                          *)

Inner(c) ==
    \/ \E o \in Requests \cup Commands : Begin(c, o)
    \/ PassGuard(c) \/ TakeLock(c) \/ Enter(c) \/ GiveUp(c) \/ TryAgain(c)
    \/ Decide(c) \/ Conflict(c) \/ Leave(c) \/ LeaveGuard(c)

\* Every call has two blocks of its process, and shares none.
LEMMA BlocksOfCalls ==
    \A c \in Calls :
        /\ Guard(c) \in Blocks /\ Section(c) \in Blocks
        /\ Proc[Guard(c)] = In(c) /\ Proc[Section(c)] = In(c) /\ In(c) \in Procs
        /\ \A d \in Calls : Guard(c) /= Section(d)
        /\ \A d \in Calls : c /= d => Guard(c) /= Guard(d) /\ Section(c) /= Section(d)
<1> TAKE c \in Calls
<1>1. Guard(c) \in Blocks /\ Section(c) \in Blocks
  BY StoresAssumption DEF Guard, Section
<1>2. Proc[Guard(c)] = In(c)
  <2>1. Guard(c)[1] = c
    BY DEF Guard
  <2> QED
    BY <1>1, <2>1, StoresAssumption DEF In, Section
<1>3. In(c) \in Procs
  BY <1>1, LockAssumption DEF In
<1> QED
  BY <1>1, <1>2, <1>3 DEF Guard, Section, In

\* A step of the stores is a step of the lock, or the lock does not see it.
LEMMA LockSteps == StoresNext => [Next]_vars
<1> SUFFICES ASSUME StoresNext
             PROVE  [Next]_vars
  OBVIOUS
<1>1. ASSUME NEW c \in Calls, Inner(c) \/ Write(c)
      PROVE  [Next]_vars
  <2> USE BlocksOfCalls DEF Next, vars, lockVars
  <2>1. CASE \E o \in Requests \cup Commands : Begin(c, o)
    BY <2>1 DEF Begin
  <2>2. CASE PassGuard(c)
    BY <2>2 DEF PassGuard
  <2>3. CASE TakeLock(c)
    BY <2>3 DEF TakeLock
  <2>4. CASE Enter(c)
    BY <2>4 DEF Enter
  <2>5. CASE GiveUp(c)
    BY <2>5 DEF GiveUp
  <2>6. CASE TryAgain(c)
    BY <2>6 DEF TryAgain
  <2>7. CASE Decide(c) \/ Conflict(c) \/ Write(c)
    BY <2>7 DEF Decide, Conflict, Write
  <2>8. CASE Leave(c)
    BY <2>8 DEF Leave
  <2>9. CASE LeaveGuard(c)
    BY <2>9 DEF LeaveGuard
  <2> QED
    BY <1>1, <2>1, <2>2, <2>3, <2>4, <2>5, <2>6, <2>7, <2>8, <2>9 DEF Inner
<1>2. ASSUME NEW p \in Procs, Kill(p)
      PROVE  [Next]_vars
  BY <1>2 DEF Kill, Next
<1> QED
  BY <1>1, <1>2 DEF StoresNext, Inner

\* The lock keeps its invariant under the calls of the stores.
LEMMA LockStands == LockInv /\ [StoresNext]_vars2 => LockInv'
<1>1. [StoresNext]_vars2 => [Next]_vars
  BY LockSteps DEF vars2, lockVars, vars
<1> QED
  BY <1>1, LockTypeStep, DepthStep DEF LockInv

\* The stores drive the lock as WorkspaceLock says: what is proved of the
\* lock holds of the workspace (workspace_lock, with its callers).
THEOREM StoresUseTheLock == StoresSpec => Spec
<1>1. StoresInit => Init
  BY DEF StoresInit
<1>2. [StoresNext]_vars2 => [Next]_vars
  BY LockSteps DEF vars2, lockVars, vars
<1> QED
  BY <1>1, <1>2, PTL DEF StoresSpec, Spec

\* Blocks of two processes never overlap, whatever profiles, topics, plans
\* and runs they rewrite and whoever dies (_manifest_write_lock).
THEOREM StoresExclude == StoresSpec => ImplementsExclusion
  BY StoresUseTheLock, Excludes, PTL

\* Two blocks that are inside belong to one process.
LEMMA OneProcess ==
    ASSUME LockInv, NEW b \in inside, NEW d \in inside
    PROVE  Proc[b] = Proc[d]
<1>1. ASSUME NEW e \in inside
      PROVE  owner = Proc[e]
  <2>1. e \in InsideOf(Proc[e]) /\ Proc[e] \in Procs
    BY LockAssumption DEF InsideOf, inside
  <2>2. depth[Proc[e]] = Cardinality(InsideOf(Proc[e])) /\ depth[Proc[e]] \in Nat
    BY <2>1 DEF LockInv, TypeOK, DepthIsExact, InsideOf
  <2>3. Cardinality(InsideOf(Proc[e])) # 0
    BY <2>1, InsideFinite, FS_EmptySet
  <2>4. depth[Proc[e]] > 0
    BY <2>2, <2>3
  <2> QED
    BY <2>1, <2>4 DEF LockInv, DepthIsExact
<1> QED
  BY <1>1
-----------------------------------------------------------------------------
(* What a step of a call does to the call, and that it leaves the others   *)
(* alone.                                                                  *)

Aside(c) ==
    \A d \in Calls \ {c} :
        /\ at'[d] = at[d] /\ op'[d] = op[d] /\ seen'[d] = seen[d]
        /\ pc'[Guard(d)] = pc[Guard(d)] /\ pc'[Section(d)] = pc[Section(d)]

Domains ==
    /\ at' \in [Calls -> Places] /\ DOMAIN op' = Calls /\ DOMAIN seen' = Calls
    /\ begun' \in Nat

Inside(c) == pc'[Guard(c)] = pc[Guard(c)] /\ pc'[Section(c)] = pc[Section(c)]
Same(c)   == op'[c] = op[c]

Begins(c) ==
    /\ at[c] = "idle" /\ at'[c] \in {"guarding", "begun"}
    /\ Fits(op'[c]) /\ op'[c].kind \notin {"append", "done"}
    /\ op'[c].kind = "flag" => In(c) = Daemon
    /\ Moves(op'[c]) /\ In(c) /= Daemon => at'[c] = "guarding"

Guards(c) ==
    /\ at[c] = "guarding" /\ Same(c) /\ pc'[Guard(c)] = "in"
    /\ at'[c] = "leaving" \/ (at'[c] = "begun" /\ ~ Archived)

Takes(c) ==
    /\ at[c] = "begun" /\ Same(c) /\ Free(c) /\ pc'[Guard(c)] = pc[Guard(c)]
    /\ at'[c] = "waiting" \/ (at'[c] = "open" /\ op[c].file /= "manifest")

Enters(c) ==
    /\ at[c] = "waiting" /\ at'[c] = "open" /\ Same(c)
    /\ pc'[Section(c)] = "in" /\ pc'[Guard(c)] = pc[Guard(c)]

Decides(c) ==
    /\ at[c] = "open" /\ at'[c] = "decided" /\ Same(c) /\ Inside(c)
    /\ seen'[c] = file[op[c].file]
    /\ op[c].kind = "flag" => seen'[c] /= None

Ends(c) ==
    /\ op'[c] = Done
    /\ \/ at'[c] = "idle"
       \/ at[c] = "open" /\ at'[c] = "written" /\ op[c].file = "manifest" /\ Inside(c)

Leaves(c) ==
    /\ at[c] = "written" /\ Same(c)
    /\ \/ at'[c] = "begun" /\ op[c] = AppendEvent /\ pc'[Guard(c)] = pc[Guard(c)]
       \/ at'[c] \in {"leaving", "idle"}

Rests(c) == at[c] = "idle" /\ at'[c] = "idle" /\ Same(c)

Shape(c) ==
    \/ Begins(c) \/ Guards(c) \/ Takes(c) \/ Enters(c)
    \/ Decides(c) \/ Ends(c) \/ Leaves(c) \/ Rests(c)

\* Every request and command fits its file.
LEMMA AllFit ==
    \A o \in Requests \cup Commands :
        Fits(o) /\ o.kind \notin {"append", "done"} /\ (o \in Commands => o.kind /= "flag")
<1> TAKE o \in Requests \cup Commands
<1> DEFINE Simple == {PutProfile, ImportProfile, CreateTopic, ImportTopic, DuplicateTopic,
                      PutPlan, PutOverrides, RecordWorkspace}
           Goal == /\ Fits(o) /\ o.kind \notin {"append", "done"}
                   /\ o \in Commands => o.kind /= "flag"
<1>0. {"profile", "topic", "plan", "overrides", "registry", "manifest"} \subseteq Files
  BY DEF Files
<1>1. CASE o \in Simple
  <2>1. /\ o.kind \in {"put", "import", "create", "copy", "merge"}
        /\ o.file \in {"profile", "topic", "plan", "overrides", "registry"}
    BY <1>1 DEF Do, PutProfile, ImportProfile, CreateTopic, ImportTopic, DuplicateTopic,
                PutPlan, PutOverrides, RecordWorkspace
  <2> QED
    BY <1>0, <2>1 DEF Fits
<1>2. CASE \E a \in BOOLEAN : o = Flag(a) /\ o \notin Commands
  <2>1. PICK a \in BOOLEAN : o = [kind |-> "flag", file |-> "manifest", archived |-> a]
    BY <1>2 DEF Flag
  <2> QED
    BY <1>0, <1>2, <2>1 DEF Fits
<1>3. CASE \E k \in {None, "legacy"}, b \in Blueprints \cup {None} :
               o = Start(k, b) \/ o = Advance(b)
  <2>1. PICK k \in {None, "legacy"}, b \in Blueprints \cup {None}, t \in BOOLEAN :
            o = [kind |-> "start", file |-> "manifest", contract |-> k, blueprint |-> b,
                 then |-> t]
    BY <1>3 DEF Start, Advance
  <2> QED
    BY <1>0, <2>1 DEF Fits
<1>4. \A a \in BOOLEAN : Flag(a) \notin Commands
  BY DEF Flag, Commands, PutProfile, ImportTopic, RecordWorkspace, Start, Advance, Do
<1>5. o \in Simple \/ (\E a \in BOOLEAN : o = Flag(a))
        \/ \E k \in {None, "legacy"}, b \in Blueprints \cup {None} :
               o = Start(k, b) \/ o = Advance(b)
  BY DEF Requests, Commands
<1> QED
  BY <1>1, <1>2, <1>3, <1>4, <1>5

\* A copy goes to a file of its own.
LEMMA TargetFits ==
    ASSUME NEW o \in Requests \cup Commands, o.kind = "copy" => FreeCopies /= {}
    PROVE  /\ Fits(Target(o)) /\ Target(o).kind = o.kind
           /\ o.kind /= "copy" => Target(o) = o
<1>1. CASE o.kind /= "copy"
  BY <1>1, AllFit DEF Target
<1>2. CASE o.kind = "copy"
  <2>1. o = [kind |-> "copy", file |-> "topic"]
    BY <1>2 DEF Requests, Commands, Do, PutProfile, ImportProfile, CreateTopic,
         ImportTopic, DuplicateTopic, PutPlan, PutOverrides, RecordWorkspace, Start,
         Advance, Flag
  <2> DEFINE least == CHOOSE i \in FreeCopies : \A j \in FreeCopies : i <= j
  <2>2. \E i \in FreeCopies : \A j \in FreeCopies : i <= j
    <3>1. FreeCopies \subseteq {1, 2}
      BY DEF FreeCopies, Copies
    <3>2. CASE 1 \in FreeCopies
      BY <3>1, <3>2
    <3>3. CASE FreeCopies = {2}
      BY <3>3
    <3> QED
      BY <1>2, <3>1, <3>2, <3>3
  <2>3. least \in FreeCopies
    BY <2>2
  <2>4. least \in {1, 2}
    BY <2>3 DEF FreeCopies, Copies
  <2> HIDE DEF least
  <2>5. Copies[least] \in {"topic-copy", "topic-copy-2"}
    BY <2>4 DEF Copies
  <2>6. {"topic-copy", "topic-copy-2"} \subseteq Files
    <3>1. Copies[1] = "topic-copy" /\ Copies[2] = "topic-copy-2" /\ {1, 2} \subseteq DOMAIN Copies
      BY DEF Copies
    <3> QED
      BY <3>1 DEF Files, ToSet
  <2>7. Target(o) = [kind |-> "copy", file |-> Copies[least]]
    BY <1>2, <2>1 DEF Target, least
  <2> QED
    BY <1>2, <2>5, <2>6, <2>7 DEF Fits
<1> QED
  BY <1>1, <1>2

\* A step of the lock on one block leaves the others where they are.
LEMMA LockAside ==
    ASSUME LockInv, NEW b \in Blocks,
           Request(b) \/ Join(b) \/ Win(b) \/ Refuse(b) \/ Retry(b) \/ Release(b)
    PROVE  /\ \A d \in Blocks : d /= b => pc'[d] = pc[d]
           /\ Join(b) \/ Win(b) => pc'[b] = "in"
  BY DEF LockInv, TypeOK, Request, Join, Win, Refuse, Retry, Release

\* Nobody else moves when a call does.
LEMMA AsideAndDomains ==
    ASSUME LockInv, StoresTypes, NEW c \in Calls, Inner(c) \/ Write(c)
    PROVE  Aside(c) /\ Domains
<1> USE DEF StoresTypes, Domains, Go
<1>0. /\ \A d \in Calls \ {c} : at'[d] = at[d] /\ op'[d] = op[d] /\ seen'[d] = seen[d]
      /\ Domains
  <2> USE DEF Places
  <2>1. CASE \E o \in Requests \cup Commands : Begin(c, o)
    BY <2>1, StoresAssumption DEF Begin
  <2>2. CASE PassGuard(c)
    BY <2>2 DEF PassGuard
  <2>3. CASE TakeLock(c) \/ Enter(c)
    BY <2>3 DEF TakeLock, Enter
  <2>4. CASE GiveUp(c)
    BY <2>4 DEF GiveUp
  <2>5. CASE TryAgain(c) \/ Decide(c)
    BY <2>5 DEF TryAgain, Decide
  <2>6. CASE Conflict(c) \/ LeaveGuard(c)
    BY <2>6 DEF Conflict, LeaveGuard, Finish
  <2>7. CASE Write(c)
    BY <2>7 DEF Write, Finish
  <2>8. CASE Leave(c)
    BY <2>8 DEF Leave
  <2> QED
    BY <2>1, <2>2, <2>3, <2>4, <2>5, <2>6, <2>7, <2>8 DEF Inner
<1>1. \/ UNCHANGED pc
      \/ \E b \in {Guard(c), Section(c)} :
             Request(b) \/ Join(b) \/ Win(b) \/ Refuse(b) \/ Retry(b) \/ Release(b)
  <2>1. CASE \E o \in Requests \cup Commands : Begin(c, o)
    BY <2>1 DEF Begin, lockVars
  <2>2. CASE PassGuard(c) \/ Enter(c) \/ GiveUp(c) \/ TryAgain(c) \/ LeaveGuard(c) \/ Leave(c)
    BY <2>2 DEF PassGuard, Enter, GiveUp, TryAgain, LeaveGuard, Leave
  <2>3. CASE TakeLock(c) \/ Decide(c) \/ Conflict(c) \/ Write(c)
    BY <2>3 DEF TakeLock, Decide, Conflict, Write, lockVars
  <2> QED
    BY <2>1, <2>2, <2>3 DEF Inner
<1>2. \A d \in Calls \ {c} : pc'[Guard(d)] = pc[Guard(d)] /\ pc'[Section(d)] = pc[Section(d)]
  BY <1>1, LockAside, BlocksOfCalls
<1> QED
  BY <1>0, <1>2 DEF Aside

\* What a call does that does not write.
LEMMA InnerShape ==
    ASSUME LockInv, StoresTypes, Operations, InSection, NEW c \in Calls, Inner(c)
    PROVE  Shape(c) /\ file' = file
<1> USE BlocksOfCalls DEF StoresTypes, Operations, Go, Shape, Same, Inside, lockVars
<1>1. CASE \E o \in Requests \cup Commands : Begin(c, o)
  <2>1. PICK o \in Requests \cup Commands : Begin(c, o)
    BY <1>1
  <2>2. /\ op'[c] = Target(o) /\ at[c] = "idle" /\ file' = file
        /\ at'[c] = IF Guarded(c, o) THEN "guarding" ELSE "begun"
    BY <2>1 DEF Begin
  <2>3. /\ Fits(op'[c]) /\ op'[c].kind = o.kind
        /\ o.kind /= "copy" => op'[c] = o
    BY <2>1, <2>2, TargetFits DEF Begin
  <2>4. o.kind \notin {"append", "done"} /\ (o.kind = "flag" => In(c) = Daemon)
    BY <2>1, AllFit DEF Begin
  <2>5. Moves(op'[c]) /\ In(c) /= Daemon => Guarded(c, o)
    BY <2>3, <2>4 DEF Moves, Guarded, OnRun
  <2> QED
    BY <2>2, <2>3, <2>4, <2>5 DEF Begins
<1>2. CASE PassGuard(c)
  BY <1>2, LockAside DEF PassGuard, Guards
<1>3. CASE TakeLock(c)
  <2>1. pc'[Guard(c)] = pc[Guard(c)]
    BY <1>3, LockAside DEF TakeLock
  <2>2. Scope(op[c].file) /= "section" => op[c].file /= "manifest"
    BY DEF Scope
  <2> QED
    BY <1>3, <2>1, <2>2 DEF TakeLock, Takes
<1>4. CASE Enter(c)
  BY <1>4, LockAside DEF Enter, Enters
<1>5. CASE GiveUp(c)
  BY <1>5 DEF GiveUp, Ends
<1>6. CASE TryAgain(c)
  BY <1>6 DEF TryAgain, Rests
<1>7. CASE Decide(c)
  BY <1>7 DEF Decide, Decides, Admits
<1>8. CASE Conflict(c)
  <2>1. Scope(op[c].file) = "section" => op[c].file = "manifest"
    BY DEF Scope
  <2> QED
    BY <1>8, <2>1 DEF Conflict, Finish, Ends
<1>9. CASE Leave(c)
  <2>1. pc'[Guard(c)] = pc[Guard(c)]
    BY <1>9, LockAside DEF Leave
  <2> QED
    BY <1>9, <2>1 DEF Leave, Leaves
<1>10. CASE LeaveGuard(c)
  BY <1>10 DEF LeaveGuard, Finish, Ends
<1> QED
  BY <1>1, <1>2, <1>3, <1>4, <1>5, <1>6, <1>7, <1>8, <1>9, <1>10 DEF Inner

Writes(c) ==
    /\ at[c] = "decided" /\ Inside(c)
    /\ file' = [file EXCEPT ![op[c].file] = Content(c, op[c], seen[c])]
    /\ \/ at'[c] = "idle" /\ op'[c] = Done
       \/ /\ at'[c] = "written" /\ op[c].file = "manifest"
          /\ op'[c] = Done \/ (op'[c] = AppendEvent /\ Moves(op[c]) /\ op[c].kind = "start")

LEMMA WriteShape ==
    ASSUME StoresTypes, Operations, NEW c \in Calls, Write(c)
    PROVE  Writes(c)
<1> USE DEF StoresTypes, Operations, Go, Write, Writes, Inside, lockVars
<1>1. CASE op[c].kind = "start" /\ op[c].then
  BY <1>1 DEF Fits, Moves
<1>2. CASE ~ (op[c].kind = "start" /\ op[c].then)
  <2>1. Scope(op[c].file) = "section" => op[c].file = "manifest"
    BY DEF Scope
  <2> QED
    BY <1>2, <2>1 DEF Finish
<1> QED
  BY <1>1, <1>2

Kills(p) ==
    \A c \in Calls :
        \/ In(c) = p /\ at'[c] = "idle" /\ op'[c] = Done
        \/ /\ In(c) /= p /\ at'[c] = at[c] /\ op'[c] = op[c] /\ seen'[c] = seen[c]
           /\ Inside(c)

LEMMA KillShape ==
    ASSUME StoresTypes, NEW p \in Procs, Kill(p)
    PROVE  Kills(p) /\ Domains /\ file' = file
<1>1. \A c \in Calls : In(c) /= p => Inside(c)
  BY BlocksOfCalls DEF Kill, Die, Inside
<1> QED
  BY <1>1 DEF Kill, Kills, Domains, StoresTypes, Places

\* Every step is one of three: a call moves, a call writes, a process dies.
LEMMA Steps ==
    ASSUME LockInv, StoresInv, StoresNext
    PROVE  /\ Domains
           /\ \/ \E c \in Calls : Shape(c) /\ Aside(c) /\ file' = file
              \/ \E c \in Calls : Writes(c) /\ Aside(c)
              \/ \E p \in Procs : Kills(p) /\ file' = file
<1> USE DEF StoresInv
<1>1. ASSUME NEW c \in Calls, Inner(c)
      PROVE  Domains /\ Shape(c) /\ Aside(c) /\ file' = file
  BY <1>1, AsideAndDomains, InnerShape
<1>2. ASSUME NEW c \in Calls, Write(c)
      PROVE  Domains /\ Writes(c) /\ Aside(c)
  BY <1>2, AsideAndDomains, WriteShape
<1>3. ASSUME NEW p \in Procs, Kill(p)
      PROVE  Domains /\ Kills(p) /\ file' = file
  BY <1>3, KillShape
<1>4. \/ \E c \in Calls : Inner(c) \/ Write(c)
      \/ \E p \in Procs : Kill(p)
  BY DEF StoresNext, Inner
<1> QED
  BY <1>1, <1>2, <1>3, <1>4

\* What is written to the manifest continues it.
LEMMA ManifestWritten ==
    ASSUME StoresInv, NEW c \in Calls, Writes(c), op[c].file = "manifest"
    PROVE  LET m == file["manifest"]
               n == file'["manifest"] IN
           /\ n \in Manifests
           /\ m /= None => /\ Continues(m, n)
                           /\ n.events /= m.events => op[c].kind = "append"
           /\ n.archived => op[c].kind = "flag" \/ (m /= None /\ m.archived)
<1> DEFINE m == file["manifest"]
           n == file'["manifest"]
<1>1. m = seen[c]
  <2>1. Current(c) /\ Scope(op[c].file) = "section"
    BY DEF StoresInv, SeenNow, Writes, Scope
  <2> QED
    BY <2>1 DEF Current
<1>2. n = Content(c, op[c], m)
  <2>1. "manifest" \in DOMAIN file
    BY DEF StoresInv, StoresTypes, Files
  <2> QED
    BY <1>1, <2>1 DEF Writes
<1>3. m \in Manifests \cup {None} /\ begun \in Nat
  BY DEF StoresInv, StoresTypes
<1>4. op[c].kind \in {"start", "flag", "append"}
  BY DEF StoresInv, Operations, Fits, Writes
<1> HIDE DEF m, n
<1>5. CASE op[c].kind = "append"
  <2>1. m \in Manifests
    BY <1>3, <1>5 DEF StoresInv, SeenNow, m
  <2>2. n = [m EXCEPT !.events = @ \cup {begun}]
    BY <1>2, <1>5 DEF Content
  <2>3. m.events \cup {begun} \in SUBSET Nat /\ m.events \subseteq m.events \cup {begun}
    BY <1>3, <2>1 DEF Manifests
  <2>4. /\ n.contract = m.contract /\ n.blueprint = m.blueprint /\ n.archived = m.archived
        /\ n.events = m.events \cup {begun}
        /\ n \in Manifests
    BY <2>1, <2>2, <2>3 DEF Manifests
  <2> QED
    BY <1>5, <2>1, <2>3, <2>4, StoresAssumption DEF Continues, m, n
<1>6. CASE op[c].kind = "flag"
  <2>1. m \in Manifests /\ op[c].archived \in BOOLEAN
    BY <1>3, <1>6 DEF StoresInv, SeenNow, Operations, Fits, Writes, m
  <2>2. n = [m EXCEPT !.archived = op[c].archived]
    BY <1>2, <1>6 DEF Content
  <2> QED
    BY <1>6, <2>1, <2>2 DEF Manifests, Continues, m, n
<1>7. CASE op[c].kind = "start"
  <2>1. op[c].contract \in {None, "legacy"} /\ op[c].blueprint \in Blueprints \cup {None}
    BY <1>7 DEF StoresInv, Operations, Fits
  <2>2. CASE m = None
    <3>1. n = Created(op[c])
      BY <1>2, <1>7, <2>2 DEF Content
    <3>2. Resolved(op[c]) \in Blueprints \cup {None}
      BY <2>1, StoresAssumption DEF Resolved
    <3> QED
      BY <2>1, <2>2, <3>1, <3>2 DEF Created, Manifests, m, n
  <2>3. CASE m \in Manifests
    <3>1. n = Recorded(m, op[c].blueprint)
      BY <1>2, <1>7, <2>3, StoresAssumption DEF Content
    <3> QED
      BY <2>1, <2>3, <3>1, StoresAssumption DEF Recorded, Manifests, Continues, m, n
  <2> QED
    BY <1>3, <2>2, <2>3
<1> QED
  BY <1>4, <1>5, <1>6, <1>7
-----------------------------------------------------------------------------
(* The invariant stands.                                                   *)

LEMMA StoresInitially == StoresInit => LockInv /\ StoresInv
<1> SUFFICES ASSUME StoresInit
             PROVE  LockInv /\ StoresInv
  OBVIOUS
<1>1. LockInv
  BY LockInit DEF StoresInit
<1>2. Fits(Done)
  BY DEF Fits, Done, Do, Files
<1>3. \A c \in Calls : at[c] = "idle" /\ op[c] = Done
  BY DEF StoresInit
<1>4. StoresTypes
  BY DEF StoresInit, StoresTypes, Places, Files
<1> QED
  BY <1>1, <1>2, <1>3, <1>4 DEF StoresInv, Operations, HoldsOnce, Holding, InSection,
                                GuardHeld, SeenNow, Done, Do

LEMMA TypesKept == LockInv /\ StoresInv /\ StoresNext => StoresTypes'
<1> SUFFICES ASSUME LockInv, StoresInv, StoresNext
             PROVE  StoresTypes'
  OBVIOUS
<1>0. Domains /\ StoresTypes
  BY Steps DEF StoresInv
<1>1. CASE file' = file
  BY <1>0, <1>1 DEF StoresTypes, Domains
<1>2. ASSUME NEW c \in Calls, Writes(c)
      PROVE  StoresTypes'
  <2>1. DOMAIN file' = Files
    BY <1>0, <1>2 DEF Writes, StoresTypes
  <2>2. file'["manifest"] \in Manifests \cup {None}
    <3>1. CASE op[c].file = "manifest"
      BY <1>2, <3>1, ManifestWritten
    <3>2. CASE op[c].file /= "manifest"
      BY <1>0, <1>2, <3>2 DEF Writes, StoresTypes, Files
    <3> QED
      BY <3>1, <3>2
  <2> QED
    BY <1>0, <2>1, <2>2 DEF StoresTypes, Domains
<1> QED
  BY <1>1, <1>2, Steps

LEMMA DoneFits == Fits(Done) /\ Done.kind = "done" /\ Done.file = "manifest"
  BY DEF Fits, Done, Do, Files

LEMMA AppendFits == Fits(AppendEvent) /\ AppendEvent.kind = "append"
                        /\ AppendEvent.file = "manifest"
  BY DEF Fits, AppendEvent, Do, Files

LEMMA OperationsKept == LockInv /\ StoresInv /\ StoresNext => Operations'
<1> SUFFICES ASSUME LockInv, StoresInv, StoresNext
             PROVE  Operations'
  OBVIOUS
<1> DEFINE Good(c) == /\ Fits(op[c])
                      /\ op[c].kind = "flag" => In(c) = Daemon
                      /\ op[c].kind = "done" => at[c] \in {"idle", "written", "leaving"}
<1>0. Operations /\ \A c \in Calls : Good(c)
  BY DEF StoresInv, Operations
<1>1. ASSUME NEW c \in Calls, Aside(c), NEW d \in Calls, d /= c
      PROVE  Good(d)'
  BY <1>0, <1>1 DEF Aside, Fits, In, Section
<1>2. ASSUME NEW c \in Calls, Shape(c)
      PROVE  Good(c)'
  BY <1>0, <1>2, DoneFits, AppendFits
     DEF Shape, Begins, Guards, Takes, Enters, Decides, Ends, Leaves, Rests, Same, Fits, In, Section
<1>3. ASSUME NEW c \in Calls, Writes(c)
      PROVE  Good(c)'
  BY <1>3, DoneFits, AppendFits DEF Writes, Fits, In, Section
<1>4. ASSUME NEW p \in Procs, Kills(p), NEW c \in Calls
      PROVE  Good(c)'
  BY <1>0, <1>4, DoneFits DEF Kills, Fits, In, Section
<1> QED
  BY <1>1, <1>2, <1>3, <1>4, Steps DEF Operations

LEMMA HoldsOnceKept == LockInv /\ StoresInv /\ StoresNext => HoldsOnce'
<1> SUFFICES ASSUME LockInv, StoresInv, StoresNext
             PROVE  HoldsOnce'
  OBVIOUS
<1> DEFINE Kept(d)   == d \in Holding /\ op'[d].file = op[d].file
           Starts(d) == d \notin Holding /\ op'[d].file = op[d].file /\ Free(d)
<1>1. ASSUME NEW c \in Calls, Shape(c), Aside(c)
      PROVE  /\ \A d \in Calls \ {c} : d \in Holding' => Kept(d)
             /\ c \in Holding' => Kept(c) \/ Starts(c)
  <2>1. \A d \in Calls \ {c} : d \in Holding' => Kept(d)
    BY <1>1 DEF Aside, Holding
  <2>2. c \in Holding' => Kept(c) \/ Starts(c)
    BY <1>1, DoneFits DEF Holding, Shape, Begins, Guards, Takes, Enters, Decides, Ends, Leaves, Rests, Same
  <2> QED
    BY <2>1, <2>2
<1>2. ASSUME NEW c \in Calls, Writes(c), Aside(c)
      PROVE  \A d \in Calls : d \in Holding' => Kept(d)
  BY <1>2, DoneFits, AppendFits DEF Writes, Aside, Holding
<1>3. ASSUME NEW p \in Procs, Kills(p)
      PROVE  \A d \in Calls : d \in Holding' => Kept(d)
  BY <1>3 DEF Kills, Holding
<1>4. \/ \A d \in Calls : d \in Holding' => Kept(d)
      \/ \E c \in Calls : /\ \A d \in Calls \ {c} : d \in Holding' => Kept(d)
                          /\ c \in Holding' => Kept(c) \/ Starts(c)
  BY <1>1, <1>2, <1>3, Steps
<1>5. ASSUME NEW c \in Calls, NEW d \in Calls, c \in Holding', d \in Holding',
             In(c) = In(d), op'[c].file = op'[d].file
      PROVE  c = d \/ Scope(op'[c].file) = "nothing"
  <2>1. CASE Kept(c) /\ Kept(d)
    BY <1>5, <2>1 DEF StoresInv, HoldsOnce
  <2>2. CASE c /= d /\ ((Starts(c) /\ Kept(d)) \/ (Starts(d) /\ Kept(c)))
    BY <1>5, <2>2 DEF Free
  <2> QED
    BY <1>4, <1>5, <2>1, <2>2
<1> QED
  BY <1>5 DEF HoldsOnce, In, Section, Scope, Holding

LEMMA InSectionKept == LockInv /\ StoresInv /\ StoresNext => InSection'
<1> SUFFICES ASSUME LockInv, StoresInv, StoresNext
             PROVE  InSection'
  OBVIOUS
<1> DEFINE Good(c) ==
             /\ at[c] \in {"open", "decided"} /\ op[c].file = "manifest" => pc[Section(c)] = "in"
             /\ at[c] = "written" => op[c].file = "manifest" /\ pc[Section(c)] = "in"
<1>0. \A c \in Calls : Good(c)
  BY DEF StoresInv, InSection
<1>1. ASSUME NEW c \in Calls, Aside(c), NEW d \in Calls, d /= c
      PROVE  Good(d)'
  BY <1>0, <1>1 DEF Aside, Section
<1>2. ASSUME NEW c \in Calls, Shape(c)
      PROVE  Good(c)'
  BY <1>0, <1>2, DoneFits
     DEF Shape, Begins, Guards, Takes, Enters, Decides, Ends, Leaves, Rests, Same, Inside, Section
<1>3. ASSUME NEW c \in Calls, Writes(c)
      PROVE  Good(c)'
  BY <1>0, <1>3, DoneFits, AppendFits DEF Writes, Inside, Section
<1>4. ASSUME NEW p \in Procs, Kills(p), NEW c \in Calls
      PROVE  Good(c)'
  BY <1>0, <1>4 DEF Kills, Inside, Section
<1> QED
  BY <1>1, <1>2, <1>3, <1>4, Steps DEF InSection

\* Two calls that are inside blocks of the lock are of one process.
LEMMA SameProcess ==
    ASSUME LockInv, NEW c \in Calls, NEW d \in Calls, pc[Section(c)] = "in",
           pc[Section(d)] = "in" \/ pc[Guard(d)] = "in"
    PROVE  In(c) = In(d)
<1>1. Section(c) \in inside /\ (Section(d) \in inside \/ Guard(d) \in inside)
  BY BlocksOfCalls DEF inside
<1> QED
  BY <1>1, OneProcess, BlocksOfCalls

\* The archive flag is set by the daemon, which is in its section then.
LEMMA GuardHeldKept == LockInv /\ StoresInv /\ StoresNext => GuardHeld'
<1> SUFFICES ASSUME LockInv, StoresInv, StoresNext
             PROVE  GuardHeld'
  OBVIOUS
<1> DEFINE Claims(c) == /\ Moves(op[c]) /\ In(c) /= Daemon
                        /\ at[c] \in {"begun", "waiting", "open", "decided", "written"}
           Good(c) == Claims(c) => pc[Guard(c)] = "in" /\ ~ Archived
<1>0. \A c \in Calls : Good(c)
  BY DEF StoresInv, GuardHeld
<1>a. ~ Moves(Done) /\ \A c \in Calls : In(c)' = In(c) /\ Guard(c)' = Guard(c)
  BY DoneFits DEF Moves, In, Section, Guard
<1>1. ASSUME NEW c \in Calls, Shape(c), Aside(c), file' = file, NEW d \in Calls
      PROVE  Good(d)'
  <2>1. Archived' = Archived
    BY <1>1 DEF Archived
  <2>2. CASE d /= c
    BY <1>0, <1>1, <1>a, <2>1, <2>2 DEF Aside, Moves
  <2>3. CASE d = c
    BY <1>0, <1>1, <1>a, <2>1, <2>3
       DEF Shape, Begins, Guards, Takes, Enters, Decides, Ends, Leaves, Rests, Same, Inside, Moves
  <2> QED
    BY <2>2, <2>3
<1>2. ASSUME NEW c \in Calls, Writes(c), Aside(c), NEW d \in Calls
      PROVE  Good(d)'
  <2> SUFFICES ASSUME Claims(d)'
               PROVE  pc'[Guard(d)] = "in" /\ ~ Archived'
    BY <1>a
  <2>1. Claims(d)
    <3>1. CASE d = c
      BY <1>2, <1>a, <3>1 DEF Writes, Moves
    <3>2. CASE d /= c
      BY <1>2, <1>a, <3>2 DEF Aside, Moves
    <3> QED
      BY <3>1, <3>2
  <2>2. pc[Guard(d)] = "in" /\ ~ Archived /\ pc'[Guard(d)] = pc[Guard(d)]
    BY <1>0, <1>2, <2>1 DEF Aside, Writes, Inside
  <2>3. CASE op[c].file /= "manifest"
    <3>1. file'["manifest"] = file["manifest"]
      BY <1>2, <2>3 DEF Writes, StoresInv, StoresTypes, Files
    <3> QED
      BY <2>2, <3>1 DEF Archived
  <2>4. CASE op[c].file = "manifest"
    <3>1. In(c) = In(d)
      <4>1. pc[Section(c)] = "in"
        BY <1>2, <2>4 DEF Writes, StoresInv, InSection
      <4> QED
        BY <2>2, <4>1, SameProcess
    <3>2. op[c].kind /= "flag"
      BY <2>1, <3>1 DEF StoresInv, Operations
    <3>3. file'["manifest"].archived => Archived
      BY <1>2, <2>4, <3>2, ManifestWritten DEF Archived
    <3> QED
      BY <2>2, <3>3 DEF Archived
  <2> QED
    BY <2>3, <2>4
<1>3. ASSUME NEW p \in Procs, Kills(p), file' = file, NEW c \in Calls
      PROVE  Good(c)'
  <2>1. Archived' = Archived
    BY <1>3 DEF Archived
  <2> QED
    BY <1>0, <1>3, <1>a, <2>1 DEF Kills, Inside, Moves
<1> QED
  BY <1>1, <1>2, <1>3, <1>a, Steps DEF GuardHeld, Moves

\* A write changes a file under another call that has decided only where
\* LocksKeepWrites allows it.
LEMMA SeenNowKept == LockInv /\ StoresInv /\ StoresNext => SeenNow'
<1> SUFFICES ASSUME LockInv, StoresInv, StoresNext
             PROVE  SeenNow'
  OBVIOUS
<1> DEFINE Appends(c) == op[c].kind = "append" \/ (at[c] = "decided" /\ op[c].kind = "flag")
           Good(c) == /\ at[c] = "decided" => Current(c)
                      /\ Appends(c) => file["manifest"] /= None
<1>0. \A c \in Calls : Good(c)
  BY DEF StoresInv, SeenNow
<1>1. ASSUME NEW c \in Calls, Shape(c), Aside(c), file' = file, NEW d \in Calls
      PROVE  Good(d)'
  <2>1. CASE d /= c
    BY <1>0, <1>1, <2>1 DEF Aside, Current, Scope, In, Section
  <2>2. CASE d = c
    <3>1. at'[c] = "decided" => Current(c)'
      BY <1>1 DEF Shape, Begins, Guards, Takes, Enters, Decides, Ends, Leaves, Rests, Same, Current
    <3>2. Appends(c)' => file'["manifest"] /= None
      BY <1>0, <1>1, DoneFits DEF Shape, Begins, Guards, Takes, Enters, Decides, Ends, Leaves,
             Rests, Same, StoresInv, Operations, Fits
    <3> QED
      BY <2>2, <3>1, <3>2
  <2> QED
    BY <2>1, <2>2
<1>2. ASSUME NEW c \in Calls, Writes(c), Aside(c), NEW d \in Calls
      PROVE  Good(d)'
  <2>1. at'[d] = "decided" => d /= c /\ at[d] = "decided"
    BY <1>2 DEF Aside, Writes
  <2>2. at'[d] = "decided" => Current(d)'
    <3> SUFFICES ASSUME at'[d] = "decided"
                 PROVE  Current(d)'
      OBVIOUS
    <3> DEFINE f == op[d].file
    <3>1. /\ op'[d] = op[d] /\ seen'[d] = seen[d] /\ Current(d) /\ f \in Files
          /\ d /= c /\ at[d] = "decided"
      BY <1>0, <1>2, <2>1 DEF Aside, StoresInv, Operations, Fits
    <3>2. CASE op[c].file /= f
      <4>1. file'[f] = file[f]
        BY <1>2, <3>1, <3>2 DEF Writes, StoresInv, StoresTypes
      <4> QED
        BY <3>1, <4>1 DEF Current, Scope, In, Section
    <3>3. CASE op[c].file = f /\ Scope(f) = "nothing"
      BY <3>1, <3>3 DEF Current, Scope
    <3>4. CASE op[c].file = f /\ Scope(f) /= "nothing"
      <4>1. c \in Holding /\ d \in Holding
        BY <1>2, <3>1 DEF Writes, Holding
      <4>2. In(c) /= In(d)
        BY <3>1, <3>4, <4>1 DEF StoresInv, HoldsOnce
      <4>3. f /= "manifest"
        BY <1>2, <3>1, <3>4, <4>2, SameProcess DEF Writes, StoresInv, InSection
      <4>4. Scope(f) = "process"
        BY <3>4, <4>3 DEF Scope
      <4>5. file'[f] = Content(c, op[c], seen[c])
        BY <1>2, <3>1, <3>4 DEF Writes, StoresInv, StoresTypes
      <4>6. op[c].kind \notin {"start", "flag", "append"}
        BY <3>4, <4>3 DEF StoresInv, Operations, Fits
      <4>7. file'[f] = [n |-> begun, by |-> In(c)]
        BY <4>5, <4>6 DEF Content
      <4>8. file'[f] /= None /\ file'[f].by = In(c)
        BY <4>7, StoresAssumption, BlocksOfCalls DEF Contents, StoresInv, StoresTypes
      <4> QED
        BY <3>1, <4>2, <4>4, <4>8 DEF Current, Scope, In, Section
    <3> QED
      BY <3>2, <3>3, <3>4
  <2>3. file["manifest"] /= None => file'["manifest"] /= None
    <3>1. CASE op[c].file = "manifest"
      BY <1>2, <3>1, ManifestWritten, StoresAssumption
    <3>2. CASE op[c].file /= "manifest"
      BY <1>2, <3>2 DEF Writes, StoresInv, StoresTypes, Files
    <3> QED
      BY <3>1, <3>2
  <2>4. Appends(d)' => file'["manifest"] /= None
    <3>1. CASE d /= c
      BY <1>0, <1>2, <2>3, <3>1 DEF Aside
    <3>2. CASE d = c
      <4>1. op'[c].kind \in {"append", "done"} /\ at'[c] /= "decided"
        BY <1>2, DoneFits, AppendFits DEF Writes
      <4>2. op'[c].kind = "append" => op[c].file = "manifest"
        BY <1>2, DoneFits DEF Writes
      <4> QED
        BY <1>2, <3>2, <4>1, <4>2, ManifestWritten, StoresAssumption
    <3> QED
      BY <3>1, <3>2
  <2> QED
    BY <2>2, <2>4
<1>3. ASSUME NEW p \in Procs, Kills(p), file' = file, NEW c \in Calls
      PROVE  Good(c)'
  BY <1>0, <1>3, DoneFits DEF Kills, Current, Scope, In, Section
<1> QED
  BY <1>1, <1>2, <1>3, Steps DEF SeenNow

LEMMA StoresInvariance == LockInv /\ StoresInv /\ [StoresNext]_vars2 => LockInv' /\ StoresInv'
<1>1. LockInv /\ StoresInv /\ StoresNext => StoresInv'
  BY TypesKept, OperationsKept, HoldsOnceKept, InSectionKept, GuardHeldKept, SeenNowKept
     DEF StoresInv
<1>2. StoresInv /\ UNCHANGED vars2 => StoresInv'
  BY DEF StoresInv, vars2, lockVars, StoresTypes, Operations, Fits, HoldsOnce, Holding, Scope,
         InSection, GuardHeld, Moves, Archived, SeenNow, Current, In, Section, Guard
<1> QED
  BY <1>1, <1>2, LockStands
-----------------------------------------------------------------------------
(* What the locks are for.                                                 *)

\* No write under a lock replaces what its writer has not seen, but for a
\* profile that another process wrote (_write_profile, _manifest_write_lock).
THEOREM WritesKept == StoresSpec => LocksKeepWrites
<1>1. LockInv /\ StoresInv /\ [StoresNext]_vars2 =>
          [\A c \in Calls : Writing(c) => Current(c)]_vars2
  BY DEF StoresInv, SeenNow, Writing
<1>2. (\A c \in Calls : Writing(c) => Current(c)) =>
          \A c \in Calls : Writing(c) =>
             LET f == op[c].file IN
             \/ file[f] = seen[c]
             \/ Scope(f) = "nothing"
             \/ Scope(f) = "process" /\ file[f] /= None /\ file[f].by /= In(c)
  BY DEF Current
<1>3. LockInv /\ StoresInv /\ [StoresNext]_vars2 =>
          [\A c \in Calls : Writing(c) =>
             LET f == op[c].file IN
             \/ file[f] = seen[c]
             \/ Scope(f) = "nothing"
             \/ Scope(f) = "process" /\ file[f] /= None /\ file[f].by /= In(c)]_vars2
  BY <1>1, <1>2
<1> QED
  BY <1>3, StoresInitially, StoresInvariance, PTL DEF StoresSpec, LocksKeepWrites

\* A run keeps its contract, its blueprint and its events, and no command
\* moves it once it is archived (create_run, _set_archived, _guarded_mutation).
THEOREM RunsStand == StoresSpec => RunStands
<1> DEFINE m == file["manifest"]
           n == file'["manifest"]
           Stands == m /= None /\ n /= m =>
                        /\ Continues(m, n)
                        /\ m.archived /\ n.events /= m.events =>
                              \E c \in Calls : Writing(c) /\ op[c] = AppendEvent /\ In(c) = Daemon
<1>1. ASSUME LockInv, StoresInv, StoresNext
      PROVE  Stands
  <2>1. CASE n = m
    BY <2>1
  <2>2. ASSUME NEW c \in Calls, Writes(c), n /= m, m /= None
        PROVE  Stands
    <3>1. op[c].file = "manifest"
      BY <1>1, <2>2 DEF Writes, StoresInv, StoresTypes, Files
    <3>2. Continues(m, n) /\ (n.events /= m.events => op[c].kind = "append")
      BY <1>1, <2>2, <3>1, ManifestWritten
    <3>3. ASSUME m.archived, n.events /= m.events
          PROVE  Writing(c) /\ op[c] = AppendEvent /\ In(c) = Daemon
      <4>1. op[c] = AppendEvent
        BY <1>1, <3>2, <3>3 DEF StoresInv, Operations, Fits
      <4>2. Writing(c)
        BY <2>2 DEF Writes, Writing
      <4>3. Archived
        BY <2>2, <3>3 DEF Archived
      <4>4. In(c) = Daemon
        BY <1>1, <2>2, <4>1, <4>3, AppendFits DEF StoresInv, GuardHeld, Moves, Writes
      <4> QED
        BY <4>1, <4>2, <4>4
    <3> QED
      BY <3>2, <3>3
  <2> QED
    BY <1>1, <2>1, <2>2, Steps
<1>2. LockInv /\ StoresInv /\ [StoresNext]_vars2 => [Stands]_vars2
  BY <1>1
<1> QED
  BY <1>2, StoresInitially, StoresInvariance, PTL DEF StoresSpec, RunStands
=============================================================================
