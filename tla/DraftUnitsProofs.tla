-------------------------- MODULE DraftUnitsProofs --------------------------
(***************************************************************************)
(* Proofs about DraftUnits, for every set of modules, outlines, skeletons, *)
(* texts and request threads, and any number of operations and deaths.     *)
(***************************************************************************)
EXTENDS DraftUnits, TLAPS

(* The inductive invariant, part by part.                                  *)

\* What a thread works on, by where it is.
Fits(t, l, o) ==
    /\ o.kind \in Kinds
    /\ l = "idle" => o = Idle
    /\ l \in {"orphan", "contract", "event", "skelPrompt"} => t \in Requests /\ o.kind = "inputs"
    /\ l \in {"compile", "append"} => /\ o.kind \in {"prompts", "fanout"}
                                      /\ {"kind", "todo", "hashes"} \subseteq DOMAIN o
                                      /\ o.todo \subseteq Modules
    /\ l = "append" => o.hashes \in [Modules -> Inputs \cup {None}]
    /\ l = "admit"  => o.kind = "fanout"
    /\ o.kind = "fanout" => /\ t \in Requests /\ l \in {"compile", "append", "admit"}
                            /\ "selected" \in DOMAIN o /\ o.selected \subseteq Modules
    /\ l \in {"queued", "runs"} => t \in Jobs /\ o.kind = "unit"
    /\ l = "runs" /\ t # Skeleton => o.made \in Inputs
    /\ l \in {"save", "edit"} => /\ o.kind = "unit" /\ o.unit \in Jobs
                                 /\ o.answer \in IF o.unit = Skeleton THEN Skeletons ELSE Units
    /\ l \in {"lock", "assemble"} => o.kind = "assemble"
    /\ l \in {"write", "record"}  => o.kind = "write" /\ o.text # Hand
    /\ l = "write" => o.force \/ o.seen # Hand

FilesTyped ==
    /\ outline \in Outlines /\ contract \in Outlines \cup {None} /\ drafted \in Outlines \cup {None}
    /\ skelPrompt \in BOOLEAN /\ skeleton \in Skeletons \cup {None}
    /\ prompt \in [Modules -> Inputs \cup {None}] /\ event \in [Modules -> Inputs \cup {None}]
    /\ resp \in [Modules -> Units \cup {None}]
    /\ rebuilt \subseteq Modules /\ cut \in BOOLEAN /\ lagging \in BOOLEAN

ThreadsTyped ==
    /\ pc \in [Threads -> Labels]
    /\ DOMAIN op = Threads
    /\ \A t \in Threads : Fits(t, pc[t], op[t])

\* Whoever assembles has the lock; a fan-out never has it.
LockHeld ==
    /\ lock \in Threads \cup {None}
    /\ \A t \in Threads : pc[t] \in {"assemble", "write", "record"} => lock = t
    /\ \A t \in Threads : lock = t => /\ pc[t] \in {"assemble", "write", "record", "compile", "append"}
                                      /\ op[t].kind # "fanout"

\* While a fan-out recompiles prompts, no job is live and no other fan-out is.
FanoutAlone ==
    \A r \in Requests : op[r].kind = "fanout" =>
        /\ \A j \in Jobs : pc[j] = "idle"
        /\ \A q \in Requests \ {r} : op[q].kind # "fanout"

\* A response was made from the prompt that stands over it, or is marked.
AnswersPrompt == \A m \in Modules \ rebuilt : resp[m] # None => resp[m].made = prompt[m]

\* An assembly that is being written is still the assembly of what is saved.
SnapshotStands ==
    ~cut /\ ~lagging =>
        \A t \in Threads : pc[t] \in {"write", "record"} => skeleton = None \/ op[t].text = Assembly

\* An assembled stage response is the assembly of what is saved, unless a thread
\* is about to assemble: StageFollowsUnits, and the threads that may be at work.
StageStands ==
    (/\ ~cut /\ ~lagging
     /\ \A t \in Threads : pc[t] \notin {"assemble", "write", "record"}
     /\ stage # None /\ stage = assembled
     /\ Outstanding = {} /\ Assembles) => stage = Assembly

DraftInv ==
    /\ FilesTyped /\ ThreadsTyped /\ LockHeld /\ FanoutAlone /\ AnswersPrompt
    /\ assembled # Hand /\ SnapshotStands /\ StageStands

-----------------------------------------------------------------------------
(* What the derived operators depend on, and their types.                  *)

LEMMA HandIsNoAssembly == Assembly # Hand
  BY DEF Assembly, Hand

LEMMA EmbeddedIn ==
    ASSUME NEW S, NEW f \in S, NEW m \in Modules
    PROVE  f[m] \in UNION {{g[x] : x \in Modules} : g \in S}
<1>1. f[m] \in {f[x] : x \in Modules}
  OBVIOUS
<1>2. {f[x] : x \in Modules} \in {{g[x] : x \in Modules} : g \in S}
  OBVIOUS
<1> QED
  BY <1>1, <1>2

LEMMA InputsTyped ==
    ASSUME FilesTyped, NEW m \in Modules
    PROVE  InputsOf(m) \in Inputs
<1>1. ASSUME contract # None
      PROVE  contract[m] \in Entries
  BY <1>1, EmbeddedIn DEF FilesTyped, Entries
<1>2. ASSUME skeleton # None
      PROVE  skeleton[m] \in Stubs
  BY <1>2, EmbeddedIn DEF FilesTyped, Stubs
<1>3. None \in Entries /\ None \in Stubs
  BY DEF Entries, Stubs
<1> QED
  BY <1>1, <1>2, <1>3 DEF InputsOf, Inputs

LEMMA UnitsTyped ==
    ASSUME NEW u \in Units
    PROVE  u.text \in Texts /\ u.made \in Inputs /\ u # None
  BY DraftAssumption DEF Units

LEMMA RewrittenTyped ==
    ASSUME FilesTyped, NEW t \in Threads
    PROVE  Rewritten(t) \in [Modules -> Inputs \cup {None}]
  BY InputsTyped DEF Rewritten, FilesTyped

\* Rewriting the prompts of no module changes nothing.
LEMMA NothingRewritten ==
    ASSUME FilesTyped, NEW t \in Threads, op[t].todo = {}
    PROVE  Rewritten(t) = prompt
  BY DEF Rewritten, FilesTyped

LEMMA AssemblyKept ==
    ASSUME UNCHANGED <<outline, answers>>
    PROVE  Assembly' = Assembly
  BY DEF Assembly, Order, answers

LEMMA UnitsKept ==
    ASSUME UNCHANGED <<outline, contract, prompts, answers>>
    PROVE  /\ Assembly' = Assembly
           /\ Outstanding' = Outstanding
           /\ Assembles' = Assembles
  BY AssemblyKept DEF Outstanding, Assembles, ValidSkeleton, UnitState, Drifted, InputsOf, Order, prompts, answers

-----------------------------------------------------------------------------
(* What one step of a thread does to the threads and the lock.             *)

Holds == {"assemble", "write", "record", "compile", "append"}
Saves == {"assemble", "write", "record"}

\* t alone moves, to something that fits, and takes, keeps or gives back the lock;
\* it begins no fan-out, and a job that is idle stays idle.
ThreadStep(t) ==
    /\ pc' \in [Threads -> Labels]
    /\ DOMAIN op' = Threads
    /\ \A u \in Threads \ {t} : pc'[u] = pc[u] /\ op'[u] = op[u]
    /\ Fits(t, pc'[t], op'[t])
    /\ op'[t].kind = "fanout" => op[t].kind = "fanout"
    /\ t \in Jobs /\ pc[t] = "idle" => pc'[t] = "idle"
    /\ \/ /\ lock' = lock
          /\ lock = t => pc'[t] \in Holds /\ op'[t].kind # "fanout"
          /\ pc'[t] \in Saves => lock = t
       \/ pc'[t] = "idle" /\ lock' = IF lock = t THEN None ELSE lock
       \/ lock = None /\ lock' = t /\ pc'[t] \in Holds /\ op'[t].kind # "fanout"

LEMMA StepOfThread ==
    ASSUME ThreadsTyped, LockHeld, FanoutAlone, NEW t \in Threads, ThreadStep(t)
    PROVE  ThreadsTyped' /\ LockHeld' /\ FanoutAlone'
<1>1. ThreadsTyped'
  BY DEF ThreadsTyped, ThreadStep
<1>2. LockHeld'
  BY DraftAssumption DEF LockHeld, ThreadsTyped, ThreadStep, Holds, Saves
<1>3. FanoutAlone'
  BY DEF FanoutAlone, ThreadStep, Threads
<1> QED
  BY <1>1, <1>2, <1>3

\* A request that begins, whatever it is to do.
Begins(r) ==
    /\ pc[r] = "idle" /\ ~Active
    /\ pc'[r] \notin {"idle", "queued"} \cup Saves
    /\ op'[r].kind # "fanout"
    /\ ThreadStep(r)
    /\ UNCHANGED <<inputs, prompts, answers, whole, lock, history>>

LEMMA BeginFits ==
    ASSUME ThreadsTyped, LockHeld, NEW r \in Requests, NEW l \in Labels, NEW o,
           l \notin {"idle", "queued"} \cup Saves, o.kind # "fanout", Fits(r, l, o), Begin(r, l, o)
    PROVE  Begins(r)
<1>1. /\ pc' \in [Threads -> Labels] /\ DOMAIN op' = Threads
      /\ pc'[r] = l /\ op'[r] = o
      /\ \A u \in Threads \ {r} : pc'[u] = pc[u] /\ op'[u] = op[u]
  BY DEF Begin, ThreadsTyped, Threads
<1>2. lock' = lock /\ lock # r /\ r \notin Jobs
  BY DraftAssumption DEF Begin, LockHeld, Threads
<1> QED
  BY <1>1, <1>2 DEF Begins, Begin, ThreadStep, Saves

LEMMA RequestBegins ==
    ASSUME FilesTyped, ThreadsTyped, LockHeld, NEW r \in Requests,
           Advance(r) \/ Mend(r) \/ Paste(r) \/ Edit(r) \/ \E f \in BOOLEAN : RequestAssemble(r, f)
    PROVE  Begins(r)
<1> USE DEF Fits, Kinds, Labels, Saves
<1>1. ASSUME Advance(r)
      PROVE  Begins(r)
  <2>1. ASSUME NEW l \in {"orphan", "contract"}, Begin(r, l, [kind |-> "inputs"])
        PROVE  Begins(r)
    BY <2>1, BeginFits
  <2>2. ASSUME Begin(r, "compile", [kind |-> "prompts", todo |-> Missing, hashes |-> prompt])
        PROVE  Begins(r)
    <3>1. Missing \subseteq Modules
      BY DEF Missing, Order
    <3> QED
      BY <2>2, <3>1, BeginFits
  <2> QED
    BY <1>1, <2>1, <2>2 DEF Advance
<1>2. ASSUME NEW f, RequestAssemble(r, f)
      PROVE  Begins(r)
  BY <1>2, BeginFits DEF RequestAssemble
<1>3. ASSUME Paste(r)
      PROVE  Begins(r)
  <2>1. ASSUME NEW s \in Skeletons, NEW f,
               Begin(r, "save", [kind |-> "unit", unit |-> Skeleton, answer |-> s, force |-> f])
        PROVE  Begins(r)
    BY <2>1, BeginFits DEF Jobs
  <2>2. ASSUME NEW m \in Modules, NEW x \in Texts, NEW f, prompt[m] # None,
               Begin(r, "save", [kind |-> "unit", unit |-> m, force |-> f,
                                 answer |-> [text |-> x, made |-> prompt[m]]])
        PROVE  Begins(r)
    <3>1. [text |-> x, made |-> prompt[m]] \in Units /\ m # Skeleton
      BY <2>2, DraftAssumption DEF FilesTyped, Units
    <3> QED
      BY <2>2, <3>1, BeginFits DEF Jobs
  <2> QED
    BY <1>3, <2>1, <2>2 DEF Paste
<1>4. ASSUME NEW s \in Skeletons, EditSkeleton(r, s)
      PROVE  Begins(r)
  BY <1>4, BeginFits DEF EditSkeleton, Jobs
<1>5. ASSUME NEW m \in Modules, NEW x \in Texts, EditModule(r, m, x)
      PROVE  Begins(r)
  <2>1. [resp[m] EXCEPT !.text = x] \in Units /\ m # Skeleton
    BY <1>5, DraftAssumption DEF FilesTyped, Units, EditModule
  <2> QED
    BY <1>5, <2>1, BeginFits DEF EditModule, Jobs
<1> QED
  BY <1>1, <1>2, <1>3, <1>4, <1>5 DEF Mend, Edit, Order

\* The steps that one thread takes by itself.
Steps(t) ==
    \/ t \in Requests /\ \/ Orphan(t) \/ WriteContract(t) \/ RecordDrafted(t) \/ WriteSkeletonPrompt(t)
                         \/ LockUnits(t)
    \/ Work(t)
    \/ t \in Jobs /\ (Open(t) \/ Answer(t) \/ Fail(t))

LEMMA GotoStep ==
    ASSUME ThreadsTyped, LockHeld, NEW t \in Threads, NEW l \in Labels,
           Goto(t, l), pc[t] # "idle", Fits(t, l, op[t]),
           lock = t => l \in Holds /\ op[t].kind # "fanout", l \in Saves => lock = t
    PROVE  ThreadStep(t)
  BY DEF Goto, ThreadStep, ThreadsTyped

LEMMA DoneStep ==
    ASSUME ThreadsTyped, LockHeld, NEW t \in Threads,
           Done(t), pc[t] \notin Holds \cup {"idle"}, lock' = lock
    PROVE  ThreadStep(t)
<1>1. lock # t
  BY DEF LockHeld, Holds
<1>2. Fits(t, "idle", Idle) /\ Idle.kind = "none" /\ "idle" \in Labels
  BY DEF Fits, Idle, Kinds, Labels
<1> QED
  BY <1>1, <1>2 DEF Done, ThreadStep, ThreadsTyped, Saves

LEMMA ReleaseStep ==
    ASSUME ThreadsTyped, LockHeld, NEW t \in Threads, Release(t), pc[t] # "idle"
    PROVE  ThreadStep(t) /\ pc'[t] = "idle"
<1>1. Fits(t, "idle", Idle) /\ Idle.kind = "none" /\ "idle" \in Labels
  BY DEF Fits, Idle, Kinds, Labels
<1> QED
  BY <1>1 DEF Done, Release, ThreadStep, ThreadsTyped

LEMMA StepsMoveThreads ==
    ASSUME FilesTyped, ThreadsTyped, LockHeld, assembled # Hand, NEW t \in Threads, Steps(t)
    PROVE  ThreadStep(t)
<1> USE DEF Fits, Kinds, Labels, Holds, Saves
<1>1. ASSUME t \in Requests, Orphan(t) \/ WriteContract(t) \/ RecordDrafted(t)
      PROVE  ThreadStep(t)
  <2>1. Fits(t, pc[t], op[t]) /\ lock # t
    BY <1>1 DEF ThreadsTyped, LockHeld, Orphan, WriteContract, RecordDrafted
  <2> QED
    BY <1>1, <2>1, GotoStep DEF Orphan, WriteContract, RecordDrafted
<1>2. ASSUME WriteSkeletonPrompt(t)
      PROVE  ThreadStep(t)
  BY <1>2, DoneStep DEF WriteSkeletonPrompt
<1>3. ASSUME t \in Requests, LockUnits(t)
      PROVE  ThreadStep(t)
  <2>1. Fits(t, pc[t], op[t])
    BY DEF ThreadsTyped
  <2> QED
    BY <1>3, <2>1, DraftAssumption DEF LockUnits, Free, ThreadStep, ThreadsTyped, Threads
<1>4. ASSUME WritePrompts(t)
      PROVE  ThreadStep(t)
  <2>1. CASE MayWrite(t)
    <3>1. Rewritten(t) \in [Modules -> Inputs \cup {None}]
      BY RewrittenTyped
    <3>2. /\ op[t].kind \in {"prompts", "fanout"} /\ {"kind", "todo", "hashes"} \subseteq DOMAIN op[t]
          /\ op[t].todo \subseteq Modules
          /\ op[t].kind = "fanout" => /\ t \in Requests
                                     /\ "selected" \in DOMAIN op[t] /\ op[t].selected \subseteq Modules
      BY <1>4 DEF WritePrompts, ThreadsTyped
    <3>3. op'[t] = [op[t] EXCEPT !.hashes = Rewritten(t)]
      BY <1>4, <2>1 DEF WritePrompts, ThreadsTyped
    <3>4. /\ op'[t].kind = op[t].kind /\ op'[t].todo = op[t].todo /\ op'[t].hashes = Rewritten(t)
          /\ DOMAIN op'[t] = DOMAIN op[t]
          /\ op[t].kind = "fanout" => op'[t].selected = op[t].selected
      BY <3>2, <3>3
    <3>5. Fits(t, "append", op'[t])
      BY <3>1, <3>2, <3>4
    <3>6. /\ pc' = [pc EXCEPT ![t] = "append"] /\ lock' = lock /\ DOMAIN op' = Threads
          /\ \A u \in Threads \ {t} : op'[u] = op[u]
      BY <1>4, <2>1 DEF WritePrompts, ThreadsTyped
    <3>7. lock = t => op'[t].kind # "fanout"
      BY <3>4 DEF LockHeld
    <3> HIDE DEF Fits
    <3> QED
      BY <1>4, <3>4, <3>5, <3>6, <3>7 DEF WritePrompts, ThreadStep, ThreadsTyped
  <2>2. CASE ~MayWrite(t)
    BY <1>4, <2>2, ReleaseStep DEF WritePrompts
  <2> QED
    BY <2>1, <2>2
<1>5. ASSUME RecordPrompts(t)
      PROVE  ThreadStep(t)
  <2>1. CASE op[t].kind = "fanout"
    <3>1. lock # t /\ Fits(t, "admit", op[t])
      BY <1>5, <2>1 DEF LockHeld, RecordPrompts, ThreadsTyped
    <3> QED
      BY <1>5, <2>1, <3>1, GotoStep DEF RecordPrompts
  <2>2. CASE op[t].kind # "fanout"
    BY <1>5, <2>2, ReleaseStep DEF RecordPrompts
  <2> QED
    BY <2>1, <2>2
<1>6. ASSUME t \in Jobs, Open(t)
      PROVE  ThreadStep(t)
  <2>1. CASE t # Skeleton /\ prompt[t] = None
    BY <1>6, <2>1, DoneStep DEF Open
  <2>2. CASE ~(t # Skeleton /\ prompt[t] = None)
    <3>1. lock # t /\ op[t].kind = "unit"
      BY <1>6 DEF Open, LockHeld, ThreadsTyped
    <3>2. t # Skeleton => prompt[t] \in Inputs
      BY <1>6, <2>2 DEF FilesTyped, Jobs
    <3> QED
      BY <1>6, <2>2, <3>1, <3>2 DEF Open, ThreadStep, ThreadsTyped
  <2> QED
    BY <2>1, <2>2
<1>7. ASSUME t \in Jobs, Answer(t)
      PROVE  ThreadStep(t)
  <2>1. lock # t /\ (t # Skeleton => op[t].made \in Inputs)
    BY <1>7 DEF Answer, LockHeld, ThreadsTyped
  <2>2. CASE t = Skeleton
    <3>1. PICK s \in Skeletons : op' = [op EXCEPT ![t] = [kind |-> "unit", unit |-> t,
                                                         force |-> @.force, answer |-> s]]
      BY <1>7, <2>2 DEF Answer
    <3> QED
      BY <1>7, <2>1, <2>2, <3>1 DEF Answer, ThreadStep, ThreadsTyped
  <2>3. CASE t # Skeleton
    <3>1. PICK x \in Texts : op' = [op EXCEPT ![t] = [kind |-> "unit", unit |-> t, force |-> @.force,
                                                     answer |-> [text |-> x, made |-> @.made]]]
      BY <1>7, <2>3 DEF Answer
    <3>2. [text |-> x, made |-> op[t].made] \in Units
      BY <2>1, <2>3 DEF Units
    <3> QED
      BY <1>7, <2>1, <2>3, <3>1, <3>2 DEF Answer, ThreadStep, ThreadsTyped
  <2> QED
    BY <2>2, <2>3
<1>8. ASSUME t \in Jobs, Fail(t)
      PROVE  ThreadStep(t)
  BY <1>8, DoneStep DEF Fail
<1>9. ASSUME SaveUnit(t)
      PROVE  ThreadStep(t)
  <2>1. CASE ~MaySave(t)
    BY <1>9, <2>1, ReleaseStep DEF SaveUnit
  <2>2. CASE MaySave(t)
    <3>1. Missing \subseteq Modules
      BY DEF Missing, Order
    <3> QED
      BY <1>9, <2>2, <3>1 DEF SaveUnit, Free, ThreadStep, ThreadsTyped
  <2> QED
    BY <2>1, <2>2
<1>10. ASSUME Assemble(t)
       PROVE  ThreadStep(t)
  <2>1. lock = t
    BY <1>10 DEF Assemble, LockHeld
  <2>2. CASE /\ skeleton # None /\ Outstanding = {} /\ Assembles /\ MayReplace(t)
             /\ stage # Assembly
    <3>1. op[t].force \/ stage # Hand
      BY <2>2, DraftAssumption DEF MayReplace, Superseded, Hand
    <3> QED
      BY <1>10, <2>1, <2>2, <3>1, HandIsNoAssembly DEF Assemble, ThreadStep, ThreadsTyped
  <2>3. CASE ~(/\ skeleton # None /\ Outstanding = {} /\ Assembles /\ MayReplace(t)
               /\ stage # Assembly)
    BY <1>10, <2>3, ReleaseStep DEF Assemble
  <2> QED
    BY <2>2, <2>3
<1>11. ASSUME WriteStage(t)
       PROVE  ThreadStep(t)
  <2>1. lock = t /\ Fits(t, "record", op[t]) /\ op[t].kind # "fanout"
    BY <1>11 DEF WriteStage, LockHeld, ThreadsTyped
  <2> QED
    BY <1>11, <2>1, GotoStep DEF WriteStage
<1>12. ASSUME RecordAssembled(t)
       PROVE  ThreadStep(t)
  BY <1>12, ReleaseStep DEF RecordAssembled
<1> QED
  BY <1>1, <1>2, <1>3, <1>4, <1>5, <1>6, <1>7, <1>8, <1>9, <1>10, <1>11, <1>12 DEF Steps, Work

-----------------------------------------------------------------------------
(* What one step of a thread does to the files.                            *)

LEMMA StepsKeepTypes ==
    ASSUME FilesTyped, ThreadsTyped, NEW t \in Threads, Steps(t)
    PROVE  FilesTyped'
<1> USE DEF FilesTyped, inputs, prompts, answers, history
<1>1. ASSUME Orphan(t) \/ WriteContract(t) \/ RecordDrafted(t) \/ WriteSkeletonPrompt(t) \/ LockUnits(t)
      PROVE  FilesTyped'
  BY <1>1 DEF Orphan, WriteContract, RecordDrafted, WriteSkeletonPrompt, LockUnits
<1>2. ASSUME WritePrompts(t)
      PROVE  FilesTyped'
  <2>1. op[t].todo \subseteq Modules
    BY <1>2 DEF WritePrompts, ThreadsTyped, Fits
  <2> QED
    BY <1>2, <2>1, RewrittenTyped DEF WritePrompts
<1>3. ASSUME RecordPrompts(t)
      PROVE  FilesTyped'
  <2>1. op[t].hashes \in [Modules -> Inputs \cup {None}]
    BY <1>3 DEF RecordPrompts, ThreadsTyped, Fits
  <2> QED
    BY <1>3, <2>1 DEF RecordPrompts
<1>4. ASSUME Open(t) \/ Answer(t) \/ Fail(t)
      PROVE  FilesTyped'
  BY <1>4 DEF Open, Answer, Fail
<1>5. ASSUME SaveUnit(t)
      PROVE  FilesTyped'
  <2>1. op[t].unit \in Jobs /\ op[t].answer \in IF op[t].unit = Skeleton THEN Skeletons ELSE Units
    BY <1>5 DEF SaveUnit, ThreadsTyped, Fits
  <2> QED
    BY <1>5, <2>1, ZenonT(60) DEF SaveUnit, Jobs
<1>6. ASSUME Assemble(t) \/ WriteStage(t) \/ RecordAssembled(t)
      PROVE  FilesTyped'
  BY <1>6 DEF Assemble, WriteStage, RecordAssembled
<1> QED
  BY <1>1, <1>2, <1>3, <1>4, <1>5, <1>6 DEF Steps, Work

LEMMA StepsKeepAnswers ==
    ASSUME FilesTyped, ThreadsTyped, AnswersPrompt, NEW t \in Threads, Steps(t)
    PROVE  AnswersPrompt'
<1> USE DEF AnswersPrompt, inputs, prompts, answers, history
<1>1. ASSUME Orphan(t) \/ WriteContract(t) \/ RecordDrafted(t) \/ WriteSkeletonPrompt(t) \/ LockUnits(t)
      PROVE  AnswersPrompt'
  BY <1>1 DEF Orphan, WriteContract, RecordDrafted, WriteSkeletonPrompt, LockUnits
<1>2. ASSUME WritePrompts(t)
      PROVE  AnswersPrompt'
  BY <1>2 DEF WritePrompts, Rewritten, FilesTyped
<1>3. ASSUME RecordPrompts(t) \/ Open(t) \/ Answer(t) \/ Fail(t)
      PROVE  AnswersPrompt'
  BY <1>3 DEF RecordPrompts, Open, Answer, Fail
<1>4. ASSUME SaveUnit(t)
      PROVE  AnswersPrompt'
  BY <1>4 DEF SaveUnit, FilesTyped
<1>5. ASSUME Assemble(t) \/ WriteStage(t) \/ RecordAssembled(t)
      PROVE  AnswersPrompt'
  BY <1>5 DEF Assemble, WriteStage, RecordAssembled
<1> QED
  BY <1>1, <1>2, <1>3, <1>4, <1>5 DEF Steps, Work

LEMMA StepsRecordNoHand ==
    ASSUME ThreadsTyped, assembled # Hand, NEW t \in Threads, Steps(t)
    PROVE  assembled' # Hand
<1>1. ASSUME RecordAssembled(t)
      PROVE  assembled' # Hand
  BY <1>1 DEF RecordAssembled, ThreadsTyped, Fits
<1>2. ASSUME ~RecordAssembled(t)
      PROVE  assembled' = assembled
  BY <1>2 DEF Steps, Work, whole, Orphan, WriteContract, RecordDrafted, WriteSkeletonPrompt, LockUnits,
              WritePrompts, RecordPrompts, Open, Answer, Fail, SaveUnit, Assemble, WriteStage
<1> QED
  BY <1>1, <1>2

\* While a thread writes an assembly, nothing that it was made of is saved, for
\* the thread has the lock; what is written without it lags.
LEMMA StepsKeepSnapshot ==
    ASSUME FilesTyped, ThreadsTyped, LockHeld, SnapshotStands, assembled # Hand, NEW t \in Threads, Steps(t)
    PROVE  SnapshotStands'
<1> SUFFICES ASSUME ~cut', ~lagging', NEW u \in Threads, pc'[u] \in {"write", "record"}
             PROVE  skeleton' = None \/ op'[u].text = Assembly'
  BY DEF SnapshotStands
<1>1. \A v \in Threads \ {t} : pc'[v] = pc[v] /\ op'[v] = op[v]
  BY StepsMoveThreads DEF ThreadStep
<1>2. ASSUME UNCHANGED <<outline, answers, history>>, u # t
      PROVE  skeleton' = None \/ op'[u].text = Assembly'
  BY <1>1, <1>2, AssemblyKept DEF SnapshotStands, answers, history
<1> USE DEF inputs, prompts
<1>3. ~WriteContract(t)
  BY DEF WriteContract
<1>4. ASSUME Orphan(t)
      PROVE  skeleton' = None
  BY <1>4 DEF Orphan
<1>5. ASSUME RecordDrafted(t) \/ WriteSkeletonPrompt(t) \/ LockUnits(t) \/ Open(t) \/ Answer(t) \/ Fail(t)
      PROVE  skeleton' = None \/ op'[u].text = Assembly'
  <2>1. UNCHANGED <<outline, answers, history>>
    BY <1>5 DEF RecordDrafted, WriteSkeletonPrompt, LockUnits, Open, Answer, Fail
  <2>2. pc'[t] \notin {"write", "record"}
    BY <1>5 DEF RecordDrafted, WriteSkeletonPrompt, LockUnits, Open, Answer, Fail, Goto, Done, ThreadsTyped
  <2> QED
    BY <1>2, <2>1, <2>2
<1>6. ASSUME WritePrompts(t) \/ RecordPrompts(t)
      PROVE  skeleton' = None \/ op'[u].text = Assembly'
  <2>1. UNCHANGED <<outline, answers, cut>> /\ ~lagging
    BY <1>6 DEF WritePrompts, RecordPrompts, FilesTyped
  <2>2. pc'[t] \notin {"write", "record"}
    BY <1>6 DEF WritePrompts, RecordPrompts, Goto, Release, Done, ThreadsTyped
  <2> QED
    BY <1>1, <2>1, <2>2, AssemblyKept DEF SnapshotStands, answers
<1>7. ASSUME SaveUnit(t)
      PROVE  skeleton' = None \/ op'[u].text = Assembly'
  <2>1. u = t
    BY <1>1, <1>7, DraftAssumption DEF SaveUnit, Free, LockHeld
  <2> QED
    BY <1>7, <2>1 DEF SaveUnit, Release, Done, ThreadsTyped
<1>8. ASSUME Assemble(t)
      PROVE  skeleton' = None \/ op'[u].text = Assembly'
  <2>1. u = t
    BY <1>1, <1>8 DEF Assemble, LockHeld
  <2>2. op'[t].text = Assembly
    BY <1>8, <2>1 DEF Assemble, Release, Done, ThreadsTyped
  <2>3. UNCHANGED <<outline, answers>>
    BY <1>8 DEF Assemble
  <2> QED
    BY <2>1, <2>2, <2>3, AssemblyKept
<1>9. ASSUME WriteStage(t)
      PROVE  skeleton' = None \/ op'[u].text = Assembly'
  <2>1. UNCHANGED <<outline, answers, history, op>>
    BY <1>9 DEF WriteStage, Goto
  <2>2. pc[u] \in {"write", "record"}
    BY <1>1, <1>9 DEF WriteStage
  <2> QED
    BY <2>1, <2>2, AssemblyKept DEF SnapshotStands, answers, history
<1>10. ASSUME RecordAssembled(t)
       PROVE  skeleton' = None \/ op'[u].text = Assembly'
  BY <1>2, <1>10 DEF RecordAssembled, Release, Done, ThreadsTyped
<1>11. Orphan(t) \/ RecordDrafted(t) \/ WriteSkeletonPrompt(t) \/ LockUnits(t) \/ Open(t) \/ Answer(t)
         \/ Fail(t) \/ WritePrompts(t) \/ RecordPrompts(t) \/ SaveUnit(t) \/ Assemble(t) \/ WriteStage(t)
         \/ RecordAssembled(t)
  BY <1>3 DEF Steps, Work
<1> QED
  BY <1>4, <1>5, <1>6, <1>7, <1>8, <1>9, <1>10, <1>11

\* The stage response follows the units: a thread that saved one assembles next,
\* and the last that assembled has written or left the assembly of what is saved.
LEMMA StepsKeepStage ==
    ASSUME FilesTyped, ThreadsTyped, LockHeld, assembled # Hand, SnapshotStands, StageStands,
           NEW t \in Threads, Steps(t)
    PROVE  StageStands'
<1> SUFFICES ASSUME ~cut', ~lagging', \A u \in Threads : pc'[u] \notin Saves,
                    stage' # None, stage' = assembled', Outstanding' = {}, Assembles'
             PROVE  stage' = Assembly'
  BY DEF StageStands, Saves
<1>1. pc \in [Threads -> Labels] /\ DOMAIN op = Threads /\ \A u \in Threads \ {t} : pc'[u] = pc[u]
  BY StepsMoveThreads DEF ThreadStep, ThreadsTyped
<1>2. ASSUME UNCHANGED <<outline, contract, prompts, answers, whole, cut, lagging>>, pc[t] \notin Saves
      PROVE  stage' = Assembly'
  BY <1>1, <1>2, UnitsKept DEF StageStands, Saves, whole
<1>3. ~WriteContract(t)
  BY DEF WriteContract
<1>4. ~Orphan(t)
  BY DEF Orphan, Assembles, ValidSkeleton
<1>5. ASSUME RecordDrafted(t) \/ WriteSkeletonPrompt(t) \/ LockUnits(t) \/ Open(t) \/ Answer(t) \/ Fail(t)
      PROVE  stage' = Assembly'
  BY <1>2, <1>5 DEF RecordDrafted, WriteSkeletonPrompt, LockUnits, Open, Answer, Fail, Saves, inputs, history
<1>6. ASSUME WritePrompts(t)
      PROVE  stage' = Assembly'
  <2>1. prompt' = prompt
    BY <1>6, NothingRewritten DEF WritePrompts, FilesTyped
  <2> QED
    BY <1>2, <1>6, <2>1 DEF WritePrompts, Saves, inputs, prompts, FilesTyped
<1>7. ASSUME RecordPrompts(t)
      PROVE  stage' = Assembly'
  <2>1. event' = event
    BY <1>7 DEF RecordPrompts, FilesTyped
  <2> QED
    BY <1>2, <1>7, <2>1 DEF RecordPrompts, Saves, inputs, prompts, FilesTyped
<1>8. ASSUME SaveUnit(t)
      PROVE  stage' = Assembly'
  <2>1. ~MaySave(t)
    BY <1>1, <1>8 DEF SaveUnit, Saves
  <2> QED
    BY <1>2, <1>8, <2>1 DEF SaveUnit, Saves, inputs, answers
<1>9. ASSUME Assemble(t)
      PROVE  stage' = Assembly'
  <2>1. UNCHANGED <<outline, contract, prompts, answers, whole>>
    BY <1>9 DEF Assemble, inputs
  <2>2. Outstanding = {} /\ Assembles /\ stage' = stage /\ Assembly' = Assembly /\ assembled' = assembled
    BY <2>1, UnitsKept DEF whole
  <2>3. skeleton # None /\ MayReplace(t)
    BY <2>2 DEF Assembles, ValidSkeleton, MayReplace, Superseded
  <2>4. pc'[t] # "write"
    BY DEF Saves
  <2> QED
    BY <1>1, <1>9, <2>2, <2>3, <2>4 DEF Assemble
<1>10. ~WriteStage(t)
  BY <1>1 DEF WriteStage, Goto, Saves
<1>11. ASSUME RecordAssembled(t)
       PROVE  stage' = Assembly'
  <2>1. UNCHANGED <<outline, contract, prompts, answers, cut, lagging>>
    BY <1>11 DEF RecordAssembled, inputs, history
  <2>2. Assembles /\ Assembly' = Assembly
    BY <2>1, UnitsKept
  <2> QED
    BY <1>11, <2>1, <2>2 DEF RecordAssembled, SnapshotStands, Assembles, ValidSkeleton
<1>12. RecordDrafted(t) \/ WriteSkeletonPrompt(t) \/ LockUnits(t) \/ Open(t) \/ Answer(t) \/ Fail(t)
         \/ WritePrompts(t) \/ RecordPrompts(t) \/ SaveUnit(t) \/ Assemble(t) \/ RecordAssembled(t)
  BY <1>3, <1>4, <1>10 DEF Steps, Work
<1> QED
  BY <1>5, <1>6, <1>7, <1>8, <1>9, <1>11, <1>12

LEMMA StepsKeepInv ==
    ASSUME DraftInv, NEW t \in Threads, Steps(t)
    PROVE  DraftInv'
BY StepsMoveThreads, StepOfThread, StepsKeepTypes, StepsKeepAnswers, StepsRecordNoHand,
   StepsKeepSnapshot, StepsKeepStage DEF DraftInv

-----------------------------------------------------------------------------
(* Steps that start jobs or change no unit.                                *)

\* Who saves goes on, and nobody begins to write.
SavesUntouched ==
    \A u \in Threads : /\ pc[u] \in Saves => pc'[u] = pc[u]
                       /\ pc'[u] \in {"write", "record"} => pc'[u] = pc[u] /\ op'[u] = op[u]

LEMMA FilesUntouched ==
    ASSUME DraftInv, UNCHANGED <<inputs, prompts, answers, whole, history>>,
           ThreadsTyped', LockHeld', FanoutAlone',
           SavesUntouched
    PROVE  DraftInv'
<1> USE DEF DraftInv
<1>1. FilesTyped' /\ AnswersPrompt' /\ assembled' # Hand
  BY DEF FilesTyped, AnswersPrompt, inputs, prompts, answers, whole, history
<1>2. /\ Assembly' = Assembly /\ Outstanding' = Outstanding /\ Assembles' = Assembles
      /\ UNCHANGED <<skeleton, stage, assembled, cut, lagging>>
  BY UnitsKept DEF inputs, whole, answers, history
<1>3. SnapshotStands' /\ StageStands'
  BY <1>2 DEF SnapshotStands, StageStands, SavesUntouched, Saves
<1> QED
  BY <1>1, <1>3

LEMMA BeginsKeepInv ==
    ASSUME DraftInv, NEW r \in Requests, Begins(r)
    PROVE  DraftInv'
<1>1. r \in Threads
  BY DEF Threads
<1>2. ThreadsTyped' /\ LockHeld' /\ FanoutAlone'
  BY <1>1, StepOfThread DEF Begins, DraftInv
<1>3. SavesUntouched
  BY DEF Begins, ThreadStep, Saves, SavesUntouched
<1> QED
  BY <1>2, <1>3, FilesUntouched DEF Begins

\* Jobs are admitted by a request that is alone with its fan-out.
LEMMA AdmittedKeepInv ==
    ASSUME DraftInv, NEW r \in Requests, NEW selected \in SUBSET Jobs, NEW stale, NEW force,
           pc[r] \in {"idle", "admit"}, \A j \in Jobs : pc[j] = "idle",
           \A q \in Requests \ {r} : op[q].kind # "fanout",
           Admitted(selected, stale, force, r),
           UNCHANGED <<inputs, prompts, answers, whole, lock, history>>
    PROVE  DraftInv'
<1>1. \A t \in Threads :
        /\ t \in selected => /\ pc[t] = "idle" /\ pc'[t] = "queued" /\ t \in Jobs
                            /\ op'[t] = [kind |-> "unit", unit |-> t, force |-> force \/ t \in stale]
        /\ t = r => pc'[t] = "idle" /\ op'[t] = Idle
        /\ t \notin selected /\ t # r => pc'[t] = pc[t] /\ op'[t] = op[t]
  BY DraftAssumption DEF Admitted
<1>2. pc' \in [Threads -> Labels] /\ DOMAIN op' = Threads
  BY DEF Admitted, DraftInv, ThreadsTyped, Labels
<1>3. ThreadsTyped'
  <2>1. \A t \in Threads : Fits(t, "idle", Idle)
    BY DEF Fits, Idle, Kinds
  <2>2. \A t \in Jobs : Fits(t, "queued", [kind |-> "unit", unit |-> t, force |-> force \/ t \in stale])
    BY DEF Fits, Kinds
  <2> QED
    BY <1>1, <1>2, <2>1, <2>2 DEF DraftInv, ThreadsTyped
<1>4. LockHeld'
  BY <1>1 DEF DraftInv, LockHeld
<1>5. FanoutAlone'
  <2>1. ASSUME NEW q \in Requests
        PROVE  op'[q].kind # "fanout"
    <3>1. q \in Threads /\ q \notin selected
      BY DraftAssumption DEF Threads
    <3>2. CASE q = r
      <4>1. op'[q] = Idle
        BY <1>1, <3>1, <3>2
      <4> QED
        BY <4>1 DEF Idle
    <3>3. CASE q # r
      BY <1>1, <3>1, <3>3
    <3> QED
      BY <3>2, <3>3
  <2> QED
    BY <2>1 DEF FanoutAlone
<1>6. SavesUntouched
  BY <1>1 DEF Saves, SavesUntouched
<1> QED
  BY <1>3, <1>4, <1>5, <1>6, FilesUntouched

LEMMA AdmitKeepsInv ==
    ASSUME DraftInv, NEW r \in Requests, Admit(r)
    PROVE  DraftInv'
<1>1. r \in Threads
  BY DEF Threads
<1>2. op[r].kind = "fanout" /\ op[r].selected \subseteq Modules
  BY <1>1 DEF Admit, DraftInv, ThreadsTyped, Fits
<1>3. (\A j \in Jobs : pc[j] = "idle") /\ \A q \in Requests \ {r} : op[q].kind # "fanout"
  BY <1>2 DEF DraftInv, FanoutAlone
<1> QED
  BY <1>2, <1>3, AdmittedKeepInv DEF Admit, Jobs

LEMMA EnqueueKeepsInv ==
    ASSUME DraftInv, NEW r \in Requests, NEW force, Enqueue(r, force)
    PROVE  DraftInv'
<1>1. /\ r \in Threads /\ pc[r] = "idle" /\ \A j \in Jobs : pc[j] = "idle"
      /\ \A q \in Requests : op[q].kind # "fanout"
  BY DEF Enqueue, Active, Threads
<1>2. CASE skeleton = None
  BY <1>1, <1>2, AdmittedKeepInv DEF Enqueue, Jobs
<1>3. CASE skeleton # None
  <2>1. StaleOnes(force) \subseteq Modules /\ Selected(force) \subseteq Modules
    BY DEF StaleOnes, Selected, Order
  <2>2. /\ pc' = [pc EXCEPT ![r] = "compile"] /\ UNCHANGED <<inputs, prompts, answers, whole, lock, history>>
        /\ op' = [op EXCEPT ![r] = [kind |-> "fanout", todo |-> StaleOnes(force), hashes |-> prompt,
                                    selected |-> Selected(force), force |-> force]]
    BY <1>3 DEF Enqueue
  <2>3. ThreadsTyped'
    BY <1>1, <2>1, <2>2 DEF DraftInv, ThreadsTyped, Fits, Kinds, Labels
  <2>4. LockHeld'
    BY <1>1, <2>2, DraftAssumption DEF DraftInv, LockHeld, ThreadsTyped
  <2>5. FanoutAlone'
    BY <1>1, <2>2, DraftAssumption DEF FanoutAlone, DraftInv, ThreadsTyped, Threads
  <2>6. SavesUntouched
    BY <1>1, <2>2 DEF Saves, SavesUntouched, DraftInv, ThreadsTyped
  <2> QED
    BY <2>2, <2>3, <2>4, <2>5, <2>6, FilesUntouched
<1> QED
  BY <1>2, <1>3

LEMMA BreakKeepsInv ==
    ASSUME DraftInv, Break
    PROVE  DraftInv'
<1>1. \A t \in Threads : pc'[t] = "idle" /\ op'[t] = Idle
  BY DEF Break
<1>2. \A t \in Threads : Fits(t, "idle", Idle)
  BY DEF Fits, Idle, Kinds
<1>3. ThreadsTyped'
  BY <1>1, <1>2 DEF ThreadsTyped, Break, Labels
<1>4. LockHeld'
  BY <1>1, DraftAssumption DEF LockHeld, Break
<1>5. FanoutAlone'
  <2>1. \A r \in Requests : op'[r] = Idle
    BY <1>1 DEF Threads
  <2>2. Idle.kind # "fanout"
    BY DEF Idle
  <2> QED
    BY <2>1, <2>2 DEF FanoutAlone
<1>6. FilesTyped' /\ AnswersPrompt' /\ assembled' # Hand
  BY DEF Break, DraftInv, FilesTyped, AnswersPrompt, inputs, prompts, answers, whole
<1>7. SnapshotStands' /\ StageStands'
  BY DEF Break, SnapshotStands, StageStands
<1> QED
  BY <1>3, <1>4, <1>5, <1>6, <1>7 DEF DraftInv

LEMMA HandKeepsInv ==
    ASSUME DraftInv, SaveWhole
    PROVE  DraftInv'
<1> USE DEF DraftInv, SaveWhole, inputs, prompts, answers, threads, history
<1>1. FilesTyped' /\ AnswersPrompt' /\ assembled' # Hand
  BY DEF FilesTyped, AnswersPrompt
<1>2. ThreadsTyped' /\ LockHeld' /\ FanoutAlone'
  BY DEF ThreadsTyped, LockHeld, FanoutAlone
<1>3. SnapshotStands'
  BY AssemblyKept DEF SnapshotStands
<1>4. StageStands'
  BY DEF StageStands
<1> QED
  BY <1>1, <1>2, <1>3, <1>4

LEMMA OutlineKeepsInv ==
    ASSUME DraftInv, ApproveOutline
    PROVE  DraftInv'
<1> USE DEF DraftInv, ApproveOutline, prompts, answers, whole, threads
<1>1. FilesTyped' /\ AnswersPrompt' /\ assembled' # Hand
  BY DEF FilesTyped, AnswersPrompt
<1>2. ThreadsTyped' /\ LockHeld' /\ FanoutAlone'
  BY DEF ThreadsTyped, LockHeld, FanoutAlone
<1>3. SnapshotStands' /\ StageStands'
  BY DEF SnapshotStands, StageStands
<1> QED
  BY <1>1, <1>2, <1>3

-----------------------------------------------------------------------------
(* The invariant, and the properties.                                      *)

LEMMA DraftInit == Init => DraftInv
<1> SUFFICES ASSUME Init
             PROVE  DraftInv
  OBVIOUS
<1>1. FilesTyped /\ AnswersPrompt /\ SnapshotStands /\ StageStands
  BY DraftAssumption DEF Init, FilesTyped, AnswersPrompt, SnapshotStands, StageStands
<1>2. \A t \in Threads : Fits(t, "idle", Idle)
  BY DEF Fits, Idle, Kinds
<1>3. ThreadsTyped
  BY <1>2 DEF Init, ThreadsTyped, Labels
<1>4. LockHeld
  BY DraftAssumption DEF Init, LockHeld
<1>5. FanoutAlone
  <2>1. \A r \in Requests : op[r] = Idle
    BY DEF Init, Threads
  <2>2. Idle.kind # "fanout"
    BY DEF Idle
  <2> QED
    BY <2>1, <2>2 DEF FanoutAlone
<1>6. assembled # Hand
  BY DraftAssumption DEF Init, Hand
<1> QED
  BY <1>1, <1>3, <1>4, <1>5, <1>6 DEF DraftInv

LEMMA StutterKeepsInv ==
    ASSUME DraftInv, UNCHANGED vars
    PROVE  DraftInv'
<1>1. ThreadsTyped' /\ LockHeld' /\ FanoutAlone'
  BY DEF DraftInv, ThreadsTyped, LockHeld, FanoutAlone, vars, threads
<1>2. SavesUntouched
  BY DEF SavesUntouched, vars, threads
<1> QED
  BY <1>1, <1>2, FilesUntouched DEF vars

LEMMA DraftStep == DraftInv /\ [Next]_vars => DraftInv'
<1> SUFFICES ASSUME DraftInv, [Next]_vars
             PROVE  DraftInv'
  OBVIOUS
<1>1. ASSUME NEW r \in Requests, Follow(r) \/ OutOfTurn(r)
      PROVE  DraftInv'
  <2>1. \/ Advance(r) \/ Mend(r) \/ Paste(r) \/ Edit(r) \/ \E f \in BOOLEAN : RequestAssemble(r, f)
        \/ \E f \in BOOLEAN : Enqueue(r, f)
    BY <1>1 DEF Follow, OutOfTurn
  <2> QED
    BY <2>1, RequestBegins, BeginsKeepInv, EnqueueKeepsInv DEF DraftInv
<1>2. ASSUME NEW r \in Requests, Serve(r)
      PROVE  DraftInv'
  BY <1>2, AdmitKeepsInv, StepsKeepInv DEF Serve, Steps, Threads
<1>3. ASSUME NEW t \in Threads, Work(t)
      PROVE  DraftInv'
  BY <1>3, StepsKeepInv DEF Steps
<1>4. ASSUME NEW j \in Jobs, Open(j) \/ Answer(j) \/ Fail(j)
      PROVE  DraftInv'
  BY <1>4, StepsKeepInv DEF Steps, Threads
<1> QED
  BY <1>1, <1>2, <1>3, <1>4, HandKeepsInv, OutlineKeepsInv, BreakKeepsInv, StutterKeepsInv DEF Next

LEMMA DraftInvariant == Spec => []DraftInv
BY DraftInit, DraftStep, PTL DEF Spec

LEMMA InvImpliesTypes == DraftInv => TypeOK
BY DEF DraftInv, FilesTyped, ThreadsTyped, LockHeld, Fits, TypeOK

LEMMA InvImpliesCurrent == DraftInv => CurrentUnlessRebuilt
<1> SUFFICES ASSUME DraftInv, NEW m \in Order \ rebuilt, resp[m] # None,
                    UnitState(m) = "response_ingested", event[m] = prompt[m]
             PROVE  resp[m].made = InputsOf(m)
  BY DEF CurrentUnlessRebuilt
<1>1. m \in Modules /\ resp[m] \in Units
  BY DEF Order, DraftInv, FilesTyped
<1>2. resp[m].made = prompt[m] /\ prompt[m] # None
  BY <1>1, UnitsTyped, DraftAssumption DEF DraftInv, AnswersPrompt
<1>3. ~Drifted(m)
  BY <1>2 DEF UnitState
<1> QED
  BY <1>2, <1>3 DEF Drifted

\* What the files of the units say of each other, for any modules, outlines,
\* skeletons, texts, requests and jobs: a module reads as current only if its
\* response was made from its present entry and stub, unless its prompt was
\* rebuilt under the response (_module_unit_states).
THEOREM UnitsCorrect == Spec => []UnitsInv
<1>1. DraftInv => UnitsInv
  BY InvImpliesTypes, InvImpliesCurrent DEF UnitsInv
<1> QED
  BY DraftInvariant, <1>1, PTL

\* Whatever threads save units in whatever order, an assembled stage response is
\* the assembly of what is saved once everybody is done (_draft_unit_lock).
THEOREM StageFollows == Spec => []StageFollowsUnits
<1>1. DraftInv => StageFollowsUnits
  BY DEF DraftInv, StageStands, StageFollowsUnits
<1> QED
  BY DraftInvariant, <1>1, PTL

\* No assembly replaces a stage response written by hand that it could have
\* seen, but by force (_assemble_draft_locked).
THEOREM HandStands == Spec => HandWorkStands
<1>1. ASSUME DraftInv, [Next]_vars, stage = Hand, stage' # Hand
      PROVE  \E t \in Threads : pc[t] = "write" /\ (op[t].force \/ op[t].seen # Hand)
  <2>1. PICK t \in Threads : WriteStage(t)
    BY <1>1, ZenonT(60) DEF Next, Follow, OutOfTurn, Serve, Work, Advance, Mend, Paste, Edit, EditSkeleton, EditModule,
         RequestAssemble, Begin, Enqueue, Admit, Orphan, WriteContract, RecordDrafted, WriteSkeletonPrompt,
         LockUnits, WritePrompts, RecordPrompts, SaveUnit, Assemble, RecordAssembled, Open, Answer, Fail,
         SaveWhole, ApproveOutline, Break, vars, whole
  <2> QED
    BY <1>1, <2>1 DEF WriteStage, DraftInv, ThreadsTyped, Fits
<1>2. DraftInv /\ [Next]_vars =>
        [stage = Hand /\ stage' # Hand =>
           \E t \in Threads : pc[t] = "write" /\ (op[t].force \/ op[t].seen # Hand)]_vars
  BY <1>1
<1> QED
  BY DraftInvariant, <1>2, PTL DEF Spec, HandWorkStands
=============================================================================
