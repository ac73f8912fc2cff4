----------------------------- MODULE DraftUnits -----------------------------
(***************************************************************************)
(* The draft stage of one interactive-guide run                            *)
(* (education_pipeline/runs_draft_units.py): a skeleton response, one      *)
(* response per module, and their assembly into the response of the stage. *)
(* The units are written by worker threads that end module jobs, by HTTP   *)
(* threads that paste, edit, assemble or advance, and by a daemon that may *)
(* die between any two writes. `_draft_unit_lock` serializes what saves or *)
(* assembles units; building prompts, rebuilding them for a fan-out and    *)
(* writing the whole stage response by hand happen outside it.             *)
(*                                                                         *)
(* An outline gives every module its contract entry, a skeleton its stub;  *)
(* None means that the module is absent. A value stands for its bytes and  *)
(* for their hash. Which of two admissions wins, and that a unit has at    *)
(* most one live job, is FanoutChain: here a job has the name of its unit. *)
(***************************************************************************)
EXTENDS Naturals, FiniteSets

CONSTANTS
    Modules,     \* module ids of all outlines
    Outlines,    \* approved outlines, functions from modules to contract entries
    Skeletons,   \* skeleton responses, functions from modules to stubs
    Broken,      \* the skeletons that check_skeleton refuses by themselves
    Texts,       \* module responses
    Malformed,   \* the module responses that cannot be assembled
    Requests,    \* HTTP threads
    Skeleton,    \* the name of the skeleton's job; a module's job has its name
    None,        \* absent
    MaxMeddling, \* bound: operations that the next action does not ask for
    MaxBreaks    \* bound: deaths of the daemon

Entries == (UNION {{o[m] : m \in Modules} : o \in Outlines}) \cup {None}
Stubs   == (UNION {{s[m] : m \in Modules} : s \in Skeletons}) \cup {None}
Inputs  == [entry : Entries, stub : Stubs]
Units   == [text : Texts, made : Inputs]
Jobs    == Modules \cup {Skeleton}
Threads == Requests \cup Jobs

ASSUME DraftAssumption ==
    /\ IsFiniteSet(Modules)
    /\ Broken \subseteq Skeletons /\ Malformed \subseteq Texts
    /\ None \notin Outlines \cup Skeletons \cup Units \cup Inputs \cup Threads
    /\ None \notin Modules \cup Texts
    /\ None # [kind |-> "hand"]
    /\ Skeleton \notin Modules /\ Requests \cap Jobs = {}
    /\ MaxMeddling \in Nat /\ MaxBreaks \in Nat

VARIABLES
    outline,   \* the approved outline
    contract,  \* the outline inputs/guide-contract.json was made from
    drafted,   \* the outline the latest draft prompt_written event hashed
    skelPrompt,\* draft/skeleton/prompt.md exists
    skeleton,  \* draft/skeleton/response.json
    prompt,    \* prompt[m]: what draft/modules/m/prompt.md embeds
    event,     \* event[m]: what the latest unit_prompt_written of m hashed
    resp,      \* resp[m]: draft/modules/m/response.json, and what it was made from
    stage,     \* responses/draft.response.json
    assembled, \* the stage response the latest draft_assembled event hashed
    lock,      \* the owner of _draft_unit_lock
    pc,        \* where each thread is
    op,        \* what each thread works on
    rebuilt,   \* history: modules whose prompt was rebuilt under an old response
    cut,       \* history: a death left files without their event
    lagging,   \* history: what an assembly reads, but for the modules' responses,
               \* was written and no assembly has looked at it since
    meddled,   \* operations the next action did not ask for
    breaks     \* deaths of the daemon

inputs  == <<outline, contract, drafted, skelPrompt>>
prompts == <<prompt, event>>
answers == <<skeleton, resp>>
whole   == <<stage, assembled>>
threads == <<lock, pc, op>>
history == <<rebuilt, cut, lagging>>
spent   == <<meddled, breaks>>
vars    == <<inputs, prompts, answers, whole, threads, history, spent>>

-----------------------------------------------------------------------------
\* What the code derives from the files.

\* The authored module order, as a set: it is read from the approved outline.
Order == {m \in Modules : outline[m] # None}

\* check_skeleton: a stub for every module of the outline and for no other.
ValidSkeleton ==
    /\ skeleton # None
    /\ skeleton \notin Broken
    /\ {m \in Modules : skeleton[m] # None} = Order

\* What a prompt of m embeds now: its entry in the contract file (not in the
\* live outline) and its stub.
InputsOf(m) ==
    [entry |-> IF contract = None THEN None ELSE contract[m],
     stub  |-> IF skeleton = None THEN None ELSE skeleton[m]]

\* Mutant: only the contract makes a module stale.
DriftedEntry(m) == event[m] # None /\ event[m].entry # InputsOf(m).entry

\* The inputs that the prompt of m was recorded with have changed.
Drifted(m) == event[m] # None /\ event[m] # InputsOf(m)

UnitState(m) ==
    IF prompt[m] = None /\ resp[m] = None THEN "not_run"
    ELSE IF Drifted(m) THEN "stale"
    ELSE IF resp[m] # None THEN "response_ingested"
    ELSE "prompt_written"

Outstanding == {m \in Order : UnitState(m) # "response_ingested"}

\* assemble_guide of what is saved; it fails on a malformed unit.
Assembly == [skel |-> skeleton, texts |-> [m \in Order |-> resp[m].text]]
Assembles == ValidSkeleton /\ \A m \in Order : resp[m] # None /\ resp[m].text \notin Malformed

\* The stage response was written outside the unit layer.
Superseded == stage # None /\ stage # assembled

OutlineChanged == drafted # None /\ drafted # outline

\* The next action of the draft stage. "resave" stands for its two forms that
\* ask a person to mend a unit: an invalid skeleton, a failing assembly.
NextAction ==
    IF stage # None THEN "approve"
    ELSE IF OutlineChanged THEN "rebuild"
    ELSE IF drafted = None \/ ~skelPrompt THEN "write_inputs"
    ELSE IF skeleton = None THEN "run_skeleton"
    ELSE IF ~ValidSkeleton THEN "resave"
    ELSE IF \E m \in Order : UnitState(m) = "not_run" THEN "write_prompts"
    ELSE IF Outstanding # {} THEN "run_modules"
    ELSE IF ~Assembles THEN "resave"
    ELSE "assemble"

\* Mutant: units are saved without the lock.
FreeAlways == TRUE

Free == lock = None

Idle         == [kind |-> "none"]
Hand         == [kind |-> "hand"]
Active       == \E j \in Jobs : pc[j] # "idle"
Missing      == {m \in Order : prompt[m] = None}
Goto(t, l)   == pc' = [pc EXCEPT ![t] = l] /\ UNCHANGED <<lock, op>>
Done(t)      == pc' = [pc EXCEPT ![t] = "idle"] /\ op' = [op EXCEPT ![t] = Idle]
Release(t)   == Done(t) /\ lock' = IF lock = t THEN None ELSE lock
Asked(a)     == NextAction = a /\ UNCHANGED spent
Meddling     == meddled < MaxMeddling /\ meddled' = meddled + 1 /\ UNCHANGED breaks

Init ==
    /\ outline \in Outlines
    /\ contract = None /\ drafted = None /\ skelPrompt = FALSE
    /\ skeleton = None
    /\ prompt = [m \in Modules |-> None] /\ event = [m \in Modules |-> None]
    /\ resp = [m \in Modules |-> None]
    /\ stage = None /\ assembled = None
    /\ lock = None
    /\ pc = [t \in Threads |-> "idle"] /\ op = [t \in Threads |-> Idle]
    /\ rebuilt = {} /\ cut = FALSE /\ lagging = FALSE
    /\ meddled = 0 /\ breaks = 0

-----------------------------------------------------------------------------
\* Requests. Each looks for active jobs first and works without that guard
\* afterwards.

Begin(r, label, what) ==
    /\ pc[r] = "idle" /\ ~Active
    /\ pc' = [pc EXCEPT ![r] = label]
    /\ op' = [op EXCEPT ![r] = what]
    /\ UNCHANGED <<inputs, prompts, answers, whole, lock, history>>

\* `advance` when the next action is to write a prompt: what is written is
\* derived anew from the state it finds (_advance_draft_prompt).
Advance(r) ==
    \/ Asked("rebuild") /\ Begin(r, "orphan", [kind |-> "inputs"])
    \/ Asked("write_inputs") /\ Begin(r, "contract", [kind |-> "inputs"])
    \/ Asked("write_prompts") /\ Begin(r, "compile", [kind |-> "prompts", todo |-> Missing, hashes |-> prompt])

RequestAssemble(r, f) == Begin(r, "lock", [kind |-> "assemble", force |-> f])

\* A person pastes a response for a unit whose prompt is there.
Paste(r) ==
    /\ \/ \E s \in Skeletons, f \in BOOLEAN :
            /\ skelPrompt /\ (skeleton # None => f)
            /\ Begin(r, "save", [kind |-> "unit", unit |-> Skeleton, answer |-> s, force |-> f])
       \/ \E m \in Modules, x \in Texts, f \in BOOLEAN :
            /\ prompt[m] # None /\ (resp[m] # None => f)
            /\ Begin(r, "save", [kind |-> "unit", unit |-> m, force |-> f,
                                 answer |-> [text |-> x, made |-> prompt[m]]])
    /\ Meddling

\* A person edits the response of a unit: the editor sends the hash of what it
\* loaded. An edited response is still the answer to the prompt of the old one.
EditSkeleton(r, s) ==
    /\ skeleton # None
    /\ Begin(r, "edit", [kind |-> "unit", unit |-> Skeleton, answer |-> s,
                         base |-> skeleton, force |-> FALSE])

EditModule(r, m, x) ==
    /\ resp[m] # None
    /\ Begin(r, "edit", [kind |-> "unit", unit |-> m, force |-> FALSE, base |-> resp[m],
                         answer |-> [resp[m] EXCEPT !.text = x]])

\* What the next action asks of a person: another skeleton, or another text
\* for a module that cannot be assembled.
Mend(r) ==
    /\ Asked("resave")
    /\ \/ ~ValidSkeleton /\ \E s \in Skeletons \ Broken :
            {m \in Modules : s[m] # None} = Order /\ EditSkeleton(r, s)
       \/ ValidSkeleton /\ \E m \in Order, x \in Texts \ Malformed :
            resp[m].text \in Malformed /\ EditModule(r, m, x)

Edit(r) ==
    /\ Meddling
    /\ \/ \E s \in Skeletons : EditSkeleton(r, s)
       \/ \E m \in Modules, x \in Texts : EditModule(r, m, x)

\* The whole stage response is pasted or edited by hand, without the unit lock.
SaveWhole ==
    /\ Meddling /\ ~Active
    /\ stage' = Hand
    /\ UNCHANGED <<inputs, prompts, answers, assembled, threads, history>>

\* The outline is approved anew.
ApproveOutline ==
    /\ Meddling /\ ~Active
    /\ outline' \in Outlines \ {outline}
    /\ lagging' = TRUE
    /\ UNCHANGED <<contract, drafted, skelPrompt, prompts, answers, whole, threads, rebuilt, cut>>

-----------------------------------------------------------------------------
\* Building the inputs (_orphan_draft_units, write_draft_prompt).

\* Every response and every module prompt is moved aside; the events stay.
Orphan(r) ==
    /\ pc[r] = "orphan"
    /\ skeleton' = None
    /\ prompt' = [m \in Modules |-> None] /\ resp' = [m \in Modules |-> None]
    /\ rebuilt' = {}
    /\ Goto(r, "contract")
    /\ UNCHANGED <<inputs, event, whole, cut, lagging, spent>>

WriteContract(r) ==
    /\ pc[r] = "contract"
    /\ contract' = outline
    /\ lagging' = TRUE
    /\ Goto(r, "event")
    /\ UNCHANGED <<outline, drafted, skelPrompt, prompts, answers, whole, rebuilt, cut, spent>>

\* The draft prompt and its event, which hashes the outline as it is by now.
RecordDrafted(r) ==
    /\ pc[r] = "event"
    /\ drafted' = outline
    /\ Goto(r, "skelPrompt")
    /\ UNCHANGED <<outline, contract, skelPrompt, prompts, answers, whole, history, spent>>

WriteSkeletonPrompt(r) ==
    /\ pc[r] = "skelPrompt"
    /\ skelPrompt' = TRUE
    /\ Done(r)
    /\ UNCHANGED <<outline, contract, drafted, prompts, answers, whole, lock, history, spent>>

-----------------------------------------------------------------------------
\* Module prompts (write_module_draft_prompts): all files, then all events in
\* one append. The hashes are those the prompts were compiled from.

\* It refuses without a valid skeleton, a module the outline does not have,
\* and, except for a fan-out, a prompt that is already there.
MayWrite(t) ==
    /\ ValidSkeleton
    /\ op[t].todo \subseteq Order
    /\ op[t].kind = "fanout" \/ \A m \in op[t].todo : prompt[m] = None

Rewritten(t) == [m \in Modules |-> IF m \in op[t].todo THEN InputsOf(m) ELSE prompt[m]]

WritePrompts(t) ==
    /\ pc[t] = "compile"
    /\ IF MayWrite(t)
       THEN /\ prompt' = Rewritten(t)
            /\ rebuilt' = rebuilt \cup {m \in op[t].todo : resp[m] # None /\ resp[m].made # InputsOf(m)}
            /\ lagging' = (lagging \/ op[t].todo # {})
            /\ pc' = [pc EXCEPT ![t] = "append"]
            /\ op' = [op EXCEPT ![t].hashes = Rewritten(t)]
            /\ UNCHANGED lock
       ELSE Release(t) /\ UNCHANGED <<prompt, rebuilt, lagging>>
    /\ UNCHANGED <<inputs, event, answers, whole, cut, spent>>

RecordPrompts(t) ==
    /\ pc[t] = "append"
    /\ event' = [m \in Modules |-> IF m \in op[t].todo THEN op[t].hashes[m] ELSE event[m]]
    /\ lagging' = (lagging \/ op[t].todo # {})
    /\ IF op[t].kind = "fanout" THEN Goto(t, "admit") ELSE Release(t)
    /\ UNCHANGED <<inputs, prompt, answers, whole, rebuilt, cut, spent>>

-----------------------------------------------------------------------------
\* Jobs (_enqueue_draft_units_locked, execute).

Admitted(selected, stale, force, r) ==
    /\ pc' = [t \in Threads |-> IF t \in selected THEN "queued" ELSE IF t = r THEN "idle" ELSE pc[t]]
    /\ op' = [t \in Threads |->
                IF t \in selected THEN [kind |-> "unit", unit |-> t, force |-> force \/ t \in stale]
                ELSE IF t = r THEN Idle ELSE op[t]]

\* A person's stage response overlays the state of every module: only force
\* selects such modules, and none of them counts as stale.
Selected(force) == IF force THEN {m \in Order : Superseded \/ UnitState(m) # "not_run"}
                   ELSE {m \in Order : ~Superseded /\ UnitState(m) \in {"prompt_written", "stale"}}

\* Mutant: stale modules are run again as they are.
StaleNone(force) == {}

StaleOnes(force) == {m \in Selected(force) : ~Superseded /\ UnitState(m) = "stale"}

\* One job for the skeleton; else one for every selected module, after the
\* prompts of the stale ones are recompiled. Their jobs may replace responses.
\* Admissions exclude each other by the workspace lock.
Enqueue(r, force) ==
    /\ pc[r] = "idle" /\ ~Active /\ skelPrompt
    /\ \A q \in Requests : op[q].kind # "fanout"
    /\ IF skeleton = None
       THEN Admitted({Skeleton}, {}, force, r)
       ELSE /\ Selected(force) # {}
            /\ pc' = [pc EXCEPT ![r] = "compile"]
            /\ op' = [op EXCEPT ![r] = [kind |-> "fanout", todo |-> StaleOnes(force), hashes |-> prompt,
                                        selected |-> Selected(force), force |-> force]]
    /\ UNCHANGED <<inputs, prompts, answers, whole, lock, history>>

Admit(r) ==
    /\ pc[r] = "admit"
    /\ Admitted(op[r].selected, op[r].todo, op[r].force, r)
    /\ UNCHANGED <<inputs, prompts, answers, whole, lock, history, spent>>

\* The job reads its prompt; without one it fails.
Open(j) ==
    /\ pc[j] = "queued"
    /\ IF j # Skeleton /\ prompt[j] = None
       THEN Done(j)
       ELSE /\ pc' = [pc EXCEPT ![j] = "runs"]
            /\ op' = [op EXCEPT ![j] = IF j = Skeleton THEN @
                                       ELSE [kind |-> "unit", unit |-> j, force |-> op[j].force,
                                             made |-> prompt[j]]]
    /\ UNCHANGED <<inputs, prompts, answers, whole, lock, history, spent>>

\* The provider answers.
Answer(j) ==
    /\ pc[j] = "runs"
    /\ pc' = [pc EXCEPT ![j] = "save"]
    /\ \/ j = Skeleton /\ \E s \in Skeletons :
            op' = [op EXCEPT ![j] = [kind |-> "unit", unit |-> j, force |-> @.force, answer |-> s]]
       \/ j # Skeleton /\ \E x \in Texts :
            op' = [op EXCEPT ![j] = [kind |-> "unit", unit |-> j, force |-> @.force,
                                     answer |-> [text |-> x, made |-> @.made]]]
    /\ UNCHANGED <<inputs, prompts, answers, whole, lock, history, spent>>

\* The provider fails, times out, or the job is canceled.
Fail(j) ==
    /\ pc[j] \in {"queued", "runs"}
    /\ Meddling
    /\ Done(j)
    /\ UNCHANGED <<inputs, prompts, answers, whole, lock, history>>

-----------------------------------------------------------------------------
\* Saving a unit under the unit lock (ingest_draft_unit, edit_draft_unit) and
\* what follows: the missing prompts after a skeleton, an assembly after a
\* module.

Current(u) == IF u = Skeleton THEN skeleton ELSE resp[u]

\* No response is replaced without force, nor edited from other content.
MaySave(t) == IF pc[t] = "edit" THEN Current(op[t].unit) = op[t].base
              ELSE Current(op[t].unit) = None \/ op[t].force

SaveUnit(t) ==
    /\ pc[t] \in {"save", "edit"} /\ Free
    /\ IF ~MaySave(t)
       THEN Release(t) /\ UNCHANGED <<answers, rebuilt, lagging>>
       ELSE /\ lock' = t
            /\ LET u == op[t].unit
               IN IF u = Skeleton
                  THEN /\ skeleton' = op[t].answer
                       /\ lagging' = TRUE
                       /\ pc' = [pc EXCEPT ![t] = "compile"]
                       /\ op' = [op EXCEPT ![t] = [kind |-> "prompts", todo |-> Missing, hashes |-> prompt]]
                       /\ UNCHANGED <<resp, rebuilt>>
                  ELSE /\ resp' = [resp EXCEPT ![u] = op[t].answer]
                       /\ rebuilt' = IF op[t].answer.made = prompt[u] THEN rebuilt \ {u} ELSE rebuilt \cup {u}
                       /\ pc' = [pc EXCEPT ![t] = "assemble"]
                       /\ op' = [op EXCEPT ![t] = [kind |-> "assemble", force |-> op[t].force]]
                       /\ UNCHANGED <<skeleton, lagging>>
    /\ UNCHANGED <<inputs, prompts, whole, cut, spent>>

LockUnits(r) ==
    /\ pc[r] = "lock" /\ Free
    /\ lock' = r
    /\ pc' = [pc EXCEPT ![r] = "assemble"]
    /\ UNCHANGED <<inputs, prompts, answers, whole, op, history, spent>>

\* Mutant: a response written by hand is taken for an assembled one.
MayReplaceAny(t) == TRUE

\* A stage response written by hand is replaced by force only.
MayReplace(t) == ~Superseded \/ op[t].force

\* The snapshot: nothing is written while a module is outstanding, when a
\* person's response stands, when the units do not fit, or when nothing changed.
Assemble(t) ==
    /\ pc[t] = "assemble"
    /\ IF skeleton # None /\ Outstanding = {} /\ Assembles /\ MayReplace(t)
       THEN /\ lagging' = FALSE
            /\ IF stage = Assembly THEN Release(t)
               ELSE /\ pc' = [pc EXCEPT ![t] = "write"]
                    /\ op' = [op EXCEPT ![t] = [kind |-> "write", force |-> op[t].force,
                                                seen |-> stage, text |-> Assembly]]
                    /\ UNCHANGED lock
       ELSE Release(t) /\ UNCHANGED lagging
    /\ UNCHANGED <<inputs, prompts, answers, whole, rebuilt, cut, spent>>

WriteStage(t) ==
    /\ pc[t] = "write"
    /\ stage' = op[t].text
    /\ Goto(t, "record")
    /\ UNCHANGED <<inputs, prompts, answers, assembled, history, spent>>

RecordAssembled(t) ==
    /\ pc[t] = "record"
    /\ assembled' = op[t].text
    /\ Release(t)
    /\ UNCHANGED <<inputs, prompts, answers, stage, history, spent>>

\* The daemon dies; its jobs fail when it starts again.
Break ==
    /\ breaks < MaxBreaks /\ breaks' = breaks + 1
    /\ \E t \in Threads : pc[t] # "idle"
    /\ pc' = [t \in Threads |-> "idle"] /\ op' = [t \in Threads |-> Idle]
    /\ lock' = None
    /\ cut' = TRUE
    /\ UNCHANGED <<inputs, prompts, answers, whole, rebuilt, lagging, meddled>>

Work(t) ==
    \/ WritePrompts(t) \/ RecordPrompts(t)
    \/ SaveUnit(t) \/ Assemble(t) \/ WriteStage(t) \/ RecordAssembled(t)

Serve(r) ==
    \/ Orphan(r) \/ WriteContract(r) \/ RecordDrafted(r) \/ WriteSkeletonPrompt(r)
    \/ Admit(r) \/ LockUnits(r)

\* What the next action asks for, and everything else.
Follow(r) ==
    \/ Advance(r) \/ Mend(r)
    \/ Asked("assemble") /\ RequestAssemble(r, FALSE)
    \/ (Asked("run_skeleton") \/ Asked("run_modules")) /\ Enqueue(r, FALSE)

OutOfTurn(r) ==
    \/ Paste(r) \/ Edit(r)
    \/ Meddling /\ \E f \in BOOLEAN : RequestAssemble(r, f) \/ Enqueue(r, f)

Next ==
    \/ \E r \in Requests : Follow(r) \/ OutOfTurn(r) \/ Serve(r)
    \/ \E t \in Threads : Work(t)
    \/ \E j \in Jobs : Open(j) \/ Answer(j) \/ Fail(j)
    \/ SaveWhole \/ ApproveOutline \/ Break

Spec == Init /\ [][Next]_vars

\* What has begun goes on; what the next action asks for is done, and a person
\* or a model that is asked again and again gives a usable answer at last.
Useful(j) ==
    /\ Answer(j)
    /\ IF j = Skeleton THEN LET s == op'[j].answer
                            IN s \notin Broken /\ {m \in Modules : s[m] # None} = Order
       ELSE op'[j].answer.text \notin Malformed

Fairness ==
    /\ \A t \in Threads : WF_vars(Work(t)) /\ SF_vars(SaveUnit(t))
    /\ \A r \in Requests : WF_vars(Serve(r)) /\ SF_vars(LockUnits(r))
    /\ WF_vars(\E r \in Requests : Follow(r))
    /\ \A j \in Jobs : WF_vars(Open(j) \/ Answer(j)) /\ SF_vars(Useful(j))

FairSpec == Spec /\ Fairness

-----------------------------------------------------------------------------
\* Properties

Kinds  == {"none", "inputs", "prompts", "fanout", "unit", "assemble", "write"}
Labels == {"idle", "orphan", "contract", "event", "skelPrompt", "compile", "append", "admit",
           "queued", "runs", "save", "edit", "lock", "assemble", "write", "record"}

\* What a module's prompt and event embed is an input or absent, what answers it
\* was made from one; the lock is held exactly by the thread that saves or
\* assembles.
TypeOK ==
    /\ outline \in Outlines /\ {contract, drafted} \subseteq Outlines \cup {None}
    /\ skelPrompt \in BOOLEAN /\ skeleton \in Skeletons \cup {None}
    /\ prompt \in [Modules -> Inputs \cup {None}] /\ event \in [Modules -> Inputs \cup {None}]
    /\ resp \in [Modules -> Units \cup {None}]
    /\ pc \in [Threads -> Labels]
    /\ \A t \in Threads : op[t].kind \in Kinds
    /\ lock \in Threads \cup {None}
    /\ \A t \in Threads : pc[t] \in {"assemble", "write", "record"} => lock = t
    /\ lock # None => pc[lock] \in {"assemble", "write", "record", "compile", "append"}
    /\ rebuilt \subseteq Modules /\ {cut, lagging} \subseteq BOOLEAN

\* A module that reads as having a current response has one that was made from
\* its present contract entry and stub, unless its prompt was rebuilt under the
\* response or its latest event is not that of its prompt (the event is still
\* to come, was lost with the daemon or overtook another): _module_unit_states.
CurrentUnlessRebuilt ==
    \A m \in Order \ rebuilt :
        (/\ resp[m] # None /\ UnitState(m) = "response_ingested"
         /\ event[m] = prompt[m]) => resp[m].made = InputsOf(m)

\* What the files of the units say of each other.
UnitsInv == TypeOK /\ CurrentUnlessRebuilt

\* When everybody is done, an assembled stage response is the assembly of what
\* is saved, whatever threads saved it in whatever order (_draft_unit_lock), if
\* no outline, contract, skeleton or prompt and no event of a prompt was written
\* since and nobody died.
StageFollowsUnits ==
    (/\ ~cut /\ ~lagging
     /\ \A t \in Threads : pc[t] = "idle"
     /\ stage # None /\ stage = assembled
     /\ Outstanding = {} /\ Assembles) => stage = Assembly

\* A stage response written by hand is replaced only by force, unless it was
\* written after the assembly had looked for it (_assemble_draft_locked).
HandWorkStands ==
    [][stage = Hand /\ stage' # Hand =>
         \E t \in Threads : pc[t] = "write" /\ (op[t].force \/ op[t].seen # Hand)]_vars

\* Following the next action leads to a stage response, whatever failed, was
\* edited out of turn or was cut off before.
Converges == <>(stage # None)
=============================================================================
