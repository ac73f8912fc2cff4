---------------------------- MODULE FanoutChain ----------------------------
(***************************************************************************)
(* The draft stage of one run: fan-outs of unit jobs and the chain that    *)
(* carries a run past them (daemon/server.py, `DaemonContext`).            *)
(*                                                                         *)
(* An attempt is one call that may enqueue draft jobs: a request on an     *)
(* HTTP thread (POST .../continue, chained; POST /v1/jobs, not chained) or *)
(* the continuation that the worker's completion hook runs. All of them    *)
(* are threads of one process, where the workspace lock is reentrant, so   *)
(* their steps interleave; only the hook has a lock of its own. What a     *)
(* thread reads before it acts is a step of its own here.                  *)
(*                                                                         *)
(* The worker pool appears as what it promises (see JobRecords): a live    *)
(* job ends in success or failure and is then announced once.              *)
(***************************************************************************)
EXTENDS Integers, FiniteSets

CONSTANTS
    Attempts,     \* thread slots for attempts; a slot that queued a job stays used
    Modules,      \* the guide's modules, numbered in contract order
    Skeleton,     \* the unit that is drafted before any module
    NoAttempt,    \* no attempt
    NoJob,        \* no job
    MaxRequests,  \* bound: calls from HTTP clients
    Forms         \* bound: pairs of force flag and named modules in POST /v1/jobs

Units == Modules \cup {Skeleton}
Jobs  == Attempts \X Units

ASSUME ChainAssumption ==
    /\ IsFiniteSet(Modules)
    /\ Modules \subseteq Nat
    /\ Modules # {}
    /\ Skeleton \notin Modules
    /\ NoAttempt \notin Attempts
    /\ NoJob \notin Jobs
    /\ MaxRequests \in Nat
    /\ Forms \subseteq BOOLEAN \X SUBSET Modules

VARIABLES
    pc,        \* each attempt: where it is
    kind,      \* "continue", "jobs" or "hook"; "none" for a free slot
    force,     \* the force flag of a "jobs" request
    want,      \* the modules a "jobs" request names; {} means the outstanding ones
    before,    \* the units drafted when the attempt's jobs were admitted
    todo,      \* the units still to be created and queued
    record,    \* record[j]: status of job j; "none" before its first save
    cont,      \* cont[j]: the continuation saved on j's record
    draftedBy, \* draftedBy[u]: the attempt whose response unit u has
    due,       \* jobs that are terminal and not announced yet
    chain,     \* the job whose hook holds _chain_lock, or NoJob
    requests,  \* calls from HTTP clients so far
    early      \* history: a job ended while its fan-out was still being saved

attempts == <<pc, kind, force, want, before, todo>>
disk     == <<record, cont, draftedBy>>
vars     == <<attempts, disk, due, chain, requests, early>>

-----------------------------------------------------------------------------
\* State formulae.

\* "landed": the response is saved and the record is not terminal yet.
Live     == {j \in Jobs : record[j] \in {"queued", "landed"}}
Terminal == {"succeeded", "failed"}

Drafted == {u \in Units : draftedBy[u] # NoAttempt}

\* JobStore.batch, or the single job of an attempt that has no batch id.
Batch(f) == {j \in Jobs : j[1] = f /\ record[j] # "none"}

\* Only the continue route and the hook mark their jobs.
Chained(f) == kind[f] \in {"continue", "hook"}

\* What an attempt ends with; all but "failed" may come from a hook's loop.
Outcome == {"failed", "conflict", "refused", "stalled", "advanced", "started"}

\* The units this attempt would enqueue, from the progress it reads now.
Selected(f) ==
    IF Skeleton \notin Drafted
    THEN IF want[f] = {} THEN {Skeleton} ELSE {}
    ELSE IF want[f] # {}
    THEN IF force[f] \/ want[f] \cap Drafted = {} THEN want[f] ELSE {}
    ELSE IF force[f] THEN Modules ELSE Modules \ Drafted

\* Mutant: the duplicate check is left to the stage-wide one made earlier.
CollidesNever(u) == FALSE

\* Worker.enqueue's duplicate check: a module job collides with a live job of
\* its module, the skeleton job with any live job of the stage.
Collides(u) == \E j \in Live : u # Skeleton => j[2] = u

Init ==
    /\ pc = [f \in Attempts |-> "idle"]
    /\ kind = [f \in Attempts |-> "none"]
    /\ force = [f \in Attempts |-> FALSE]
    /\ want = [f \in Attempts |-> {}]
    /\ before = [f \in Attempts |-> {}]
    /\ todo = [f \in Attempts |-> {}]
    /\ record = [j \in Jobs |-> "none"]
    /\ cont = [j \in Jobs |-> "none"]
    /\ draftedBy = [u \in Units |-> NoAttempt]
    /\ due = {}
    /\ chain = NoJob
    /\ requests = 0
    /\ early = FALSE

\* The attempt is over. A hook saves the outcome on its job and frees the chain
\* lock; a slot that queued nothing is free again.
EndWith(f, outcome, saved) ==
    /\ pc' = [pc EXCEPT ![f] = IF saved THEN "answered" ELSE "idle"]
    /\ kind' = [kind EXCEPT ![f] = IF saved THEN @ ELSE "none"]
    /\ force' = [force EXCEPT ![f] = IF saved THEN @ ELSE FALSE]
    /\ want' = [want EXCEPT ![f] = {}]
    /\ before' = [before EXCEPT ![f] = IF saved THEN @ ELSE {}]
    /\ todo' = [todo EXCEPT ![f] = {}]
    /\ IF kind[f] = "hook"
       THEN /\ cont' = [cont EXCEPT ![chain] = outcome]
            /\ chain' = NoJob
       ELSE UNCHANGED <<cont, chain>>

End(f, outcome) == EndWith(f, outcome, Batch(f) # {})

\* The slot the next attempt takes: slots are alike, so any idle one will do.
Free(f) == pc[f] = "idle" /\ f = CHOOSE g \in Attempts : pc[g] = "idle"

Goto(f, label) == pc' = [pc EXCEPT ![f] = label]

-----------------------------------------------------------------------------
\* Attempts.

\* POST /v1/runs/{id}/continue.
Continue(f) ==
    /\ Free(f)
    /\ requests < MaxRequests
    /\ requests' = requests + 1
    /\ kind' = [kind EXCEPT ![f] = "continue"]
    /\ Goto(f, "guard")
    /\ UNCHANGED <<force, want, before, todo, disk, due, chain, early>>

\* POST /v1/jobs for the draft stage.
PostJobs(f, forced, names) ==
    /\ Free(f)
    /\ requests < MaxRequests
    /\ requests' = requests + 1
    /\ kind' = [kind EXCEPT ![f] = "jobs"]
    /\ force' = [force EXCEPT ![f] = forced]
    /\ want' = [want EXCEPT ![f] = names]
    /\ Goto(f, "admit")
    /\ UNCHANGED <<before, todo, disk, due, chain, early>>

\* continue_run refuses up front while any job of the topic is live.
Guard(f) ==
    /\ pc[f] = "guard"
    /\ IF Live # {}
       THEN End(f, "conflict")
       ELSE /\ Goto(f, "status")
            /\ UNCHANGED <<kind, force, want, before, todo, cont, chain>>
    /\ UNCHANGED <<record, draftedBy, due, requests, early>>

\* The same next action as when the finished job was enqueued; of the status
\* it compares the text of the detail, which counts the saved responses.
Stalled(f) ==
    /\ kind[f] = "hook"
    /\ Cardinality(before[chain[1]]) = Cardinality(Drafted)

\* The loop's first status read: stall guard, then either a stage past the
\* draft (mechanical steps up to its approval) or a job to run.
Status(f) ==
    /\ pc[f] = "status"
    /\ IF Stalled(f) THEN End(f, "stalled")
       ELSE IF Drafted = Units THEN End(f, "advanced")
       ELSE /\ Goto(f, "admit")
            /\ UNCHANGED <<kind, force, want, before, todo, cont, chain>>
    /\ UNCHANGED <<record, draftedBy, due, requests, early>>

\* _enqueue_stage_locked reads the status again; without a stage of its own
\* the call is refused when there is no longer a prompt to run.
Admit(f) ==
    /\ pc[f] = "admit"
    /\ IF Chained(f) /\ Drafted = Units
       THEN End(f, "refused")
       ELSE /\ before' = [before EXCEPT ![f] = Drafted]
            /\ Goto(f, "check")
            /\ UNCHANGED <<kind, force, want, todo, cont, chain>>
    /\ UNCHANGED <<record, draftedBy, due, requests, early>>

\* active_for: any live job of the stage refuses the call.
Check(f) ==
    /\ pc[f] = "check"
    /\ IF Live # {}
       THEN End(f, "refused")
       ELSE /\ Goto(f, "select")
            /\ UNCHANGED <<kind, force, want, before, todo, cont, chain>>
    /\ UNCHANGED <<record, draftedBy, due, requests, early>>

\* draft_progress is read and the units are chosen.
Select(f) ==
    /\ pc[f] = "select"
    /\ IF Selected(f) = {}
       THEN End(f, "refused")
       ELSE /\ todo' = [todo EXCEPT ![f] = Selected(f)]
            /\ Goto(f, "fanout")
            /\ UNCHANGED <<kind, force, want, before, cont, chain>>
    /\ UNCHANGED <<record, draftedBy, due, requests, early>>

\* One pass of the fan-out loop, in contract order: Worker.enqueue saves and
\* queues the job or refuses it, which ends the loop and leaves the earlier
\* ones queued.
Save(f, u) ==
    /\ pc[f] = "fanout"
    /\ u \in todo[f]
    /\ \A v \in todo[f] \ {u} : u < v
    /\ IF Collides(u)
       THEN End(f, "refused") /\ UNCHANGED record
       ELSE /\ record' = [record EXCEPT ![<<f, u>>] = "queued"]
            /\ IF todo[f] = {u}
               THEN EndWith(f, "started", TRUE)
               ELSE /\ todo' = [todo EXCEPT ![f] = @ \ {u}]
                    /\ UNCHANGED <<pc, kind, force, want, before, cont, chain>>
    /\ UNCHANGED <<draftedBy, due, requests, early>>

-----------------------------------------------------------------------------
\* Unit jobs, as the pool runs them.

\* A job that ends before the loop of its attempt is done is an early end.
NoteEnd(f) == early' = (early \/ pc[f] # "answered")

\* Mutant: the job's response replaces whatever the unit has.
IngestClobbers(f, u) ==
    /\ record[<<f, u>>] = "queued"
    /\ NoteEnd(f)
    /\ draftedBy' = [draftedBy EXCEPT ![u] = f]
    /\ record' = [record EXCEPT ![<<f, u>>] = "landed"]
    /\ UNCHANGED <<attempts, cont, due, chain, requests>>

\* ingest_draft_unit refuses to replace a response without force.
Ingest(f, u) ==
    /\ record[<<f, u>>] = "queued"
    /\ NoteEnd(f)
    /\ IF draftedBy[u] = NoAttempt \/ force[f]
       THEN /\ draftedBy' = [draftedBy EXCEPT ![u] = f]
            /\ record' = [record EXCEPT ![<<f, u>>] = "landed"]
            /\ UNCHANGED due
       ELSE /\ record' = [record EXCEPT ![<<f, u>>] = "failed"]
            /\ due' = due \cup {<<f, u>>}
            /\ UNCHANGED draftedBy
    /\ UNCHANGED <<attempts, cont, chain, requests>>

\* The provider failed, or the job was canceled.
Fail(f, u) ==
    /\ record[<<f, u>>] = "queued"
    /\ NoteEnd(f)
    /\ record' = [record EXCEPT ![<<f, u>>] = "failed"]
    /\ due' = due \cup {<<f, u>>}
    /\ UNCHANGED <<attempts, cont, draftedBy, chain, requests>>

Finish(f, u) ==
    /\ record[<<f, u>>] = "landed"
    /\ record' = [record EXCEPT ![<<f, u>>] = "succeeded"]
    /\ due' = due \cup {<<f, u>>}
    /\ UNCHANGED <<attempts, cont, draftedBy, chain, requests, early>>

-----------------------------------------------------------------------------
\* continue_after_job, on the thread that ended job j.

\* Mutant: a batch continues from whichever job ends first.
ContinueFromFirst(f) == \A j \in Batch(f) : cont[j] = "none"

\* Every job of the batch is terminal and none of them has continued the run.
MayContinue(f) ==
    /\ \A j \in Batch(f) : record[j] \in Terminal
    /\ \A j \in Batch(f) : cont[j] = "none"

Failed(f) == \E j \in Batch(f) : record[j] = "failed"

\* The hook returns at once.
HookReturns(j) ==
    /\ j \in due
    /\ chain = NoJob
    /\ ~(Chained(j[1]) /\ MayContinue(j[1]))
    /\ due' = due \ {j}
    /\ UNCHANGED <<attempts, disk, chain, requests, early>>

\* A failure in the batch is recorded on the job and ends the chain.
HookFailed(j) ==
    /\ j \in due
    /\ chain = NoJob
    /\ Chained(j[1]) /\ MayContinue(j[1])
    /\ Failed(j[1])
    /\ due' = due \ {j}
    /\ cont' = [cont EXCEPT ![j] = "failed"]
    /\ UNCHANGED <<attempts, record, draftedBy, chain, requests, early>>

\* Otherwise the loop runs again, on this thread and under the chain lock.
HookContinues(j, f) ==
    /\ j \in due
    /\ chain = NoJob
    /\ Chained(j[1]) /\ MayContinue(j[1])
    /\ ~Failed(j[1])
    /\ Free(f)
    /\ due' = due \ {j}
    /\ chain' = j
    /\ kind' = [kind EXCEPT ![f] = "hook"]
    /\ Goto(f, "guard")
    /\ UNCHANGED <<force, want, before, todo, disk, requests, early>>

-----------------------------------------------------------------------------
Step(f) == Guard(f) \/ Status(f) \/ Admit(f) \/ Check(f) \/ Select(f)
           \/ \E u \in Units : Save(f, u)

Run(f, u) == Ingest(f, u) \/ Fail(f, u) \/ Finish(f, u)

\* Mutant: a failed batch is left to its records.
HookQuiet(j) == HookReturns(j) \/ \E f \in Attempts : HookContinues(j, f)

Hook(j) == HookReturns(j) \/ HookFailed(j) \/ \E f \in Attempts : HookContinues(j, f)

Next ==
    \/ \E f \in Attempts :
           \/ Continue(f)
           \/ \E form \in Forms : PostJobs(f, form[1], form[2])
           \/ Step(f)
    \/ \E f \in Attempts, u \in Units : Run(f, u)
    \/ \E j \in Jobs : Hook(j)

Spec == Init /\ [][Next]_vars

\* Threads that can move do, jobs end (the pool's EveryJobSettles), and of the
\* threads that wait for the chain lock one gets it.
Fairness ==
    /\ \A f \in Attempts : WF_vars(Step(f))
    /\ \A f \in Attempts, u \in Units : WF_vars(Ingest(f, u) \/ Finish(f, u))
    /\ WF_vars(\E j \in Jobs : Hook(j))

FairSpec == Spec /\ Fairness

-----------------------------------------------------------------------------
\* Properties.

\* Types of the attempts, the records and the chain.
TypeOK ==
    /\ pc \in [Attempts -> {"idle", "guard", "status", "admit", "check",
                            "select", "fanout", "answered"}]
    /\ kind \in [Attempts -> {"none", "continue", "jobs", "hook"}]
    /\ force \in [Attempts -> BOOLEAN]
    /\ want \in [Attempts -> SUBSET Modules]
    /\ before \in [Attempts -> SUBSET Units]
    /\ todo \in [Attempts -> SUBSET Units]
    /\ record \in [Jobs -> {"none", "queued", "landed"} \cup Terminal]
    /\ cont \in [Jobs -> {"none"} \cup Outcome]
    /\ draftedBy \in [Units -> Attempts \cup {NoAttempt}]
    /\ due \in SUBSET Jobs
    /\ chain \in Jobs \cup {NoJob}
    /\ requests \in 0..MaxRequests
    /\ early \in BOOLEAN

\* No unit is ever drafted by two jobs at once, whichever requests and hooks
\* fan out together: of two providers on one unit one is paid for nothing.
OneLivePerUnit ==
    \A j, k \in Live : j[2] = k[2] => j = k

\* A batch continues the run at most once, and what a job's record says of the
\* continuation is final: two jobs that end together must not both start the
\* next fan-out.
ContinuedOnce ==
    \A j, k \in Jobs :
        /\ j[1] = k[1]
        /\ cont[j] # "none" \/ chain = j
        /\ cont[k] # "none" \/ chain = k
        => j = k

\* "A batch fires once, from whichever module job finishes last: every job of
\* the batch must be terminal": a continuation exists only when the fan-out is
\* saved and all of it is terminal, and it reports a failure exactly when a job
\* of the batch failed.
ChainFromLast ==
    \A j \in Jobs :
        cont[j] # "none" =>
            /\ pc[j[1]] = "answered"
            /\ \A k \in Batch(j[1]) : record[k] \in Terminal
            /\ (cont[j] = "failed") <=> Failed(j[1])

\* Nothing but an early end can break that.
LastUnlessEarly == ~early => ChainFromLast

\* "Progress always changes at least the detail": a fan-out that succeeded is
\* never reported as having changed nothing, although the detail only counts
\* responses and other fan-outs save theirs in between.
NoFalseStall == \A j \in Jobs : cont[j] # "stalled"

\* A response that a succeeded job saved stays the unit's response until a
\* forced job replaces it, even when two fan-outs chose the same unit.
SuccessStands ==
    \A f \in Attempts, u \in Units :
        record[<<f, u>>] = "succeeded" /\ draftedBy[u] # f =>
            draftedBy[u] # NoAttempt /\ force[draftedBy[u]]

\* What a fan-out achieved is neither denied nor undone by another one.
OutcomesStand == NoFalseStall /\ SuccessStands

\* Why the invariants above hold. A slot has no job before its fan-out starts
\* and none yet for a unit it has still to save.
Fresh ==
    \A f \in Attempts :
        /\ pc[f] \notin {"fanout", "answered"} =>
               \A u \in Units : record[<<f, u>>] = "none"
        /\ pc[f] = "fanout" => \A u \in todo[f] : record[<<f, u>>] = "none"

\* Only a terminal job is announced, holds the chain lock or has continued.
Settled ==
    \A j \in Jobs :
        j \in due \/ chain = j \/ cont[j] # "none" => record[j] \in Terminal

\* With no early end, a job that got anywhere belongs to a fan-out that is
\* saved, and the job whose hook runs to a batch that succeeded.
Unhurried ==
    ~early =>
        /\ \A f \in Attempts, u \in Units :
               record[<<f, u>>] \in {"landed"} \cup Terminal => pc[f] = "answered"
        /\ \A j \in Jobs :
               chain = j => /\ ~Failed(j[1])
                            /\ \A k \in Batch(j[1]) : record[k] \in Terminal

\* The inductive invariant.
ChainInv ==
    /\ TypeOK
    /\ OneLivePerUnit
    /\ ContinuedOnce
    /\ Fresh
    /\ Settled
    /\ Unhurried
    /\ LastUnlessEarly

\* Why OutcomesStand holds. What an attempt saw drafted stays drafted, and a
\* chained one drafts only what it did not see: its success always adds a unit.
Gaining ==
    /\ \A f \in Attempts :
           /\ pc[f] = "idle" \/ Chained(f) => ~force[f] /\ want[f] = {}
           /\ pc[f] # "fanout" => todo[f] = {}
           /\ before[f] \subseteq Drafted
    /\ \A f \in Attempts, u \in Units :
           /\ Chained(f) /\ (u \in todo[f] \/ record[<<f, u>>] # "none") =>
                  u \notin before[f]
           /\ draftedBy[u] = f => record[<<f, u>>] # "none"
           /\ record[<<f, u>>] \in {"landed", "succeeded"} /\ draftedBy[u] # f =>
                  draftedBy[u] # NoAttempt /\ force[draftedBy[u]]

\* The continuation of a hook, from HookContinues to its end.
Hooked(f) == kind[f] = "hook" /\ pc[f] \notin {"idle", "answered"}

\* One hook at a time holds the chain lock, for a chained job that succeeded.
Holding ==
    /\ chain # NoJob => record[chain] = "succeeded" /\ Chained(chain[1])
    /\ \A f \in Attempts : Hooked(f) => chain # NoJob
    /\ \A f, g \in Attempts : Hooked(f) /\ Hooked(g) => f = g

\* The invariant of the outcomes, inductive together with ChainInv.
OutcomeInv == Gaining /\ Holding /\ OutcomesStand

\* Why the lock is never orphaned. Its holder is still under way, and a fan-out
\* has a first unit left: the skeleton alone, or modules.
Served ==
    /\ chain # NoJob => \E f \in Attempts : Hooked(f)
    /\ \A f \in Attempts :
           pc[f] = "fanout" => todo[f] # {} /\ (todo[f] = {Skeleton} \/ todo[f] \subseteq Modules)

\* The chain lock is never held by nobody: while it is taken, and every other
\* hook waits for it, a continuation is under way that has its next step.
LockGoesOn ==
    chain # NoJob =>
        \E f \in Attempts :
            /\ Hooked(f)
            /\ pc[f] = "fanout" => \E u \in todo[f] : \A v \in todo[f] \ {u} : u < v

\* A chained fan-out is never forgotten: once all its jobs are over, one of them
\* has still to be announced, holds the chain lock, or says where the run stands.
\* However the ends and the hooks of its jobs fall, no hook leaves the
\* continuation to another that has returned.
NeverForgotten ==
    \A f \in Attempts :
        /\ Chained(f)
        /\ Batch(f) # {}
        /\ \A j \in Batch(f) : record[j] \in Terminal
        => \E j \in Batch(f) : j \in due \/ chain = j \/ cont[j] # "none"

\* A chained fan-out never just stops: when its jobs are over one of their
\* records comes to say where the run now stands.
ChainContinues ==
    \A f \in Attempts :
        (Chained(f) /\ pc[f] = "answered") ~>
            (\E j \in Batch(f) : cont[j] # "none")
=============================================================================
