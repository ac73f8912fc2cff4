----------------------------- MODULE WorkerPool -----------------------------
(***************************************************************************)
(* The daemon's worker pool (education_pipeline/daemon/jobs.py): `Worker`  *)
(* with its threads, FIFO queue, admission order and claims; the part of   *)
(* `JobRunner` that moves a job record; the job records themselves, which  *)
(* outlive the process; HTTP threads that cancel; shutdown; and the death  *)
(* of the daemon at any point followed by `reconcile`.                     *)
(*                                                                         *)
(* One step is one critical section of `Worker._lock`, one record write or *)
(* one interaction with the provider process: those are the points where   *)
(* threads interleave and where a crash can be noticed.                    *)
(***************************************************************************)
EXTENDS Integers, FiniteSets, Sequences, SequencesExt

CONSTANTS
    Jobs,        \* job ids; an id is used for at most one enqueue
    Threads,     \* the `parallelism` loop threads
    Clients,     \* HTTP threads that call Worker.cancel
    Batch,       \* Batch[j]: the fan-out j belongs to, or NoBatch
    Scope,       \* Scope[j]: the topic and stage of j
    Module,      \* Module[j]: the guide module j drafts, or NoModule
    NoBatch,     \* batch_id is None: an ordinary job
    NoModule,    \* module_id is None: the job runs a whole stage
    NoJob,       \* a thread or client that holds no job
    Sentinel,    \* the None that `stop` puts on the queue
    StopModes,   \* bound: values of finish_inflight `stop` may be called with
    MaxCrashes   \* bound: how many times the daemon may die

ASSUME PoolAssumption ==
    /\ IsFiniteSet(Jobs)
    /\ NoJob \notin Jobs
    /\ Sentinel \notin Jobs \cup {NoJob}
    /\ IsFiniteSet(Threads)
    /\ Threads # {}
    /\ StopModes \subseteq BOOLEAN
    /\ MaxCrashes \in Nat

VARIABLES
    status,    \* status[j] in job.json; "none" before the first save
    pidrec,    \* jobs whose record names the provider's pid
    child,     \* jobs whose provider process is alive
    ingested,  \* jobs whose response reached the run
    phase,     \* "down", "reconciling" or "up"
    queue,     \* Worker._queue
    waiting,   \* Worker._waiting: enqueued and not yet admitted, in order
    cancels,   \* jobs whose event in Worker._cancels is set
    claimed,   \* Worker._claimed
    running,   \* the domain of Worker._running; its values are Batch
    pc, held,  \* each loop thread: where it is, and the job in its hands
    cpc, cjob, \* each cancelling client: where it is, and its job
    hooks,     \* hooks[j]: how often on_finished was called for j
    stopping,  \* Worker._stopping
    owed,      \* sentinels `stop` has still to put
    crashes    \* how often the daemon has died

disk    == <<status, pidrec, child, ingested>>
memory  == <<queue, waiting, cancels, claimed, running>>
threads == <<pc, held>>
clients == <<cpc, cjob>>
life    == <<phase, stopping, owed, crashes>>
vars    == <<disk, memory, threads, clients, hooks, life>>

-----------------------------------------------------------------------------
\* Types and state formulae.

Terminal == {"succeeded", "failed", "canceled", "interrupted"}
Status   == {"none", "queued", "running"} \cup Terminal

\* "spawned": the provider exists and its pid is not in the record yet.
Executing == {"start", "running", "spawned", "await", "ingest",
              "succeeding", "failing", "canceling"}
ThreadPC  == {"get", "claim", "read", "park", "dropped", "release", "notify",
              "exited"} \cup Executing
ClientPC  == {"idle", "decide", "set", "forget", "setMine", "forgetMine", "notifyMine"}

Live(j) == status[j] \in {"queued", "running"}

\* The live jobs that make enqueuing j a duplicate: for a module job those of
\* the same module, otherwise any job of the stage.
Duplicates(j) ==
    {k \in Jobs : /\ Live(k)
                  /\ Scope[k] = Scope[j]
                  /\ Module[j] # NoModule => Module[k] = Module[j]}

\* Mutant: a batch job only asks whether it is one.
AdmissibleAnyBatch(j) ==
    IF running # {} THEN Batch[j] # NoBatch
    ELSE (\E i \in DOMAIN waiting : waiting[i] = j) => Head(waiting) = j

\* The job may start now: the whole pool rule.
Admissible(j) ==
    IF running # {}
    THEN /\ Batch[j] # NoBatch
         /\ \A k \in running : Batch[k] = Batch[j]
    ELSE (\E i \in DOMAIN waiting : waiting[i] = j) => Head(waiting) = j

\* Mutant: the cancel path of a build that had no claims.
CancelOwnsQueued(j) == status[j] = "queued"

\* Under the lock: a queued job no thread has claimed is the cancel's to finish.
CancelOwns(j) == status[j] = "queued" /\ j \notin claimed

\* Mutants: a job leaves the queue and stays in the admission order; a stop
\* wakes one thread; a provider that closed its pipes is left alive.
ForgetNothing(j) == waiting' = waiting
OneSentinel == 1
LeaveProvider(t) == child' = child

\* Drop a job from the admission order (_forget_waiter).
Forget(j) == waiting' = RemoveFirst(waiting, j)

\* One sentinel per thread.
Sentinels == Cardinality(Threads)

\* terminate_process and wait: the provider of t's job is gone.
Reap(t) == child' = child \ {held[t]}

At(t, label)        == phase = "up" /\ pc[t] = label
Goto(t, label)      == pc' = [pc EXCEPT ![t] = label] /\ UNCHANGED held
Write(j, s)         == status' = [status EXCEPT ![j] = s]
Announce(j)         == hooks' = [hooks EXCEPT ![j] = @ + 1]

Init ==
    /\ status = [j \in Jobs |-> "none"]
    /\ pidrec = {} /\ child = {} /\ ingested = {}
    /\ phase = "up"
    /\ queue = <<>> /\ waiting = <<>>
    /\ cancels = {} /\ claimed = {} /\ running = {}
    /\ pc = [t \in Threads |-> "get"]
    /\ held = [t \in Threads |-> NoJob]
    /\ cpc = [c \in Clients |-> "idle"]
    /\ cjob = [c \in Clients |-> NoJob]
    /\ hooks = [j \in Jobs |-> 0]
    /\ stopping = FALSE /\ owed = 0
    /\ crashes = 0

-----------------------------------------------------------------------------
\* Worker.enqueue and Worker.stop.

\* The duplicate check, the durable save and the queue insertion are one
\* critical section. A refused job is never saved, so it stays "none".
Enqueue(j) ==
    /\ phase = "up"
    /\ status[j] = "none"
    /\ Duplicates(j) = {}
    /\ Write(j, "queued")
    /\ waiting' = Append(waiting, j)
    /\ queue' = Append(queue, j)
    /\ UNCHANGED <<pidrec, child, ingested, cancels, claimed, running,
                   threads, clients, hooks, life>>

\* With finish_inflight false the events of all known jobs are set first.
Stop(finishInflight) ==
    /\ phase = "up"
    /\ ~stopping
    /\ stopping' = TRUE
    /\ owed' = Sentinels
    /\ cancels' = IF finishInflight THEN cancels
                  ELSE {j \in Jobs : status[j] # "none"}
    /\ UNCHANGED <<disk, queue, waiting, claimed, running, threads, clients,
                   hooks, phase, crashes>>

\* One sentinel per thread; no lock is held, so an enqueue can come between.
PutSentinel ==
    /\ phase = "up"
    /\ owed > 0
    /\ owed' = owed - 1
    /\ queue' = Append(queue, Sentinel)
    /\ UNCHANGED <<disk, waiting, cancels, claimed, running, threads, clients,
                   hooks, phase, stopping, crashes>>

-----------------------------------------------------------------------------
\* Worker._loop: one thread.

\* Blocks while the queue is empty; a sentinel ends the thread.
Get(t) ==
    /\ At(t, "get")
    /\ queue # <<>>
    /\ queue' = Tail(queue)
    /\ IF Head(queue) = Sentinel
       THEN Goto(t, "exited")
       ELSE /\ pc' = [pc EXCEPT ![t] = "claim"]
            /\ held' = [held EXCEPT ![t] = Head(queue)]
    /\ UNCHANGED <<disk, waiting, cancels, claimed, running, clients, hooks, life>>

Claim(t) ==
    /\ At(t, "claim")
    /\ claimed' = claimed \cup {held[t]}
    /\ Goto(t, "read")
    /\ UNCHANGED <<disk, queue, waiting, cancels, running, clients, hooks, life>>

\* The record is still queued: the thread goes on to wait for admission.
ReadQueued(t) ==
    /\ At(t, "read")
    /\ status[held[t]] = "queued"
    /\ Goto(t, "park")
    /\ UNCHANGED <<disk, memory, clients, hooks, life>>

\* `cancel` finished the job before the claim: give everything back, silently.
ReadSettled(t) ==
    /\ At(t, "read")
    /\ status[held[t]] # "queued"
    /\ claimed' = claimed \ {held[t]}
    /\ Forget(held[t])
    /\ pc' = [pc EXCEPT ![t] = "get"]
    /\ held' = [held EXCEPT ![t] = NoJob]
    /\ UNCHANGED <<disk, queue, cancels, running, clients, hooks, life>>

\* _acquire_slot returned True: the job takes a slot and leaves the order.
Admit(t) ==
    /\ At(t, "park")
    /\ held[t] \notin cancels
    /\ Admissible(held[t])
    /\ running' = running \cup {held[t]}
    /\ Forget(held[t])
    /\ Goto(t, "start")
    /\ UNCHANGED <<disk, queue, cancels, claimed, clients, hooks, life>>

\* The event was set before the job started: the thread writes "canceled".
DropCanceled(t) ==
    /\ At(t, "park")
    /\ held[t] \in cancels
    /\ Write(held[t], "canceled")
    /\ Goto(t, "dropped")
    /\ UNCHANGED <<pidrec, child, ingested, memory, clients, hooks, life>>

DropRelease(t) ==
    /\ At(t, "dropped")
    /\ claimed' = claimed \ {held[t]}
    /\ Forget(held[t])
    /\ Goto(t, "notify")
    /\ UNCHANGED <<disk, queue, cancels, running, clients, hooks, life>>

\* The finally block of _loop: slot and claim go back before the hook runs.
Release(t) ==
    /\ At(t, "release")
    /\ running' = running \ {held[t]}
    /\ claimed' = claimed \ {held[t]}
    /\ Goto(t, "notify")
    /\ UNCHANGED <<disk, queue, waiting, cancels, clients, hooks, life>>

Notify(t) ==
    /\ At(t, "notify")
    /\ Announce(held[t])
    /\ pc' = [pc EXCEPT ![t] = "get"]
    /\ held' = [held EXCEPT ![t] = NoJob]
    /\ UNCHANGED <<disk, memory, clients, life>>

-----------------------------------------------------------------------------
\* JobRunner.execute and _spawn, as far as they move the record.

\* queued -> running, published under the workspace lock.
StartRunning(t) ==
    /\ At(t, "start")
    /\ Write(held[t], "running")
    /\ Goto(t, "running")
    /\ UNCHANGED <<pidrec, child, ingested, memory, clients, hooks, life>>

\* The runner could not be built or the workspace lock timed out: _loop's own
\* except arm fails the job unless the record is already terminal.
StartFailed(t) ==
    /\ At(t, "start")
    /\ status[held[t]] \notin Terminal
    /\ Write(held[t], "failed")
    /\ Goto(t, "release")
    /\ UNCHANGED <<pidrec, child, ingested, memory, clients, hooks, life>>

\* Provider missing, model unknown or prompt not written: nothing is spawned.
NotSpawned(t) ==
    /\ At(t, "running")
    /\ Goto(t, "failing")
    /\ UNCHANGED <<disk, memory, clients, hooks, life>>

Spawn(t) ==
    /\ At(t, "running")
    /\ child' = child \cup {held[t]}
    /\ Goto(t, "spawned")
    /\ UNCHANGED <<status, pidrec, ingested, memory, clients, hooks, life>>

SavePid(t) ==
    /\ At(t, "spawned")
    /\ pidrec' = pidrec \cup {held[t]}
    /\ Goto(t, "await")
    /\ UNCHANGED <<status, child, ingested, memory, clients, hooks, life>>

\* Both streams reached end of file; a provider still alive is terminated and
\* reaped. Exit code and output decide whether there is something to ingest.
Collect(t) ==
    /\ At(t, "await")
    /\ Reap(t)
    /\ \/ Goto(t, "ingest")
       \/ Goto(t, "failing")
    /\ UNCHANGED <<status, pidrec, ingested, memory, clients, hooks, life>>

\* The poll loop sees the event (or the deadline), and terminates and reaps.
SeeCancel(t) ==
    /\ At(t, "await")
    /\ held[t] \in cancels
    /\ Reap(t)
    /\ Goto(t, "canceling")
    /\ UNCHANGED <<status, pidrec, ingested, memory, clients, hooks, life>>

Timeout(t) ==
    /\ At(t, "await")
    /\ Reap(t)
    /\ Goto(t, "failing")
    /\ UNCHANGED <<status, pidrec, ingested, memory, clients, hooks, life>>

\* An OSError while the provider runs (the log, the record): the pid gets one
\* SIGTERM that nobody waits for.
SpawnError(t) ==
    /\ pc[t] \in {"spawned", "await"}
    /\ phase = "up"
    /\ child' \in {child, child \ {held[t]}}
    /\ Goto(t, "failing")
    /\ UNCHANGED <<status, pidrec, ingested, memory, clients, hooks, life>>

\* The response lands in the run, or the run refuses it.
Ingest(t) ==
    /\ At(t, "ingest")
    /\ \/ ingested' = ingested \cup {held[t]} /\ Goto(t, "succeeding")
       \/ UNCHANGED ingested /\ Goto(t, "failing")
    /\ UNCHANGED <<status, pidrec, child, memory, clients, hooks, life>>

\* The save of the succeeded record raised: execute's except arm takes over.
SaveRefused(t) ==
    /\ At(t, "succeeding")
    /\ Goto(t, "failing")
    /\ UNCHANGED <<disk, memory, clients, hooks, life>>

\* _terminal: the last write of the record, with the pid cleared.
Finish(t, label, s) ==
    /\ At(t, label)
    /\ Write(held[t], s)
    /\ pidrec' = pidrec \ {held[t]}
    /\ Goto(t, "release")
    /\ UNCHANGED <<child, ingested, memory, clients, hooks, life>>

Finishes(t) ==
    \/ Finish(t, "succeeding", "succeeded")
    \/ Finish(t, "failing", "failed")
    \/ Finish(t, "canceling", "canceled")

\* A provider process may end by itself at any moment.
ProviderExits(j) ==
    /\ j \in child
    /\ child' = child \ {j}
    /\ UNCHANGED <<status, pidrec, ingested, memory, threads, clients, hooks, life>>

-----------------------------------------------------------------------------
\* Worker.cancel, on an HTTP thread.

\* The first read, outside the lock: a terminal job is left alone.
CancelLook(c, j) ==
    /\ phase = "up"
    /\ cpc[c] = "idle"
    /\ Live(j)
    /\ cjob' = [cjob EXCEPT ![c] = j]
    /\ cpc' = [cpc EXCEPT ![c] = "decide"]
    /\ UNCHANGED <<disk, memory, threads, hooks, life>>

\* Any job that is not this call's to finish only gets its event set.
CancelDecide(c) ==
    LET j == cjob[c] IN
    /\ phase = "up"
    /\ cpc[c] = "decide"
    /\ IF CancelOwns(j)
       THEN /\ Write(j, "canceled")
            /\ cpc' = [cpc EXCEPT ![c] = "setMine"]
       ELSE /\ cpc' = [cpc EXCEPT ![c] = "set"]
            /\ UNCHANGED status
    /\ UNCHANGED <<pidrec, child, ingested, memory, threads, cjob, hooks, life>>

CancelSet(c) ==
    /\ phase = "up"
    /\ cpc[c] \in {"set", "setMine"}
    /\ cancels' = cancels \cup {cjob[c]}
    /\ cpc' = [cpc EXCEPT ![c] = IF @ = "set" THEN "forget" ELSE "forgetMine"]
    /\ UNCHANGED <<disk, queue, waiting, claimed, running, threads, cjob, hooks, life>>

CancelForget(c) ==
    /\ phase = "up"
    /\ cpc[c] \in {"forget", "forgetMine"}
    /\ Forget(cjob[c])
    /\ cpc' = [cpc EXCEPT ![c] = IF @ = "forget" THEN "idle" ELSE "notifyMine"]
    /\ cjob' = [cjob EXCEPT ![c] = IF cpc[c] = "forget" THEN NoJob ELSE @]
    /\ UNCHANGED <<disk, queue, cancels, claimed, running, threads, hooks, life>>

CancelNotify(c) ==
    /\ phase = "up"
    /\ cpc[c] = "notifyMine"
    /\ Announce(cjob[c])
    /\ cpc' = [cpc EXCEPT ![c] = "idle"]
    /\ cjob' = [cjob EXCEPT ![c] = NoJob]
    /\ UNCHANGED <<disk, memory, threads, life>>

-----------------------------------------------------------------------------
\* Death and recovery of the daemon.

\* The process is gone (killed, or shut down with threads past their join
\* timeout): everything in memory is lost, providers and records stay.
Crash ==
    /\ phase # "down"
    /\ crashes < MaxCrashes
    /\ crashes' = crashes + 1
    /\ phase' = "down"
    /\ stopping' = FALSE /\ owed' = 0
    /\ queue' = <<>> /\ waiting' = <<>>
    /\ cancels' = {} /\ claimed' = {} /\ running' = {}
    /\ pc' = [t \in Threads |-> "get"]
    /\ held' = [t \in Threads |-> NoJob]
    /\ cpc' = [c \in Clients |-> "idle"]
    /\ cjob' = [c \in Clients |-> NoJob]
    /\ UNCHANGED <<disk, hooks>>

Restart ==
    /\ phase = "down"
    /\ phase' = "reconciling"
    /\ UNCHANGED <<disk, memory, threads, clients, hooks, stopping, owed, crashes>>

\* First pass of reconcile, record by record: a running job is interrupted.
\* A recorded provider gets one SIGTERM that nobody waits for.
ReconcileRunning(j) ==
    /\ phase = "reconciling"
    /\ status[j] = "running"
    /\ child' \in IF j \in pidrec THEN {child, child \ {j}} ELSE {child}
    /\ Write(j, "interrupted")
    /\ pidrec' = pidrec \ {j}
    /\ UNCHANGED <<ingested, memory, threads, clients, hooks, life>>

\* Mutant: the restarted daemon forgets what was queued.
RequeueNothing == {<<>>}

RequeueOrders == SetToSeqs({j \in Jobs : status[j] = "queued"})

\* Second pass, then Worker.start: queued jobs go back in the order of their
\* ids, which need not be the order they were enqueued in (see new_job_id).
ReconcileQueued ==
    /\ phase = "reconciling"
    /\ \A j \in Jobs : status[j] # "running"
    /\ \E s \in RequeueOrders : queue' = s /\ waiting' = s
    /\ phase' = "up"
    /\ UNCHANGED <<disk, cancels, claimed, running, threads, clients, hooks,
                   stopping, owed, crashes>>

-----------------------------------------------------------------------------
Execute(t) ==
    \/ StartRunning(t) \/ StartFailed(t) \/ NotSpawned(t) \/ Spawn(t)
    \/ SavePid(t) \/ Collect(t) \/ SeeCancel(t) \/ Timeout(t)
    \/ SpawnError(t) \/ Ingest(t) \/ SaveRefused(t) \/ Finishes(t)

Loop(t) ==
    \/ Get(t) \/ Claim(t) \/ ReadQueued(t) \/ ReadSettled(t) \/ Admit(t)
    \/ DropCanceled(t) \/ DropRelease(t) \/ Release(t) \/ Notify(t)

CancelStep(c) == CancelDecide(c) \/ CancelSet(c) \/ CancelForget(c) \/ CancelNotify(c)

Recover == Restart \/ (\E j \in Jobs : ReconcileRunning(j)) \/ ReconcileQueued

Next ==
    \/ \E j \in Jobs : Enqueue(j) \/ ProviderExits(j)
    \/ (\E f \in StopModes : Stop(f)) \/ PutSentinel
    \/ \E t \in Threads : Loop(t) \/ Execute(t)
    \/ \E c \in Clients : CancelStep(c) \/ \E j \in Jobs : CancelLook(c, j)
    \/ Crash
    \/ Recover

Spec == Init /\ [][Next]_vars

\* A thread that can move does, and a cancel request is carried through. The
\* provider owes nothing: of an awaited run only the deadline is certain.
Progress(t) ==
    \/ Loop(t) \/ StartRunning(t) \/ StartFailed(t) \/ NotSpawned(t) \/ Spawn(t)
    \/ SavePid(t) \/ Timeout(t) \/ Ingest(t) \/ Finishes(t)

Fairness ==
    /\ \A t \in Threads : WF_vars(Progress(t))
    /\ \A c \in Clients : WF_vars(CancelStep(c))
    /\ WF_vars(PutSentinel)

FairSpec == Spec /\ Fairness

-----------------------------------------------------------------------------
\* Properties.

\* Every variable of the pool keeps its type, across crashes and restarts.
TypeOK ==
    /\ status \in [Jobs -> Status]
    /\ pidrec \in SUBSET Jobs
    /\ child \in SUBSET Jobs
    /\ ingested \in SUBSET Jobs
    /\ phase \in {"down", "reconciling", "up"}
    /\ queue \in Seq(Jobs \cup {Sentinel})
    /\ waiting \in Seq(Jobs)
    /\ cancels \in SUBSET Jobs
    /\ claimed \in SUBSET Jobs
    /\ running \in SUBSET Jobs
    /\ pc \in [Threads -> ThreadPC]
    /\ held \in [Threads -> Jobs \cup {NoJob}]
    /\ cpc \in [Clients -> ClientPC]
    /\ cjob \in [Clients -> Jobs \cup {NoJob}]
    /\ hooks \in [Jobs -> Nat]
    /\ stopping \in BOOLEAN
    /\ owed \in 0..Cardinality(Threads)
    /\ crashes \in 0..MaxCrashes

\* Two records say "running" at the same time only when both jobs belong to
\* one fan-out: an ordinary job never runs beside anything. The rule is
\* decided on Worker._running, in memory; this is what it does to the records,
\* across crashes too.
OneBatchAtATime ==
    \A j, k \in Jobs :
        j # k /\ status[j] = "running" /\ status[k] = "running"
            => Batch[j] = Batch[k] /\ Batch[j] # NoBatch

\* No live job is forgotten: while the daemon is up a job whose record is not
\* terminal is on the queue or in the hands of a thread, and a "running" one
\* in the hands of the thread that executes it. A record left behind by a
\* crash, a cancel or a shutdown would block its topic and stage until the
\* next restart.
NothingLost ==
    phase = "up" =>
        \A j \in Jobs :
            /\ status[j] = "queued" =>
                   \/ \E i \in DOMAIN queue : queue[i] = j
                   \/ \E t \in Threads : held[t] = j
            /\ status[j] = "running" =>
                   \E t \in Threads : held[t] = j /\ pc[t] \in Executing

\* The completion hook runs at most once per job, and never before the
\* terminal record is on disk: a cancel and the loop must not both announce a
\* job they both saw queued, and neither may a recovered daemon.
HookOnce ==
    \A j \in Jobs : hooks[j] <= 1 /\ (hooks[j] = 1 => status[j] \in Terminal)

\* What a terminal record says is what happened: a succeeded job's response is
\* in the run, a canceled one left none, and a job that ended in success or by
\* a cancel has no provider process left to spend money. (A failed or an
\* interrupted job may have left either: SaveRefused, SpawnError and a death
\* between ingest and the last save.)
RecordTellsTruth ==
    \A j \in Jobs :
        /\ status[j] = "succeeded" => j \in ingested
        /\ status[j] = "canceled" => j \notin ingested
        /\ status[j] \in {"succeeded", "canceled"} => j \notin child

\* A record, once terminal, is final: no late thread, second cancel or restart
\* rewrites a verdict that a client has already read.
TerminalIsFinal ==
    [][\A j \in Jobs : status[j] \in Terminal => status'[j] = status[j]]_vars

\* The pool implements the abstract record life of JobRecords: no interleaving
\* of loop threads, cancels, deaths and restarts starts a job beside a foreign
\* one, moves a record backwards, or announces twice or too early.
Records == INSTANCE JobRecords
               WITH Jobs <- Jobs, Batch <- Batch, NoBatch <- NoBatch,
                    status <- status, hooks <- hooks
ImplementsRecords == Records!Spec

\* Every job that is queued before a shutdown reaches a terminal record as long
\* as the daemon lives, whatever its provider does, and its end is announced:
\* the hook is "called exactly once per job that reaches a terminal status", be
\* it a loop thread or a cancelling client that brings it there (HookOnce says
\* never twice).
EveryJobSettles ==
    \A j \in Jobs :
        (phase = "up" /\ ~stopping /\ Live(j))
            ~> (phase = "down" \/ (status[j] \in Terminal /\ hooks[j] = 1))

\* A shutdown drains: every loop thread returns on its own sentinel, even one
\* that was parked behind another job when the shutdown began.
ShutdownDrains ==
    (phase = "up" /\ stopping)
        ~> (phase = "down" \/ \A t \in Threads : pc[t] = "exited")
=============================================================================
