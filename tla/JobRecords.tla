----------------------------- MODULE JobRecords -----------------------------
(***************************************************************************)
(* What the worker pool promises about the job records, whatever its       *)
(* threads, clients and restarts do (education_pipeline/daemon/jobs.py,    *)
(* the docstrings of `Worker`): the life of one record, which records may  *)
(* say "running" together, and when a completion is announced. Nothing of  *)
(* the queue, the admission order or the locks is visible here. WorkerPool *)
(* implements this module.                                                 *)
(***************************************************************************)
EXTENDS Naturals

CONSTANTS
    Jobs,     \* job ids
    Batch,    \* Batch[j]: the fan-out j belongs to, or NoBatch
    NoBatch   \* an ordinary job

VARIABLES
    status,   \* status[j] in job.json; "none" before the job is enqueued
    hooks     \* hooks[j]: how often the completion of j was announced

vars == <<status, hooks>>

Terminal == {"succeeded", "failed", "canceled", "interrupted"}

Init ==
    /\ status = [j \in Jobs |-> "none"]
    /\ hooks = [j \in Jobs |-> 0]

Submit(j) ==
    /\ status[j] = "none"
    /\ status' = [status EXCEPT ![j] = "queued"]
    /\ UNCHANGED hooks

\* "a job may start only when nothing is running, or when every running job
\* shares its batch_id"
Begin(j) ==
    /\ status[j] = "queued"
    /\ \A k \in Jobs :
           status[k] = "running" => Batch[j] # NoBatch /\ Batch[k] = Batch[j]
    /\ status' = [status EXCEPT ![j] = "running"]
    /\ UNCHANGED hooks

\* A queued job can fail to start or be canceled; only a job that ran can
\* succeed or be interrupted.
End(j, s) ==
    /\ \/ status[j] = "queued" /\ s \in {"failed", "canceled"}
       \/ status[j] = "running" /\ s \in Terminal
    /\ status' = [status EXCEPT ![j] = s]
    /\ UNCHANGED hooks

\* "called exactly once per job that reaches a terminal status, after its
\* record is saved"
Announce(j) ==
    /\ status[j] \in Terminal
    /\ hooks[j] = 0
    /\ hooks' = [hooks EXCEPT ![j] = 1]
    /\ UNCHANGED status

Next ==
    \E j \in Jobs :
        \/ Submit(j)
        \/ Begin(j)
        \/ \E s \in Terminal : End(j, s)
        \/ Announce(j)

Spec == Init /\ [][Next]_vars
=============================================================================
