---------------------------- MODULE MCWorkerPool ----------------------------
(***************************************************************************)
(* Instances of WorkerPool for TLC. o1, o2 are ordinary jobs, b1 and b2    *)
(* the module jobs of one fan-out, b3 a module job of another.             *)
(***************************************************************************)
EXTENDS WorkerPoolInvariant, TLC

CONSTANTS o1, o2, b1, b2, b3, B, D

MCBatch == [j \in Jobs |-> IF j \in {b1, b2} THEN B
                           ELSE IF j = b3 THEN D ELSE NoBatch]
\* Every job runs a stage of its own, or drafts a module of its own.
MCScope  == [j \in Jobs |-> IF Batch[j] = NoBatch THEN j ELSE Batch[j]]
MCModule == [j \in Jobs |-> IF Batch[j] = NoBatch THEN NoModule ELSE j]

PoolSymmetry == Permutations(Threads) \cup Permutations(Clients)
=============================================================================
