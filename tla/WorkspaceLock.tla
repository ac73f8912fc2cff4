---------------------------- MODULE WorkspaceLock ----------------------------
(***************************************************************************)
(* The workspace's advisory lock (education_pipeline/workspace_lock.py):   *)
(* one flock per process, shared by all its threads through a depth        *)
(* counter, taken by polling with a timeout. A block is one activation of  *)
(* the context manager; nested and concurrent blocks of a process differ   *)
(* only in the order they leave, which the counter does not see.           *)
(*                                                                         *)
(* One step is one critical section of _STATE_LOCK, which is per process.  *)
(***************************************************************************)
EXTENDS Integers, FiniteSets

CONSTANTS
    Blocks,     \* activations of workspace_lock
    Procs,      \* processes that open the workspace
    Proc,       \* Proc[b]: the process that b runs in
    Nobody,     \* the lock file is not locked
    MaxDeaths   \* bound: how many processes may die

ASSUME LockAssumption ==
    /\ IsFiniteSet(Blocks)
    /\ Proc \in [Blocks -> Procs]
    /\ Nobody \notin Procs
    /\ MaxDeaths \in Nat

VARIABLES
    pc,      \* each block: "out", "polling", "in" or "refused"
    depth,   \* depth[p]: _HELD[key].depth in process p, 0 without a holder
    owner,   \* the process whose descriptor has the flock
    deaths   \* how many processes have died

vars == <<pc, depth, owner, deaths>>

inside == {b \in Blocks : pc[b] = "in"}

Init ==
    /\ pc = [b \in Blocks |-> "out"]
    /\ depth = [p \in Procs |-> 0]
    /\ owner = Nobody
    /\ deaths = 0

\* Enter the context manager: the deadline is set, nothing is tried yet.
Request(b) ==
    /\ pc[b] = "out"
    /\ pc' = [pc EXCEPT ![b] = "polling"]
    /\ UNCHANGED <<depth, owner, deaths>>

\* The process has the lock already: join its holder.
Join(b) ==
    /\ pc[b] = "polling"
    /\ depth[Proc[b]] > 0
    /\ depth' = [depth EXCEPT ![Proc[b]] = @ + 1]
    /\ pc' = [pc EXCEPT ![b] = "in"]
    /\ UNCHANGED <<owner, deaths>>

\* One non-blocking attempt on this block's own descriptor succeeds.
Win(b) ==
    /\ pc[b] = "polling"
    /\ depth[Proc[b]] = 0
    /\ owner = Nobody
    /\ owner' = Proc[b]
    /\ depth' = [depth EXCEPT ![Proc[b]] = 1]
    /\ pc' = [pc EXCEPT ![b] = "in"]
    /\ UNCHANGED deaths

\* The attempt fails and the deadline is past: WorkspaceLockedError.
Refuse(b) ==
    /\ pc[b] = "polling"
    /\ depth[Proc[b]] = 0
    /\ owner # Nobody
    /\ pc' = [pc EXCEPT ![b] = "refused"]
    /\ UNCHANGED <<depth, owner, deaths>>

\* The caller of a refused block gives up or tries again.
Retry(b) ==
    /\ pc[b] = "refused"
    /\ pc' = [pc EXCEPT ![b] = "out"]
    /\ UNCHANGED <<depth, owner, deaths>>

\* Mutant: the outermost block to leave is taken to be the first that entered.
ReleaseFirst(b) ==
    /\ pc[b] = "in"
    /\ pc' = [pc EXCEPT ![b] = "out"]
    /\ depth' = [depth EXCEPT ![Proc[b]] = 0]
    /\ owner' = Nobody
    /\ UNCHANGED deaths

\* The last block to leave unlocks the file and closes the descriptor.
Release(b) ==
    /\ pc[b] = "in"
    /\ pc' = [pc EXCEPT ![b] = "out"]
    /\ depth' = [depth EXCEPT ![Proc[b]] = @ - 1]
    /\ owner' = IF depth[Proc[b]] = 1 THEN Nobody ELSE owner
    /\ UNCHANGED deaths

\* The kernel drops the flock of a process that dies; its blocks are gone.
Die(p) ==
    /\ deaths < MaxDeaths
    /\ deaths' = deaths + 1
    /\ pc' = [b \in Blocks |-> IF Proc[b] = p THEN "out" ELSE pc[b]]
    /\ depth' = [depth EXCEPT ![p] = 0]
    /\ owner' = IF owner = p THEN Nobody ELSE owner

Next ==
    \/ \E b \in Blocks :
           Request(b) \/ Join(b) \/ Win(b) \/ Refuse(b) \/ Retry(b) \/ Release(b)
    \/ \E p \in Procs : Die(p)

Spec == Init /\ [][Next]_vars

-----------------------------------------------------------------------------
\* Properties.

\* Every variable of the lock keeps its type.
TypeOK ==
    /\ pc \in [Blocks -> {"out", "polling", "in", "refused"}]
    /\ depth \in [Procs -> Nat]
    /\ owner \in Procs \cup {Nobody}
    /\ deaths \in 0..MaxDeaths

\* The depth counter says exactly how many blocks of the process are inside,
\* and the file is locked by the process exactly while there is one: neither a
\* block that runs without the file lock, nor a file that stays locked behind
\* the last block, in any order of nested and concurrent releases.
DepthIsExact ==
    \A p \in Procs :
        /\ depth[p] = Cardinality({b \in inside : Proc[b] = p})
        /\ depth[p] > 0 <=> owner = p

\* Read-modify-write cycles of two processes never overlap, with any nesting,
\* any overlap of threads and a death at any point.
Exclusion == INSTANCE ProcessExclusion
                 WITH Blocks <- Blocks, Procs <- Procs, Proc <- Proc,
                      inside <- inside
ImplementsExclusion == Exclusion!Spec
=============================================================================
