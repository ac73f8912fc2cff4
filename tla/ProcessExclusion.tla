-------------------------- MODULE ProcessExclusion --------------------------
(***************************************************************************)
(* Exclusion between processes (education_pipeline/workspace_lock.py,      *)
(* module docstring): blocks of one process may overlap, blocks of two     *)
(* processes never do, and a process that dies leaves every block it was   *)
(* in. WorkspaceLock implements this module, with the activations of       *)
(* workspace_lock as blocks.                                               *)
(***************************************************************************)
CONSTANTS
    Blocks,   \* activations of the context manager, in any thread
    Procs,    \* the daemon and the CLI invocations
    Proc      \* Proc[b]: the process b runs in

VARIABLE
    inside    \* the blocks whose body is running

Init == inside = {}

Enter(b) ==
    /\ b \notin inside
    /\ \A c \in inside : Proc[c] = Proc[b]
    /\ inside' = inside \cup {b}

Leave(b) ==
    /\ b \in inside
    /\ inside' = inside \ {b}

Die(p) == inside' = {b \in inside : Proc[b] # p}

Next ==
    \/ \E b \in Blocks : Enter(b) \/ Leave(b)
    \/ \E p \in Procs : Die(p)

Spec == Init /\ [][Next]_inside
=============================================================================
