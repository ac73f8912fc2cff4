------------------------- MODULE MCWorkspaceStores -------------------------
(***************************************************************************)
(* WorkspaceStores for TLC: two threads of the daemon and two commands,    *)
(* each a process of its own.                                              *)
(***************************************************************************)
EXTENDS WorkspaceStores

CONSTANTS d1, d2, c1, c2, daemon, cli1, cli2

MCCalls  == {d1, d2, c1, c2}
MCBlocks == MCCalls \X {"guard", "section"}
MCProc   == [b \in MCBlocks |->
                CASE b[1] = c1 -> cli1 [] b[1] = c2 -> cli2 [] OTHER -> daemon]

(* The threads of the daemon may be exchanged, and the commands with their *)
(* processes.                                                              *)
Exchanges ==
    Permutations({d1, d2}) \cup
    {[x \in {c1, c2, cli1, cli2} |->
         CASE x = c1 -> c2 [] x = c2 -> c1 [] x = cli1 -> cli2 [] x = cli2 -> cli1]}
=============================================================================
