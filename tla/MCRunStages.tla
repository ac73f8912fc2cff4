---------------------------- MODULE MCRunStages ----------------------------
(***************************************************************************)
(* RunStages for TLC: the draft, the fact check of it and the repair.      *)
(***************************************************************************)
EXTENDS RunStages, TLC

MCSources == ("draft" :> {}) @@ ("factcheck" :> {"draft"}) @@ ("repair" :> {"draft", "factcheck"})
MCRank == ("draft" :> 0) @@ ("factcheck" :> 1) @@ ("repair" :> 2)
=============================================================================
