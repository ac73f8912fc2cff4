--------------------------- MODULE MCFanoutChain ---------------------------
(***************************************************************************)
(* Instances of FanoutChain for TLC: two modules and enough slots for the  *)
(* clients' calls and for every fan-out a hook can start after them.       *)
(***************************************************************************)
EXTENDS FanoutChain, TLC

CONSTANTS a1, a2, a3, a4, a5

FourSlots  == {a1, a2, a3, a4}
FiveSlots  == {a1, a2, a3, a4, a5}
TwoModules == {1, 2}

FewForms  == {<<FALSE, {}>>, <<TRUE, {}>>, <<FALSE, {1}>>}
OneOrAll == BOOLEAN \X {{}, {1}}
=============================================================================
