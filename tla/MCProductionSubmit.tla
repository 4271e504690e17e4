------------------------- MODULE MCProductionSubmit --------------------------
(***************************************************************************)
(* A small instance of ProductionSubmit for TLC: two requests on the       *)
(* queue, three people, one subject of each kind of risk, one task that    *)
(* submits.                                                                *)
(***************************************************************************)
EXTENDS ProductionSubmit, TLC

CONSTANTS reconcile, submit

MCSubjects == {reconcile, submit}
MCRiskOf == reconcile :> 4 @@ submit :> 5
=============================================================================
