----------------------------- MODULE MCServices -----------------------------
(***************************************************************************)
(* Three services beside the checkout, for TLC: the status of submitted    *)
(* orders, inventory signals and the try-on worker.  They share no state,  *)
(* so a behaviour is one of a single service, chosen at the start, while   *)
(* the others stand still.                                                 *)
(***************************************************************************)
EXTENDS OrderStatus, InventorySignals, FlowWorker

VARIABLE which

vars == <<which, statusVars, signalVars, workerVars>>

(* Bound: of the variations one is listed, and on the storefront, at the   *)
(* start; the mirror does not know the others.                             *)
Init ==
  /\ which \in {"status", "signals", "worker"}
  /\ StatusInit /\ SignalsInit /\ WorkerInit
  /\ listed = {CHOOSE v \in Variations : TRUE}

Next ==
  \/ which = "status" /\ StatusNext /\ UNCHANGED <<which, signalVars, workerVars>>
  \/ which = "signals" /\ SignalsNext /\ UNCHANGED <<which, statusVars, workerVars>>
  \/ which = "worker" /\ WorkerNext /\ UNCHANGED <<which, statusVars, signalVars>>

(* StatusFairness, SignalsFairness and WorkerFairness, of the one that     *)
(* moves.                                                                  *)
Spec ==
  /\ Init /\ [][Next]_vars
  /\ \A r \in Readers : WF_statusVars(which = "status" /\ Read(r))
  /\ WF_signalVars(which = "signals" /\ Batch)
  /\ <>[][~BatchDies]_signalVars
  /\ WF_workerVars(which = "worker" /\ Serve)
  /\ WF_workerVars(which = "worker" /\ Launch)

-----------------------------------------------------------------------------
(* The values the stored status, the markers, the worker's locks and the   *)
(* processes under way may take.                                           *)
ServicesTypesOK == StatusTypeOK /\ SignalsTypeOK /\ WorkerTypeOK

=============================================================================
