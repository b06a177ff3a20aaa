---------------------------- MODULE DurableEffect ----------------------------
(***************************************************************************)
(* What the receipts of the registry promise about one external effect,    *)
(* whoever executes it: it starts only while its family admits work and    *)
(* under the epoch of that moment, it is not started again while it may    *)
(* stand or once it is done, and the family never changes hands over an    *)
(* effect that is under way.                                               *)
(* (src/src/workflows/store.ts: workflow_receipts and                      *)
(*  workflow_effect_exclusion, pauseFamily, switchFamilyTransaction)       *)
(***************************************************************************)
EXTENDS Integers

VARIABLES
  receipt,     \* workflow_receipts.state of the effect
  heldEpoch,   \* the epoch it was last started under
  epoch,       \* workflow_owners.epoch
  admission    \* workflow_owners.admission

effectVars == <<receipt, heldEpoch, epoch, admission>>

Free == {"none", "failed"}
Unsettled == {"started", "ambiguous"}

EffectInit == receipt = "none" /\ heldEpoch = 0 /\ epoch = 1 /\ admission = TRUE

Begin ==
  /\ admission /\ receipt \in Free
  /\ receipt' = "started" /\ heldEpoch' = epoch
  /\ UNCHANGED <<epoch, admission>>

Settle ==
  /\ receipt \in Unsettled
  /\ receipt' \in {"done", "failed", "ambiguous"}
  /\ UNCHANGED <<heldEpoch, epoch, admission>>

CloseAdmission ==
  /\ admission /\ admission' = FALSE
  /\ UNCHANGED <<receipt, heldEpoch, epoch>>

\* A closed family changes hands once nothing is under way.
HandOver ==
  /\ ~admission /\ receipt # "started"
  /\ epoch' = epoch + 1 /\ admission' = TRUE
  /\ UNCHANGED <<receipt, heldEpoch>>

EffectNext == Begin \/ Settle \/ CloseAdmission \/ HandOver

EffectSpec == EffectInit /\ [][EffectNext]_effectVars
=============================================================================
