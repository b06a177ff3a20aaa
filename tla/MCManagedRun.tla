----------------------------- MODULE MCManagedRun -----------------------------
(***************************************************************************)
(* Model checking of ManagedRun: one run of either channel, two epochs of  *)
(* its family.                                                             *)
(***************************************************************************)
EXTENDS ManagedRun

BothChannels == {"browser", "scheduler"}
=============================================================================
