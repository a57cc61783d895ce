---------------------------- MODULE MCScheduler -----------------------------
(* Three VMs; the second and third list IRQ_ETH as a fast interrupt, so    *)
(* the driver finds the second.  TICK_MOD is no multiple of the quantum,   *)
(* as 2^32 is none of 10.                                                  *)
EXTENDS SchedulerFairness
=============================================================================
