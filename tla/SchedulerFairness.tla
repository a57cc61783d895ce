------------------------- MODULE SchedulerFairness --------------------------
(***************************************************************************)
(* Scheduler with a history variable: the number of quantum boundaries     *)
(* since the last round-robin decision that passed without one, because a  *)
(* fast delivery took the tick.  The history observes the steps and never  *)
(* constrains them.                                                        *)
(***************************************************************************)
EXTENDS Scheduler

VARIABLE skipped

fairVars == <<vcpu_executing_nd, next_vcpu, last_scheduled, tick_count, skipped>>

FairInit == SchedInit /\ skipped = 0

FairTick ==
  \/ /\ FastSwitch
     /\ skipped' = IF AtQuantum THEN skipped + 1 ELSE skipped
  \/ /\ QuantumSwitch
     /\ skipped' = 0
  \/ /\ PlainTick
     /\ UNCHANGED skipped

FairNext ==
  \/ FairTick
  \/ ethernet_interrupt_handler /\ UNCHANGED skipped

FairSpec == FairInit /\ [][FairNext]_fairVars /\ WF_fairVars(FairTick)

\* However the Ethernet interrupts fall, no two quantum boundaries in a row
\* pass without a round-robin decision, so a VCPU waits at most two quanta
\* for each VCPU ahead of it in the ready list.
AtMostOneSkip == skipped <= 1

\* The inductive strengthening: a skipped boundary leaves the processor with
\* a node that fast_interrupt_delivery recognises.
FairInv ==
  /\ skipped \in {0, 1}
  /\ skipped = 1 => vcpu_executing_nd \in VmNodes
  /\ FastNotRenewed
=============================================================================
