--------------------------- MODULE DispatchPolicy ---------------------------
(***************************************************************************)
(* What the hypervisor's scheduler promises, independently of ticks, list  *)
(* nodes and counters: the VMs take turns in a fixed circular order; a VM  *)
(* with a fast interrupt may borrow the processor, at most once between    *)
(* two turns; a borrow does not move the turn; and turns never cease.      *)
(* Scheduler.tla (scheduler.c) is shown to implement this specification,   *)
(* and InterVM.tla is composed with it instead of with the tick counter.   *)
(***************************************************************************)
EXTENDS Naturals

CONSTANTS NVMACHINES,      \* number of virtual machines, ids 1..NVMACHINES
          FastVMs          \* VMs that may borrow the processor

ASSUME PolicyAssumption ==
  /\ NVMACHINES \in Nat \ {0}
  /\ FastVMs \subseteq 1..NVMACHINES

VARIABLES running,   \* VM that holds the processor, 0 before the first dispatch
          turn,      \* VM whose turn it was last, 0 before the first turn
          lent       \* TRUE while the processor is lent to a fast VM

policyVars == <<running, turn, lent>>

VM == 1..NVMACHINES

PolicyTypeOK ==
  /\ running \in 0..NVMACHINES
  /\ turn \in 0..NVMACHINES
  /\ lent \in BOOLEAN

PolicyInit == running = 0 /\ turn = 0 /\ lent = FALSE

\* The circular order of the ready list; the first turn is VM 1's.
Successor(v) == IF v = NVMACHINES THEN 1 ELSE v + 1

Turn ==
  /\ turn' = Successor(turn)
  /\ running' = Successor(turn)
  /\ lent' = FALSE

Borrow ==
  /\ ~lent
  /\ running' \in FastVMs
  /\ lent' = TRUE
  /\ UNCHANGED turn

PolicyNext == Turn \/ Borrow

PolicySafe == PolicyInit /\ [][PolicyNext]_policyVars

PolicySpec == PolicySafe /\ WF_policyVars(Turn)
=============================================================================
