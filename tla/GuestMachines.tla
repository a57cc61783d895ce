--------------------------- MODULE GuestMachines ----------------------------
(***************************************************************************)
(* What processor virtualisation promises: every VM owns a machine, with   *)
(* registers and pending interrupts of its own.  Only the VM in execution  *)
(* changes its registers and takes its interrupts.  Moving the processor   *)
(* from one VM to another changes no machine.  An interrupt that was       *)
(* posted to a machine stays pending there until that VM takes it; posts   *)
(* of the same interrupt may merge, and none appears that nobody posted.   *)
(* VirtualInterrupts.tla (vcpu.c, timer.c, the interrupt redirection       *)
(* driver) is shown to implement this specification.                       *)
(***************************************************************************)
EXTENDS Naturals

CONSTANTS VM,      \* ids of the virtual machines
          Bit,     \* virtual interrupts
          Soft,    \* the interrupts the hypervisor itself generates
          Reg,     \* registers of a guest
          Val,     \* their values
          Irq,     \* device interrupts redirected to guests
          Route    \* Route[i] = <<vm, bit>>: where device interrupt i goes

VARIABLES running,   \* the VM in execution, 0 if none
          regs,      \* regs[v][r]: register r of v's machine
          pend,      \* pend[v][b]: posts of b to v not yet taken or merged, at most 2
          line,      \* line[i]: device interrupt i is asserted
          alive      \* FALSE once the hypervisor has stopped

machineVars == <<running, regs, pend, line, alive>>

MachineInit ==
  /\ running = 0
  /\ regs = [v \in VM |-> [r \in Reg |-> 0]]
  /\ pend = [v \in VM |-> [b \in Bit |-> 0]]
  /\ line = [i \in Irq |-> FALSE]
  /\ alive = TRUE

\* A device asserts its interrupt.
Raise ==
  /\ \E i \in Irq : line' = [line EXCEPT ![i] = TRUE]
  /\ UNCHANGED <<running, regs, pend, alive>>

\* The VM in execution writes a register of its machine.
Write ==
  /\ alive
  /\ \E v \in VM, r \in Reg, x \in Val :
       running = v /\ regs' = [regs EXCEPT ![v][r] = x]
  /\ UNCHANGED <<running, pend, line, alive>>

\* The VM in execution takes some of its pending interrupts, each once.
Take ==
  /\ alive
  /\ \E v \in VM, S \in SUBSET Bit :
       /\ running = v
       /\ \A b \in S : pend[v][b] > 0
       /\ pend' = [pend EXCEPT ![v] =
                     [b \in Bit |-> IF b \in S THEN @[b] - 1 ELSE @[b]]]
  /\ UNCHANGED <<running, regs, line, alive>>

Acknowledged(i) == line[i] /\ ~line'[i]

MayPost(v, b) ==
  \/ b \in Soft
  \/ \E i \in Irq : Route[i] = <<v, b>> /\ Acknowledged(i)

\* The hypervisor runs: it may pass the processor on, acknowledge device
\* interrupts, post interrupts and complete a hypercall of the VM in
\* execution.  A device interrupt is acknowledged by posting it.
Kernel ==
  /\ alive /\ alive'
  /\ running' \in {0} \cup VM
  /\ line' \in [Irq -> BOOLEAN]
  /\ \A i \in Irq : line'[i] => line[i]
  /\ pend' \in [VM -> [Bit -> 0..2]]
  /\ \A v \in VM, b \in Bit :
       \/ pend'[v][b] = pend[v][b]
       \/ pend[v][b] = 2 /\ pend'[v][b] = 1
       \/ MayPost(v, b) /\ pend'[v][b] = pend[v][b] + 1
  /\ \A i \in Irq : Acknowledged(i) => pend'[Route[i][1]][Route[i][2]] > 0
  /\ regs' \in [VM -> [Reg -> Val]]
  /\ \A v \in VM, r \in Reg :
       regs'[v][r] # regs[v][r] => r = "EPC" /\ running = v /\ running' = v

\* The hypervisor stops for good; what it was doing is lost with it.
Crash ==
  /\ alive /\ ~alive'
  /\ line' \in [Irq -> BOOLEAN]
  /\ UNCHANGED <<running, regs, pend>>

Reboot == MachineInit'

MachineNext == Raise \/ Write \/ Take \/ Kernel \/ Crash \/ Reboot

MachineSpec == MachineInit /\ [][MachineNext]_machineVars
=============================================================================
