------------------------- MODULE VirtualInterrupts --------------------------
(***************************************************************************)
(* How interrupts reach the guests: the timer interrupt handler            *)
(* (arch/mips/pic32mz/timer.c) on top of the scheduler and the context     *)
(* switch, the interrupt redirection driver with its reenable hypercall,   *)
(* the notification half of the inter-VM send hypercall, the exception     *)
(* handler that stops the hypervisor, and the guests that start, register  *)
(* their handlers, and take, dispatch and re-enable interrupts.  Every     *)
(* hypervisor handler runs with root exceptions masked and is one step;    *)
(* guests are interleaved between them.                                    *)
(***************************************************************************)
EXTENDS VCpu, Integers, FiniteSets

CONSTANTS irq_vm,       \* irq_vm[m]: target VM of entry m of interrupt_mapping_list
          IrqCount,     \* interrupt_mapping_sz
          Notifiers     \* VMs that send inter-VM messages

Irq == 1..IrqCount

ASSUME RedirectAssumption ==
  /\ IrqCount \in Nat
  /\ irq_vm \in [Irq -> VM]
  /\ Notifiers \subseteq VM

VARIABLES IFS,       \* IFS[m]: the IRQ of entry m is asserted
          IEC,       \* IEC[m]: the IRQ of entry m is enabled
          halted,    \* CRITICAL was reached, or a handler faulted
          ripl,      \* ripl[v]: interrupts v's _irq_handler still has to dispatch
          guest_ie,  \* guest_ie[v]: v's Status.IE, set at the end of init_proc
          interrupt_handlers,
                     \* interrupt_handlers[v]: redirected interrupts v handles
          dropped    \* history: IRQs masked since their interrupt met no handler

viVars == <<vcpu_executing_nd, next_vcpu, last_scheduled, tick_count,
            init, cp0_registers, guestclt2, guest_cp0, GuestCTL2,
            IFS, IEC, halted, ripl, guest_ie, interrupt_handlers, dropped>>

\* What a guest's start-up and its main set.
guestSetup == <<guest_ie, interrupt_handlers>>

\* Virtual interrupts as bit positions (guest_interrupts.h).
GUEST_TIMER_INT == 0
GUEST_INTERVM_INT == 1
GUEST_USER_DEFINED_INT_1 == 4

\* The GRIPL field: bits 24..31 of GuestCtl2, so positions 0..7.
Gripl == 0..7

\* x << GUESTCLT2_GRIPL_SHIFT on 32 bits: positions above 7 are shifted out.
Shifted(b) == {b} \cap Gripl

\* interrupt_redirect_init gives a VM's redirections consecutive positions.
irq_guest(m) ==
  GUEST_USER_DEFINED_INT_1
    + Cardinality({k \in 1..(m - 1) : irq_vm[k] = irq_vm[m]})

-----------------------------------------------------------------------------
\* After start_timer's ei, before the first timer interrupt.
VIInit ==
  /\ SchedInit
  /\ VCpuInit
  /\ IFS = [m \in Irq |-> FALSE]
  /\ IEC = [m \in Irq |-> TRUE]
  /\ halted = FALSE
  /\ ripl = [v \in VM |-> {}]
  /\ guest_ie = [v \in VM |-> FALSE]
  /\ interrupt_handlers = [v \in VM |-> {}]
  /\ dropped = {}

Switches == next_vcpu # NULL \/ AtQuantum

\* A guest timer interrupt is due or not: elapsed time is abstracted.
TimerDue == {{}, Shifted(GUEST_TIMER_INT)}

timer_interrupt_handler ==
  /\ ~halted
  /\ run_scheduler
  /\ \E due \in TimerDue :
       \/ /\ Switches
          /\ contextSwitch(Elem(vcpu_executing_nd'), due)
       \/ /\ ~Switches
          /\ GuestCTL2' = GuestCTL2 \cup due
          /\ UNCHANGED <<init, cp0_registers, guestclt2, guest_cp0>>
  /\ UNCHANGED <<IFS, IEC, halted, ripl, guestSetup, dropped>>

\* The Ethernet interrupt only marks its fast VM for the next tick.
fast_interrupt ==
  /\ ~halted
  /\ ethernet_interrupt_handler
  /\ UNCHANGED vcpuVars
  /\ UNCHANGED <<IFS, IEC, halted, ripl, guestSetup, dropped>>

\* A device asserts its IRQ.
device_interrupt ==
  /\ ~halted
  /\ \E m \in Irq : ~IFS[m] /\ IFS' = [IFS EXCEPT ![m] = TRUE]
  /\ UNCHANGED schedVars
  /\ UNCHANGED vcpuVars
  /\ UNCHANGED <<IEC, halted, ripl, guestSetup, dropped>>

\* Interrupts that interrupt_injection posts to v: the handler serves every
\* asserted entry of the list, whatever its IEC bit says.
Injected(v) ==
  UNION {Shifted(irq_guest(m)) : m \in {k \in Irq : IFS[k] /\ irq_vm[k] = v}}

\* A plausible bug: every interrupt is injected into the running guest.
interrupt_injection_wrong_vcpu ==
  /\ ~halted
  /\ vcpu_executing # 0
  /\ \E m \in Irq : IFS[m] /\ IEC[m]
  /\ IFS' = [m \in Irq |-> FALSE]
  /\ IEC' = [m \in Irq |-> IEC[m] /\ ~IFS[m]]
  /\ GuestCTL2' = GuestCTL2 \cup UNION {Injected(v) : v \in VM}
  /\ dropped' = {m \in dropped : ~IFS[m]}
  /\ UNCHANGED schedVars
  /\ UNCHANGED <<init, cp0_registers, guest_cp0, guestclt2, halted, ripl, guestSetup>>

interrupt_injection ==
  /\ ~halted
  /\ vcpu_executing # 0
  /\ \E m \in Irq : IFS[m] /\ IEC[m]
  /\ IFS' = [m \in Irq |-> FALSE]
  /\ IEC' = [m \in Irq |-> IEC[m] /\ ~IFS[m]]
  /\ GuestCTL2' = GuestCTL2 \cup Injected(vcpu_executing)
  /\ guestclt2' = [v \in VM |-> IF v = vcpu_executing THEN guestclt2[v]
                                ELSE guestclt2[v] \cup Injected(v)]
  /\ dropped' = {m \in dropped : ~IFS[m]}
  /\ UNCHANGED schedVars
  /\ UNCHANGED <<init, cp0_registers, guest_cp0, halted, ripl, guestSetup>>

\* Before the first tick vcpu_executing dereferences a NULL list node: the
\* first asserted entry has been masked and acknowledged, and the handler
\* faults with root exceptions masked.
interrupt_injection_faults ==
  /\ ~halted
  /\ vcpu_executing = 0
  /\ \E m \in Irq : IFS[m] /\ IEC[m]
  /\ \E m \in Irq :
       /\ IFS[m] /\ \A k \in 1..(m - 1) : ~IFS[k]
       /\ IFS' = [IFS EXCEPT ![m] = FALSE]
       /\ IEC' = [IEC EXCEPT ![m] = FALSE]
  /\ halted' = TRUE
  /\ UNCHANGED schedVars
  /\ UNCHANGED vcpuVars
  /\ UNCHANGED <<ripl, guestSetup, dropped>>

-----------------------------------------------------------------------------
GuestRuns(v) == ~halted /\ vcpu_executing = v

\* init_proc clears the handler table and enables the guest's interrupts; main
\* registers its handlers only after that.
init_proc(v) ==
  /\ GuestRuns(v) /\ ~guest_ie[v]
  /\ guest_ie' = [guest_ie EXCEPT ![v] = TRUE]
  /\ interrupt_handlers' = [interrupt_handlers EXCEPT ![v] = {}]
  /\ UNCHANGED schedVars
  /\ UNCHANGED vcpuVars
  /\ UNCHANGED <<IFS, IEC, halted, ripl, dropped>>

\* main registers a handler for one of its redirected interrupts, or never does.
interrupt_register(v) ==
  /\ GuestRuns(v) /\ guest_ie[v] /\ ripl[v] = {}
  /\ \E m \in Irq :
       /\ irq_vm[m] = v /\ irq_guest(m) \notin interrupt_handlers[v]
       /\ interrupt_handlers' = [interrupt_handlers EXCEPT ![v] = @ \cup {irq_guest(m)}]
  /\ UNCHANGED schedVars
  /\ UNCHANGED vcpuVars
  /\ UNCHANGED <<IFS, IEC, halted, ripl, guest_ie, dropped>>

\* The guest in execution computes: it writes one of its registers.
guest_writes(v) ==
  /\ GuestRuns(v)
  /\ \E r \in Reg, x \in Val :
       x # guest_cp0[r] /\ guest_cp0' = [guest_cp0 EXCEPT ![r] = x]
  /\ UNCHANGED schedVars
  /\ UNCHANGED <<init, cp0_registers, guestclt2, GuestCTL2, IFS, IEC, halted, ripl,
                 guestSetup, dropped>>

\* The hardware delivers all pending interrupts at once: the guest's Cause
\* gets RIPL and GRIPL is cleared.  Not before the guest's ei (guest IE), nor
\* while _irq_handler runs (guest EXL).
guest_takes_interrupt(v) ==
  /\ GuestRuns(v) /\ guest_ie[v]
  /\ ripl[v] = {} /\ GuestCTL2 # {}
  /\ ripl' = [ripl EXCEPT ![v] = GuestCTL2]
  /\ GuestCTL2' = {}
  /\ UNCHANGED schedVars
  /\ UNCHANGED <<init, cp0_registers, guestclt2, guest_cp0, IFS, IEC, halted,
                 guestSetup, dropped>>

\* The reenable_interrupt hypercall of v for the guest interrupt b.
reenable_interrupt(v, b) ==
  /\ GuestRuns(v)
  /\ IEC' = [m \in Irq |-> IEC[m] \/ (irq_vm[m] = v /\ irq_guest(m) = b)]
  /\ dropped' = {m \in dropped : ~IEC'[m]}
  /\ AdvancePC
  /\ UNCHANGED schedVars
  /\ UNCHANGED <<init, guestclt2, GuestCTL2, IFS, halted, guestSetup>>

\* A guest may also re-enable an interrupt outside its handler.
guest_reenables(v) ==
  /\ \E m \in Irq : irq_vm[m] = v /\ reenable_interrupt(v, irq_guest(m))
  /\ UNCHANGED ripl

LowestOf(S) == CHOOSE b \in S : \A c \in S : b <= c

\* The masked IRQs of v, in execution, that only b in its handler could unmask.
LastChance(v, b) ==
  {m \in Irq : /\ irq_vm[m] = v /\ irq_guest(m) = b /\ ~IEC[m]
               /\ b \notin guestclt2[v] \cup GuestCTL2}

\* _irq_handler dispatches the lowest remaining bit if it has a handler; that
\* of a redirected interrupt ends with the reenable hypercall.
irq_handler(v) ==
  /\ GuestRuns(v)
  /\ ripl[v] # {}
  /\ ripl' = [ripl EXCEPT ![v] = @ \ {LowestOf(@)}]
  /\ \/ /\ LowestOf(ripl[v]) \in interrupt_handlers[v]
        /\ reenable_interrupt(v, LowestOf(ripl[v]))
     \/ /\ LowestOf(ripl[v]) \notin interrupt_handlers[v]
        /\ dropped' = dropped \cup LastChance(v, LowestOf(ripl[v]))
        /\ UNCHANGED schedVars
        /\ UNCHANGED vcpuVars
        /\ UNCHANGED <<IFS, IEC, halted, guestSetup>>

\* intervm_send_msg's notification: the target's vcpu_t gets the interrupt,
\* even when the target is the sender; a target not yet up gets none.
intervm_notify(v) ==
  /\ GuestRuns(v) /\ v \in Notifiers
  /\ \E w \in VM :
       guestclt2' = IF init[w] THEN guestclt2
                    ELSE [guestclt2 EXCEPT ![w] = @ \cup Shifted(GUEST_INTERVM_INT)]
  /\ AdvancePC
  /\ UNCHANGED schedVars
  /\ UNCHANGED <<init, GuestCTL2, IFS, IEC, halted, ripl, guestSetup, dropped>>

\* A guest faults: general_exception_handler reaches CRITICAL, which waits
\* for a reset inside the handler.
guest_faults ==
  /\ ~halted /\ vcpu_executing # 0
  /\ halted' = TRUE
  /\ UNCHANGED schedVars
  /\ UNCHANGED vcpuVars
  /\ UNCHANGED <<IFS, IEC, ripl, guestSetup, dropped>>

\* SW1: SoftReset, from its interrupt handler or from wait_for_reset.
SoftReset ==
  /\ vcpu_executing_nd' = NULL /\ next_vcpu' = NULL
  /\ last_scheduled' = NULL /\ tick_count' = 0
  /\ init' = [v \in VM |-> TRUE]
  /\ cp0_registers' = [v \in VM |-> [r \in Reg |-> 0]]
  /\ guestclt2' = [v \in VM |-> {}]
  /\ guest_cp0' = [r \in Reg |-> 0]
  /\ GuestCTL2' = {}
  /\ IFS' = [m \in Irq |-> FALSE]
  /\ IEC' = [m \in Irq |-> TRUE]
  /\ halted' = FALSE
  /\ ripl' = [v \in VM |-> {}]
  /\ guest_ie' = [v \in VM |-> FALSE]
  /\ interrupt_handlers' = [v \in VM |-> {}]
  /\ dropped' = {}

guest_step(v) ==
  \/ init_proc(v) \/ interrupt_register(v)
  \/ guest_writes(v) \/ guest_takes_interrupt(v) \/ guest_reenables(v)
  \/ irq_handler(v) \/ intervm_notify(v)

VINext ==
  \/ timer_interrupt_handler \/ fast_interrupt
  \/ device_interrupt \/ interrupt_injection \/ interrupt_injection_faults
  \/ \E v \in VM : guest_step(v)
  \/ guest_faults \/ SoftReset

\* What a guest with interrupts to take does as soon as it executes.
guest_proceeds(v) == init_proc(v) \/ guest_takes_interrupt(v) \/ irq_handler(v)

\* The timer is re-armed by its own handler; an enabled asserted IRQ is
\* taken; a guest gets whole ticks again and again, so its init_proc, a pending
\* interrupt and the rest of its handler eventually run (strong fairness,
\* because preemption disables them for a while).  Nothing makes it register.
VIFairness ==
  /\ WF_viVars(timer_interrupt_handler)
  /\ WF_viVars(interrupt_injection)
  /\ \A v \in VM : SF_viVars(guest_proceeds(v))

VISpec == VIInit /\ [][VINext]_viVars /\ VIFairness

-----------------------------------------------------------------------------
\* The virtual interrupts in use.
Bit == {GUEST_TIMER_INT, GUEST_INTERVM_INT} \cup {irq_guest(m) : m \in Irq}

VITypeOK ==
  /\ SchedTypeOK
  /\ init \in [VM -> BOOLEAN]
  /\ cp0_registers \in [VM -> [Reg -> Val]]
  /\ guest_cp0 \in [Reg -> Val]
  /\ guestclt2 \in [VM -> SUBSET Gripl]
  /\ GuestCTL2 \in SUBSET Gripl
  /\ IFS \in [Irq -> BOOLEAN] /\ IEC \in [Irq -> BOOLEAN]
  /\ halted \in BOOLEAN
  /\ ripl \in [VM -> SUBSET Gripl]
  /\ guest_ie \in [VM -> BOOLEAN] /\ interrupt_handlers \in [VM -> SUBSET Nat]
  /\ dropped \subseteq Irq

\* How often b is pending for v: in its vcpu_t, and in the hardware while v
\* is in execution.
Pending(v, b) ==
  (IF b \in guestclt2[v] THEN 1 ELSE 0)
    + (IF vcpu_executing = v /\ b \in GuestCTL2 THEN 1 ELSE 0)

\* The machine of v: its saved registers, or the hardware while it executes.
MachineRegs(v) ==
  [r \in RestoredReg |-> IF vcpu_executing = v THEN guest_cp0[r]
                                               ELSE cp0_registers[v][r]]

Machines == INSTANCE GuestMachines WITH
  Soft <- {GUEST_TIMER_INT, GUEST_INTERVM_INT},
  Reg <- RestoredReg,
  Route <- [m \in Irq |-> <<irq_vm[m], irq_guest(m)>>],
  running <- vcpu_executing,
  regs <- [v \in VM |-> MachineRegs(v)],
  pend <- [v \in VM |-> [b \in Bit |-> Pending(v, b)]],
  line <- IFS,
  alive <- ~halted

\* Context switching is invisible: the code implements one private machine
\* per VM.  No switch loses, duplicates or misroutes a virtual interrupt or
\* shows a VM another VM's registers.
ImplementsMachines == Machines!MachineSpec

\* A redirected IRQ that is masked is on its way to its guest: in the vcpu_t,
\* in the hardware of the executing VCPU, or in the handler that will
\* re-enable it.  The one exception: _irq_handler took its interrupt before
\* the guest registered a handler, and it has not been injected again since;
\* such an IRQ stays masked until some other IRQ lets the injection serve it.
MaskedIsInFlight ==
  \A m \in Irq :
    (~IEC[m] /\ ~halted) =>
      \/ Pending(irq_vm[m], irq_guest(m)) > 0 \/ irq_guest(m) \in ripl[irq_vm[m]]
      \/ m \in dropped

\* A masked IRQ is eventually unmasked, whatever the other VMs do, unless its
\* guest has no handler for it, or took it before it had one.
MaskedIsReenabled ==
  \A m \in Irq :
    (~IEC[m] /\ ~halted)
      ~> \/ IEC[m] \/ halted \/ m \in dropped
         \/ irq_guest(m) \notin interrupt_handlers[irq_vm[m]]

\* Interrupts of an executing VCPU go straight to the hardware: only its
\* own inter-VM sends wait in its vcpu_t for the next switch.
ExecutingIsFlushed ==
  vcpu_executing # 0 => guestclt2[vcpu_executing] \subseteq {GUEST_INTERVM_INT}
=============================================================================
