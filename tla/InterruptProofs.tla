-------------------------- MODULE InterruptProofs ---------------------------
(***************************************************************************)
(* Proofs about VirtualInterrupts for any number of VMs, redirected IRQs,  *)
(* fast interrupts and guest registers: the registers and pending          *)
(* interrupts of every VM keep their types through every switch, only      *)
(* inter-VM messages wait in the vcpu_t of the VM that executes, and an    *)
(* IRQ that was masked when it was injected is never forgotten, unless its *)
(* guest took it before it had registered a handler.                       *)
(***************************************************************************)
EXTENDS VirtualInterrupts, SchedulerProofs, FiniteSetTheorems

\* What holds of the VCPUs besides the types. A VCPU in execution has been
\* restored, so contextSave will save it; and only its inter-VM interrupt may
\* wait in its vcpu_t.
VIInv ==
  /\ VITypeOK
  /\ vcpu_executing # 0 => ~ init[vcpu_executing]
  /\ ExecutingIsFlushed

-----------------------------------------------------------------------------
\* The id of a redirected interrupt is at least the first of those positions.
LEMMA IrqGuestType ==
  ASSUME NEW m \in Irq
  PROVE  irq_guest(m) \in Nat /\ irq_guest(m) >= GUEST_USER_DEFINED_INT_1
<1> DEFINE before == {k \in 1..(m - 1) : irq_vm[k] = irq_vm[m]}
<1>1. m \in Nat /\ IsFiniteSet(1..(m - 1))
  BY FS_Interval, RedirectAssumption DEF Irq
<1>2. IsFiniteSet(before)
  BY <1>1, FS_Subset
<1>3. Cardinality(before) \in Nat
  BY <1>2, FS_CardinalityType
<1>4. irq_guest(m) = 4 + Cardinality(before)
  BY DEF irq_guest, GUEST_USER_DEFINED_INT_1
<1> HIDE DEF before
<1>5. QED
  BY <1>3, <1>4 DEF GUEST_USER_DEFINED_INT_1

\* The VCPU in execution is one of the VMs, or there is none.
LEMMA ExecutingType ==
  ASSUME SchedTypeOK
  PROVE  /\ vcpu_executing \in VM \cup {0}
         /\ vcpu_executing = 0 <=> vcpu_executing_nd = NULL
<1>1. vcpu_executing_nd \in {NULL} \cup VmNodes \cup ReadyNodes
  BY FastTargetNode DEF SchedTypeOK
<1>2. 0 \notin VM
  BY DEF VM
<1>3. CASE vcpu_executing_nd = NULL
  BY <1>3 DEF vcpu_executing, Elem, NULL
<1>4. CASE vcpu_executing_nd \in VmNodes
  <2>1. PICK v \in VM : vcpu_executing_nd = VmNode(v)
    BY <1>4 DEF VmNodes
  <2>2. QED
    BY <1>2, <2>1 DEF vcpu_executing, Elem, NULL, VmNode
<1>5. CASE vcpu_executing_nd \in ReadyNodes
  <2>1. PICK v \in VM : vcpu_executing_nd = ReadyNode(v)
    BY <1>5 DEF ReadyNodes
  <2>2. QED
    BY <1>2, <2>1 DEF vcpu_executing, Elem, NULL, ReadyNode
<1>6. QED
  BY <1>1, <1>3, <1>4, <1>5

\* A tick that switches leaves some VM in execution; another changes nothing.
LEMMA TickExecutes ==
  ASSUME SchedTypeOK, run_scheduler
  PROVE  /\ SchedTypeOK'
         /\ Switches => Elem(vcpu_executing_nd') \in VM
         /\ ~ Switches => vcpu_executing_nd' = vcpu_executing_nd
<1>1. SchedTypeOK'
  BY SchedNextType DEF SchedNext
<1>2. ASSUME Switches
      PROVE  vcpu_executing_nd' \in ReadyNodes \cup VmNodes
  <2>1. CASE FastSwitch
    BY <2>1, FastTargetNode DEF FastSwitch, SchedTypeOK
  <2>2. CASE QuantumSwitch
    BY <2>2, RoundRobinType DEF QuantumSwitch
  <2>3. ~ PlainTick
    BY <1>2 DEF Switches, PlainTick
  <2>4. QED
    BY <2>1, <2>2, <2>3 DEF run_scheduler
<1>3. \A nd \in ReadyNodes \cup VmNodes : Elem(nd) \in VM
  BY DEF ReadyNodes, VmNodes, ReadyNode, VmNode, Elem
<1>4. ASSUME ~ Switches
      PROVE  vcpu_executing_nd' = vcpu_executing_nd
  BY <1>4 DEF Switches, run_scheduler, FastSwitch, QuantumSwitch, PlainTick
<1>5. QED
  BY <1>1, <1>2, <1>3, <1>4

\* Shifting keeps positions in GRIPL.
LEMMA ShiftedType == \A b : Shifted(b) \in SUBSET Gripl
  BY DEF Shifted

\* So what is injected for a VM is in GRIPL.
LEMMA InjectedType == \A v : Injected(v) \in SUBSET Gripl
  BY ShiftedType DEF Injected

\* contextSave and contextRestore keep the types.
LEMMA SwitchType ==
  ASSUME VITypeOK, NEW next \in VM, NEW extra \in SUBSET Gripl,
         contextSwitch(next, extra)
  PROVE  /\ init' \in [VM -> BOOLEAN] /\ ~ init'[next]
         /\ cp0_registers' \in [VM -> [Reg -> Val]]
         /\ guest_cp0' \in [Reg -> Val]
         /\ guestclt2' \in [VM -> SUBSET Gripl] /\ guestclt2'[next] = {}
         /\ GuestCTL2' \in SUBSET Gripl
<1>1. /\ SavedCp0 \in [VM -> [Reg -> Val]]
      /\ SavedCtl2 \in [VM -> SUBSET Gripl]
  BY DEF SavedCp0, SavedCtl2, VITypeOK
<1>2. /\ cp0_registers' = SavedCp0
      /\ init' = [init EXCEPT ![next] = FALSE]
      /\ guest_cp0' = [r \in Reg |-> IF r \in RestoredReg THEN SavedCp0[next][r]
                                                          ELSE guest_cp0[r]]
      /\ GuestCTL2' = SavedCtl2[next] \cup extra
      /\ guestclt2' = [SavedCtl2 EXCEPT ![next] = {}]
  BY DEF contextSwitch
<1>3. init' \in [VM -> BOOLEAN] /\ ~ init'[next]
  BY <1>2 DEF VITypeOK
<1>4. guest_cp0' \in [Reg -> Val]
  BY <1>1, <1>2 DEF VITypeOK
<1>5. QED
  BY <1>1, <1>2, <1>3, <1>4

\* So does the end of a hypercall.
LEMMA AdvanceType ==
  ASSUME VITypeOK, vcpu_executing \in VM, AdvancePC
  PROVE  cp0_registers' \in [VM -> [Reg -> Val]] /\ guest_cp0' \in [Reg -> Val]
<1> DEFINE pc == (guest_cp0["EPC"] + 1) % RegMod
<1>1. pc \in Val
  <2>1. guest_cp0["EPC"] + 1 \in Nat
    BY VCpuAssumption DEF VITypeOK, Val
  <2>2. QED
    BY <2>1, VCpuAssumption DEF Val
<1>2. /\ guest_cp0' = [guest_cp0 EXCEPT !["EPC"] = pc]
      /\ cp0_registers' = [cp0_registers EXCEPT ![vcpu_executing]["EPC"] = pc]
  BY DEF AdvancePC
<1> HIDE DEF pc
<1>3. QED
  BY <1>1, <1>2 DEF VITypeOK
-----------------------------------------------------------------------------
\* At start-up no VCPU executes and nothing is pending.
LEMMA VIInitInv == VIInit => VIInv
<1> SUFFICES ASSUME VIInit PROVE VIInv
  OBVIOUS
<1>1. SchedTypeOK /\ vcpu_executing = 0
  BY SchedInitType DEF VIInit, SchedInit, vcpu_executing, Elem, NULL
<1>2. 0 \in Val
  BY VCpuAssumption DEF Val
<1>3. VITypeOK
  BY <1>1, <1>2 DEF VIInit, VCpuInit, VITypeOK
<1>4. QED
  BY <1>1, <1>3 DEF VIInv, ExecutingIsFlushed

\* A timer interrupt, with or without a switch.
LEMMA TimerInv == VIInv /\ timer_interrupt_handler => VIInv'
<1> SUFFICES ASSUME VIInv, timer_interrupt_handler PROVE VIInv'
  OBVIOUS
<1>1. VITypeOK /\ SchedTypeOK /\ run_scheduler
  BY DEF VIInv, VITypeOK, timer_interrupt_handler
<1>2. SchedTypeOK'
  BY <1>1, TickExecutes
<1>3. UNCHANGED <<IFS, IEC, halted, ripl, guest_ie, interrupt_handlers, dropped>>
  BY DEF timer_interrupt_handler, guestSetup
<1>4. PICK due \in TimerDue :
       \/ Switches /\ contextSwitch(Elem(vcpu_executing_nd'), due)
       \/ /\ ~ Switches
          /\ GuestCTL2' = GuestCTL2 \cup due
          /\ UNCHANGED <<init, cp0_registers, guestclt2, guest_cp0>>
  BY DEF timer_interrupt_handler
<1>5. due \in SUBSET Gripl
  BY ShiftedType DEF TimerDue
<1>6. CASE Switches
  <2> DEFINE next == Elem(vcpu_executing_nd')
  <2>1. next \in VM /\ vcpu_executing' = next
    BY <1>1, <1>6, TickExecutes DEF vcpu_executing
  <2>2. contextSwitch(next, due)
    BY <1>4, <1>6
  <2> HIDE DEF next
  <2>3. /\ init' \in [VM -> BOOLEAN] /\ ~ init'[next]
        /\ cp0_registers' \in [VM -> [Reg -> Val]]
        /\ guest_cp0' \in [Reg -> Val]
        /\ guestclt2' \in [VM -> SUBSET Gripl] /\ guestclt2'[next] = {}
        /\ GuestCTL2' \in SUBSET Gripl
    BY <1>1, <1>5, <2>1, <2>2, SwitchType
  <2>4. VITypeOK'
    BY <1>1, <1>2, <1>3, <2>3 DEF VITypeOK
  <2>5. QED
    BY <2>1, <2>3, <2>4 DEF VIInv, ExecutingIsFlushed
<1>7. CASE ~ Switches
  <2>1. vcpu_executing' = vcpu_executing
    BY <1>1, <1>7, TickExecutes DEF vcpu_executing
  <2>2. /\ GuestCTL2' = GuestCTL2 \cup due
        /\ UNCHANGED <<init, cp0_registers, guestclt2, guest_cp0>>
    BY <1>4, <1>7
  <2>3. VITypeOK'
    BY <1>1, <1>2, <1>3, <1>5, <2>2 DEF VITypeOK
  <2>4. QED
    BY <2>1, <2>2, <2>3 DEF VIInv, ExecutingIsFlushed
<1>8. QED
  BY <1>6, <1>7

\* The other interrupts of the root: they change no VCPU in execution.
LEMMA RootInterruptInv ==
  ASSUME VIInv,
         \/ fast_interrupt \/ device_interrupt
         \/ interrupt_injection \/ interrupt_injection_faults
  PROVE  VIInv'
<1>1. VITypeOK /\ SchedTypeOK
  BY DEF VIInv, VITypeOK
<1>2. CASE fast_interrupt
  <2>1. SchedTypeOK' /\ vcpu_executing' = vcpu_executing
    BY <1>1, <1>2, SchedNextType
       DEF fast_interrupt, SchedNext, ethernet_interrupt_handler,
           fast_interrupt_delivery, vcpu_executing
  <2>2. QED
    BY <1>1, <1>2, <2>1 DEF fast_interrupt, vcpuVars, guestSetup, VIInv, VITypeOK,
                            ExecutingIsFlushed
<1>3. CASE device_interrupt
  BY <1>1, <1>3 DEF device_interrupt, vcpuVars, schedVars, guestSetup, VIInv, VITypeOK,
                    ExecutingIsFlushed, SchedTypeOK, vcpu_executing
<1>4. CASE interrupt_injection
  <2>1. /\ vcpu_executing # 0
        /\ IFS' = [m \in Irq |-> FALSE]
        /\ IEC' = [m \in Irq |-> IEC[m] /\ ~IFS[m]]
        /\ GuestCTL2' = GuestCTL2 \cup Injected(vcpu_executing)
        /\ guestclt2' = [v \in VM |-> IF v = vcpu_executing THEN guestclt2[v]
                                      ELSE guestclt2[v] \cup Injected(v)]
        /\ UNCHANGED schedVars
        /\ dropped' \subseteq dropped
        /\ UNCHANGED <<init, cp0_registers, guest_cp0, halted, ripl, guest_ie,
                       interrupt_handlers>>
    BY <1>4 DEF interrupt_injection, guestSetup
  <2>2. SchedTypeOK' /\ vcpu_executing' = vcpu_executing /\ vcpu_executing \in VM
    BY <1>1, <2>1, ExecutingType DEF schedVars, SchedTypeOK, vcpu_executing
  <2>3. GuestCTL2' \in SUBSET Gripl /\ guestclt2' \in [VM -> SUBSET Gripl]
    BY <1>1, <2>1, InjectedType DEF VITypeOK
  <2>4. IEC' \in [Irq -> BOOLEAN] /\ IFS' \in [Irq -> BOOLEAN]
    BY <2>1
  <2>5. guestclt2'[vcpu_executing] = guestclt2[vcpu_executing]
    BY <2>1, <2>2
  <2>6. VITypeOK'
    BY <1>1, <2>1, <2>2, <2>3, <2>4 DEF VITypeOK
  <2>7. QED
    BY <2>1, <2>2, <2>5, <2>6 DEF VIInv, ExecutingIsFlushed
<1>5. CASE interrupt_injection_faults
  BY <1>1, <1>5 DEF interrupt_injection_faults, vcpuVars, schedVars, guestSetup, VIInv, VITypeOK,
                    ExecutingIsFlushed, SchedTypeOK, vcpu_executing
<1>6. QED
  BY <1>2, <1>3, <1>4, <1>5

\* The guest in execution starts up, registers a handler, writes a register,
\* takes its interrupts, re-enables an IRQ, dispatches one, or sends a message.
LEMMA GuestInv ==
  ASSUME VIInv, NEW v \in VM, guest_step(v)
  PROVE  VIInv'
<1>1. VITypeOK /\ SchedTypeOK
  BY DEF VIInv, VITypeOK
<1>2. vcpu_executing = v
  BY DEF guest_step, init_proc, interrupt_register, guest_writes,
         guest_takes_interrupt, guest_reenables, reenable_interrupt, irq_handler,
         intervm_notify, GuestRuns
<1>3. UNCHANGED schedVars
  BY DEF guest_step, init_proc, interrupt_register, guest_writes,
         guest_takes_interrupt, guest_reenables, reenable_interrupt, irq_handler,
         intervm_notify
<1>4. SchedTypeOK' /\ vcpu_executing' = vcpu_executing
  BY <1>1, <1>3 DEF schedVars, SchedTypeOK, vcpu_executing
<1>5. CASE guest_writes(v)
  BY <1>1, <1>4, <1>5 DEF guest_writes, guestSetup, VIInv, VITypeOK, ExecutingIsFlushed
<1>6. CASE guest_takes_interrupt(v)
  <2>1. ripl' \in [VM -> SUBSET Gripl] /\ GuestCTL2' \in SUBSET Gripl
    BY <1>1, <1>6 DEF guest_takes_interrupt, VITypeOK
  <2>2. QED
    BY <1>1, <1>4, <1>6, <2>1 DEF guest_takes_interrupt, guestSetup, VIInv, VITypeOK,
                                  ExecutingIsFlushed
<1>7. ASSUME NEW b, reenable_interrupt(v, b)
      PROVE  /\ cp0_registers' \in [VM -> [Reg -> Val]] /\ guest_cp0' \in [Reg -> Val]
             /\ IEC' \in [Irq -> BOOLEAN]
             /\ dropped' \subseteq dropped
             /\ UNCHANGED <<init, guestclt2, GuestCTL2, IFS, halted, guest_ie,
                            interrupt_handlers>>
  <2>1. AdvancePC
    BY <1>7 DEF reenable_interrupt
  <2>2. cp0_registers' \in [VM -> [Reg -> Val]] /\ guest_cp0' \in [Reg -> Val]
    BY <1>1, <1>2, <2>1, AdvanceType
  <2>3. /\ IEC' = [m \in Irq |-> IEC[m] \/ (irq_vm[m] = v /\ irq_guest(m) = b)]
        /\ dropped' \subseteq dropped
        /\ UNCHANGED <<init, guestclt2, GuestCTL2, IFS, halted, guest_ie, interrupt_handlers>>
    BY <1>7 DEF reenable_interrupt, guestSetup
  <2>4. IEC' \in [Irq -> BOOLEAN]
    BY <2>3
  <2>5. QED
    BY <2>2, <2>3, <2>4
<1>8. CASE guest_reenables(v)
  <2>1. PICK m \in Irq : reenable_interrupt(v, irq_guest(m))
    BY <1>8 DEF guest_reenables
  <2>2. UNCHANGED ripl
    BY <1>8 DEF guest_reenables
  <2>3. QED
    BY <1>1, <1>4, <1>7, <2>1, <2>2 DEF VIInv, VITypeOK, ExecutingIsFlushed
<1>9. CASE irq_handler(v)
  <2>1. ripl' = [ripl EXCEPT ![v] = @ \ {LowestOf(@)}]
    BY <1>9 DEF irq_handler
  <2>2. ripl' \in [VM -> SUBSET Gripl]
    BY <1>1, <2>1 DEF VITypeOK
  <2>3. CASE reenable_interrupt(v, LowestOf(ripl[v]))
    BY <1>1, <1>4, <1>7, <2>2, <2>3 DEF VIInv, VITypeOK, ExecutingIsFlushed
  <2>4. CASE /\ UNCHANGED vcpuVars
             /\ UNCHANGED <<IFS, IEC, halted, guest_ie, interrupt_handlers>>
             /\ dropped' \subseteq dropped \cup Irq
    BY <1>1, <1>4, <2>2, <2>4 DEF vcpuVars, VIInv, VITypeOK, ExecutingIsFlushed
  <2>5. \A b : LastChance(v, b) \subseteq Irq
    BY DEF LastChance
  <2>6. QED
    BY <1>9, <2>3, <2>4, <2>5 DEF irq_handler, guestSetup
<1>10. CASE intervm_notify(v)
  <2>1. PICK w \in VM :
          guestclt2' = IF init[w] THEN guestclt2
                       ELSE [guestclt2 EXCEPT ![w] = @ \cup Shifted(GUEST_INTERVM_INT)]
    BY <1>10 DEF intervm_notify
  <2>2. Shifted(GUEST_INTERVM_INT) = {GUEST_INTERVM_INT} /\ GUEST_INTERVM_INT \in Gripl
    BY DEF Shifted, GUEST_INTERVM_INT, Gripl
  <2>3. guestclt2' \in [VM -> SUBSET Gripl]
    BY <1>1, <2>1, <2>2 DEF VITypeOK
  <2>4. guestclt2'[v] \subseteq guestclt2[v] \cup {GUEST_INTERVM_INT}
    BY <1>1, <2>1, <2>2 DEF VITypeOK
  <2>5. cp0_registers' \in [VM -> [Reg -> Val]] /\ guest_cp0' \in [Reg -> Val]
    BY <1>1, <1>2, <1>10, AdvanceType DEF intervm_notify
  <2>6. UNCHANGED <<init, GuestCTL2, IFS, IEC, halted, ripl, guest_ie, interrupt_handlers,
                    dropped>>
    BY <1>10 DEF intervm_notify, guestSetup
  <2>7. VITypeOK'
    BY <1>1, <1>4, <2>3, <2>5, <2>6 DEF VITypeOK
  <2>8. QED
    BY <1>2, <1>4, <2>4, <2>6, <2>7 DEF VIInv, ExecutingIsFlushed
<1>11. CASE init_proc(v)
  <2>1. /\ guest_ie' \in [VM -> BOOLEAN] /\ interrupt_handlers' \in [VM -> SUBSET Nat]
        /\ UNCHANGED vcpuVars /\ UNCHANGED <<IFS, IEC, halted, ripl, dropped>>
    BY <1>1, <1>11 DEF init_proc, VITypeOK
  <2>2. QED
    BY <1>1, <1>4, <2>1 DEF vcpuVars, VIInv, VITypeOK, ExecutingIsFlushed
<1>12. CASE interrupt_register(v)
  <2>1. PICK m \in Irq :
          interrupt_handlers' = [interrupt_handlers EXCEPT ![v] = @ \cup {irq_guest(m)}]
    BY <1>12 DEF interrupt_register
  <2>2. irq_guest(m) \in Nat
    BY IrqGuestType
  <2>3. interrupt_handlers' \in [VM -> SUBSET Nat]
    BY <1>1, <2>1, <2>2 DEF VITypeOK
  <2>4. UNCHANGED vcpuVars /\ UNCHANGED <<IFS, IEC, halted, ripl, guest_ie, dropped>>
    BY <1>12 DEF interrupt_register
  <2>5. QED
    BY <1>1, <1>4, <2>3, <2>4 DEF vcpuVars, VIInv, VITypeOK, ExecutingIsFlushed
<1>13. QED
  BY <1>5, <1>6, <1>8, <1>9, <1>10, <1>11, <1>12 DEF guest_step

\* A guest that faults stops the hypervisor where it is; a reset starts it anew.
LEMMA StopInv ==
  ASSUME VIInv, guest_faults \/ SoftReset
  PROVE  VIInv'
<1>1. CASE guest_faults
  BY <1>1 DEF guest_faults, vcpuVars, schedVars, guestSetup, VIInv, VITypeOK,
              ExecutingIsFlushed, SchedTypeOK, vcpu_executing
<1>2. CASE SoftReset
  <2>1. SchedTypeOK' /\ vcpu_executing' = 0
    BY <1>2, SchedulerAssumption DEF SoftReset, SchedTypeOK, vcpu_executing, Elem, NULL
  <2>2. 0 \in Val
    BY VCpuAssumption DEF Val
  <2>3. VITypeOK'
    BY <1>2, <2>1, <2>2 DEF SoftReset, VITypeOK
  <2>4. QED
    BY <2>1, <2>3 DEF VIInv, ExecutingIsFlushed
<1>3. QED
  BY <1>1, <1>2

\* Every step keeps the invariant.
LEMMA VINextInv == VIInv /\ [VINext]_viVars => VIInv'
<1> SUFFICES ASSUME VIInv, [VINext]_viVars PROVE VIInv'
  OBVIOUS
<1>1. CASE UNCHANGED viVars
  BY <1>1 DEF viVars, VIInv, VITypeOK, ExecutingIsFlushed, SchedTypeOK, vcpu_executing
<1>2. QED
  BY <1>1, TimerInv, RootInterruptInv, GuestInv, StopInv DEF VINext

\* Saved registers, pending interrupts and the redirection state keep their types
\* through every switch, injection, hypercall and reset (vcpu.c,
\* interrupt_redirect.c).
THEOREM VITypeCorrect == VISpec => []VITypeOK
<1>1. VIInv => VITypeOK
  BY DEF VIInv
<1>2. QED
  BY <1>1, VIInitInv, VINextInv, PTL DEF VISpec

\* What is posted for the VCPU in execution reaches the hardware at once; only
\* its inter-VM interrupt waits for the next switch (interrupt_injection,
\* intervm_send_msg).
THEOREM ExecutingAlwaysFlushed == VISpec => []ExecutingIsFlushed
<1>1. VIInv => ExecutingIsFlushed
  BY DEF VIInv
<1>2. QED
  BY <1>1, VIInitInv, VINextInv, PTL DEF VISpec
-----------------------------------------------------------------------------
\* A virtual interrupt is pending in the vcpu_t or in the hardware.
LEMMA PendingMeans ==
  ASSUME NEW v, NEW b
  PROVE  /\ Pending(v, b) \in 0 .. 2
         /\ Pending(v, b) > 0 <=>
              b \in guestclt2[v] \/ (vcpu_executing = v /\ b \in GuestCTL2)
BY DEF Pending

\* MaskedIsInFlight without numbers.
InFlight(m) ==
  \/ irq_guest(m) \in guestclt2[irq_vm[m]]
  \/ vcpu_executing = irq_vm[m] /\ irq_guest(m) \in GuestCTL2
  \/ irq_guest(m) \in ripl[irq_vm[m]]
  \/ m \in dropped

\* The inductive invariant of MaskedIsInFlight.
FlightInv ==
  /\ VIInv
  /\ \A m \in Irq : ~ IEC[m] /\ ~ halted => InFlight(m)

\* It says the same as the property that the runs check.
LEMMA FlightMeans == FlightInv <=> VIInv /\ MaskedIsInFlight
<1>1. ASSUME NEW m \in Irq
      PROVE  InFlight(m) <=> Pending(irq_vm[m], irq_guest(m)) > 0
                             \/ irq_guest(m) \in ripl[irq_vm[m]] \/ m \in dropped
  BY PendingMeans DEF InFlight
<1>2. QED
  BY <1>1 DEF FlightInv, MaskedIsInFlight

\* A switch carries every pending interrupt with its VCPU.
LEMMA SwitchCarries ==
  ASSUME VIInv, NEW next \in VM, NEW extra, contextSwitch(next, extra),
         vcpu_executing' = next, vcpu_executing \in VM \cup {0},
         NEW v \in VM, NEW b,
         b \in guestclt2[v] \/ (vcpu_executing = v /\ b \in GuestCTL2)
  PROVE  b \in guestclt2'[v] \/ (vcpu_executing' = v /\ b \in GuestCTL2')
<1>1. guestclt2 \in [VM -> SUBSET Gripl] /\ 0 \notin VM
  BY DEF VIInv, VITypeOK, VM
<1>2. b \in SavedCtl2[v]
  BY <1>1 DEF SavedCtl2, MustSave, VIInv
<1>3. SavedCtl2 \in [VM -> SUBSET Gripl]
  BY DEF SavedCtl2, VIInv, VITypeOK
<1>4. /\ GuestCTL2' = SavedCtl2[next] \cup extra
      /\ guestclt2' = [SavedCtl2 EXCEPT ![next] = {}]
  BY DEF contextSwitch
<1>5. QED
  BY <1>2, <1>3, <1>4

\* A tick leaves what is pending where its VM finds it.
LEMMA TimerFlight == FlightInv /\ timer_interrupt_handler => FlightInv'
<1> SUFFICES ASSUME FlightInv, timer_interrupt_handler PROVE FlightInv'
  OBVIOUS
<1>1. VIInv /\ VIInv' /\ SchedTypeOK /\ run_scheduler
  BY TimerInv DEF FlightInv, VIInv, VITypeOK, timer_interrupt_handler
<1>2. UNCHANGED <<IFS, IEC, halted, ripl, dropped>>
  BY DEF timer_interrupt_handler
<1>3. PICK due \in TimerDue :
       \/ Switches /\ contextSwitch(Elem(vcpu_executing_nd'), due)
       \/ /\ ~ Switches
          /\ GuestCTL2' = GuestCTL2 \cup due
          /\ UNCHANGED <<init, cp0_registers, guestclt2, guest_cp0>>
  BY DEF timer_interrupt_handler
<1>4. \A m \in Irq : irq_vm[m] \in VM
  BY RedirectAssumption
<1>5. vcpu_executing \in VM \cup {0}
  BY <1>1, ExecutingType
<1>6. ASSUME NEW m \in Irq, InFlight(m)
      PROVE  InFlight(m)'
  <2>1. CASE Switches
    <3>1. Elem(vcpu_executing_nd') \in VM /\ vcpu_executing' = Elem(vcpu_executing_nd')
      BY <1>1, <2>1, TickExecutes DEF vcpu_executing
    <3>2. contextSwitch(vcpu_executing', due)
      BY <1>3, <2>1, <3>1
    <3>3. QED
      BY <1>1, <1>2, <1>4, <1>5, <1>6, <3>1, <3>2, SwitchCarries DEF InFlight
  <2>2. CASE ~ Switches
    <3>1. vcpu_executing' = vcpu_executing
      BY <1>1, <2>2, TickExecutes DEF vcpu_executing
    <3>2. QED
      BY <1>2, <1>3, <1>6, <2>2, <3>1 DEF InFlight
  <2>3. QED
    BY <2>1, <2>2
<1>7. QED
  BY <1>1, <1>2, <1>6 DEF FlightInv

\* interrupt_injection posts every interrupt it masks.
LEMMA InjectionFlight ==
  ASSUME \A m \in Irq : irq_guest(m) \in Gripl, FlightInv, interrupt_injection
  PROVE  FlightInv'
<1>1. VIInv /\ VIInv' /\ SchedTypeOK
  BY RootInterruptInv DEF FlightInv, VIInv, VITypeOK
<1>2. /\ IEC' = [m \in Irq |-> IEC[m] /\ ~IFS[m]]
      /\ GuestCTL2' = GuestCTL2 \cup Injected(vcpu_executing)
      /\ guestclt2' = [v \in VM |-> IF v = vcpu_executing THEN guestclt2[v]
                                    ELSE guestclt2[v] \cup Injected(v)]
      /\ dropped' = {m \in dropped : ~IFS[m]}
      /\ UNCHANGED <<halted, ripl>>
      /\ vcpu_executing' = vcpu_executing
  BY DEF interrupt_injection, schedVars, vcpu_executing
<1>3. ASSUME NEW m \in Irq, ~ IEC'[m], ~ halted'
      PROVE  InFlight(m)'
  <2>1. irq_vm[m] \in VM
    BY RedirectAssumption
  <2>2. CASE IFS[m]
    <3>1. irq_guest(m) \in Shifted(irq_guest(m))
      BY DEF Shifted
    <3>2. irq_guest(m) \in Injected(irq_vm[m])
      BY <2>2, <3>1 DEF Injected
    <3>3. QED
      BY <1>2, <2>1, <3>2 DEF InFlight
  <2>3. CASE ~ IFS[m]
    <3>1. InFlight(m)
      BY <1>2, <1>3, <2>3 DEF FlightInv
    <3>2. QED
      BY <1>2, <2>1, <2>3, <3>1 DEF InFlight
  <2>4. QED
    BY <2>2, <2>3
<1>4. QED
  BY <1>1, <1>3 DEF FlightInv

\* The steps of the guest in execution: an interrupt it takes moves to its
\* handler, and the handler of a redirected one re-enables the IRQ.
LEMMA GuestFlight ==
  ASSUME FlightInv, NEW v \in VM, guest_step(v)
  PROVE  FlightInv'
<1>1. VIInv /\ VIInv' /\ VITypeOK
  BY GuestInv DEF FlightInv, VIInv
<1>2. vcpu_executing = v /\ vcpu_executing' = vcpu_executing
  BY DEF guest_step, init_proc, interrupt_register, guest_writes,
         guest_takes_interrupt, guest_reenables, reenable_interrupt, irq_handler,
         intervm_notify, GuestRuns,
         schedVars, vcpu_executing
<1>3. \A m \in Irq : irq_vm[m] \in VM
  BY RedirectAssumption
<1>4. ASSUME NEW b, reenable_interrupt(v, b)
      PROVE  /\ \A m \in Irq : IEC[m] \/ (irq_vm[m] = v /\ irq_guest(m) = b) => IEC'[m]
             /\ dropped' = {m \in dropped : ~IEC'[m]}
             /\ UNCHANGED <<guestclt2, GuestCTL2, halted>>
  BY <1>4 DEF reenable_interrupt
<1>5. CASE guest_writes(v)
  BY <1>1, <1>2, <1>5 DEF guest_writes, FlightInv, InFlight
<1>6. CASE guest_takes_interrupt(v)
  <2>1. /\ ripl[v] = {} /\ ripl' = [ripl EXCEPT ![v] = GuestCTL2]
        /\ UNCHANGED <<guestclt2, IEC, halted, dropped>>
    BY <1>6 DEF guest_takes_interrupt
  <2>2. ASSUME NEW m \in Irq, InFlight(m)
        PROVE  InFlight(m)'
    BY <1>1, <1>2, <1>3, <2>1, <2>2 DEF InFlight, VITypeOK
  <2>3. QED
    BY <1>1, <2>1, <2>2 DEF FlightInv
<1>7. CASE guest_reenables(v)
  <2>1. PICK m \in Irq : reenable_interrupt(v, irq_guest(m))
    BY <1>7 DEF guest_reenables
  <2>2. QED
    BY <1>1, <1>2, <1>4, <1>7, <2>1 DEF guest_reenables, FlightInv, InFlight
<1>8. CASE irq_handler(v)
  <2> DEFINE low == LowestOf(ripl[v])
  <2>1. ripl' = [ripl EXCEPT ![v] = ripl[v] \ {low}]
    BY <1>8 DEF irq_handler
  <2>2. \/ reenable_interrupt(v, low)
        \/ /\ dropped' = dropped \cup LastChance(v, low)
           /\ UNCHANGED vcpuVars /\ UNCHANGED <<IEC, halted>>
    BY <1>8 DEF irq_handler
  <2> HIDE DEF low
  <2>3. ASSUME NEW m \in Irq, ~ IEC'[m], ~ halted'
        PROVE  InFlight(m)'
    <3>1. ~ IEC[m] /\ ~ halted /\ UNCHANGED <<guestclt2, GuestCTL2>>
      BY <1>4, <2>2, <2>3 DEF vcpuVars
    <3>2. InFlight(m)
      BY <3>1 DEF FlightInv
    <3>3. m \in dropped => m \in dropped'
      BY <1>4, <2>2, <2>3
    <3>4. CASE irq_vm[m] # v \/ irq_guest(m) # low
      BY <1>1, <1>2, <1>3, <2>1, <3>1, <3>2, <3>3, <3>4 DEF InFlight, VITypeOK
    <3>5. CASE irq_vm[m] = v /\ irq_guest(m) = low
      <4>1. dropped' = dropped \cup LastChance(v, low)
        BY <1>4, <2>2, <2>3, <3>5
      <4>2. QED
        BY <1>2, <2>3, <3>1, <3>5, <4>1 DEF InFlight, LastChance
    <3>6. QED
      BY <3>4, <3>5
  <2>4. QED
    BY <1>1, <2>3 DEF FlightInv
<1>9. CASE intervm_notify(v)
  <2>1. PICK w \in VM :
          guestclt2' = IF init[w] THEN guestclt2
                       ELSE [guestclt2 EXCEPT ![w] = @ \cup Shifted(GUEST_INTERVM_INT)]
    BY <1>9 DEF intervm_notify
  <2>2. \A u \in VM : guestclt2[u] \subseteq guestclt2'[u]
    BY <1>1, <2>1 DEF VITypeOK
  <2>3. UNCHANGED <<GuestCTL2, IEC, halted, ripl, dropped>>
    BY <1>9 DEF intervm_notify
  <2>4. QED
    BY <1>1, <1>2, <1>3, <2>2, <2>3 DEF FlightInv, InFlight
<1>10. CASE init_proc(v) \/ interrupt_register(v)
  BY <1>1, <1>2, <1>10 DEF init_proc, interrupt_register, vcpuVars, FlightInv, InFlight
<1>11. QED
  BY <1>5, <1>6, <1>7, <1>8, <1>9, <1>10 DEF guest_step

\* An IRQ that interrupt_injection has masked is on its way to the one guest
\* that can unmask it, through every switch, or was taken by a guest that had not
\* yet registered a handler (_irq_handler), as long as no VM is given so many
\* redirections that the last ones are shifted out of GuestCtl2.
THEOREM MaskedAlwaysInFlight ==
  ASSUME \A m \in Irq : irq_guest(m) \in Gripl
  PROVE  VISpec => []MaskedIsInFlight
<1>1. VIInit => FlightInv
  BY VIInitInv DEF VIInit, FlightInv
<1>2. FlightInv /\ [VINext]_viVars => FlightInv'
  <2> SUFFICES ASSUME FlightInv, [VINext]_viVars PROVE FlightInv'
    OBVIOUS
  <2>1. VIInv'
    BY VINextInv DEF FlightInv
  <2>2. CASE fast_interrupt \/ device_interrupt
    BY <2>1, <2>2 DEF fast_interrupt, device_interrupt, ethernet_interrupt_handler,
                      fast_interrupt_delivery, vcpuVars, schedVars, vcpu_executing,
                      FlightInv, InFlight
  <2>3. CASE interrupt_injection_faults \/ guest_faults
    BY <2>1, <2>3 DEF interrupt_injection_faults, guest_faults, FlightInv
  <2>4. CASE SoftReset
    BY <2>1, <2>4 DEF SoftReset, FlightInv
  <2>5. CASE UNCHANGED viVars
    BY <2>1, <2>5 DEF viVars, vcpu_executing, FlightInv, InFlight
  <2>6. QED
    BY <2>2, <2>3, <2>4, <2>5, TimerFlight, InjectionFlight, GuestFlight DEF VINext
<1>3. FlightInv => MaskedIsInFlight
  BY FlightMeans
<1>4. QED
  BY <1>1, <1>2, <1>3, PTL DEF VISpec
-----------------------------------------------------------------------------
(***************************************************************************)
(* The proof that context switching is invisible, for any number of VMs,   *)
(* registers and redirected IRQs: every step of a root handler or of a     *)
(* guest is a step of GuestMachines, where every VM has its own registers  *)
(* and pending interrupts, or changes nothing that a VM sees.              *)
(***************************************************************************)

\* Every redirected IRQ has a position in GuestCtl2.
RoutesFit == \A m \in Irq : irq_guest(m) \in Gripl

\* How the posts of b to v may change in a step of the root.
PendingMoves(v, b) ==
  \/ Pending(v, b)' = Pending(v, b)
  \/ Pending(v, b) = 2 /\ Pending(v, b)' = 1
  \/ /\ \/ b \in {GUEST_TIMER_INT, GUEST_INTERVM_INT}
        \/ \E m \in Irq : irq_vm[m] = v /\ irq_guest(m) = b /\ IFS[m] /\ ~ IFS'[m]
     /\ Pending(v, b)' = Pending(v, b) + 1

\* Every node that executes belongs to a VM.
LEMMA ElemType ==
  \A nd \in {NULL, get_fast_int_vcpu_node} \cup ReadyNodes : Elem(nd) \in {0} \cup VM
BY FastTargetNode DEF NULL, ReadyNodes, VmNodes, ReadyNode, VmNode, Elem

\* The registers of a machine are those of one VCPU.
LEMMA MachineType ==
  ASSUME VIInv
  PROVE  /\ \A v \in VM : MachineRegs(v) \in [RestoredReg -> Val]
         /\ vcpu_executing \in {0} \cup VM
<1>1. RestoredReg \subseteq Reg
  BY DEF RestoredReg
<1>2. \A v \in VM : MachineRegs(v) \in [RestoredReg -> Val]
  BY <1>1 DEF MachineRegs, VIInv, VITypeOK
<1>3. vcpu_executing \in {0} \cup VM
  BY ExecutingType DEF VIInv, VITypeOK
<1>4. QED
  BY <1>2, <1>3 DEF VIInv, VITypeOK

\* What makes a step of the hypervisor one of the abstract kernel's.
LEMMA KernelStep ==
  ASSUME VIInv, VIInv', ~ halted, ~ halted',
         \A m \in Irq : IFS'[m] => IFS[m],
         \A v \in VM, b \in Bit : PendingMoves(v, b),
         \A m \in Irq : IFS[m] /\ ~ IFS'[m] => Pending(irq_vm[m], irq_guest(m))' > 0,
         \A v \in VM, r \in RestoredReg :
            MachineRegs(v)'[r] # MachineRegs(v)[r]
              => r = "EPC" /\ vcpu_executing = v /\ vcpu_executing' = v
  PROVE  Machines!Kernel
<1>1. vcpu_executing' \in {0} \cup VM /\ IFS' \in [Irq -> BOOLEAN]
  BY ElemType DEF VIInv, VITypeOK, SchedTypeOK, vcpu_executing
<1>2. [v \in VM |-> [b \in Bit |-> Pending(v, b)]]' \in [VM -> [Bit -> 0 .. 2]]
  BY DEF Pending
<1>3. ASSUME NEW v \in VM, NEW b \in Bit
      PROVE  LET pend == [w \in VM |-> [c \in Bit |-> Pending(w, c)]]
             IN  \/ pend'[v][b] = pend[v][b]
                 \/ pend[v][b] = 2 /\ pend'[v][b] = 1
                 \/ Machines!MayPost(v, b) /\ pend'[v][b] = pend[v][b] + 1
  <2>1. PendingMoves(v, b)
    OBVIOUS
  <2>2. ASSUME NEW m \in Irq, irq_vm[m] = v, irq_guest(m) = b, IFS[m], ~ IFS'[m]
        PROVE  Machines!MayPost(v, b)
    BY <2>2 DEF Machines!MayPost, Machines!Acknowledged
  <2>3. b \in {GUEST_TIMER_INT, GUEST_INTERVM_INT} => Machines!MayPost(v, b)
    BY DEF Machines!MayPost
  <2>4. QED
    BY <2>1, <2>2, <2>3 DEF PendingMoves
<1>4. \A m \in Irq : irq_vm[m] \in VM /\ irq_guest(m) \in Bit
  BY RedirectAssumption DEF Bit
<1>5. ASSUME NEW m \in Irq, Machines!Acknowledged(m)
      PROVE  [w \in VM |-> [c \in Bit |-> Pending(w, c)]]'[irq_vm[m]][irq_guest(m)] > 0
  BY <1>4, <1>5 DEF Machines!Acknowledged
<1>6. [v \in VM |-> MachineRegs(v)]' \in [VM -> [RestoredReg -> Val]]
  <2>1. RestoredReg \subseteq Reg
    BY DEF RestoredReg
  <2>2. cp0_registers' \in [VM -> [Reg -> Val]] /\ guest_cp0' \in [Reg -> Val]
    BY DEF VIInv, VITypeOK
  <2>3. QED
    BY <2>1, <2>2 DEF MachineRegs
<1>7. QED
  BY <1>1, <1>2, <1>3, <1>5, <1>6 DEF Machines!Kernel

\* A step in which a machine keeps its registers and pending interrupts.
LEMMA SameMachines ==
  ASSUME UNCHANGED <<guestclt2, GuestCTL2, cp0_registers, guest_cp0>>,
         vcpu_executing' = vcpu_executing
  PROVE  /\ \A v \in VM : MachineRegs(v)' = MachineRegs(v)
         /\ \A v \in VM, b \in Bit : Pending(v, b)' = Pending(v, b)
         /\ [v \in VM |-> MachineRegs(v)]' = [v \in VM |-> MachineRegs(v)]
         /\ [v \in VM |-> [b \in Bit |-> Pending(v, b)]]'
              = [v \in VM |-> [b \in Bit |-> Pending(v, b)]]
BY DEF MachineRegs, Pending

\* A switch moves the registers and the pending interrupts of two VMs between
\* hardware and memory; only the timer interrupt is new.
LEMMA SwitchMachines ==
  ASSUME VIInv, NEW next \in VM, NEW extra \in TimerDue, contextSwitch(next, extra),
         vcpu_executing' = next, vcpu_executing \in {0} \cup VM
  PROVE  /\ \A v \in VM, r \in RestoredReg : MachineRegs(v)'[r] = MachineRegs(v)[r]
         /\ \A v \in VM, b \in Bit : PendingMoves(v, b)
<1>1. /\ guestclt2 \in [VM -> SUBSET Gripl] /\ cp0_registers \in [VM -> [Reg -> Val]]
      /\ guest_cp0 \in [Reg -> Val] /\ 0 \notin VM
      /\ RestoredReg \subseteq Reg
  BY DEF VIInv, VITypeOK, VM, RestoredReg
<1>2. /\ SavedCp0 = [v \in VM |-> IF v = vcpu_executing THEN guest_cp0 ELSE cp0_registers[v]]
      /\ SavedCtl2 = [v \in VM |-> IF v = vcpu_executing THEN guestclt2[v] \cup GuestCTL2
                                                         ELSE guestclt2[v]]
  BY <1>1 DEF SavedCp0, SavedCtl2, MustSave, VIInv
<1>3. /\ cp0_registers' = SavedCp0
      /\ guest_cp0' = [r \in Reg |-> IF r \in RestoredReg THEN SavedCp0[next][r]
                                                          ELSE guest_cp0[r]]
      /\ GuestCTL2' = SavedCtl2[next] \cup extra
      /\ guestclt2' = [SavedCtl2 EXCEPT ![next] = {}]
  BY DEF contextSwitch
<1>4. ASSUME NEW v \in VM, NEW r \in RestoredReg
      PROVE  MachineRegs(v)'[r] = MachineRegs(v)[r]
  <2>1. MachineRegs(v)[r] = SavedCp0[v][r]
    BY <1>2 DEF MachineRegs
  <2>2. MachineRegs(v)'[r] = SavedCp0[v][r]
    BY <1>1, <1>3 DEF MachineRegs
  <2>3. QED
    BY <2>1, <2>2
<1>5. ASSUME NEW v \in VM, NEW b \in Bit
      PROVE  PendingMoves(v, b)
  <2>1. Pending(v, b) \in 0 .. 2 /\ (b \in SavedCtl2[v] <=> Pending(v, b) > 0)
    BY <1>2 DEF Pending
  <2>2. CASE v = next
    <3>1. guestclt2'[v] = {} /\ GuestCTL2' = SavedCtl2[v] \cup extra /\ vcpu_executing' = v
      BY <1>1, <1>2, <1>3, <2>2
    <3>2. Pending(v, b)' = IF b \in SavedCtl2[v] \cup extra THEN 1 ELSE 0
      BY <3>1 DEF Pending
    <3>3. b \in extra => b = GUEST_TIMER_INT
      BY DEF TimerDue, Shifted
    <3>4. CASE b \in SavedCtl2[v]
      BY <2>1, <3>2, <3>4 DEF PendingMoves
    <3>5. CASE b \notin SavedCtl2[v]
      BY <2>1, <3>2, <3>3, <3>5 DEF PendingMoves
    <3>6. QED
      BY <3>4, <3>5
  <2>3. CASE v # next
    <3>1. guestclt2'[v] = SavedCtl2[v] /\ vcpu_executing' # v
      BY <1>1, <1>2, <1>3, <2>3
    <3>2. Pending(v, b)' = IF b \in SavedCtl2[v] THEN 1 ELSE 0
      BY <3>1 DEF Pending
    <3>3. QED
      BY <2>1, <3>2 DEF PendingMoves
  <2>4. QED
    BY <2>2, <2>3
<1>6. QED
  BY <1>4, <1>5

\* A timer interrupt is a step of the abstract kernel.
LEMMA TimerStep == VIInv /\ timer_interrupt_handler => Machines!Kernel
<1> SUFFICES ASSUME VIInv, timer_interrupt_handler PROVE Machines!Kernel
  OBVIOUS
<1>1. VIInv' /\ SchedTypeOK /\ run_scheduler /\ vcpu_executing \in {0} \cup VM
  BY TimerInv, MachineType DEF VIInv, VITypeOK, timer_interrupt_handler
<1>2. ~ halted /\ UNCHANGED <<IFS, halted>>
  BY DEF timer_interrupt_handler
<1>3. PICK due \in TimerDue :
       \/ Switches /\ contextSwitch(Elem(vcpu_executing_nd'), due)
       \/ /\ ~ Switches
          /\ GuestCTL2' = GuestCTL2 \cup due
          /\ UNCHANGED <<init, cp0_registers, guestclt2, guest_cp0>>
  BY DEF timer_interrupt_handler
<1>4. CASE Switches
  <2>1. Elem(vcpu_executing_nd') \in VM /\ vcpu_executing' = Elem(vcpu_executing_nd')
    BY <1>1, <1>4, TickExecutes DEF vcpu_executing
  <2>2. contextSwitch(vcpu_executing', due)
    BY <1>3, <1>4, <2>1
  <2>3. /\ \A v \in VM, r \in RestoredReg : MachineRegs(v)'[r] = MachineRegs(v)[r]
        /\ \A v \in VM, b \in Bit : PendingMoves(v, b)
    BY <1>1, <2>1, <2>2, SwitchMachines
  <2>4. QED
    BY <1>1, <1>2, <2>3, KernelStep
<1>5. CASE ~ Switches
  <2>1. /\ vcpu_executing' = vcpu_executing /\ GuestCTL2' = GuestCTL2 \cup due
        /\ UNCHANGED <<cp0_registers, guestclt2, guest_cp0>>
    BY <1>1, <1>3, <1>5, TickExecutes DEF vcpu_executing
  <2>2. \A v \in VM : MachineRegs(v)' = MachineRegs(v)
    BY <2>1 DEF MachineRegs
  <2>3. ASSUME NEW v \in VM, NEW b \in Bit
        PROVE  PendingMoves(v, b)
    <3>1. b \in due => b = GUEST_TIMER_INT
      BY DEF TimerDue, Shifted
    <3>2. \/ Pending(v, b)' = Pending(v, b)
          \/ b \in due /\ Pending(v, b)' = Pending(v, b) + 1
      BY <2>1 DEF Pending
    <3>3. QED
      BY <3>1, <3>2 DEF PendingMoves
  <2>4. QED
    BY <1>1, <1>2, <2>2, <2>3, KernelStep
<1>6. QED
  BY <1>4, <1>5

\* interrupt_injection acknowledges every asserted IRQ by posting it.
LEMMA InjectionStep ==
  ASSUME RoutesFit, VIInv, interrupt_injection
  PROVE  Machines!Kernel
<1>1. VIInv' /\ vcpu_executing \in {0} \cup VM
  BY RootInterruptInv, MachineType
<1>2. /\ ~ halted /\ vcpu_executing # 0
      /\ IFS' = [m \in Irq |-> FALSE]
      /\ GuestCTL2' = GuestCTL2 \cup Injected(vcpu_executing)
      /\ guestclt2' = [v \in VM |-> IF v = vcpu_executing THEN guestclt2[v]
                                    ELSE guestclt2[v] \cup Injected(v)]
      /\ UNCHANGED <<cp0_registers, guest_cp0, halted>>
      /\ vcpu_executing' = vcpu_executing
  BY DEF interrupt_injection, schedVars, vcpu_executing
<1>3. \A v \in VM : MachineRegs(v)' = MachineRegs(v)
  BY <1>2 DEF MachineRegs
<1>4. ASSUME NEW v \in VM, NEW b \in Bit
      PROVE  PendingMoves(v, b)
  <2>1. \/ Pending(v, b)' = Pending(v, b)
        \/ b \in Injected(v) /\ Pending(v, b)' = Pending(v, b) + 1
    BY <1>2 DEF Pending
  <2>2. b \in Injected(v) =>
          \E m \in Irq : irq_vm[m] = v /\ irq_guest(m) = b /\ IFS[m] /\ ~ IFS'[m]
    BY <1>2 DEF Injected, Shifted
  <2>3. QED
    BY <2>1, <2>2 DEF PendingMoves
<1>5. ASSUME NEW m \in Irq, IFS[m]
      PROVE  Pending(irq_vm[m], irq_guest(m))' > 0
  <2>1. irq_vm[m] \in VM /\ irq_guest(m) \in Shifted(irq_guest(m))
    BY RedirectAssumption DEF RoutesFit, Shifted
  <2>2. irq_guest(m) \in Injected(irq_vm[m])
    BY <1>5, <2>1 DEF Injected
  <2>3. \/ irq_guest(m) \in guestclt2'[irq_vm[m]]
        \/ vcpu_executing' = irq_vm[m] /\ irq_guest(m) \in GuestCTL2'
    BY <1>2, <2>1, <2>2
  <2>4. QED
    BY <2>3 DEF Pending
<1>6. QED
  BY <1>1, <1>2, <1>3, <1>4, <1>5, KernelStep

\* A hypercall of v that posts nothing moves its program counter only.
LEMMA HypercallMachines ==
  ASSUME VIInv, NEW v \in VM, vcpu_executing = v, AdvancePC, UNCHANGED schedVars
  PROVE  /\ vcpu_executing' = v
         /\ \A w \in VM, r \in RestoredReg :
               MachineRegs(w)'[r] # MachineRegs(w)[r]
                 => r = "EPC" /\ vcpu_executing = w /\ vcpu_executing' = w
<1>1. vcpu_executing' = v
  BY DEF schedVars, vcpu_executing
<1>2. PICK pc : /\ guest_cp0' = [guest_cp0 EXCEPT !["EPC"] = pc]
                /\ cp0_registers' = [cp0_registers EXCEPT ![vcpu_executing]["EPC"] = pc]
  BY DEF AdvancePC
<1>3. /\ guest_cp0 \in [Reg -> Val] /\ cp0_registers \in [VM -> [Reg -> Val]]
      /\ RestoredReg \subseteq Reg
  BY DEF VIInv, VITypeOK, RestoredReg
<1>4. \A w \in VM \ {v} : cp0_registers'[w] = cp0_registers[w]
  BY <1>2, <1>3
<1>5. \A r \in Reg \ {"EPC"} : guest_cp0'[r] = guest_cp0[r]
  BY <1>2, <1>3
<1>6. QED
  BY <1>1, <1>3, <1>4, <1>5 DEF MachineRegs

\* reenable_interrupt is the abstract kernel completing a hypercall.
LEMMA ReenableStep ==
  ASSUME VIInv, VIInv', NEW v \in VM, NEW b, reenable_interrupt(v, b)
  PROVE  Machines!Kernel
<1>1. /\ ~ halted /\ vcpu_executing = v /\ AdvancePC /\ UNCHANGED schedVars
      /\ UNCHANGED <<guestclt2, GuestCTL2, IFS, halted>>
  BY DEF reenable_interrupt, GuestRuns
<1>2. /\ vcpu_executing' = v
      /\ \A w \in VM, r \in RestoredReg :
            MachineRegs(w)'[r] # MachineRegs(w)[r]
              => r = "EPC" /\ vcpu_executing = w /\ vcpu_executing' = w
  BY <1>1, HypercallMachines
<1>3. \A w \in VM, c \in Bit : PendingMoves(w, c)
  BY <1>1, <1>2 DEF Pending, PendingMoves
<1>4. QED
  BY <1>1, <1>2, <1>3, KernelStep

\* intervm_send_msg posts one interrupt of the hypervisor's own.
LEMMA NotifyStep ==
  ASSUME VIInv, VIInv', NEW v \in VM, intervm_notify(v)
  PROVE  Machines!Kernel
<1>1. /\ ~ halted /\ vcpu_executing = v /\ AdvancePC /\ UNCHANGED schedVars
      /\ UNCHANGED <<GuestCTL2, IFS, halted>>
  BY DEF intervm_notify, GuestRuns
<1>2. /\ vcpu_executing' = v
      /\ \A w \in VM, r \in RestoredReg :
            MachineRegs(w)'[r] # MachineRegs(w)[r]
              => r = "EPC" /\ vcpu_executing = w /\ vcpu_executing' = w
  BY <1>1, HypercallMachines
<1>3. PICK t \in VM :
        guestclt2' = IF init[t] THEN guestclt2
                     ELSE [guestclt2 EXCEPT ![t] = @ \cup Shifted(GUEST_INTERVM_INT)]
  BY DEF intervm_notify
<1>4. ASSUME NEW w \in VM, NEW c \in Bit
      PROVE  PendingMoves(w, c)
  <2>1. \A x \in Shifted(GUEST_INTERVM_INT) : x = GUEST_INTERVM_INT
    BY DEF Shifted
  <2>2. guestclt2 \in [VM -> SUBSET Gripl]
    BY DEF VIInv, VITypeOK
  <2>3. /\ c \in guestclt2[w] => c \in guestclt2'[w]
        /\ c \in guestclt2'[w] => c \in guestclt2[w] \/ c = GUEST_INTERVM_INT
    BY <1>3, <2>1, <2>2
  <2>4. \/ Pending(w, c)' = Pending(w, c)
        \/ c = GUEST_INTERVM_INT /\ Pending(w, c)' = Pending(w, c) + 1
    BY <1>1, <1>2, <2>3 DEF Pending
  <2>5. QED
    BY <2>4 DEF PendingMoves
<1>5. QED
  BY <1>1, <1>2, <1>4, KernelStep

\* What a VM of the abstract specification sees does not change.
Unseen ==
  /\ vcpu_executing' = vcpu_executing
  /\ [v \in VM |-> MachineRegs(v)]' = [v \in VM |-> MachineRegs(v)]
  /\ [v \in VM |-> [b \in Bit |-> Pending(v, b)]]' = [v \in VM |-> [b \in Bit |-> Pending(v, b)]]
  /\ IFS' = IFS /\ halted' = halted

\* Then nothing happens in GuestMachines.
LEMMA UnseenStutters == Unseen => UNCHANGED Machines!machineVars
BY DEF Unseen, Machines!machineVars

\* The guest in execution writes a register of its machine, or Compare, which
\* contextRestore leaves as another VM may have written it.
LEMMA WriteStep ==
  ASSUME VIInv, NEW v \in VM, guest_writes(v)
  PROVE  Machines!Write \/ Unseen
<1>1. /\ ~ halted /\ vcpu_executing = v /\ vcpu_executing' = vcpu_executing
      /\ UNCHANGED <<cp0_registers, guestclt2, GuestCTL2, IFS, halted>>
  BY DEF guest_writes, GuestRuns, schedVars, vcpu_executing
<1>2. PICK r \in Reg, x \in Val : guest_cp0' = [guest_cp0 EXCEPT ![r] = x]
  BY DEF guest_writes
<1>3. guest_cp0 \in [Reg -> Val] /\ RestoredReg \subseteq Reg
  BY DEF VIInv, VITypeOK, RestoredReg
<1>4. \A w \in VM, b \in Bit : Pending(w, b)' = Pending(w, b)
  BY <1>1 DEF Pending
<1>5. [w \in VM |-> [b \in Bit |-> Pending(w, b)]]' = [w \in VM |-> [b \in Bit |-> Pending(w, b)]]
  BY <1>4
<1>6. \A w \in VM \ {v} : MachineRegs(w)' = MachineRegs(w)
  BY <1>1 DEF MachineRegs
<1>7. CASE r \in RestoredReg
  <2>1. MachineRegs(v)' = [MachineRegs(v) EXCEPT ![r] = x]
    BY <1>1, <1>2, <1>3, <1>7 DEF MachineRegs
  <2>2. [w \in VM |-> MachineRegs(w)]' = [[w \in VM |-> MachineRegs(w)] EXCEPT ![v][r] = x]
    BY <1>6, <2>1
  <2>3. UNCHANGED <<vcpu_executing, [w \in VM |-> [b \in Bit |-> Pending(w, b)]], IFS, ~ halted>>
    BY <1>1, <1>5
  <2>4. Machines!Write
    <3>1. vcpu_executing = v /\ ~ halted
      BY <1>1
    <3> DEFINE regs == [w \in VM |-> MachineRegs(w)]
    <3>2. regs' = [regs EXCEPT ![v][r] = x]
      BY <2>2
    <3> HIDE DEF regs
    <3>3. \E u \in VM, q \in RestoredReg, y \in Val :
            vcpu_executing = u /\ regs' = [regs EXCEPT ![u][q] = y]
      BY <1>7, <3>1, <3>2, Zenon
    <3>4. QED
      BY <2>3, <3>1, <3>3 DEF Machines!Write, regs
  <2>5. QED
    BY <2>4
<1>8. CASE r \notin RestoredReg
  <2>1. MachineRegs(v)' = MachineRegs(v)
    BY <1>1, <1>2, <1>3, <1>8 DEF MachineRegs
  <2>2. [w \in VM |-> MachineRegs(w)]' = [w \in VM |-> MachineRegs(w)]
    BY <1>6, <2>1
  <2>3. QED
    BY <1>1, <1>5, <2>2 DEF Unseen
<1>9. QED
  BY <1>7, <1>8

\* The hardware delivers what is in GuestCtl2, each interrupt once.
LEMMA TakeStep ==
  ASSUME VIInv, NEW v \in VM, guest_takes_interrupt(v)
  PROVE  Machines!Take
<1>1. /\ ~ halted /\ vcpu_executing = v /\ vcpu_executing' = v /\ GuestCTL2' = {}
      /\ UNCHANGED <<cp0_registers, guest_cp0, guestclt2, IFS, halted>>
  BY DEF guest_takes_interrupt, GuestRuns, schedVars, vcpu_executing
<1> DEFINE S == GuestCTL2 \cap Bit
           pend == [w \in VM |-> [b \in Bit |-> Pending(w, b)]]
<1>2. \A b \in S : Pending(v, b) > 0
  BY <1>1 DEF Pending
<1>3. \A b \in Bit : Pending(v, b)' = IF b \in S THEN Pending(v, b) - 1 ELSE Pending(v, b)
  BY <1>1 DEF Pending
<1>4. \A w \in VM \ {v}, b \in Bit : Pending(w, b)' = Pending(w, b)
  BY <1>1 DEF Pending
<1>5. [w \in VM |-> MachineRegs(w)]' = [w \in VM |-> MachineRegs(w)]
  BY <1>1 DEF MachineRegs
<1>6. S \in SUBSET Bit
  OBVIOUS
<1> HIDE DEF S
<1>7. pend' = [pend EXCEPT ![v] = [b \in Bit |-> IF b \in S THEN @[b] - 1 ELSE @[b]]]
  BY <1>3, <1>4
<1>8. \A b \in S : pend[v][b] > 0
  BY <1>2, <1>6
<1>9. QED
  BY <1>1, <1>5, <1>6, <1>7, <1>8 DEF Machines!Take

\* A fault or a fault of the injection stops everything; a reset starts anew.
LEMMA StopStep ==
  ASSUME VIInv,
         guest_faults \/ interrupt_injection_faults \/ SoftReset
  PROVE  Machines!Crash \/ Machines!Reboot
<1>1. IFS \in [Irq -> BOOLEAN]
  BY DEF VIInv, VITypeOK
<1>2. CASE guest_faults
  <2>1. /\ ~ halted /\ halted' /\ IFS' = IFS
        /\ UNCHANGED <<guestclt2, GuestCTL2, cp0_registers, guest_cp0>>
        /\ vcpu_executing' = vcpu_executing
    BY <1>2 DEF guest_faults, vcpuVars, schedVars, vcpu_executing
  <2>2. QED
    BY <1>1, <2>1, SameMachines DEF Machines!Crash
<1>3. CASE interrupt_injection_faults
  <2>1. /\ ~ halted /\ halted' /\ IFS' \in [Irq -> BOOLEAN]
        /\ UNCHANGED <<guestclt2, GuestCTL2, cp0_registers, guest_cp0>>
        /\ vcpu_executing' = vcpu_executing
    BY <1>1, <1>3 DEF interrupt_injection_faults, vcpuVars, schedVars, vcpu_executing
  <2>2. QED
    BY <2>1, SameMachines DEF Machines!Crash
<1>4. CASE SoftReset
  <2>1. /\ vcpu_executing' = 0 /\ IFS' = [m \in Irq |-> FALSE] /\ ~ halted'
        /\ cp0_registers' = [v \in VM |-> [r \in Reg |-> 0]]
        /\ guestclt2' = [v \in VM |-> {}]
        /\ RestoredReg \subseteq Reg /\ 0 \notin VM
    BY <1>4 DEF SoftReset, vcpu_executing, Elem, NULL, VM, RestoredReg
  <2>2. [v \in VM |-> MachineRegs(v)]' = [v \in VM |-> [r \in RestoredReg |-> 0]]
    BY <2>1 DEF MachineRegs
  <2>3. [v \in VM |-> [b \in Bit |-> Pending(v, b)]]' = [v \in VM |-> [b \in Bit |-> 0]]
    BY <2>1 DEF Pending
  <2>4. QED
    BY <2>1, <2>2, <2>3 DEF Machines!Reboot, Machines!MachineInit
<1>5. QED
  BY <1>2, <1>3, <1>4

\* Every step of the hypervisor or of a guest is a step of the machines, or one
\* that no machine sees.
LEMMA MachineStep ==
  ASSUME RoutesFit, VIInv, [VINext]_viVars
  PROVE  [Machines!MachineNext]_(Machines!machineVars)
<1>1. VIInv'
  BY VINextInv
<1>2. ASSUME UNCHANGED <<guestclt2, GuestCTL2, cp0_registers, guest_cp0, IFS, halted>>,
             vcpu_executing' = vcpu_executing
      PROVE  Unseen
  BY <1>2, SameMachines DEF Unseen
<1>3. CASE fast_interrupt
  <2>1. /\ UNCHANGED <<guestclt2, GuestCTL2, cp0_registers, guest_cp0, IFS, halted>>
        /\ vcpu_executing' = vcpu_executing
    BY <1>3 DEF fast_interrupt, ethernet_interrupt_handler, fast_interrupt_delivery,
                vcpuVars, vcpu_executing
  <2>2. QED
    BY <1>2, <2>1, UnseenStutters
<1>4. CASE device_interrupt
  <2>1. /\ UNCHANGED <<guestclt2, GuestCTL2, cp0_registers, guest_cp0, halted>>
        /\ vcpu_executing' = vcpu_executing
        /\ \E m \in Irq : IFS' = [IFS EXCEPT ![m] = TRUE]
    BY <1>4 DEF device_interrupt, vcpuVars, schedVars, vcpu_executing
  <2>2. Machines!Raise
    BY <2>1, SameMachines DEF Machines!Raise
  <2>3. QED
    BY <2>2 DEF Machines!MachineNext
<1>5. ASSUME NEW v \in VM, guest_step(v)
      PROVE  Machines!MachineNext \/ Unseen
  <2>1. CASE guest_writes(v)
    BY <2>1, WriteStep DEF Machines!MachineNext
  <2>2. CASE guest_takes_interrupt(v)
    BY <2>2, TakeStep DEF Machines!MachineNext
  <2>3. CASE guest_reenables(v)
    BY <1>1, <2>3, ReenableStep DEF guest_reenables, Machines!MachineNext
  <2>4. CASE irq_handler(v)
    <3>1. CASE reenable_interrupt(v, LowestOf(ripl[v]))
      BY <1>1, <3>1, ReenableStep DEF Machines!MachineNext
    <3>2. CASE UNCHANGED schedVars /\ UNCHANGED vcpuVars /\ UNCHANGED <<IFS, halted>>
      BY <1>2, <3>2 DEF schedVars, vcpuVars, vcpu_executing
    <3>3. QED
      BY <2>4, <3>1, <3>2 DEF irq_handler
  <2>5. CASE intervm_notify(v)
    BY <1>1, <2>5, NotifyStep DEF Machines!MachineNext
  <2>6. CASE init_proc(v) \/ interrupt_register(v)
    <3>1. UNCHANGED schedVars /\ UNCHANGED vcpuVars /\ UNCHANGED <<IFS, halted>>
      BY <2>6 DEF init_proc, interrupt_register
    <3>2. QED
      BY <1>2, <3>1 DEF schedVars, vcpuVars, vcpu_executing
  <2>7. QED
    BY <1>5, <2>1, <2>2, <2>3, <2>4, <2>5, <2>6 DEF guest_step
<1>6. CASE UNCHANGED viVars
  <2>1. /\ UNCHANGED <<guestclt2, GuestCTL2, cp0_registers, guest_cp0, IFS, halted>>
        /\ vcpu_executing' = vcpu_executing
    BY <1>6 DEF viVars, vcpu_executing
  <2>2. QED
    BY <1>2, <2>1, UnseenStutters
<1>7. CASE timer_interrupt_handler \/ interrupt_injection
  BY <1>7, TimerStep, InjectionStep DEF Machines!MachineNext
<1>8. CASE guest_faults \/ interrupt_injection_faults \/ SoftReset
  BY <1>8, StopStep DEF Machines!MachineNext
<1>9. QED
  BY <1>3, <1>4, <1>5, <1>6, <1>7, <1>8, UnseenStutters DEF VINext

\* Before the first tick every machine is empty.
LEMMA MachineStart == VIInit => Machines!MachineInit
<1> SUFFICES ASSUME VIInit PROVE Machines!MachineInit
  OBVIOUS
<1>1. /\ vcpu_executing = 0 /\ IFS = [m \in Irq |-> FALSE] /\ ~ halted
      /\ cp0_registers = [v \in VM |-> [r \in Reg |-> 0]]
      /\ guestclt2 = [v \in VM |-> {}]
      /\ RestoredReg \subseteq Reg /\ 0 \notin VM
  BY DEF VIInit, SchedInit, VCpuInit, vcpu_executing, Elem, NULL, VM, RestoredReg
<1>2. [v \in VM |-> MachineRegs(v)] = [v \in VM |-> [r \in RestoredReg |-> 0]]
  BY <1>1 DEF MachineRegs
<1>3. [v \in VM |-> [b \in Bit |-> Pending(v, b)]] = [v \in VM |-> [b \in Bit |-> 0]]
  BY <1>1 DEF Pending
<1>4. QED
  BY <1>1, <1>2, <1>3 DEF Machines!MachineInit

\* Context switching is invisible (contextSave, contextRestore,
\* timer_interrupt_handler, interrupt_injection, reenable_interrupt,
\* intervm_send_msg): every VM has registers and pending interrupts of its own,
\* and none is lost, duplicated or given to another VM, as long as every
\* redirected IRQ has a position in GuestCtl2.
THEOREM SwitchingIsInvisible ==
  ASSUME RoutesFit
  PROVE  VISpec => ImplementsMachines
<1>1. VIInv /\ [VINext]_viVars => [Machines!MachineNext]_(Machines!machineVars)
  BY MachineStep
<1>2. QED
  BY <1>1, VIInitInv, VINextInv, MachineStart, PTL
     DEF VISpec, ImplementsMachines, Machines!MachineSpec
=============================================================================
