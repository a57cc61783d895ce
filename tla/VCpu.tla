-------------------------------- MODULE VCpu --------------------------------
(***************************************************************************)
(* arch/mips/common/vcpu.c: contextSave and contextRestore, the transfers  *)
(* between the hardware guest context and the vcpu_t of each VM.  General  *)
(* purpose registers are not modelled: every VCPU has a shadow register    *)
(* set of its own (gprshadowset), which no switch copies.                  *)
(***************************************************************************)
EXTENDS Scheduler

CONSTANTS Reg,       \* guest registers; "EPC" is where the guest resumes
          RegMod     \* values of a register: 0..RegMod-1

ASSUME VCpuAssumption == "EPC" \in Reg /\ RegMod \in Nat \ {0}

VARIABLES init,           \* vcpu->init: TRUE until the VCPU is first restored
          cp0_registers,  \* vcpu->cp0_registers and vcpu->pc
          guestclt2,      \* vcpu->guestclt2: interrupts to inject on restore
          guest_cp0,      \* hardware: guest CP0 registers and root EPC
          GuestCTL2       \* hardware: GuestCtl2.GRIPL, interrupts pending now

vcpuVars == <<init, cp0_registers, guestclt2, guest_cp0, GuestCTL2>>

Val == 0..(RegMod - 1)

\* contextRestore writes back every saved register but cp0_registers[3].
RestoredReg == Reg \ {"Compare"}

\* create_vcpu clears the structure and marks the VCPU as not initialised.
VCpuInit ==
  /\ init = [v \in VM |-> TRUE]
  /\ cp0_registers = [v \in VM |-> [r \in Reg |-> 0]]
  /\ guestclt2 = [v \in VM |-> {}]
  /\ guest_cp0 = [r \in Reg |-> 0]
  /\ GuestCTL2 = {}

\* contextSave does nothing before the first dispatch.
MustSave == vcpu_executing # 0 /\ ~init[vcpu_executing]

SavedCp0 ==
  [v \in VM |-> IF MustSave /\ v = vcpu_executing THEN guest_cp0 ELSE cp0_registers[v]]

\* A plausible bug: the saved interrupts are assigned instead of or-ed.
SavedCtl2_overwrites ==
  [v \in VM |-> IF MustSave /\ v = vcpu_executing THEN GuestCTL2 ELSE guestclt2[v]]

SavedCtl2 ==
  [v \in VM |-> IF MustSave /\ v = vcpu_executing
                  THEN guestclt2[v] \cup GuestCTL2
                  ELSE guestclt2[v]]

\* A plausible bug: restored interrupts are not cleared from the vcpu_t.
contextSwitch_keeps(next, extra) ==
  /\ cp0_registers' = SavedCp0
  /\ init' = [init EXCEPT ![next] = FALSE]
  /\ guest_cp0' = [r \in Reg |-> IF r \in RestoredReg THEN SavedCp0[next][r]
                                                      ELSE guest_cp0[r]]
  /\ GuestCTL2' = SavedCtl2[next] \cup extra
  /\ guestclt2' = SavedCtl2

\* contextSave for the VCPU in execution, then contextRestore for next;
\* extra holds the interrupts the caller ors into GuestCTL2 afterwards.
contextSwitch(next, extra) ==
  /\ cp0_registers' = SavedCp0
  /\ init' = [init EXCEPT ![next] = FALSE]
  /\ guest_cp0' = [r \in Reg |-> IF r \in RestoredReg THEN SavedCp0[next][r]
                                                      ELSE guest_cp0[r]]
  /\ GuestCTL2' = SavedCtl2[next] \cup extra
  /\ guestclt2' = [SavedCtl2 EXCEPT ![next] = {}]

\* guest_exit_exception: after a hypercall the guest resumes behind it, and
\* the new pc is written to the vcpu_t as well.
AdvancePC ==
  LET pc == (guest_cp0["EPC"] + 1) % RegMod
  IN  /\ guest_cp0' = [guest_cp0 EXCEPT !["EPC"] = pc]
      /\ cp0_registers' = [cp0_registers EXCEPT ![vcpu_executing]["EPC"] = pc]
=============================================================================
