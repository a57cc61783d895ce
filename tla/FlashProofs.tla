----------------------------- MODULE FlashProofs -----------------------------
(***************************************************************************)
(* Proofs about FlashStorage, for every size of the flash, its pages and   *)
(* the guest data, every placement of images and data, and any sequence of *)
(* writes, NVM errors and power failures.                                  *)
(***************************************************************************)
EXTENDS FlashStorage, FiniteSetTheorems, TLAPS

\* Every quad of the region is a quad of the flash, so no write misses it.
LEMMA RegionInFlash ==
    ASSUME pageFlash \in Layouts, NEW k \in Offset
    PROVE  pageFlash + k \in Quad /\ pageFlash \in Nat /\ k \in Nat
  BY FlashAssumption DEF Offset, Quad

\* The cells the driver and the hardware produce are cells.
LEMMA CellTypes ==
    /\ AsSigned \in Cell /\ Blank \in Cell /\ Junk \in Cell
    /\ \A d \in Data, k \in Offset : Part(d, k) \in Cell
  BY FlashAssumption DEF AsSigned, Blank, Junk, Part, Cell, Offset

\* What the key hypercalls count is a number of VMs.
LEMMA CountType ==
    ASSUME NEW S \in SUBSET VM
    PROVE  Cardinality(S) \in 0 .. Cardinality(VM)
  BY FlashAssumption, FS_Subset, FS_CardinalityType

\* The loop counter stays inside the buffer.
LEMMA NextQuadType ==
    ASSUME i \in Offset, NextQuad
    PROVE  /\ i' \in Offset
           /\ phase' \in {"guest", "write"}
           /\ phase' = "write" => i' = i + 1
           /\ phase' = "guest" => i' = 0 /\ i + 1 = DATA_QUADS
  <1>1. i \in Nat /\ i < DATA_QUADS /\ DATA_QUADS \in Nat \ {0}
    BY FlashAssumption DEF Offset
  <1>2. CASE i + 1 = DATA_QUADS
    <2>1. DATA_QUADS % DATA_QUADS = 0
      BY <1>1
    <2> QED BY <1>1, <1>2, <2>1 DEF NextQuad, Offset
  <1>3. CASE i + 1 # DATA_QUADS
    <2>1. (i + 1) % DATA_QUADS = i + 1
      BY <1>1, <1>3
    <2> QED BY <1>1, <1>3, <2>1 DEF NextQuad, Offset
  <1> QED BY <1>2, <1>3
-----------------------------------------------------------------------------
\* The initial state of the flash driver has the right types.
LEMMA FlashTypeInit == FlashInit => FlashTypeOK
  <1> SUFFICES ASSUME FlashInit PROVE FlashTypeOK
    OBVIOUS
  <1>1. flash \in [Quad -> Cell]
    BY CellTypes DEF FlashInit, Deployed
  <1>2. got \in [Offset -> Cell]
    BY CellTypes DEF FlashInit
  <1>3. i \in Offset
    BY FlashAssumption DEF FlashInit, Offset
  <1>4. answer \in [key : Key, vms : 0 .. Cardinality(VM)]
    BY FlashAssumption, FS_CardinalityType DEF FlashInit, Key
  <1> QED BY <1>1, <1>2, <1>3, <1>4 DEF FlashInit, FlashTypeOK

\* Every step of the start-up, the driver, the hardware and the power preserves
\* the types.
LEMMA FlashTypeStep == FlashTypeOK /\ [FlashNext]_flashVars => FlashTypeOK'
  <1> SUFFICES ASSUME FlashTypeOK, [FlashNext]_flashVars PROVE FlashTypeOK'
    OBVIOUS
  <1> USE DEF FlashTypeOK
  <1>0. pageFlash + i \in Quad
    BY RegionInFlash
  <1>1. CASE hyper_init
    BY <1>1 DEF hyper_init
  <1>2. ASSUME NEW d \in Data, flash_write(d) PROVE FlashTypeOK'
    BY <1>2, FlashAssumption DEF flash_write, Offset
  <1>3. CASE NVMErasePage
    BY <1>3, CellTypes DEF NVMErasePage
  <1>4. ASSUME HalfErased PROVE flash' \in [Quad -> Cell]
    BY <1>4, CellTypes DEF HalfErased
  <1>5. CASE EraseFails
    BY <1>4, <1>5 DEF EraseFails
  <1>6. CASE NVMWriteQuad
    <2>1. Programmed(flash[pageFlash + i], Part(buffer, i)) \in Cell
      BY CellTypes DEF Programmed
    <2>2. flash' \in [Quad -> Cell]
      BY <1>6, <1>0, <2>1 DEF NVMWriteQuad
    <2> QED BY <1>6, <2>2, NextQuadType DEF NVMWriteQuad, NextQuad
  <1>7. ASSUME HalfWritten PROVE flash' \in [Quad -> Cell]
    BY <1>7, <1>0, CellTypes DEF HalfWritten
  <1>8. CASE WriteFails
    BY <1>7, <1>8, NextQuadType DEF WriteFails, NextQuad
  <1>9. CASE flash_read
    <2>1. \A k \in Offset : flash[pageFlash + k] \in Cell
      BY RegionInFlash
    <2> QED BY <1>9, <2>1 DEF flash_read
  <1>10. ASSUME NEW key \in Key, Ask(key) PROVE FlashTypeOK'
    <2>1. Cardinality({v \in VM : verifyPublicKey(v, key)}) \in 0 .. Cardinality(VM)
      BY CountType
    <2> QED BY <1>10, <2>1 DEF Ask
  <1>11. CASE PowerLoss
    <2>1. 0 \in Offset
      BY FlashAssumption DEF Offset
    <2>2. flash' \in [Quad -> Cell]
      BY <1>11, <1>4, <1>7 DEF PowerLoss
    <2>3. erased' \in BOOLEAN /\ clean' \in BOOLEAN
      BY <1>11 DEF PowerLoss
    <2> QED BY <1>11, <2>1, <2>2, <2>3 DEF PowerLoss
  <1>12. CASE UNCHANGED flashVars
    BY <1>12 DEF flashVars
  <1> QED
    BY <1>1, <1>2, <1>3, <1>5, <1>6, <1>8, <1>9, <1>10, <1>11, <1>12
    DEF FlashNext, get_allowed_vm, get_owned_list

\* The loop counter of flash_write1Kbuffer and every address it programs stay
\* inside the buffer and the flash.
THEOREM FlashTypeCorrect == FlashSpec => []FlashTypeOK
  BY FlashTypeInit, FlashTypeStep, PTL DEF FlashSpec
-----------------------------------------------------------------------------
\* No step changes a quad outside the erased page and the region.
LEMMA OutsideUnchanged ==
    ASSUME FlashTypeOK, [FlashNext]_flashVars,
           NEW q \in Quad, q \notin Region, q \notin ErasedPage
    PROVE  flash'[q] = flash[q]
  <1> USE DEF FlashTypeOK
  <1>1. pageFlash + i \in Quad /\ pageFlash + i # q
    BY RegionInFlash DEF Region
  <1>2. HalfErased => flash'[q] = flash[q]
    BY DEF HalfErased
  <1>3. HalfWritten => flash'[q] = flash[q]
    BY <1>1 DEF HalfWritten
  <1>4. CASE NVMErasePage
    BY <1>4 DEF NVMErasePage
  <1>5. CASE NVMWriteQuad
    BY <1>5, <1>1 DEF NVMWriteQuad
  <1>6. CASE EraseFails \/ WriteFails
    BY <1>6, <1>2, <1>3 DEF EraseFails, WriteFails
  <1>7. CASE PowerLoss
    BY <1>7, <1>2, <1>3 DEF PowerLoss
  <1>8. CASE UNCHANGED flash
    BY <1>8
  <1> QED
    BY <1>4, <1>5, <1>6, <1>7, <1>8
    DEF FlashNext, flashVars, hyper_init, flash_write, flash_read,
        get_allowed_vm, get_owned_list, Ask

\* pageFlash is never assigned, so the exposed images stay the same.
LEMMA PlacementFixed ==
    ASSUME [FlashNext]_flashVars
    PROVE  pageFlash' = pageFlash /\ Exposed' = Exposed
  <1>1. pageFlash' = pageFlash
    BY DEF FlashNext, flashVars, hyper_init, flash_write, NVMErasePage, EraseFails,
       NVMWriteQuad, WriteFails, NextQuad, flash_read, get_allowed_vm, get_owned_list,
       Ask, PowerLoss
  <1> QED BY <1>1 DEF Exposed, Region, ErasedPage

\* Flash writes, cut off or failing anywhere, never keep the hypervisor from
\* starting when the guest data is placed away from the images (hyper_init,
\* isVmTrust, flash_write1Kbuffer).
THEOREM UnexposedStartsAlways == FlashSpec => []UnexposedStarts
  <1>1. FlashInit => UnexposedStarts
    <2> SUFFICES ASSUME FlashInit, NEW v \in VM PROVE uECC_verify(v)
      BY DEF UnexposedStarts, FlashInit
    <2> SUFFICES ASSUME NEW q \in Image(v) PROVE flash[q] = AsSigned
      BY DEF uECC_verify
    <2>1. q \in Quad
      BY FlashAssumption
    <2> QED BY <2>1 DEF FlashInit, Deployed
  <1>2. FlashTypeOK /\ UnexposedStarts /\ [FlashNext]_flashVars => UnexposedStarts'
    <2> SUFFICES ASSUME FlashTypeOK, UnexposedStarts, [FlashNext]_flashVars
                 PROVE  UnexposedStarts'
      OBVIOUS
    <2>1. Exposed' = Exposed
      BY PlacementFixed
    <2>2. ASSUME NEW v \in VM, v \notin Exposed PROVE uECC_verify(v)'
      <3>1. uECC_verify(v)
        BY <2>2 DEF UnexposedStarts
      <3> SUFFICES ASSUME NEW q \in Image(v) PROVE flash'[q] = AsSigned
        BY DEF uECC_verify
      <3>2. q \in Quad /\ q \notin Region /\ q \notin ErasedPage
        BY <2>2, FlashAssumption DEF Exposed
      <3>3. flash'[q] = flash[q]
        BY <3>2, OutsideUnchanged
      <3> QED BY <3>1, <3>3 DEF uECC_verify
    <2>3. phase' = "halted" => Exposed # {}
      <3>1. CASE hyper_init
        <4>1. phase' = "halted" => \E v \in VM : ~ uECC_verify(v)
          BY <3>1 DEF hyper_init, isVmTrust
        <4> QED BY <4>1 DEF UnexposedStarts
      <3>2. CASE phase' = phase
        BY <3>2 DEF UnexposedStarts
      <3>3. CASE phase' \in {"off", "erase", "write", "guest"}
        BY <3>3
      <3> QED
        BY <3>1, <3>2, <3>3
        DEF FlashNext, flashVars, flash_write, NVMErasePage, EraseFails, NVMWriteQuad,
            WriteFails, NextQuad, flash_read, get_allowed_vm, get_owned_list, Ask,
            PowerLoss
    <2> QED BY <2>1, <2>2, <2>3 DEF UnexposedStarts
  <1> QED BY <1>1, <1>2, FlashTypeCorrect, PTL DEF FlashSpec
-----------------------------------------------------------------------------
(***************************************************************************)
(* ReadsBack and NoMixture speak of calls that are over. The invariants    *)
(* add where a call that is under way stands: what is before i has been    *)
(* programmed, what follows is blank, and old data is gone.                *)
(***************************************************************************)

InPage(k) == pageFlash + k \in ErasedPage

Stored(k) == \/ flash[pageFlash + k] = Part(buffer, k)
             \/ ~ InPage(k) /\ flash[pageFlash + k] = Junk

CounterReset == phase # "write" => i = 0

Progress ==
    clean =>
        /\ phase = "write" => \A k \in Offset :
              IF k < i THEN Stored(k) ELSE InPage(k) => flash[pageFlash + k] = Blank
        /\ phase \notin {"erase", "write"} => \A k \in Offset : Stored(k)

OwnDataOnly ==
    erased /\ phase = "write" =>
        \A k \in Offset :
            InPage(k) /\ flash[pageFlash + k].by \in Data => flash[pageFlash + k].by = buffer

WriteInv == CounterReset /\ Progress /\ OwnDataOnly /\ NoMixture

\* A successful write of a quad moves the frontier by one.
LEMMA WriteProgress ==
    ASSUME FlashTypeOK, Progress, NVMWriteQuad
    PROVE  Progress'
  <1> SUFFICES ASSUME clean'
               PROVE  /\ phase' = "write" => \A k \in Offset :
                          IF k < i' THEN Stored(k)' ELSE InPage(k)' => flash'[pageFlash' + k] = Blank
                      /\ phase' \notin {"erase", "write"} => \A k \in Offset : Stored(k)'
    BY DEF Progress
  <1>1. /\ clean /\ phase = "write" /\ pageFlash' = pageFlash /\ buffer' = buffer
        /\ ErasedPage' = ErasedPage
    BY DEF NVMWriteQuad, NextQuad, ErasedPage
  <1>2. /\ i \in Nat /\ i < DATA_QUADS /\ pageFlash \in Nat
        /\ flash \in [Quad -> Cell] /\ pageFlash + i \in Quad
    BY RegionInFlash, FlashAssumption DEF FlashTypeOK, Offset
  <1>3. /\ phase' \in {"guest", "write"}
        /\ phase' = "write" => i' = i + 1
        /\ phase' = "guest" => i + 1 = DATA_QUADS
    BY NextQuadType DEF FlashTypeOK, NVMWriteQuad
  <1>4. ASSUME NEW k \in Offset, k < i PROVE Stored(k)'
    <2>1. flash'[pageFlash + k] = flash[pageFlash + k]
      BY <1>2, <1>4, RegionInFlash DEF NVMWriteQuad, Offset
    <2>2. Stored(k)
      BY <1>1, <1>4 DEF Progress
    <2> QED BY <1>1, <2>1, <2>2 DEF Stored, InPage
  <1>5. ASSUME NEW k \in Offset, k = i PROVE Stored(k)'
    <2>1. flash'[pageFlash + k] = Programmed(flash[pageFlash + k], Part(buffer, k))
      BY <1>2, <1>5 DEF NVMWriteQuad
    <2>2. InPage(k) => flash[pageFlash + k] = Blank
      BY <1>1, <1>2, <1>5 DEF Progress
    <2>3. \/ flash'[pageFlash + k] = Part(buffer, k)
          \/ ~ InPage(k) /\ flash'[pageFlash + k] = Junk
      BY <2>1, <2>2 DEF Programmed
    <2> QED BY <1>1, <2>3 DEF Stored, InPage
  <1>6. ASSUME NEW k \in Offset, k > i, InPage(k) PROVE flash'[pageFlash + k] = Blank
    <2>1. flash'[pageFlash + k] = flash[pageFlash + k]
      BY <1>2, <1>6, RegionInFlash DEF NVMWriteQuad, Offset
    <2> QED BY <1>1, <1>2, <1>6, <2>1 DEF Progress, Offset
  <1>7. CASE phase' = "write"
    <2>1. ASSUME NEW k \in Offset, k < i' PROVE Stored(k)'
      BY <1>2, <1>3, <1>4, <1>5, <1>7, <2>1 DEF Offset
    <2>2. ASSUME NEW k \in Offset, ~ (k < i'), InPage(k)' PROVE flash'[pageFlash' + k] = Blank
      <3>1. k > i
        BY <1>2, <1>3, <1>7, <2>2 DEF Offset
      <3>2. InPage(k)
        BY <1>1, <2>2 DEF InPage
      <3> QED BY <1>1, <1>6, <3>1, <3>2
    <2> QED BY <1>7, <2>1, <2>2
  <1>8. CASE phase' = "guest"
    <2>1. ASSUME NEW k \in Offset PROVE Stored(k)'
      BY <1>2, <1>3, <1>4, <1>5, <1>8 DEF Offset
    <2> QED BY <1>8, <2>1
  <1> QED BY <1>3, <1>7, <1>8

\* Steps that leave the flash and the call under way alone.
LEMMA ProgressKept ==
    ASSUME CounterReset, Progress, OwnDataOnly, NoMixture,
           UNCHANGED <<flash, pageFlash, buffer, i, erased, clean>>,
           phase' = phase \/ {phase, phase'} \cap {"erase", "write"} = {}
    PROVE  CounterReset' /\ Progress' /\ OwnDataOnly' /\ NoMixture'
  <1>1. ErasedPage' = ErasedPage
    BY DEF ErasedPage
  <1>2. \A k \in Offset : (Stored(k)' <=> Stored(k)) /\ (InPage(k)' <=> InPage(k))
    BY <1>1 DEF Stored, InPage
  <1>3. Progress'
    BY <1>2 DEF Progress
  <1>4. OwnDataOnly'
    BY <1>2 DEF OwnDataOnly
  <1>5. NoMixture'
    BY <1>1 DEF NoMixture
  <1> QED BY <1>3, <1>4, <1>5 DEF CounterReset

\* Every step preserves the two invariants and NoMixture.
LEMMA WriteStep ==
    FlashTypeOK /\ WriteInv /\ [FlashNext]_flashVars => WriteInv'
  <1> SUFFICES ASSUME FlashTypeOK, WriteInv, [FlashNext]_flashVars PROVE WriteInv'
    OBVIOUS
  <1> USE DEF WriteInv
  <1>1. CASE hyper_init \/ flash_read \/ (\E key \in Key : Ask(key)) \/ UNCHANGED flashVars
    BY <1>1, ProgressKept DEF hyper_init, flash_read, Ask, flashVars
  <1>2. ASSUME NEW d \in Data, flash_write(d) PROVE WriteInv'
    BY <1>2 DEF flash_write, CounterReset, Progress, OwnDataOnly, NoMixture, ErasedPage
  <1>3. CASE NVMErasePage
    <2>1. /\ phase' = "write" /\ pageFlash' = pageFlash /\ ErasedPage' = ErasedPage
          /\ i' = 0
      BY <1>3 DEF NVMErasePage, ErasedPage, CounterReset
    <2>2. \A q \in ErasedPage : flash'[q] = Blank
      BY <1>3 DEF NVMErasePage, ErasedPage
    <2>3. \A q \in ErasedPage : flash'[q].by \notin Data
      BY <2>2, DataAssumption DEF Blank
    <2>4. \A k \in Offset : ~ (k < 0)
      BY FlashAssumption DEF Offset
    <2>5. CounterReset' /\ Progress'
      BY <2>1, <2>2, <2>4 DEF CounterReset, Progress, InPage
    <2>6. OwnDataOnly' /\ NoMixture'
      BY <2>1, <2>3 DEF OwnDataOnly, NoMixture, InPage
    <2> QED BY <2>5, <2>6
  <1>4. CASE EraseFails
    BY <1>4 DEF EraseFails, CounterReset, Progress, OwnDataOnly, NoMixture
  <1>5. ASSUME phase = "write", UNCHANGED <<pageFlash, buffer, erased>>,
               NEW c, flash' = [flash EXCEPT ![pageFlash + i] = c],
               c = Part(buffer, i) \/ c = Junk \/ c = flash[pageFlash + i]
        PROVE  OwnDataOnly' /\ NoMixture'
    <2>1. ErasedPage' = ErasedPage
      BY <1>5 DEF ErasedPage
    <2>2. ASSUME erased, NEW k \in Offset, InPage(k), flash'[pageFlash + k].by \in Data
          PROVE  flash'[pageFlash + k].by = buffer
      <3>1. CASE flash'[pageFlash + k] = flash[pageFlash + k]
        BY <1>5, <2>2, <3>1 DEF OwnDataOnly
      <3>2. CASE flash'[pageFlash + k] = Part(buffer, i)
        BY <3>2 DEF Part
      <3>3. CASE flash'[pageFlash + k] = Junk
        BY <2>2, <3>3, DataAssumption DEF Junk
      <3> QED BY <1>5, <3>1, <3>2, <3>3, RegionInFlash DEF FlashTypeOK
    <2>3. OwnDataOnly'
      BY <1>5, <2>1, <2>2 DEF OwnDataOnly, InPage
    <2>4. NoMixture'
      BY <1>5, <2>1, <2>2 DEF NoMixture, InPage
    <2> QED BY <2>3, <2>4
  <1>6. CASE NVMWriteQuad
    <2>1. OwnDataOnly' /\ NoMixture'
      BY <1>5, <1>6 DEF NVMWriteQuad, NextQuad, Programmed
    <2>2. CounterReset'
      BY <1>6, NextQuadType DEF NVMWriteQuad, FlashTypeOK, CounterReset
    <2> QED BY <1>6, <2>1, <2>2, WriteProgress
  <1>7. CASE WriteFails
    <2>1. OwnDataOnly' /\ NoMixture'
      BY <1>5, <1>7 DEF WriteFails, HalfWritten, NextQuad
    <2>2. CounterReset'
      BY <1>7, NextQuadType DEF WriteFails, FlashTypeOK, CounterReset
    <2> QED BY <1>7, <2>1, <2>2 DEF WriteFails, Progress
  <1>8. CASE PowerLoss
    <2>1. CASE phase = "write"
      <3>1. OwnDataOnly' /\ NoMixture'
        BY <1>5, <1>8, <2>1 DEF PowerLoss, HalfWritten
      <3> QED BY <1>8, <2>1, <3>1 DEF PowerLoss, Progress, CounterReset
    <2>2. CASE phase = "erase"
      BY <1>8, <2>2 DEF PowerLoss, CounterReset, Progress, OwnDataOnly, NoMixture
    <2>3. CASE phase \in {"guest", "halted"}
      <3>1. i = 0
        BY <2>3 DEF CounterReset
      <3> QED BY <1>8, <2>3, <3>1, ProgressKept DEF PowerLoss
    <2> QED BY <1>8, <2>1, <2>2, <2>3 DEF PowerLoss
  <1> QED
    BY <1>1, <1>2, <1>3, <1>4, <1>6, <1>7, <1>8
    DEF FlashNext, get_allowed_vm, get_owned_list

\* The invariants hold from power-on.
LEMMA WriteInvAlways == FlashSpec => []WriteInv
  <1>1. FlashInit => WriteInv
    BY DEF FlashInit, WriteInv, CounterReset, Progress, OwnDataOnly, NoMixture
  <1> QED BY <1>1, WriteStep, FlashTypeCorrect, PTL DEF FlashSpec

\* A call of flash_write without NVM errors stores the buffer: until the next
\* call a guest reads back what it wrote, resets included; only what spills over
\* the end of the erased page may be spoilt (lines 175-195).
THEOREM ReadsBackAlways == FlashSpec => []ReadsBack
  <1>1. WriteInv => ReadsBack
    BY DEF WriteInv, Progress, Stored, InPage, ReadsBack
  <1> QED BY <1>1, WriteInvAlways, PTL

\* Interrupted and repeated writes never leave parts of two buffers in the page
\* when the last erase succeeded (lines 188-195).
THEOREM NoMixtureAlways == FlashSpec => []NoMixture
  <1>1. WriteInv => NoMixture
    BY DEF WriteInv
  <1> QED BY <1>1, WriteInvAlways, PTL
-----------------------------------------------------------------------------
\* As long as no image is exposed the key hypercalls give the number of VMs that
\* were deployed with the key (verifyPublicKey3, get_allowed_vm, get_owned_list).
THEOREM KeysStayKnownAlways == FlashSpec => []KeysStayKnown
  <1>1. FlashInit => KeysStayKnown
    <2>1. {v \in VM : KeyOf[v] = NoKey} = {}
      BY KeyAssumption
    <2> QED BY <2>1, FS_EmptySet DEF FlashInit, KeysStayKnown
  <1>2. UnexposedStarts /\ KeysStayKnown /\ [FlashNext]_flashVars => KeysStayKnown'
    <2> SUFFICES ASSUME UnexposedStarts, KeysStayKnown, [FlashNext]_flashVars
                 PROVE  KeysStayKnown'
      OBVIOUS
    <2>1. Exposed' = Exposed
      BY PlacementFixed
    <2>2. ASSUME NEW key \in Key, Ask(key) PROVE KeysStayKnown'
      <3> SUFFICES ASSUME Exposed = {}
                   PROVE  answer'.vms = Cardinality({v \in VM : KeyOf[v] = answer'.key})
        BY <2>1 DEF KeysStayKnown
      <3>1. {v \in VM : verifyPublicKey(v, key)} = {v \in VM : KeyOf[v] = key}
        BY DEF UnexposedStarts, verifyPublicKey
      <3> QED BY <2>2, <3>1 DEF Ask
    <2>3. CASE UNCHANGED answer
      BY <2>1, <2>3 DEF KeysStayKnown
    <2> QED
      BY <2>2, <2>3
      DEF FlashNext, flashVars, hyper_init, flash_write, NVMErasePage, EraseFails,
          NVMWriteQuad, WriteFails, NextQuad, flash_read, get_allowed_vm,
          get_owned_list, PowerLoss
  <1> QED BY <1>1, <1>2, UnexposedStartsAlways, PTL DEF FlashSpec
=============================================================================
