---------------------------- MODULE FlashStorage ----------------------------
(***************************************************************************)
(* What the flash holds and who changes it: the VM images, verified at     *)
(* every start by isVmTrust (cryptography/security.c, called by hyper_init *)
(* in hal.c), and one buffer of guest data that flash_write puts at        *)
(* pageFlash (drivers/pic32mz-puf-flash.c). Two hypercalls look at the     *)
(* keys of the images (drivers/pic32mz-vm-update.c and                     *)
(* pic32mz-remote-connection.c).                                           *)
(*                                                                         *)
(* The flash is an array of quads, the unit NVMWriteQuad programs. Power   *)
(* can fail at any moment, also inside an erase or a write. pageFlash      *)
(* never changes; Init takes it from a set, for the source has had it in   *)
(* several places (lines 41-45).                                           *)
(***************************************************************************)
EXTENDS Naturals, FiniteSets

CONSTANTS
    FLASH_QUADS,  \* quads in the flash
    PAGE_QUADS,   \* quads in a page, the unit of erasing
    DATA_QUADS,   \* quads in the buffer of a guest
    VM,           \* the virtual machines
    FlashBase,    \* VMCONF[vm].flash_base_add, in quads
    FlashSize,    \* VMCONF[vm].flash_size, in quads
    KeyOf,        \* the public key at the end of the image of a VM
    NoKey,        \* a key that no image has
    Layouts,      \* where pageFlash may point to
    Data          \* contents of guests' buffers

Quad == 0 .. (FLASH_QUADS - 1)

PageOf(q) == q \div PAGE_QUADS

Image(v) == FlashBase[v] .. (FlashBase[v] + FlashSize[v] - 1)

ASSUME FlashAssumption ==
    /\ FLASH_QUADS \in Nat \ {0} /\ PAGE_QUADS \in Nat \ {0} /\ DATA_QUADS \in Nat \ {0}
    /\ IsFiniteSet(VM)
    /\ FlashBase \in [VM -> Nat] /\ FlashSize \in [VM -> Nat]
    /\ \A v \in VM : Image(v) \subseteq Quad
    /\ Layouts \subseteq Nat
    /\ \A a \in Layouts : a + DATA_QUADS <= FLASH_QUADS

ASSUME DataAssumption == Data \cap {"image", "blank", "junk"} = {}

ASSUME KeyAssumption == \A v \in VM : KeyOf[v] # NoKey

VARIABLES
    flash,      \* the contents of every quad
    pageFlash,  \* the first quad of the guest data
    phase,      \* "off", "guest", inside a write: "erase", "write"; "halted"
    buffer,     \* the contents flash_write was called with
    i,          \* its loop counter, in quads
    got,        \* what the last flash_read returned
    answer,     \* the last key asked for, and how many VMs have it
    erased,     \* the last erase succeeded
    clean       \* so did every quad written since then

flashVars == <<flash, pageFlash, phase, buffer, i, got, answer, erased, clean>>

\* A quad holds the part of a signed image that belongs there, the k-th part of
\* a buffer, nothing, or something else.
Cell == [by : {"image", "blank", "junk"} \cup Data, at : 0 .. (DATA_QUADS - 1)]

AsSigned == [by |-> "image", at |-> 0]

Blank == [by |-> "blank", at |-> 0]

Junk == [by |-> "junk", at |-> 0]

Part(d, k) == [by |-> d, at |-> k]

Offset == 0 .. (DATA_QUADS - 1)

\* The quads flash_write programs, and those it erases.
Region == {pageFlash + k : k \in Offset}

ErasedPage == {q \in Quad : PageOf(q) = PageOf(pageFlash)}

Key == {KeyOf[v] : v \in VM} \cup {NoKey}

Deployed == [q \in Quad |-> IF \E v \in VM : q \in Image(v) THEN AsSigned ELSE Blank]

FlashInit ==
    /\ flash = Deployed
    /\ pageFlash \in Layouts
    /\ phase = "off"
    /\ buffer \in Data
    /\ i = 0
    /\ got = [k \in Offset |-> Blank]
    /\ answer = [key |-> NoKey, vms |-> 0]
    /\ erased = FALSE
    /\ clean = FALSE
-----------------------------------------------------------------------------
(***************************************************************************)
(* Start-up. External: SHA-256 and ECDSA accept an image exactly if it is  *)
(* what was signed, key and signature included.                            *)
(***************************************************************************)

uECC_verify(v) == \A q \in Image(v) : flash[q] = AsSigned

isVmTrust == \A v \in VM : uECC_verify(v)

hyper_init ==
    /\ phase = "off"
    /\ phase' = IF isVmTrust THEN "guest" ELSE "halted"
    /\ UNCHANGED <<flash, pageFlash, buffer, i, got, answer, erased, clean>>
-----------------------------------------------------------------------------
(***************************************************************************)
(* The flash driver. NVMUnlock reports WRERR and LVDERR, and nobody looks. *)
(***************************************************************************)

\* Only a blank quad takes a value: programming clears bits.
Programmed(cell, new) == IF cell = Blank THEN new ELSE Junk

flash_write(d) ==
    /\ phase = "guest"
    /\ phase' = "erase"
    /\ buffer' = d
    /\ i' = 0
    /\ UNCHANGED <<flash, pageFlash, got, answer, erased, clean>>

NVMErasePage_none ==
    /\ phase = "erase"
    /\ phase' = "write"
    /\ erased' = TRUE
    /\ clean' = TRUE
    /\ UNCHANGED <<flash, pageFlash, buffer, i, got, answer>>

NVMErasePage_before ==
    /\ phase = "erase"
    /\ flash' = [q \in Quad |-> IF PageOf(q) + 1 = PageOf(pageFlash) THEN Blank ELSE flash[q]]
    /\ phase' = "write"
    /\ erased' = TRUE
    /\ clean' = TRUE
    /\ UNCHANGED <<pageFlash, buffer, i, got, answer>>

NVMErasePage ==
    /\ phase = "erase"
    /\ flash' = [q \in Quad |-> IF q \in ErasedPage THEN Blank ELSE flash[q]]
    /\ phase' = "write"
    /\ erased' = TRUE
    /\ clean' = TRUE
    /\ UNCHANGED <<pageFlash, buffer, i, got, answer>>

\* What an erase that fails or is cut off leaves.
HalfErased == \E S \in SUBSET ErasedPage :
    flash' = [q \in Quad |-> IF q \in S THEN Junk ELSE flash[q]]

EraseFails ==
    /\ phase = "erase"
    /\ HalfErased
    /\ phase' = "write"
    /\ erased' = FALSE
    /\ clean' = FALSE
    /\ UNCHANGED <<pageFlash, buffer, i, got, answer>>

NextQuad_one_more ==
    /\ i' = i + 1
    /\ phase' = IF i = DATA_QUADS THEN "guest" ELSE "write"
    /\ UNCHANGED <<pageFlash, buffer, got, answer, erased>>

\* The loop of flash_write1Kbuffer; after the last quad the call returns.
NextQuad ==
    /\ i' = (i + 1) % DATA_QUADS
    /\ phase' = IF i + 1 = DATA_QUADS THEN "guest" ELSE "write"
    /\ UNCHANGED <<pageFlash, buffer, got, answer, erased>>

NVMWriteQuad ==
    /\ phase = "write"
    /\ flash' = [flash EXCEPT ![pageFlash + i] = Programmed(@, Part(buffer, i))]
    /\ NextQuad
    /\ UNCHANGED clean

\* What a write that fails or is cut off leaves.
HalfWritten == \E c \in {flash[pageFlash + i], Junk} :
    flash' = [flash EXCEPT ![pageFlash + i] = c]

WriteFails ==
    /\ phase = "write"
    /\ HalfWritten
    /\ clean' = FALSE
    /\ NextQuad

flash_read ==
    /\ phase = "guest"
    /\ got' = [k \in Offset |-> flash[pageFlash + k]]
    /\ UNCHANGED <<flash, pageFlash, phase, buffer, i, answer, erased, clean>>

PowerLoss ==
    /\ \/ phase = "erase" /\ HalfErased /\ erased' = FALSE /\ clean' = FALSE
       \/ phase = "write" /\ HalfWritten /\ clean' = FALSE /\ UNCHANGED erased
       \/ phase \in {"guest", "halted"} /\ UNCHANGED <<flash, erased, clean>>
    /\ phase' = "off"
    /\ i' = 0
    /\ UNCHANGED <<pageFlash, buffer, got, answer>>
-----------------------------------------------------------------------------
(***************************************************************************)
(* get_allowed_vm and get_owned_list: how many VMs have this key, verified *)
(* against the flash at the time of the call.                              *)
(***************************************************************************)

verifyPublicKey_any_key(v, key) == uECC_verify(v)

verifyPublicKey(v, key) == KeyOf[v] = key /\ uECC_verify(v)

Ask(key) ==
    /\ phase = "guest"
    /\ answer' = [key |-> key, vms |-> Cardinality({v \in VM : verifyPublicKey(v, key)})]
    /\ UNCHANGED <<flash, pageFlash, phase, buffer, i, got, erased, clean>>

get_allowed_vm(key) == Ask(key)

get_owned_list(key) == Ask(key)
-----------------------------------------------------------------------------
FlashNext ==
    \/ hyper_init
    \/ \E d \in Data : flash_write(d)
    \/ NVMErasePage \/ EraseFails \/ NVMWriteQuad \/ WriteFails
    \/ flash_read
    \/ \E key \in Key : get_allowed_vm(key) \/ get_owned_list(key)
    \/ PowerLoss

FlashSpec == FlashInit /\ [][FlashNext]_flashVars
-----------------------------------------------------------------------------
\* The loop counter and so every address programmed stays inside the buffer.
FlashTypeOK ==
    /\ flash \in [Quad -> Cell]
    /\ pageFlash \in Layouts
    /\ phase \in {"off", "guest", "erase", "write", "halted"}
    /\ buffer \in Data
    /\ i \in Offset
    /\ got \in [Offset -> Cell]
    /\ answer \in [key : Key, vms : 0 .. Cardinality(VM)]
    /\ erased \in BOOLEAN /\ clean \in BOOLEAN

\* The VMs whose image flash_write can reach.
Exposed == {v \in VM : Image(v) \cap (Region \cup ErasedPage) # {}}

\* Whatever is erased, programmed, cut off or fails, an image that shares no quad
\* with the page and the region of the guest data still verifies, so with no
\* image exposed the hypervisor always starts (flash_write1Kbuffer lines 188-195,
\* isVmTrust, hyper_init lines 95-97).
UnexposedStarts ==
    /\ \A v \in VM \ Exposed : uECC_verify(v)
    /\ phase = "halted" => Exposed # {}

\* After a call without NVM errors the guest reads what it wrote, also after
\* resets; what lies beyond the erased page was not erased and may be spoilt.
ReadsBack ==
    phase = "guest" /\ clean =>
        \A k \in Offset :
            \/ flash[pageFlash + k] = Part(buffer, k)
            \/ pageFlash + k \notin ErasedPage /\ flash[pageFlash + k] = Junk

\* No sequence of interrupted and repeated writes mixes two buffers inside the
\* page, as long as the last erase succeeded (the erase comes first, line 190).
NoMixture ==
    erased =>
        \A k, l \in Offset :
            /\ {pageFlash + k, pageFlash + l} \subseteq ErasedPage
            /\ {flash[pageFlash + k].by, flash[pageFlash + l].by} \subseteq Data
            => flash[pageFlash + k].by = flash[pageFlash + l].by

\* With no image exposed the two hypercalls keep naming every VM that carries
\* the key (get_allowed_vm lines 228-239, get_owned_list lines 98-108).
KeysStayKnown ==
    Exposed = {} => answer.vms = Cardinality({v \in VM : KeyOf[v] = answer.key})

\* "Uses the last page 16Kb of the flash to data persistance" (line 40): storing
\* guest data does not keep the hypervisor from starting.
NeverHalted == phase # "halted"
=============================================================================
