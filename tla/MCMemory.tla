------------------------------ MODULE MCMemory ------------------------------
(***************************************************************************)
(* Devices on an even page, on an odd page, and of two pages. Buffers in   *)
(* RAM and across the end of every RAM, in flash and in a device, some of  *)
(* them longer than a page.                                                *)
(***************************************************************************)
EXTENDS MemoryMap

MCDevices == {[base |-> 130, size |-> 1], [base |-> 133, size |-> 1], [base |-> 136, size |-> 2]}

MCBuffers == [address : {0, 1, 2, 5, 7, 14, 15, 129, 260}, size : {1, 2, 3}]

ASSUME MCAddressesApart == AddressesApart

=============================================================================
