------------------------------ MODULE MCStorage ------------------------------
EXTENDS FlashStorage

\* Two VMs of two pages each, then a free page.
MCFlashBase == [v \in VM |-> IF v = "vm1" THEN 0 ELSE 6]
MCFlashSize == [v \in VM |-> 6]
MCKeyOf == [v \in VM |-> "owner"]
=============================================================================
