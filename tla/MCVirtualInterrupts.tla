------------------------ MODULE MCVirtualInterrupts -------------------------
(* Two VMs.  Which VM each redirected IRQ goes to is chosen by the cfg.    *)
EXTENDS VirtualInterrupts

\* No redirected IRQ.
NoIrq == <<>>

\* One IRQ for each VM.
OneEach == <<1, 2>>
=============================================================================
