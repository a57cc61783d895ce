----------------------------- MODULE MCInterVM ------------------------------
(* Two VMs and rings of two slots; the cfg files choose senders, targets,  *)
(* message sizes and the senders' window.                                  *)
EXTENDS InterVM
=============================================================================
