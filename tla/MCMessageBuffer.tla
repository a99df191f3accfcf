--------------------------- MODULE MCMessageBuffer --------------------------
(* Small instances of MessageBuffer; the cfg gives every constant a value. *)
EXTENDS MessageBuffer
=============================================================================
