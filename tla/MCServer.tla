------------------------------ MODULE MCServer ------------------------------
(* Small instances of Server; the cfg gives every constant a value.        *)
EXTENDS Server
=============================================================================
