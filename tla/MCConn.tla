------------------------------- MODULE MCConn -------------------------------
(* Small instances of Conn; the cfg gives every constant a value.          *)
EXTENDS Conn
=============================================================================
