---------------------------- MODULE MCClientCert ----------------------------
(* Model-checking instances of ClientCert.                                 *)
EXTENDS ClientCert
=============================================================================
