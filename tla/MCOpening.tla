----------------------------- MODULE MCOpening -----------------------------
(* Model-checking instances of Opening: two opens of a server that may     *)
(* change its certificate and its password.                                *)
EXTENDS Opening
=============================================================================
