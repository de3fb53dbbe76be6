---------------------------- MODULE MCAsyncLoop ----------------------------
(* Model-checking instances of AsyncLoop.                                  *)
EXTENDS AsyncLoop
=============================================================================
