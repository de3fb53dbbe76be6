------------------------------- MODULE MCCli -------------------------------
(* Model-checking instances of Cli.                                        *)
EXTENDS Cli
=============================================================================
