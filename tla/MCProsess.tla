----------------------------- MODULE MCProsess ------------------------------
(* Instances of Prosess for TLC: a task that watches the shutdown token and *)
(* one that does not.                                                      *)
EXTENDS Prosess

CONSTANTS lytter, worker
=============================================================================
