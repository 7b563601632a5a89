---------------------------- MODULE MCLederskap -----------------------------
(* Instances of Lederskap for TLC. *)
EXTENDS Lederskap

CONSTANTS gammel, ny, o1, o2
=============================================================================
