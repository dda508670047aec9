------------------------------ MODULE MCHarness ------------------------------
(***************************************************************************)
(* A session small enough to explore and large enough for the cases that   *)
(* matter: two phases, two trees, and four calls, which is a phase laid    *)
(* out, run, laid out again and run again (the same results file twice),   *)
(* or two phases run in turn (a reset between them), with every way each   *)
(* hook can end and the deadline at every point.                           *)
(***************************************************************************)
EXTENDS Harness
=============================================================================
