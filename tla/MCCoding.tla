------------------------------ MODULE MCCoding ------------------------------
(* Coding for TLC: see Coding_*.cfg for the instances. *)
EXTENDS Coding

CONSTANTS c1, c2, c3, c4
=============================================================================
