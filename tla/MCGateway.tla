----------------------------- MODULE MCGateway -----------------------------
(* Gateway for TLC: see Gateway_*.cfg for the instances. *)
EXTENDS Gateway

CONSTANTS r1, r2, c1, c2

FollowsFirst == [c \in Clients |-> r1]
=============================================================================
