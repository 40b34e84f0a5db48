------------------------------ MODULE MCSwarm ------------------------------
(* Swarm for TLC: see Swarm_*.cfg for the instances. *)
EXTENDS Swarm

(* The first member may loop; the others and the synthesizer have one turn. *)
OneDeep == [a \in Agents |-> IF a = 1 THEN 4 ELSE 1]
=============================================================================
