----------------------------- MODULE MCService -----------------------------
(* Service for TLC: see Service_logs.cfg for the instance. *)
EXTENDS Service

CONSTANT r1
=============================================================================
