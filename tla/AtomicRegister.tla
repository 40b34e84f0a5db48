--------------------------- MODULE AtomicRegister ---------------------------
(***************************************************************************)
(* What "atomic persistence" promises of one file (src/daemon/queue.ts:    *)
(* "Persistence is atomic (tmp + rename)").  A memory of numbered versions *)
(* is saved now and then; a save takes effect at one instant, stores a     *)
(* version the memory had since the previous save took effect, and a       *)
(* restart finds the version stored last.                                  *)
(***************************************************************************)
EXTENDS Naturals

VARIABLES
  memory,   \* the version in memory
  stored    \* the version a restart would find

regVars == <<memory, stored>>

Init == memory = stored /\ stored \in Nat

Change == memory' = memory + 1 /\ UNCHANGED stored

Save == /\ stored' \in stored .. memory
        /\ UNCHANGED memory

Restart == memory' = stored /\ UNCHANGED stored

Next == Change \/ Save \/ Restart

Spec == Init /\ [][Next]_regVars
=============================================================================
