---------------------------- MODULE Conversation ----------------------------
(***************************************************************************)
(* What a chat session promises about its memory: it holds the latest      *)
(* exchanges of one conversation, each of them whole and once, in the      *)
(* order in which they were finished, and it can be forgotten at any time. *)
(***************************************************************************)
EXTENDS Naturals, Sequences

CONSTANTS
  Exchanges, \* the exchanges of this conversation
  Capacity   \* how many are remembered

VARIABLE memory

Latest(s) ==
  IF Len(s) <= Capacity THEN s ELSE SubSeq(s, Len(s) - Capacity + 1, Len(s))

Init == memory = <<>>

Remember(e) ==
  /\ \A i \in DOMAIN memory : memory[i] # e
  /\ memory' = Latest(Append(memory, e))

Forget == memory' = <<>>

Next == Forget \/ \E e \in Exchanges : Remember(e)

Spec == Init /\ [][Next]_memory
=============================================================================
