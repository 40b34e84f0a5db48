------------------------------- MODULE MCChat -------------------------------
(* Three messages: the first and the last are of one chat. *)
EXTENDS Chat

MCChatOf == <<"a", "b", "a">>

MCLinesOf == [
  telegram |-> <<{"plain", "driver"},
                 {"info", "ignored"},
                 {"rewrite", "reset", "task"}>>,
  slack |-> <<{"plain"}, {"plain", "ignored"}, {"ignored"}>>,
  repl |-> <<{"plain", "driver"}, {"plain", "reset", "skill"}, {"rewrite", "task", "exit"}>>]
=============================================================================
