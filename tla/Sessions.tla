------------------------------ MODULE Sessions ------------------------------
(***************************************************************************)
(* A chat session and the commands that change it (chat-commands.ts), as   *)
(* operators.                                                              *)
(*                                                                         *)
(* A message is its number, and an exchange the number of the message it   *)
(* answers.  A setting is the number of the message that made it, or 0     *)
(* when nobody has: so "off" and /reset leave their number as well, and    *)
(* what the setting is worth follows from the line of that message.        *)
(***************************************************************************)
EXTENDS Naturals, Sequences

CONSTANTS
  N,         \* messages
  HistoryMax \* SESSION_HISTORY_MAX, in entries: two for an exchange

ASSUME SessionsAssumption ==
  /\ N \in Nat
  /\ HistoryMax \in Nat /\ HistoryMax % 2 = 0

Messages == 1 .. N

(* What a user may send: text, a command that is rewritten into a task     *)
(* (/jury, /search, /think), a command, or what a front end ignores (no    *)
(* text, or a stranger's).  info: every command that only replies.         *)
Asks == {"plain", "rewrite"}

Lines == Asks \cup {"driver", "driver off", "skill", "skill off", "reset",
                    "task", "info", "exit", "ignored"}

(* The two entries of an exchange. *)
Entry == {"user", "assistant"} \X Messages

Session == [driver : 0 .. N, skill : 0 .. N, history : Seq(Entry)]

NewSession == [driver |-> 0, skill |-> 0, history |-> <<>>]

(* Variant with a plausible bug: /reset leaves the history.                *)
HandledForgettingLess(session, m, line) ==
  CASE line \in {"driver", "driver off"} -> [session EXCEPT !.driver = m]
    [] line \in {"skill", "skill off"}   -> [session EXCEPT !.skill = m]
    [] line = "reset" -> [session EXCEPT !.driver = m, !.skill = m]
    [] OTHER -> session

(* handleChatLine(): what message m does to the session at once.           *)
Handled(session, m, line) ==
  CASE line \in {"driver", "driver off"} -> [session EXCEPT !.driver = m]
    [] line \in {"skill", "skill off"}   -> [session EXCEPT !.skill = m]
    [] line = "reset" -> [driver |-> m, skill |-> m, history |-> <<>>]
    [] OTHER -> session

(* Variant with a plausible bug: the cap is off by one entry.              *)
CappedOddly(h) ==
  IF Len(h) > HistoryMax THEN SubSeq(h, Len(h) - HistoryMax, Len(h)) ELSE h

(* Variant with a plausible bug: the splice begins after the first exchange.*)
CappedAfterFirst(h) ==
  IF Len(h) > HistoryMax
  THEN SubSeq(h, 1, 2) \o SubSeq(h, Len(h) - HistoryMax + 3, Len(h)) ELSE h

(* pushHistory(): the exchange, and the splice that keeps the latest.      *)
Capped(h) ==
  IF Len(h) > HistoryMax THEN SubSeq(h, Len(h) - HistoryMax + 1, Len(h)) ELSE h

Pushed(session, m) ==
  [session EXCEPT !.history = Capped(@ \o <<<<"user", m>>, <<"assistant", m>>>>)]

(* resolveRunOptions(): the session's driver before the skill's; line says *)
(* of each message what it was.  (The history goes with them; what a run   *)
(* makes of it is left out.)                                               *)
RunOptions(session, line) ==
  LET set(by, what) == by # 0 /\ line[by] = what
  IN [driver |-> session.driver,
      skill  |-> session.skill,
      heart  |-> IF set(session.driver, "driver") THEN "session"
                 ELSE IF set(session.skill, "skill") THEN "skill"
                 ELSE "environment"]

(* The exchanges of a history, oldest first.                               *)
ExchangesOf(h) == [i \in 1 .. Len(h) \div 2 |-> h[2 * i][2]]
=============================================================================
