------------------------------- MODULE Agent -------------------------------
(***************************************************************************)
(* The ReAct loop of the orchestrator (run() of agent.ts) with the calls   *)
(* of the tool host (host/mcp.ts) and the best-effort memory               *)
(* (memory/dokoro.ts) under it.                                            *)
(*                                                                         *)
(* A run is cut at its awaits: recall, grounding search, context           *)
(* inspection, the driver's turn, each tool call, the note and the         *)
(* refreshed recall of memoryInLoop, and the log.  What lies between two   *)
(* of them, the head of the loop included, is one step.  All runs of an    *)
(* instance share one abort signal, as the members of a swarm do.          *)
(*                                                                         *)
(* Left out: messages and prompts (but for what the answer is taken from), *)
(* the choice of tools, events, costs, the cap on the history.             *)
(***************************************************************************)
EXTENDS Naturals, FiniteSets

CONSTANTS
  Agents,         \* runs of an orchestrator
  Remembers,      \* those with a memory
  InLoop,         \* those with memoryInLoop
  Inspects,       \* those with contextInspect
  MaxIterations,  \* of each run
  MaxEmptyTurns,
  MaxTools        \* bound: tool calls in one turn

ASSUME AgentAssumption ==
  /\ InLoop \subseteq Remembers /\ Remembers \subseteq Agents
  /\ Inspects \subseteq Agents
  /\ MaxIterations \in [Agents -> Nat] /\ MaxEmptyTurns \in Nat
  /\ MaxTools \in Nat \ {0, 1}

VARIABLES
  agent,   \* where each run is
  signal   \* the caller's abort signal has been raised

(* empty: consecutiveEmpty.  left: tool calls of this turn still to come.  *)
(* call: of the host's call under way, does it still hear the signal       *)
(* ("live"), was it made after the signal ("deaf"), has it been cut by it. *)
(* late: the deadline has passed.  text: the last assistant text that is   *)
(* not the empty string.  History: turns since the last that was not       *)
(* blank, the kind of the last turn, host calls and driver turns begun     *)
(* after the signal.                                                       *)
NewRun ==
  [pc |-> "new", iterations |-> 0, empty |-> 0, left |-> 0, call |-> "none",
   late |-> FALSE, text |-> "none", haltedBy |-> "max-iterations", answer |-> "none",
   blanks |-> 0, last |-> "none", calls |-> 0, turns |-> 0]

HostCalls == {"recall", "ground", "tools", "note", "refresh", "log"}

Over == {"done", "threw"}

(* callImpl(): the listener is added to the signal, and is not called when *)
(* the signal has been raised before.  A call the host refuses, or a tool  *)
(* it does not have, is a call that settles at once.                       *)
Calling(r, pc) ==
  [r EXCEPT !.pc = pc, !.call = IF signal THEN "deaf" ELSE "live",
            !.calls = IF signal THEN @ + 1 ELSE @]

(* What is left of a run when it returns.                                  *)
Returned(r) ==
  [NewRun EXCEPT !.pc = "done", !.haltedBy = r.haltedBy, !.answer = r.answer]

(* After the loop: the answer, and the log.                                *)
Halted(a, r, why) ==
  LET answer == IF why = "final-answer" THEN "final"
                ELSE IF r.text = "none" THEN "placeholder" ELSE r.text
      halted == [r EXCEPT !.haltedBy = why, !.answer = answer]
  IN  IF a \in Remembers THEN Calling(halted, "log") ELSE Returned(halted)

Turn(r) ==
  [r EXCEPT !.pc = "chat", !.call = "none", !.turns = IF signal THEN @ + 1 ELSE @]

(* Variant with a plausible bug: the signal is left to the host's calls.   *)
LoopHeadUnaborted(a, r) ==
  IF r.iterations >= MaxIterations[a] THEN Halted(a, r, "max-iterations")
  ELSE IF r.late THEN Halted(a, r, "timeout")
  ELSE IF a \in Inspects
       THEN [r EXCEPT !.pc = "inspect", !.call = "none", !.iterations = @ + 1]
       ELSE Turn([r EXCEPT !.iterations = @ + 1])

(* Variant with a plausible bug: one iteration too many.                   *)
LoopHeadOffByOne(a, r) ==
  IF r.iterations > MaxIterations[a] THEN Halted(a, r, "max-iterations")
  ELSE IF signal THEN Halted(a, r, "aborted")
  ELSE IF r.late THEN Halted(a, r, "timeout")
  ELSE IF a \in Inspects
       THEN [r EXCEPT !.pc = "inspect", !.call = "none", !.iterations = @ + 1]
       ELSE Turn([r EXCEPT !.iterations = @ + 1])

(* Variant with a plausible bug: iterations are not counted.               *)
LoopHeadUncounted(a, r) ==
  IF r.iterations >= MaxIterations[a] THEN Halted(a, r, "max-iterations")
  ELSE IF signal THEN Halted(a, r, "aborted")
  ELSE IF r.late THEN Halted(a, r, "timeout")
  ELSE IF a \in Inspects THEN [r EXCEPT !.pc = "inspect", !.call = "none"]
       ELSE Turn(r)

(* The head of the loop, up to the driver's turn or the inspector's write. *)
LoopHead(a, r) ==
  IF r.iterations >= MaxIterations[a] THEN Halted(a, r, "max-iterations")
  ELSE IF signal THEN Halted(a, r, "aborted")
  ELSE IF r.late THEN Halted(a, r, "timeout")
  ELSE IF a \in Inspects
       THEN [r EXCEPT !.pc = "inspect", !.call = "none", !.iterations = @ + 1]
       ELSE Turn([r EXCEPT !.iterations = @ + 1])

(* After the recall: a grounding search, when the task asks for one and    *)
(* there is a tool for it.                                                 *)
Grounded(a, r) == {Calling(r, "ground"), LoopHead(a, r)}

(* run() up to its first await.                                            *)
Started(a) ==
  IF a \in Remembers THEN {Calling(NewRun, "recall")} ELSE Grounded(a, NewRun)

-----------------------------------------------------------------------------

Becomes(a, r) == agent' = [agent EXCEPT ![a] = r]

(* A call of the host settles: a result, an error, its timeout, or the     *)
(* abort.  None of them ends the run: errors are fed back to the model or  *)
(* swallowed.                                                              *)
CallSettles(a) ==
  LET r == agent[a] IN
  /\ \/ r.pc = "recall" /\ \E s \in Grounded(a, r) : Becomes(a, s)
     \/ r.pc \in {"ground", "refresh"} /\ Becomes(a, LoopHead(a, r))
     \/ /\ r.pc = "tools" /\ r.left > 1
        /\ Becomes(a, Calling([r EXCEPT !.left = @ - 1], "tools"))
     \/ /\ r.pc = "tools" /\ r.left = 1
        /\ LET s == [r EXCEPT !.left = 0]
           IN  Becomes(a, IF a \in InLoop THEN Calling(s, "note") ELSE LoopHead(a, s))
     \/ r.pc = "note" /\ Becomes(a, Calling(r, "refresh"))
     \/ r.pc = "log" /\ Becomes(a, Returned(r))
  /\ UNCHANGED signal

Inspected(a) ==
  /\ agent[a].pc = "inspect"
  /\ Becomes(a, Turn(agent[a]))
  /\ UNCHANGED signal

(* The driver throws, which nothing catches.                               *)
ChatThrows(a) ==
  /\ agent[a].pc = "chat"
  /\ Becomes(a, [NewRun EXCEPT !.pc = "threw"])
  /\ UNCHANGED signal

(* A turn with neither tool calls nor text.  Its content may be white      *)
(* space, which is kept as an assistant's text when the loop goes on.      *)
BlankTurn(a) ==
  LET r == [agent[a] EXCEPT !.empty = @ + 1, !.blanks = @ + 1, !.last = "blank"]
  IN  /\ agent[a].pc = "chat"
      /\ IF r.empty > MaxEmptyTurns \/ r.iterations >= MaxIterations[a]
         THEN Becomes(a, Halted(a, r, "empty-response"))
         ELSE \E content \in {r.text, "space"} :
                Becomes(a, LoopHead(a, [r EXCEPT !.text = content]))
      /\ UNCHANGED signal

FinalTurn(a) ==
  /\ agent[a].pc = "chat"
  /\ Becomes(a, Halted(a, [agent[a] EXCEPT !.blanks = 0, !.last = "text"], "final-answer"))
  /\ UNCHANGED signal

(* Variant with a plausible bug: the streak of blank turns goes on.        *)
ToolTurnInStreak(a) ==
  /\ agent[a].pc = "chat"
  /\ \E n \in 1 .. MaxTools, content \in {agent[a].text, "space", "text"} :
       Becomes(a, Calling([agent[a] EXCEPT !.left = n, !.text = content,
                                           !.blanks = 0, !.last = "tools"], "tools"))
  /\ UNCHANGED signal

(* A turn with tool calls, with or without text, and the first of them.    *)
ToolTurn(a) ==
  /\ agent[a].pc = "chat"
  /\ \E n \in 1 .. MaxTools, content \in {agent[a].text, "space", "text"} :
       Becomes(a, Calling([agent[a] EXCEPT !.empty = 0, !.left = n, !.text = content,
                                           !.blanks = 0, !.last = "tools"], "tools"))
  /\ UNCHANGED signal

AgentStep(a) ==
  CallSettles(a) \/ Inspected(a)
    \/ ChatThrows(a) \/ BlankTurn(a) \/ FinalTurn(a) \/ ToolTurn(a)

DeadlinePasses(a) ==
  /\ agent[a].pc \notin {"new"} \union Over
  /\ ~agent[a].late
  /\ agent' = [agent EXCEPT ![a].late = TRUE]
  /\ UNCHANGED signal

(* The signal is raised: the calls that hear it reject.                    *)
Aborts ==
  /\ ~signal
  /\ signal' = TRUE
  /\ agent' = [a \in Agents |-> IF agent[a].call = "live"
                                THEN [agent[a] EXCEPT !.call = "cut"] ELSE agent[a]]

-----------------------------------------------------------------------------

RunType ==
  [pc : HostCalls \union Over \union {"new", "inspect", "chat"},
   iterations : Nat, empty : Nat, left : 0 .. MaxTools,
   call : {"none", "live", "deaf", "cut"}, late : BOOLEAN,
   text : {"none", "space", "text"},
   haltedBy : {"final-answer", "max-iterations", "timeout", "aborted", "empty-response"},
   answer : {"none", "final", "text", "space", "placeholder"},
   blanks : Nat, last : {"none", "blank", "text", "tools"}, calls : Nat, turns : Nat]

(* The reason a run gives for its end is the true one, over any mixture of *)
(* blank turns, tool turns, abort and deadline: the queue's worker retries *)
(* a task, and the frontends explain an answer, by this reason alone.      *)
ReasonIsTrue ==
  \A a \in Agents : LET r == agent[a] IN r.pc = "log" =>
    /\ r.haltedBy = "final-answer" <=> r.last = "text"
    /\ r.haltedBy = "empty-response" <=>
         /\ r.last = "blank"
         /\ r.blanks > MaxEmptyTurns \/ r.iterations = MaxIterations[a]
    /\ r.haltedBy = "max-iterations" => r.iterations = MaxIterations[a]
    /\ r.haltedBy = "aborted" => signal
    /\ r.haltedBy = "timeout" => r.late

(* What an aborted run still does, however the signal falls: the recall    *)
(* and the grounding search, or the tool calls of the turn it is in (the   *)
(* host does not notice a signal raised before a call), then one note and  *)
(* one recall, and the log.  It begins a turn of the driver only if the    *)
(* signal came while the context inspector was writing.                    *)
LittleWorkAfterAbort ==
  \A a \in Agents :
    /\ agent[a].turns <= (IF a \in Inspects THEN 1 ELSE 0)
    /\ agent[a].calls <= MaxTools + 1 + (IF a \in InLoop THEN 2 ELSE 0)
=============================================================================
