---------------------------- MODULE SwarmProofs ----------------------------
(***************************************************************************)
(* Theorems about the pool of a swarm and the runs in it, for any number   *)
(* of roles, workers, iterations and tools.                                *)
(*                                                                         *)
(* The argument: a step of an agent moves a run that is under way, and     *)
(* keeps it from being new again (StepTypes), so it cannot disturb what is *)
(* said of roles nobody holds; the pool's own steps all go through Pulls,  *)
(* whose effect on each role is by its place relative to the counter       *)
(* (PullPlaces).  That the synthesizer comes last needs one more fact: an  *)
(* idle worker of a pool that has been started has seen the end of the     *)
(* roles.                                                                  *)
(*                                                                         *)
(* What a run says of its end, and how little it does after an abort, rest *)
(* on RunSound: at each await the kind of the last turn fits the place the *)
(* run is at, its count of blank turns is the true one, and the calls made *)
(* after the signal are at most those that lead from a turn of the driver  *)
(* to that place (CallsBy).                                                *)
(***************************************************************************)
EXTENDS Swarm, TLAPS

(* A run of agent a, with no more turns than it may have.                  *)
RunOf(a) == {r \in RunType : r.iterations <= MaxIterations[a]}

Reasons == {"final-answer", "max-iterations", "timeout", "aborted", "empty-response"}

(* The answers a run may give.                                             *)
Answers == {"none", "final", "text", "space", "placeholder"}

(* The numbers among the constants.                                        *)
LEMMA Bounds ==
  /\ \A a \in Agents : MaxIterations[a] \in Nat
  /\ MaxTools \in Nat /\ MaxTools > 1 /\ MaxEmptyTurns \in Nat
  /\ Roles \in Nat /\ Members \subseteq Agents /\ Synthesizer \in Agents
  /\ Idle \notin Members /\ Synthesizer \notin Members
BY AgentAssumption, SwarmAssumption DEF Members, Synthesizer, Idle

-----------------------------------------------------------------------------
(* What the operators of a run return *)

(* A new run is a run.                                                     *)
LEMMA NewRunType == ASSUME NEW a \in Agents PROVE NewRun \in RunOf(a)
BY Bounds DEF NewRun, RunOf, RunType, HostCalls, Over

(* A run that calls the host is a run that waits for it.                   *)
LEMMA CallingType ==
  ASSUME signal \in BOOLEAN, NEW a \in Agents, NEW r \in RunOf(a), NEW pc \in HostCalls
  PROVE  Calling(r, pc) \in RunOf(a) /\ Calling(r, pc).pc = pc
<1>1. \A call \in {"deaf", "live"}, n \in Nat :
        LET s == [r EXCEPT !.pc = pc, !.call = call, !.calls = n]
        IN  s \in RunOf(a) /\ s.pc = pc
  BY DEF RunOf, RunType
<1>2. r.calls \in Nat /\ r.calls + 1 \in Nat
  BY DEF RunOf, RunType
<1> QED  BY <1>1, <1>2 DEF Calling

(* What halting changes in its run, before it logs.                        *)
HaltedWith(r, why, x) == [r EXCEPT !.haltedBy = why, !.answer = x]

LEMMA HaltedWithType ==
  ASSUME NEW a \in Agents, NEW r \in RunOf(a), NEW why \in Reasons, NEW x \in Answers
  PROVE  HaltedWith(r, why, x) \in RunOf(a)
<1>0. r \in RunType /\ r.iterations <= MaxIterations[a]
  BY DEF RunOf
<1> DEFINE p == [r EXCEPT !.haltedBy = why]  q == [p EXCEPT !.answer = x]
<1>1. p \in RunType /\ p.iterations = r.iterations
  BY <1>0 DEF RunType, Reasons
<1>2. HaltedWith(r, why, x) = q
  BY <1>0 DEF HaltedWith, RunType
<1> HIDE DEF p
<1>3. q \in RunType /\ q.iterations = p.iterations
  BY <1>1 DEF RunType, Answers
<1> HIDE DEF q
<1> QED  BY <1>0, <1>1, <1>2, <1>3 DEF RunOf

(* What is left of a run that returns is a run that is over.               *)
LEMMA ReturnedType ==
  ASSUME NEW a \in Agents, NEW r \in RunOf(a)
  PROVE  Returned(r) \in RunOf(a) /\ Returned(r).pc = "done"
<1>1. r \in RunType /\ r.haltedBy \in Reasons /\ r.answer \in Answers
  <2>1. r \in RunType
    BY DEF RunOf
  <2> QED  BY <2>1 DEF RunType, Reasons, Answers
<1> DEFINE n == [NewRun EXCEPT !.pc = "done"]
<1>2. "done" \in HostCalls \union Over \union {"new", "inspect", "chat"}
  BY DEF Over
<1>3. n \in RunType /\ n.iterations = NewRun.iterations /\ n.pc = "done"
  <2>1. NewRun \in RunType
    BY NewRunType DEF RunOf
  <2> QED  BY <1>2, <2>1 DEF RunType
<1>4. n \in RunOf(a)
  BY <1>3, NewRunType DEF RunOf
<1>5. Returned(r) = HaltedWith(n, r.haltedBy, r.answer)
  BY DEF Returned, HaltedWith
<1> HIDE DEF n
<1>6. HaltedWith(n, r.haltedBy, r.answer) \in RunOf(a)
  BY <1>1, <1>4, HaltedWithType
<1>7. HaltedWith(n, r.haltedBy, r.answer).pc = n.pc
  BY <1>3 DEF HaltedWith, RunType
<1> QED  BY <1>3, <1>5, <1>6, <1>7

(* A run that halts logs or is over.                                       *)
LEMMA HaltedType ==
  ASSUME signal \in BOOLEAN, NEW a \in Agents, NEW r \in RunOf(a), NEW why \in Reasons
  PROVE  Halted(a, r, why) \in RunOf(a) /\ Halted(a, r, why).pc \in {"log", "done"}
<1> DEFINE answer == IF why = "final-answer" THEN "final"
                     ELSE IF r.text = "none" THEN "placeholder" ELSE r.text
           halted == HaltedWith(r, why, answer)
<1>1. answer \in Answers
  BY DEF RunOf, RunType, Answers
<1>2. halted \in RunOf(a)
  BY <1>1, HaltedWithType
<1>3. "log" \in HostCalls
  BY DEF HostCalls
<1> HIDE DEF halted
<1>4. Calling(halted, "log") \in RunOf(a) /\ Calling(halted, "log").pc = "log"
  BY <1>2, <1>3, CallingType
<1>5. Returned(halted) \in RunOf(a) /\ Returned(halted).pc = "done"
  BY <1>2, ReturnedType
<1>6. Halted(a, r, why) = IF a \in Remembers THEN Calling(halted, "log") ELSE Returned(halted)
  BY DEF Halted, halted, HaltedWith
<1> QED  BY <1>4, <1>5, <1>6

(* A run that begins a turn waits for the driver.                          *)
LEMMA TurnType ==
  ASSUME signal \in BOOLEAN, NEW a \in Agents, NEW r \in RunOf(a)
  PROVE  Turn(r) \in RunOf(a) /\ Turn(r).pc = "chat"
<1>1. \A n \in Nat : LET s == [r EXCEPT !.pc = "chat", !.call = "none", !.turns = n]
                     IN  s \in RunOf(a) /\ s.pc = "chat"
  BY DEF RunOf, RunType
<1>2. r.turns \in Nat /\ r.turns + 1 \in Nat
  BY DEF RunOf, RunType
<1> QED  BY <1>1, <1>2 DEF Turn

(* At the head of the loop a run halts, or goes on with one turn more.     *)
LEMMA LoopHeadType ==
  ASSUME signal \in BOOLEAN, NEW a \in Agents, NEW r \in RunOf(a)
  PROVE  LoopHead(a, r) \in RunOf(a) /\ LoopHead(a, r).pc # "new"
<1> DEFINE on == [r EXCEPT !.iterations = @ + 1]
           inspecting == [r EXCEPT !.pc = "inspect", !.call = "none", !.iterations = @ + 1]
<1>1. \A why \in Reasons : Halted(a, r, why) \in RunOf(a) /\ Halted(a, r, why).pc # "new"
  BY HaltedType
<1>2. CASE r.iterations < MaxIterations[a]
  <2>1. on \in RunOf(a)
    BY <1>2, Bounds DEF RunOf, RunType
  <2>2. inspecting \in RunOf(a) /\ inspecting.pc = "inspect"
    <3>1. \A n \in Nat : n <= MaxIterations[a] =>
            LET s == [r EXCEPT !.pc = "inspect", !.call = "none", !.iterations = n]
            IN  s \in RunOf(a) /\ s.pc = "inspect"
      BY DEF RunOf, RunType
    <3>2. r.iterations + 1 \in Nat /\ r.iterations + 1 <= MaxIterations[a]
      BY <1>2, Bounds DEF RunOf, RunType
    <3> QED  BY <3>1, <3>2
  <2> HIDE DEF on, inspecting
  <2>3. Turn(on) \in RunOf(a) /\ Turn(on).pc = "chat"
    BY <2>1, TurnType
  <2>4. LoopHead(a, r) \in {Halted(a, r, "max-iterations"), Halted(a, r, "aborted"),
                            Halted(a, r, "timeout"), inspecting, Turn(on)}
    BY DEF LoopHead, on, inspecting
  <2> QED  BY <1>1, <2>2, <2>3, <2>4 DEF Reasons
<1>3. CASE ~(r.iterations < MaxIterations[a])
  <2>1. LoopHead(a, r) = Halted(a, r, "max-iterations")
    BY <1>3, Bounds DEF LoopHead, RunOf, RunType
  <2> QED  BY <1>1, <2>1 DEF Reasons
<1> QED  BY <1>2, <1>3

(* After the recall a run is a run.                                        *)
LEMMA GroundedType ==
  ASSUME signal \in BOOLEAN, NEW a \in Agents, NEW r \in RunOf(a), NEW s \in Grounded(a, r)
  PROVE  s \in RunOf(a) /\ s.pc # "new"
<1>1. "ground" \in HostCalls
  BY DEF HostCalls
<1> QED  BY <1>1, CallingType, LoopHeadType DEF Grounded

(* A run that has been started is not new.                                 *)
LEMMA StartedType ==
  ASSUME signal \in BOOLEAN, NEW a \in Agents, NEW s \in Started(a)
  PROVE  s \in RunOf(a) /\ s.pc # "new"
<1>1. "recall" \in HostCalls
  BY DEF HostCalls
<1> QED  BY <1>1, NewRunType, CallingType, GroundedType DEF Started

-----------------------------------------------------------------------------
(* What a step of the agents does to all runs *)

AgentsTyped == agent \in [Agents -> RunType] /\ \A a \in Agents : agent[a] \in RunOf(a)

(* No run becomes new, and none begins.                                    *)
NoneBegins ==
  \A a \in Agents : (agent[a].pc = "new") <=> (agent'[a].pc = "new")

NoneWakes == \A a \in Agents : Running(a)' => Running(a)

(* A call that settles brings the run to its next await, or to its end.    *)
LEMMA CallSettlesTypes ==
  ASSUME AgentsTyped, signal \in BOOLEAN, NEW a \in Agents, CallSettles(a)
  PROVE  Running(a) /\ \E s \in RunOf(a) : s.pc # "new" /\ Becomes(a, s)
<1> DEFINE r == agent[a]
<1>r. r \in RunOf(a)
  BY DEF AgentsTyped
<1>c. /\ \A pc \in HostCalls, s \in RunOf(a) :
           Calling(s, pc) \in RunOf(a) /\ Calling(s, pc).pc # "new"
      /\ {"tools", "note", "refresh"} \subseteq HostCalls
  BY CallingType DEF HostCalls
<1>n. \A s \in RunOf(a) : LoopHead(a, s) \in RunOf(a) /\ LoopHead(a, s).pc # "new"
  BY LoopHeadType
<1>1. CASE r.pc = "recall" /\ \E s \in Grounded(a, r) : Becomes(a, s)
  BY <1>1, <1>r, GroundedType DEF Running, Over
<1>2. CASE r.pc \in {"ground", "refresh"} /\ Becomes(a, LoopHead(a, r))
  BY <1>2, <1>r, <1>n DEF Running, Over
<1>3. CASE /\ r.pc = "tools" /\ r.left > 1
           /\ Becomes(a, Calling([r EXCEPT !.left = @ - 1], "tools"))
  <2> DEFINE t == [r EXCEPT !.left = @ - 1]
  <2>1. t \in RunOf(a)
    <3>1. \A n \in 0 .. MaxTools : [r EXCEPT !.left = n] \in RunOf(a)
      BY <1>r DEF RunOf, RunType
    <3>2. r.left - 1 \in 0 .. MaxTools
      BY <1>3, <1>r, Bounds DEF RunOf, RunType
    <3> QED  BY <3>1, <3>2
  <2> HIDE DEF t
  <2>2. Calling(t, "tools") \in RunOf(a) /\ Calling(t, "tools").pc # "new"
    BY <2>1, <1>c
  <2>3. Becomes(a, Calling(t, "tools"))
    BY <1>3 DEF t
  <2> QED  BY <1>3, <2>2, <2>3 DEF Running, Over
<1>4. CASE /\ r.pc = "tools" /\ r.left = 1
           /\ LET s == [r EXCEPT !.left = 0]
              IN  Becomes(a, IF a \in InLoop THEN Calling(s, "note") ELSE LoopHead(a, s))
  <2> DEFINE t == [r EXCEPT !.left = 0]
  <2>1. t \in RunOf(a)
    BY <1>r, Bounds DEF RunOf, RunType
  <2> HIDE DEF t
  <2>2. Becomes(a, IF a \in InLoop THEN Calling(t, "note") ELSE LoopHead(a, t))
    BY <1>4 DEF t
  <2>3. /\ Calling(t, "note") \in RunOf(a) /\ Calling(t, "note").pc # "new"
        /\ LoopHead(a, t) \in RunOf(a) /\ LoopHead(a, t).pc # "new"
    BY <2>1, <1>c, <1>n
  <2> QED  BY <1>4, <2>2, <2>3 DEF Running, Over
<1>5. CASE r.pc = "note" /\ Becomes(a, Calling(r, "refresh"))
  BY <1>5, <1>r, <1>c DEF Running, Over
<1>6. CASE r.pc = "log" /\ Becomes(a, Returned(r))
  BY <1>6, <1>r, ReturnedType DEF Running, Over
<1> QED  BY <1>1, <1>2, <1>3, <1>4, <1>5, <1>6 DEF CallSettles

(* A turn of the driver, or its rejection, does likewise.                  *)
LEMMA TurnTypes ==
  ASSUME AgentsTyped, signal \in BOOLEAN, NEW a \in Agents,
         Inspected(a) \/ ChatThrows(a) \/ BlankTurn(a) \/ FinalTurn(a) \/ ToolTurn(a)
  PROVE  Running(a) /\ \E s \in RunOf(a) : s.pc # "new" /\ Becomes(a, s)
<1> DEFINE r == agent[a]
<1>r. r \in RunOf(a)
  BY DEF AgentsTyped
<1>1. CASE Inspected(a)
  BY <1>1, <1>r, TurnType DEF Inspected, Running, Over
<1>2. CASE ChatThrows(a)
  <2>1. [NewRun EXCEPT !.pc = "threw"] \in RunOf(a) /\ [NewRun EXCEPT !.pc = "threw"].pc = "threw"
    BY NewRunType DEF RunOf, RunType, Over
  <2> QED  BY <1>2, <2>1 DEF ChatThrows, Running, Over
<1>3. CASE BlankTurn(a)
  <2> DEFINE b == [r EXCEPT !.empty = @ + 1, !.blanks = @ + 1, !.last = "blank"]
  <2>1. b \in RunOf(a)
    <3>1. \A m, n \in Nat :
            [r EXCEPT !.empty = m, !.blanks = n, !.last = "blank"] \in RunOf(a)
      BY <1>r DEF RunOf, RunType
    <3>2. r.empty + 1 \in Nat /\ r.blanks + 1 \in Nat
      BY <1>r DEF RunOf, RunType
    <3> QED  BY <3>1, <3>2
  <2> HIDE DEF b
  <2>2. \A x \in {b.text, "space"} : [b EXCEPT !.text = x] \in RunOf(a)
    BY <2>1 DEF RunOf, RunType
  <2>3. \/ Becomes(a, Halted(a, b, "empty-response"))
        \/ \E x \in {b.text, "space"} : Becomes(a, LoopHead(a, [b EXCEPT !.text = x]))
    BY <1>3 DEF BlankTurn, b
  <2>4. Halted(a, b, "empty-response") \in RunOf(a) /\ Halted(a, b, "empty-response").pc # "new"
    BY <2>1, HaltedType DEF Reasons
  <2>5. Running(a)
    BY <1>3 DEF BlankTurn, Running, Over
  <2> QED  BY <2>2, <2>3, <2>4, <2>5, LoopHeadType
<1>4. CASE FinalTurn(a)
  <2> DEFINE b == [r EXCEPT !.blanks = 0, !.last = "text"]
  <2>1. b \in RunOf(a)
    BY <1>r DEF RunOf, RunType
  <2> HIDE DEF b
  <2>2. Becomes(a, Halted(a, b, "final-answer")) /\ Running(a)
    BY <1>4 DEF FinalTurn, b, Running, Over
  <2> QED  BY <2>1, <2>2, HaltedType DEF Reasons
<1>5. CASE ToolTurn(a)
  <2>1. PICK n \in 1 .. MaxTools, x \in {r.text, "space", "text"} :
          Becomes(a, Calling([r EXCEPT !.empty = 0, !.left = n, !.text = x,
                                       !.blanks = 0, !.last = "tools"], "tools"))
    BY <1>5 DEF ToolTurn
  <2> DEFINE b == [r EXCEPT !.empty = 0, !.left = n, !.text = x, !.blanks = 0, !.last = "tools"]
  <2>2. b \in RunOf(a)
    <3>1. \A m \in 0 .. MaxTools, y \in {"none", "space", "text"} :
            [r EXCEPT !.empty = 0, !.left = m, !.text = y, !.blanks = 0, !.last = "tools"]
              \in RunOf(a)
      BY <1>r DEF RunOf, RunType
    <3>2. n \in 0 .. MaxTools /\ x \in {"none", "space", "text"}
      BY <1>r, Bounds DEF RunOf, RunType
    <3> QED  BY <3>1, <3>2
  <2>3. Becomes(a, Calling(b, "tools")) /\ Running(a)
    BY <1>5, <2>1 DEF ToolTurn, Running, Over
  <2> HIDE DEF b
  <2>4. "tools" \in HostCalls
    BY DEF HostCalls
  <2> QED  BY <2>2, <2>3, <2>4, CallingType
<1> QED  BY <1>1, <1>2, <1>3, <1>4, <1>5

(* A run whose deadline has passed is at the same place.                   *)
LEMMA LateType ==
  \A a \in Agents : \A r \in RunOf(a) : LET s == [r EXCEPT !.late = TRUE]
                                      IN  s \in RunOf(a) /\ s.pc = r.pc
<1> SUFFICES ASSUME NEW a \in Agents, NEW r \in RunOf(a)
             PROVE  LET s == [r EXCEPT !.late = TRUE] IN s \in RunOf(a) /\ s.pc = r.pc
  OBVIOUS
<1>1. r \in RunType /\ r.iterations <= MaxIterations[a]
  BY DEF RunOf
<1>2. LET s == [r EXCEPT !.late = TRUE]
      IN  s \in RunType /\ s.pc = r.pc /\ s.iterations = r.iterations
  BY <1>1 DEF RunType
<1> QED  BY <1>1, <1>2 DEF RunOf

(* No step of the agents, no deadline and no abort starts a run or brings  *)
(* one back.                                                               *)
LEMMA StepTypes ==
  ASSUME AgentsTyped, signal \in BOOLEAN,
         \/ \E a \in Agents : AgentStep(a) \/ DeadlinePasses(a)
         \/ Aborts
  PROVE  AgentsTyped' /\ signal' \in BOOLEAN /\ NoneBegins /\ NoneWakes
<1>1. ASSUME NEW a \in Agents, NEW s \in RunOf(a), Becomes(a, s),
             Running(a), s.pc # "new"
      PROVE  AgentsTyped' /\ NoneBegins /\ NoneWakes
  <2>1. agent' = [agent EXCEPT ![a] = s] /\ s \in RunType
    BY <1>1 DEF Becomes, RunOf
  <2> QED  BY <1>1, <2>1 DEF AgentsTyped, NoneBegins, NoneWakes, Running
<1>2. ASSUME NEW a \in Agents, AgentStep(a)
      PROVE  AgentsTyped' /\ signal' \in BOOLEAN /\ NoneBegins /\ NoneWakes
  <2>1. signal' = signal
    BY <1>2 DEF AgentStep, CallSettles, Inspected, ChatThrows, BlankTurn, FinalTurn, ToolTurn
  <2> QED  BY <1>1, <1>2, <2>1, CallSettlesTypes, TurnTypes DEF AgentStep
<1>3. ASSUME NEW a \in Agents, DeadlinePasses(a)
      PROVE  AgentsTyped' /\ signal' \in BOOLEAN /\ NoneBegins /\ NoneWakes
  <2> DEFINE s == [agent[a] EXCEPT !.late = TRUE]
  <2>1. s \in RunOf(a) /\ s.pc = agent[a].pc
    BY LateType DEF AgentsTyped
  <2>2. Becomes(a, s) /\ Running(a) /\ signal' = signal
    BY <1>3 DEF DeadlinePasses, Becomes, Running, Over
  <2>3. s.pc # "new"
    BY <2>1, <2>2 DEF Running
  <2> HIDE DEF s
  <2> QED  BY <1>1, <2>1, <2>2, <2>3
<1>4. CASE Aborts
  <2>1. \A a \in Agents : LET s == [agent[a] EXCEPT !.call = "cut"]
                          IN  s \in RunOf(a) /\ s.pc = agent[a].pc
    BY DEF AgentsTyped, RunOf, RunType
  <2>2. agent' \in [Agents -> RunType]
    BY <1>4, <2>1 DEF Aborts, RunOf, AgentsTyped
  <2>3. \A a \in Agents : agent'[a] \in RunOf(a) /\ agent'[a].pc = agent[a].pc
    BY <1>4, <2>1 DEF Aborts, AgentsTyped
  <2> QED  BY <1>4, <2>2, <2>3 DEF Aborts, AgentsTyped, NoneBegins, NoneWakes, Running
<1> QED  BY <1>2, <1>3, <1>4

-----------------------------------------------------------------------------
(* The pool *)

(* An idle worker of a pool that has been started has seen the end of the  *)
(* roles; after the pool all are idle; the synthesizer is new until then.  *)
PoolSawAll ==
  /\ phase = "pool" => \A w \in Workers : slot[w] = Idle => next = Roles + 1
  /\ phase \in {"starting", "pool"} => agent[Synthesizer].pc = "new"
  /\ phase \in {"synthesis", "done"} =>
       next = Roles + 1 /\ \A w \in Workers : slot[w] = Idle

(* The inductive invariant.                                                *)
Inv == TypeOK /\ PoolIsSound /\ PoolSawAll

(* The types of the agents are part of TypeOK.                             *)
LEMMA AgentsTypedIff ==
  (agent \in [Agents -> RunType] /\ \A a \in Agents : agent[a].iterations <= MaxIterations[a])
    <=> AgentsTyped
BY DEF AgentsTyped, RunOf

(* The pool has no workers only if there are no roles.                     *)
LEMMA SomeWorker == Roles > 0 => 1 \in Workers
BY SwarmAssumption DEF Workers

(* The invariant holds at first.                                           *)
LEMMA InitInv == Init => Inv
<1> SUFFICES ASSUME Init PROVE Inv
  OBVIOUS
<1>1. AgentsTyped
  BY NewRunType DEF Init, AgentsTyped, RunOf
<1>2. TypeOK
  BY <1>1, AgentsTypedIff, Bounds DEF Init, TypeOK, Members
<1>3. PoolIsSound
  BY Bounds DEF Init, PoolIsSound, Held, Running, NewRun, Members, Idle
<1>4. PoolSawAll
  BY Bounds DEF Init, PoolSawAll, NewRun
<1> QED  BY <1>2, <1>3, <1>4 DEF Inv

(* A step of the agents leaves the pool sound, wherever its members are.   *)
LEMMA AgentsKeepInv ==
  ASSUME Inv, UNCHANGED <<phase, next, slot, member, warnings>>, phase # "starting",
         \/ \E a \in Agents : AgentStep(a) \/ DeadlinePasses(a)
         \/ Aborts
  PROVE  Inv'
<1>1. AgentsTyped' /\ signal' \in BOOLEAN /\ NoneBegins /\ NoneWakes
  BY StepTypes, AgentsTypedIff DEF Inv, TypeOK
<1>2. TypeOK'
  BY <1>1 DEF Inv, TypeOK, AgentsTyped, RunOf
<1>3. PoolIsSound'
  BY <1>1, Bounds DEF Inv, PoolIsSound, Held, NoneBegins, NoneWakes
<1>4. PoolSawAll'
  BY <1>1, Bounds DEF Inv, PoolSawAll, NoneBegins
<1> QED  BY <1>2, <1>3, <1>4 DEF Inv

(* A worker that has no role in hand, or one that is now recorded, goes to *)
(* the next: each role below it is recorded, it is held, those above are   *)
(* not taken.                                                              *)
LEMMA PullPlaces ==
  ASSUME Inv, NEW w \in Workers, NEW recorded \in [Members -> {"none", "empty", "answer"}],
         \A j \in Members : j # slot[w] => recorded[j] = member[j],
         slot[w] # Idle => recorded[slot[w]] # "none" /\ ~Running(slot[w]),
         Pulls(w, recorded), UNCHANGED phase, phase \in {"starting", "pool"}
  PROVE  Inv'
<1> DEFINE old == slot[w]
<1>1. PICK i \in next .. Roles + 1 :
        /\ member' = [j \in Members |-> IF next <= j /\ j < i THEN "empty" ELSE recorded[j]]
        /\ next' = Advanced(i)
        /\ slot' = [slot EXCEPT ![w] = IF HasRole(i) THEN i ELSE Idle]
        /\ IF HasRole(i)
           THEN \E r \in Started(i) : agent' = [agent EXCEPT ![i] = r]
           ELSE UNCHANGED agent
  BY DEF Pulls
<1>2. /\ signal' = signal /\ warnings' = warnings
      /\ signal \in BOOLEAN /\ next \in 1 .. Roles + 1
      /\ slot \in [Workers -> Members \union {Idle}]
      /\ member \in [Members -> {"none", "empty", "answer"}]
  BY DEF Pulls, Inv, TypeOK
<1>3. AgentsTyped
  BY AgentsTypedIff DEF Inv, TypeOK
<1>4. /\ i \in Nat /\ i >= 1 /\ i >= next
      /\ HasRole(i) <=> i \in Members
      /\ ~HasRole(i) => i = Roles + 1
  BY <1>2, Bounds DEF HasRole, Members
<1>5. /\ next' \in 1 .. Roles + 1
      /\ \A j \in Members : j >= next' <=> j > i
      /\ ~HasRole(i) => next' = Roles + 1
  BY <1>1, <1>4, Bounds DEF Advanced, HasRole, Members
<1>6. slot' \in [Workers -> Members \union {Idle}]
  BY <1>1, <1>2, <1>4
<1>7. member' \in [Members -> {"none", "empty", "answer"}]
  BY <1>1
<1>8. /\ AgentsTyped'
      /\ \A j \in Agents : j # i => agent'[j] = agent[j]
      /\ HasRole(i) => agent'[i].pc # "new"
  <2>1. CASE HasRole(i)
    <3>1. i \in Agents
      BY <2>1, <1>4, Bounds
    <3>2. PICK r \in Started(i) : agent' = [agent EXCEPT ![i] = r]
      BY <2>1, <1>1
    <3>3. r \in RunOf(i) /\ r.pc # "new"
      BY <3>1, <1>2, StartedType
    <3> QED  BY <3>1, <3>2, <3>3, <1>3 DEF AgentsTyped, RunOf
  <2>2. CASE ~HasRole(i)
    BY <2>2, <1>1, <1>3 DEF AgentsTyped, RunOf
  <2> QED  BY <2>1, <2>2
<1>9. TypeOK'
  BY <1>2, <1>5, <1>6, <1>7, <1>8 DEF Inv, TypeOK, AgentsTyped, RunOf
<1>10. \A j \in Members : Held(j)' <=> (j = i \/ (Held(j) /\ j # old))
  <2> SUFFICES ASSUME NEW j \in Members
               PROVE  Held(j)' <=> (j = i \/ (Held(j) /\ j # old))
    OBVIOUS
  <2>1. j # Idle
    BY Bounds
  <2>2. slot'[w] = j <=> j = i
    BY <1>1, <1>2, <1>4, <2>1
  <2>3. \A v \in Workers : v # w => slot'[v] = slot[v]
    BY <1>1, <1>2
  <2>4. \A v \in Workers : slot[v] = j /\ v # w => j # old
    BY DEF Inv, PoolIsSound, old
  <2> QED  BY <2>2, <2>3, <2>4 DEF Held
<1>11. ASSUME NEW j \in Members
       PROVE  /\ \A u, v \in Workers : slot'[u] = j /\ slot'[v] = j => u = v
              /\ j >= next' <=> (member'[j] = "none" /\ ~Held(j)')
              /\ Held(j)' => member'[j] = "none" /\ agent'[j].pc # "new"
              /\ Running(j)' => Held(j)'
  <2>p. /\ \A u, v \in Workers : slot[u] = j /\ slot[v] = j => u = v
        /\ j >= next <=> (member[j] = "none" /\ ~Held(j))
        /\ Held(j) => member[j] = "none" /\ agent[j].pc # "new"
        /\ Running(j) => Held(j)
    BY DEF Inv, PoolIsSound
  <2>h. Held(j)' <=> (j = i \/ (Held(j) /\ j # old))
    BY <1>10
  <2>o. j = old => Held(j)
    BY DEF Held, old
  <2>m. member'[j] = IF next <= j /\ j < i THEN "empty" ELSE recorded[j]
    BY <1>1
  <2>j. j \in Nat /\ j \in Agents /\ next \in Nat
    BY <1>2, Bounds DEF Members
  <2>1. \A u, v \in Workers : slot'[u] = j /\ slot'[v] = j => u = v
    <3>1. \A v \in Workers : v # w => slot'[v] = slot[v]
      BY <1>1, <1>2
    <3>2. slot'[w] = j => j = i
      BY <1>1, <1>2, <1>4, Bounds
    <3>3. j = i => ~Held(j)
      BY <2>p, <2>j, <1>4
    <3> QED  BY <3>1, <3>2, <3>3, <2>p DEF Held
  <2>2. CASE j = i
    <3>1. member'[j] = "none"
      BY <2>2, <2>m, <2>p, <2>o, <2>j, <1>4 DEF old
    <3> QED  BY <2>1, <2>2, <2>h, <3>1, <1>4, <1>5, <1>8, <2>j
  <2>3. CASE j > i
    <3>1. j >= next /\ j # old
      BY <2>3, <2>p, <2>o, <2>j, <1>4
    <3>2. member'[j] = "none" /\ ~Held(j)'
      BY <2>3, <3>1, <2>m, <2>p, <2>h, <2>j, <1>4 DEF old
    <3>3. ~Running(j)'
      BY <2>3, <3>1, <2>p, <2>j, <1>4, <1>8 DEF Running
    <3> QED  BY <2>1, <2>3, <3>2, <3>3, <1>5
  <2>4. CASE next <= j /\ j < i
    <3>1. ~Held(j) /\ ~Held(j)' /\ member'[j] = "empty"
      BY <2>4, <2>p, <2>h, <2>m, <2>j, <1>4
    <3>2. ~Running(j)'
      BY <2>4, <3>1, <2>p, <2>j, <1>4, <1>8 DEF Running
    <3> QED  BY <2>1, <2>4, <3>1, <3>2, <1>4, <1>5, <2>j
  <2>5. CASE j < next
    <3>1. j # i /\ ~(j >= next') /\ member'[j] = recorded[j]
      BY <2>5, <2>m, <2>j, <1>4, <1>5
    <3>2. agent'[j] = agent[j]
      BY <3>1, <1>8, <2>j
    <3>3. CASE j = old
      <4>1. recorded[j] # "none" /\ ~Running(j)
        BY <3>3, Bounds DEF old
      <4> QED  BY <2>1, <3>1, <3>2, <3>3, <4>1, <2>h DEF Running
    <3>4. CASE j # old
      <4>1. recorded[j] = member[j]
        BY <3>4 DEF old
      <4> QED  BY <2>1, <2>5, <3>1, <3>2, <3>4, <4>1, <2>h, <2>p, <2>j DEF Running
    <3> QED  BY <3>3, <3>4
  <2> QED  BY <2>2, <2>3, <2>4, <2>5, <2>j, <1>4
<1>12. PoolIsSound'
  BY <1>11 DEF PoolIsSound, Held, Running
<1>13. PoolSawAll'
  <2>1. agent'[Synthesizer] = agent[Synthesizer]
    BY <1>1, <1>4, <1>8, Bounds
  <2>2. ASSUME NEW v \in Workers, slot'[v] = Idle, phase = "pool"
        PROVE  next' = Roles + 1
    <3>1. CASE v = w
      BY <3>1, <2>2, <1>1, <1>2, <1>4, <1>5, Bounds
    <3>2. CASE v # w
      <4>1. next = Roles + 1
        BY <3>2, <2>2, <1>1, <1>2 DEF Inv, PoolSawAll
      <4> QED  BY <4>1, <1>1, <1>4, <1>5, Bounds
    <3> QED  BY <3>1, <3>2
  <2> QED  BY <2>1, <2>2 DEF Inv, PoolSawAll
<1> QED  BY <1>9, <1>12, <1>13 DEF Inv

(* The pool's start keeps the invariant.                                   *)
LEMMA PoolStartsKeepsInv == ASSUME Inv, PoolStarts PROVE Inv'
<1>1. CASE \E w \in Workers :
             /\ slot[w] = Idle /\ Pulls(w, member) /\ UNCHANGED phase
  <2>1. PICK w \in Workers : slot[w] = Idle /\ Pulls(w, member) /\ UNCHANGED phase
    BY <1>1
  <2>2. member \in [Members -> {"none", "empty", "answer"}] /\ phase = "starting"
    BY DEF Inv, TypeOK, PoolStarts
  <2> QED  BY <2>1, <2>2, PullPlaces
<1>2. CASE /\ next > Roles \/ \A w \in Workers : slot[w] # Idle
           /\ phase' = "pool"
           /\ UNCHANGED <<agent, signal, next, slot, member, warnings>>
  <2>1. TypeOK'
    BY <1>2 DEF Inv, TypeOK
  <2>2. PoolIsSound'
    BY <1>2 DEF Inv, PoolIsSound, Held, Running
  <2>3. next > Roles => next = Roles + 1
    BY Bounds DEF Inv, TypeOK
  <2>4. PoolSawAll'
    BY <1>2, <2>3 DEF Inv, PoolSawAll, PoolStarts
  <2> QED  BY <2>1, <2>2, <2>4 DEF Inv
<1> QED  BY <1>1, <1>2 DEF PoolStarts

(* A member that settles keeps the invariant.                              *)
LEMMA MemberSettlesKeepsInv ==
  ASSUME Inv, NEW w \in Workers, MemberSettles(w)
  PROVE  Inv'
<1> DEFINE recorded == [member EXCEPT ![slot[w]] = IF Answered(slot[w]) THEN "answer" ELSE "empty"]
<1>1. /\ member \in [Members -> {"none", "empty", "answer"}]
      /\ slot[w] \in Members
  BY DEF Inv, TypeOK, MemberSettles
<1>2. /\ recorded \in [Members -> {"none", "empty", "answer"}]
      /\ \A j \in Members : j # slot[w] => recorded[j] = member[j]
      /\ recorded[slot[w]] # "none"
  BY <1>1
<1>3. ~Running(slot[w]) /\ Pulls(w, recorded) /\ UNCHANGED phase /\ phase = "pool"
  BY DEF MemberSettles, Running
<1> HIDE DEF recorded
<1> QED  BY <1>2, <1>3, PullPlaces

(* The synthesis and its end keep the invariant.                           *)
LEMMA SynthesisKeepsInv == ASSUME Inv, Synthesizes \/ Returns PROVE Inv'
<1>1. AgentsTyped /\ signal \in BOOLEAN
  BY AgentsTypedIff DEF Inv, TypeOK
<1>2. /\ UNCHANGED <<signal, next, slot, member>> /\ phase' \in {"synthesis", "done"}
      /\ warnings' \subseteq {"quorum", "critical", "synthesis"}
  BY DEF Inv, TypeOK, Synthesizes, Returns, Warned
<1>3. /\ AgentsTyped'
      /\ \A j \in Agents : j # Synthesizer => agent'[j] = agent[j]
  <2>1. CASE UNCHANGED agent
    BY <2>1, <1>1 DEF AgentsTyped, RunOf
  <2>2. CASE \E r \in Started(Synthesizer) : agent' = [agent EXCEPT ![Synthesizer] = r]
    <3>1. \A r \in Started(Synthesizer) : r \in RunOf(Synthesizer)
      BY <1>1, Bounds, StartedType
    <3> QED  BY <2>2, <3>1, <1>1, Bounds DEF AgentsTyped, RunOf
  <2> QED  BY <2>1, <2>2 DEF Synthesizes, Returns
<1>4. TypeOK'
  BY <1>1, <1>2, <1>3 DEF Inv, TypeOK, AgentsTyped, RunOf
<1>5. PoolIsSound'
  <2>1. \A j \in Members : agent'[j] = agent[j]
    BY <1>3, Bounds
  <2> QED  BY <1>2, <2>1 DEF Inv, PoolIsSound, Held, Running
<1>6. \A v \in Workers : slot[v] = Idle
  BY DEF Inv, PoolSawAll, Synthesizes, Returns, PoolEnds
<1>7. next = Roles + 1
  <2>1. CASE Returns
    BY <2>1 DEF Inv, PoolSawAll, Returns
  <2>2. CASE Synthesizes /\ Roles > 0
    BY <2>2, <1>6, SomeWorker DEF Inv, PoolSawAll, Synthesizes
  <2>3. CASE Roles = 0
    BY <2>3 DEF Inv, TypeOK
  <2> QED  BY <2>1, <2>2, <2>3, Bounds
<1>8. PoolSawAll'
  BY <1>2, <1>6, <1>7 DEF PoolSawAll
<1> QED  BY <1>4, <1>5, <1>8 DEF Inv

(* Every step keeps the invariant.                                         *)
LEMMA NextInv == Inv /\ [Next]_vars => Inv'
<1> SUFFICES ASSUME Inv, [Next]_vars PROVE Inv'
  OBVIOUS
<1>1. CASE SwarmStep
  BY <1>1, PoolStartsKeepsInv, MemberSettlesKeepsInv, SynthesisKeepsInv DEF SwarmStep
<1>2. CASE \E a \in Agents : Runs(a) \/ TimePasses(a)
  BY <1>2, AgentsKeepInv DEF Runs, TimePasses
<1>3. CASE CallerAborts
  BY <1>3, AgentsKeepInv DEF CallerAborts
<1>4. CASE UNCHANGED vars
  <2>1. TypeOK'
    BY <1>4 DEF vars, Inv, TypeOK
  <2>2. PoolIsSound' /\ PoolSawAll'
    BY <1>4 DEF vars, Inv, PoolIsSound, PoolSawAll, Held, Running
  <2> QED  BY <2>1, <2>2 DEF Inv
<1> QED  BY <1>1, <1>2, <1>3, <1>4 DEF Next

(* The inductive invariant holds in every reachable state of runSwarm().   *)
THEOREM Invariance == Spec => []Inv
BY InitInv, NextInv, PTL DEF Spec

(* All runs and the pool have their types, and no orchestrator has more    *)
(* turns than its options allow.                                           *)
THEOREM TypeCorrect == Spec => []TypeOK
<1>1. Inv => TypeOK
  BY DEF Inv
<1> QED  BY Invariance, <1>1, PTL

(* No role is run twice, lost, or recorded before its run is over, in      *)
(* whatever order the pool's workers get on.                               *)
THEOREM PoolSound == Spec => []PoolIsSound
<1>1. Inv => PoolIsSound
  BY DEF Inv
<1> QED  BY Invariance, <1>1, PTL

(* The synthesizer does not begin before all roles are recorded and no     *)
(* member runs.                                                            *)
THEOREM SynthesizerIsLast == Spec => []SynthesisLast
<1>1. Inv => SynthesisLast
  <2> SUFFICES ASSUME Inv, agent[Synthesizer].pc # "new", NEW i \in Members
               PROVE  member[i] # "none" /\ ~Running(i)
    BY DEF SynthesisLast
  <2>1. next = Roles + 1 /\ \A w \in Workers : slot[w] = Idle
    BY DEF Inv, TypeOK, PoolSawAll
  <2>2. ~Held(i) /\ ~(i >= next)
    BY <2>1, Bounds DEF Held, Members
  <2> QED  BY <2>2 DEF Inv, PoolIsSound
<1> QED  BY Invariance, <1>1, PTL

-----------------------------------------------------------------------------
(* What a run says of its end, and what it does after an abort             *)

(* The reason of a run that has halted is the true one.                    *)
Reasoned(a, r) ==
  /\ r.haltedBy = "final-answer" <=> r.last = "text"
  /\ r.haltedBy = "empty-response" <=>
       /\ r.last = "blank"
       /\ r.blanks > MaxEmptyTurns \/ r.iterations = MaxIterations[a]
  /\ r.haltedBy = "max-iterations" => r.iterations = MaxIterations[a]
  /\ r.haltedBy = "aborted" => signal
  /\ r.haltedBy = "timeout" => r.late

(* The calls of memoryInLoop after the tools of a turn.                    *)
NoteCalls(a) == IF a \in InLoop THEN 2 ELSE 0

(* The turns of the driver a run may still begin after the signal.         *)
TurnsLeft(a) == IF a \in Inspects THEN 1 ELSE 0

(* The most calls a run has begun after the signal, by the place it is at. *)
CallsBy(a, r) ==
  CASE r.pc = "recall" -> 1
    [] r.pc = "ground" -> 2
    [] r.pc = "tools" -> MaxTools + 1 - r.left
    [] r.pc = "note" -> MaxTools + 1
    [] r.pc = "refresh" -> MaxTools + 2
    [] r.pc = "log" -> MaxTools + 1 + NoteCalls(a)
    [] OTHER -> 0

(* What holds of a run at every await: the streak it counts is the true    *)
(* one, the kind of its last turn fits its place, and a turn of the driver *)
(* has no calls behind it that were made after the signal.                 *)
RunSound(a, r) ==
  /\ r.pc # "log" => r.empty = r.blanks
  /\ r.pc \in {"recall", "ground"} => r.last = "none"
  /\ r.pc \in {"tools", "note", "refresh"} => r.last = "tools"
  /\ r.pc \in {"note", "refresh"} => a \in InLoop
  /\ r.pc \in {"inspect", "chat"} => r.last # "text"
  /\ r.pc = "log" => Reasoned(a, r)
  /\ r.calls <= CallsBy(a, r)
  /\ r.turns <= TurnsLeft(a)
  /\ r.pc = "inspect" => r.turns = 0 /\ a \in Inspects
  /\ ~signal => r.calls = 0 /\ r.turns = 0

RunsSound == \A a \in Agents : RunSound(a, agent[a])

(* A new run, or one that is over, is sound.                               *)
LEMMA BlankSound ==
  ASSUME NEW a \in Agents, NEW r, r.pc \in {"new"} \union Over, r.calls = 0, r.turns = 0,
         r.empty = 0, r.blanks = 0
  PROVE  RunSound(a, r)
<1>1. CallsBy(a, r) = 0
  BY DEF CallsBy, Over
<1>2. 0 <= TurnsLeft(a)
  BY DEF TurnsLeft
<1> QED  BY <1>1, <1>2 DEF RunSound, Over

(* What a call changes in its run.                                         *)
LEMMA CallingFields ==
  ASSUME NEW a \in Agents, NEW r \in RunOf(a), NEW pc \in HostCalls
  PROVE  LET s == Calling(r, pc)
         IN  /\ s.pc = pc /\ s.calls = IF signal THEN r.calls + 1 ELSE r.calls
             /\ s.empty = r.empty /\ s.blanks = r.blanks /\ s.last = r.last
             /\ s.turns = r.turns /\ s.left = r.left /\ s.iterations = r.iterations
             /\ s.haltedBy = r.haltedBy /\ s.late = r.late
<1>1. \A call, n :
        LET s == [r EXCEPT !.pc = pc, !.call = call, !.calls = n]
        IN  /\ s.pc = pc /\ s.calls = n
            /\ s.empty = r.empty /\ s.blanks = r.blanks /\ s.last = r.last
            /\ s.turns = r.turns /\ s.left = r.left /\ s.iterations = r.iterations
            /\ s.haltedBy = r.haltedBy /\ s.late = r.late
  BY DEF RunOf, RunType
<1>2. Calling(r, pc) = [r EXCEPT !.pc = pc, !.call = IF signal THEN "deaf" ELSE "live",
                                 !.calls = IF signal THEN r.calls + 1 ELSE r.calls]
  BY DEF Calling
<1> QED  BY <1>1, <1>2

(* The numbers of a run.                                                   *)
LEMMA RunNumbers ==
  ASSUME NEW a \in Agents, NEW r \in RunOf(a)
  PROVE  /\ r.calls \in Nat /\ r.turns \in Nat /\ r.iterations \in Nat
         /\ r.empty \in Nat /\ r.blanks \in Nat /\ r.left \in 0 .. MaxTools /\ r.left \in Nat
         /\ r.iterations <= MaxIterations[a] /\ MaxIterations[a] \in Nat
         /\ NoteCalls(a) \in Nat /\ TurnsLeft(a) \in Nat
BY Bounds DEF RunOf, RunType, NoteCalls, TurnsLeft

(* It sets the reason and the answer, and nothing else.                    *)
LEMMA HaltedFields ==
  ASSUME NEW a \in Agents, NEW r \in RunOf(a), NEW why \in Reasons, NEW x \in Answers
  PROVE  LET h == HaltedWith(r, why, x)
         IN  /\ h \in RunOf(a) /\ h.haltedBy = why
             /\ h.calls = r.calls /\ h.turns = r.turns /\ h.iterations = r.iterations
             /\ h.empty = r.empty /\ h.blanks = r.blanks /\ h.last = r.last
             /\ h.late = r.late
<1> DEFINE h == HaltedWith(r, why, x)
<1>1. h \in RunOf(a)
  BY HaltedWithType
<1>2. /\ h.haltedBy = why
      /\ h.calls = r.calls /\ h.turns = r.turns /\ h.iterations = r.iterations
      /\ h.empty = r.empty /\ h.blanks = r.blanks /\ h.last = r.last
      /\ h.late = r.late
  BY DEF RunOf, RunType, HaltedWith
<1> QED  BY <1>1, <1>2

(* A run that halts for a reason that is true is sound.                    *)
LEMMA HaltedSound ==
  ASSUME signal \in BOOLEAN, NEW a \in Agents, NEW r \in RunOf(a), NEW why \in Reasons,
         r.calls <= MaxTools + NoteCalls(a), r.turns <= TurnsLeft(a),
         ~signal => r.calls = 0 /\ r.turns = 0,
         why = "final-answer" <=> r.last = "text",
         why = "empty-response" <=>
           /\ r.last = "blank"
           /\ r.blanks > MaxEmptyTurns \/ r.iterations = MaxIterations[a],
         why = "max-iterations" => r.iterations = MaxIterations[a],
         why = "aborted" => signal,
         why = "timeout" => r.late
  PROVE  RunSound(a, Halted(a, r, why))
<1> DEFINE answer == IF why = "final-answer" THEN "final"
                     ELSE IF r.text = "none" THEN "placeholder" ELSE r.text
           halted == HaltedWith(r, why, answer)
<1>1. /\ halted \in RunOf(a) /\ halted.haltedBy = why
      /\ halted.calls = r.calls /\ halted.turns = r.turns /\ halted.iterations = r.iterations
      /\ halted.empty = r.empty /\ halted.blanks = r.blanks /\ halted.last = r.last
      /\ halted.late = r.late
  <2>1. answer \in Answers
    BY DEF RunOf, RunType, Answers
  <2> HIDE DEF answer
  <2> QED  BY <2>1, HaltedFields
<1>2. Halted(a, r, why) = IF a \in Remembers THEN Calling(halted, "log") ELSE Returned(halted)
  BY DEF Halted, HaltedWith
<1> HIDE DEF halted
<1>3. CASE a \in Remembers
  <2> DEFINE s == Calling(halted, "log")
  <2>1. /\ s.pc = "log" /\ s.calls = IF signal THEN r.calls + 1 ELSE r.calls
        /\ s.empty = r.empty /\ s.blanks = r.blanks /\ s.last = r.last
        /\ s.turns = r.turns /\ s.iterations = r.iterations
        /\ s.haltedBy = why /\ s.late = r.late
    <3>1. "log" \in HostCalls
      BY DEF HostCalls
    <3> QED  BY <1>1, <3>1, CallingFields
  <2> HIDE DEF s
  <2>2. Reasoned(a, s)
    BY <2>1 DEF Reasoned
  <2>3. s.calls <= CallsBy(a, s)
    <3>1. CallsBy(a, s) = MaxTools + 1 + NoteCalls(a)
      BY <2>1 DEF CallsBy
    <3> QED  BY <2>1, <3>1, RunNumbers, Bounds
  <2>4. RunSound(a, s)
    BY <2>1, <2>2, <2>3 DEF RunSound
  <2> QED  BY <1>2, <1>3, <2>4 DEF s
<1>4. CASE a \notin Remembers
  <2>1. /\ Returned(halted).pc \in {"new"} \union Over
        /\ Returned(halted).calls = 0 /\ Returned(halted).turns = 0
        /\ Returned(halted).empty = 0 /\ Returned(halted).blanks = 0
    BY DEF Returned, NewRun, Over
  <2> QED  BY <1>2, <1>4, <2>1, BlankSound
<1> QED  BY <1>3, <1>4

(* So is one that passes the head of the loop, when no turn has halted it. *)
LEMMA LoopHeadSound ==
  ASSUME signal \in BOOLEAN, NEW a \in Agents, NEW r \in RunOf(a),
         r.empty = r.blanks, r.last # "text",
         r.last = "blank" => r.blanks <= MaxEmptyTurns /\ r.iterations < MaxIterations[a],
         r.calls <= MaxTools + NoteCalls(a), r.turns <= TurnsLeft(a),
         ~signal => r.calls = 0 /\ r.turns = 0
  PROVE  RunSound(a, LoopHead(a, r))
<1>0. /\ r.calls \in Nat /\ r.turns \in Nat /\ r.iterations \in Nat /\ r.blanks \in Nat
      /\ r.iterations <= MaxIterations[a] /\ MaxIterations[a] \in Nat
      /\ MaxEmptyTurns \in Nat /\ TurnsLeft(a) \in Nat
  BY RunNumbers, Bounds
<1>1. ~(r.last = "blank" /\ (r.blanks > MaxEmptyTurns \/ r.iterations = MaxIterations[a]))
  BY <1>0
<1>2. CASE r.iterations >= MaxIterations[a]
  <2>1. LoopHead(a, r) = Halted(a, r, "max-iterations")
    BY <1>2 DEF LoopHead
  <2>2. r.iterations = MaxIterations[a]
    BY <1>0, <1>2
  <2> QED  BY <1>1, <2>1, <2>2, HaltedSound DEF Reasons
<1>3. CASE ~(r.iterations >= MaxIterations[a]) /\ signal
  <2>1. LoopHead(a, r) = Halted(a, r, "aborted")
    BY <1>3 DEF LoopHead
  <2> QED  BY <1>1, <1>3, <2>1, HaltedSound DEF Reasons
<1>4. CASE ~(r.iterations >= MaxIterations[a]) /\ ~signal /\ r.late
  <2>1. LoopHead(a, r) = Halted(a, r, "timeout")
    BY <1>4 DEF LoopHead
  <2> QED  BY <1>1, <1>4, <2>1, HaltedSound DEF Reasons
<1>5. CASE ~(r.iterations >= MaxIterations[a]) /\ ~signal /\ ~r.late
  <2>1. LoopHead(a, r) =
          IF a \in Inspects
          THEN [r EXCEPT !.pc = "inspect", !.call = "none", !.iterations = @ + 1]
          ELSE Turn([r EXCEPT !.iterations = @ + 1])
    BY <1>5 DEF LoopHead
  <2>2. \A s : /\ s.pc \in {"inspect", "chat"} /\ s.calls = 0 /\ s.turns = 0
               /\ s.empty = r.empty /\ s.blanks = r.blanks /\ s.last = r.last
               /\ s.pc = "inspect" => a \in Inspects
               => RunSound(a, s)
    <3>1. ASSUME NEW s, s.pc \in {"inspect", "chat"}  PROVE CallsBy(a, s) = 0
      BY <3>1 DEF CallsBy
    <3> QED  BY <1>0, <3>1 DEF RunSound
  <2>3. CASE a \in Inspects
    <3>1. LET s == [r EXCEPT !.pc = "inspect", !.call = "none", !.iterations = @ + 1]
          IN  /\ s.pc = "inspect" /\ s.calls = r.calls /\ s.turns = r.turns
              /\ s.empty = r.empty /\ s.blanks = r.blanks /\ s.last = r.last
      BY DEF RunOf, RunType
    <3> QED  BY <1>5, <2>1, <2>2, <2>3, <3>1
  <2>4. CASE a \notin Inspects
    <3>1. LET s == Turn([r EXCEPT !.iterations = @ + 1])
          IN  /\ s.pc = "chat" /\ s.calls = r.calls /\ s.turns = r.turns
              /\ s.empty = r.empty /\ s.blanks = r.blanks /\ s.last = r.last
      BY <1>5 DEF RunOf, RunType, Turn
    <3> QED  BY <1>5, <2>1, <2>2, <2>4, <3>1
  <2> QED  BY <2>3, <2>4
<1> QED  BY <1>2, <1>3, <1>4, <1>5

(* A call keeps what is true of the run it is made for.                    *)
LEMMA CallSound ==
  ASSUME signal \in BOOLEAN, NEW a \in Agents, NEW r \in RunOf(a), NEW pc \in HostCalls \ {"log"},
         r.empty = r.blanks, r.turns <= TurnsLeft(a), ~signal => r.calls = 0 /\ r.turns = 0,
         pc \in {"recall", "ground"} => r.last = "none",
         pc \in {"tools", "note", "refresh"} => r.last = "tools",
         pc \in {"note", "refresh"} => a \in InLoop,
         pc = "recall" => r.calls = 0,
         pc = "ground" => r.calls <= 1,
         pc = "tools" => r.calls <= MaxTools - r.left,
         pc = "note" => r.calls <= MaxTools,
         pc = "refresh" => r.calls <= MaxTools + 1
  PROVE  RunSound(a, Calling(r, pc))
<1> DEFINE s == Calling(r, pc)
<1>1. /\ s.pc = pc /\ s.calls = IF signal THEN r.calls + 1 ELSE r.calls
      /\ s.empty = r.empty /\ s.blanks = r.blanks /\ s.last = r.last
      /\ s.turns = r.turns /\ s.left = r.left
  BY CallingFields
<1> HIDE DEF s
<1>2. r.calls \in Nat /\ r.left \in Nat /\ MaxTools \in Nat /\ r.left <= MaxTools
  BY RunNumbers, Bounds
<1>3. s.calls <= r.calls + 1
  BY <1>1, <1>2
<1>4. s.calls <= CallsBy(a, s)
  <2>1. pc \in {"recall", "ground", "tools", "note", "refresh"}
    BY DEF HostCalls
  <2>2. CASE pc = "recall"
    BY <1>1, <1>2, <1>3, <2>2 DEF CallsBy
  <2>3. CASE pc = "ground"
    BY <1>1, <1>2, <1>3, <2>3 DEF CallsBy
  <2>4. CASE pc = "tools"
    <3>1. CallsBy(a, s) = MaxTools + 1 - r.left
      BY <1>1, <2>4 DEF CallsBy
    <3> QED  BY <1>1, <1>2, <1>3, <2>4, <3>1
  <2>5. CASE pc = "note"
    BY <1>1, <1>2, <1>3, <2>5 DEF CallsBy
  <2>6. CASE pc = "refresh"
    BY <1>1, <1>2, <1>3, <2>6 DEF CallsBy
  <2> QED  BY <2>1, <2>2, <2>3, <2>4, <2>5, <2>6
<1>5. pc \in {"recall", "ground", "tools", "note", "refresh"}
  BY DEF HostCalls
<1>6. ~signal => s.calls = 0 /\ s.turns = 0
  BY <1>1
<1>7. s.empty = s.blanks /\ s.turns <= TurnsLeft(a)
  BY <1>1
<1>8. RunSound(a, s)
  BY <1>1, <1>4, <1>5, <1>6, <1>7 DEF RunSound
<1> QED  BY <1>8 DEF s

(* A run that is started is sound.                                         *)
LEMMA StartedSound ==
  ASSUME signal \in BOOLEAN, NEW a \in Agents, NEW s \in Started(a)
  PROVE  RunSound(a, s)
<1>0. /\ NewRun \in RunOf(a) /\ NewRun.empty = 0 /\ NewRun.blanks = 0 /\ NewRun.last = "none"
      /\ NewRun.calls = 0 /\ NewRun.turns = 0 /\ 0 <= TurnsLeft(a) /\ TurnsLeft(a) \in Nat
      /\ 0 <= MaxTools + NoteCalls(a)
  BY NewRunType, Bounds DEF NewRun, TurnsLeft, NoteCalls
<1>1. RunSound(a, Calling(NewRun, "recall"))
  BY <1>0, CallSound DEF HostCalls
<1>2. RunSound(a, Calling(NewRun, "ground"))
  BY <1>0, CallSound DEF HostCalls
<1>3. RunSound(a, LoopHead(a, NewRun))
  BY <1>0, LoopHeadSound
<1> QED  BY <1>1, <1>2, <1>3 DEF Started, Grounded

(* A call that settles takes a sound run to a sound run.                   *)
LEMMA CallSettlesSound ==
  ASSUME AgentsTyped, RunsSound, signal \in BOOLEAN, NEW a \in Agents, CallSettles(a)
  PROVE  \E s : RunSound(a, s) /\ Becomes(a, s)
<1> DEFINE r == agent[a]
<1>r. r \in RunOf(a) /\ RunSound(a, r)
  BY DEF AgentsTyped, RunsSound
<1>f. /\ r.pc # "log" => r.empty = r.blanks
      /\ r.turns <= TurnsLeft(a) /\ (~signal => r.calls = 0 /\ r.turns = 0)
      /\ r.calls <= CallsBy(a, r)
      /\ r.pc \in {"recall", "ground"} => r.last = "none"
      /\ r.pc \in {"tools", "note", "refresh"} => r.last = "tools"
      /\ r.pc \in {"note", "refresh"} => a \in InLoop
  BY <1>r DEF RunSound
<1>n. /\ r.calls \in Nat /\ r.left \in Nat /\ MaxTools \in Nat /\ MaxTools > 1 /\ r.left <= MaxTools
      /\ NoteCalls(a) \in Nat /\ NoteCalls(a) = IF a \in InLoop THEN 2 ELSE 0
  BY <1>r, RunNumbers, Bounds DEF NoteCalls
<1>h. {"ground", "tools", "note", "refresh"} \subseteq HostCalls \ {"log"}
  BY DEF HostCalls
<1>1. CASE r.pc = "recall" /\ \E s \in Grounded(a, r) : Becomes(a, s)
  <2>1. r.calls <= 1 /\ r.calls <= MaxTools + NoteCalls(a)
    BY <1>1, <1>f, <1>n DEF CallsBy
  <2>2. RunSound(a, Calling(r, "ground"))
    BY <1>1, <1>r, <1>f, <1>h, <2>1, CallSound
  <2>3. RunSound(a, LoopHead(a, r))
    BY <1>1, <1>r, <1>f, <2>1, LoopHeadSound
  <2> QED  BY <1>1, <2>2, <2>3 DEF Grounded
<1>2. CASE r.pc \in {"ground", "refresh"} /\ Becomes(a, LoopHead(a, r))
  <2>1. r.calls <= MaxTools + NoteCalls(a)
    BY <1>2, <1>f, <1>n DEF CallsBy
  <2>2. r.last # "text" /\ r.last # "blank" /\ r.empty = r.blanks
    BY <1>2, <1>f
  <2>3. RunSound(a, LoopHead(a, r))
    BY <1>r, <1>f, <2>1, <2>2, LoopHeadSound
  <2> QED  BY <1>2, <2>3
<1>3. CASE /\ r.pc = "tools" /\ r.left > 1
           /\ Becomes(a, Calling([r EXCEPT !.left = @ - 1], "tools"))
  <2> DEFINE t == [r EXCEPT !.left = @ - 1]
  <2>1. t \in RunOf(a)
    <3>1. \A n \in 0 .. MaxTools : [r EXCEPT !.left = n] \in RunOf(a)
      BY <1>r DEF RunOf, RunType
    <3>2. r.left - 1 \in 0 .. MaxTools
      BY <1>3, <1>n
    <3> QED  BY <3>1, <3>2
  <2>2. /\ t.left = r.left - 1 /\ t.empty = r.empty /\ t.blanks = r.blanks /\ t.last = r.last
        /\ t.calls = r.calls /\ t.turns = r.turns
    BY <1>r DEF RunOf, RunType
  <2>3. Becomes(a, Calling(t, "tools"))
    BY <1>3
  <2> HIDE DEF t
  <2>4. t.calls <= MaxTools - t.left
    <3>1. CallsBy(a, r) = MaxTools + 1 - r.left
      BY <1>3 DEF CallsBy
    <3> QED  BY <1>3, <1>f, <1>n, <2>2, <3>1
  <2>5. RunSound(a, Calling(t, "tools"))
    BY <1>3, <1>f, <1>h, <2>1, <2>2, <2>4, CallSound
  <2> QED  BY <2>3, <2>5
<1>4. CASE /\ r.pc = "tools" /\ r.left = 1
           /\ LET s == [r EXCEPT !.left = 0]
              IN  Becomes(a, IF a \in InLoop THEN Calling(s, "note") ELSE LoopHead(a, s))
  <2> DEFINE t == [r EXCEPT !.left = 0]
  <2>1. t \in RunOf(a)
    BY <1>r, Bounds DEF RunOf, RunType
  <2>2. /\ t.empty = r.empty /\ t.blanks = r.blanks /\ t.last = r.last
        /\ t.calls = r.calls /\ t.turns = r.turns
    BY <1>r DEF RunOf, RunType
  <2>3. Becomes(a, IF a \in InLoop THEN Calling(t, "note") ELSE LoopHead(a, t))
    BY <1>4
  <2> HIDE DEF t
  <2>4. t.calls <= MaxTools /\ t.calls <= MaxTools + NoteCalls(a)
    <3>1. CallsBy(a, r) = MaxTools + 1 - r.left
      BY <1>4 DEF CallsBy
    <3> QED  BY <1>4, <1>f, <1>n, <2>2, <3>1
  <2>5. a \in InLoop => RunSound(a, Calling(t, "note"))
    BY <1>4, <1>f, <1>h, <2>1, <2>2, <2>4, CallSound
  <2>6. RunSound(a, LoopHead(a, t))
    BY <1>4, <1>f, <2>1, <2>2, <2>4, LoopHeadSound
  <2> QED  BY <2>3, <2>5, <2>6
<1>5. CASE r.pc = "note" /\ Becomes(a, Calling(r, "refresh"))
  <2>1. r.calls <= MaxTools + 1
    BY <1>5, <1>f, <1>n DEF CallsBy
  <2>2. RunSound(a, Calling(r, "refresh"))
    BY <1>5, <1>r, <1>f, <1>h, <2>1, CallSound
  <2> QED  BY <1>5, <2>2
<1>6. CASE r.pc = "log" /\ Becomes(a, Returned(r))
  <2>1. /\ Returned(r).pc \in {"new"} \union Over
        /\ Returned(r).calls = 0 /\ Returned(r).turns = 0
        /\ Returned(r).empty = 0 /\ Returned(r).blanks = 0
    BY DEF Returned, NewRun, Over
  <2> QED  BY <1>6, <2>1, BlankSound
<1> QED  BY <1>1, <1>2, <1>3, <1>4, <1>5, <1>6 DEF CallSettles

(* So does a turn of the driver.                                           *)
LEMMA TurnSound ==
  ASSUME AgentsTyped, RunsSound, signal \in BOOLEAN, NEW a \in Agents,
         Inspected(a) \/ ChatThrows(a) \/ BlankTurn(a) \/ FinalTurn(a) \/ ToolTurn(a)
  PROVE  \E s : RunSound(a, s) /\ Becomes(a, s)
<1> DEFINE r == agent[a]
<1>r. r \in RunOf(a) /\ RunSound(a, r)
  BY DEF AgentsTyped, RunsSound
<1>f. /\ r.pc # "log" => r.empty = r.blanks
      /\ r.turns <= TurnsLeft(a) /\ (~signal => r.calls = 0 /\ r.turns = 0)
      /\ r.pc \in {"inspect", "chat"} => r.last # "text" /\ r.calls = 0
      /\ r.pc = "inspect" => r.turns = 0 /\ a \in Inspects
  <2>1. r.pc \in {"inspect", "chat"} => CallsBy(a, r) = 0
    BY DEF CallsBy
  <2>2. r.calls \in Nat
    BY <1>r, RunNumbers
  <2> QED  BY <1>r, <2>1, <2>2 DEF RunSound
<1>n. /\ r.calls \in Nat /\ r.blanks \in Nat /\ r.turns \in Nat
      /\ r.iterations \in Nat /\ r.iterations <= MaxIterations[a] /\ MaxIterations[a] \in Nat
      /\ MaxTools \in Nat /\ MaxTools > 1 /\ MaxEmptyTurns \in Nat
      /\ NoteCalls(a) \in Nat /\ TurnsLeft(a) \in Nat
  BY <1>r, RunNumbers, Bounds
<1>1. CASE Inspected(a)
  <2>1. r.pc = "inspect" /\ Becomes(a, Turn(r))
    BY <1>1 DEF Inspected
  <2>2. /\ Turn(r).pc = "chat" /\ Turn(r).turns = IF signal THEN r.turns + 1 ELSE r.turns
        /\ Turn(r).calls = r.calls /\ Turn(r).empty = r.empty /\ Turn(r).blanks = r.blanks
        /\ Turn(r).last = r.last
    BY <1>r DEF Turn, RunOf, RunType
  <2>3. TurnsLeft(a) = 1
    BY <1>f, <2>1 DEF TurnsLeft
  <2>4. CallsBy(a, Turn(r)) = 0
    BY <2>2 DEF CallsBy
  <2>5. RunSound(a, Turn(r))
    BY <1>f, <1>n, <2>1, <2>2, <2>3, <2>4 DEF RunSound
  <2> QED  BY <2>1, <2>5
<1>2. CASE ChatThrows(a)
  <2> DEFINE s == [NewRun EXCEPT !.pc = "threw"]
  <2>1. /\ s.pc \in {"new"} \union Over /\ s.calls = 0 /\ s.turns = 0
        /\ s.empty = 0 /\ s.blanks = 0
    BY DEF NewRun, Over
  <2>2. Becomes(a, s)
    BY <1>2 DEF ChatThrows
  <2> HIDE DEF s
  <2> QED  BY <2>1, <2>2, BlankSound
<1>3. CASE BlankTurn(a)
  <2> DEFINE b == [r EXCEPT !.empty = @ + 1, !.blanks = @ + 1, !.last = "blank"]
  <2>0. r.pc = "chat"
    BY <1>3 DEF BlankTurn
  <2>1. b \in RunOf(a)
    <3>1. \A m, n \in Nat :
            [r EXCEPT !.empty = m, !.blanks = n, !.last = "blank"] \in RunOf(a)
      BY <1>r DEF RunOf, RunType
    <3>2. r.empty + 1 \in Nat /\ r.blanks + 1 \in Nat
      BY <1>r DEF RunOf, RunType
    <3> QED  BY <3>1, <3>2
  <2>2. /\ b.empty = r.empty + 1 /\ b.blanks = r.blanks + 1 /\ b.last = "blank"
        /\ b.calls = r.calls /\ b.turns = r.turns /\ b.iterations = r.iterations
    BY <1>r DEF RunOf, RunType
  <2>3. IF b.empty > MaxEmptyTurns \/ b.iterations >= MaxIterations[a]
        THEN Becomes(a, Halted(a, b, "empty-response"))
        ELSE \E x \in {b.text, "space"} : Becomes(a, LoopHead(a, [b EXCEPT !.text = x]))
    BY <1>3 DEF BlankTurn
  <2> HIDE DEF b
  <2>4. /\ b.calls <= MaxTools + NoteCalls(a) /\ b.turns <= TurnsLeft(a) /\ b.empty = b.blanks
        /\ ~signal => b.calls = 0 /\ b.turns = 0
    BY <1>f, <1>n, <2>0, <2>2
  <2>5. CASE b.empty > MaxEmptyTurns \/ b.iterations >= MaxIterations[a]
    <3>1. b.blanks > MaxEmptyTurns \/ b.iterations = MaxIterations[a]
      BY <1>n, <2>2, <2>4, <2>5
    <3>2. RunSound(a, Halted(a, b, "empty-response"))
      BY <2>1, <2>2, <2>4, <3>1, HaltedSound DEF Reasons
    <3> QED  BY <2>3, <2>5, <3>2
  <2>6. CASE ~(b.empty > MaxEmptyTurns \/ b.iterations >= MaxIterations[a])
    <3>1. PICK x \in {b.text, "space"} : Becomes(a, LoopHead(a, [b EXCEPT !.text = x]))
      BY <2>3, <2>6
    <3> DEFINE t == [b EXCEPT !.text = x]
    <3>2. t \in RunOf(a)
      BY <2>1 DEF RunOf, RunType
    <3>3. /\ t.empty = b.empty /\ t.blanks = b.blanks /\ t.last = b.last
          /\ t.calls = b.calls /\ t.turns = b.turns /\ t.iterations = b.iterations
      BY <2>1 DEF RunOf, RunType
    <3>4. Becomes(a, LoopHead(a, t))
      BY <3>1
    <3> HIDE DEF t
    <3>5. t.blanks <= MaxEmptyTurns /\ t.iterations < MaxIterations[a]
      BY <1>n, <2>2, <2>4, <2>6, <3>3
    <3>6. RunSound(a, LoopHead(a, t))
      BY <2>2, <2>4, <3>2, <3>3, <3>5, LoopHeadSound
    <3> QED  BY <3>4, <3>6
  <2> QED  BY <2>5, <2>6
<1>4. CASE FinalTurn(a)
  <2> DEFINE b == [r EXCEPT !.blanks = 0, !.last = "text"]
  <2>1. b \in RunOf(a)
    BY <1>r DEF RunOf, RunType
  <2>2. /\ b.last = "text" /\ b.calls = r.calls /\ b.turns = r.turns
        /\ b.iterations = r.iterations
    BY <1>r DEF RunOf, RunType
  <2>3. Becomes(a, Halted(a, b, "final-answer")) /\ r.pc = "chat"
    BY <1>4 DEF FinalTurn
  <2> HIDE DEF b
  <2>4. /\ b.calls <= MaxTools + NoteCalls(a) /\ b.turns <= TurnsLeft(a)
        /\ ~signal => b.calls = 0 /\ b.turns = 0
    BY <1>f, <1>n, <2>2, <2>3
  <2>5. RunSound(a, Halted(a, b, "final-answer"))
    BY <2>1, <2>2, <2>4, HaltedSound DEF Reasons
  <2> QED  BY <2>3, <2>5
<1>5. CASE ToolTurn(a)
  <2>1. PICK n \in 1 .. MaxTools, x \in {r.text, "space", "text"} :
          Becomes(a, Calling([r EXCEPT !.empty = 0, !.left = n, !.text = x,
                                       !.blanks = 0, !.last = "tools"], "tools"))
    BY <1>5 DEF ToolTurn
  <2> DEFINE b == [r EXCEPT !.empty = 0, !.left = n, !.text = x, !.blanks = 0, !.last = "tools"]
  <2>2. b \in RunOf(a)
    <3>1. \A m \in 0 .. MaxTools, y \in {"none", "space", "text"} :
            [r EXCEPT !.empty = 0, !.left = m, !.text = y, !.blanks = 0, !.last = "tools"]
              \in RunOf(a)
      BY <1>r DEF RunOf, RunType
    <3>2. n \in 0 .. MaxTools /\ x \in {"none", "space", "text"}
      BY <1>r, Bounds DEF RunOf, RunType
    <3> QED  BY <3>1, <3>2
  <2>3. /\ b.empty = 0 /\ b.blanks = 0 /\ b.last = "tools" /\ b.left = n
        /\ b.calls = r.calls /\ b.turns = r.turns
    BY <1>r DEF RunOf, RunType
  <2>4. Becomes(a, Calling(b, "tools")) /\ r.pc = "chat"
    BY <1>5, <2>1 DEF ToolTurn
  <2> HIDE DEF b
  <2>5. b.calls <= MaxTools - b.left
    BY <1>f, <1>n, <2>3, <2>4
  <2>6. RunSound(a, Calling(b, "tools"))
    BY <1>f, <2>2, <2>3, <2>4, <2>5, CallSound DEF HostCalls
  <2> QED  BY <2>4, <2>6
<1> QED  BY <1>1, <1>2, <1>3, <1>4, <1>5

(* A run that becomes a sound one leaves the others as they are.           *)
LEMMA BecomesSound ==
  ASSUME AgentsTyped, RunsSound, UNCHANGED signal,
         NEW a \in Agents, NEW s, RunSound(a, s), Becomes(a, s)
  PROVE  RunsSound'
<1>1. \A x \in Agents : RunSound(x, agent'[x])
  BY DEF Becomes, AgentsTyped, RunsSound
<1> QED  BY <1>1 DEF RunsSound, RunSound, Reasoned

(* The runs are sound after a step of theirs, a deadline or the signal.    *)
LEMMA StepSound ==
  ASSUME AgentsTyped, RunsSound, signal \in BOOLEAN,
         \/ \E a \in Agents : AgentStep(a) \/ DeadlinePasses(a)
         \/ Aborts
  PROVE  RunsSound'
<1>1. ASSUME NEW a \in Agents, AgentStep(a)  PROVE RunsSound'
  <2>1. UNCHANGED signal
    BY <1>1 DEF AgentStep, CallSettles, Inspected, ChatThrows, BlankTurn, FinalTurn, ToolTurn
  <2>2. PICK s : RunSound(a, s) /\ Becomes(a, s)
    BY <1>1, CallSettlesSound, TurnSound DEF AgentStep
  <2> QED  BY <2>1, <2>2, BecomesSound
<1>2. ASSUME NEW a \in Agents, DeadlinePasses(a)  PROVE RunsSound'
  <2> DEFINE r == agent[a]
             s == [r EXCEPT !.late = TRUE]
  <2>1. r \in RunOf(a) /\ RunSound(a, r)
    BY DEF AgentsTyped, RunsSound
  <2>2. /\ s.pc = r.pc /\ s.empty = r.empty /\ s.blanks = r.blanks /\ s.last = r.last
        /\ s.calls = r.calls /\ s.turns = r.turns /\ s.left = r.left
        /\ s.iterations = r.iterations /\ s.haltedBy = r.haltedBy /\ s.late = TRUE
    BY <2>1 DEF RunOf, RunType
  <2>3. Becomes(a, s) /\ UNCHANGED signal
    BY <1>2 DEF DeadlinePasses, Becomes
  <2> HIDE DEF s
  <2>4. CallsBy(a, s) = CallsBy(a, r)
    BY <2>2 DEF CallsBy
  <2>5. Reasoned(a, r) => Reasoned(a, s)
    BY <2>2 DEF Reasoned
  <2>6. RunSound(a, s)
    BY <2>1, <2>2, <2>4, <2>5 DEF RunSound
  <2> QED  BY <2>3, <2>6, BecomesSound
<1>3. CASE Aborts
  <2> SUFFICES ASSUME NEW a \in Agents PROVE RunSound(a, agent[a])'
    BY DEF RunsSound
  <2> DEFINE r == agent[a]
             s == agent'[a]
  <2>1. r \in RunOf(a) /\ RunSound(a, r) /\ signal' = TRUE
    BY <1>3 DEF AgentsTyped, RunsSound, Aborts
  <2>2. /\ s.pc = r.pc /\ s.empty = r.empty /\ s.blanks = r.blanks /\ s.last = r.last
        /\ s.calls = r.calls /\ s.turns = r.turns /\ s.left = r.left
        /\ s.iterations = r.iterations /\ s.haltedBy = r.haltedBy /\ s.late = r.late
    <3>1. s = r \/ s = [r EXCEPT !.call = "cut"]
      BY <1>3 DEF Aborts
    <3> QED  BY <2>1, <3>1 DEF RunOf, RunType
  <2>3. CallsBy(a, s) = CallsBy(a, r)
    BY <2>2 DEF CallsBy
  <2>4. Reasoned(a, r) => Reasoned(a, agent[a])'
    BY <2>1, <2>2 DEF Reasoned
  <2> QED  BY <2>1, <2>2, <2>3, <2>4 DEF RunSound
<1> QED  BY <1>1, <1>2, <1>3

(* Runs are sound at first.                                                *)
LEMMA InitSound == Init => RunsSound
<1> SUFFICES ASSUME Init, NEW a \in Agents PROVE RunSound(a, NewRun)
  BY DEF Init, RunsSound
<1>1. /\ NewRun.pc = "new" /\ NewRun.calls = 0 /\ NewRun.turns = 0
      /\ NewRun.empty = 0 /\ NewRun.blanks = 0
  BY DEF NewRun
<1> QED  BY <1>1, BlankSound

(* The swarm starts sound runs, and leaves the others as they are.         *)
LEMMA SwarmSound ==
  ASSUME Inv, RunsSound, SwarmStep
  PROVE  RunsSound'
<1>1. AgentsTyped /\ signal \in BOOLEAN
  BY AgentsTypedIff DEF Inv, TypeOK
<1>2. UNCHANGED signal
  BY DEF SwarmStep, PoolStarts, MemberSettles, Synthesizes, Returns, Pulls
<1>3. CASE UNCHANGED agent
  BY <1>2, <1>3 DEF RunsSound, RunSound, Reasoned
<1>4. ASSUME NEW i \in Agents, NEW r \in Started(i), agent' = [agent EXCEPT ![i] = r]
      PROVE  RunsSound'
  <2>1. RunSound(i, r)
    BY <1>1, StartedSound
  <2> QED  BY <1>1, <1>2, <1>4, <2>1, BecomesSound DEF Becomes
<1>5. ASSUME NEW w \in Workers, NEW recorded, Pulls(w, recorded)  PROVE RunsSound'
  <2>1. PICK i \in next .. Roles + 1 :
          IF HasRole(i) THEN \E r \in Started(i) : agent' = [agent EXCEPT ![i] = r]
                        ELSE UNCHANGED agent
    BY <1>5 DEF Pulls
  <2>2. HasRole(i) => i \in Agents
    <3>1. next \in 1 .. Roles + 1
      BY DEF Inv, TypeOK
    <3> QED  BY <3>1, Bounds DEF HasRole, Members
  <2> QED  BY <1>3, <1>4, <2>1, <2>2
<1>6. CASE PoolStarts
  BY <1>3, <1>5, <1>6 DEF PoolStarts
<1>7. CASE \E w \in Workers : MemberSettles(w)
  BY <1>5, <1>7 DEF MemberSettles
<1>8. CASE Synthesizes
  BY <1>3, <1>4, <1>8, Bounds DEF Synthesizes
<1>9. CASE Returns
  BY <1>3, <1>9 DEF Returns
<1> QED  BY <1>6, <1>7, <1>8, <1>9 DEF SwarmStep

(* Every step keeps the runs sound.                                        *)
LEMMA NextSound == Inv /\ RunsSound /\ [Next]_vars => RunsSound'
<1> SUFFICES ASSUME Inv, RunsSound, [Next]_vars PROVE RunsSound'
  OBVIOUS
<1>1. AgentsTyped /\ signal \in BOOLEAN
  BY AgentsTypedIff DEF Inv, TypeOK
<1>2. CASE SwarmStep
  BY <1>2, SwarmSound
<1>3. CASE (\E a \in Agents : Runs(a) \/ TimePasses(a)) \/ CallerAborts
  BY <1>1, <1>3, StepSound DEF Runs, TimePasses, CallerAborts
<1>4. CASE UNCHANGED vars
  BY <1>4 DEF vars, RunsSound, RunSound, Reasoned
<1> QED  BY <1>2, <1>3, <1>4 DEF Next

(* In every reachable state of runSwarm() each of its runs is sound.       *)
THEOREM RunsAreSound == Spec => []RunsSound
BY Invariance, InitSound, NextSound, PTL DEF Spec

(* The reason an orchestrator gives for its end is the true one, over any  *)
(* mixture of blank turns, tool turns, abort and deadline.                 *)
THEOREM ReasonsAreTrue == Spec => []ReasonIsTrue
<1>1. RunsSound => ReasonIsTrue
  BY DEF RunsSound, RunSound, Reasoned, ReasonIsTrue
<1> QED  BY RunsAreSound, <1>1, PTL

(* However the signal falls, an aborted run begins at most one turn of the *)
(* driver and, of the host's calls, those of one turn, a note and a recall *)
(* and the log.                                                            *)
THEOREM AbortedRunsDoLittle == Spec => []LittleWorkAfterAbort
<1>1. Inv /\ RunsSound => LittleWorkAfterAbort
  <2> SUFFICES ASSUME Inv, RunsSound, NEW a \in Agents
               PROVE  /\ agent[a].turns <= TurnsLeft(a)
                      /\ agent[a].calls <= MaxTools + 1 + NoteCalls(a)
    BY DEF LittleWorkAfterAbort, TurnsLeft, NoteCalls
  <2> DEFINE r == agent[a]
  <2>1. AgentsTyped
    BY AgentsTypedIff DEF Inv, TypeOK
  <2>2. r \in RunOf(a) /\ RunSound(a, r)
    BY <2>1 DEF AgentsTyped, RunsSound
  <2>3. /\ r.calls \in Nat /\ r.left \in Nat /\ NoteCalls(a) \in Nat
        /\ MaxTools \in Nat /\ MaxTools > 1 /\ r.left <= MaxTools
    BY <2>2, RunNumbers, Bounds
  <2>4. r.calls <= CallsBy(a, r) /\ r.turns <= TurnsLeft(a)
    BY <2>2 DEF RunSound
  <2>5. r.pc \in {"note", "refresh"} => NoteCalls(a) = 2
    BY <2>2 DEF RunSound, NoteCalls
  <2> HIDE DEF r
  <2>6. CallsBy(a, r) <= MaxTools + 1 + NoteCalls(a)
    <3>1. CASE r.pc \in {"note", "refresh"}
      BY <2>3, <2>5, <3>1 DEF CallsBy
    <3>2. CASE r.pc = "tools"
      <4>1. CallsBy(a, r) = MaxTools + 1 - r.left
        BY <3>2 DEF CallsBy
      <4> QED  BY <2>3, <4>1
    <3>3. CASE r.pc = "log"
      <4>1. CallsBy(a, r) = MaxTools + 1 + NoteCalls(a)
        BY <3>3 DEF CallsBy
      <4> QED  BY <2>3, <4>1
    <3>4. CASE r.pc \notin {"note", "refresh", "tools", "log"}
      <4>1. CallsBy(a, r) \in {0, 1, 2}
        BY <3>4 DEF CallsBy
      <4> QED  BY <2>3, <4>1
    <3> QED  BY <3>1, <3>2, <3>3, <3>4
  <2>7. CallsBy(a, r) \in Nat
    BY <2>3 DEF CallsBy
  <2>8. r.calls <= MaxTools + 1 + NoteCalls(a)
    BY <2>3, <2>4, <2>6, <2>7
  <2> QED  BY <2>4, <2>8 DEF r
<1> QED  BY Invariance, RunsAreSound, <1>1, PTL
-----------------------------------------------------------------------------
(* What SwarmReturns rests on: nothing goes round, and somebody can act    *)

(* How far a run is from the next head of its loop.                        *)
Place(r) ==
  CASE r.pc = "recall" -> MaxTools + 7
    [] r.pc = "ground" -> MaxTools + 6
    [] r.pc = "inspect" -> MaxTools + 5
    [] r.pc = "chat" -> MaxTools + 4
    [] r.pc = "tools" -> r.left + 3
    [] r.pc = "note" -> 3
    [] r.pc = "refresh" -> 2
    [] OTHER -> 1

(* From r a run under way gets on to s: it is over, has one turn more of   *)
(* the MaxIterations it may have, or is nearer the next head of its loop.  *)
Advances(r, s) ==
  /\ r.pc \notin {"new"} \union Over
  /\ \/ s.pc \in Over
     \/ s.iterations > r.iterations
     \/ s.iterations = r.iterations /\ Place(s) < Place(r)

(* A run begins, gets on, or passes its deadline where it is.              *)
Moves(a) ==
  \/ agent[a].pc = "new" /\ agent'[a].pc # "new"
  \/ Advances(agent[a], agent'[a])
  \/ Running(a) /\ ~agent[a].late /\ agent'[a] = [agent[a] EXCEPT !.late = TRUE]

(* A run is where it was; a call of its may have been cut by the signal.   *)
Stays(a) ==
  /\ agent'[a].pc = agent[a].pc /\ agent'[a].iterations = agent[a].iterations
  /\ agent'[a].left = agent[a].left /\ agent'[a].late = agent[a].late

(* The swarm is in its next phase, or takes a role it had not taken, or a  *)
(* worker that had one is through.                                         *)
PoolMoves ==
  \/ /\ \/ phase = "starting" /\ phase' = "pool"
        \/ phase = "pool" /\ phase' \in {"synthesis", "done"}
        \/ phase = "synthesis" /\ phase' = "done"
     /\ UNCHANGED <<next, slot>>
  \/ phase' = phase /\ next' > next
  \/ /\ UNCHANGED <<phase, next>>
     /\ \E w \in Workers : slot[w] # Idle /\ slot' = [slot EXCEPT ![w] = Idle]

(* Every step of runSwarm() gets a run or the pool on, or raises the       *)
(* signal, and takes none of the others back: each of these can happen     *)
(* only a bounded number of times, so the program cannot go on for ever.   *)
GetsOn ==
  /\ \A a \in Agents : Stays(a) \/ Moves(a)
  /\ UNCHANGED <<phase, next, slot>> \/ PoolMoves
  /\ signal => signal'
  /\ (\E a \in Agents : Moves(a)) \/ PoolMoves \/ (~signal /\ signal')

NothingGoesRound == [][GetsOn]_vars

(* What a run under way waits for is an answer that may come: of the host, *)
(* with a call left in the turn; of the inspector; of the driver.          *)
Waits(a) ==
  \/ agent[a].pc \in (HostCalls \ {"tools"}) \union {"inspect", "chat"}
  \/ agent[a].pc = "tools" /\ agent[a].left > 0

(* Until the swarm has returned a step of runSwarm() itself can be taken,  *)
(* or a run it waits for waits for an answer.                              *)
SomebodyActs ==
  CASE phase = "starting" -> TRUE
    [] phase = "pool" ->
         PoolEnds \/ \E w \in Workers :
                       slot[w] # Idle /\ (agent[slot[w]].pc \in Over \/ Waits(slot[w]))
    [] phase = "synthesis" -> agent[Synthesizer].pc \in Over \/ Waits(Synthesizer)
    [] OTHER -> phase = "done"

(* A run within the tool calls of a turn has one under way.                *)
ToolsLeft == \A a \in Agents : agent[a].pc = "tools" => agent[a].left > 0

(* Roles that are not taken have not begun; the synthesizer has in its     *)
(* phase.                                                                  *)
Begun ==
  /\ \A i \in Members : i >= next => agent[i].pc = "new"
  /\ phase = "synthesis" => agent[Synthesizer].pc # "new"

(* A run that halts is over, or has only its log to write.                 *)
LEMMA HaltedGoes ==
  ASSUME signal \in BOOLEAN, NEW a \in Agents, NEW r \in RunOf(a), NEW why \in Reasons
  PROVE  LET s == Halted(a, r, why)
         IN  s.pc \in Over \/ (s.pc = "log" /\ s.iterations = r.iterations)
<1> DEFINE answer == IF why = "final-answer" THEN "final"
                     ELSE IF r.text = "none" THEN "placeholder" ELSE r.text
           halted == HaltedWith(r, why, answer)
<1>1. halted \in RunOf(a) /\ halted.iterations = r.iterations
  <2>1. answer \in Answers
    BY DEF RunOf, RunType, Answers
  <2> HIDE DEF answer
  <2> QED  BY <2>1, HaltedFields
<1>2. Halted(a, r, why) = IF a \in Remembers THEN Calling(halted, "log") ELSE Returned(halted)
  BY DEF Halted, HaltedWith
<1> HIDE DEF halted
<1>3. Calling(halted, "log").pc = "log" /\ Calling(halted, "log").iterations = r.iterations
  <2>1. "log" \in HostCalls
    BY DEF HostCalls
  <2> QED  BY <1>1, <2>1, CallingFields
<1>4. Returned(halted).pc \in Over
  BY <1>1, ReturnedType DEF Over
<1> QED  BY <1>2, <1>3, <1>4

(* At the head of the loop it halts, or goes on with one turn more.        *)
LEMMA LoopHeadGoes ==
  ASSUME signal \in BOOLEAN, NEW a \in Agents, NEW r \in RunOf(a)
  PROVE  LET s == LoopHead(a, r)
         IN  \/ s.pc \in Over
             \/ s.pc = "log" /\ s.iterations = r.iterations
             \/ s.pc \in {"inspect", "chat"} /\ s.iterations = r.iterations + 1
<1> DEFINE on == [r EXCEPT !.iterations = @ + 1]
           inspecting == [r EXCEPT !.pc = "inspect", !.call = "none", !.iterations = @ + 1]
<1>1. \A why \in Reasons : LET s == Halted(a, r, why)
                           IN  s.pc \in Over \/ (s.pc = "log" /\ s.iterations = r.iterations)
  BY HaltedGoes
<1>2. inspecting.pc = "inspect" /\ inspecting.iterations = r.iterations + 1
  BY DEF RunOf, RunType
<1>3. Turn(on).pc = "chat" /\ Turn(on).iterations = r.iterations + 1
  BY DEF Turn, RunOf, RunType
<1>4. LoopHead(a, r) \in {Halted(a, r, "max-iterations"), Halted(a, r, "aborted"),
                          Halted(a, r, "timeout"), inspecting, Turn(on)}
  BY DEF LoopHead
<1> HIDE DEF on, inspecting
<1> QED  BY <1>1, <1>2, <1>3, <1>4 DEF Reasons

(* The places of a run.                                                    *)
LEMMA Places ==
  ASSUME NEW a \in Agents, NEW r \in RunOf(a)
  PROVE  /\ Place(r) \in 1 .. MaxTools + 7
         /\ r.pc \in {"recall", "ground", "inspect", "chat", "note", "refresh"} => Place(r) > 1
         /\ r.pc = "tools" => Place(r) = r.left + 3
         /\ r.pc = "log" => Place(r) = 1
<1>1. r.left \in Nat /\ r.left <= MaxTools /\ MaxTools \in Nat
  BY RunNumbers, Bounds
<1>2. CASE r.pc = "tools"
  <2>1. Place(r) = r.left + 3
    BY <1>2 DEF Place
  <2> QED  BY <1>1, <1>2, <2>1
<1>3. CASE r.pc \in {"recall", "ground", "inspect", "chat", "note", "refresh"}
  <2>1. Place(r) \in {MaxTools + 7, MaxTools + 6, MaxTools + 5, MaxTools + 4, 3, 2}
    BY <1>3 DEF Place
  <2> QED  BY <1>1, <1>3, <2>1
<1>4. CASE r.pc \notin {"tools", "recall", "ground", "inspect", "chat", "note", "refresh"}
  <2>1. Place(r) = 1
    BY <1>4 DEF Place
  <2> QED  BY <1>1, <1>4, <2>1
<1> QED  BY <1>2, <1>3, <1>4

(* A run under way that passes the head of the loop, or halts, gets on,    *)
(* whatever of it that does not tell its place has changed before.         *)
LEMMA HeadAdvances ==
  ASSUME signal \in BOOLEAN, NEW a \in Agents, NEW r \in RunOf(a), NEW t \in RunOf(a),
         t.iterations = r.iterations, r.pc \notin {"new", "log"} \union Over,
         NEW s, \/ s = LoopHead(a, t)
                \/ \E why \in Reasons : s = Halted(a, t, why)
  PROVE  Advances(r, s) /\ s.pc # "tools"
<1>1. \/ s.pc \in Over
      \/ s.pc = "log" /\ s.iterations = t.iterations
      \/ s.pc \in {"inspect", "chat"} /\ s.iterations = t.iterations + 1
  BY LoopHeadGoes, HaltedGoes
<1>2. r.iterations \in Nat
  BY RunNumbers
<1>3. Place(r) > 1
  <2>1. r.pc \in {"recall", "ground", "inspect", "chat", "note", "refresh", "tools"}
    BY DEF RunOf, RunType, HostCalls
  <2>2. r.pc = "tools" => Place(r) > 1
    BY RunNumbers, Places
  <2> QED  BY <2>1, <2>2, Places
<1>4. s.pc = "log" => Place(s) = 1
  BY DEF Place
<1>5. \/ s.pc \in Over
      \/ s.iterations > r.iterations
      \/ s.iterations = r.iterations /\ Place(s) < Place(r)
  BY <1>1, <1>2, <1>3, <1>4
<1>6. s.pc # "tools"
  BY <1>1 DEF Over
<1> QED  BY <1>5, <1>6 DEF Advances

(* So does one that makes its next call.                                   *)
LEMMA CallAdvances ==
  ASSUME signal \in BOOLEAN, NEW a \in Agents, NEW r \in RunOf(a), NEW t \in RunOf(a),
         t.iterations = r.iterations, r.pc \notin {"new"} \union Over,
         NEW pc \in HostCalls,
         \/ r.pc = "recall" /\ pc = "ground"
         \/ r.pc = "chat" /\ pc = "tools" /\ t.left > 0
         \/ r.pc = "tools" /\ pc = "tools" /\ t.left < r.left /\ t.left > 0
         \/ r.pc = "tools" /\ pc = "note" /\ r.left > 0
         \/ r.pc = "note" /\ pc = "refresh"
  PROVE  LET s == Calling(t, pc) IN Advances(r, s) /\ (s.pc = "tools" => s.left > 0)
<1> DEFINE s == Calling(t, pc)
<1>1. s.pc = pc /\ s.left = t.left /\ s.iterations = r.iterations
  BY CallingFields
<1> HIDE DEF s
<1>2. /\ r.left \in Nat /\ t.left \in Nat /\ t.left <= MaxTools /\ MaxTools \in Nat
  BY RunNumbers, Bounds
<1>3. Place(s) < Place(r)
  <2>1. CASE r.pc = "recall" /\ pc = "ground"
    <3>1. Place(s) = MaxTools + 6 /\ Place(r) = MaxTools + 7
      BY <1>1, <2>1 DEF Place
    <3> QED  BY <1>2, <3>1
  <2>2. CASE r.pc = "chat" /\ pc = "tools"
    <3>1. Place(s) = t.left + 3 /\ Place(r) = MaxTools + 4
      BY <1>1, <2>2 DEF Place
    <3> QED  BY <1>2, <3>1
  <2>3. CASE r.pc = "tools" /\ pc = "tools" /\ t.left < r.left
    <3>1. Place(s) = t.left + 3 /\ Place(r) = r.left + 3
      BY <1>1, <2>3 DEF Place
    <3> QED  BY <1>2, <2>3, <3>1
  <2>4. CASE r.pc = "tools" /\ pc = "note" /\ r.left > 0
    <3>1. Place(s) = 3 /\ Place(r) = r.left + 3
      BY <1>1, <2>4 DEF Place
    <3> QED  BY <1>2, <2>4, <3>1
  <2>5. CASE r.pc = "note" /\ pc = "refresh"
    <3>1. Place(s) = 2 /\ Place(r) = 3
      BY <1>1, <2>5 DEF Place
    <3> QED  BY <3>1
  <2> QED  BY <2>1, <2>2, <2>3, <2>4, <2>5
<1>4. Advances(r, s)
  BY <1>1, <1>3 DEF Advances
<1>5. s.pc = "tools" => s.left > 0
  BY <1>1
<1> QED  BY <1>4, <1>5 DEF s

(* A call that settles gets its run on.                                    *)
LEMMA CallSettlesAdvances ==
  ASSUME AgentsTyped, signal \in BOOLEAN, NEW a \in Agents, CallSettles(a)
  PROVE  \E s : Becomes(a, s) /\ Advances(agent[a], s) /\ (s.pc = "tools" => s.left > 0)
<1> DEFINE r == agent[a]
<1>r. r \in RunOf(a)
  BY DEF AgentsTyped
<1>n. r.left \in Nat /\ MaxTools \in Nat /\ r.left <= MaxTools
  BY <1>r, RunNumbers, Bounds
<1>h. {"ground", "tools", "note", "refresh"} \subseteq HostCalls
  BY DEF HostCalls
<1> HIDE DEF r
<1>1. CASE r.pc = "recall" /\ \E s \in Grounded(a, r) : Becomes(a, s)
  <2>1. PICK s \in Grounded(a, r) : Becomes(a, s)
    BY <1>1
  <2>2. r.pc \notin {"new", "log"} \union Over
    BY <1>1 DEF Over
  <2>3. CASE s = Calling(r, "ground")
    BY <1>1, <1>r, <1>h, <2>1, <2>2, <2>3, CallAdvances DEF r
  <2>4. CASE s = LoopHead(a, r)
    BY <1>r, <2>1, <2>2, <2>4, HeadAdvances DEF r
  <2> QED  BY <2>1, <2>3, <2>4 DEF Grounded
<1>2. CASE r.pc \in {"ground", "refresh"} /\ Becomes(a, LoopHead(a, r))
  <2>1. r.pc \notin {"new", "log"} \union Over
    BY <1>2 DEF Over
  <2> QED  BY <1>2, <1>r, <2>1, HeadAdvances DEF r
<1>3. CASE /\ r.pc = "tools" /\ r.left > 1
           /\ Becomes(a, Calling([r EXCEPT !.left = @ - 1], "tools"))
  <2> DEFINE t == [r EXCEPT !.left = @ - 1]
  <2>1. t \in RunOf(a)
    <3>1. \A n \in 0 .. MaxTools : [r EXCEPT !.left = n] \in RunOf(a)
      BY <1>r DEF RunOf, RunType
    <3>2. r.left - 1 \in 0 .. MaxTools
      BY <1>3, <1>n
    <3> QED  BY <3>1, <3>2
  <2>2. t.left = r.left - 1 /\ t.iterations = r.iterations
    BY <1>r DEF RunOf, RunType
  <2>3. Becomes(a, Calling(t, "tools"))
    BY <1>3
  <2> HIDE DEF t
  <2>4. t.left < r.left /\ t.left > 0
    BY <1>3, <1>n, <2>2
  <2>5. r.pc \notin {"new"} \union Over
    BY <1>3 DEF Over
  <2>6. LET s == Calling(t, "tools") IN Advances(r, s) /\ (s.pc = "tools" => s.left > 0)
    BY <1>3, <1>r, <1>h, <2>1, <2>2, <2>4, <2>5, CallAdvances
  <2> QED  BY <2>3, <2>6 DEF r
<1>4. CASE /\ r.pc = "tools" /\ r.left = 1
           /\ LET s == [r EXCEPT !.left = 0]
              IN  Becomes(a, IF a \in InLoop THEN Calling(s, "note") ELSE LoopHead(a, s))
  <2> DEFINE t == [r EXCEPT !.left = 0]
  <2>1. t \in RunOf(a)
    BY <1>r, Bounds DEF RunOf, RunType
  <2>2. t.iterations = r.iterations
    BY <1>r DEF RunOf, RunType
  <2>3. Becomes(a, IF a \in InLoop THEN Calling(t, "note") ELSE LoopHead(a, t))
    BY <1>4
  <2> HIDE DEF t
  <2>4. r.pc \notin {"new", "log"} \union Over /\ r.left > 0
    BY <1>4 DEF Over
  <2>5. LET s == Calling(t, "note") IN Advances(r, s) /\ (s.pc = "tools" => s.left > 0)
    BY <1>4, <1>r, <1>h, <2>1, <2>2, <2>4, CallAdvances
  <2>6. Advances(r, LoopHead(a, t)) /\ LoopHead(a, t).pc # "tools"
    BY <1>r, <2>1, <2>2, <2>4, HeadAdvances
  <2> QED  BY <2>3, <2>5, <2>6 DEF r
<1>5. CASE r.pc = "note" /\ Becomes(a, Calling(r, "refresh"))
  <2>1. r.pc \notin {"new"} \union Over
    BY <1>5 DEF Over
  <2>2. LET s == Calling(r, "refresh") IN Advances(r, s) /\ (s.pc = "tools" => s.left > 0)
    BY <1>5, <1>r, <1>h, <2>1, CallAdvances
  <2> QED  BY <1>5, <2>2 DEF r
<1>6. CASE r.pc = "log" /\ Becomes(a, Returned(r))
  <2>1. Returned(r).pc = "done"
    BY <1>r, ReturnedType
  <2>2. Advances(r, Returned(r))
    BY <1>6, <2>1 DEF Advances, Over
  <2> QED  BY <1>6, <2>1, <2>2 DEF r
<1> QED  BY <1>1, <1>2, <1>3, <1>4, <1>5, <1>6 DEF CallSettles, r
(* So does the inspector, and a turn of the driver or its rejection.       *)
LEMMA TurnAdvances ==
  ASSUME AgentsTyped, signal \in BOOLEAN, NEW a \in Agents,
         Inspected(a) \/ ChatThrows(a) \/ BlankTurn(a) \/ FinalTurn(a) \/ ToolTurn(a)
  PROVE  \E s : Becomes(a, s) /\ Advances(agent[a], s) /\ (s.pc = "tools" => s.left > 0)
<1> DEFINE r == agent[a]
<1>r. r \in RunOf(a)
  BY DEF AgentsTyped
<1>n. MaxTools \in Nat
  BY Bounds
<1> HIDE DEF r
<1>1. CASE Inspected(a)
  <2>1. r.pc = "inspect" /\ Becomes(a, Turn(r))
    BY <1>1 DEF Inspected, r
  <2>2. Turn(r).pc = "chat" /\ Turn(r).iterations = r.iterations
    BY <1>r DEF Turn, RunOf, RunType
  <2>3. Place(Turn(r)) = MaxTools + 4 /\ Place(r) = MaxTools + 5
    BY <2>1, <2>2 DEF Place
  <2>4. Place(Turn(r)) < Place(r)
    BY <1>n, <2>3
  <2>5. Advances(r, Turn(r))
    BY <2>1, <2>2, <2>4 DEF Advances, Over
  <2> QED  BY <2>1, <2>2, <2>5 DEF r
<1>2. CASE ChatThrows(a)
  <2> DEFINE s == [NewRun EXCEPT !.pc = "threw"]
  <2>1. s.pc = "threw" /\ Becomes(a, s) /\ r.pc = "chat"
    BY <1>2 DEF ChatThrows, NewRun, r
  <2> HIDE DEF s
  <2>2. Advances(r, s)
    BY <2>1 DEF Advances, Over
  <2> QED  BY <2>1, <2>2 DEF r
<1>3. CASE BlankTurn(a)
  <2> DEFINE b == [r EXCEPT !.empty = @ + 1, !.blanks = @ + 1, !.last = "blank"]
  <2>0. r.pc \notin {"new", "log"} \union Over
    BY <1>3 DEF BlankTurn, Over, r
  <2>1. b \in RunOf(a)
    <3>1. \A m, n \in Nat :
            [r EXCEPT !.empty = m, !.blanks = n, !.last = "blank"] \in RunOf(a)
      BY <1>r DEF RunOf, RunType
    <3>2. r.empty + 1 \in Nat /\ r.blanks + 1 \in Nat
      BY <1>r DEF RunOf, RunType
    <3> QED  BY <3>1, <3>2
  <2>2. b.iterations = r.iterations
    BY <1>r DEF RunOf, RunType
  <2>3. \/ Becomes(a, Halted(a, b, "empty-response"))
        \/ \E x \in {b.text, "space"} : Becomes(a, LoopHead(a, [b EXCEPT !.text = x]))
    BY <1>3 DEF BlankTurn, r
  <2> HIDE DEF b
  <2>4. CASE Becomes(a, Halted(a, b, "empty-response"))
    BY <1>r, <2>0, <2>1, <2>2, <2>4, HeadAdvances DEF Reasons, r
  <2>5. ASSUME NEW x \in {b.text, "space"}, Becomes(a, LoopHead(a, [b EXCEPT !.text = x]))
        PROVE  \E s : Becomes(a, s) /\ Advances(r, s) /\ (s.pc = "tools" => s.left > 0)
    <3> DEFINE t == [b EXCEPT !.text = x]
    <3>1. t \in RunOf(a) /\ t.iterations = r.iterations
      BY <2>1, <2>2 DEF RunOf, RunType
    <3>2. Becomes(a, LoopHead(a, t))
      BY <2>5
    <3> HIDE DEF t
    <3> QED  BY <1>r, <2>0, <3>1, <3>2, HeadAdvances
  <2> QED  BY <2>3, <2>4, <2>5 DEF r
<1>4. CASE FinalTurn(a)
  <2> DEFINE b == [r EXCEPT !.blanks = 0, !.last = "text"]
  <2>1. b \in RunOf(a) /\ b.iterations = r.iterations
    BY <1>r DEF RunOf, RunType
  <2>2. Becomes(a, Halted(a, b, "final-answer")) /\ r.pc = "chat"
    BY <1>4 DEF FinalTurn, r
  <2> HIDE DEF b
  <2>3. r.pc \notin {"new", "log"} \union Over
    BY <2>2 DEF Over
  <2> QED  BY <1>r, <2>1, <2>2, <2>3, HeadAdvances DEF Reasons, r
<1>5. CASE ToolTurn(a)
  <2>1. PICK n \in 1 .. MaxTools, x \in {r.text, "space", "text"} :
          Becomes(a, Calling([r EXCEPT !.empty = 0, !.left = n, !.text = x,
                                       !.blanks = 0, !.last = "tools"], "tools"))
    BY <1>5 DEF ToolTurn, r
  <2> DEFINE b == [r EXCEPT !.empty = 0, !.left = n, !.text = x, !.blanks = 0, !.last = "tools"]
  <2>2. b \in RunOf(a)
    <3>1. \A m \in 0 .. MaxTools, y \in {"none", "space", "text"} :
            [r EXCEPT !.empty = 0, !.left = m, !.text = y, !.blanks = 0, !.last = "tools"]
              \in RunOf(a)
      BY <1>r DEF RunOf, RunType
    <3>2. n \in 0 .. MaxTools /\ x \in {"none", "space", "text"}
      BY <1>r, Bounds DEF RunOf, RunType
    <3> QED  BY <3>1, <3>2
  <2>3. b.left = n /\ b.iterations = r.iterations
    BY <1>r DEF RunOf, RunType
  <2>4. Becomes(a, Calling(b, "tools")) /\ r.pc = "chat"
    BY <1>5, <2>1 DEF ToolTurn, r
  <2> HIDE DEF b
  <2>5. b.left > 0 /\ r.pc \notin {"new"} \union Over /\ "tools" \in HostCalls
    BY <2>3, <2>4 DEF Over, HostCalls
  <2>6. LET s == Calling(b, "tools") IN Advances(r, s) /\ (s.pc = "tools" => s.left > 0)
    BY <1>r, <2>2, <2>3, <2>4, <2>5, CallAdvances
  <2> QED  BY <2>4, <2>6 DEF r
<1> QED  BY <1>1, <1>2, <1>3, <1>4, <1>5 DEF r

(* A run that is started is not within the tool calls of a turn.           *)
LEMMA StartedGoes ==
  ASSUME signal \in BOOLEAN, NEW a \in Agents, NEW s \in Started(a)
  PROVE  s.pc # "new" /\ s.pc # "tools"
<1>1. NewRun \in RunOf(a) /\ {"recall", "ground"} \subseteq HostCalls
  BY NewRunType DEF HostCalls
<1>2. Calling(NewRun, "recall").pc = "recall" /\ Calling(NewRun, "ground").pc = "ground"
  BY <1>1, CallingType
<1>3. LoopHead(a, NewRun).pc \in {"inspect", "chat", "log"} \union Over
  BY <1>1, LoopHeadGoes
<1>4. s \in {Calling(NewRun, "recall"), Calling(NewRun, "ground"), LoopHead(a, NewRun)}
  BY DEF Started, Grounded
<1> QED  BY <1>2, <1>3, <1>4 DEF Over

(* What a step of one run does to all of them.                             *)
LEMMA OneMoves ==
  ASSUME agent \in [Agents -> RunType], ToolsLeft, NEW a \in Agents, NEW s, Becomes(a, s),
         s.pc = "tools" => s.left > 0
  PROVE  agent'[a] = s /\ (\A b \in Agents : b # a => Stays(b)) /\ ToolsLeft'
<1>1. agent'[a] = s /\ \A b \in Agents : b # a => agent'[b] = agent[b]
  BY DEF Becomes
<1> QED  BY <1>1 DEF Stays, ToolsLeft

(* A step of the agents gets its run on, and takes none back.              *)
LEMMA StepAdvances ==
  ASSUME AgentsTyped, ToolsLeft, signal \in BOOLEAN, NEW a \in Agents,
         AgentStep(a) \/ DeadlinePasses(a)
  PROVE  Moves(a) /\ (\A b \in Agents : Stays(b) \/ Moves(b)) /\ ToolsLeft' /\ signal' = signal
<1>0. agent \in [Agents -> RunType] /\ agent[a] \in RunType
  BY DEF AgentsTyped
<1>1. CASE AgentStep(a)
  <2>1. signal' = signal
    BY <1>1 DEF AgentStep, CallSettles, Inspected, ChatThrows, BlankTurn, FinalTurn, ToolTurn
  <2>2. PICK s : Becomes(a, s) /\ Advances(agent[a], s) /\ (s.pc = "tools" => s.left > 0)
    BY <1>1, CallSettlesAdvances, TurnAdvances DEF AgentStep
  <2>3. agent'[a] = s /\ (\A b \in Agents : b # a => Stays(b)) /\ ToolsLeft'
    BY <1>0, <2>2, OneMoves
  <2>4. Moves(a)
    BY <2>2, <2>3 DEF Moves
  <2> QED  BY <2>1, <2>3, <2>4
<1>2. CASE DeadlinePasses(a)
  <2> DEFINE s == [agent[a] EXCEPT !.late = TRUE]
  <2>1. Becomes(a, s) /\ Running(a) /\ ~agent[a].late /\ signal' = signal
    BY <1>2 DEF DeadlinePasses, Becomes, Running, Over
  <2>2. s.pc = agent[a].pc /\ s.left = agent[a].left
    BY <1>0 DEF RunType
  <2>3. s.pc = "tools" => s.left > 0
    BY <2>2 DEF ToolsLeft
  <2> HIDE DEF s
  <2>4. agent'[a] = s /\ (\A b \in Agents : b # a => Stays(b)) /\ ToolsLeft'
    BY <1>0, <2>1, <2>3, OneMoves
  <2>5. Moves(a)
    BY <2>1, <2>4 DEF Moves, s
  <2> QED  BY <2>1, <2>4, <2>5
<1> QED  BY <1>1, <1>2

(* The signal leaves every run where it is.                                *)
LEMMA AbortStays ==
  ASSUME AgentsTyped, ToolsLeft, Aborts
  PROVE  (\A b \in Agents : Stays(b)) /\ ToolsLeft' /\ ~signal /\ signal'
<1>1. \A b \in Agents : LET s == [agent[b] EXCEPT !.call = "cut"]
                        IN  /\ s.pc = agent[b].pc /\ s.iterations = agent[b].iterations
                            /\ s.left = agent[b].left /\ s.late = agent[b].late
  BY DEF AgentsTyped, RunOf, RunType
<1>2. \A b \in Agents : agent'[b] \in {agent[b], [agent[b] EXCEPT !.call = "cut"]}
  BY DEF Aborts
<1>3. \A b \in Agents : Stays(b)
  BY <1>1, <1>2 DEF Stays
<1>4. ~signal /\ signal'
  BY DEF Aborts
<1> QED  BY <1>3, <1>4 DEF Stays, ToolsLeft

(* Who is started was new, and is within no tool call.                     *)
LEMMA StartMoves ==
  ASSUME AgentsTyped, ToolsLeft, signal \in BOOLEAN, NEW a \in Agents, agent[a].pc = "new",
         \E r \in Started(a) : agent' = [agent EXCEPT ![a] = r]
  PROVE  Moves(a) /\ (\A b \in Agents : b # a => agent'[b] = agent[b]) /\ ToolsLeft'
         /\ agent'[a].pc # "new"
<1>1. PICK r \in Started(a) : agent' = [agent EXCEPT ![a] = r]
  OBVIOUS
<1>2. r.pc # "new" /\ r.pc # "tools"
  BY StartedGoes
<1>3. Becomes(a, r) /\ agent \in [Agents -> RunType]
  BY <1>1 DEF Becomes, AgentsTyped
<1>4. agent'[a] = r /\ ToolsLeft' /\ \A b \in Agents : b # a => agent'[b] = agent[b]
  BY <1>1, <1>2, <1>3, OneMoves DEF Becomes
<1> QED  BY <1>2, <1>4 DEF Moves

(* A worker that goes on takes a role, or is through with its last.        *)
LEMMA PullsMoves ==
  ASSUME Inv, ToolsLeft, Begun, NEW w \in Workers, NEW recorded, Pulls(w, recorded),
         UNCHANGED phase, phase \in {"starting", "pool"}, next <= Roles \/ slot[w] # Idle
  PROVE  (\A a \in Agents : Stays(a) \/ Moves(a)) /\ PoolMoves /\ ToolsLeft' /\ Begun'
<1>1. PICK i \in next .. Roles + 1 :
        /\ next' = Advanced(i)
        /\ slot' = [slot EXCEPT ![w] = IF HasRole(i) THEN i ELSE Idle]
        /\ IF HasRole(i)
           THEN \E r \in Started(i) : agent' = [agent EXCEPT ![i] = r]
           ELSE UNCHANGED agent
  BY DEF Pulls
<1>2. AgentsTyped /\ signal \in BOOLEAN
  BY AgentsTypedIff DEF Inv, TypeOK
<1>3. next \in Nat /\ next >= 1 /\ i \in Nat /\ i >= next /\ i <= Roles + 1 /\ Roles \in Nat
  BY <1>1, Bounds DEF Inv, TypeOK
<1>4. CASE HasRole(i)
  <2>1. i \in Members /\ i \in Agents /\ next' = i + 1
    BY <1>1, <1>3, <1>4, Bounds DEF HasRole, Advanced, Members
  <2>2. agent[i].pc = "new"
    BY <1>3, <2>1 DEF Begun
  <2>3. Moves(i) /\ (\A b \in Agents : b # i => agent'[b] = agent[b]) /\ ToolsLeft'
    BY <1>1, <1>2, <1>4, <2>1, <2>2, StartMoves
  <2>4. PoolMoves
    <3>1. next' > next
      BY <1>3, <2>1
    <3> QED  BY <3>1 DEF PoolMoves
  <2>5. Begun'
    <3>1. \A j \in Members : j >= next' => agent'[j].pc = "new"
      <4>1. ASSUME NEW j \in Members, j >= i + 1  PROVE j >= next /\ j # i /\ j \in Agents
        BY <1>3, <4>1, Bounds DEF Members
      <4> QED  BY <2>1, <2>3, <4>1 DEF Begun
    <3> QED  BY <3>1 DEF Begun
  <2>6. \A b \in Agents : Stays(b) \/ Moves(b)
    BY <2>3 DEF Stays
  <2> QED  BY <2>3, <2>4, <2>5, <2>6
<1>5. CASE ~HasRole(i)
  <2>1. i = Roles + 1 /\ next' = Roles + 1 /\ agent' = agent
        /\ slot' = [slot EXCEPT ![w] = Idle]
    BY <1>1, <1>3, <1>5 DEF HasRole, Advanced
  <2>2. PoolMoves
    <3>1. CASE next <= Roles
      <4>1. next' > next
        BY <1>3, <2>1, <3>1
      <4> QED  BY <4>1 DEF PoolMoves
    <3>2. CASE ~(next <= Roles)
      <4>1. next' = next
        BY <1>3, <2>1, <3>2
      <4> QED  BY <2>1, <3>2, <4>1 DEF PoolMoves
    <3> QED  BY <3>1, <3>2
  <2>3. \A j \in Members : ~(j >= next')
    BY <1>3, <2>1 DEF Members
  <2> QED  BY <2>1, <2>2, <2>3 DEF Stays, ToolsLeft, Begun
<1> QED  BY <1>4, <1>5

(* The swarm's own steps get the pool on.                                  *)
LEMMA SwarmMoves ==
  ASSUME Inv, ToolsLeft, Begun, SwarmStep
  PROVE  (\A a \in Agents : Stays(a) \/ Moves(a)) /\ PoolMoves /\ ToolsLeft' /\ Begun'
         /\ signal' = signal
<1>0. UNCHANGED signal
  BY DEF SwarmStep, PoolStarts, MemberSettles, Synthesizes, Returns, Pulls
<1>1. ASSUME UNCHANGED <<agent, next, slot>>,
             \/ phase = "starting" /\ phase' = "pool"
             \/ phase = "pool" /\ phase' = "done"
             \/ phase = "synthesis" /\ phase' = "done"
      PROVE  (\A a \in Agents : Stays(a) \/ Moves(a)) /\ PoolMoves /\ ToolsLeft' /\ Begun'
  <2>1. PoolMoves
    BY <1>1 DEF PoolMoves
  <2> QED  BY <1>1, <2>1 DEF Stays, ToolsLeft, Begun
<1>2. CASE PoolStarts
  <2>1. CASE \E w \in Workers : next <= Roles /\ Pulls(w, member) /\ UNCHANGED phase
    BY <1>0, <1>2, <2>1, PullsMoves DEF PoolStarts
  <2>2. CASE phase' = "pool" /\ UNCHANGED <<agent, signal, next, slot, member, warnings>>
    BY <1>0, <1>1, <1>2, <2>2 DEF PoolStarts
  <2> QED  BY <1>2, <2>1, <2>2 DEF PoolStarts
<1>3. CASE \E w \in Workers : MemberSettles(w)
  BY <1>0, <1>3, PullsMoves DEF MemberSettles
<1>4. CASE Synthesizes
  <2>1. CASE phase' = "done" /\ UNCHANGED agent
    BY <1>0, <1>1, <1>4, <2>1 DEF Synthesizes
  <2>2. CASE phase' = "synthesis" /\ \E r \in Started(Synthesizer) :
                                       agent' = [agent EXCEPT ![Synthesizer] = r]
    <3>1. AgentsTyped /\ signal \in BOOLEAN /\ Synthesizer \in Agents
      BY AgentsTypedIff, Bounds DEF Inv, TypeOK
    <3>2. phase = "pool" /\ UNCHANGED <<next, slot>> /\ agent[Synthesizer].pc = "new"
      BY <1>4 DEF Synthesizes, Inv, PoolSawAll
    <3>3. /\ Moves(Synthesizer) /\ ToolsLeft' /\ agent'[Synthesizer].pc # "new"
          /\ \A b \in Agents : b # Synthesizer => agent'[b] = agent[b]
      BY <2>2, <3>1, <3>2, StartMoves
    <3>4. PoolMoves
      BY <2>2, <3>2 DEF PoolMoves
    <3>5. Begun'
      BY <3>2, <3>3, Bounds DEF Begun
    <3>6. \A b \in Agents : Stays(b) \/ Moves(b)
      BY <3>3 DEF Stays
    <3> QED  BY <1>0, <3>3, <3>4, <3>5, <3>6
  <2> QED  BY <1>4, <2>1, <2>2 DEF Synthesizes
<1>5. CASE Returns
  BY <1>0, <1>1, <1>5 DEF Returns
<1> QED  BY <1>2, <1>3, <1>4, <1>5 DEF SwarmStep

(* The runs of the agents leave the pool and its roles as they are.        *)
LEMMA BegunStays ==
  ASSUME AgentsTyped, signal \in BOOLEAN, Begun, UNCHANGED <<phase, next, slot>>,
         \/ \E a \in Agents : AgentStep(a) \/ DeadlinePasses(a)
         \/ Aborts
  PROVE  Begun'
<1>1. NoneBegins
  BY StepTypes
<1> QED  BY <1>1, Bounds DEF NoneBegins, Begun

(* Every step gets something on, and keeps the roles that have not begun.  *)
LEMMA NextGetsOn ==
  ASSUME Inv, ToolsLeft, Begun, Next
  PROVE  GetsOn /\ ToolsLeft' /\ Begun'
<1>0. AgentsTyped /\ signal \in BOOLEAN
  BY AgentsTypedIff DEF Inv, TypeOK
<1>1. CASE SwarmStep
  BY <1>1, SwarmMoves DEF GetsOn
<1>2. ASSUME NEW a \in Agents, Runs(a) \/ TimePasses(a)
      PROVE  GetsOn /\ ToolsLeft' /\ Begun'
  <2>1. UNCHANGED <<phase, next, slot>> /\ (AgentStep(a) \/ DeadlinePasses(a))
    BY <1>2 DEF Runs, TimePasses
  <2>2. Moves(a) /\ (\A b \in Agents : Stays(b) \/ Moves(b)) /\ ToolsLeft' /\ signal' = signal
    BY <1>0, <2>1, StepAdvances
  <2>3. Begun'
    BY <1>0, <2>1, BegunStays
  <2> QED  BY <2>1, <2>2, <2>3 DEF GetsOn
<1>3. CASE CallerAborts
  <2>1. UNCHANGED <<phase, next, slot>> /\ Aborts
    BY <1>3 DEF CallerAborts
  <2>2. (\A b \in Agents : Stays(b)) /\ ToolsLeft' /\ ~signal /\ signal'
    BY <1>0, <2>1, AbortStays
  <2>3. Begun'
    BY <1>0, <2>1, BegunStays
  <2> QED  BY <2>1, <2>2, <2>3 DEF GetsOn
<1> QED  BY <1>1, <1>2, <1>3 DEF Next

(* In every reachable state, roles that are not taken are new and tool     *)
(* calls are under way in every turn that has them.                        *)
LEMMA RolesBegin == Spec => [](ToolsLeft /\ Begun)
<1>1. Init => ToolsLeft /\ Begun
  <2> SUFFICES ASSUME Init PROVE ToolsLeft /\ Begun
    OBVIOUS
  <2>1. \A a \in Agents : agent[a].pc = "new"
    BY DEF Init, NewRun
  <2> QED  BY <2>1, Bounds DEF Init, ToolsLeft, Begun
<1>2. Inv /\ ToolsLeft /\ Begun /\ [Next]_vars => ToolsLeft' /\ Begun'
  <2>1. ASSUME UNCHANGED vars, ToolsLeft, Begun  PROVE ToolsLeft' /\ Begun'
    BY <2>1 DEF vars, ToolsLeft, Begun
  <2> QED  BY <2>1, NextGetsOn
<1> QED  BY Invariance, <1>1, <1>2, PTL DEF Spec

(* No step of runSwarm() takes a run or the pool back, and each gets one   *)
(* of them on, of which there is an end: with a step that can always be    *)
(* taken (SwarmWaitsForSomebody), this is the argument for SwarmReturns.   *)
THEOREM SwarmGoesNotRound == Spec => NothingGoesRound
<1>1. Inv /\ ToolsLeft /\ Begun /\ [Next]_vars => [GetsOn]_vars
  BY NextGetsOn
<1> QED  BY Invariance, RolesBegin, <1>1, PTL DEF Spec, NothingGoesRound

(* Until the swarm has returned it is never stuck: it can take a step of   *)
(* its own, or waits for a run that waits for the driver, the inspector or *)
(* the host, all of which answer in bounded time.                          *)
THEOREM SwarmWaitsForSomebody == Spec => []SomebodyActs
<1>1. Inv /\ ToolsLeft /\ Begun => SomebodyActs
  <2> SUFFICES ASSUME Inv, ToolsLeft, Begun PROVE SomebodyActs
    OBVIOUS
  <2>1. AgentsTyped /\ phase \in {"starting", "pool", "synthesis", "done"}
        /\ slot \in [Workers -> Members \union {Idle}]
    BY AgentsTypedIff DEF Inv, TypeOK
  <2>2. ASSUME NEW a \in Agents, agent[a].pc # "new"
        PROVE  agent[a].pc \in Over \/ Waits(a)
    <3>1. agent[a].pc \in HostCalls \union Over \union {"new", "inspect", "chat"}
      BY <2>1 DEF AgentsTyped, RunType
    <3> QED  BY <2>2, <3>1 DEF Waits, ToolsLeft
  <2>3. CASE phase = "pool" /\ ~PoolEnds
    <3>1. PICK w \in Workers : slot[w] # Idle
      BY <2>3 DEF PoolEnds
    <3>2. slot[w] \in Members /\ slot[w] \in Agents /\ Held(slot[w])
      BY <2>1, <3>1, Bounds DEF Held
    <3>3. agent[slot[w]].pc # "new"
      BY <3>2 DEF Inv, PoolIsSound
    <3> QED  BY <2>2, <2>3, <3>1, <3>2, <3>3 DEF SomebodyActs
  <2>4. CASE phase = "synthesis"
    <3>1. Synthesizer \in Agents /\ agent[Synthesizer].pc # "new"
      BY <2>4, Bounds DEF Begun
    <3> QED  BY <2>2, <2>4, <3>1 DEF SomebodyActs
  <2>5. CASE phase \in {"starting", "done"} \/ (phase = "pool" /\ PoolEnds)
    BY <2>5 DEF SomebodyActs
  <2> QED  BY <2>1, <2>3, <2>4, <2>5
<1> QED  BY Invariance, RolesBegin, <1>1, PTL
=============================================================================
