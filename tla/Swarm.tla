------------------------------- MODULE Swarm -------------------------------
(***************************************************************************)
(* runSwarm() of swarm/swarm.ts: a bounded pool that runs one orchestrator *)
(* (module Agent) for each role, in any order of completion, the quorum    *)
(* check, and the synthesizer.                                             *)
(*                                                                         *)
(* The pool's workers take roles from one counter.  An agent that cannot   *)
(* be built or whose run rejects leaves an empty answer.                   *)
(***************************************************************************)
EXTENDS Agent

CONSTANTS
  Roles,        \* how many roles: the members are 1 .. Roles
  Concurrency,
  MinQuorum,
  Critical      \* roles whose missing answer is to be warned of

Members == 1 .. Roles

Synthesizer == 0

ASSUME SwarmAssumption ==
  /\ Roles \in Nat /\ Concurrency \in Nat \ {0} /\ MinQuorum \in Nat
  /\ Critical \subseteq Members
  /\ Agents = Members \union {Synthesizer}
  /\ Remembers = Members

Workers == 1 .. (IF Concurrency < Roles THEN Concurrency ELSE Roles)

VARIABLES
  phase,     \* "starting", "pool", "synthesis", "done"
  next,      \* the next role
  slot,      \* the role each worker of the pool runs; Idle before and after
  member,    \* what members[] holds for each role: "none", "empty", "answer"
  warnings

vars == <<agent, signal, phase, next, slot, member, warnings>>

Idle == 0

Init ==
  /\ agent = [a \in Agents |-> NewRun]
  /\ signal \in BOOLEAN
  /\ phase = "starting"
  /\ next = 1
  /\ slot = [w \in Workers |-> Idle]
  /\ member = [i \in Members |-> "none"]
  /\ warnings = {}

(* answer.trim() is not empty.                                             *)
Answered(a) == agent[a].pc = "done" /\ agent[a].answer # "space"

HasRole(i) == i <= Roles

(* Variant with a plausible bug: the counter is not advanced past the      *)
(* role that starts.                                                       *)
AdvancedLate(i) == i

Advanced(i) == IF HasRole(i) THEN i + 1 ELSE i

(* A worker's loop up to its next await, with members[] as given: the      *)
(* roles whose agent cannot be built, and all of them once the signal is   *)
(* raised, are recorded as empty; the next one is started.                 *)
Pulls(w, recorded) ==
  \E i \in next .. Roles + 1 :
    /\ signal => i = Roles + 1
    /\ member' = [j \in Members |-> IF next <= j /\ j < i THEN "empty" ELSE recorded[j]]
    /\ next' = Advanced(i)
    /\ slot' = [slot EXCEPT ![w] = IF HasRole(i) THEN i ELSE Idle]
    /\ IF HasRole(i)
       THEN \E r \in Started(i) : agent' = [agent EXCEPT ![i] = r]
       ELSE UNCHANGED agent
  /\ UNCHANGED <<signal, warnings>>

(* The workers are started one after the other, with no await between.     *)
PoolStarts ==
  /\ phase = "starting"
  /\ \/ \E w \in Workers :
          /\ slot[w] = Idle
          /\ \A v \in 1 .. w - 1 : slot[v] # Idle
          /\ next <= Roles
          /\ Pulls(w, member)
          /\ UNCHANGED phase
     \/ /\ next > Roles \/ \A w \in Workers : slot[w] # Idle
        /\ phase' = "pool"
        /\ UNCHANGED <<agent, signal, next, slot, member, warnings>>

(* A member's run has ended: its result lands at its role, and the worker  *)
(* goes on.                                                                *)
MemberSettles(w) ==
  /\ phase = "pool"
  /\ slot[w] # Idle
  /\ agent[slot[w]].pc \in Over
  /\ Pulls(w, [member EXCEPT ![slot[w]] = IF Answered(slot[w]) THEN "answer" ELSE "empty"])
  /\ UNCHANGED phase

Quorum == IF MinQuorum < Roles THEN MinQuorum ELSE Roles

Warned ==
  {k \in {"quorum", "critical"} :
     \/ k = "quorum" /\ Cardinality({i \in Members : member[i] = "answer"}) < Quorum
     \/ k = "critical" /\ \E i \in Critical : member[i] # "answer"}

(* Variant with a plausible bug: Promise.race for Promise.all.             *)
PoolDrained == \E w \in Workers : slot[w] = Idle

PoolEnds == \A w \in Workers : slot[w] = Idle

(* All workers are through: warnings, and the synthesizer's run, whose     *)
(* agent may not be built.                                                 *)
Synthesizes ==
  /\ phase = "pool"
  /\ PoolEnds
  /\ \/ /\ phase' = "synthesis"
        /\ warnings' = Warned
        /\ \E r \in Started(Synthesizer) : agent' = [agent EXCEPT ![Synthesizer] = r]
     \/ /\ phase' = "done"
        /\ warnings' = Warned \union {"synthesis"}
        /\ UNCHANGED agent
  /\ UNCHANGED <<signal, next, slot, member>>

Returns ==
  /\ phase = "synthesis"
  /\ agent[Synthesizer].pc \in Over
  /\ phase' = "done"
  /\ warnings' = warnings \union
       (IF agent[Synthesizer].pc = "threw" THEN {"synthesis"} ELSE {})
  /\ UNCHANGED <<agent, signal, next, slot, member>>

Runs(a) ==
  /\ phase # "starting"
  /\ AgentStep(a)
  /\ UNCHANGED <<phase, next, slot, member, warnings>>

TimePasses(a) ==
  /\ phase # "starting"
  /\ DeadlinePasses(a)
  /\ UNCHANGED <<phase, next, slot, member, warnings>>

CallerAborts ==
  /\ phase \in {"pool", "synthesis"}
  /\ Aborts
  /\ UNCHANGED <<phase, next, slot, member, warnings>>

SwarmStep == PoolStarts \/ (\E w \in Workers : MemberSettles(w)) \/ Synthesizes \/ Returns

Next ==
  \/ SwarmStep
  \/ \E a \in Agents : Runs(a) \/ TimePasses(a)
  \/ CallerAborts

Spec == Init /\ [][Next]_vars

(* Turns of the driver and calls of the host settle: both have timeouts.   *)
Fairness == WF_vars(SwarmStep) /\ \A a \in Agents : WF_vars(Runs(a))

FairSpec == Spec /\ Fairness

-----------------------------------------------------------------------------
(* Properties *)

(* The variables hold values of their types; no run has more turns than    *)
(* its options allow.                                                      *)
TypeOK ==
  /\ agent \in [Agents -> RunType]
  /\ \A a \in Agents : agent[a].iterations <= MaxIterations[a]
  /\ signal \in BOOLEAN
  /\ phase \in {"starting", "pool", "synthesis", "done"}
  /\ next \in 1 .. Roles + 1
  /\ slot \in [Workers -> Members \union {Idle}]
  /\ member \in [Members -> {"none", "empty", "answer"}]
  /\ warnings \subseteq {"quorum", "critical", "synthesis"}

(* A worker of the pool runs role i.                                       *)
Held(i) == \E w \in Workers : slot[w] = i

Running(a) == agent[a].pc \notin {"new"} \union Over

(* Every role is in one place: not taken yet, run by one worker of the     *)
(* pool, or recorded; no role is run twice, lost, or recorded before its   *)
(* run is over.                                                            *)
PoolIsSound ==
  \A i \in Members :
    /\ \A v, w \in Workers : slot[v] = i /\ slot[w] = i => v = w
    /\ i >= next <=> (member[i] = "none" /\ ~Held(i))
    /\ Held(i) => member[i] = "none" /\ agent[i].pc # "new"
    /\ Running(i) => Held(i)

(* The synthesizer starts when every role is recorded and nobody runs.     *)
SynthesisLast ==
  agent[Synthesizer].pc # "new" =>
    \A i \in Members : member[i] # "none" /\ ~Running(i)

(* The swarm returns, whatever members throw, halt or hang until their     *)
(* timeouts, and whenever the signal is raised.                            *)
SwarmReturns == <>(phase = "done")
=============================================================================
