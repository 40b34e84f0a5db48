------------------------------- MODULE Coding -------------------------------
(***************************************************************************)
(* Coding workers: the slots that bound them (coding-agents/concurrency.ts)*)
(* the handler of run_coding_agent with its file lease (mcp.ts,            *)
(* coordination.ts), the run of a worker with its preflight and throwaway  *)
(* review worktree (runCodingAgent of runner.ts, preflight.ts,             *)
(* review-worktree.ts), and the bounded process runner (executeCommand).   *)
(*                                                                         *)
(* One event loop: what a call does between two awaits is one action.  A   *)
(* worker process runs on its own, and may ignore SIGTERM.  The calls that *)
(* plan files all plan the same one, so one lease is in question; it is    *)
(* kept by an external server (Dokoro), which grants it to one caller at a *)
(* time and forgets it after a time that is longer than any run.           *)
(*                                                                         *)
(* Left out: command lines, the parsing of what a worker printed (it may   *)
(* turn a clean exit into a failed run), progress messages, presence and   *)
(* handoff notes.                                                          *)
(***************************************************************************)
EXTENDS Naturals, FiniteSets, SequencesExt

CONSTANTS
  Calls,    \* calls of run_coding_agent
  Planners, \* those with plannedFiles
  Reviews,  \* those of Gemini in review mode, which work on a copy
  Limit     \* slots: TACHI_CODING_MAX_CONCURRENCY

ASSUME CodingAssumption ==
  /\ IsFiniteSet(Calls) /\ Planners \subseteq Calls /\ Reviews \subseteq Calls
  /\ Limit \in Nat \ {0}

VARIABLES
  call,     \* where each call's handler is
  active,   \* slots in use
  waiters,  \* calls that wait for a slot, oldest first
  proc,     \* each call's worker process, and the timers of its runner
  lease,    \* the call that holds the file, or {}: a set with one member or none
  copies    \* calls whose throwaway worktree is on disk

vars == <<call, active, waiters, proc, lease, copies>>

(* claimed: the server has confirmed the lease.  lost: the handler does not*)
(* know whether the server keeps a lease for it: its claim was not clearly *)
(* answered, or its release has failed.  litters: history: nobody will, or *)
(* nobody could, remove its copy.                                          *)
NewCall == [pc |-> "new", claimed |-> FALSE, lost |-> FALSE, litters |-> FALSE]

(* watched: executeCommand() has not settled.  listens, times: its abort   *)
(* listener and its timeout can still fire.  timer: the SIGKILL timer that *)
(* forceTimer holds is armed; stray: an earlier one is.                    *)
NoProc == [alive |-> FALSE, watched |-> FALSE, listens |-> FALSE, times |-> FALSE,
           timer |-> FALSE, stray |-> FALSE]

Init ==
  /\ call = [c \in Calls |-> NewCall]
  /\ active = 0
  /\ waiters = <<>>
  /\ proc = [c \in Calls |-> NoProc]
  /\ lease = {} /\ copies = {}

Goes(c, pc) == call' = [call EXCEPT ![c].pc = pc]

-----------------------------------------------------------------------------
(* The semaphore. *)

(* The call is refused (recursion guard, write gate) or its signal is      *)
(* already aborted.                                                        *)
Refused(c) ==
  /\ call[c].pc = "new"
  /\ Goes(c, "done")
  /\ UNCHANGED <<active, waiters, proc, lease, copies>>

(* Variant with a plausible bug: the slot is taken and not counted.        *)
EntersUncounted(c) ==
  /\ call[c].pc = "new"
  /\ active < Limit
  /\ Goes(c, "cwd")
  /\ UNCHANGED <<active, waiters, proc, lease, copies>>

(* acquire() takes a free slot at once, whoever is waiting.                *)
Enters(c) ==
  /\ call[c].pc = "new"
  /\ active < Limit
  /\ active' = active + 1
  /\ Goes(c, "cwd")
  /\ UNCHANGED <<waiters, proc, lease, copies>>

Queues(c) ==
  /\ call[c].pc = "new"
  /\ active >= Limit
  /\ waiters' = Append(waiters, c)
  /\ Goes(c, "queued")
  /\ UNCHANGED <<active, proc, lease, copies>>

(* Variant with a plausible bug: pump() does not count whom it lets in.    *)
AdmittedUncounted(n) == active - 1

(* The slots in use when one has been given back and n waiters have theirs.*)
Admitted(n) == active - 1 + n

(* Variant with a plausible bug: pump() lets the newest waiters in.        *)
PumpedNewest(n) ==
  LET kept == Len(waiters) - n
  IN [ahead |-> {waiters[i] : i \in kept + 1 .. Len(waiters)},
      behind |-> SubSeq(waiters, 1, kept)]

(* The n oldest waiters, and those behind them.                            *)
Pumped(n) ==
  [ahead |-> {waiters[i] : i \in 1 .. n}, behind |-> SubSeq(waiters, n + 1, Len(waiters))]

(* The finally block: release(), with pump() that lets waiters in while    *)
(* there is room.                                                          *)
Leaves(c) ==
  /\ call[c].pc = "leave"
  /\ \E n \in 0 .. Len(waiters) :
       /\ n = Len(waiters) \/ Admitted(n) = Limit
       /\ Admitted(n) <= Limit
       /\ active' = Admitted(n)
       /\ waiters' = Pumped(n).behind
       /\ call' = [d \in Calls |->
                     IF d = c THEN [NewCall EXCEPT !.pc = "done"]
                     ELSE IF d \in Pumped(n).ahead THEN [call[d] EXCEPT !.pc = "cwd"]
                     ELSE call[d]]
  /\ UNCHANGED <<proc, lease, copies>>

-----------------------------------------------------------------------------
(* The handler between acquire() and release(). *)

(* resolveCodingCwd(): a directory outside the roots ends the call before  *)
(* anything is coordinated.                                                *)
ResolvesCwd(c) ==
  /\ call[c].pc = "cwd"
  /\ \/ Goes(c, "leave")
     \/ Goes(c, IF c \in Planners THEN "claim" ELSE "preflight")
  /\ UNCHANGED <<active, waiters, proc, lease, copies>>

(* Variant with a plausible bug: whatever is not a conflict is a lease.    *)
UnclearIsClaimed(state) ==
  [state EXCEPT !.pc = "preflight", !.claimed = TRUE, !.lost = TRUE]

(* No verdict in the answer (no server, a partial grant, other words): the *)
(* worker starts all the same and is reported as unleased.                 *)
Unclear(state) == [state EXCEPT !.pc = "preflight", !.lost = TRUE]

(* file_claim, and what parseClaimResult() makes of the answer: granted; a *)
(* conflict, which throws; no verdict; or no answer in time, which throws. *)
(* In the last two cases the server may have granted the lease or not.     *)
Claims(c) ==
  /\ call[c].pc = "claim"
  /\ \/ /\ lease = {} /\ lease' = {c}
        /\ call' = [call EXCEPT ![c].pc = "preflight", ![c].claimed = TRUE]
     \/ lease # {} /\ Goes(c, "report") /\ UNCHANGED lease
     \/ /\ lease' \in {lease, IF lease = {} THEN {c} ELSE lease}
        /\ call' \in {[call EXCEPT ![c] = Unclear(@)],
                     [call EXCEPT ![c].pc = "report", ![c].lost = TRUE]}
  /\ UNCHANGED <<active, waiters, proc, copies>>

(* What follows the try block of the run: its finally block, for a copy.   *)
Ended(c) == Goes(c, IF c \in Reviews THEN "clean" ELSE "report")

(* The worker is spawned, or cannot be.  A signal that was raised while the*)
(* handler did something else does not call the listener that is added now.*)
Spawns(c) ==
  \/ Ended(c) /\ UNCHANGED proc
  \/ /\ Goes(c, "exec")
     /\ \E raised \in BOOLEAN :
          proc' = [proc EXCEPT ![c] = [NoProc EXCEPT !.alive = TRUE, !.watched = TRUE,
                                         !.times = TRUE, !.listens = ~raised]]

(* Preflight (binary, credential): it fails, or a review goes on to its    *)
(* copy, or the command is built, which may throw, and spawned.            *)
Prepares(c) ==
  /\ call[c].pc = "preflight"
  /\ \/ Goes(c, "report") /\ UNCHANGED proc
     \/ c \in Reviews /\ Goes(c, "worktree") /\ UNCHANGED proc
     \/ c \notin Reviews /\ Spawns(c)
  /\ UNCHANGED <<active, waiters, lease, copies>>

(* createReviewWorktree() fails and leaves nothing; or the copy is there.  *)
(* The command is built before the try block: when that throws (the task   *)
(* looks like a flag) nobody removes the copy.                             *)
Copies(c) ==
  /\ call[c].pc = "worktree"
  /\ \/ Goes(c, "report") /\ UNCHANGED <<proc, copies>>
     \/ /\ copies' = copies \cup {c}
        /\ \/ Spawns(c)
           \/ call' = [call EXCEPT ![c].pc = "report", ![c].litters = TRUE] /\ UNCHANGED proc
  /\ UNCHANGED <<active, waiters, lease>>

(* Variant with a plausible bug: the copy is kept.                         *)
CleansUpNothing(c) ==
  /\ call[c].pc = "clean"
  /\ Goes(c, "report")
  /\ UNCHANGED <<active, waiters, lease, proc, copies>>

(* The finally block: git and rm remove the copy, as best they can.        *)
CleansUp(c) ==
  /\ call[c].pc = "clean"
  /\ \/ Goes(c, "report") /\ copies' = copies \ {c}
     \/ /\ call' = [call EXCEPT ![c].pc = "report", ![c].litters = TRUE]
        /\ UNCHANGED copies
  /\ UNCHANGED <<active, waiters, lease, proc>>

(* finishCodingCoordination(), after a result or in the catch block: a     *)
(* confirmed lease is given back, and no failure of a call matters.        *)
Reports(c) ==
  /\ call[c].pc = "report"
  /\ \/ ~call[c].claimed /\ Goes(c, "leave") /\ UNCHANGED lease
     \/ call[c].claimed /\ Goes(c, "leave") /\ lease' = {}
     \/ /\ call[c].claimed
        /\ call' = [call EXCEPT ![c].pc = "leave", ![c].lost = TRUE]
        /\ UNCHANGED lease
  /\ UNCHANGED <<active, waiters, proc, copies>>

(* A lease that nobody gave back runs out: ttl_seconds is the timeout of   *)
(* the run and 300 s.                                                      *)
LeaseExpires ==
  /\ \E c \in lease : call[c].pc = "done"
  /\ lease' = {}
  /\ UNCHANGED <<call, active, waiters, proc, copies>>

-----------------------------------------------------------------------------
(* executeCommand(). *)

(* terminate(): SIGTERM, and a new SIGKILL timer in forceTimer.            *)
Terminated(p) == [p EXCEPT !.timer = TRUE, !.stray = @ \/ p.timer]

(* Variant with a plausible bug: the SIGKILL timer is left armed.          *)
SettledArmed(p) == [NoProc EXCEPT !.alive = p.alive, !.stray = p.stray \/ p.timer]

(* Settling removes the listener, clears the timeout and the timer that    *)
(* forceTimer holds.                                                       *)
Settled(p) == [NoProc EXCEPT !.alive = p.alive, !.stray = p.stray]

(* The caller's signal: a waiter leaves the queue, and a runner that       *)
(* listens terminates its worker.  Nobody else looks at it.                *)
Aborts(c) ==
  /\ \/ /\ call[c].pc = "queued"
        /\ Goes(c, "done")
        /\ \E i \in DOMAIN waiters : waiters[i] = c /\ waiters' = RemoveAt(waiters, i)
        /\ UNCHANGED proc
     \/ /\ proc[c].listens
        /\ proc' = [proc EXCEPT ![c] = [Terminated(@) EXCEPT !.listens = FALSE]]
        /\ UNCHANGED <<call, waiters>>
  /\ UNCHANGED <<active, lease, copies>>

(* Variant with a plausible bug: the timeout only sends SIGTERM.           *)
TimesOutMildly(c) ==
  /\ proc[c].times
  /\ proc' = [proc EXCEPT ![c].times = FALSE]
  /\ UNCHANGED <<call, active, waiters, lease, copies>>

TimesOut(c) ==
  /\ proc[c].times
  /\ proc' = [proc EXCEPT ![c] = [Terminated(@) EXCEPT !.times = FALSE]]
  /\ UNCHANGED <<call, active, waiters, lease, copies>>

(* More output than maxOutputChars: terminate(), and finishReject() at     *)
(* once, which clears the timer that terminate() has armed.                *)
Overflows(c) ==
  /\ proc[c].watched
  /\ proc' = [proc EXCEPT ![c] = Settled(Terminated(@))]
  /\ Ended(c)
  /\ UNCHANGED <<active, waiters, lease, copies>>

(* A SIGKILL timer fires.                                                  *)
Kills(c) ==
  /\ \/ /\ proc[c].timer
        /\ proc' = [proc EXCEPT ![c].timer = FALSE, ![c].alive = FALSE]
     \/ /\ proc[c].stray
        /\ proc' = [proc EXCEPT ![c].stray = FALSE, ![c].alive = FALSE]
  /\ UNCHANGED <<call, active, waiters, lease, copies>>

(* The process ends on its own or by SIGTERM.                              *)
Exits(c) ==
  /\ proc[c].alive
  /\ proc' = [proc EXCEPT ![c].alive = FALSE]
  /\ UNCHANGED <<call, active, waiters, lease, copies>>

(* The "close" event: the runner settles with the exit code, and the run   *)
(* has an answer, or an error: timed out, aborted, exited badly, an output *)
(* that reports one or, for a review, writing.                             *)
Closes(c) ==
  /\ proc[c].watched /\ ~proc[c].alive
  /\ proc' = [proc EXCEPT ![c] = Settled(@)]
  /\ Ended(c)
  /\ UNCHANGED <<active, waiters, lease, copies>>

HandlerStep(c) ==
  ResolvesCwd(c) \/ Claims(c) \/ Prepares(c) \/ Copies(c) \/ CleansUp(c) \/ Reports(c) \/ Leaves(c)

Next ==
  \/ \E c \in Calls :
       \/ Refused(c) \/ Enters(c) \/ Queues(c) \/ Aborts(c) \/ HandlerStep(c)
       \/ TimesOut(c) \/ Overflows(c) \/ Kills(c) \/ Exits(c) \/ Closes(c)
  \/ LeaseExpires

Spec == Init /\ [][Next]_vars

(* Calls of the lease server settle (the tool host has a timeout for each),*)
(* timers fire, and a process group that is gone closes its pipes.  A      *)
(* worker need not exit by itself.                                         *)
Fairness ==
  \A c \in Calls : /\ WF_vars(HandlerStep(c))
                   /\ WF_vars(TimesOut(c))
                   /\ WF_vars(Kills(c))
                   /\ WF_vars(Closes(c))

FairSpec == Spec /\ Fairness

-----------------------------------------------------------------------------
(* Properties *)

Inside == {c \in Calls : call[c].pc \in
             {"cwd", "claim", "preflight", "worktree", "exec", "clean", "report", "leave"}}

(* The variables hold values of their types. *)
TypeOK ==
  /\ call \in [Calls ->
       [pc : {"new", "queued", "cwd", "claim", "preflight", "worktree", "exec", "clean",
              "report", "leave", "done"},
        claimed : BOOLEAN, lost : BOOLEAN, litters : BOOLEAN]]
  /\ active \in Nat
  /\ waiters \in Seq(Calls)
  /\ proc \in [Calls -> [alive : BOOLEAN, watched : BOOLEAN, listens : BOOLEAN,
                         times : BOOLEAN, timer : BOOLEAN, stray : BOOLEAN]]
  /\ lease \subseteq Calls /\ Cardinality(lease) <= 1
  /\ copies \subseteq Reviews

(* The count of the semaphore is the number of calls between acquire() and *)
(* release(), never more than the limit, and every watched worker belongs  *)
(* to one of them: no path through the handler, the abort of a waiter or   *)
(* pump() loses a slot or gives one twice.                                 *)
SlotsCounted ==
  /\ active = Cardinality(Inside)
  /\ active <= Limit
  /\ \A c \in Calls : proc[c].watched => call[c].pc = "exec"

(* Nobody waits while a slot is free, so acquire() may take a free slot    *)
(* without looking at the queue and overtakes nobody.                      *)
NoIdleSlot == waiters # <<>> => active = Limit

(* The semaphore is sound: slots are counted and none is idle.             *)
SlotsSound == SlotsCounted /\ NoIdleSlot

(* Slots are given in the order of the calls: whoever is let in has no     *)
(* older waiter behind.                                                    *)
FirstComeFirstServed ==
  [][\A i, j \in DOMAIN waiters :
       i < j /\ call'[waiters[j]].pc = "cwd" => call'[waiters[i]].pc # "queued"]_vars

(* A worker whose lease was confirmed, and that is still watched, has the  *)
(* file to itself: the lease is its own until its run is over, whatever    *)
(* failed for others.                                                      *)
LeaseGuardsWorker ==
  \A c \in Calls : call[c].claimed /\ proc[c].watched => lease = {c}

(* A call that is about to return has given back what it took, on every    *)
(* path (result, failed run, spawn error, abort, timeout, overflow): its   *)
(* lease, unless the server did not answer its claim or its release, and   *)
(* its copy, unless the command could not be built or the copy not be      *)
(* removed; and the copy stays as long as the worker in it is watched.     *)
GivenBack ==
  \A c \in Calls :
    /\ call[c].pc = "leave" /\ ~call[c].lost => c \notin lease
    /\ call[c].pc = "leave" /\ ~call[c].litters => c \notin copies
    /\ c \in Reviews /\ proc[c].watched => c \in copies

(* When a run settles its worker is gone and nothing will be sent to its   *)
(* process group, whose number may be another's by then; but for two cases:*)
(* a worker that printed too much may ignore SIGTERM and run on, since the *)
(* timer to kill it is cleared; and when two causes (the abort, the        *)
(* timeout, too much output) have called terminate() the first SIGKILL     *)
(* timer may still be armed.                                               *)
NothingLeftBehind ==
  [][\A c \in Calls : proc[c].watched /\ ~proc'[c].watched =>
       /\ ~proc'[c].timer
       /\ proc'[c].alive => Overflows(c)
       /\ proc'[c].stray /\ Closes(c) => ~(proc[c].listens \/ proc[c].times)]_vars

(* Every call that came returns, also one that waits behind workers that   *)
(* ignore SIGTERM: timeout, SIGKILL and the slots' queue see to it.  (No   *)
(* call comes twice, so in the end none is under way.)                     *)
EveryCallReturns == <>[](\A c \in Calls : call[c].pc \in {"new", "done"})
=============================================================================
