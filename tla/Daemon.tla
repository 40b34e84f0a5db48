------------------------------- MODULE Daemon -------------------------------
(***************************************************************************)
(* The standalone daemon around its persistent queue: the worker           *)
(* (src/daemon/worker.ts), the handlers of POST /tasks                     *)
(* (src/gateway/server.ts), the schedules (src/daemon/schedules.ts), drain *)
(* and restart (src/daemon/index.ts), over the queue of TaskQueue and the  *)
(* flush protocol of QueueFile.                                            *)
(*                                                                         *)
(* One process, one event loop: what the code does between two awaits is   *)
(* one action, and every await is a point where the others may run.  A     *)
(* supervisor restarts the process after it has gone down.                 *)
(***************************************************************************)
EXTENDS TaskQueue, QueueFile, Integers, FiniteSets

CONSTANTS
  Posters,      \* requests POST /tasks that may be open at once
  Worker,       \* the worker, as a caller of flush()
  Scheduler,    \* the schedules' tick, as a caller of flush()
  Schedules,    \* ids of schedule definitions
  DayUnits,     \* how many units of the clock a day has
  Definitions,  \* what an entry of schedules.json may say: see Definition
  DefaultLimit, \* DEFAULT_MAX_ATTEMPTS of queue.ts
  MaxNow,       \* bound of the clock
  MaxBoots      \* bound: incarnations of the process

ASSUME CallersAssumption ==
  /\ Flushers = Posters \union {Worker, Scheduler}
  /\ Worker # Scheduler
  /\ Worker \notin Posters /\ Scheduler \notin Posters

(* An entry that parseDef() accepts, times and minutes in units of the     *)
(* clock; "daily" looks at `at' only and "every" at everyMinutes only.     *)
Definition ==
  [kind : {"daily", "every"}, at : 0 .. DayUnits - 1, everyMinutes : Nat \ {0}]

ASSUME SchedulesAssumption ==
  /\ IsFiniteSet(Schedules)
  /\ DayUnits \in Nat \ {0} /\ Definitions \subseteq Definition
  /\ MaxNow \in Nat /\ MaxBoots \in Nat \ {0}
  /\ DefaultLimit \in Nat \ {0}

VARIABLES
  tasks,      \* TaskQueue.tasks of the live process
  phase,      \* "up", "draining" (drain() has begun), "down"
  worker,     \* where tick() is, and the task it has claimed
  poster,     \* where each request is, and the task it has enqueued
  sched,      \* where the schedules' tick is; lastRunAt and whether it is loaded
  stateFile,  \* lastRunAt in schedules-state.json
  now,        \* the clock: day d begins at d * DayUnits
  \* history, read by no action of the program:
  issued,     \* how many tasks were ever enqueued
  runs,       \* runs[i]: how often runTask was called for i
  ran,        \* tasks claimed by this incarnation
  acked,      \* tasks whose POST was answered with 202
  fired,      \* <<schedule, time, incarnation, task, definition>> per firing
  boots,      \* incarnations so far
  exit        \* how the process went down last: "none", "drained", "died"

procVars  == <<tasks, phase, worker, poster, sched>>
histVars  == <<issued, runs, ran, acked, fired, boots, exit>>
vars == <<procVars, stateFile, now, histVars, fileVars>>

Never == -1

Times == 0 .. MaxNow

IdleSched == [pc |-> "idle", loaded |-> FALSE, last |-> [s \in Schedules |-> Never]]
IdleWorker == [pc |-> "idle", task |-> 0]
IdlePoster == [pc |-> "idle", task |-> 0]

Init ==
  /\ tasks = EmptyQueue
  /\ phase = "up"
  /\ worker = IdleWorker
  /\ poster = [p \in Posters |-> IdlePoster]
  /\ sched = IdleSched
  /\ stateFile = [s \in Schedules |-> Never]
  /\ now = 0
  /\ issued = 0
  /\ runs = [i \in Ids |-> 0]
  /\ ran = {} /\ acked = {} /\ fired = {}
  /\ boots = 1
  /\ exit = "none"
  /\ FileInit({})

-----------------------------------------------------------------------------
(* POST /tasks.  The drain flag is read before the body is awaited and not *)
(* again after it; a flush that rejects is logged and the answer is 202 as *)
(* well.                                                                   *)

PostArrives(p) ==
  /\ phase = "up"
  /\ poster[p].pc = "idle"
  /\ poster' = [poster EXCEPT ![p].pc = "body"]
  /\ UNCHANGED <<tasks, phase, worker, sched, stateFile, now, histVars, fileVars>>

(* Variant with a plausible bug: the request is answered before the queue  *)
(* is flushed.                                                             *)
PostEnqueuesAndAnswers(p) ==
  /\ poster[p].pc = "body"
  /\ issued < MaxTasks
  /\ \E m \in AttemptLimits : tasks' = Enqueued(tasks, {issued + 1}, m)
  /\ issued' = issued + 1
  /\ poster' = [poster EXCEPT ![p] = [pc |-> "flush", task |-> issued + 1]]
  /\ acked' = acked \union {issued + 1}
  /\ CallFlush(p)
  /\ UNCHANGED <<phase, worker, sched, stateFile, now,
                 runs, ran, fired, boots, exit>>

PostEnqueues(p) ==
  /\ poster[p].pc = "body"
  /\ issued < MaxTasks
  /\ \E m \in AttemptLimits : tasks' = Enqueued(tasks, {issued + 1}, m)
  /\ issued' = issued + 1
  /\ poster' = [poster EXCEPT ![p] = [pc |-> "flush", task |-> issued + 1]]
  /\ CallFlush(p)
  /\ UNCHANGED <<phase, worker, sched, stateFile, now,
                 runs, ran, acked, fired, boots, exit>>

(* A body without a task, too long or with a bad driver: 400. *)
PostRefused(p) ==
  /\ poster[p].pc = "body"
  /\ poster' = [poster EXCEPT ![p] = IdlePoster]
  /\ UNCHANGED <<tasks, phase, worker, sched, stateFile, now, histVars, fileVars>>

PostAnswered(p) ==
  /\ poster[p].pc = "flush"
  /\ FlushReturns(p) \/ FlushRejects(p, NoFlush)
  /\ acked' = acked \union {poster[p].task}
  /\ poster' = [poster EXCEPT ![p] = IdlePoster]
  /\ UNCHANGED <<tasks, phase, worker, sched, stateFile, now,
                 issued, runs, ran, fired, boots, exit>>

-----------------------------------------------------------------------------
(* worker.tick() *)

(* Variant with a plausible bug: start() does not look at busy. *)
WorkerClaimsBusy(i) ==
  /\ phase = "up"
  /\ NextDue(tasks, i)
  /\ tasks' = Claimed(tasks, i)
  /\ worker' = [pc |-> "run", task |-> i]
  /\ runs' = [runs EXCEPT ![i] = @ + 1]
  /\ ran' = ran \union {i}
  /\ UNCHANGED <<phase, poster, sched, stateFile, now, fileVars,
                 issued, acked, fired, boots, exit>>

(* The timer fires, no tick is busy, the daemon is not draining and a task *)
(* is due: claim() and the call of runTask().  Nothing is flushed.         *)
WorkerClaims(i) ==
  /\ phase = "up"
  /\ worker.pc = "idle"
  /\ NextDue(tasks, i)
  /\ tasks' = Claimed(tasks, i)
  /\ worker' = [pc |-> "run", task |-> i]
  /\ runs' = [runs EXCEPT ![i] = @ + 1]
  /\ ran' = ran \union {i}
  /\ UNCHANGED <<phase, poster, sched, stateFile, now, fileVars,
                 issued, acked, fired, boots, exit>>

(* runTask() resolves with a final answer: complete() and flush(). *)
RunAnswers ==
  /\ worker.pc = "run"
  /\ tasks' = Completed(tasks, worker.task)
  /\ worker' = [worker EXCEPT !.pc = "flush"]
  /\ CallFlush(Worker)
  /\ UNCHANGED <<phase, poster, sched, stateFile, now,
                 issued, runs, ran, acked, fired, boots, exit>>

(* runTask() resolves with another haltedBy: fail() and flush(), inside    *)
(* the try block; or it rejects: fail() and flush() in the catch block.    *)
RunFails ==
  /\ worker.pc = "run"
  /\ tasks' = FailedAttempt(tasks, worker.task)
  /\ worker' \in {[worker EXCEPT !.pc = pc] : pc \in {"flush", "lastFlush"}}
  /\ CallFlush(Worker)
  /\ UNCHANGED <<phase, poster, sched, stateFile, now, histVars>>

WorkerFlushed ==
  /\ worker.pc \in {"flush", "lastFlush"}
  /\ FlushReturns(Worker)
  /\ worker' = [worker EXCEPT !.pc = "say"]
  /\ UNCHANGED <<tasks, phase, poster, sched, stateFile, now, histVars>>

(* The flush inside the try block rejects: the catch block takes it for a  *)
(* failed run, whatever complete() or fail() had recorded, and flushes     *)
(* again.                                                                  *)
FlushTakenForFailure ==
  /\ worker.pc = "flush"
  /\ FlushRejects(Worker, NewFlush)
  /\ tasks' = FailedAttempt(tasks, worker.task)
  /\ worker' = [worker EXCEPT !.pc = "lastFlush"]
  /\ UNCHANGED <<phase, poster, sched, stateFile, now, histVars>>

(* Variants with a plausible bug: a rejection of notify() reaches the      *)
(* catch block, or busy is not reset when there is nothing to retry.       *)
SaidOrTakenForFailure ==
  /\ worker.pc = "say"
  /\ worker' = IdleWorker
  /\ tasks' \in {tasks, FailedAttempt(tasks, worker.task)}
  /\ UNCHANGED <<phase, poster, sched, stateFile, now, histVars, fileVars>>

SaidStillBusy ==
  /\ worker.pc = "say"
  /\ tasks[worker.task].status = "queued"
  /\ worker' = IdleWorker
  /\ UNCHANGED <<tasks, phase, poster, sched, stateFile, now, histVars, fileVars>>

(* notify() settles; a rejection is swallowed.  The tick is over. *)
Said ==
  /\ worker.pc = "say"
  /\ worker' = IdleWorker
  /\ UNCHANGED <<tasks, phase, poster, sched, stateFile, now, histVars, fileVars>>

(* notBefore of a task that waits for its retry has passed. *)
BackoffElapses(i) ==
  /\ phase # "down"
  /\ tasks[i].cooling
  /\ tasks' = Cooled(tasks, i)
  /\ UNCHANGED <<phase, worker, poster, sched, stateFile, now, histVars, fileVars>>

-----------------------------------------------------------------------------
(* Schedules.tick() *)

(* HH:MM of a daily definition on the day of time t. *)
DueAt(d, t) == DayUnits * (t \div DayUnits) + d.at

(* Variant with a plausible bug: a firing at HH:MM sharp does not count. *)
IsDueAgain(d, last, t) ==
  IF d.kind = "daily"
  THEN t >= DueAt(d, t) /\ (last = Never \/ last <= DueAt(d, t))
  ELSE last = Never \/ t - last >= d.everyMinutes

IsDue(d, last, t) ==
  IF d.kind = "daily"
  THEN t >= DueAt(d, t) /\ (last = Never \/ last < DueAt(d, t))
  ELSE last = Never \/ t - last >= d.everyMinutes

(* The timer fires and no tick is under way (a tick without any schedules  *)
(* changes nothing and is left out).                                       *)
SchedTicks ==
  /\ phase = "up"
  /\ sched.pc = "idle"
  /\ Schedules # {}
  /\ sched' = [sched EXCEPT !.pc = "read"]
  /\ UNCHANGED <<tasks, phase, worker, poster, stateFile, now, histVars, fileVars>>

(* The definitions have been read and, once per process, the state; all    *)
(* that is due is enqueued, in the order of the definitions.  Since the    *)
(* last tick a hand may have edited the file in any way: entries come and  *)
(* go and change their kind, their time and their interval.  (Of entries   *)
(* that share an id one fires at most, so one of them stands for all.)     *)
SchedFires ==
  /\ sched.pc = "read"
  /\ \E defs \in UNION {[present -> Definitions] : present \in SUBSET Schedules} :
       LET last == IF sched.loaded THEN sched.last ELSE stateFile
           due == {s \in DOMAIN defs : IsDue(defs[s], last[s], now)}
           new == issued + 1 .. issued + Cardinality(due)
       IN  /\ new \subseteq Ids
           /\ \E id \in [due -> new] :
                /\ \A i \in new : \E s \in due : id[s] = i
                /\ fired' = fired \union {<<s, now, boots, id[s], defs[s]>> : s \in due}
           /\ tasks' = Enqueued(tasks, new, DefaultLimit)
           /\ issued' = issued + Cardinality(due)
           /\ sched' = [pc |-> IF due = {} THEN "idle" ELSE "flush",
                        loaded |-> TRUE,
                        last |-> [s \in Schedules |->
                                    IF s \in due THEN now ELSE last[s]]]
           /\ IF due = {} THEN UNCHANGED fileVars ELSE CallFlush(Scheduler)
  /\ UNCHANGED <<phase, worker, poster, stateFile, now,
                 runs, ran, acked, boots, exit>>

SchedFlushed ==
  /\ sched.pc = "flush"
  /\ FlushReturns(Scheduler)
  /\ sched' = [sched EXCEPT !.pc = "state"]
  /\ UNCHANGED <<tasks, phase, worker, poster, stateFile, now, histVars>>

(* Variant with a plausible bug: the state is written all the same. *)
SchedFlushRejectsGoesOn ==
  /\ sched.pc = "flush"
  /\ FlushRejects(Scheduler, NoFlush)
  /\ sched' = [sched EXCEPT !.pc = "state"]
  /\ UNCHANGED <<tasks, phase, worker, poster, stateFile, now, histVars>>

(* The queue's flush rejects: logged, the tick is over; lastRunAt stays as *)
(* it is in memory, nothing is written to the state file.                  *)
SchedFlushRejects ==
  /\ sched.pc = "flush"
  /\ FlushRejects(Scheduler, NoFlush)
  /\ sched' = [sched EXCEPT !.pc = "idle"]
  /\ UNCHANGED <<tasks, phase, worker, poster, stateFile, now, histVars>>

(* flushState(): the tick is the only writer of the state file, so tmp +   *)
(* rename replaces it at one instant; or it rejects and is logged.         *)
SchedSaves ==
  /\ sched.pc = "state"
  /\ \/ stateFile' = sched.last /\ UNCHANGED fileVars
     \/ /\ faults < MaxFaults
        /\ faults' = faults + 1
        /\ UNCHANGED <<stateFile, disk, flush, overlap>>
  /\ sched' = [sched EXCEPT !.pc = "idle"]
  /\ UNCHANGED <<tasks, phase, worker, poster, now, histVars>>

TimePasses ==
  /\ now < MaxNow
  /\ now' = now + 1
  /\ UNCHANGED <<procVars, stateFile, histVars, fileVars>>

-----------------------------------------------------------------------------
(* The life of the process. *)

ProcessEnds(how) ==
  /\ phase' = "down"
  /\ exit' = how
  /\ tasks' = EmptyQueue
  /\ worker' = IdleWorker
  /\ poster' = [p \in Posters |-> IdlePoster]
  /\ sched' = IdleSched
  /\ FlushesDie
  /\ UNCHANGED <<stateFile, now, issued, runs, ran, acked, fired, boots>>

Crash ==
  /\ phase # "down"
  /\ ProcessEnds("died")
  /\ UNCHANGED <<disk, overlap, faults>>

(* The flush in the catch block rejects: tick() rejects, nobody handles    *)
(* the promise that start() voids, and Node ends the process.              *)
UnhandledRejection ==
  /\ worker.pc = "lastFlush"
  /\ FlushFails(Worker)
  /\ ProcessEnds("died")

(* SIGTERM: new requests are refused, the worker claims nothing more, the  *)
(* schedules' timer is cleared. *)
DrainBegins ==
  /\ phase = "up"
  /\ phase' = "draining"
  /\ UNCHANGED <<tasks, worker, poster, sched, stateFile, now, histVars, fileVars>>

(* Variant with a plausible bug: drain() does not wait for inFlight(). *)
DrainEndsAtOnce ==
  /\ phase = "draining"
  /\ ProcessEnds("drained")
  /\ UNCHANGED <<disk, overlap, faults>>

(* worker.inFlight() has settled, or drainTimeoutMs is over.  What follows *)
(* (shutdown frames, waiting for SSE sinks, server.close) is bounded by    *)
(* timers and ends in process.exit(0), whatever requests or ticks are      *)
(* still open. *)
DrainEnds ==
  /\ phase = "draining"
  /\ ProcessEnds(IF worker.pc = "idle" THEN "drained" ELSE "timeout")
  /\ UNCHANGED <<disk, overlap, faults>>

(* TaskQueue.open() in the next incarnation. *)
Restart ==
  /\ phase = "down"
  /\ boots < MaxBoots
  /\ phase' = "up"
  /\ boots' = boots + 1
  /\ exit' = "none"
  /\ tasks' = Reopened(Loaded(disk.file, EmptyQueue))
  /\ ran' = {}
  /\ UNCHANGED <<worker, poster, sched, stateFile, now,
                 issued, runs, acked, fired, fileVars>>

FlushGoesOn(f) ==
  /\ FlushStep(f, tasks)
  /\ UNCHANGED <<procVars, stateFile, now, histVars>>

PosterNext(p) ==
  PostArrives(p) \/ PostEnqueues(p) \/ PostRefused(p) \/ PostAnswered(p)

WorkerNext ==
  \/ \E i \in Ids : WorkerClaims(i)
  \/ RunAnswers \/ RunFails
  \/ WorkerFlushed \/ FlushTakenForFailure \/ UnhandledRejection \/ Said

SchedNext ==
  SchedTicks \/ SchedFires \/ SchedFlushed \/ SchedFlushRejects \/ SchedSaves

Next ==
  \/ \E p \in Posters : PosterNext(p)
  \/ WorkerNext
  \/ SchedNext
  \/ \E f \in Flushers : FlushGoesOn(f)
  \/ \E i \in Ids : BackoffElapses(i)
  \/ TimePasses
  \/ Crash \/ DrainBegins \/ DrainEnds \/ Restart

Spec == Init /\ [][Next]_vars

(* What the scheduling of the code gives: the worker's timer keeps firing, *)
(* runTask, notify and file-system calls settle, and time passes.          *)
Fairness ==
  /\ WF_vars(WorkerNext)
  /\ \A f \in Flushers : WF_vars(FlushGoesOn(f))
  /\ \A i \in Ids : WF_vars(BackoffElapses(i))

FairSpec == Spec /\ Fairness

-----------------------------------------------------------------------------
(* Properties *)

(* The variables hold values of their types. *)
TypeOK ==
  /\ tasks \in Queue
  /\ phase \in {"up", "draining", "down"}
  /\ worker \in [pc : {"idle", "run", "flush", "lastFlush", "say"}, task : Nat]
  /\ worker.pc # "idle" => worker.task \in Ids
  /\ poster \in [Posters -> [pc : {"idle", "body", "flush"}, task : Nat]]
  /\ \A p \in Posters : poster[p].pc = "flush" => poster[p].task \in Ids
  /\ sched \in [pc : {"idle", "read", "flush", "state"}, loaded : BOOLEAN,
                last : [Schedules -> Times \union {Never}]]
  /\ stateFile \in [Schedules -> Times \union {Never}]
  /\ now \in Times
  /\ issued \in 0 .. MaxTasks
  /\ runs \in [Ids -> Nat]
  /\ ran \subseteq Ids /\ acked \subseteq Ids
  /\ fired \subseteq Schedules \X Times \X (1 .. MaxBoots) \X Ids \X Definitions
  /\ boots \in 1 .. MaxBoots
  /\ exit \in {"none", "drained", "timeout", "died"}
  /\ FileTypeOK(Queue)

(* Every queue there is: in memory, in a flush under way, in a file. *)
Copies == {tasks} \union Held

(* What every record of a task, in every copy of the queue, has in common: *)
(* the part of the state that makes the three properties below inductive.  *)
SoundRecord(t, i) ==
  /\ i > issued => t.status = "absent"
  /\ t.status = "queued" => t.attempts < t.max + (boots - 1)
  /\ t.status # "absent" => t.attempts <= t.max + (boots - 1)
  /\ t.status = "failed" => t.max <= t.attempts
  /\ t.attempts <= runs[i]

SoundQueue(q) == \A i \in Ids : SoundRecord(q[i], i)

CopiesSound == \A q \in Copies : SoundQueue(q)

(* A process that is down has nothing in memory.                           *)
DownIsEmpty ==
  phase = "down" => /\ tasks = EmptyQueue
                    /\ worker = IdleWorker
                    /\ poster = [p \in Posters |-> IdlePoster]
                    /\ sched = IdleSched

(* The task of a tick under way exists.                                    *)
WorkerHasTask == worker.pc # "idle" => tasks[worker.task].status # "absent"

(* A task is running exactly while the worker waits for its run: the busy  *)
(* guard of start() gives one run at a time, and open() leaves nothing     *)
(* running that nobody runs.                                               *)
OneRunAtATime ==
  \A i \in Ids : tasks[i].status = "running" <=> worker = [pc |-> "run", task |-> i]

(* A restart may hand a task one attempt more than maxAttempts (open()     *)
(* queues a task again that was running its last attempt), and nothing     *)
(* else does: the count never passes maxAttempts by more than the number   *)
(* of restarts.                                                            *)
AttemptsBounded ==
  \A q \in Copies, i \in Ids :
    q[i].status # "absent" => q[i].attempts <= q[i].max + (boots - 1)

(* A task is given up only after it has really been run maxAttempts times: *)
(* no path of tick() (a flush taken for a failed run, fail() called twice  *)
(* for one attempt) and no reload from an old file counts an attempt that  *)
(* was not made.                                                           *)
GivenUpAfterMaxRuns ==
  \A q \in Copies, i \in Ids :
    q[i].status = "failed" => runs[i] >= q[i].max

(* A task is given up neither late nor early.                              *)
AttemptsFair == AttemptsBounded /\ GivenUpAfterMaxRuns

(* While no two flushes have overlapped and the file system has not        *)
(* failed, a task whose POST was answered is in the file: a crash at any   *)
(* point cannot lose it.                                                   *)
AckedIsOnDisk ==
  ~overlap /\ faults = 0 =>
    acked \subseteq Present(Loaded(disk.file, EmptyQueue))

(* While no two flushes have overlapped, the schedules' state file is      *)
(* never ahead of the queue file: a firing it records has its task on      *)
(* disk, so a restart that trusts it cannot skip a period.  This is why    *)
(* tick() flushes the queue before the state.                              *)
StateBehindQueue ==
  ~overlap => \A s \in Schedules :
    stateFile[s] # Never =>
      \E x \in fired : /\ x[1] = s /\ x[2] = stateFile[s]
                       /\ x[4] \in Present(Loaded(disk.file, EmptyQueue))

(* A period of definition d has begun after time t, and not after u.       *)
PeriodBegan(d, t, u) ==
  IF d.kind = "daily"
  THEN t < DueAt(d, u) /\ DueAt(d, u) <= u
  ELSE u - t >= d.everyMinutes

(* No period is fired twice by one incarnation: a schedule never fires     *)
(* twice at one time, and when it fires again, a period of the definition  *)
(* that is in force by then has begun since every earlier firing: today's  *)
(* HH:MM lies between the two, or the interval has elapsed.  This holds    *)
(* whatever edits, failed flushes or slow ticks come between.  Moving `at' *)
(* to a later time after a firing therefore fires again on the same day,   *)
(* as the definition asks; as long as it is not edited, once a day.        *)
OneFiringPerPeriod ==
  \A x, y \in fired :
    x # y /\ x[1] = y[1] /\ x[3] = y[3] =>
      /\ x[2] # y[2]
      /\ x[2] < y[2] => PeriodBegan(y[5], x[2], y[2])

(* Both together: a schedule is neither skipped nor fired twice.           *)
SchedulesSound == StateBehindQueue /\ OneFiringPerPeriod

(* When drain has waited for the task in flight, and no two flushes have   *)
(* overlapped, no task of this incarnation is left running in the file:    *)
(* what inFlight() of worker.ts is for.                                    *)
DrainLeavesNothingRunning ==
  exit = "drained" /\ ~overlap =>
    \A i \in ran : Loaded(disk.file, EmptyQueue)[i].status # "running"

(* While the process lives, a task that is done stays done, except when    *)
(* the flush that follows complete() rejects.                              *)
DoneStaysDone ==
  [][\A i \in Ids :
       tasks[i].status = "done" /\ phase' # "down" =>
         \/ tasks'[i].status = "done"
         \/ worker.pc = "flush" /\ worker.task = i /\ FlushFails(Worker)]_vars

(* Every task the process has in memory is done or failed in the end,      *)
(* unless the process goes down or drains: no task is starved by others,   *)
(* by its backoff or by a flush that rejects.                              *)
EveryTaskSettles ==
  \A i \in Ids :
    (phase = "up" /\ tasks[i].status = "queued")
      ~> (phase # "up" \/ tasks[i].status \in {"done", "failed"})
=============================================================================
