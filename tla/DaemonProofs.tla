---------------------------- MODULE DaemonProofs ----------------------------
(***************************************************************************)
(* Theorems about the daemon and its queue, for any number of tasks,       *)
(* requests, schedules, restarts and file-system faults.                   *)
(*                                                                         *)
(* The argument about attempts: a record of a task lives in several copies *)
(* of the queue at once (in memory, in a snapshot under way, in two files) *)
(* and a restart may take any of them, so the invariant CopiesSound speaks *)
(* of all of them.  It is inductive because a step changes the copy in     *)
(* memory only; all others are, by QueueFileProofs, copies there were      *)
(* before.  What is promised of the file itself needs more, the invariant  *)
(* FlowInv: see "The flow from memory to the file" below.                  *)
(***************************************************************************)
EXTENDS Daemon, QueueFileProofs, FiniteSetTheorems

(* What the mutators of the queue do to the record they are called for and *)
(* to the others                                                           *)

(* The empty queue is a queue, and has no task.                            *)
LEMMA EmptyQueueType == EmptyQueue \in Queue
BY DEF EmptyQueue, NoTask, Queue, Task, Statuses

(* A queue with new tasks in it is a queue.                                *)
LEMMA EnqueuedType ==
  ASSUME NEW q \in Queue, NEW new, NEW m \in Nat
  PROVE  Enqueued(q, new, m) \in Queue
BY DEF Enqueued, NewTask, Queue, Task, Statuses

(* Claiming changes the status and the attempts of one task.               *)
LEMMA ClaimedType ==
  ASSUME NEW q \in Queue, NEW i \in Ids
  PROVE  /\ Claimed(q, i) \in Queue
         /\ \A j \in Ids \ {i} : Claimed(q, i)[j] = q[j]
         /\ Claimed(q, i)[i].status = "running"
         /\ Claimed(q, i)[i].attempts = q[i].attempts + 1
         /\ Claimed(q, i)[i].max = q[i].max
<1> DEFINE rec == [q[i] EXCEPT !.status = "running", !.attempts = @ + 1]
<1>1. q[i] \in Task
  BY DEF Queue
<1>2. rec \in Task /\ rec.status = "running" /\ rec.attempts = q[i].attempts + 1
                  /\ rec.max = q[i].max
  <2>1. q[i].attempts + 1 \in Nat
    BY <1>1 DEF Task
  <2>2. \A n \in Nat : LET r == [q[i] EXCEPT !.status = "running", !.attempts = n]
                      IN  r \in Task /\ r.status = "running" /\ r.attempts = n
                                     /\ r.max = q[i].max
    BY <1>1 DEF Task, Statuses
  <2> QED  BY <2>1, <2>2
<1>3. Claimed(q, i) = [q EXCEPT ![i] = rec]
  BY DEF Claimed, Queue
<1> HIDE DEF rec
<1> QED  BY <1>2, <1>3 DEF Queue

(* Completing changes the status of one task.                              *)
LEMMA CompletedType ==
  ASSUME NEW q \in Queue, NEW i \in Ids
  PROVE  /\ Completed(q, i) \in Queue
         /\ \A j \in Ids : Completed(q, i)[j] =
              IF j = i THEN [q[i] EXCEPT !.status = "done"] ELSE q[j]
BY DEF Completed, Queue, Task, Statuses

(* A failed attempt gives the task up if it has had its attempts, and puts *)
(* it back otherwise; it counts nothing.                                   *)
LEMMA FailedAttemptType ==
  ASSUME NEW q \in Queue, NEW i \in Ids
  PROVE  /\ FailedAttempt(q, i) \in Queue
         /\ \A j \in Ids \ {i} : FailedAttempt(q, i)[j] = q[j]
         /\ FailedAttempt(q, i)[i].attempts = q[i].attempts
         /\ FailedAttempt(q, i)[i].max = q[i].max
         /\ FailedAttempt(q, i)[i].status =
              IF q[i].attempts >= q[i].max THEN "failed" ELSE "queued"
<1>1. CASE q[i].attempts >= q[i].max
  BY <1>1 DEF FailedAttempt, Queue, Task, Statuses
<1>2. CASE ~(q[i].attempts >= q[i].max)
  BY <1>2 DEF FailedAttempt, Queue, Task, Statuses
<1> QED  BY <1>1, <1>2

(* A queue that was loaded is a queue in which nothing runs.               *)
LEMMA ReopenedType ==
  ASSUME NEW q \in Queue
  PROVE  /\ Reopened(q) \in Queue
         /\ \A j \in Ids :
              /\ Reopened(q)[j].attempts = q[j].attempts
              /\ Reopened(q)[j].max = q[j].max
              /\ Reopened(q)[j].status =
                   IF q[j].status = "running" THEN "queued" ELSE q[j].status
BY DEF Reopened, Queue, Task, Statuses

(* The end of a backoff changes nothing but that.                          *)
LEMMA CooledType ==
  ASSUME NEW q \in Queue, NEW i \in Ids
  PROVE  /\ Cooled(q, i) \in Queue
         /\ \A j \in Ids : /\ Cooled(q, i)[j].status = q[j].status
                           /\ Cooled(q, i)[j].attempts = q[j].attempts
                           /\ Cooled(q, i)[j].max = q[j].max
BY DEF Cooled, Queue, Task, Statuses

-----------------------------------------------------------------------------
(* Constants *)

(* The callers of flush() are flushers.                                    *)
LEMMA Callers ==
  /\ Worker \in Flushers /\ Scheduler \in Flushers
  /\ \A p \in Posters : p \in Flushers
BY CallersAssumption

(* A default limit, and the limits of the requests, are numbers.           *)
LEMMA Limits == DefaultLimit \in Nat /\ \A m \in AttemptLimits : m \in Nat /\ m > 0
BY SchedulesAssumption, AttemptLimitsAssumption

-----------------------------------------------------------------------------
(* Type correctness *)

(* The variables have their types at first.                                *)
LEMMA InitTypes == Init => TypeOK
<1> SUFFICES ASSUME Init PROVE TypeOK
  OBVIOUS
<1>1. tasks \in Queue
  BY EmptyQueueType DEF Init
<1>2. FileTypeOK(Queue)
  BY FileInitTypes DEF Init
<1>3. /\ worker \in [pc : {"idle", "run", "flush", "lastFlush", "say"}, task : Nat]
      /\ worker.pc = "idle"
  BY DEF Init, IdleWorker
<1>4. /\ poster \in [Posters -> [pc : {"idle", "body", "flush"}, task : Nat]]
      /\ \A p \in Posters : poster[p].pc # "flush"
  BY DEF Init, IdlePoster
<1>5. sched \in [pc : {"idle", "read", "flush", "state"}, loaded : BOOLEAN,
                 last : [Schedules -> Times \union {Never}]]
  BY DEF Init, IdleSched
<1>6. now \in Times /\ issued \in 0 .. MaxTasks /\ boots \in 1 .. MaxBoots
  BY MaxTasksAssumption, SchedulesAssumption DEF Init, Times
<1> QED  BY <1>1, <1>2, <1>3, <1>4, <1>5, <1>6 DEF TypeOK, Init

(* Steps that leave the files and the flushes alone.                       *)
LEMMA UnchangedFileTypes ==
  ASSUME FileTypeOK(Queue), UNCHANGED fileVars
  PROVE  FileTypeOK(Queue)'
BY DEF fileVars, FileTypeOK

(* The handlers of POST /tasks keep the types.                             *)
LEMMA PosterTypes ==
  ASSUME TypeOK, NEW p \in Posters, PosterNext(p)
  PROVE  TypeOK'
<1> DEFINE PosterType == [Posters -> [pc : {"idle", "body", "flush"}, task : Nat]]
<1> USE Callers DEF TypeOK, procVars, histVars
<1>1. CASE PostArrives(p)
  <2>1. FileTypeOK(Queue)'
    BY <1>1, UnchangedFileTypes DEF PostArrives
  <2>2. /\ poster' \in PosterType
        /\ \A q \in Posters : poster'[q].pc = "flush" => poster'[q] = poster[q]
    BY <1>1 DEF PostArrives
  <2> QED  BY <1>1, <2>1, <2>2 DEF PostArrives
<1>2. CASE PostEnqueues(p)
  <2>1. FileTypeOK(Queue)'
    BY <1>2, CallFlushTypes DEF PostEnqueues
  <2>2. tasks' \in Queue
    BY <1>2, EnqueuedType, Limits DEF PostEnqueues
  <2>3. issued' \in 0 .. MaxTasks /\ issued + 1 \in Ids /\ issued + 1 \in Nat
    BY <1>2, MaxTasksAssumption DEF PostEnqueues, Ids
  <2>4. poster' = [poster EXCEPT ![p] = [pc |-> "flush", task |-> issued + 1]]
    BY <1>2 DEF PostEnqueues
  <2>5. /\ poster' \in PosterType
        /\ \A q \in Posters : poster'[q].pc = "flush" => poster'[q].task \in Ids
    BY <2>3, <2>4
  <2> QED  BY <1>2, <2>1, <2>2, <2>3, <2>5 DEF PostEnqueues
<1>3. CASE PostRefused(p)
  <2>1. FileTypeOK(Queue)'
    BY <1>3, UnchangedFileTypes DEF PostRefused
  <2>2. /\ poster' \in PosterType
        /\ \A q \in Posters : poster'[q].pc = "flush" => poster'[q] = poster[q]
    BY <1>3 DEF PostRefused, IdlePoster
  <2> QED  BY <1>3, <2>1, <2>2 DEF PostRefused
<1>4. CASE PostAnswered(p)
  <2>1. FileTypeOK(Queue)'
    BY <1>4, FlushReturnsTypes, FlushRejectsTypes DEF PostAnswered
  <2>2. /\ poster' \in PosterType
        /\ \A q \in Posters : poster'[q].pc = "flush" => poster'[q] = poster[q]
    BY <1>4 DEF PostAnswered, IdlePoster
  <2>3. acked' \subseteq Ids
    BY <1>4 DEF PostAnswered
  <2> QED  BY <1>4, <2>1, <2>2, <2>3 DEF PostAnswered
<1> QED  BY <1>1, <1>2, <1>3, <1>4 DEF PosterNext

(* However the process ends, what it had in memory is gone.                *)
LEMMA ProcessEndsTypes ==
  ASSUME TypeOK, NEW how \in {"none", "drained", "timeout", "died"},
         ProcessEnds(how), FileTypeOK(Queue)'
  PROVE  TypeOK'
<1>1. tasks' \in Queue
  BY EmptyQueueType DEF ProcessEnds
<1>2. /\ worker' \in [pc : {"idle", "run", "flush", "lastFlush", "say"}, task : Nat]
      /\ worker'.pc = "idle"
  BY DEF ProcessEnds, IdleWorker
<1>3. /\ poster' \in [Posters -> [pc : {"idle", "body", "flush"}, task : Nat]]
      /\ \A p \in Posters : poster'[p].pc # "flush"
  BY DEF ProcessEnds, IdlePoster
<1>4. sched' \in [pc : {"idle", "read", "flush", "state"}, loaded : BOOLEAN,
                  last : [Schedules -> Times \union {Never}]]
  BY DEF ProcessEnds, IdleSched
<1> QED  BY <1>1, <1>2, <1>3, <1>4 DEF TypeOK, ProcessEnds

(* So do the steps of tick().                                              *)
LEMMA WorkerTypes ==
  ASSUME TypeOK, WorkerNext
  PROVE  TypeOK'
<1> USE Callers DEF TypeOK, procVars, histVars
<1>0. ASSUME NEW i \in Ids, NEW n \in Nat
      PROVE  i \in Nat /\ n + 1 \in Nat
  BY MaxTasksAssumption DEF Ids
<1>1. ASSUME NEW i \in Ids, WorkerClaims(i)  PROVE TypeOK'
  <2>1. FileTypeOK(Queue)'
    BY <1>1, UnchangedFileTypes DEF WorkerClaims
  <2>2. tasks' \in Queue
    BY <1>1, ClaimedType DEF WorkerClaims
  <2>3. /\ worker' \in [pc : {"idle", "run", "flush", "lastFlush", "say"}, task : Nat]
        /\ worker'.task \in Ids
    BY <1>0, <1>1 DEF WorkerClaims
  <2>4. runs' \in [Ids -> Nat]
    BY <1>0, <1>1 DEF WorkerClaims
  <2> QED  BY <1>1, <2>1, <2>2, <2>3, <2>4 DEF WorkerClaims
<1>2. CASE RunAnswers
  <2>1. FileTypeOK(Queue)'
    BY <1>2, CallFlushTypes DEF RunAnswers
  <2>2. tasks' \in Queue
    BY <1>2, CompletedType DEF RunAnswers
  <2> QED  BY <1>2, <2>1, <2>2 DEF RunAnswers
<1>3. CASE RunFails
  <2>1. FileTypeOK(Queue)'
    BY <1>3, CallFlushTypes DEF RunFails
  <2>2. tasks' \in Queue
    BY <1>3, FailedAttemptType DEF RunFails
  <2> QED  BY <1>3, <2>1, <2>2 DEF RunFails
<1>4. CASE WorkerFlushed
  <2>1. FileTypeOK(Queue)'
    BY <1>4, FlushReturnsTypes DEF WorkerFlushed
  <2> QED  BY <1>4, <2>1 DEF WorkerFlushed
<1>5. CASE FlushTakenForFailure
  <2>1. FileTypeOK(Queue)'
    BY <1>5, FlushRejectsTypes DEF FlushTakenForFailure
  <2>2. tasks' \in Queue
    BY <1>5, FailedAttemptType DEF FlushTakenForFailure
  <2> QED  BY <1>5, <2>1, <2>2 DEF FlushTakenForFailure
<1>6. CASE UnhandledRejection
  <2>1. FileTypeOK(Queue)'
    BY <1>6, FlushFailsTypes, FlushesDieTypes DEF UnhandledRejection, ProcessEnds
  <2> QED  BY <1>6, <2>1, ProcessEndsTypes DEF UnhandledRejection
<1>7. CASE Said
  <2>1. FileTypeOK(Queue)'
    BY <1>7, UnchangedFileTypes DEF Said
  <2> QED  BY <1>7, <2>1 DEF Said, IdleWorker
<1> QED  BY <1>1, <1>2, <1>3, <1>4, <1>5, <1>6, <1>7 DEF WorkerNext

(* A tick of the schedules enqueues as many tasks as are due, and there is *)
(* room for them.                                                          *)
LEMMA FiringTypes ==
  ASSUME TypeOK, NEW due \in SUBSET Schedules,
         issued + 1 .. issued + Cardinality(due) \subseteq Ids
  PROVE  issued + Cardinality(due) \in 0 .. MaxTasks
<1>1. Cardinality(due) \in Nat
  BY SchedulesAssumption, FS_Subset, FS_CardinalityType
<1>2. CASE Cardinality(due) = 0
  BY <1>2 DEF TypeOK
<1>3. CASE Cardinality(due) > 0
  <2>1. issued + Cardinality(due) \in issued + 1 .. issued + Cardinality(due)
    BY <1>1, <1>3 DEF TypeOK
  <2> QED  BY <2>1, MaxTasksAssumption DEF Ids
<1> QED  BY <1>1, <1>2, <1>3

(* A firing enqueues a task for each of a set of schedules.                *)
LEMMA FiringIssues ==
  ASSUME SchedFires
  PROVE  \E due \in SUBSET Schedules :
           /\ issued' = issued + Cardinality(due)
           /\ tasks' = Enqueued(tasks, issued + 1 .. issued + Cardinality(due), DefaultLimit)
<1> DEFINE last == IF sched.loaded THEN sched.last ELSE stateFile
<1>1. PICK defs \in UNION {[present -> Definitions] : present \in SUBSET Schedules} :
        LET due == {s \in DOMAIN defs : IsDue(defs[s], last[s], now)}
            new == issued + 1 .. issued + Cardinality(due)
        IN  /\ issued' = issued + Cardinality(due)
            /\ tasks' = Enqueued(tasks, new, DefaultLimit)
  BY Zenon DEF SchedFires
<1> DEFINE due == {s \in DOMAIN defs : IsDue(defs[s], last[s], now)}
<1>2. due \in SUBSET Schedules
  OBVIOUS
<1>3. /\ issued' = issued + Cardinality(due)
      /\ tasks' = Enqueued(tasks, issued + 1 .. issued + Cardinality(due), DefaultLimit)
  BY <1>1
<1> HIDE DEF due
<1> QED  BY <1>2, <1>3

(* So do the steps of the schedules' tick.                                 *)
LEMMA SchedTypes ==
  ASSUME TypeOK, SchedNext
  PROVE  TypeOK'
<1> USE Callers DEF TypeOK, procVars, histVars
<1>1. CASE SchedTicks
  <2>1. FileTypeOK(Queue)'
    BY <1>1, UnchangedFileTypes DEF SchedTicks
  <2> QED  BY <1>1, <2>1 DEF SchedTicks
<1>2. CASE SchedFires
  <2> DEFINE last == IF sched.loaded THEN sched.last ELSE stateFile
  <2>1. PICK defs \in UNION {[present -> Definitions] : present \in SUBSET Schedules} :
          LET due == {s \in DOMAIN defs : IsDue(defs[s], last[s], now)}
              new == issued + 1 .. issued + Cardinality(due)
          IN  /\ new \subseteq Ids
              /\ \E id \in [due -> new] :
                   /\ \A i \in new : \E s \in due : id[s] = i
                   /\ fired' = fired \union {<<s, now, boots, id[s], defs[s]>> : s \in due}
              /\ tasks' = Enqueued(tasks, new, DefaultLimit)
              /\ issued' = issued + Cardinality(due)
              /\ sched' = [pc |-> IF due = {} THEN "idle" ELSE "flush",
                           loaded |-> TRUE,
                           last |-> [s \in Schedules |->
                                       IF s \in due THEN now ELSE last[s]]]
              /\ IF due = {} THEN UNCHANGED fileVars ELSE CallFlush(Scheduler)
    BY <1>2 DEF SchedFires
  <2> DEFINE due == {s \in DOMAIN defs : IsDue(defs[s], last[s], now)}
             new == issued + 1 .. issued + Cardinality(due)
  <2>2. due \in SUBSET Schedules
    OBVIOUS
  <2>3. last \in [Schedules -> Times \union {Never}]
    OBVIOUS
  <2>4. PICK id \in [due -> new] :
          fired' = fired \union {<<s, now, boots, id[s], defs[s]>> : s \in due}
    BY <2>1
  <2>5. /\ new \subseteq Ids
        /\ tasks' = Enqueued(tasks, new, DefaultLimit)
        /\ issued' = issued + Cardinality(due)
        /\ sched' = [pc |-> IF due = {} THEN "idle" ELSE "flush", loaded |-> TRUE,
                     last |-> [s \in Schedules |-> IF s \in due THEN now ELSE last[s]]]
        /\ IF due = {} THEN UNCHANGED fileVars ELSE CallFlush(Scheduler)
    BY <2>1
  <2>6. issued' \in 0 .. MaxTasks
    BY <2>2, <2>5, FiringTypes
  <2>11. \A s \in due : defs[s] \in Definitions
    OBVIOUS
  <2> HIDE DEF new, due, last
  <2>7. FileTypeOK(Queue)'
    BY <2>5, UnchangedFileTypes, CallFlushTypes
  <2>8. tasks' \in Queue
    BY <2>5, EnqueuedType, Limits
  <2>9. sched' \in [pc : {"idle", "read", "flush", "state"}, loaded : BOOLEAN,
                    last : [Schedules -> Times \union {Never}]]
    BY <2>2, <2>3, <2>5
  <2>10. fired' \subseteq Schedules \X Times \X (1 .. MaxBoots) \X Ids \X Definitions
    BY <2>2, <2>4, <2>5, <2>11
  <2> QED  BY <1>2, <2>6, <2>7, <2>8, <2>9, <2>10 DEF SchedFires
<1>3. CASE SchedFlushed
  <2>1. FileTypeOK(Queue)'
    BY <1>3, FlushReturnsTypes DEF SchedFlushed
  <2> QED  BY <1>3, <2>1 DEF SchedFlushed
<1>4. CASE SchedFlushRejects
  <2>1. FileTypeOK(Queue)'
    BY <1>4, FlushRejectsTypes DEF SchedFlushRejects
  <2> QED  BY <1>4, <2>1 DEF SchedFlushRejects
<1>5. CASE SchedSaves
  <2>1. FileTypeOK(Queue)'
    BY <1>5 DEF SchedSaves, fileVars, FileTypeOK
  <2> QED  BY <1>5, <2>1 DEF SchedSaves
<1> QED  BY <1>1, <1>2, <1>3, <1>4, <1>5 DEF SchedNext

(* The type invariant is inductive.                                        *)
LEMMA NextTypes ==
  ASSUME TypeOK, [Next]_vars
  PROVE  TypeOK'
<1> USE DEF TypeOK
<1>1. ASSUME NEW f \in Flushers, FlushGoesOn(f)  PROVE TypeOK'
  <2>1. FileTypeOK(Queue)'
    BY <1>1, FlushStepTypes DEF FlushGoesOn
  <2> QED  BY <1>1, <2>1 DEF FlushGoesOn, procVars, histVars
<1>2. ASSUME NEW i \in Ids, BackoffElapses(i)  PROVE TypeOK'
  <2>1. FileTypeOK(Queue)'
    BY <1>2, UnchangedFileTypes DEF BackoffElapses
  <2>2. tasks' \in Queue
    BY <1>2, CooledType DEF BackoffElapses
  <2> QED  BY <1>2, <2>1, <2>2 DEF BackoffElapses, histVars
<1>3. CASE TimePasses
  <2>1. FileTypeOK(Queue)'
    BY <1>3, UnchangedFileTypes DEF TimePasses
  <2>2. now' \in Times
    BY <1>3, SchedulesAssumption DEF TimePasses, Times
  <2> QED  BY <1>3, <2>1, <2>2 DEF TimePasses, procVars, histVars
<1>4. CASE Crash \/ DrainEnds
  <2>1. FileTypeOK(Queue)'
    <3>1. FlushesDie /\ disk' = disk /\ overlap' = overlap /\ faults' = faults
      BY <1>4 DEF Crash, DrainEnds, ProcessEnds
    <3> QED  BY <3>1, FlushesDieTypes DEF FileTypeOK
  <2>2. \E how \in {"none", "drained", "timeout", "died"} : ProcessEnds(how)
    BY <1>4 DEF Crash, DrainEnds
  <2> QED  BY <2>1, <2>2, ProcessEndsTypes
<1>5. CASE DrainBegins
  <2>1. FileTypeOK(Queue)'
    BY <1>5, UnchangedFileTypes DEF DrainBegins
  <2> QED  BY <1>5, <2>1 DEF DrainBegins, histVars
<1>6. CASE Restart
  <2>1. FileTypeOK(Queue)'
    BY <1>6, UnchangedFileTypes DEF Restart
  <2>2. Loaded(disk.file, EmptyQueue) \in Queue
    BY LoadedIsHeld, EmptyQueueType DEF FileTypeOK, DiskType
  <2>3. tasks' \in Queue
    BY <1>6, <2>2, ReopenedType DEF Restart
  <2>4. boots' \in 1 .. MaxBoots
    BY <1>6, SchedulesAssumption DEF Restart
  <2> QED  BY <1>6, <2>1, <2>3, <2>4 DEF Restart
<1>7. CASE UNCHANGED vars
  <2>1. FileTypeOK(Queue)'
    BY <1>7, UnchangedFileTypes DEF vars
  <2> QED  BY <1>7, <2>1 DEF vars, procVars, histVars
<1> QED
  BY <1>1, <1>2, <1>3, <1>4, <1>5, <1>6, <1>7, PosterTypes, WorkerTypes, SchedTypes DEF Next

(* The variables of the daemon always have their types.                    *)
THEOREM TypeCorrect == Spec => []TypeOK
<1>1. TypeOK /\ [Next]_vars => TypeOK'
  BY NextTypes
<1> QED  BY <1>1, InitTypes, PTL DEF Spec

-----------------------------------------------------------------------------
(* The copies of the queue *)

(* A step makes no copy but the one in memory: everything else that is     *)
(* held after it was a copy before it.                                     *)
LEMMA UnchangedFileHeld ==
  ASSUME UNCHANGED fileVars
  PROVE  Held' \subseteq Held
BY DEF fileVars, Held

(* The same for a whole step: what is held after it was held before, or    *)
(* is the queue in memory before it.                                       *)
LEMMA HeldStep ==
  ASSUME TypeOK, [Next]_vars
  PROVE  Held' \subseteq Copies
<1> USE Callers
<1>0. FileTypeOK(Queue) /\ tasks \in Queue
  BY DEF TypeOK
<1>1. ASSUME NEW p \in Posters, PosterNext(p)  PROVE Held' \subseteq Held
  <2>1. \/ UNCHANGED fileVars \/ CallFlush(p)
        \/ FlushReturns(p) \/ FlushRejects(p, NoFlush)
    BY <1>1 DEF PosterNext, PostArrives, PostEnqueues, PostRefused, PostAnswered
  <2> QED  BY <1>0, <2>1, UnchangedFileHeld, CallFlushHeld, FlushReturnsHeld, FlushRejectsHeld
<1>2. CASE WorkerNext
  <2>1. \/ UNCHANGED fileVars \/ CallFlush(Worker)
        \/ FlushReturns(Worker) \/ FlushRejects(Worker, NewFlush)
        \/ FlushesDie /\ disk' = disk
    BY <1>2 DEF WorkerNext, WorkerClaims, RunAnswers, RunFails, WorkerFlushed,
                FlushTakenForFailure, UnhandledRejection, ProcessEnds, FlushFails, Said
  <2>2. Held' \subseteq Held
    BY <1>0, <2>1, UnchangedFileHeld, CallFlushHeld, FlushReturnsHeld,
       FlushRejectsHeld, FlushesDieHeld
  <2> QED  BY <2>2 DEF Copies
<1>3. CASE SchedNext
  <2>1. \/ UNCHANGED fileVars \/ CallFlush(Scheduler)
        \/ FlushReturns(Scheduler) \/ FlushRejects(Scheduler, NoFlush)
        \/ disk' = disk /\ flush' = flush
    <3>1. CASE SchedFires
      BY <3>1, Zenon DEF SchedFires
    <3> QED
      BY <1>3, <3>1 DEF SchedNext, SchedTicks, SchedFlushed, SchedFlushRejects, SchedSaves
  <2>2. disk' = disk /\ flush' = flush => Held' \subseteq Held
    BY DEF Held
  <2>3. Held' \subseteq Held
    BY <1>0, <2>1, <2>2, UnchangedFileHeld, CallFlushHeld, FlushReturnsHeld, FlushRejectsHeld
  <2> QED  BY <2>3 DEF Copies
<1>4. ASSUME NEW f \in Flushers, FlushGoesOn(f)  PROVE Held' \subseteq Copies
  <2>1. FlushStep(f, tasks)
    BY <1>4 DEF FlushGoesOn
  <2>2. Held' \subseteq Held \union {tasks}
    BY <1>0, <2>1, FlushStepHeld
  <2> QED  BY <2>2 DEF Copies
<1>5. CASE Crash \/ DrainEnds
  <2>1. FlushesDie /\ disk' = disk
    BY <1>5 DEF Crash, DrainEnds, ProcessEnds
  <2> QED  BY <2>1, FlushesDieHeld DEF Copies
<1>6. CASE \/ \E i \in Ids : BackoffElapses(i)
           \/ TimePasses \/ DrainBegins \/ Restart \/ UNCHANGED vars
  <2>1. UNCHANGED fileVars
    BY <1>6 DEF BackoffElapses, TimePasses, DrainBegins, Restart, vars
  <2> QED  BY <2>1, UnchangedFileHeld DEF Copies
<1> QED  BY <1>1, <1>2, <1>3, <1>4, <1>5, <1>6 DEF Next, Copies

(* What counts records: tasks issued, runs and restarts only grow.         *)
LEMMA HistoryGrows ==
  ASSUME TypeOK, [Next]_vars
  PROVE  /\ issued <= issued' /\ boots <= boots'
         /\ \A i \in Ids : runs[i] <= runs'[i]
<1>1. CASE SchedFires
  <2>1. \E due \in SUBSET Schedules : issued' = issued + Cardinality(due)
    BY <1>1, FiringIssues
  <2>2. issued <= issued'
    BY <2>1, SchedulesAssumption, FS_Subset, FS_CardinalityType DEF TypeOK
  <2> QED  BY <1>1, <2>2 DEF SchedFires, TypeOK
<1> USE DEF TypeOK
<1>2. ASSUME NEW i \in Ids, WorkerClaims(i)
      PROVE  \A j \in Ids : runs[j] <= runs'[j]
  BY <1>2 DEF WorkerClaims
<1>3. ASSUME NEW p \in Posters, PostEnqueues(p)  PROVE issued <= issued'
  BY <1>3 DEF PostEnqueues
<1>4. CASE Restart
  BY <1>4 DEF Restart
<1>5. ASSUME NEW p \in Posters, PosterNext(p)
      PROVE  issued <= issued' /\ boots' = boots /\ runs' = runs
  BY <1>3, <1>5 DEF PosterNext, PostArrives, PostEnqueues, PostRefused, PostAnswered, histVars
<1>6. CASE WorkerNext
  <2>1. issued' = issued /\ boots' = boots
    BY <1>6 DEF WorkerNext, WorkerClaims, RunAnswers, RunFails, WorkerFlushed,
                FlushTakenForFailure, UnhandledRejection, ProcessEnds, Said, histVars
  <2>2. \A j \in Ids : runs[j] <= runs'[j]
    BY <1>2, <1>6 DEF WorkerNext, RunAnswers, RunFails, WorkerFlushed,
                FlushTakenForFailure, UnhandledRejection, ProcessEnds, Said, histVars
  <2> QED  BY <2>1, <2>2
<1>7. CASE SchedNext
  BY <1>1, <1>7 DEF SchedNext, SchedTicks, SchedFlushed, SchedFlushRejects, SchedSaves, histVars
<1>8. CASE \/ \E f \in Flushers : FlushGoesOn(f)
           \/ \E i \in Ids : BackoffElapses(i)
           \/ TimePasses \/ Crash \/ DrainBegins \/ DrainEnds \/ UNCHANGED vars
  <2>1. issued' = issued /\ boots' = boots /\ runs' = runs
    BY <1>8 DEF FlushGoesOn, BackoffElapses, TimePasses, Crash, DrainBegins, DrainEnds,
                ProcessEnds, vars, histVars
  <2> QED  BY <2>1
<1> QED  BY <1>4, <1>5, <1>6, <1>7, <1>8 DEF Next

(* A record that is sound stays sound when they grow.                      *)
LEMMA SoundStays ==
  ASSUME TypeOK, [Next]_vars, TypeOK',
         NEW t \in Task, NEW i \in Ids, SoundRecord(t, i)
  PROVE  SoundRecord(t, i)'
<1>1. issued \in Int /\ issued' \in Int /\ boots \in Int /\ boots' \in Int /\ i \in Int
  BY MaxTasksAssumption, SchedulesAssumption DEF TypeOK, Ids
<1>2. runs[i] \in Int /\ runs'[i] \in Int
  BY DEF TypeOK
<1>3. t.attempts \in Int /\ t.max \in Int
  BY DEF Task
<1>4. issued <= issued' /\ boots <= boots' /\ runs[i] <= runs'[i]
  BY HistoryGrows
<1> QED  BY <1>1, <1>2, <1>3, <1>4 DEF SoundRecord

(* Every copy that was there before a step is still sound after it.        *)
LEMMA CopiesStaySound ==
  ASSUME TypeOK, [Next]_vars, TypeOK', CopiesSound, SoundQueue(tasks)'
  PROVE  CopiesSound'
<1>1. \A q \in Copies : q \in Queue
  BY DEF Copies, Held, TypeOK, FileTypeOK, DiskType, FlushType
<1>2. ASSUME NEW q \in Copies  PROVE SoundQueue(q)'
  <2>1. \A i \in Ids : q[i] \in Task /\ SoundRecord(q[i], i)
    BY <1>1 DEF CopiesSound, SoundQueue, Queue
  <2>2. \A i \in Ids : SoundRecord(q[i], i)'
    BY <2>1, SoundStays
  <2> QED  BY <2>2 DEF SoundQueue
<1>3. Held' \subseteq Copies
  BY HeldStep
<1> QED  BY <1>2, <1>3 DEF CopiesSound, Copies

-----------------------------------------------------------------------------
(* What a step does to the records in memory *)

Inv == TypeOK /\ DownIsEmpty /\ WorkerHasTask /\ CopiesSound /\ OneRunAtATime

(* Either the step is one of those that change the queue in memory, or the *)
(* queue is as it was.                                                     *)
Changes ==
  \/ \E p \in Posters : PostEnqueues(p)
  \/ SchedFires
  \/ \E i \in Ids : WorkerClaims(i)
  \/ RunAnswers \/ RunFails \/ FlushTakenForFailure
  \/ \E i \in Ids : BackoffElapses(i)
  \/ \E how \in {"drained", "timeout", "died"} : ProcessEnds(how)
  \/ Restart

(* Every step leaves the queue in memory alone or is one of the changes.   *)
LEMMA StepKinds ==
  ASSUME [Next]_vars
  PROVE  \/ Changes
         \/ /\ tasks' = tasks
            /\ \/ worker' = worker
               \/ worker.pc # "run" /\ worker' = IdleWorker
               \/ worker.pc \in {"flush", "lastFlush"} /\ worker' = [worker EXCEPT !.pc = "say"]
            /\ phase' = phase \/ phase' = "draining"
<1>1. ASSUME NEW p \in Posters, PosterNext(p)
      PROVE  \/ PostEnqueues(p)
             \/ tasks' = tasks /\ worker' = worker /\ phase' = phase
  BY <1>1 DEF PosterNext, PostArrives, PostRefused, PostAnswered
<1>2. CASE WorkerNext
  BY <1>2 DEF WorkerNext, Changes, WorkerFlushed, UnhandledRejection, Said
<1>3. CASE SchedNext
  BY <1>3 DEF SchedNext, Changes, SchedTicks, SchedFlushed, SchedFlushRejects, SchedSaves
<1>4. CASE \E f \in Flushers : FlushGoesOn(f)
  BY <1>4 DEF FlushGoesOn, procVars
<1>5. CASE TimePasses \/ DrainBegins \/ UNCHANGED vars
  BY <1>5 DEF TimePasses, DrainBegins, procVars, vars
<1>6. CASE Crash \/ DrainEnds
  BY <1>6 DEF Crash, DrainEnds, Changes
<1> QED  BY <1>1, <1>2, <1>3, <1>4, <1>5, <1>6 DEF Next, Changes

(* What the invariant says of the records in memory.                       *)
LEMMA MemoryRecords ==
  ASSUME Inv
  PROVE  \A i \in Ids : /\ i \in Int /\ SoundRecord(tasks[i], i)
                        /\ tasks[i].attempts \in Int /\ tasks[i].max \in Int
                        /\ runs[i] \in Nat
<1>1. \A i \in Ids : SoundRecord(tasks[i], i)
  BY DEF Inv, CopiesSound, SoundQueue, Copies
<1>2. \A i \in Ids : tasks[i] \in Task /\ runs[i] \in Nat
  BY DEF Inv, TypeOK, Queue
<1>3. \A i \in Ids : i \in Int
  BY MaxTasksAssumption DEF Ids
<1> QED  BY <1>1, <1>2, <1>3 DEF Task

(* New tasks: what enqueue() adds is sound, and it adds nothing that was   *)
(* there.                                                                  *)
LEMMA EnqueuedRecords ==
  ASSUME Inv, NEW n \in Nat, NEW m \in Nat, m > 0,
         tasks' = Enqueued(tasks, issued + 1 .. issued + n, m),
         issued' = issued + n, boots' = boots, runs' = runs, worker' = worker
  PROVE  SoundQueue(tasks)' /\ WorkerHasTask' /\ OneRunAtATime'
<1>1. \A i \in Ids : /\ i \in Int /\ SoundRecord(tasks[i], i)
                     /\ tasks[i].attempts \in Int /\ tasks[i].max \in Int
                     /\ runs[i] \in Nat
  BY MemoryRecords
<1>2. issued \in Int /\ boots \in Int /\ boots >= 1
  BY MaxTasksAssumption, SchedulesAssumption DEF Inv, TypeOK
<1>3. ASSUME NEW i \in Ids, i \in issued + 1 .. issued + n
      PROVE  tasks'[i] = NewTask(m) /\ tasks[i].status = "absent" /\ SoundRecord(tasks[i], i)'
  <2>1. tasks'[i] = NewTask(m)
    BY <1>3 DEF Enqueued
  <2>2. i > issued /\ i <= issued'
    BY <1>1, <1>2, <1>3
  <2> QED  BY <1>1, <1>2, <2>1, <2>2 DEF SoundRecord, NewTask
<1>4. ASSUME NEW i \in Ids, i \notin issued + 1 .. issued + n
      PROVE  tasks'[i] = tasks[i] /\ SoundRecord(tasks[i], i)'
  <2>1. tasks'[i] = tasks[i]
    BY <1>4 DEF Enqueued
  <2>2. i > issued' => i > issued
    BY <1>1, <1>2
  <2> QED  BY <1>1, <2>1, <2>2 DEF SoundRecord
<1>5. SoundQueue(tasks)'
  BY <1>3, <1>4 DEF SoundQueue
<1>6. \A i \in Ids :
        \/ tasks'[i].status = tasks[i].status
        \/ tasks[i].status = "absent" /\ tasks'[i].status = "queued"
  BY <1>3, <1>4 DEF NewTask
<1>7. WorkerHasTask'
  <2>1. worker.pc # "idle" => worker.task \in Ids /\ tasks[worker.task].status # "absent"
    BY DEF Inv, TypeOK, WorkerHasTask
  <2> QED  BY <1>6, <2>1 DEF WorkerHasTask
<1>8. OneRunAtATime'
  <2>1. \A i \in Ids : tasks'[i].status = "running" <=> tasks[i].status = "running"
    BY <1>6
  <2> QED  BY <2>1 DEF Inv, OneRunAtATime
<1> QED  BY <1>5, <1>7, <1>8

(* One record changes, and stays sound: the common case of claim(),        *)
(* complete(), fail() and the end of a backoff.                            *)
LEMMA ChangedRecord ==
  ASSUME Inv, TypeOK', NEW i \in Ids,
         \A j \in Ids \ {i} : tasks'[j] = tasks[j] /\ runs'[j] = runs[j],
         tasks[i].status # "absent" => tasks'[i].status # "absent",
         issued' = issued, boots' = boots, SoundRecord(tasks[i], i)'
  PROVE  SoundQueue(tasks)'
<1>1. ASSUME NEW j \in Ids \ {i}  PROVE SoundRecord(tasks[j], j)'
  <2>1. SoundRecord(tasks[j], j)
    BY MemoryRecords
  <2> QED  BY <2>1 DEF SoundRecord
<1> QED  BY <1>1 DEF SoundQueue

(* claim() counts an attempt together with the run it starts.              *)
LEMMA ClaimedRecords ==
  ASSUME Inv, TypeOK', NEW i \in Ids, WorkerClaims(i)
  PROVE  SoundQueue(tasks)' /\ WorkerHasTask' /\ OneRunAtATime'
<1>1. /\ tasks' = Claimed(tasks, i) /\ worker.pc = "idle"
      /\ worker' = [pc |-> "run", task |-> i] /\ runs' = [runs EXCEPT ![i] = @ + 1]
      /\ issued' = issued /\ boots' = boots /\ tasks[i].status = "queued"
  BY DEF WorkerClaims, NextDue, Due
<1>2. /\ \A j \in Ids \ {i} : tasks'[j] = tasks[j]
      /\ tasks'[i].status = "running" /\ tasks'[i].attempts = tasks[i].attempts + 1
      /\ tasks'[i].max = tasks[i].max
  BY <1>1, ClaimedType DEF Inv, TypeOK
<1>3. /\ SoundRecord(tasks[i], i) /\ i \in Int /\ boots \in Int
      /\ tasks[i].attempts \in Int /\ tasks[i].max \in Int /\ runs[i] \in Int
      /\ issued \in Int
  BY MemoryRecords DEF Inv, TypeOK
<1>4. runs'[i] = runs[i] + 1 /\ \A j \in Ids \ {i} : runs'[j] = runs[j]
  BY <1>1 DEF Inv, TypeOK
<1>5. SoundRecord(tasks[i], i)'
  BY <1>1, <1>2, <1>3, <1>4 DEF SoundRecord
<1>6. SoundQueue(tasks)'
  BY <1>1, <1>2, <1>4, <1>5, ChangedRecord
<1>7. WorkerHasTask'
  BY <1>1, <1>2 DEF WorkerHasTask
<1>8. OneRunAtATime'
  <2>1. \A j \in Ids : tasks[j].status # "running"
    BY <1>1 DEF Inv, OneRunAtATime
  <2>2. \A j \in Ids : worker' = [pc |-> "run", task |-> j] <=> j = i
    BY <1>1
  <2> QED  BY <1>2, <2>1, <2>2 DEF OneRunAtATime
<1> QED  BY <1>6, <1>7, <1>8

(* A tick that has had its run's outcome: complete() and fail().           *)
LEMMA SettledRecords ==
  ASSUME Inv, TypeOK', NEW i \in Ids, worker.pc # "idle", i = worker.task,
         tasks' = Completed(tasks, i) \/ tasks' = FailedAttempt(tasks, i),
         worker'.pc \in {"flush", "lastFlush"}, worker'.task = i,
         issued' = issued, boots' = boots, runs' = runs
  PROVE  SoundQueue(tasks)' /\ WorkerHasTask' /\ OneRunAtATime'
<1>1. /\ SoundRecord(tasks[i], i) /\ i \in Int /\ boots \in Int /\ boots >= 1
      /\ tasks[i].attempts \in Int /\ tasks[i].max \in Int /\ runs[i] \in Int
      /\ issued \in Int /\ tasks[i].status # "absent"
  BY MemoryRecords DEF Inv, TypeOK, WorkerHasTask
<1>2. /\ \A j \in Ids \ {i} : tasks'[j] = tasks[j]
      /\ tasks'[i].attempts = tasks[i].attempts /\ tasks'[i].max = tasks[i].max
      /\ \/ tasks'[i].status = "done"
         \/ tasks'[i].status = "failed" /\ tasks[i].attempts >= tasks[i].max
         \/ tasks'[i].status = "queued" /\ ~(tasks[i].attempts >= tasks[i].max)
  <2>1. tasks \in Queue
    BY DEF Inv, TypeOK
  <2>2. CASE tasks' = Completed(tasks, i)
    <3>1. \A j \in Ids : tasks'[j] = IF j = i THEN [tasks[i] EXCEPT !.status = "done"]
                                   ELSE tasks[j]
      BY <2>1, <2>2, CompletedType
    <3>2. tasks[i] \in Task
      BY <2>1 DEF Queue
    <3> QED  BY <3>1, <3>2 DEF Task
  <2>3. CASE tasks' = FailedAttempt(tasks, i)
    BY <2>1, <2>3, FailedAttemptType
  <2> QED  BY <2>2, <2>3
<1>3. SoundRecord(tasks[i], i)'
  BY <1>1, <1>2 DEF SoundRecord
<1>4. SoundQueue(tasks)'
  BY <1>2, <1>3, ChangedRecord
<1>5. WorkerHasTask'
  BY <1>2 DEF WorkerHasTask
<1>6. OneRunAtATime'
  <2>1. \A j \in Ids \ {i} : tasks[j].status # "running"
    BY DEF Inv, OneRunAtATime
  <2>2. \A j \in Ids : worker' # [pc |-> "run", task |-> j]
    OBVIOUS
  <2> QED  BY <1>2, <2>1, <2>2 DEF OneRunAtATime
<1> QED  BY <1>4, <1>5, <1>6

(* A backoff that ends changes nothing the invariant looks at.             *)
LEMMA CooledRecords ==
  ASSUME Inv, TypeOK', NEW i \in Ids, BackoffElapses(i)
  PROVE  SoundQueue(tasks)' /\ WorkerHasTask' /\ OneRunAtATime'
<1>1. /\ tasks' = Cooled(tasks, i) /\ worker' = worker
      /\ issued' = issued /\ boots' = boots /\ runs' = runs
  BY DEF BackoffElapses, histVars
<1>2. \A j \in Ids : /\ tasks'[j].status = tasks[j].status
                     /\ tasks'[j].attempts = tasks[j].attempts
                     /\ tasks'[j].max = tasks[j].max
  BY <1>1, CooledType DEF Inv, TypeOK
<1>3. SoundQueue(tasks)'
  BY <1>1, <1>2, MemoryRecords DEF SoundQueue, SoundRecord
<1>4. WorkerHasTask'
  BY <1>1, <1>2 DEF Inv, TypeOK, WorkerHasTask
<1>5. OneRunAtATime'
  BY <1>1, <1>2 DEF Inv, OneRunAtATime
<1> QED  BY <1>3, <1>4, <1>5

(* The empty queue of a process that has ended.                            *)
LEMMA EndedRecords ==
  ASSUME TypeOK', tasks' = EmptyQueue, worker' = IdleWorker
  PROVE  SoundQueue(tasks)' /\ WorkerHasTask' /\ OneRunAtATime'
<1>1. \A i \in Ids : tasks'[i].status = "absent" /\ tasks'[i].attempts = 0
  BY DEF EmptyQueue, NoTask
<1>2. \A i \in Ids : 0 <= runs'[i]
  BY DEF TypeOK
<1>3. SoundQueue(tasks)'
  BY <1>1, <1>2 DEF SoundQueue, SoundRecord
<1>4. WorkerHasTask' /\ OneRunAtATime'
  BY <1>1 DEF WorkerHasTask, OneRunAtATime, IdleWorker
<1> QED  BY <1>3, <1>4

(* A restart takes the file's queue, whichever copy that is, and puts the  *)
(* tasks that were running back: an attempt more than the limit is         *)
(* possible once per restart.                                              *)
LEMMA RestartRecords ==
  ASSUME Inv, TypeOK', Restart
  PROVE  SoundQueue(tasks)' /\ WorkerHasTask' /\ OneRunAtATime'
<1> DEFINE old == Loaded(disk.file, EmptyQueue)
<1>1. /\ tasks' = Reopened(old) /\ worker' = worker /\ boots' = boots + 1
      /\ issued' = issued /\ runs' = runs /\ phase = "down"
  BY DEF Restart
<1>2. old \in Queue /\ SoundQueue(old)
  <2>1. old \in disk.file \union {EmptyQueue}
    BY LoadedIsHeld
  <2>2. CASE old \in disk.file
    BY <2>2 DEF Inv, CopiesSound, Copies, Held, TypeOK, FileTypeOK, DiskType
  <2>3. CASE old = EmptyQueue
    <3>1. \A i \in Ids : EmptyQueue[i].status = "absent" /\ EmptyQueue[i].attempts = 0
      BY DEF EmptyQueue, NoTask
    <3>2. \A i \in Ids : 0 <= runs[i]
      BY DEF Inv, TypeOK
    <3>3. \A i \in Ids : SoundRecord(EmptyQueue[i], i)
      <4>1. ASSUME NEW i \in Ids
            PROVE  SoundRecord(EmptyQueue[i], i)
        <5>1. 0 <= runs[i] /\ EmptyQueue[i].status = "absent" /\ EmptyQueue[i].attempts = 0
          BY <3>1, <3>2
        <5> QED  BY <5>1 DEF SoundRecord
      <4> QED  BY <4>1
    <3> QED  BY <2>3, <3>3, EmptyQueueType DEF SoundQueue
  <2> QED  BY <2>1, <2>2, <2>3
<1> HIDE DEF old
<1>3. \A i \in Ids : /\ tasks'[i].attempts = old[i].attempts
                     /\ tasks'[i].max = old[i].max
                     /\ tasks'[i].status =
                          IF old[i].status = "running" THEN "queued" ELSE old[i].status
                     /\ SoundRecord(old[i], i) /\ old[i] \in Task
  BY <1>1, <1>2, ReopenedType DEF SoundQueue, Queue
<1>4. boots \in Int
  BY DEF Inv, TypeOK
<1>5. ASSUME NEW i \in Ids  PROVE SoundRecord(tasks[i], i)'
  <2>1. old[i].attempts \in Int /\ old[i].max \in Int
    BY <1>3 DEF Task
  <2> QED  BY <1>1, <1>3, <1>4, <2>1 DEF SoundRecord
<1>6. worker = IdleWorker
  BY <1>1 DEF Inv, DownIsEmpty
<1>7. WorkerHasTask'
  BY <1>1, <1>6 DEF WorkerHasTask, IdleWorker
<1>8. OneRunAtATime'
  BY <1>1, <1>3, <1>6 DEF OneRunAtATime, IdleWorker
<1> QED  BY <1>5, <1>7, <1>8 DEF SoundQueue

(* A step that leaves the queue in memory as it was.                       *)
LEMMA SameRecords ==
  ASSUME Inv, TypeOK', [Next]_vars, tasks' = tasks,
         \/ worker' = worker
         \/ worker.pc # "run" /\ worker' = IdleWorker
         \/ worker.pc \in {"flush", "lastFlush"} /\ worker' = [worker EXCEPT !.pc = "say"]
  PROVE  SoundQueue(tasks)' /\ WorkerHasTask' /\ OneRunAtATime'
<1>1. \A i \in Ids : tasks[i] \in Task /\ SoundRecord(tasks[i], i)
  BY MemoryRecords DEF Inv, TypeOK, Queue
<1>2. TypeOK
  BY DEF Inv
<1>3. \A i \in Ids : SoundRecord(tasks[i], i)'
  <2>1. \A t \in Task : \A i \in Ids : SoundRecord(t, i) => SoundRecord(t, i)'
    BY <1>2, SoundStays
  <2> QED  BY <1>1, <2>1 DEF SoundRecord
<1>4. WorkerHasTask'
  BY DEF Inv, TypeOK, WorkerHasTask, IdleWorker
<1>5. OneRunAtATime'
  BY DEF Inv, TypeOK, OneRunAtATime, IdleWorker
<1> QED  BY <1>3, <1>4, <1>5 DEF SoundQueue

-----------------------------------------------------------------------------
(* The invariant *)

(* The invariant holds at first.                                           *)
LEMMA InitInv == Init => Inv
<1> SUFFICES ASSUME Init PROVE Inv
  OBVIOUS
<1>1. TypeOK
  BY InitTypes
<1>2. Copies = {EmptyQueue}
  BY DEF Init, FileInit, Copies, Held, NoFlush
<1>3. SoundQueue(EmptyQueue)
  <2>1. \A i \in Ids : /\ EmptyQueue[i].status = "absent"
                       /\ EmptyQueue[i].attempts = 0 /\ runs[i] = 0
    BY DEF Init, EmptyQueue, NoTask
  <2> QED  BY <2>1 DEF SoundQueue, SoundRecord
<1>4. DownIsEmpty /\ WorkerHasTask
  BY DEF Init, DownIsEmpty, WorkerHasTask, IdleWorker
<1>5. OneRunAtATime
  BY DEF Init, OneRunAtATime, IdleWorker, EmptyQueue, NoTask
<1> QED  BY <1>1, <1>2, <1>3, <1>4, <1>5 DEF Inv, CopiesSound

(* What every step does to the records in memory.                          *)
LEMMA NextRecords ==
  ASSUME Inv, TypeOK', [Next]_vars
  PROVE  SoundQueue(tasks)' /\ WorkerHasTask' /\ OneRunAtATime'
<1>1. ASSUME NEW p \in Posters, PostEnqueues(p)
      PROVE  SoundQueue(tasks)' /\ WorkerHasTask' /\ OneRunAtATime'
  <2>1. PICK m \in AttemptLimits : tasks' = Enqueued(tasks, {issued + 1}, m)
    BY <1>1 DEF PostEnqueues
  <2>2. {issued + 1} = issued + 1 .. issued + 1
    BY MaxTasksAssumption DEF Inv, TypeOK
  <2>3. /\ issued' = issued + 1 /\ boots' = boots /\ runs' = runs /\ worker' = worker
    BY <1>1 DEF PostEnqueues
  <2> QED  BY <2>1, <2>2, <2>3, EnqueuedRecords, Limits
<1>2. CASE SchedFires
  <2>1. PICK due \in SUBSET Schedules :
          /\ tasks' = Enqueued(tasks, issued + 1 .. issued + Cardinality(due), DefaultLimit)
          /\ issued' = issued + Cardinality(due)
    BY <1>2, FiringIssues
  <2>2. Cardinality(due) \in Nat
    BY SchedulesAssumption, FS_Subset, FS_CardinalityType
  <2>3. boots' = boots /\ runs' = runs /\ worker' = worker
    BY <1>2 DEF SchedFires
  <2>4. DefaultLimit \in Nat /\ DefaultLimit > 0
    BY SchedulesAssumption
  <2> QED  BY <2>1, <2>2, <2>3, <2>4, EnqueuedRecords
<1>3. ASSUME NEW i \in Ids, WorkerClaims(i)
      PROVE  SoundQueue(tasks)' /\ WorkerHasTask' /\ OneRunAtATime'
  BY <1>3, ClaimedRecords
<1>4. CASE RunAnswers \/ RunFails \/ FlushTakenForFailure
  <2>1. /\ worker.pc # "idle"
        /\ \/ tasks' = Completed(tasks, worker.task)
           \/ tasks' = FailedAttempt(tasks, worker.task)
        /\ issued' = issued /\ boots' = boots /\ runs' = runs
    BY <1>4 DEF RunAnswers, RunFails, FlushTakenForFailure, histVars
  <2>2. worker'.pc \in {"flush", "lastFlush"} /\ worker'.task = worker.task
    BY <1>4 DEF RunAnswers, RunFails, FlushTakenForFailure, Inv, TypeOK
  <2>3. worker.task \in Ids
    BY <2>1 DEF Inv, TypeOK
  <2> QED  BY <2>1, <2>2, <2>3, SettledRecords
<1>5. ASSUME NEW i \in Ids, BackoffElapses(i)
      PROVE  SoundQueue(tasks)' /\ WorkerHasTask' /\ OneRunAtATime'
  BY <1>5, CooledRecords
<1>6. ASSUME NEW how, ProcessEnds(how)
      PROVE  SoundQueue(tasks)' /\ WorkerHasTask' /\ OneRunAtATime'
  BY <1>6, EndedRecords DEF ProcessEnds
<1>7. CASE Restart
  BY <1>7, RestartRecords
<1> QED
  BY <1>1, <1>2, <1>3, <1>4, <1>5, <1>6, <1>7, StepKinds, SameRecords DEF Changes

(* A step that is taken while the process is down leaves it empty.         *)
LEMMA NextDown ==
  ASSUME Inv, [Next]_vars
  PROVE  DownIsEmpty'
<1>1. ASSUME NEW how, ProcessEnds(how)  PROVE DownIsEmpty'
  BY <1>1 DEF ProcessEnds, DownIsEmpty
<1>2. CASE phase # "down"
  <2>1. ASSUME NEW p \in Posters, PosterNext(p)  PROVE phase' = phase
    BY <2>1 DEF PosterNext, PostArrives, PostEnqueues, PostRefused, PostAnswered
  <2>2. ASSUME WorkerNext  PROVE phase' = phase \/ \E how : ProcessEnds(how)
    BY <2>2 DEF WorkerNext, WorkerClaims, RunAnswers, RunFails, WorkerFlushed,
                FlushTakenForFailure, UnhandledRejection, Said
  <2>3. ASSUME SchedNext  PROVE phase' = phase
    BY <2>3 DEF SchedNext, SchedTicks, SchedFires, SchedFlushed, SchedFlushRejects, SchedSaves
  <2>4. ASSUME \/ \E f \in Flushers : FlushGoesOn(f)
               \/ \E i \in Ids : BackoffElapses(i)
               \/ TimePasses \/ DrainBegins \/ Restart \/ UNCHANGED vars
        PROVE  phase' # "down"
    BY <1>2, <2>4
       DEF FlushGoesOn, BackoffElapses, TimePasses, DrainBegins, Restart, procVars, vars
  <2>5. ASSUME Crash \/ DrainEnds  PROVE \E how : ProcessEnds(how)
    BY <2>5 DEF Crash, DrainEnds
  <2> QED  BY <1>1, <1>2, <2>1, <2>2, <2>3, <2>4, <2>5 DEF Next, DownIsEmpty
<1>3. CASE phase = "down"
  <2>1. /\ tasks = EmptyQueue /\ worker.pc = "idle" /\ sched.pc = "idle"
        /\ \A p \in Posters : poster[p].pc = "idle"
    BY <1>3 DEF Inv, DownIsEmpty, IdleWorker, IdlePoster, IdleSched
  <2>2. \A i \in Ids : ~tasks[i].cooling
    BY <2>1 DEF EmptyQueue, NoTask
  <2>3. \A p \in Posters : ~PosterNext(p)
    BY <1>3, <2>1 DEF PosterNext, PostArrives, PostEnqueues, PostRefused, PostAnswered
  <2>4. ~WorkerNext
    BY <1>3, <2>1 DEF WorkerNext, WorkerClaims, RunAnswers, RunFails, WorkerFlushed,
                     FlushTakenForFailure, UnhandledRejection, Said
  <2>5. ~SchedNext
    BY <1>3, <2>1 DEF SchedNext, SchedTicks, SchedFires, SchedFlushed, SchedFlushRejects,
                     SchedSaves
  <2>6. ASSUME \/ \E f \in Flushers : FlushGoesOn(f)
               \/ TimePasses \/ UNCHANGED vars
        PROVE  UNCHANGED procVars
    BY <2>6 DEF FlushGoesOn, TimePasses, vars
  <2>7. ASSUME Restart  PROVE phase' = "up"
    BY <2>7 DEF Restart
  <2>8. ~(Crash \/ DrainBegins \/ DrainEnds \/ \E i \in Ids : BackoffElapses(i))
    BY <1>3 DEF Crash, DrainBegins, DrainEnds, BackoffElapses
  <2>9. CASE UNCHANGED procVars
    BY <1>3, <2>9 DEF procVars, Inv, DownIsEmpty
  <2> QED  BY <2>3, <2>4, <2>5, <2>6, <2>7, <2>8, <2>9 DEF Next, DownIsEmpty
<1> QED  BY <1>2, <1>3

(* The invariant is inductive.                                             *)
LEMMA NextInv ==
  ASSUME Inv, [Next]_vars
  PROVE  Inv'
<1>1. TypeOK'
  BY NextTypes DEF Inv
<1>2. SoundQueue(tasks)' /\ WorkerHasTask' /\ OneRunAtATime'
  BY <1>1, NextRecords
<1>3. CopiesSound'
  BY <1>1, <1>2, CopiesStaySound DEF Inv
<1>4. DownIsEmpty'
  BY NextDown
<1> QED  BY <1>1, <1>2, <1>3, <1>4 DEF Inv

(* The invariant holds.                                                    *)
THEOREM Invariance == Spec => []Inv
<1>1. Inv /\ [Next]_vars => Inv'
  BY NextInv
<1> QED  BY <1>1, InitInv, PTL DEF Spec

(* One run at a time: a task is running exactly while the worker waits for *)
(* its run (the busy guard of start(), and open() after a crash).          *)
THEOREM WorkerRunsOne == Spec => []OneRunAtATime
<1>1. Inv => OneRunAtATime
  BY DEF Inv
<1> QED  BY <1>1, Invariance, PTL

(* No copy of the queue ever shows more attempts than maxAttempts and one  *)
(* for each restart (claim(), fail() and open() of queue.ts).              *)
THEOREM AttemptsAreBounded == Spec => []AttemptsBounded
<1>1. Inv => AttemptsBounded
  BY DEF Inv, CopiesSound, SoundQueue, SoundRecord, AttemptsBounded
<1> QED  BY <1>1, Invariance, PTL

(* A task is given up only after maxAttempts real runs, whichever copy of  *)
(* the queue a restart has taken.                                          *)
THEOREM GivenUpFairly == Spec => []GivenUpAfterMaxRuns
<1>1. Inv => GivenUpAfterMaxRuns
  <2> SUFFICES ASSUME Inv, NEW q \in Copies, NEW i \in Ids, q[i].status = "failed"
               PROVE  runs[i] >= q[i].max
    BY DEF GivenUpAfterMaxRuns
  <2>1. q \in Queue
    BY DEF Inv, Copies, Held, TypeOK, FileTypeOK, DiskType, FlushType
  <2>2. q[i].max \in Int /\ q[i].attempts \in Int /\ runs[i] \in Int
    BY <2>1 DEF Queue, Task, Inv, TypeOK
  <2>3. q[i].max <= q[i].attempts /\ q[i].attempts <= runs[i]
    BY DEF Inv, CopiesSound, SoundQueue, SoundRecord
  <2> QED  BY <2>2, <2>3
<1> QED  BY <1>1, Invariance, PTL

(* Neither late nor early: what the run of this module checks.             *)
THEOREM AttemptsAreFair == Spec => []AttemptsFair
<1>1. AttemptsBounded /\ GivenUpAfterMaxRuns => AttemptsFair
  BY DEF AttemptsFair
<1> QED  BY <1>1, AttemptsAreBounded, GivenUpFairly, PTL

-----------------------------------------------------------------------------
(* The flow from memory to the file.                                       *)
(*                                                                         *)
(* What the daemon promises of the file holds while no two flushes have    *)
(* overlapped.  Then one flush at most carries a text, and everything a    *)
(* caller relies on moves along with it: it is in memory when flush() is   *)
(* called, so it is in the text that is taken later, so it is in the file  *)
(* when that text is renamed over it.                                      *)

(* What a restart would load, and what a flush past its snapshot writes.   *)
Stored == Loaded(disk.file, EmptyQueue)

Writes(f, q) == flush[f].pc \in Writing /\ flush[f].snap = {q}

(* One flush at most is past its snapshot; it has one, and until it renames*)
(* nobody else's text is in the temporary file.                            *)
SoloFlush ==
  /\ \A f, g \in Flushers : flush[f].pc \in Writing /\ flush[g].pc \in Writing => f = g
  /\ \A f \in Flushers : flush[f].pc \in Writing => \E q \in Queue : Writes(f, q)
  /\ \A f \in Flushers : flush[f].pc = "write" =>
       flush[f].fd = "tmp" /\ disk.linked /\ disk.tmp = {}
  /\ \A f \in Flushers : flush[f].pc = "rename" => disk.linked /\ disk.tmp = flush[f].snap

(* Nothing that is stored is missing from what is written over it, nor     *)
(* from the queue in memory.                                               *)
NothingDropped ==
  /\ phase # "down" => Present(Stored) \subseteq Present(tasks)
  /\ \A f \in Flushers, q \in Queue : Writes(f, q) =>
       Present(Stored) \subseteq Present(q) /\ Present(q) \subseteq Present(tasks)

(* What a handler of POST /tasks waits for is in the text it writes.       *)
AcksFollow ==
  /\ faults = 0 => acked \subseteq Present(Stored)
  /\ \A p \in Posters, q \in Queue :
       poster[p].pc = "flush" /\ Writes(p, q) => poster[p].task \in Present(q)

(* A firing that the schedules remember has its task in q.                 *)
FiredInto(F, q, s, t) ==
  t # Never => \E x \in F : x[1] = s /\ x[2] = t /\ x[4] \in Present(q)

StateFollows ==
  \A s \in Schedules :
    /\ FiredInto(fired, Stored, s, stateFile[s])
    /\ phase # "down" => FiredInto(fired, tasks, s, sched.last[s])
    /\ sched.pc = "state" => FiredInto(fired, Stored, s, sched.last[s])
    /\ sched.pc = "flush" => \A q \in Queue : Writes(Scheduler, q) =>
         FiredInto(fired, q, s, sched.last[s])

(* Of the tasks this incarnation has run, at most the one of the tick under*)
(* way is running in a text; the worker itself does not write it so.       *)
OnTask(i) == worker.pc \in {"run", "flush", "lastFlush"} /\ worker.task = i

RunsFollow ==
  /\ phase # "down" => \A i \in ran : Stored[i].status = "running" => OnTask(i)
  /\ \A f \in Flushers, q \in Queue : Writes(f, q) =>
       \A i \in ran : q[i].status = "running" => OnTask(i) /\ f # Worker
  /\ exit = "drained" => \A i \in ran : Stored[i].status # "running"

(* Who is writing, and what is always so.                                  *)
Callings ==
  /\ phase = "down" => \A f \in Flushers : flush[f].pc = "idle"
  /\ flush[Worker].pc # "idle" => worker.pc \in {"flush", "lastFlush"}
  /\ exit = "drained" => phase = "down"
  /\ \A p \in Posters : poster[p].pc = "flush" => poster[p].task \in Present(tasks)

(* The firings of this incarnation lie behind what it remembers.           *)
FiringsBehind ==
  /\ \A x \in fired : x[3] <= boots /\ x[2] <= now
  /\ phase # "down" => \A x \in fired : x[3] = boots =>
       sched.loaded /\ sched.last[x[1]] # Never /\ x[2] <= sched.last[x[1]]
  /\ OneFiringPerPeriod

FileInv == SoloFlush /\ NothingDropped /\ AcksFollow /\ StateFollows /\ RunsFollow

FlowInv == Callings /\ FiringsBehind /\ (~overlap => FileInv)

-----------------------------------------------------------------------------
(* Flushes *)

(* A step that stores nothing and takes no snapshot.                       *)
Calm ==
  /\ disk' = disk /\ overlap' = overlap
  /\ \A f \in Flushers : flush'[f].pc \in Writing => flush'[f] = flush[f]

(* Every step is one of those, an internal step of a flush, or its return. *)
LEMMA FileSteps ==
  ASSUME TypeOK, [Next]_vars
  PROVE  \/ Calm
         \/ \E f \in Flushers : FlushGoesOn(f)
         \/ \E f \in Flushers : FlushReturns(f)
<1>0. flush \in [Flushers -> FlushType(Queue)]
  BY DEF TypeOK, FileTypeOK
<1>1. ASSUME UNCHANGED <<disk, flush, overlap>>  PROVE Calm
  BY <1>1 DEF Calm
<1>2. ASSUME NEW f \in Flushers, CallFlush(f)  PROVE Calm
  BY <1>0, <1>2 DEF Calm, CallFlush, NewFlush, Writing
<1>3. ASSUME NEW f \in Flushers, FlushRejects(f, NoFlush) \/ FlushRejects(f, NewFlush)  PROVE Calm
  BY <1>0, <1>3 DEF Calm, FlushRejects, FlushFails, NoFlush, NewFlush, Writing
<1>4. ASSUME FlushesDie, disk' = disk, overlap' = overlap  PROVE Calm
  BY <1>4 DEF Calm, FlushesDie, NoFlush, Writing
<1>5. ASSUME NEW p \in Posters, PosterNext(p)
      PROVE  Calm \/ \E f \in Flushers : FlushReturns(f)
  <2>1. \/ UNCHANGED fileVars \/ CallFlush(p)
        \/ FlushReturns(p) \/ FlushRejects(p, NoFlush)
    BY <1>5 DEF PosterNext, PostArrives, PostEnqueues, PostRefused, PostAnswered
  <2> QED  BY <1>1, <1>2, <1>3, <2>1, Callers DEF fileVars
<1>6. CASE WorkerNext
  <2>1. \/ UNCHANGED fileVars \/ CallFlush(Worker)
        \/ FlushReturns(Worker) \/ FlushRejects(Worker, NewFlush)
        \/ FlushesDie /\ disk' = disk /\ overlap' = overlap
    BY <1>6 DEF WorkerNext, WorkerClaims, RunAnswers, RunFails, WorkerFlushed,
                FlushTakenForFailure, UnhandledRejection, ProcessEnds, FlushFails, Said
  <2> QED  BY <1>1, <1>2, <1>3, <1>4, <2>1, Callers DEF fileVars
<1>7. CASE SchedNext
  <2>1. \/ UNCHANGED <<disk, flush, overlap>> \/ CallFlush(Scheduler)
        \/ FlushReturns(Scheduler) \/ FlushRejects(Scheduler, NoFlush)
    <3>1. CASE SchedFires
      <4>1. UNCHANGED fileVars \/ CallFlush(Scheduler)
        BY <3>1, Zenon DEF SchedFires
      <4> QED  BY <4>1 DEF fileVars
    <3> QED
      BY <1>7, <3>1 DEF SchedNext, SchedTicks, SchedFlushed, SchedFlushRejects, SchedSaves, fileVars
  <2> QED  BY <1>1, <1>2, <1>3, <2>1, Callers
<1>8. CASE Crash \/ DrainEnds
  BY <1>4, <1>8 DEF Crash, DrainEnds, ProcessEnds
<1>9. CASE \/ \E i \in Ids : BackoffElapses(i)
           \/ TimePasses \/ DrainBegins \/ Restart \/ UNCHANGED vars
  BY <1>1, <1>9 DEF BackoffElapses, TimePasses, DrainBegins, Restart, vars, fileVars
<1> QED  BY <1>5, <1>6, <1>7, <1>8, <1>9 DEF Next

(* The rename stores the text of the one flush that writes.                *)
LEMMA ReturnStores ==
  ASSUME TypeOK, SoloFlush, NEW f \in Flushers, FlushReturns(f)
  PROVE  /\ \E q \in Queue : Writes(f, q) /\ Stored' = q
         /\ \A g \in Flushers : flush'[g].pc \notin Writing
         /\ overlap' = overlap
<1>1. flush \in [Flushers -> FlushType(Queue)] /\ flush[f].pc \in Writing
  BY DEF TypeOK, FileTypeOK, FlushReturns, Writing
<1>2. PICK q \in Queue : Writes(f, q)
  BY <1>1 DEF SoloFlush
<1>3. disk'.file = {q}
  BY <1>2 DEF FlushReturns, SoloFlush, Writes
<1>4. Stored' = q
  BY <1>3, LoadedWhole DEF Stored
<1>5. \A g \in Flushers : flush'[g].pc = IF g = f THEN "idle" ELSE flush[g].pc
  BY <1>1 DEF FlushReturns, NoFlush, FlushType
<1>6. \A g \in Flushers : flush'[g].pc \notin Writing
  BY <1>1, <1>5 DEF SoloFlush, Writing
<1> QED  BY <1>2, <1>4, <1>6 DEF FlushReturns

(* An internal step of a flush stores nothing, and makes no text but its   *)
(* snapshot.                                                               *)
LEMMA GoesOnSolo ==
  ASSUME TypeOK, SoloFlush, NEW f \in Flushers, FlushGoesOn(f), ~overlap'
  PROVE  /\ SoloFlush' /\ Stored' = Stored
         /\ \A g \in Flushers, q \in Queue : Writes(g, q)' =>
              Writes(g, q) \/ (g = f /\ q = tasks /\ flush[f].pc = "mkdir")
<1>1. /\ flush \in [Flushers -> FlushType(Queue)] /\ disk \in DiskType(Queue) /\ tasks \in Queue
      /\ flush[f] \in FlushType(Queue)
  BY DEF TypeOK, FileTypeOK
<1>2. CASE FlushSnapshot(f, tasks)
  <2>1. flush' = [flush EXCEPT ![f] = [flush[f] EXCEPT !.pc = "open", !.snap = {tasks}]]
        /\ disk' = disk /\ flush[f].pc = "mkdir"
    BY <1>2 DEF FlushSnapshot
  <2>2. \A g \in Flushers \ {f} : flush[g].pc \notin Writing
    BY <1>2 DEF FlushSnapshot
  <2>3. /\ \A g \in Flushers \ {f} : flush'[g] = flush[g]
        /\ flush'[f].pc = "open" /\ flush'[f].snap = {tasks}
    BY <1>1, <2>1 DEF FlushType
  <2>4. SoloFlush'
    BY <1>1, <2>1, <2>2, <2>3 DEF SoloFlush, Writing, Writes
  <2>5. \A g \in Flushers, q \in Queue : Writes(g, q)' => g = f /\ q = tasks
    BY <2>2, <2>3 DEF Writes
  <2> QED  BY <2>1, <2>4, <2>5 DEF Stored
<1>3. CASE FlushOpen(f)
  <2>1. /\ flush' = [flush EXCEPT ![f] = [flush[f] EXCEPT !.pc = "write", !.fd = "tmp"]]
        /\ disk' = [disk EXCEPT !.tmp = {}, !.linked = TRUE] /\ flush[f].pc = "open"
    BY <1>3 DEF FlushOpen
  <2>2. \A g \in Flushers \ {f} : flush[g].pc \notin Writing
    BY <2>1 DEF SoloFlush, Writing
  <2>3. /\ \A g \in Flushers \ {f} : flush'[g] = flush[g]
        /\ flush'[f].pc = "write" /\ flush'[f].snap = flush[f].snap /\ flush'[f].fd = "tmp"
        /\ disk'.file = disk.file /\ disk'.tmp = {} /\ disk'.linked
    BY <1>1, <2>1 DEF FlushType, DiskType
  <2>4. \A g \in Flushers, q \in Queue : Writes(g, q)' => Writes(g, q)
    BY <2>1, <2>2, <2>3 DEF Writes, Writing
  <2>5. \E q \in Queue : Writes(f, q)'
    <3>1. \E q \in Queue : Writes(f, q)
      BY <2>1 DEF SoloFlush, Writing
    <3> QED  BY <2>3, <3>1 DEF Writes, Writing
  <2>6. SoloFlush'
    BY <2>2, <2>3, <2>5 DEF SoloFlush, Writing
  <2> QED  BY <2>3, <2>4, <2>6 DEF Stored
<1>4. CASE FlushWrite(f)
  <2>1. flush[f].pc = "write"
    BY <1>4, Zenon DEF FlushWrite
  <2>2. flush' = [flush EXCEPT ![f] = [@ EXCEPT !.pc = "rename", !.fd = "closed"]]
    BY <1>4, Zenon DEF FlushWrite
  <2>3. flush[f].fd = "tmp" /\ disk.linked /\ disk.tmp = {}
    BY <2>1 DEF SoloFlush
  <2>4. \E c \in {flush[f].snap, disk.tmp \union flush[f].snap} :
          disk' = [disk EXCEPT !.tmp = c]
    <3>1. flush[f].fd # "gone" /\ flush[f].fd # "file"
      BY <2>3
    <3> QED  BY <1>4, <3>1, Zenon DEF FlushWrite
  <2>5. disk' = [disk EXCEPT !.tmp = flush[f].snap]
    BY <2>3, <2>4
  <2>6. \A g \in Flushers \ {f} : flush[g].pc \notin Writing
    BY <2>1 DEF SoloFlush, Writing
  <2>7. /\ \A g \in Flushers \ {f} : flush'[g] = flush[g]
        /\ flush'[f].pc = "rename" /\ flush'[f].snap = flush[f].snap
        /\ disk'.file = disk.file /\ disk'.tmp = flush[f].snap /\ disk'.linked
    BY <1>1, <2>2, <2>3, <2>5 DEF FlushType, DiskType
  <2>8. \A g \in Flushers, q \in Queue : Writes(g, q)' => Writes(g, q)
    BY <2>1, <2>6, <2>7 DEF Writes, Writing
  <2>9. \E q \in Queue : Writes(f, q)'
    <3>1. \E q \in Queue : Writes(f, q)
      BY <2>1 DEF SoloFlush, Writing
    <3> QED  BY <2>7, <3>1 DEF Writes, Writing
  <2>10. SoloFlush'
    BY <2>6, <2>7, <2>9 DEF SoloFlush, Writing
  <2> QED  BY <2>7, <2>8, <2>10 DEF Stored
<1> QED  BY <1>2, <1>3, <1>4 DEF FlushGoesOn, FlushStep

(* What a step does to what is stored and to the texts under way.          *)
Flows ==
  /\ \/ Stored' = Stored
     \/ \E f \in Flushers, q \in Queue :
          /\ FlushReturns(f) /\ Writes(f, q) /\ Stored' = q
          /\ \A g \in Flushers : flush'[g].pc \notin Writing
  /\ \A g \in Flushers, q \in Queue : Writes(g, q)' =>
       Writes(g, q) \/ (q = tasks /\ flush[g].pc = "mkdir" /\ FlushGoesOn(g))

(* One flush at most stays past its snapshot while none overlap, and every*)
(* step is a flow.                                                         *)
LEMMA SoloStep ==
  ASSUME TypeOK, [Next]_vars, SoloFlush, ~overlap'
  PROVE  SoloFlush' /\ Flows
<1>1. CASE Calm
  <2>1. Stored' = Stored
    BY <1>1 DEF Calm, Stored
  <2>2. \A g \in Flushers, q \in Queue : Writes(g, q)' => Writes(g, q)
    BY <1>1 DEF Calm, Writes
  <2>3. SoloFlush'
    BY <1>1 DEF Calm, SoloFlush, Writes, Writing
  <2> QED  BY <2>1, <2>2, <2>3 DEF Flows
<1>2. ASSUME NEW f \in Flushers, FlushGoesOn(f)  PROVE SoloFlush' /\ Flows
  BY <1>2, GoesOnSolo DEF Flows
<1>3. ASSUME NEW f \in Flushers, FlushReturns(f)  PROVE SoloFlush' /\ Flows
  <2>1. \A g \in Flushers : flush'[g].pc \notin Writing
    BY <1>3, ReturnStores
  <2>2. SoloFlush'
    BY <2>1 DEF SoloFlush, Writing
  <2>3. \A g \in Flushers, q \in Queue : ~Writes(g, q)'
    BY <2>1 DEF Writes
  <2> QED  BY <1>3, <2>1, <2>2, <2>3, ReturnStores DEF Flows
<1> QED  BY <1>1, <1>2, <1>3, FileSteps

-----------------------------------------------------------------------------
(* What grows *)

(* No mutator of the queue takes a task out of it, and enqueue() puts in   *)
(* what it is given.                                                       *)
LEMMA PresentKept ==
  ASSUME NEW q \in Queue
  PROVE  /\ \A new, m : Present(Enqueued(q, new, m)) = Present(q) \union (new \cap Ids)
         /\ \A i \in Present(q) :
              /\ Present(q) \subseteq Present(Claimed(q, i))
              /\ Present(q) \subseteq Present(Completed(q, i))
              /\ Present(q) \subseteq Present(FailedAttempt(q, i))
              /\ Present(q) \subseteq Present(Cooled(q, i))
         /\ Present(Reopened(q)) = Present(q)
<1>1. ASSUME NEW new, NEW m
      PROVE  Present(Enqueued(q, new, m)) = Present(q) \union (new \cap Ids)
  BY DEF Present, Enqueued, NewTask
<1>2. ASSUME NEW i \in Present(q)  PROVE Present(q) \subseteq Present(Claimed(q, i))
  BY ClaimedType DEF Present
<1>3. ASSUME NEW i \in Present(q)  PROVE Present(q) \subseteq Present(Completed(q, i))
  <2>1. q[i] \in Task /\ i \in Ids
    BY DEF Present, Queue
  <2>2. [q[i] EXCEPT !.status = "done"].status = "done"
    BY <2>1 DEF Task
  <2>3. \A j \in Ids : Completed(q, i)[j] =
          IF j = i THEN [q[i] EXCEPT !.status = "done"] ELSE q[j]
    BY <2>1, CompletedType
  <2>4. \A j \in Ids : q[j].status # "absent" => Completed(q, i)[j].status # "absent"
    BY <2>2, <2>3
  <2> QED  BY <2>4 DEF Present
<1>4. ASSUME NEW i \in Present(q)  PROVE Present(q) \subseteq Present(FailedAttempt(q, i))
  BY FailedAttemptType DEF Present
<1>5. ASSUME NEW i \in Present(q)  PROVE Present(q) \subseteq Present(Cooled(q, i))
  BY CooledType DEF Present
<1>6. Present(Reopened(q)) = Present(q)
  BY ReopenedType DEF Present
<1> QED  BY <1>1, <1>2, <1>3, <1>4, <1>5, <1>6

(* So the queue in memory only grows while the process lives.              *)
LEMMA MemoryGrows ==
  ASSUME Inv, [Next]_vars, phase # "down", phase' # "down"
  PROVE  Present(tasks) \subseteq Present(tasks')
<1>0. tasks \in Queue
  BY DEF Inv, TypeOK
<1>1. ASSUME NEW p \in Posters, PostEnqueues(p)  PROVE Present(tasks) \subseteq Present(tasks')
  <2>1. \E new, m : tasks' = Enqueued(tasks, new, m)
    BY <1>1 DEF PostEnqueues
  <2> QED  BY <1>0, <2>1, PresentKept
<1>2. CASE SchedFires
  <2>1. \E new, m : tasks' = Enqueued(tasks, new, m)
    BY <1>2, FiringIssues
  <2> QED  BY <1>0, <2>1, PresentKept
<1>3. ASSUME NEW i \in Ids, WorkerClaims(i)  PROVE Present(tasks) \subseteq Present(tasks')
  <2>1. tasks' = Claimed(tasks, i) /\ i \in Present(tasks)
    BY <1>3 DEF WorkerClaims, NextDue, Due, Present
  <2> QED  BY <1>0, <2>1, PresentKept
<1>4. CASE RunAnswers \/ RunFails \/ FlushTakenForFailure
  <2>1. /\ worker.pc # "idle"
        /\ \/ tasks' = Completed(tasks, worker.task)
           \/ tasks' = FailedAttempt(tasks, worker.task)
    BY <1>4 DEF RunAnswers, RunFails, FlushTakenForFailure
  <2>2. worker.task \in Present(tasks)
    BY <2>1 DEF Inv, TypeOK, WorkerHasTask, Present
  <2> QED  BY <1>0, <2>1, <2>2, PresentKept
<1>5. ASSUME NEW i \in Ids, BackoffElapses(i)  PROVE Present(tasks) \subseteq Present(tasks')
  BY <1>0, <1>5, CooledType DEF BackoffElapses, Present
<1>6. ASSUME NEW how, ProcessEnds(how)  PROVE FALSE
  BY <1>6 DEF ProcessEnds
<1>7. ~Restart
  BY DEF Restart
<1> QED  BY <1>1, <1>2, <1>3, <1>4, <1>5, <1>6, <1>7, StepKinds DEF Changes

(* What is stored is a queue, and so is every text under way.              *)
LEMMA StoredType == TypeOK => Stored \in Queue
BY LoadedIsHeld, EmptyQueueType DEF Stored, TypeOK, FileTypeOK, DiskType

(* Histories and faults only grow, and an overlap is not forgotten.        *)
LEMMA MoreGrows ==
  ASSUME TypeOK, [Next]_vars
  PROVE  /\ ~overlap' => ~overlap
         /\ faults <= faults' /\ (faults' = faults \/ faults' = faults + 1)
         /\ fired \subseteq fired'
         /\ acked' = acked \/ \E p \in Posters : PostAnswered(p)
<1> USE DEF TypeOK, FileTypeOK
<1>1. /\ fired' = fired \/ SchedFires
      /\ acked' = acked \/ \E p \in Posters : PostAnswered(p)
  <2>1. ASSUME NEW p \in Posters, PosterNext(p)
        PROVE  fired' = fired /\ (acked' = acked \/ PostAnswered(p))
    BY <2>1 DEF PosterNext, PostArrives, PostEnqueues, PostRefused, PostAnswered, histVars
  <2>2. ASSUME WorkerNext  PROVE fired' = fired /\ acked' = acked
    BY <2>2 DEF WorkerNext, WorkerClaims, RunAnswers, RunFails, WorkerFlushed,
                FlushTakenForFailure, UnhandledRejection, ProcessEnds, Said, histVars
  <2>3. ASSUME SchedNext  PROVE acked' = acked /\ (fired' = fired \/ SchedFires)
    BY <2>3 DEF SchedNext, SchedTicks, SchedFires, SchedFlushed, SchedFlushRejects,
                SchedSaves, histVars
  <2>4. ASSUME \/ \E f \in Flushers : FlushGoesOn(f)
               \/ \E i \in Ids : BackoffElapses(i)
               \/ TimePasses \/ Crash \/ DrainBegins \/ DrainEnds \/ Restart \/ UNCHANGED vars
        PROVE  acked' = acked /\ fired' = fired
    BY <2>4 DEF FlushGoesOn, BackoffElapses, TimePasses, Crash, DrainBegins, DrainEnds,
                Restart, ProcessEnds, vars, histVars
  <2> QED  BY <2>1, <2>2, <2>3, <2>4 DEF Next
<1>2. SchedFires => fired \subseteq fired'
  BY DEF SchedFires
<1>4. ~overlap' => ~overlap
  <2>1. ASSUME NEW f \in Flushers, FlushGoesOn(f)  PROVE ~overlap' => ~overlap
    BY <2>1 DEF FlushGoesOn, FlushStep, FlushSnapshot, FlushOpen, FlushWrite
  <2> QED  BY <2>1, FileSteps DEF Calm, FlushReturns
<1>5. faults' = faults \/ faults' = faults + 1
  <2>1. ASSUME NEW f \in Flushers, FlushFails(f)  PROVE faults' = faults \/ faults' = faults + 1
    BY <2>1 DEF FlushFails
  <2>2. ASSUME NEW f \in Flushers,
               UNCHANGED fileVars \/ CallFlush(f) \/ FlushReturns(f)
                 \/ FlushStep(f, tasks)
        PROVE  faults' = faults
    BY <2>2 DEF fileVars, CallFlush, FlushReturns, FlushStep, FlushSnapshot, FlushOpen, FlushWrite
  <2>3. ASSUME NEW p \in Posters, PosterNext(p)  PROVE faults' = faults \/ faults' = faults + 1
    BY <2>1, <2>2, <2>3, Callers
       DEF PosterNext, PostArrives, PostEnqueues, PostRefused, PostAnswered, FlushRejects
  <2>4. CASE WorkerNext
    BY <2>1, <2>2, <2>4, Callers
       DEF WorkerNext, WorkerClaims, RunAnswers, RunFails, WorkerFlushed,
           FlushTakenForFailure, UnhandledRejection, FlushRejects, Said
  <2>5. CASE SchedNext
    <3>1. CASE SchedFires
      <4>1. UNCHANGED fileVars \/ CallFlush(Scheduler)
        BY <3>1, Zenon DEF SchedFires
      <4> QED  BY <2>2, <4>1, Callers
    <3> QED
      BY <2>1, <2>2, <2>5, <3>1, Callers
         DEF SchedNext, SchedTicks, SchedFlushed, SchedFlushRejects, SchedSaves, FlushRejects
  <2>6. CASE \/ \E i \in Ids : BackoffElapses(i)
             \/ TimePasses \/ Crash \/ DrainBegins \/ DrainEnds \/ Restart \/ UNCHANGED vars
    BY <2>6 DEF BackoffElapses, TimePasses, Crash, DrainBegins, DrainEnds, Restart,
                ProcessEnds, vars, fileVars
  <2>7. ASSUME NEW f \in Flushers, FlushGoesOn(f)  PROVE faults' = faults
    BY <2>2, <2>7 DEF FlushGoesOn
  <2> QED  BY <2>3, <2>4, <2>5, <2>6, <2>7 DEF Next
<1> QED  BY <1>1, <1>2, <1>4, <1>5

-----------------------------------------------------------------------------
(* Who calls flush() *)

(* The process goes down with all it has in memory, and only a restart     *)
(* brings it up again.                                                     *)
LEMMA LifeSteps ==
  ASSUME [Next]_vars
  PROVE  /\ phase # "down" /\ phase' = "down" => \E how : ProcessEnds(how)
         /\ phase = "down" /\ phase' # "down" => Restart
         /\ \/ exit' = exit
            \/ phase' = "down" /\ (exit' = "drained" => DrainEnds)
            \/ Restart
<1>1. ASSUME NEW p \in Posters, PosterNext(p)  PROVE phase' = phase /\ exit' = exit
  BY <1>1 DEF PosterNext, PostArrives, PostEnqueues, PostRefused, PostAnswered, histVars
<1>2. CASE UnhandledRejection \/ Crash
  BY <1>2 DEF UnhandledRejection, Crash, ProcessEnds
<1>3. ASSUME WorkerNext, ~UnhandledRejection  PROVE phase' = phase /\ exit' = exit
  BY <1>3 DEF WorkerNext, WorkerClaims, RunAnswers, RunFails, WorkerFlushed,
              FlushTakenForFailure, Said, histVars
<1>4. ASSUME SchedNext  PROVE phase' = phase /\ exit' = exit
  BY <1>4 DEF SchedNext, SchedTicks, SchedFires, SchedFlushed, SchedFlushRejects,
              SchedSaves, histVars
<1>5. ASSUME \/ \E f \in Flushers : FlushGoesOn(f)
             \/ \E i \in Ids : BackoffElapses(i)
             \/ TimePasses \/ UNCHANGED vars
      PROVE  phase' = phase /\ exit' = exit
  BY <1>5 DEF FlushGoesOn, BackoffElapses, TimePasses, procVars, histVars, vars
<1>6. CASE DrainBegins
  BY <1>6 DEF DrainBegins, histVars
<1>7. CASE DrainEnds
  BY <1>7 DEF DrainEnds, ProcessEnds
<1>8. CASE Restart
  BY <1>8 DEF Restart
<1>9. CASE \/ \E p \in Posters : PosterNext(p)
           \/ SchedNext \/ (WorkerNext /\ ~UnhandledRejection)
           \/ \E f \in Flushers : FlushGoesOn(f)
           \/ \E i \in Ids : BackoffElapses(i)
           \/ TimePasses \/ UNCHANGED vars
  <2>1. phase' = phase /\ exit' = exit
    BY <1>1, <1>3, <1>4, <1>5, <1>9
  <2> QED  BY <2>1
<1> QED  BY <1>2, <1>6, <1>7, <1>8, <1>9 DEF Next

(* While the process is down nothing of it moves.                          *)
LEMMA DownIsStill ==
  ASSUME Inv, Callings, [Next]_vars, phase = "down"
  PROVE  \/ UNCHANGED <<procVars, fileVars, histVars, stateFile>>
         \/ Restart
<1>1. /\ tasks = EmptyQueue /\ worker.pc = "idle" /\ sched.pc = "idle"
      /\ \A p \in Posters : poster[p].pc = "idle"
  BY DEF Inv, DownIsEmpty, IdleWorker, IdlePoster, IdleSched
<1>2. \A f \in Flushers : flush[f].pc = "idle"
  BY DEF Callings
<1>3. \A i \in Ids : ~tasks[i].cooling
  BY <1>1 DEF EmptyQueue, NoTask
<1>4. \A p \in Posters : ~PosterNext(p)
  BY <1>1 DEF PosterNext, PostArrives, PostEnqueues, PostRefused, PostAnswered
<1>5. ~WorkerNext
  BY <1>1 DEF WorkerNext, WorkerClaims, RunAnswers, RunFails, WorkerFlushed,
              FlushTakenForFailure, UnhandledRejection, Said
<1>6. ~SchedNext
  BY <1>1 DEF SchedNext, SchedTicks, SchedFires, SchedFlushed, SchedFlushRejects, SchedSaves
<1>7. \A f \in Flushers : ~FlushGoesOn(f)
  BY <1>2 DEF FlushGoesOn, FlushStep, FlushSnapshot, FlushOpen, FlushWrite
<1>8. ~(Crash \/ DrainBegins \/ DrainEnds \/ \E i \in Ids : BackoffElapses(i))
  BY <1>3 DEF Crash, DrainBegins, DrainEnds, BackoffElapses
<1>9. ASSUME TimePasses \/ UNCHANGED vars
      PROVE  UNCHANGED <<procVars, fileVars, histVars, stateFile>>
  BY <1>9 DEF TimePasses, vars
<1> QED  BY <1>4, <1>5, <1>6, <1>7, <1>8, <1>9 DEF Next

(* What each of the callers does to the flush of another.                  *)
LEMMA OthersFlush ==
  ASSUME TypeOK, NEW f \in Flushers, NEW g \in Flushers, f # g,
         \/ UNCHANGED <<disk, flush>> \/ CallFlush(f) \/ FlushReturns(f)
         \/ FlushRejects(f, NoFlush) \/ FlushRejects(f, NewFlush)
         \/ FlushStep(f, tasks)
  PROVE  flush'[g].pc = flush[g].pc
<1> USE DEF TypeOK, FileTypeOK, FlushType
<1>1. CASE FlushStep(f, tasks)
  <2>1. \E r : flush' = [flush EXCEPT ![f] = r]
    <3>1. CASE FlushWrite(f)
      BY <3>1, Zenon DEF FlushWrite
    <3> QED  BY <1>1, <3>1 DEF FlushStep, FlushSnapshot, FlushOpen
  <2> QED  BY <2>1
<1>2. CASE FlushReturns(f)
  BY <1>2 DEF FlushReturns
<1> QED  BY <1>1, <1>2 DEF CallFlush, FlushRejects

(* A request starts to wait when it has enqueued its task and called       *)
(* flush().                                                                *)
LEMMA PosterSteps ==
  ASSUME TypeOK, [Next]_vars, NEW p \in Posters
  PROVE  \/ poster'[p].pc # "flush" \/ poster'[p] = poster[p]
         \/ flush'[p].pc = "mkdir" /\ poster'[p].task \in Present(tasks')
<1>0. /\ flush \in [Flushers -> FlushType(Queue)] /\ issued \in Int /\ p \in Flushers
      /\ poster \in [Posters -> [pc : {"idle", "body", "flush"}, task : Nat]]
  BY Callers, MaxTasksAssumption DEF TypeOK, FileTypeOK
<1>1. ASSUME NEW q \in Posters, PosterNext(q)
      PROVE  \/ poster'[p].pc # "flush" \/ poster'[p] = poster[p]
             \/ flush'[p].pc = "mkdir" /\ poster'[p].task \in Present(tasks')
  <2>1. CASE PostEnqueues(q)
    <3>1. issued + 1 \in Present(tasks')
      BY <1>0, <2>1, MaxTasksAssumption
         DEF TypeOK, PostEnqueues, Enqueued, NewTask, Present, Ids
    <3>2. flush' = [flush EXCEPT ![q] = NewFlush] /\ q \in Flushers
      BY <2>1, Callers DEF PostEnqueues, CallFlush
    <3> QED  BY <1>0, <2>1, <3>1, <3>2 DEF PostEnqueues, NewFlush
  <2> QED
    BY <1>0, <1>1, <2>1 DEF PosterNext, PostArrives, PostRefused, PostAnswered, IdlePoster
<1>2. ASSUME NEW how, ProcessEnds(how)  PROVE poster'[p].pc # "flush"
  BY <1>2 DEF ProcessEnds, IdlePoster
<1>3. ASSUME WorkerNext  PROVE poster' = poster \/ \E how : ProcessEnds(how)
  BY <1>3 DEF WorkerNext, WorkerClaims, RunAnswers, RunFails, WorkerFlushed,
              FlushTakenForFailure, UnhandledRejection, Said
<1>4. ASSUME SchedNext  PROVE poster' = poster
  BY <1>4 DEF SchedNext, SchedTicks, SchedFires, SchedFlushed, SchedFlushRejects, SchedSaves
<1>5. ASSUME \/ \E f \in Flushers : FlushGoesOn(f)
             \/ \E i \in Ids : BackoffElapses(i)
             \/ TimePasses \/ Crash \/ DrainBegins \/ DrainEnds \/ Restart \/ UNCHANGED vars
      PROVE  poster' = poster \/ \E how : ProcessEnds(how)
  BY <1>5 DEF FlushGoesOn, BackoffElapses, TimePasses, Crash, DrainBegins,
              DrainEnds, Restart, procVars, vars
<1> QED  BY <1>1, <1>2, <1>3, <1>4, <1>5 DEF Next

(* The worker has a flush only while its tick awaits it, and what a request*)
(* waits for is in memory.                                                 *)
LEMMA CallingsKept ==
  ASSUME Inv, Callings, [Next]_vars
  PROVE  Callings'
<1> USE Callers
<1>0. TypeOK /\ flush \in [Flushers -> FlushType(Queue)]
      /\ Worker # Scheduler /\ Worker \notin Posters
  BY CallersAssumption DEF Inv, TypeOK, FileTypeOK
<1>1. phase' = "down" => \A f \in Flushers : flush'[f].pc = "idle"
  <2>1. CASE phase = "down"
    <3>1. Restart => phase' # "down"
      BY DEF Restart
    <3> QED  BY <2>1, <3>1, DownIsStill DEF Callings, fileVars
  <2>2. ASSUME NEW how, ProcessEnds(how)  PROVE \A f \in Flushers : flush'[f].pc = "idle"
    BY <2>2 DEF ProcessEnds, FlushesDie, NoFlush
  <2> QED  BY <2>1, <2>2, LifeSteps
<1>2. exit' = "drained" => phase' = "down"
  <2>1. Restart => exit' # "drained"
    BY DEF Restart
  <2>2. CASE exit' = exit /\ exit = "drained"
    <3>1. phase = "down"
      BY <2>2 DEF Callings
    <3> QED  BY <2>1, <2>2, <3>1, LifeSteps
  <2> QED  BY <2>1, <2>2, LifeSteps
<1>3. flush'[Worker].pc # "idle" => worker'.pc \in {"flush", "lastFlush"}
  <2>1. ASSUME NEW p \in Posters, PosterNext(p)
        PROVE  flush'[Worker].pc = flush[Worker].pc /\ worker' = worker
    <3>1. \/ UNCHANGED fileVars \/ CallFlush(p)
          \/ FlushReturns(p) \/ FlushRejects(p, NoFlush)
      BY <2>1 DEF PosterNext, PostArrives, PostEnqueues, PostRefused, PostAnswered
    <3>2. worker' = worker
      BY <2>1 DEF PosterNext, PostArrives, PostEnqueues, PostRefused, PostAnswered
    <3> QED  BY <1>0, <3>1, <3>2, OthersFlush DEF fileVars
  <2>2. CASE WorkerNext
    <3>1. CASE UnhandledRejection
      BY <3>1 DEF UnhandledRejection, ProcessEnds, FlushesDie, NoFlush
    <3>2. CASE WorkerFlushed
      BY <3>2 DEF WorkerFlushed, FlushReturns, NoFlush
    <3>3. CASE RunAnswers \/ RunFails \/ FlushTakenForFailure
      BY <1>0, <3>3 DEF RunAnswers, RunFails, FlushTakenForFailure, TypeOK
    <3>4. CASE Said \/ \E i \in Ids : WorkerClaims(i)
      BY <3>4 DEF Said, WorkerClaims, Callings, fileVars
    <3> QED  BY <2>2, <3>1, <3>2, <3>3, <3>4 DEF WorkerNext
  <2>3. ASSUME SchedNext
        PROVE  flush'[Worker].pc = flush[Worker].pc /\ worker' = worker
    <3>1. \/ UNCHANGED <<disk, flush>> \/ CallFlush(Scheduler)
          \/ FlushReturns(Scheduler) \/ FlushRejects(Scheduler, NoFlush)
      <4>1. CASE SchedFires
        <5>1. UNCHANGED fileVars \/ CallFlush(Scheduler)
          BY <4>1, Zenon DEF SchedFires
        <5> QED  BY <5>1 DEF fileVars
      <4> QED
        BY <2>3, <4>1
           DEF SchedNext, SchedTicks, SchedFlushed, SchedFlushRejects, SchedSaves, fileVars
    <3>2. worker' = worker
      BY <2>3 DEF SchedNext, SchedTicks, SchedFires, SchedFlushed, SchedFlushRejects, SchedSaves
    <3> QED  BY <1>0, <3>1, <3>2, OthersFlush
  <2>4. ASSUME NEW f \in Flushers, FlushGoesOn(f)
        PROVE  worker' = worker /\ (flush'[Worker].pc # "idle" => flush[Worker].pc # "idle")
    <3>1. FlushStep(f, tasks) /\ worker' = worker
      BY <2>4 DEF FlushGoesOn, procVars
    <3>2. flush[f].pc # "idle"
      BY <3>1 DEF FlushStep, FlushSnapshot, FlushOpen, FlushWrite
    <3> QED  BY <1>0, <3>1, <3>2, OthersFlush
  <2>5. CASE Crash \/ DrainEnds
    BY <2>5 DEF Crash, DrainEnds, ProcessEnds, FlushesDie, NoFlush
  <2>6. CASE \/ \E i \in Ids : BackoffElapses(i)
             \/ TimePasses \/ DrainBegins \/ Restart \/ UNCHANGED vars
    BY <2>6 DEF BackoffElapses, TimePasses, DrainBegins, Restart, Callings, vars, procVars, fileVars
  <2> QED  BY <2>1, <2>2, <2>3, <2>4, <2>5, <2>6 DEF Next, Callings
<1>4. ASSUME NEW p \in Posters, poster'[p].pc = "flush"
      PROVE  poster'[p].task \in Present(tasks')
  <2>1. CASE phase' = "down"
    <3>1. DownIsEmpty'
      BY NextDown
    <3> QED  BY <1>4, <2>1, <3>1 DEF DownIsEmpty, IdlePoster
  <2>2. CASE phase = "down"
    <3>1. poster' = poster /\ poster[p].pc = "idle"
      BY <2>2, DownIsStill DEF Restart, procVars, Inv, DownIsEmpty, IdlePoster
    <3> QED  BY <1>4, <3>1
  <2>3. CASE phase # "down" /\ phase' # "down"
    <3>1. Present(tasks) \subseteq Present(tasks')
      BY <2>3, MemoryGrows
    <3>2. poster'[p] = poster[p] \/ poster'[p].task \in Present(tasks')
      BY <1>0, <1>4, PosterSteps
    <3> QED  BY <1>4, <3>1, <3>2 DEF Callings
  <2> QED  BY <2>1, <2>2, <2>3
<1> QED  BY <1>1, <1>2, <1>3, <1>4 DEF Callings

-----------------------------------------------------------------------------
(* What is stored *)

(* While one flush at most writes, what it writes has all that is stored,  *)
(* so nothing that is stored is lost.                                      *)
LEMMA StoredGrows ==
  ASSUME NothingDropped, Flows
  PROVE  Present(Stored) \subseteq Present(Stored')
BY DEF NothingDropped, Flows

(* A text under way after a step was under way before it, or is a snapshot *)
(* of the queue in memory of a process that is up; and it is not stored    *)
(* by that step.                                                           *)
LEMMA TextsUnderWay ==
  ASSUME Inv, Callings, Callings', [Next]_vars, Flows,
         NEW f \in Flushers, NEW q \in Queue, Writes(f, q)'
  PROVE  /\ phase # "down" /\ phase' # "down" /\ Stored' = Stored
         /\ Writes(f, q) \/ (q = tasks /\ FlushGoesOn(f))
<1>1. flush'[f].pc \in Writing /\ flush'[f].pc # "idle"
  BY DEF Writes, Writing
<1>2. phase' # "down"
  BY <1>1 DEF Callings
<1>3. Stored' = Stored
  BY <1>1 DEF Flows
<1>4. phase # "down"
  <2>1. ASSUME phase = "down"  PROVE flush' = flush
    BY <2>1, DownIsStill DEF Restart, fileVars
  <2> QED  BY <1>1, <2>1 DEF Callings
<1> QED  BY <1>2, <1>3, <1>4 DEF Flows

(* So nothing that is stored goes missing from memory or from a text.      *)
LEMMA NothingDroppedKept ==
  ASSUME Inv, Callings, Callings', [Next]_vars, Flows, NothingDropped
  PROVE  NothingDropped'
<1>1. ASSUME phase' # "down"  PROVE Present(Stored') \subseteq Present(tasks')
  <2>1. CASE phase = "down"
    <3>1. Restart
      BY <1>1, <2>1, DownIsStill DEF procVars
    <3>2. tasks' = Reopened(Stored) /\ Stored' = Stored
      BY <3>1 DEF Restart, Stored, fileVars
    <3>3. Stored \in Queue
      BY StoredType DEF Inv
    <3> QED  BY <3>2, <3>3, PresentKept
  <2>2. CASE phase # "down"
    <3>1. Present(tasks) \subseteq Present(tasks')
      BY <1>1, <2>2, MemoryGrows
    <3>2. Present(Stored') \subseteq Present(tasks)
      BY <2>2 DEF Flows, NothingDropped
    <3> QED  BY <3>1, <3>2
  <2> QED  BY <2>1, <2>2
<1>2. ASSUME NEW f \in Flushers, NEW q \in Queue, Writes(f, q)'
      PROVE  Present(Stored') \subseteq Present(q) /\ Present(q) \subseteq Present(tasks')
  <2>1. /\ phase # "down" /\ phase' # "down" /\ Stored' = Stored
        /\ Writes(f, q) \/ q = tasks
    BY <1>2, TextsUnderWay
  <2>2. Present(tasks) \subseteq Present(tasks')
    BY <2>1, MemoryGrows
  <2> QED  BY <2>1, <2>2 DEF NothingDropped
<1> QED  BY <1>1, <1>2 DEF NothingDropped

(* Nor does a task whose POST was answered: the answer waits for the flush *)
(* whose text has it.                                                      *)
LEMMA AcksFollowKept ==
  ASSUME Inv, Callings, Callings', [Next]_vars, SoloFlush, Flows, NothingDropped, AcksFollow
  PROVE  AcksFollow'
<1>0. /\ TypeOK /\ faults \in Nat /\ flush \in [Flushers -> FlushType(Queue)]
      /\ Present(Stored) \subseteq Present(Stored')
  BY StoredGrows DEF Inv, TypeOK, FileTypeOK
<1>1. ASSUME faults' = 0  PROVE acked' \subseteq Present(Stored')
  <2>1. faults = 0
    BY <1>0, <1>1, MoreGrows
  <2>2. ASSUME NEW p \in Posters, PostAnswered(p)  PROVE acked' \subseteq Present(Stored')
    <3>1. poster[p].pc = "flush" /\ acked' = acked \union {poster[p].task} /\ p \in Flushers
      BY <2>2, Callers DEF PostAnswered
    <3>2. ~FlushRejects(p, NoFlush)
      BY <1>0, <1>1, <2>1, <3>1 DEF FlushRejects, FlushFails, SoloFlush
    <3>3. PICK q \in Queue : Writes(p, q) /\ Stored' = q
      BY <1>0, <2>2, <3>1, <3>2, ReturnStores DEF PostAnswered
    <3>4. poster[p].task \in Present(Stored')
      BY <3>1, <3>3 DEF AcksFollow
    <3> QED  BY <1>0, <2>1, <3>1, <3>4 DEF AcksFollow
  <2>3. acked' = acked \/ \E p \in Posters : PostAnswered(p)
    BY <1>0, MoreGrows
  <2> QED  BY <1>0, <2>1, <2>2, <2>3 DEF AcksFollow
<1>2. ASSUME NEW p \in Posters, NEW q \in Queue, poster'[p].pc = "flush", Writes(p, q)'
      PROVE  poster'[p].task \in Present(q)
  <2>1. poster'[p] = poster[p]
    BY <1>0, <1>2, PosterSteps DEF Writes, Writing
  <2>2. Writes(p, q) \/ q = tasks
    BY <1>2, TextsUnderWay, Callers
  <2> QED  BY <1>2, <2>1, <2>2 DEF AcksFollow, Callings
<1> QED  BY <1>1, <1>2 DEF AcksFollow

(* A firing is not forgotten, and its task not lost.                       *)
LEMMA FiredIntoGrows ==
  ASSUME NEW F, NEW G, F \subseteq G, NEW q, NEW r, Present(q) \subseteq Present(r),
         NEW s, NEW t, FiredInto(F, q, s, t)
  PROVE  FiredInto(G, r, s, t)
BY DEF FiredInto

(* What a step does to the schedules' tick.                                *)
LEMMA SchedSteps ==
  ASSUME TypeOK, [Next]_vars
  PROVE  \/ /\ sched' = sched \/ \E pc \in {"idle", "read"} : sched' = [sched EXCEPT !.pc = pc]
            /\ UNCHANGED <<stateFile, fired>>
         \/ SchedFires
         \/ SchedFlushed
         \/ SchedSaves
         \/ sched' = IdleSched /\ UNCHANGED <<stateFile, fired>> /\ phase' = "down"
<1>1. ASSUME NEW p \in Posters, PosterNext(p)  PROVE UNCHANGED <<sched, stateFile, fired>>
  BY <1>1 DEF PosterNext, PostArrives, PostEnqueues, PostRefused, PostAnswered, histVars
<1>2. ASSUME NEW how, ProcessEnds(how)
      PROVE  sched' = IdleSched /\ UNCHANGED <<stateFile, fired>> /\ phase' = "down"
  BY <1>2 DEF ProcessEnds
<1>3. ASSUME WorkerNext
      PROVE  UNCHANGED <<sched, stateFile, fired>> \/ \E how : ProcessEnds(how)
  BY <1>3 DEF WorkerNext, WorkerClaims, RunAnswers, RunFails, WorkerFlushed,
              FlushTakenForFailure, UnhandledRejection, Said, histVars
<1>4. CASE SchedTicks
  BY <1>4 DEF SchedTicks, histVars
<1>5. CASE SchedFlushRejects
  BY <1>5 DEF SchedFlushRejects, histVars
<1>6. ASSUME \/ \E f \in Flushers : FlushGoesOn(f)
             \/ \E i \in Ids : BackoffElapses(i)
             \/ TimePasses \/ Crash \/ DrainBegins \/ DrainEnds \/ Restart \/ UNCHANGED vars
      PROVE  UNCHANGED <<sched, stateFile, fired>> \/ \E how : ProcessEnds(how)
  BY <1>6 DEF FlushGoesOn, BackoffElapses, TimePasses, Crash, DrainBegins,
              DrainEnds, Restart, procVars, histVars, vars
<1>7. ASSUME UNCHANGED <<sched, stateFile, fired>>
      PROVE  sched' = sched /\ UNCHANGED <<stateFile, fired>>
  BY <1>7
<1>8. CASE \/ \E p \in Posters : PosterNext(p)
           \/ WorkerNext \/ Crash \/ DrainBegins \/ DrainEnds \/ Restart \/ UNCHANGED vars
           \/ \E f \in Flushers : FlushGoesOn(f)
           \/ \E i \in Ids : BackoffElapses(i)
           \/ TimePasses
  <2>1. UNCHANGED <<sched, stateFile, fired>> \/ \E how : ProcessEnds(how)
    BY <1>1, <1>3, <1>6, <1>8
  <2> QED  BY <1>2, <2>1
<1> QED  BY <1>4, <1>5, <1>8 DEF Next, SchedNext

(* What a firing tick does: every schedule that was due fires at this      *)
(* instant into a new task, and the others keep their times.               *)
LEMMA FiringStep ==
  ASSUME TypeOK, SchedFires
  PROVE  \E due \in SUBSET Schedules, last \in [Schedules -> Times \union {Never}] :
           /\ last = IF sched.loaded THEN sched.last ELSE stateFile
           /\ sched'.loaded /\ sched'.pc \in {"idle", "flush"}
           /\ sched'.pc = "flush" => flush'[Scheduler].pc = "mkdir"
           /\ \A s \in Schedules : sched'.last[s] = IF s \in due THEN now ELSE last[s]
           /\ \E id, def :
                /\ \A s \in due : /\ id[s] \in Present(tasks')
                                   /\ IsDue(def[s], last[s], now) /\ def[s] \in Definitions
                /\ fired' = fired \union {<<s, now, boots, id[s], def[s]>> : s \in due}
           /\ UNCHANGED <<stateFile, phase, now, boots>>
<1> DEFINE last == IF sched.loaded THEN sched.last ELSE stateFile
<1>1. PICK defs \in UNION {[present -> Definitions] : present \in SUBSET Schedules} :
        LET due == {s \in DOMAIN defs : IsDue(defs[s], last[s], now)}
            new == issued + 1 .. issued + Cardinality(due)
        IN  /\ new \subseteq Ids
            /\ \E id \in [due -> new] :
                 /\ \A i \in new : \E s \in due : id[s] = i
                 /\ fired' = fired \union {<<s, now, boots, id[s], defs[s]>> : s \in due}
            /\ tasks' = Enqueued(tasks, new, DefaultLimit)
            /\ issued' = issued + Cardinality(due)
            /\ sched' = [pc |-> IF due = {} THEN "idle" ELSE "flush",
                         loaded |-> TRUE,
                         last |-> [s \in Schedules |->
                                     IF s \in due THEN now ELSE last[s]]]
            /\ IF due = {} THEN UNCHANGED fileVars ELSE CallFlush(Scheduler)
  BY DEF SchedFires
<1> DEFINE due == {s \in DOMAIN defs : IsDue(defs[s], last[s], now)}
           new == issued + 1 .. issued + Cardinality(due)
<1>2. due \in SUBSET Schedules
  OBVIOUS
<1>12. \A s \in due : IsDue(defs[s], last[s], now) /\ defs[s] \in Definitions
  OBVIOUS
<1>3. last \in [Schedules -> Times \union {Never}]
  BY DEF TypeOK
<1>4. PICK id \in [due -> new] :
        fired' = fired \union {<<s, now, boots, id[s], defs[s]>> : s \in due}
  BY <1>1
<1>5. /\ new \subseteq Ids /\ tasks' = Enqueued(tasks, new, DefaultLimit)
      /\ sched' = [pc |-> IF due = {} THEN "idle" ELSE "flush", loaded |-> TRUE,
                   last |-> [s \in Schedules |-> IF s \in due THEN now ELSE last[s]]]
      /\ IF due = {} THEN UNCHANGED fileVars ELSE CallFlush(Scheduler)
  BY <1>1
<1> HIDE DEF new, due
<1>6. \A s \in due : id[s] \in Present(tasks')
  BY <1>4, <1>5, PresentKept DEF TypeOK
<1>7. sched'.pc = "flush" => flush'[Scheduler].pc = "mkdir"
  BY <1>5, Callers DEF TypeOK, FileTypeOK, CallFlush, NewFlush
<1>8. /\ sched'.loaded /\ sched'.pc \in {"idle", "flush"}
      /\ \A s \in Schedules : sched'.last[s] = IF s \in due THEN now ELSE last[s]
  BY <1>5
<1>9. UNCHANGED <<stateFile, phase, now, boots>>
  BY DEF SchedFires
<1> HIDE DEF last
<1>10. \E i, def :
         /\ \A s \in due : /\ i[s] \in Present(tasks')
                            /\ IsDue(def[s], last[s], now) /\ def[s] \in Definitions
         /\ fired' = fired \union {<<s, now, boots, i[s], def[s]>> : s \in due}
  BY <1>4, <1>6, <1>12
<1>11. last = IF sched.loaded THEN sched.last ELSE stateFile
  BY DEF last
<1> QED  BY <1>2, <1>3, <1>7, <1>8, <1>9, <1>10, <1>11

(* The state file, the memory of the schedules and the text of their flush *)
(* follow the queue's file, the queue and the text.                        *)
LEMMA StateFollowsKept ==
  ASSUME Inv, Callings, Callings', [Next]_vars, SoloFlush, Flows,
         NothingDropped, StateFollows
  PROVE  StateFollows'
<1>0. /\ TypeOK /\ fired \subseteq fired' /\ Present(Stored) \subseteq Present(Stored')
      /\ phase # "down" /\ phase' # "down" => Present(tasks) \subseteq Present(tasks')
      /\ phase # "down" => Present(Stored) \subseteq Present(tasks)
  BY StoredGrows, MemoryGrows, MoreGrows DEF Inv, NothingDropped
<1>1. \A q \in Queue : Writes(Scheduler, q)' =>
        phase # "down" /\ (Writes(Scheduler, q) \/ q = tasks)
  BY TextsUnderWay, Callers
<1> SUFFICES ASSUME NEW s \in Schedules
             PROVE  /\ FiredInto(fired', Stored', s, stateFile'[s])
                    /\ phase' # "down" => FiredInto(fired', tasks', s, sched'.last[s])
                    /\ sched'.pc = "state" => FiredInto(fired', Stored', s, sched'.last[s])
                    /\ sched'.pc = "flush" => \A q \in Queue : Writes(Scheduler, q)' =>
                         FiredInto(fired', q, s, sched'.last[s])
  BY DEF StateFollows
<1>2. /\ FiredInto(fired, Stored, s, stateFile[s])
      /\ phase # "down" => FiredInto(fired, tasks, s, sched.last[s])
      /\ sched.pc = "state" => FiredInto(fired, Stored, s, sched.last[s])
      /\ sched.pc = "flush" => \A q \in Queue : Writes(Scheduler, q) =>
           FiredInto(fired, q, s, sched.last[s])
  BY DEF StateFollows
<1>3. phase = "down" => sched.last[s] = Never /\ sched.pc = "idle"
  BY DEF Inv, DownIsEmpty, IdleSched
<1>4. sched \in [pc : {"idle", "read", "flush", "state"}, loaded : BOOLEAN,
                 last : [Schedules -> Times \union {Never}]]
  BY <1>0 DEF TypeOK
<1>5. FiredInto(fired', Stored', s, stateFile[s])
  BY <1>0, <1>2 DEF FiredInto
<1>6. phase' # "down" => FiredInto(fired', tasks', s, sched.last[s])
  BY <1>0, <1>2, <1>3 DEF FiredInto
<1>7. sched.pc = "state" => FiredInto(fired', Stored', s, sched.last[s])
  BY <1>0, <1>2 DEF FiredInto
<1>8. sched.pc = "flush" => \A q \in Queue : Writes(Scheduler, q)' =>
        FiredInto(fired', q, s, sched.last[s])
  BY <1>0, <1>1, <1>2 DEF FiredInto
<1>9. CASE /\ sched' = sched \/ \E pc \in {"idle", "read"} : sched' = [sched EXCEPT !.pc = pc]
           /\ UNCHANGED <<stateFile, fired>>
  <2>1. /\ sched'.last = sched.last /\ stateFile' = stateFile
        /\ sched'.pc \in {"state", "flush"} => sched'.pc = sched.pc
    BY <1>4, <1>9
  <2> QED  BY <1>5, <1>6, <1>7, <1>8, <2>1
<1>10. CASE SchedFires
  <2>1. PICK due \in SUBSET Schedules, last \in [Schedules -> Times \union {Never}] :
          /\ last = IF sched.loaded THEN sched.last ELSE stateFile
          /\ sched'.pc \in {"idle", "flush"}
          /\ sched'.pc = "flush" => flush'[Scheduler].pc = "mkdir"
          /\ \A r \in Schedules : sched'.last[r] = IF r \in due THEN now ELSE last[r]
          /\ \E id, def :
               /\ \A r \in due : id[r] \in Present(tasks')
               /\ fired' = fired \union {<<r, now, boots, id[r], def[r]>> : r \in due}
          /\ UNCHANGED <<stateFile, phase, now, boots>>
    BY <1>0, <1>10, FiringStep
  <2>2. phase # "down" /\ phase' # "down"
    BY <1>3, <1>10, <2>1 DEF SchedFires
  <2>3. FiredInto(fired', tasks', s, sched'.last[s])
    <3>1. CASE s \in due
      <4>1. PICK id, def :
              /\ \A r \in due : id[r] \in Present(tasks')
              /\ fired' = fired \union {<<r, now, boots, id[r], def[r]>> : r \in due}
        BY <2>1
      <4>2. <<s, now, boots, id[s], def[s]>> \in fired' /\ id[s] \in Present(tasks')
        BY <3>1, <4>1
      <4>3. \E x \in fired' : x[1] = s /\ x[2] = now /\ x[4] \in Present(tasks')
        <5>1. LET x == <<s, now, boots, id[s], def[s]>>
              IN  x[1] = s /\ x[2] = now /\ x[4] = id[s]
          OBVIOUS
        <5> QED  BY <4>2, <5>1
      <4> QED  BY <2>1, <3>1, <4>3 DEF FiredInto
    <3>2. CASE s \notin due
      <4>1. sched'.last[s] = IF sched.loaded THEN sched.last[s] ELSE stateFile[s]
        BY <2>1, <3>2
      <4>2. FiredInto(fired', tasks', s, stateFile[s])
        BY <1>0, <1>2, <2>2 DEF FiredInto
      <4> QED  BY <1>6, <2>2, <4>1, <4>2
    <3> QED  BY <3>1, <3>2
  <2>4. \A q \in Queue : sched'.pc = "flush" => ~Writes(Scheduler, q)'
    BY <2>1 DEF Writes, Writing
  <2> QED  BY <1>5, <2>1, <2>3, <2>4
<1>11. CASE SchedFlushed
  <2>1. /\ sched'.pc = "state" /\ sched'.last = sched.last /\ stateFile' = stateFile
        /\ fired' = fired /\ sched.pc = "flush" /\ FlushReturns(Scheduler)
    BY <1>4, <1>11 DEF SchedFlushed, histVars
  <2>2. PICK q \in Queue : Writes(Scheduler, q) /\ Stored' = q
    BY <1>0, <2>1, ReturnStores, Callers
  <2>3. FiredInto(fired', Stored', s, sched.last[s])
    BY <1>2, <2>1, <2>2
  <2> QED  BY <1>5, <1>6, <2>1, <2>3
<1>12. CASE SchedSaves
  <2>1. /\ sched'.pc = "idle" /\ sched'.last = sched.last /\ sched.pc = "state"
        /\ stateFile' = stateFile \/ stateFile' = sched.last
    BY <1>4, <1>12 DEF SchedSaves
  <2> QED  BY <1>5, <1>6, <1>7, <2>1
<1>13. CASE sched' = IdleSched /\ UNCHANGED <<stateFile, fired>> /\ phase' = "down"
  <2>1. sched'.pc = "idle"
    BY <1>13 DEF IdleSched
  <2> QED  BY <1>5, <1>13, <2>1
<1> QED  BY <1>0, <1>9, <1>10, <1>11, <1>12, <1>13, SchedSteps

(* What a step does to the tick under way and to what was run.             *)
LEMMA WorkerSteps ==
  ASSUME TypeOK, [Next]_vars
  PROVE  \/ ran' = ran /\ \A i : OnTask(i) => OnTask(i)'
         \/ \E i \in Ids : WorkerClaims(i)
         \/ WorkerFlushed
         \/ Said
         \/ \E how : ProcessEnds(how)
         \/ Restart
<1>1. ASSUME NEW p \in Posters, PosterNext(p)  PROVE worker' = worker /\ ran' = ran
  BY <1>1 DEF PosterNext, PostArrives, PostEnqueues, PostRefused, PostAnswered, histVars
<1>2. CASE RunAnswers \/ RunFails \/ FlushTakenForFailure
  <2>1. ran' = ran /\ worker'.task = worker.task /\ worker'.pc \in {"flush", "lastFlush"}
    BY <1>2 DEF RunAnswers, RunFails, FlushTakenForFailure, histVars, TypeOK
  <2> QED  BY <2>1 DEF OnTask
<1>3. CASE UnhandledRejection \/ Crash \/ DrainEnds
  BY <1>3 DEF UnhandledRejection, Crash, DrainEnds
<1>4. ASSUME SchedNext  PROVE worker' = worker /\ ran' = ran
  BY <1>4 DEF SchedNext, SchedTicks, SchedFires, SchedFlushed, SchedFlushRejects,
              SchedSaves, histVars
<1>5. ASSUME \/ \E f \in Flushers : FlushGoesOn(f)
             \/ \E i \in Ids : BackoffElapses(i)
             \/ TimePasses \/ DrainBegins \/ UNCHANGED vars
      PROVE  worker' = worker /\ ran' = ran
  BY <1>5 DEF FlushGoesOn, BackoffElapses, TimePasses, DrainBegins, procVars, histVars, vars
<1>6. ASSUME worker' = worker, ran' = ran
      PROVE  ran' = ran /\ \A i : OnTask(i) => OnTask(i)'
  BY <1>6 DEF OnTask
<1> QED  BY <1>1, <1>2, <1>3, <1>4, <1>5, <1>6 DEF Next, WorkerNext

(* Of what this incarnation has run, nothing but the task of the tick under*)
(* way is running in the file or in a text.                                *)
LEMMA RunsFollowKept ==
  ASSUME Inv, Callings, Callings', [Next]_vars, SoloFlush, Flows, RunsFollow
  PROVE  RunsFollow'
<1>0. TypeOK /\ ran \subseteq Ids
  BY DEF Inv, TypeOK
<1>1. ASSUME NEW f \in Flushers, NEW q \in Queue, Writes(f, q)',
             NEW i \in ran, q[i].status = "running"
      PROVE  OnTask(i) /\ f # Worker
  <2>1. Writes(f, q) \/ (q = tasks /\ FlushGoesOn(f))
    BY <1>1, TextsUnderWay
  <2>2. CASE Writes(f, q)
    BY <1>1, <2>2 DEF RunsFollow
  <2>3. CASE q = tasks /\ FlushGoesOn(f)
    <3>1. worker = [pc |-> "run", task |-> i]
      BY <1>0, <1>1, <2>3 DEF Inv, OneRunAtATime
    <3>2. flush[f].pc # "idle"
      BY <2>3 DEF FlushGoesOn, FlushStep, FlushSnapshot, FlushOpen, FlushWrite
    <3> QED  BY <3>1, <3>2 DEF Callings, OnTask
  <2> QED  BY <2>1, <2>2, <2>3
<1>2. ASSUME phase # "down", NEW i \in ran, Stored'[i].status = "running"
      PROVE  OnTask(i)
  BY <1>2 DEF RunsFollow, Flows
<1>3. ASSUME exit' = "drained", NEW i \in ran'  PROVE Stored'[i].status # "running"
  <2>1. CASE exit' = exit
    <3>1. phase = "down" /\ exit = "drained"
      BY <1>3, <2>1 DEF Callings
    <3>2. ~Restart
      BY <1>3 DEF Restart
    <3>3. UNCHANGED <<fileVars, histVars>>
      BY <3>1, <3>2, DownIsStill
    <3>4. Stored' = Stored /\ ran' = ran
      BY <3>3 DEF fileVars, histVars, Stored
    <3> QED  BY <1>3, <3>1, <3>4 DEF RunsFollow
  <2>2. CASE DrainEnds
    <3>1. worker.pc = "idle" /\ phase = "draining" /\ ran' = ran /\ disk' = disk
      BY <1>3, <2>2 DEF DrainEnds, ProcessEnds
    <3>2. \A j : ~OnTask(j)
      BY <3>1 DEF OnTask
    <3> QED  BY <1>2, <1>3, <3>1, <3>2
  <2>3. CASE Restart
    BY <1>3, <2>3 DEF Restart
  <2> QED  BY <1>3, <2>1, <2>2, <2>3, LifeSteps
<1> DEFINE Followed ==
             /\ phase' # "down" =>
                  \A i \in ran' : Stored'[i].status = "running" => OnTask(i)'
             /\ \A f \in Flushers, q \in Queue : Writes(f, q)' =>
                  \A i \in ran' : q[i].status = "running" => OnTask(i)' /\ f # Worker
<1>4. SUFFICES Followed
  BY <1>3 DEF RunsFollow
<1>5. ASSUME ran' = ran, \A i \in ran : OnTask(i) => OnTask(i)'  PROVE Followed
  <2>1. CASE phase = "down"
    <3>1. ~Restart \/ ran' = {}
      BY DEF Restart
    <3>2. ASSUME ~Restart  PROVE phase' = "down" /\ \A f \in Flushers, q \in Queue : ~Writes(f, q)'
      <4>1. phase' = "down"
        BY <2>1, <3>2, LifeSteps
      <4> QED  BY <4>1 DEF Callings, Writes, Writing
    <3> QED  BY <3>1, <3>2
  <2>2. CASE phase # "down"
    BY <1>1, <1>2, <1>5, <2>2
  <2> QED  BY <2>1, <2>2
<1>6. ASSUME NEW i \in Ids, WorkerClaims(i)  PROVE Followed
  <2>1. /\ worker.pc = "idle" /\ worker' = [pc |-> "run", task |-> i]
        /\ ran' = ran \union {i} /\ phase = "up"
    BY <1>6 DEF WorkerClaims
  <2>2. OnTask(i)' /\ \A j : ~OnTask(j)
    BY <2>1 DEF OnTask
  <2>3. ASSUME NEW q \in Queue  PROVE ~Writes(Worker, q)'
    <3>1. worker'.pc = "run"
      BY <2>1
    <3> QED  BY <3>1 DEF Callings, Writes, Writing
  <2> QED  BY <1>1, <1>2, <2>1, <2>2, <2>3
<1>7. CASE WorkerFlushed
  <2>1. FlushReturns(Worker) /\ ran' = ran
    BY <1>7 DEF WorkerFlushed, histVars
  <2>2. PICK q \in Queue : Writes(Worker, q) /\ Stored' = q
    BY <1>0, <2>1, ReturnStores, Callers
  <2>3. \A f \in Flushers, r \in Queue : ~Writes(f, r)'
    BY <1>0, <2>1, ReturnStores, Callers DEF Writes
  <2>4. \A i \in ran : Stored'[i].status # "running"
    BY <2>2, Callers DEF RunsFollow
  <2> QED  BY <2>1, <2>3, <2>4
<1>8. CASE Said
  <2>1. worker.pc = "say" /\ ran' = ran
    BY <1>8 DEF Said, histVars
  <2>2. \A i : ~OnTask(i)
    BY <2>1 DEF OnTask
  <2> QED  BY <1>5, <2>1, <2>2
<1>9. ASSUME NEW how, ProcessEnds(how)  PROVE Followed
  <2>1. phase' = "down"
    BY <1>9 DEF ProcessEnds
  <2> QED  BY <2>1 DEF Callings, Writes, Writing
<1>10. CASE Restart
  BY <1>10 DEF Restart
<1> QED  BY <1>0, <1>5, <1>6, <1>7, <1>8, <1>9, <1>10, WorkerSteps

-----------------------------------------------------------------------------
(* Firings *)

(* The time at which a definition is due on a day is a number.             *)
LEMMA DueAtType ==
  \A d \in Definitions, t \in Times : DueAt(d, t) \in Int /\ d.everyMinutes \in Int
<1> SUFFICES ASSUME NEW d \in Definitions, NEW t \in Times
             PROVE  DueAt(d, t) \in Int /\ d.everyMinutes \in Int
  OBVIOUS
<1>1. d.at \in Int /\ d.everyMinutes \in Int /\ DayUnits \in Nat \ {0} /\ t \in Int
  BY SchedulesAssumption DEF Definition, Times
<1>2. t \div DayUnits \in Int
  BY <1>1
<1> QED  BY <1>1, <1>2 DEF DueAt

(* A time is not Never. *)
LEMMA TimesAreNumbers == \A t \in Times : t \in Int /\ t # Never
BY SchedulesAssumption DEF Times, Never

(* What is due again is due in a period that has begun after all that lies *)
(* behind the last firing.                                                 *)
LEMMA DueIsNewPeriod ==
  ASSUME NEW d \in Definitions, NEW last \in Times, NEW t \in Times, NEW u \in Times,
         IsDue(d, last, t), u <= last
  PROVE  u # t /\ PeriodBegan(d, u, t)
<1>1. /\ DueAt(d, t) \in Int /\ last \in Int /\ t \in Int /\ u \in Int
      /\ last # Never /\ d.everyMinutes \in Nat \ {0}
  BY DueAtType, TimesAreNumbers, SchedulesAssumption DEF Definition
<1>2. CASE d.kind = "daily"
  <2>1. last < DueAt(d, t) /\ DueAt(d, t) <= t
    BY <1>1, <1>2 DEF IsDue
  <2> QED  BY <1>1, <1>2, <2>1 DEF PeriodBegan
<1>3. CASE d.kind # "daily"
  <2>1. t - last >= d.everyMinutes
    BY <1>1, <1>3 DEF IsDue
  <2> QED  BY <1>1, <1>3, <2>1 DEF PeriodBegan
<1> QED  BY <1>2, <1>3

(* The clock goes on, and only a restart counts an incarnation.            *)
LEMMA ClockSteps ==
  ASSUME [Next]_vars
  PROVE  (now' = now \/ now' = now + 1) /\ (boots' = boots \/ Restart)
<1>1. ASSUME NEW p \in Posters, PosterNext(p)  PROVE now' = now /\ boots' = boots
  BY <1>1 DEF PosterNext, PostArrives, PostEnqueues, PostRefused, PostAnswered, histVars
<1>2. ASSUME WorkerNext  PROVE now' = now /\ boots' = boots
  BY <1>2 DEF WorkerNext, WorkerClaims, RunAnswers, RunFails, WorkerFlushed,
              FlushTakenForFailure, UnhandledRejection, ProcessEnds, Said, histVars
<1>3. ASSUME SchedNext  PROVE now' = now /\ boots' = boots
  BY <1>3 DEF SchedNext, SchedTicks, SchedFires, SchedFlushed, SchedFlushRejects,
              SchedSaves, histVars
<1>4. ASSUME \/ \E f \in Flushers : FlushGoesOn(f)
             \/ \E i \in Ids : BackoffElapses(i)
             \/ Crash \/ DrainBegins \/ DrainEnds \/ UNCHANGED vars
      PROVE  now' = now /\ boots' = boots
  BY <1>4 DEF FlushGoesOn, BackoffElapses, Crash, DrainBegins, DrainEnds, ProcessEnds,
              histVars, vars
<1>5. CASE TimePasses
  BY <1>5 DEF TimePasses, histVars
<1>6. CASE Restart
  BY <1>6 DEF Restart
<1> QED  BY <1>1, <1>2, <1>3, <1>4, <1>5, <1>6 DEF Next

(* No incarnation fires a schedule twice in a period, because what it has  *)
(* fired lies behind what it remembers.                                    *)
LEMMA FiringsBehindKept ==
  ASSUME Inv, Callings, FiringsBehind, [Next]_vars
  PROVE  FiringsBehind'
<1>0. /\ TypeOK /\ boots \in Int /\ now \in Times
      /\ \A x \in fired : x[1] \in Schedules /\ x[2] \in Times /\ x[3] \in Int
      /\ sched \in [pc : {"idle", "read", "flush", "state"}, loaded : BOOLEAN,
                    last : [Schedules -> Times \union {Never}]]
  BY SchedulesAssumption DEF Inv, TypeOK
<1>1. CASE ~SchedFires
  <2>0. fired' = fired
    BY <1>0, <1>1, SchedSteps DEF SchedFlushed, SchedSaves, histVars
  <2>1. \A x \in fired : x[3] <= boots' /\ x[2] <= now'
    <3>1. boots' = boots \/ boots' = boots + 1
      BY ClockSteps DEF Restart
    <3> QED  BY <1>0, <3>1, ClockSteps, TimesAreNumbers DEF FiringsBehind
  <2>2. ASSUME phase' # "down", NEW x \in fired, x[3] = boots'
        PROVE  sched'.loaded /\ sched'.last[x[1]] # Never /\ x[2] <= sched'.last[x[1]]
    <3>1. ~Restart
      <4>1. x[3] <= boots
        BY DEF FiringsBehind
      <4> QED  BY <1>0, <2>2, <4>1 DEF Restart
    <3>2. boots' = boots /\ phase # "down"
      BY <2>2, <3>1, ClockSteps, LifeSteps
    <3>3. sched'.last = sched.last /\ (sched.loaded => sched'.loaded)
      <4>1. CASE \/ sched' = sched
                 \/ \E pc \in {"idle", "read"} : sched' = [sched EXCEPT !.pc = pc]
        BY <1>0, <4>1
      <4>2. CASE SchedFlushed \/ SchedSaves
        BY <1>0, <4>2 DEF SchedFlushed, SchedSaves
      <4> QED  BY <1>0, <1>1, <2>2, <4>1, <4>2, SchedSteps
    <3> QED  BY <2>2, <3>2, <3>3 DEF FiringsBehind
  <2> QED  BY <2>0, <2>1, <2>2 DEF FiringsBehind, OneFiringPerPeriod
<1>2. CASE SchedFires
  <2>1. PICK due \in SUBSET Schedules, last \in [Schedules -> Times \union {Never}] :
          /\ last = IF sched.loaded THEN sched.last ELSE stateFile
          /\ sched'.loaded /\ sched'.pc \in {"idle", "flush"}
          /\ sched'.pc = "flush" => flush'[Scheduler].pc = "mkdir"
          /\ \A s \in Schedules : sched'.last[s] = IF s \in due THEN now ELSE last[s]
          /\ \E id, def :
               /\ \A s \in due : /\ id[s] \in Present(tasks')
                                  /\ IsDue(def[s], last[s], now) /\ def[s] \in Definitions
               /\ fired' = fired \union {<<s, now, boots, id[s], def[s]>> : s \in due}
          /\ UNCHANGED <<stateFile, phase, now, boots>>
    BY <1>0, <1>2, FiringStep
  <2>2. PICK id, def :
          /\ \A s \in due : IsDue(def[s], last[s], now) /\ def[s] \in Definitions
          /\ fired' = fired \union {<<s, now, boots, id[s], def[s]>> : s \in due}
    BY <2>1
  <2> DEFINE new == {<<s, now, boots, id[s], def[s]>> : s \in due}
  <2>3. \A x \in new : /\ x[1] \in due /\ x[2] = now /\ x[3] = boots
                        /\ x[5] = def[x[1]]
                        /\ x = <<x[1], now, boots, id[x[1]], def[x[1]]>>
    OBVIOUS
  <2>4. fired' = fired \union new
    BY <2>2
  <2> HIDE DEF new
  <2>5. phase # "down"
    BY <1>2 DEF SchedFires, Inv, DownIsEmpty, IdleSched
  <2>6. \A x \in fired : x[3] = boots =>
          last[x[1]] \in Times /\ x[2] <= last[x[1]]
    <3>1. ASSUME NEW x \in fired, x[3] = boots
          PROVE  last[x[1]] \in Times /\ x[2] <= last[x[1]]
      BY <1>0, <2>1, <2>5, <3>1 DEF FiringsBehind
    <3> QED  BY <3>1
  <2>7. \A x \in fired' : x[3] <= boots' /\ x[2] <= now'
    BY <1>0, <2>1, <2>3, <2>4, TimesAreNumbers DEF FiringsBehind
  <2>9. \A x \in fired' : x[3] = boots' =>
          sched'.loaded /\ sched'.last[x[1]] # Never /\ x[2] <= sched'.last[x[1]]
    <3>1. ASSUME NEW x \in new
          PROVE  sched'.last[x[1]] # Never /\ x[2] <= sched'.last[x[1]]
      <4>1. sched'.last[x[1]] = now /\ x[2] = now
        BY <2>1, <2>3, <3>1
      <4> QED  BY <1>0, <4>1, TimesAreNumbers
    <3>2. ASSUME NEW x \in fired, x[3] = boots
          PROVE  sched'.last[x[1]] # Never /\ x[2] <= sched'.last[x[1]]
      <4>1. sched'.last[x[1]] \in {now, last[x[1]]}
        BY <1>0, <2>1
      <4>2. now \in Int /\ x[2] \in Int /\ x[2] <= now /\ now # Never
        BY <1>0, TimesAreNumbers DEF FiringsBehind
      <4>3. last[x[1]] # Never /\ x[2] <= last[x[1]]
        BY <2>6, <3>2, TimesAreNumbers
      <4> QED  BY <4>1, <4>2, <4>3
    <3> QED  BY <2>1, <2>4, <3>1, <3>2
  <2>10. OneFiringPerPeriod'
    <3>1. ASSUME NEW x \in fired, NEW y \in new, x[1] = y[1], x[3] = boots
          PROVE  x[2] # y[2] /\ x[2] <= y[2] /\ PeriodBegan(y[5], x[2], y[2])
      <4>1. last[y[1]] \in Times /\ x[2] <= last[y[1]] /\ x[2] \in Times
        BY <1>0, <2>6, <3>1
      <4>2. y[5] \in Definitions /\ IsDue(y[5], last[y[1]], now) /\ y[2] = now
        BY <2>2, <2>3, <3>1
      <4>4. x[2] <= now
        BY <3>1 DEF FiringsBehind
      <4> QED  BY <1>0, <4>1, <4>2, <4>4, DueIsNewPeriod
    <3>2. ASSUME NEW x \in new, NEW y \in new, x[1] = y[1]  PROVE x = y
      BY <2>3, <3>2
    <3>3. ASSUME NEW x \in fired', NEW y \in fired', x # y, x[1] = y[1], x[3] = y[3]
          PROVE  x[2] # y[2] /\ (x[2] < y[2] => PeriodBegan(y[5], x[2], y[2]))
      <4>1. CASE x \in fired /\ y \in fired
        BY <3>3, <4>1 DEF FiringsBehind, OneFiringPerPeriod
      <4>2. CASE x \in fired /\ y \in new
        BY <2>3, <3>1, <3>3, <4>2
      <4>3. CASE x \in new /\ y \in fired
        <5>1. y[2] # x[2] /\ y[2] <= x[2] /\ y[3] = boots
          BY <2>3, <3>1, <3>3, <4>3
        <5>2. x[2] \in Int /\ y[2] \in Int
          BY <1>0, <2>3, <4>3, TimesAreNumbers
        <5> QED  BY <5>1, <5>2
      <4>4. CASE x \in new /\ y \in new
        BY <3>2, <3>3, <4>4
      <4> QED  BY <2>4, <3>3, <4>1, <4>2, <4>3, <4>4
    <3> QED  BY <3>3 DEF OneFiringPerPeriod
  <2> QED  BY <2>7, <2>9, <2>10 DEF FiringsBehind
<1> QED  BY <1>1, <1>2

-----------------------------------------------------------------------------
(* The invariant of the flow *)

(* All of it holds at first.                                               *)
LEMMA InitFlow == Init => FlowInv
<1> SUFFICES ASSUME Init PROVE FlowInv
  OBVIOUS
<1>1. /\ \A f \in Flushers : flush[f].pc = "idle" /\ flush[f].pc \notin Writing
      /\ \A p \in Posters : poster[p].pc = "idle"
      /\ fired = {} /\ acked = {} /\ ran = {} /\ exit = "none" /\ phase = "up"
      /\ sched.pc = "idle" /\ \A s \in Schedules : sched.last[s] = Never /\ stateFile[s] = Never
  BY DEF Init, FileInit, NoFlush, IdlePoster, IdleSched, Writing
<1>2. Present(Stored) = {}
  <2>1. Loaded({}, EmptyQueue) = EmptyQueue
    BY DEF Loaded, Readable
  <2>2. disk.file = {}
    BY DEF Init, FileInit
  <2> QED  BY <2>1, <2>2 DEF Stored, EmptyQueue, NoTask, Present
<1>3. Callings
  BY <1>1, Callers DEF Callings
<1>4. FiringsBehind
  BY <1>1 DEF FiringsBehind, OneFiringPerPeriod
<1>5. SoloFlush /\ \A f \in Flushers, q \in Queue : ~Writes(f, q)
  BY <1>1 DEF SoloFlush, Writing, Writes
<1>6. NothingDropped
  BY <1>2, <1>5 DEF NothingDropped
<1>7. AcksFollow
  BY <1>1, <1>5 DEF AcksFollow
<1>8. StateFollows
  BY <1>1 DEF StateFollows, FiredInto
<1>9. RunsFollow
  BY <1>1, <1>5 DEF RunsFollow
<1> QED  BY <1>3, <1>4, <1>5, <1>6, <1>7, <1>8, <1>9 DEF FlowInv, FileInv

(* It is inductive together with Inv.                                      *)
LEMMA NextFlow ==
  ASSUME Inv, FlowInv, [Next]_vars
  PROVE  FlowInv'
<1>1. TypeOK /\ Callings /\ FiringsBehind
  BY DEF Inv, FlowInv
<1>2. Callings'
  BY <1>1, CallingsKept
<1>3. FiringsBehind'
  BY <1>1, FiringsBehindKept
<1>4. ASSUME ~overlap'  PROVE FileInv'
  <2>1. FileInv
    BY <1>1, <1>4, MoreGrows DEF FlowInv
  <2>2. SoloFlush' /\ Flows
    BY <1>1, <1>4, <2>1, SoloStep DEF FileInv
  <2>3. NothingDropped'
    BY <1>1, <1>2, <2>1, <2>2, NothingDroppedKept DEF FileInv
  <2>4. AcksFollow'
    BY <1>1, <1>2, <2>1, <2>2, AcksFollowKept DEF FileInv
  <2>5. StateFollows'
    BY <1>1, <1>2, <2>1, <2>2, StateFollowsKept DEF FileInv
  <2>6. RunsFollow'
    BY <1>1, <1>2, <2>1, <2>2, RunsFollowKept DEF FileInv
  <2> QED  BY <2>2, <2>3, <2>4, <2>5, <2>6 DEF FileInv
<1> QED  BY <1>2, <1>3, <1>4 DEF FlowInv

(* And so it holds.                                                        *)
THEOREM FlowIsKept == Spec => []FlowInv
<1>1. Inv /\ FlowInv /\ [Next]_vars => FlowInv'
  BY NextFlow
<1> QED  BY <1>1, InitFlow, Invariance, PTL DEF Spec

(* A task whose POST was answered is in the file, while no two flushes     *)
(* have overlapped and no file-system call has failed (the handler awaits  *)
(* flush() before it answers 202).                                         *)
THEOREM AcksAreDurable == Spec => []AckedIsOnDisk
<1>1. FlowInv => AckedIsOnDisk
  BY DEF FlowInv, FileInv, AcksFollow, Stored, AckedIsOnDisk
<1> QED  BY <1>1, FlowIsKept, PTL

(* The state file records no firing whose task is not on disk (tick() of   *)
(* schedules.ts flushes the queue before the state), and one incarnation   *)
(* fires a schedule again only when a new period of the definition then in *)
(* force has begun, however schedules.json is edited between the ticks.    *)
THEOREM SchedulesAreSound == Spec => []SchedulesSound
<1>1. FlowInv => SchedulesSound
  <2>1. FlowInv => StateBehindQueue
    BY DEF FlowInv, FileInv, StateFollows, FiredInto, Stored, StateBehindQueue
  <2> QED  BY <2>1 DEF FlowInv, FiringsBehind, SchedulesSound
<1> QED  BY <1>1, FlowIsKept, PTL

(* A drain that has waited for the task in flight leaves nothing running   *)
(* in the file (inFlight() of worker.ts).                                  *)
THEOREM DrainIsClean == Spec => []DrainLeavesNothingRunning
<1>1. FlowInv => DrainLeavesNothingRunning
  BY DEF FlowInv, FileInv, RunsFollow, Stored, DrainLeavesNothingRunning
<1> QED  BY <1>1, FlowIsKept, PTL

(* A failed attempt is recorded for its own task only.                     *)
LEMMA FailedAttemptOthers ==
  \A q \in Queue : \A k, j \in Ids : j # k => FailedAttempt(q, k)[j] = q[j]
BY FailedAttemptType

(* So is the completion of a task.                                         *)
LEMMA CompletedOthers ==
  \A q \in Queue : \A k, j \in Ids : j # k => Completed(q, k)[j] = q[j]
BY DEF Completed, Queue

(* While the process lives, a task that is done stays done, unless the     *)
(* flush after complete() rejects (the catch block of tick()).             *)
THEOREM DoneIsKept == Spec => DoneStaysDone
<1> DEFINE Kept == \A i \in Ids :
             tasks[i].status = "done" /\ phase' # "down" =>
               \/ tasks'[i].status = "done"
               \/ worker.pc = "flush" /\ worker.task = i /\ FlushFails(Worker)
<1>1. Inv /\ [Next]_vars => Kept
  <2> SUFFICES ASSUME Inv, [Next]_vars, NEW i \in Ids,
                      tasks[i].status = "done", phase' # "down", tasks'[i].status # "done"
               PROVE  worker.pc = "flush" /\ worker.task = i /\ FlushFails(Worker)
    OBVIOUS
  <2>0. tasks \in Queue /\ i <= issued /\ issued \in Int /\ i \in Int
    <3>1. SoundRecord(tasks[i], i) /\ i \in Int
      BY MemoryRecords
    <3>2. issued \in Int
      BY MaxTasksAssumption DEF Inv, TypeOK
    <3> QED  BY <3>1, <3>2 DEF Inv, TypeOK, SoundRecord
  <2>1. ASSUME NEW p \in Posters, PostEnqueues(p)  PROVE FALSE
    <3>1. i \notin {issued + 1}
      BY <2>0
    <3> QED  BY <2>1, <3>1 DEF PostEnqueues, Enqueued
  <2>2. CASE SchedFires
    <3>1. PICK n : tasks' = Enqueued(tasks, issued + 1 .. issued + n, DefaultLimit)
      BY <2>2 DEF SchedFires
    <3>2. i \notin issued + 1 .. issued + n
      BY <2>0
    <3> QED  BY <3>1, <3>2 DEF Enqueued
  <2>3. ASSUME NEW j \in Ids, WorkerClaims(j)  PROVE FALSE
    <3>1. tasks' = Claimed(tasks, j) /\ i # j
      BY <2>3 DEF WorkerClaims, NextDue, Due
    <3> QED  BY <2>0, <3>1, ClaimedType
  <2>4. CASE RunAnswers \/ RunFails
    <3>1. /\ worker.pc = "run" /\ worker.task \in Ids
          /\ \/ tasks' = Completed(tasks, worker.task)
             \/ tasks' = FailedAttempt(tasks, worker.task)
      BY <2>4 DEF RunAnswers, RunFails, Inv, TypeOK
    <3>2. worker = [pc |-> "run", task |-> worker.task]
      BY <3>1 DEF Inv, TypeOK
    <3>3. tasks[worker.task].status = "running"
      BY <3>1, <3>2 DEF Inv, OneRunAtATime
    <3>4. i # worker.task
      BY <3>3
    <3>5. Completed(tasks, worker.task)[i] = tasks[i]
      BY <2>0, <3>1, <3>4, CompletedOthers
    <3>6. FailedAttempt(tasks, worker.task)[i] = tasks[i]
      BY <2>0, <3>1, <3>4, FailedAttemptOthers
    <3> QED  BY <3>1, <3>5, <3>6
  <2>5. CASE FlushTakenForFailure
    <3>1. /\ worker.pc = "flush" /\ worker.task \in Ids /\ FlushFails(Worker)
          /\ tasks' = FailedAttempt(tasks, worker.task)
      BY <2>5 DEF FlushTakenForFailure, FlushRejects, Inv, TypeOK
    <3>2. i # worker.task => FailedAttempt(tasks, worker.task)[i] = tasks[i]
      BY <2>0, <3>1, FailedAttemptOthers
    <3> QED  BY <3>1, <3>2
  <2>6. ASSUME NEW j \in Ids, BackoffElapses(j)  PROVE FALSE
    BY <2>0, <2>6, CooledType DEF BackoffElapses
  <2>7. ASSUME NEW how, ProcessEnds(how)  PROVE FALSE
    BY <2>7 DEF ProcessEnds
  <2>8. CASE Restart
    <3>1. tasks = EmptyQueue
      BY <2>8 DEF Restart, Inv, DownIsEmpty
    <3> QED  BY <3>1 DEF EmptyQueue, NoTask
  <2> QED  BY <2>1, <2>2, <2>3, <2>4, <2>5, <2>6, <2>7, <2>8, StepKinds DEF Changes
<1>2. Inv /\ [Next]_vars => [Kept]_vars
  BY <1>1
<1>3. DoneStaysDone <=> [][Kept]_vars
  BY DEF DoneStaysDone
<1> QED  BY <1>2, <1>3, Invariance, PTL DEF Spec
-----------------------------------------------------------------------------
(* What EveryTaskSettles rests on: the life of a task, and that nobody     *)
(* waits for a flush that is not there                                     *)

(* What a step may make of a record: claim() counts an attempt of a queued *)
(* task, complete() and fail() settle it or put it back, and the catch     *)
(* block may take back what complete() recorded.  fail() gives up what has *)
(* had its attempts, and nothing else; nothing leads on from "failed".     *)
Lives(t, u) ==
  \/ u.status = t.status /\ u.attempts = t.attempts /\ u.max = t.max
  \/ t.status = "absent" /\ u.status = "queued" /\ u.attempts = 0
  \/ /\ t.status = "queued" /\ u.status = "running"
     /\ u.attempts = t.attempts + 1 /\ u.max = t.max
  \/ /\ t.status = "running" /\ u.status = "done"
     /\ u.attempts = t.attempts /\ u.max = t.max
  \/ /\ t.status \in {"running", "done"}
     /\ u.status = IF t.attempts >= t.max THEN "failed" ELSE "queued"
     /\ u.attempts = t.attempts /\ u.max = t.max

(* While the process lives every record leads such a life: between two of  *)
(* its claims a task passes at most running, done and its end, so it is    *)
(* its attempts, bounded by AttemptsBounded, that it uses up.              *)
LifeOfTasks ==
  [][phase # "down" /\ phase' # "down" =>
       \A i \in Ids : Lives(tasks[i], tasks'[i])]_vars

(* A task that was put back by the tick that is still flushing has         *)
(* attempts left, so the catch block cannot give it up after all.          *)
PutBackFairly ==
  worker.pc = "flush" /\ tasks[worker.task].status = "queued" =>
    tasks[worker.task].attempts < tasks[worker.task].max

(* Who waits for a flush of its own.                                       *)
Awaits(f) ==
  \/ f = Worker /\ worker.pc \in {"flush", "lastFlush"}
  \/ f = Scheduler /\ sched.pc = "flush"
  \/ f \in Posters /\ poster[f].pc = "flush"

(* A flush is under way exactly while its caller waits for it, and it has  *)
(* a file open when it is to write.                                        *)
FlushesAwaited ==
  \A f \in Flushers : /\ Awaits(f) <=> flush[f].pc # "idle"
                      /\ flush[f].pc = "write" => flush[f].fd # "closed"

(* The guard of an internal step of f's flush, or of its end, one way or   *)
(* the other: a rename that finds no temporary file rejects.               *)
FlushMoves(f) ==
  \/ flush[f].pc \in {"mkdir", "open", "rename"}
  \/ flush[f].pc = "write" /\ flush[f].fd # "closed"

(* Whoever waits for a flush waits for one that can go on; and while a     *)
(* task is queued in a process that does not drain, its backoff can end,   *)
(* or an idle worker finds a task to claim, or the busy worker waits for a *)
(* run, a notification or such a flush.                                    *)
QueueGoesOn ==
  /\ \A f \in Flushers : Awaits(f) => FlushMoves(f)
  /\ \A i \in Ids : phase = "up" /\ tasks[i].status = "queued" =>
       \/ tasks[i].cooling
       \/ worker.pc = "idle" /\ Due(tasks) # {}
       \/ worker.pc \in {"run", "say"}
       \/ worker.pc \in {"flush", "lastFlush"} /\ FlushMoves(Worker)

(* New tasks were not there before.                                        *)
LEMMA EnqueuedLives ==
  ASSUME Inv, NEW n \in Nat, NEW m,
         tasks' = Enqueued(tasks, issued + 1 .. issued + n, m)
  PROVE  \A i \in Ids : \/ tasks'[i] = tasks[i]
                        \/ tasks[i].status = "absent" /\ tasks'[i] = NewTask(m)
<1> SUFFICES ASSUME NEW i \in Ids, i \in issued + 1 .. issued + n
             PROVE  tasks[i].status = "absent" /\ tasks'[i] = NewTask(m)
  BY DEF Enqueued
<1>1. issued \in Int /\ i \in Int /\ SoundRecord(tasks[i], i)
  BY MemoryRecords, MaxTasksAssumption DEF Inv, TypeOK
<1>2. i > issued
  BY <1>1
<1>3. tasks[i].status = "absent"
  BY <1>1, <1>2 DEF SoundRecord
<1> QED  BY <1>3 DEF Enqueued

(* What fail() makes of the task of the tick.                              *)
LEMMA FailedLives ==
  ASSUME Inv, NEW w \in Ids, tasks' = FailedAttempt(tasks, w),
         \/ tasks[w].status \in {"running", "done", "failed"}
         \/ tasks[w].status = "queued" /\ tasks[w].attempts < tasks[w].max
  PROVE  /\ \A i \in Ids : Lives(tasks[i], tasks'[i])
         /\ tasks'[w].status = "queued" => tasks'[w].attempts < tasks'[w].max
<1>1. tasks \in Queue /\ tasks[w].attempts \in Int /\ tasks[w].max \in Int
  BY MemoryRecords DEF Inv, TypeOK
<1>2. /\ \A j \in Ids \ {w} : tasks'[j] = tasks[j]
      /\ tasks'[w].attempts = tasks[w].attempts /\ tasks'[w].max = tasks[w].max
      /\ tasks'[w].status = IF tasks[w].attempts >= tasks[w].max THEN "failed" ELSE "queued"
  BY <1>1, FailedAttemptType
<1>3. tasks[w].status = "failed" => tasks[w].attempts >= tasks[w].max
  <2>1. SoundRecord(tasks[w], w)
    BY MemoryRecords
  <2> QED  BY <1>1, <2>1 DEF SoundRecord
<1>4. tasks[w].status = "queued" => ~(tasks[w].attempts >= tasks[w].max)
  BY <1>1
<1>5. Lives(tasks[w], tasks'[w])
  BY <1>2, <1>3, <1>4 DEF Lives
<1>6. \A j \in Ids \ {w} : Lives(tasks[j], tasks'[j])
  BY <1>2 DEF Lives
<1>7. tasks'[w].status = "queued" => tasks'[w].attempts < tasks'[w].max
  BY <1>1, <1>2
<1> QED  BY <1>5, <1>6, <1>7

(* A step that leaves the records as they are, but for their backoff.      *)
LEMMA SameLives ==
  ASSUME PutBackFairly, worker'.pc = "flush" => worker' = worker /\ worker.task \in Ids,
         \A i \in Ids : /\ tasks'[i].status = tasks[i].status
                        /\ tasks'[i].attempts = tasks[i].attempts
                        /\ tasks'[i].max = tasks[i].max
  PROVE  (\A i \in Ids : Lives(tasks[i], tasks'[i])) /\ PutBackFairly'
<1>1. \A i \in Ids : Lives(tasks[i], tasks'[i])
  BY DEF Lives
<1>2. PutBackFairly'
  BY DEF PutBackFairly
<1> QED  BY <1>1, <1>2

(* Every step of a process that lives is a step in the life of its tasks.  *)
LEMMA NextLives ==
  ASSUME Inv, PutBackFairly, [Next]_vars
  PROVE  /\ phase # "down" /\ phase' # "down" => \A i \in Ids : Lives(tasks[i], tasks'[i])
         /\ PutBackFairly'
<1> DEFINE Fine == (\A i \in Ids : Lives(tasks[i], tasks'[i])) /\ PutBackFairly'
<1>0. /\ tasks \in Queue
      /\ worker.pc # "idle" => worker.task \in Ids /\ tasks[worker.task].status # "absent"
  BY DEF Inv, TypeOK, WorkerHasTask
<1>1. ASSUME NEW n \in Nat, NEW m, worker' = worker,
             tasks' = Enqueued(tasks, issued + 1 .. issued + n, m)
      PROVE  Fine
  <2>1. \A i \in Ids : tasks'[i] = tasks[i]
                       \/ (tasks[i].status = "absent" /\ tasks'[i] = NewTask(m))
    BY <1>1, EnqueuedLives
  <2>2. \A i \in Ids : Lives(tasks[i], tasks'[i])
    BY <2>1 DEF Lives, NewTask
  <2>3. worker.pc = "flush" => tasks'[worker.task] = tasks[worker.task]
    BY <1>0, <2>1
  <2>4. PutBackFairly'
    BY <1>1, <2>3 DEF PutBackFairly
  <2> QED  BY <2>2, <2>4
<1>2. ASSUME NEW p \in Posters, PostEnqueues(p)  PROVE Fine
  <2>1. PICK m \in AttemptLimits : tasks' = Enqueued(tasks, {issued + 1}, m)
    BY <1>2 DEF PostEnqueues
  <2>2. {issued + 1} = issued + 1 .. issued + 1 /\ worker' = worker
    BY <1>2, MaxTasksAssumption DEF PostEnqueues, Inv, TypeOK
  <2> QED  BY <1>1, <2>1, <2>2
<1>3. ASSUME SchedFires  PROVE Fine
  <2>1. PICK due \in SUBSET Schedules :
          tasks' = Enqueued(tasks, issued + 1 .. issued + Cardinality(due), DefaultLimit)
    BY <1>3, FiringIssues
  <2>2. Cardinality(due) \in Nat /\ worker' = worker
    <3>1. IsFiniteSet(due)
      BY SchedulesAssumption, FS_Subset
    <3> QED  BY <1>3, <3>1, FS_CardinalityType DEF SchedFires
  <2> QED  BY <1>1, <2>1, <2>2
<1>4. ASSUME NEW i \in Ids, WorkerClaims(i)  PROVE Fine
  <2>1. /\ tasks' = Claimed(tasks, i) /\ worker'.pc = "run" /\ tasks[i].status = "queued"
    BY <1>4 DEF WorkerClaims, NextDue, Due
  <2>2. /\ \A j \in Ids \ {i} : tasks'[j] = tasks[j]
        /\ tasks'[i].status = "running" /\ tasks'[i].attempts = tasks[i].attempts + 1
        /\ tasks'[i].max = tasks[i].max
    BY <1>0, <2>1, ClaimedType
  <2>3. Lives(tasks[i], tasks'[i])
    BY <2>1, <2>2 DEF Lives
  <2>4. \A j \in Ids \ {i} : Lives(tasks[j], tasks'[j])
    BY <2>2 DEF Lives
  <2>5. PutBackFairly'
    BY <2>1 DEF PutBackFairly
  <2> QED  BY <2>3, <2>4, <2>5
<1>5. ASSUME worker.pc = "run"
      PROVE  worker.task \in Ids /\ tasks[worker.task].status = "running"
  <2>1. worker = [pc |-> "run", task |-> worker.task] /\ worker.task \in Ids
    BY <1>0, <1>5 DEF Inv, TypeOK
  <2> QED  BY <2>1 DEF Inv, OneRunAtATime
<1>6. ASSUME RunAnswers  PROVE Fine
  <2>1. /\ worker.pc = "run" /\ tasks' = Completed(tasks, worker.task)
        /\ worker' = [worker EXCEPT !.pc = "flush"]
    BY <1>6 DEF RunAnswers
  <2>2. worker'.task = worker.task
    BY <2>1 DEF Inv, TypeOK
  <2> DEFINE w == worker.task
  <2>3. w \in Ids /\ tasks[w].status = "running" /\ tasks[w] \in Task
    BY <1>0, <1>5, <2>1 DEF Queue
  <2> HIDE DEF w
  <2>4. \A j \in Ids : tasks'[j] = IF j = w THEN [tasks[w] EXCEPT !.status = "done"]
                                 ELSE tasks[j]
    BY <1>0, <2>1, <2>3, CompletedType DEF w
  <2>5. /\ tasks'[w].status = "done" /\ tasks'[w].attempts = tasks[w].attempts
        /\ tasks'[w].max = tasks[w].max
    BY <2>3, <2>4 DEF Task
  <2>6. Lives(tasks[w], tasks'[w])
    BY <2>3, <2>5 DEF Lives
  <2>7. \A j \in Ids \ {w} : Lives(tasks[j], tasks'[j])
    BY <2>4 DEF Lives
  <2>8. PutBackFairly'
    BY <2>2, <2>5 DEF PutBackFairly, w
  <2> QED  BY <2>6, <2>7, <2>8
<1>7. ASSUME RunFails \/ FlushTakenForFailure  PROVE Fine
  <2>1. /\ worker.pc \in {"run", "flush"} /\ tasks' = FailedAttempt(tasks, worker.task)
        /\ worker'.task = worker.task
    BY <1>7 DEF RunFails, FlushTakenForFailure, Inv, TypeOK
  <2> DEFINE w == worker.task
  <2>2. w \in Ids /\ tasks[w].status \in {"queued", "running", "done", "failed"}
    BY <1>0, <2>1 DEF Queue, Task, Statuses
  <2>3. tasks[w].status = "queued" => tasks[w].attempts < tasks[w].max
    BY <1>5, <2>1 DEF PutBackFairly
  <2>4. /\ \A i \in Ids : Lives(tasks[i], tasks'[i])
        /\ tasks'[w].status = "queued" => tasks'[w].attempts < tasks'[w].max
    BY <2>1, <2>2, <2>3, FailedLives
  <2>5. PutBackFairly'
    BY <2>1, <2>4 DEF PutBackFairly
  <2> QED  BY <2>4, <2>5
<1>8. ASSUME NEW i \in Ids, BackoffElapses(i)  PROVE Fine
  <2>1. tasks' = Cooled(tasks, i) /\ worker' = worker
    BY <1>8 DEF BackoffElapses
  <2>2. \A j \in Ids : /\ tasks'[j].status = tasks[j].status
                       /\ tasks'[j].attempts = tasks[j].attempts
                       /\ tasks'[j].max = tasks[j].max
    BY <1>0, <2>1, CooledType
  <2>3. worker'.pc = "flush" => worker' = worker /\ worker.task \in Ids
    BY <1>0, <2>1
  <2> QED  BY <2>2, <2>3, SameLives
<1>9. ASSUME NEW how, ProcessEnds(how)  PROVE phase' = "down" /\ PutBackFairly'
  BY <1>9 DEF ProcessEnds, IdleWorker, PutBackFairly
<1>10. ASSUME Restart  PROVE phase = "down" /\ PutBackFairly'
  BY <1>10 DEF Restart, Inv, DownIsEmpty, IdleWorker, PutBackFairly
<1>11. ASSUME tasks' = tasks,
              \/ worker' = worker
              \/ worker.pc # "run" /\ worker' = IdleWorker
              \/ worker.pc \in {"flush", "lastFlush"} /\ worker' = [worker EXCEPT !.pc = "say"]
       PROVE  Fine
  <2>1. worker'.pc = "flush" => worker' = worker /\ worker.task \in Ids
    BY <1>0, <1>11 DEF IdleWorker, Inv, TypeOK
  <2>2. \A j \in Ids : /\ tasks'[j].status = tasks[j].status
                       /\ tasks'[j].attempts = tasks[j].attempts
                       /\ tasks'[j].max = tasks[j].max
    BY <1>11
  <2> QED  BY <2>1, <2>2, SameLives
<1> HIDE DEF Fine
<1>12. Fine \/ ((phase = "down" \/ phase' = "down") /\ PutBackFairly')
  <2>1. ASSUME Changes
        PROVE  Fine \/ ((phase = "down" \/ phase' = "down") /\ PutBackFairly')
    <3>1. CASE \/ \E p \in Posters : PostEnqueues(p)
               \/ SchedFires
               \/ \E i \in Ids : WorkerClaims(i) \/ BackoffElapses(i)
               \/ RunAnswers \/ RunFails \/ FlushTakenForFailure
      BY <1>2, <1>3, <1>4, <1>6, <1>7, <1>8, <3>1
    <3>2. CASE Restart \/ \E how \in {"drained", "timeout", "died"} : ProcessEnds(how)
      BY <1>9, <1>10, <3>2
    <3> QED  BY <2>1, <3>1, <3>2 DEF Changes
  <2>2. \/ Changes
        \/ /\ tasks' = tasks
           /\ \/ worker' = worker
              \/ worker.pc # "run" /\ worker' = IdleWorker
              \/ worker.pc \in {"flush", "lastFlush"} /\ worker' = [worker EXCEPT !.pc = "say"]
    BY StepKinds
  <2> QED  BY <1>11, <2>1, <2>2
<1> QED  BY <1>12 DEF Fine

(* While the process lives a task goes from its claims to its end, and     *)
(* nothing but complete() and fail() of the tick that runs it, or the      *)
(* catch block, settles it: no task comes back from "failed", none loses   *)
(* or gains an attempt but by a claim (worker.ts, queue.ts).               *)
THEOREM TasksLive == Spec => LifeOfTasks
<1> DEFINE Live == phase # "down" /\ phase' # "down" =>
                     \A i \in Ids : Lives(tasks[i], tasks'[i])
<1>1. Init => PutBackFairly
  BY DEF Init, IdleWorker, PutBackFairly
<1>2. Inv /\ PutBackFairly /\ [Next]_vars => PutBackFairly' /\ Live
  BY NextLives
<1>3. Inv /\ PutBackFairly /\ [Next]_vars => PutBackFairly' /\ [Live]_vars
  BY <1>2
<1>4. LifeOfTasks <=> [][Live]_vars
  BY DEF LifeOfTasks
<1> HIDE DEF Live
<1> QED  BY <1>1, <1>3, <1>4, Invariance, PTL DEF Spec
(* What a caller of flush() does to the flushes: all but its own are where *)
(* they were, and a descriptor that was open still is.                     *)
LEMMA CallerSteps ==
  ASSUME TypeOK, NEW f \in Flushers,
         \/ CallFlush(f) \/ FlushReturns(f)
         \/ FlushRejects(f, NoFlush) \/ FlushRejects(f, NewFlush)
         \/ FlushStep(f, tasks)
  PROVE  \A g \in Flushers \ {f} :
           flush'[g].pc = flush[g].pc /\ (flush[g].fd # "closed" => flush'[g].fd # "closed")
<1> SUFFICES ASSUME NEW g \in Flushers \ {f}
             PROVE  /\ flush'[g].pc = flush[g].pc
                    /\ flush[g].fd # "closed" => flush'[g].fd # "closed"
  OBVIOUS
<1>0. flush[g] \in FlushType(Queue)
  BY DEF TypeOK, FileTypeOK
<1>1. CASE FlushStep(f, tasks)
  <2>1. \E r : flush' = [flush EXCEPT ![f] = r]
    <3>1. CASE FlushWrite(f)
      BY <3>1, Zenon DEF FlushWrite
    <3> QED  BY <1>1, <3>1 DEF FlushStep, FlushSnapshot, FlushOpen
  <2> QED  BY <2>1 DEF TypeOK, FileTypeOK
<1>2. CASE FlushReturns(f)
  <2>1. flush'[g] = [flush[g] EXCEPT !.fd = CASE @ = "tmp" -> "file"
                                              [] @ = "file" -> "gone"
                                              [] OTHER -> @]
    BY <1>2 DEF FlushReturns
  <2>2. flush[g].fd \in {"closed", "tmp", "file", "gone"}
    BY <1>0 DEF FlushType
  <2> QED  BY <1>0, <2>1, <2>2 DEF FlushType
<1>3. CASE CallFlush(f) \/ FlushRejects(f, NoFlush) \/ FlushRejects(f, NewFlush)
  <2>1. \E r : flush' = [flush EXCEPT ![f] = r]
    BY <1>3 DEF CallFlush, FlushRejects
  <2> QED  BY <2>1 DEF TypeOK, FileTypeOK
<1> QED  BY <1>1, <1>2, <1>3

(* A caller that starts to wait has called flush(), and one whose flush is *)
(* over goes on.                                                           *)
LEMMA OwnSteps ==
  ASSUME TypeOK, NEW f \in Flushers
  PROVE  /\ CallFlush(f) \/ FlushRejects(f, NewFlush) => flush'[f].pc = "mkdir"
         /\ FlushReturns(f) \/ FlushRejects(f, NoFlush) => flush'[f].pc = "idle"
         /\ FlushStep(f, tasks) =>
              /\ flush[f].pc # "idle" /\ flush'[f].pc # "idle"
              /\ flush'[f].pc = "write" => flush'[f].fd # "closed"
<1>0. flush \in [Flushers -> FlushType(Queue)] /\ flush[f] \in FlushType(Queue)
  BY DEF TypeOK, FileTypeOK
<1>1. CallFlush(f) \/ FlushRejects(f, NewFlush) => flush'[f].pc = "mkdir"
  BY <1>0 DEF CallFlush, FlushRejects, NewFlush
<1>2. FlushReturns(f) \/ FlushRejects(f, NoFlush) => flush'[f].pc = "idle"
  BY <1>0 DEF FlushReturns, FlushRejects, NoFlush
<1>3. ASSUME FlushSnapshot(f, tasks)
      PROVE  flush[f].pc = "mkdir" /\ flush'[f].pc = "open"
  <2>1. flush[f].pc = "mkdir"
        /\ flush' = [flush EXCEPT ![f] = [@ EXCEPT !.pc = "open", !.snap = {tasks}]]
    BY <1>3 DEF FlushSnapshot
  <2> QED  BY <1>0, <2>1 DEF FlushType
<1>4. ASSUME FlushOpen(f)
      PROVE  flush[f].pc = "open" /\ flush'[f].pc = "write" /\ flush'[f].fd = "tmp"
  BY <1>0, <1>4 DEF FlushOpen, FlushType
<1>5. ASSUME FlushWrite(f)
      PROVE  flush[f].pc = "write" /\ flush'[f].pc = "rename"
  <2>1. flush[f].pc = "write"
        /\ flush' = [flush EXCEPT ![f] = [@ EXCEPT !.pc = "rename", !.fd = "closed"]]
    BY <1>5, Zenon DEF FlushWrite
  <2> QED  BY <1>0, <2>1 DEF FlushType
<1> QED  BY <1>1, <1>2, <1>3, <1>4, <1>5 DEF FlushStep

(* The step of caller f: it keeps FlushesAwaited if it does so for f and   *)
(* nobody else starts or ceases to wait.                                   *)
LEMMA OneAwaits ==
  ASSUME TypeOK, FlushesAwaited, NEW f \in Flushers,
         \/ CallFlush(f) \/ FlushReturns(f)
         \/ FlushRejects(f, NoFlush) \/ FlushRejects(f, NewFlush)
         \/ FlushStep(f, tasks),
         \A g \in Flushers \ {f} : Awaits(g)' <=> Awaits(g),
         CallFlush(f) \/ FlushRejects(f, NewFlush) => Awaits(f)',
         FlushReturns(f) \/ FlushRejects(f, NoFlush) => ~Awaits(f)',
         FlushStep(f, tasks) => (Awaits(f)' <=> Awaits(f))
  PROVE  FlushesAwaited'
<1>1. ASSUME NEW g \in Flushers \ {f}
      PROVE  /\ Awaits(g)' <=> flush'[g].pc # "idle"
             /\ flush'[g].pc = "write" => flush'[g].fd # "closed"
  <2>1. flush'[g].pc = flush[g].pc /\ (flush[g].fd # "closed" => flush'[g].fd # "closed")
    BY CallerSteps
  <2> QED  BY <2>1 DEF FlushesAwaited
<1>2. /\ Awaits(f)' <=> flush'[f].pc # "idle"
      /\ flush'[f].pc = "write" => flush'[f].fd # "closed"
  <2>1. CASE CallFlush(f) \/ FlushRejects(f, NewFlush)
    BY <2>1, OwnSteps
  <2>2. CASE FlushReturns(f) \/ FlushRejects(f, NoFlush)
    BY <2>2, OwnSteps
  <2>3. CASE FlushStep(f, tasks)
    BY <2>3, OwnSteps DEF FlushesAwaited
  <2> QED  BY <2>1, <2>2, <2>3
<1>3. \A g \in Flushers : /\ Awaits(g)' <=> flush'[g].pc # "idle"
                          /\ flush'[g].pc = "write" => flush'[g].fd # "closed"
  BY <1>1, <1>2
<1> QED  BY <1>3 DEF FlushesAwaited

(* A step that is about no flush.                                          *)
LEMMA NoneAwaits ==
  ASSUME FlushesAwaited, flush' = flush, \A g \in Flushers : Awaits(g)' <=> Awaits(g)
  PROVE  FlushesAwaited'
<1>1. \A g \in Flushers : /\ Awaits(g)' <=> flush'[g].pc # "idle"
                          /\ flush'[g].pc = "write" => flush'[g].fd # "closed"
  BY DEF FlushesAwaited
<1> QED  BY <1>1 DEF FlushesAwaited

(* A request's step.                                                       *)
LEMMA PosterAwaits ==
  ASSUME TypeOK, FlushesAwaited, NEW p \in Posters, PosterNext(p)
  PROVE  FlushesAwaited'
<1>0. /\ p \in Flushers /\ p # Worker /\ p # Scheduler
      /\ poster \in [Posters -> [pc : {"idle", "body", "flush"}, task : Nat]]
  BY CallersAssumption DEF TypeOK
<1>1. worker' = worker /\ sched' = sched /\ \A q \in Posters \ {p} : poster'[q] = poster[q]
  BY <1>0 DEF PosterNext, PostArrives, PostEnqueues, PostRefused, PostAnswered
<1>2. \A g \in Flushers \ {p} : Awaits(g)' <=> Awaits(g)
  BY <1>1 DEF Awaits
<1>3. Awaits(p)' <=> poster'[p].pc = "flush"
  BY <1>0 DEF Awaits
<1>4. CASE PostArrives(p) \/ PostRefused(p)
  <2>1. flush' = flush /\ poster[p].pc # "flush" /\ poster'[p].pc # "flush"
    BY <1>0, <1>4 DEF PostArrives, PostRefused, IdlePoster, fileVars
  <2>2. ~Awaits(p) /\ ~Awaits(p)'
    BY <1>0, <2>1 DEF Awaits
  <2> QED  BY <1>2, <2>1, <2>2, NoneAwaits
<1>5. CASE PostEnqueues(p)
  <2>1. CallFlush(p) /\ poster'[p].pc = "flush"
    BY <1>0, <1>5 DEF PostEnqueues
  <2>2. flush'[p].pc = "mkdir"
    BY <1>0, <2>1, OwnSteps
  <2>3. ~(FlushReturns(p) \/ FlushRejects(p, NoFlush))
    BY <1>0, <2>2, OwnSteps
  <2>4. ~FlushStep(p, tasks) \/ Awaits(p)
    BY <1>0, OwnSteps DEF FlushesAwaited
  <2> QED  BY <1>0, <1>2, <1>3, <2>1, <2>3, <2>4, OneAwaits
<1>6. CASE PostAnswered(p)
  <2>1. /\ FlushReturns(p) \/ FlushRejects(p, NoFlush)
        /\ poster'[p].pc = "idle"
    BY <1>0, <1>6 DEF PostAnswered, IdlePoster
  <2>2. flush'[p].pc = "idle"
    BY <1>0, <2>1, OwnSteps
  <2>3. ~(CallFlush(p) \/ FlushRejects(p, NewFlush)) /\ ~FlushStep(p, tasks)
    BY <1>0, <2>2, OwnSteps
  <2> QED  BY <1>0, <1>2, <1>3, <2>1, <2>3, OneAwaits
<1> QED  BY <1>4, <1>5, <1>6 DEF PosterNext

(* A process that has ended has no flush, and nobody who waits for one.    *)
LEMMA EndAwaits ==
  ASSUME NEW how, ProcessEnds(how)
  PROVE  FlushesAwaited'
<1>1. \A g \in Flushers : flush'[g].pc = "idle" /\ ~Awaits(g)'
  BY DEF ProcessEnds, FlushesDie, NoFlush, IdleWorker, IdlePoster, IdleSched, Awaits
<1>2. \A g \in Flushers : /\ Awaits(g)' <=> flush'[g].pc # "idle"
                          /\ flush'[g].pc = "write" => flush'[g].fd # "closed"
  BY <1>1
<1> QED  BY <1>2 DEF FlushesAwaited

(* A step of the worker.                                                   *)
LEMMA WorkerAwaits ==
  ASSUME TypeOK, FlushesAwaited, WorkerNext
  PROVE  FlushesAwaited'
<1>0. /\ Worker \in Flushers /\ Worker # Scheduler /\ Worker \notin Posters
      /\ worker \in [pc : {"idle", "run", "flush", "lastFlush", "say"}, task : Nat]
  BY CallersAssumption DEF TypeOK
<1>1. CASE UnhandledRejection
  BY <1>1, EndAwaits DEF UnhandledRejection
<1>2. ASSUME ~UnhandledRejection
      PROVE  /\ sched' = sched /\ poster' = poster
             /\ \A g \in Flushers \ {Worker} : Awaits(g)' <=> Awaits(g)
             /\ Awaits(Worker)' <=> worker'.pc \in {"flush", "lastFlush"}
  <2>1. sched' = sched /\ poster' = poster
    BY <1>2 DEF WorkerNext, WorkerClaims, RunAnswers, RunFails, WorkerFlushed,
                FlushTakenForFailure, Said
  <2> QED  BY <1>0, <2>1 DEF Awaits
<1>3. CASE ~UnhandledRejection /\ (Said \/ \E i \in Ids : WorkerClaims(i))
  <2>1. /\ flush' = flush /\ worker.pc \notin {"flush", "lastFlush"}
        /\ worker'.pc \notin {"flush", "lastFlush"}
    BY <1>0, <1>3 DEF Said, WorkerClaims, IdleWorker, fileVars
  <2>2. ~Awaits(Worker) /\ ~Awaits(Worker)'
    BY <1>0, <2>1 DEF Awaits
  <2> QED  BY <1>2, <1>3, <2>1, <2>2, NoneAwaits
<1>4. CASE ~UnhandledRejection /\ (RunAnswers \/ RunFails \/ FlushTakenForFailure)
  <2>1. /\ CallFlush(Worker) \/ FlushRejects(Worker, NewFlush)
        /\ worker'.pc \in {"flush", "lastFlush"}
    BY <1>0, <1>4 DEF RunAnswers, RunFails, FlushTakenForFailure
  <2>2. ~(FlushReturns(Worker) \/ FlushRejects(Worker, NoFlush))
    BY <1>0, <2>1, OwnSteps
  <2>3. ~FlushStep(Worker, tasks) \/ Awaits(Worker)
    BY <1>0, OwnSteps DEF FlushesAwaited
  <2>4. Awaits(Worker)'
    BY <1>0, <2>1 DEF Awaits
  <2> QED  BY <1>0, <1>2, <1>4, <2>1, <2>2, <2>3, <2>4, OneAwaits
<1>5. CASE ~UnhandledRejection /\ WorkerFlushed
  <2>1. FlushReturns(Worker) /\ worker'.pc = "say"
    BY <1>0, <1>5 DEF WorkerFlushed
  <2>2. ~(CallFlush(Worker) \/ FlushRejects(Worker, NewFlush)) /\ ~FlushStep(Worker, tasks)
    BY <1>0, <2>1, OwnSteps
  <2>3. ~Awaits(Worker)'
    BY <1>0, <2>1 DEF Awaits
  <2> QED  BY <1>0, <1>2, <1>5, <2>1, <2>2, <2>3, OneAwaits
<1> QED  BY <1>1, <1>3, <1>4, <1>5 DEF WorkerNext

(* A step of the schedules' tick.                                          *)
LEMMA SchedAwaits ==
  ASSUME TypeOK, FlushesAwaited, SchedNext
  PROVE  FlushesAwaited'
<1>0. /\ Scheduler \in Flushers /\ Worker # Scheduler /\ Scheduler \notin Posters
      /\ sched \in [pc : {"idle", "read", "flush", "state"}, loaded : BOOLEAN,
                    last : [Schedules -> Times \union {Never}]]
  BY CallersAssumption DEF TypeOK
<1>1. worker' = worker /\ poster' = poster
  BY DEF SchedNext, SchedTicks, SchedFires, SchedFlushed, SchedFlushRejects, SchedSaves
<1>2. /\ \A g \in Flushers \ {Scheduler} : Awaits(g)' <=> Awaits(g)
      /\ Awaits(Scheduler) <=> sched.pc = "flush"
      /\ Awaits(Scheduler)' <=> sched'.pc = "flush"
  BY <1>0, <1>1 DEF Awaits
<1>3. ASSUME flush' = flush, sched.pc # "flush", sched'.pc # "flush"
      PROVE  FlushesAwaited'
  <2>1. \A g \in Flushers : Awaits(g)' <=> Awaits(g)
    BY <1>2, <1>3
  <2> QED  BY <1>3, <2>1, NoneAwaits
<1>4. ASSUME CallFlush(Scheduler), sched'.pc = "flush"
      PROVE  FlushesAwaited'
  <2>1. ~(FlushReturns(Scheduler) \/ FlushRejects(Scheduler, NoFlush))
    BY <1>0, <1>4, OwnSteps
  <2>2. ~FlushStep(Scheduler, tasks) \/ Awaits(Scheduler)
    BY <1>0, OwnSteps DEF FlushesAwaited
  <2> QED  BY <1>0, <1>2, <1>4, <2>1, <2>2, OneAwaits
<1>5. ASSUME FlushReturns(Scheduler) \/ FlushRejects(Scheduler, NoFlush), sched'.pc # "flush"
      PROVE  FlushesAwaited'
  <2>1. /\ ~(CallFlush(Scheduler) \/ FlushRejects(Scheduler, NewFlush))
        /\ ~FlushStep(Scheduler, tasks)
    BY <1>0, <1>5, OwnSteps
  <2> QED  BY <1>0, <1>2, <1>5, <2>1, OneAwaits
<1>6. CASE SchedTicks \/ SchedSaves
  <2>1. flush' = flush /\ sched.pc # "flush" /\ sched'.pc # "flush"
    BY <1>0, <1>6 DEF SchedTicks, SchedSaves, fileVars
  <2> QED  BY <1>3, <2>1
<1>7. CASE SchedFires
  <2>1. PICK due \in SUBSET Schedules :
          /\ sched'.pc = IF due = {} THEN "idle" ELSE "flush"
          /\ IF due = {} THEN UNCHANGED fileVars ELSE CallFlush(Scheduler)
    BY <1>7 DEF SchedFires
  <2>2. sched.pc = "read"
    BY <1>7 DEF SchedFires
  <2>3. CASE due = {}
    <3>1. flush' = flush /\ sched.pc # "flush" /\ sched'.pc # "flush"
      BY <2>1, <2>2, <2>3 DEF fileVars
    <3> QED  BY <1>3, <3>1
  <2>4. CASE due # {}
    BY <1>4, <2>1, <2>4
  <2> QED  BY <2>3, <2>4
<1>8. CASE SchedFlushed \/ SchedFlushRejects
  <2>1. /\ FlushReturns(Scheduler) \/ FlushRejects(Scheduler, NoFlush)
        /\ sched'.pc \in {"state", "idle"}
    BY <1>0, <1>8 DEF SchedFlushed, SchedFlushRejects
  <2> QED  BY <1>5, <2>1
<1> QED  BY <1>6, <1>7, <1>8 DEF SchedNext

(* Every step: a flush that is under way is waited for, and the other way  *)
(* round.                                                                  *)
LEMMA NextAwaits ==
  ASSUME TypeOK, FlushesAwaited, [Next]_vars
  PROVE  FlushesAwaited'
<1>1. ASSUME NEW f \in Flushers, FlushGoesOn(f)  PROVE FlushesAwaited'
  <2>1. FlushStep(f, tasks) /\ UNCHANGED <<worker, sched, poster>>
    BY <1>1 DEF FlushGoesOn, procVars
  <2>2. \A g \in Flushers : Awaits(g)' <=> Awaits(g)
    BY <2>1 DEF Awaits
  <2>3. Awaits(f)
    BY <2>1, OwnSteps DEF FlushesAwaited
  <2>4. ~(FlushReturns(f) \/ FlushRejects(f, NoFlush))
    BY <2>1, OwnSteps
  <2> QED  BY <2>1, <2>2, <2>3, <2>4, OneAwaits
<1>2. CASE \/ \E i \in Ids : BackoffElapses(i)
           \/ TimePasses \/ DrainBegins \/ Restart \/ UNCHANGED vars
  <2>1. flush' = flush /\ UNCHANGED <<worker, sched, poster>>
    BY <1>2 DEF BackoffElapses, TimePasses, DrainBegins, Restart, procVars, fileVars, vars
  <2>2. \A g \in Flushers : Awaits(g)' <=> Awaits(g)
    BY <2>1 DEF Awaits
  <2> QED  BY <2>1, <2>2, NoneAwaits
<1>3. CASE Crash \/ DrainEnds
  BY <1>3, EndAwaits DEF Crash, DrainEnds
<1> QED  BY <1>1, <1>2, <1>3, PosterAwaits, WorkerAwaits, SchedAwaits DEF Next

(* Nobody waits for a flush that is not there, none of the flushes under   *)
(* way is without its next step, and a queued task is held up by its       *)
(* backoff, by another that can be claimed, or by a tick that goes on: the *)
(* daemon's awaits cannot lock each other out.  What is left of the        *)
(* argument for EveryTaskSettles is the fairness of these steps.           *)
THEOREM QueueNeverStuck == Spec => []QueueGoesOn
<1>1. Init => FlushesAwaited
  <2> SUFFICES ASSUME Init PROVE FlushesAwaited
    OBVIOUS
  <2>1. \A f \in Flushers : flush[f].pc = "idle" /\ ~Awaits(f)
    BY DEF Init, FileInit, NoFlush, IdleWorker, IdlePoster, IdleSched, Awaits
  <2> QED  BY <2>1 DEF FlushesAwaited
<1>2. TypeOK /\ FlushesAwaited /\ [Next]_vars => FlushesAwaited'
  BY NextAwaits
<1>3. TypeOK /\ FlushesAwaited => QueueGoesOn
  <2> SUFFICES ASSUME TypeOK, FlushesAwaited PROVE QueueGoesOn
    OBVIOUS
  <2>1. ASSUME NEW f \in Flushers, Awaits(f)  PROVE FlushMoves(f)
    <3>1. flush[f].pc \in {"mkdir", "open", "write", "rename"}
      BY <2>1 DEF FlushesAwaited, TypeOK, FileTypeOK, FlushType, Writing
    <3> QED  BY <3>1 DEF FlushesAwaited, FlushMoves
  <2>2. ASSUME NEW i \in Ids, phase = "up", tasks[i].status = "queued", ~tasks[i].cooling
        PROVE  \/ worker.pc = "idle" /\ Due(tasks) # {}
               \/ worker.pc \in {"run", "say"}
               \/ worker.pc \in {"flush", "lastFlush"} /\ FlushMoves(Worker)
    <3>1. i \in Due(tasks)
      BY <2>2 DEF Due
    <3>2. worker.pc \in {"idle", "run", "flush", "lastFlush", "say"}
      BY DEF TypeOK
    <3>3. worker.pc \in {"flush", "lastFlush"} => FlushMoves(Worker)
      BY <2>1, Callers DEF Awaits
    <3> QED  BY <3>1, <3>2, <3>3
  <2> QED  BY <2>1, <2>2 DEF QueueGoesOn
<1> QED  BY <1>1, <1>2, <1>3, TypeCorrect, PTL DEF Spec
=============================================================================
