----------------------------- MODULE TaskQueue -----------------------------
(***************************************************************************)
(* The data and the synchronous mutators of the daemon's persistent queue  *)
(* (class TaskQueue of src/daemon/queue.ts): enqueue, claim, complete,     *)
(* fail, and what open() does to a file it could parse.                    *)
(*                                                                         *)
(* A queue is a function from task ids to task records.  Ids are numbered  *)
(* in creation order, across restarts: the array of the code only grows at *)
(* its end, and a queue loaded from disk is an older array, so the order   *)
(* of the array is always the order of the ids.  A record keeps what       *)
(* control depends on: the status, the attempts, maxAttempts, and whether  *)
(* notBefore still lies in the future ("cooling").  Task text, answers,    *)
(* error messages and the other timestamps are left out.                   *)
(***************************************************************************)
EXTENDS Naturals

CONSTANTS
  MaxTasks,       \* bound: how many tasks are ever created
  AttemptLimits   \* the values of maxAttempts a task may be created with

ASSUME MaxTasksAssumption == MaxTasks \in Nat
ASSUME AttemptLimitsAssumption == AttemptLimits \subseteq Nat \ {0}

Ids == 1 .. MaxTasks

Statuses == {"absent", "queued", "running", "done", "failed"}

Task == [status : Statuses, attempts : Nat, max : Nat, cooling : BOOLEAN]

Queue == [Ids -> Task]

NoTask == [status |-> "absent", attempts |-> 0, max |-> 0, cooling |-> FALSE]

EmptyQueue == [i \in Ids |-> NoTask]

Present(q) == {i \in Ids : q[i].status # "absent"}

-----------------------------------------------------------------------------

(* enqueue(): a new record at the end of the array. *)
NewTask(m) == [status |-> "queued", attempts |-> 0, max |-> m, cooling |-> FALSE]

Enqueued(q, new, m) == [i \in Ids |-> IF i \in new THEN NewTask(m) ELSE q[i]]

(* claim(): the first record, in array order, that is queued and due. *)
Due(q) == {i \in Ids : q[i].status = "queued" /\ ~q[i].cooling}

NextDue(q, i) == i \in Due(q) /\ \A j \in Due(q) : i <= j

Claimed(q, i) ==
  [q EXCEPT ![i].status = "running", ![i].attempts = @ + 1]

(* complete() and fail() find the record by id and look at no status. *)
Completed(q, i) == [q EXCEPT ![i].status = "done"]

(* Variant with a plausible bug: the attempt that claim() has counted is   *)
(* counted again.                                                          *)
FailedAttemptCountedTwice(q, i) ==
  IF q[i].attempts + 1 >= q[i].max
  THEN [q EXCEPT ![i].status = "failed"]
  ELSE [q EXCEPT ![i].status = "queued", ![i].cooling = TRUE]

FailedAttempt(q, i) ==
  IF q[i].attempts >= q[i].max
  THEN [q EXCEPT ![i].status = "failed"]
  ELSE [q EXCEPT ![i].status = "queued", ![i].cooling = TRUE]

(* Variant with a plausible bug: open() gives every task that is not       *)
(* settled its last attempt back.                                          *)
ReopenedWithRefund(q) ==
  [i \in Ids |-> IF q[i].status \in {"queued", "running"}
                 THEN [q[i] EXCEPT !.status = "queued", !.cooling = FALSE,
                                   !.attempts = @ - 1]
                 ELSE q[i]]

(* open(): what a dead daemon left running is queued again, due at once;   *)
(* the attempts are taken from the file as they are.                       *)
Reopened(q) ==
  [i \in Ids |-> IF q[i].status = "running"
                 THEN [q[i] EXCEPT !.status = "queued", !.cooling = FALSE]
                 ELSE q[i]]

(* Time passes notBefore of a task that waits for its retry. *)
Cooled(q, i) == [q EXCEPT ![i].cooling = FALSE]
=============================================================================
