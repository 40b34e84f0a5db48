------------------------------ MODULE Gateway ------------------------------
(***************************************************************************)
(* The gateway's run registry (src/gateway/registry.ts), the HTTP handlers *)
(* over it (src/gateway/server.ts), the daemon's GC and drain              *)
(* (src/daemon/index.ts) and the streaming client                          *)
(* (GatewayClient.attach of src/bridge/openclaw/client.ts).                *)
(*                                                                         *)
(* A run is followed over SSE connections.  The server side of a           *)
(* connection is a sink with a reference count on its run and a            *)
(* subscription; the frames it writes travel in order, and a connection    *)
(* that breaks loses the frames under way.  The server learns of a break   *)
(* later than the client.                                                  *)
(*                                                                         *)
(* Events are their sequence numbers: the ring buffer of a run holds the   *)
(* last BufferMax of 1 .. seq.  What an event says is left out, but for    *)
(* which one is the run's last ("final", or the registry's "error").       *)
(* Heartbeats change nothing in the client and are not frames here: what   *)
(* matters is the id they would carry (HeartbeatIdIsWritten).              *)
(***************************************************************************)
EXTENDS Naturals, Sequences, FiniteSets

CONSTANTS
  Runs,           \* POST /runs requests, and the runs they create
  Clients,        \* clients of GatewayClient.attach
  Follows,        \* Follows[c] : the run c follows
  Conns,          \* SSE connections that may exist at once
  BufferMax,      \* sessionBufferMax
  MaxConcurrent,  \* maxConcurrentPerTenant (one tenant)
  MaxSeq          \* bound: events of a run

ASSUME GatewayAssumption ==
  /\ IsFiniteSet(Runs) /\ IsFiniteSet(Conns)
  /\ Follows \in [Clients -> Runs]
  /\ BufferMax \in Nat \ {0}
  /\ MaxConcurrent \in Nat \ {0}
  /\ MaxSeq \in Nat \ {0}

VARIABLES
  run,       \* the record of each run, and how its execution stands
  conn,      \* both ends of each connection
  client,    \* what each client has been handed, and its last outcome
  phase      \* of the daemon: "up", "draining", "exited"

vars == <<run, conn, client, phase>>

(* exec: "none"; "body": the request awaits its body; "active": run() is   *)
(* executing; "ended": it has emitted its final event; "settled": its      *)
(* promise has been handled; "threw": orchestrator() threw before run().   *)
(* idle: idle past the TTL.  last: the kind of its newest event.           *)
NewRun == [exec |-> "none", registered |-> FALSE, status |-> "running", seq |-> 0,
           last |-> "event", aborted |-> FALSE, refs |-> 0, idle |-> FALSE]

(* open: the server's cleanup() has not run.  alive: the client reads.     *)
(* ended: the server has ended the response.                               *)
NoConn == [client |-> "none", run |-> "none", open |-> FALSE, alive |-> FALSE,
           ended |-> FALSE, subscribed |-> FALSE, written |-> 0, frames |-> <<>>]

(* outcome: "final" and "error" are the run's end; "lost": attach() came    *)
(* back without it (409 or 404, a shutdown frame, a stream that ended or   *)
(* broke) and its caller may attach again; "hole": attach() threw because  *)
(* events were missing.                                                    *)
NewClient == [first |-> 0, last |-> 0, outcome |-> "none"]

Init ==
  /\ run = [r \in Runs |-> NewRun]
  /\ conn = [k \in Conns |-> NoConn]
  /\ client = [c \in Clients |-> NewClient]
  /\ phase = "up"

MinSeq(r) ==
  IF run[r].seq = 0 THEN 0
  ELSE IF run[r].seq > BufferMax THEN run[r].seq - BufferMax + 1 ELSE 1

RunningCount ==
  Cardinality({r \in Runs : run[r].registered /\ run[r].status = "running"})

Executing(r) == run[r].exec \in {"active", "ended"}

-----------------------------------------------------------------------------
(* POST /runs *)

PostArrives(r) ==
  /\ phase = "up"
  /\ run[r].exec = "none"
  /\ run' = [run EXCEPT ![r].exec = "body"]
  /\ UNCHANGED <<conn, client, phase>>

(* 429, or a malformed body. *)
PostRefused(r) ==
  /\ run[r].exec = "body"
  /\ run' = [run EXCEPT ![r].exec = "none"]
  /\ UNCHANGED <<conn, client, phase>>

(* Variant with a plausible bug: the cap was checked when the request      *)
(* arrived.                                                                *)
PostCreatesUnchecked(r) ==
  /\ run[r].exec = "body"
  /\ run' = [run EXCEPT ![r] = [NewRun EXCEPT !.exec = "active", !.registered = TRUE]]
  /\ UNCHANGED <<conn, client, phase>>

PostCreates(r) ==
  /\ run[r].exec = "body"
  /\ RunningCount < MaxConcurrent
  /\ run' = [run EXCEPT ![r] = [NewRun EXCEPT !.exec = "active", !.registered = TRUE]]
  /\ UNCHANGED <<conn, client, phase>>

(* The record is created, then runtime.orchestrator() throws (no such      *)
(* driver): the request is answered 500 and the record stays as it is.     *)
PostThrows(r) ==
  /\ run[r].exec = "body"
  /\ RunningCount < MaxConcurrent
  /\ run' = [run EXCEPT ![r] = [NewRun EXCEPT !.exec = "threw", !.registered = TRUE]]
  /\ UNCHANGED <<conn, client, phase>>

-----------------------------------------------------------------------------
(* registry.append() with the subscribers it calls: each writes the frame; *)
(* after a final or error event it cleans up and ends the response.  An    *)
(* append to a run that was collected does nothing.                        *)

Frame(kind, id) == [kind |-> kind, id |-> id]

Written(k, kind, id) ==
  LET last == kind \in {"final", "error"}
  IN  [k EXCEPT !.frames = IF k.alive THEN Append(@, Frame(kind, id)) ELSE @,
                !.written = id,
                !.open = ~last, !.subscribed = ~last, !.ended = last]

Subscribers(r) == {k \in Conns : conn[k].run = r /\ conn[k].subscribed}

Notified(r, kind) ==
  [k \in Conns |-> IF k \in Subscribers(r)
                   THEN Written(conn[k], kind, run[r].seq + 1)
                   ELSE conn[k]]

(* Variants with a plausible bug: an error event does not release the      *)
(* count, or every event does.                                             *)
RefsLeftByFinal(r, kind) ==
  IF kind # "final" THEN run[r].refs ELSE run[r].refs - Cardinality(Subscribers(r))

RefsLeftByAny(r, kind) == run[r].refs - Cardinality(Subscribers(r))

RefsLeft(r, kind) ==
  IF kind = "event" THEN run[r].refs ELSE run[r].refs - Cardinality(Subscribers(r))

(* Variant with a plausible bug: the new number is not kept. *)
RecordUnnumbered(r, kind) ==
  [run[r] EXCEPT !.idle = FALSE, !.refs = RefsLeft(r, kind), !.last = kind]

Record(r, kind) ==
  [run[r] EXCEPT !.seq = @ + 1, !.idle = FALSE, !.refs = RefsLeft(r, kind),
                 !.last = kind]

(* onEvent of a run under way. *)
Emits(r) ==
  /\ run[r].exec = "active"
  /\ IF run[r].registered
     THEN /\ run[r].seq < MaxSeq - 1
          /\ conn' = Notified(r, "event")
          /\ run' = [run EXCEPT ![r] = Record(r, "event")]
     ELSE UNCHANGED <<conn, run>>
  /\ UNCHANGED <<client, phase>>

EmitsFinal(r) ==
  /\ run[r].exec = "active"
  /\ IF run[r].registered
     THEN /\ conn' = Notified(r, "final")
          /\ run' = [run EXCEPT ![r] = [Record(r, "final") EXCEPT !.exec = "ended"]]
     ELSE run' = [run EXCEPT ![r].exec = "ended"] /\ UNCHANGED conn
  /\ UNCHANGED <<client, phase>>

(* finish(): the subscribers are released. *)
Finished(rec, status) == [rec EXCEPT !.exec = "settled", !.status = status, !.idle = FALSE]

Released(r, cs) == [k \in Conns |-> IF cs[k].run = r THEN [cs[k] EXCEPT !.subscribed = FALSE]
                                    ELSE cs[k]]

RunResolves(r) ==
  /\ run[r].exec = "ended"
  /\ IF run[r].registered
     THEN /\ run' = [run EXCEPT ![r] =
                       Finished(@, IF @.aborted THEN "aborted" ELSE "done")]
          /\ conn' = Released(r, conn)
     ELSE run' = [run EXCEPT ![r].exec = "settled"] /\ UNCHANGED conn
  /\ UNCHANGED <<client, phase>>

(* Variant with a plausible bug: no error event is appended. *)
RunRejectsSilently(r) ==
  /\ run[r].exec = "active" /\ run[r].registered
  /\ conn' = Released(r, conn)
  /\ run' = [run EXCEPT ![r] = Finished(@, "error")]
  /\ UNCHANGED <<client, phase>>

(* run() rejects: the error event is appended, then the run is finished. *)
RunRejects(r) ==
  /\ run[r].exec = "active"
  /\ IF run[r].registered
     THEN /\ conn' = Notified(r, "error")
          /\ run' = [run EXCEPT ![r] = Finished(Record(r, "error"), "error")]
     ELSE run' = [run EXCEPT ![r].exec = "settled"] /\ UNCHANGED conn
  /\ UNCHANGED <<client, phase>>

(* DELETE /runs/:id and POST /runs/:id/cancel: the signal is raised and    *)
(* the status changes; the run goes on until it looks at the signal.       *)
Aborts(r) ==
  /\ run[r].registered
  /\ run' = [run EXCEPT ![r].aborted = TRUE,
                        ![r].status = IF @ = "running" THEN "aborted" ELSE @]
  /\ UNCHANGED <<conn, client, phase>>

-----------------------------------------------------------------------------
(* The GC timer. *)

(* The idle time only counts once the run is no longer running.            *)
IdlePasses(r) ==
  /\ run[r].registered /\ ~run[r].idle /\ run[r].status # "running"
  /\ run' = [run EXCEPT ![r].idle = TRUE]
  /\ UNCHANGED <<conn, client, phase>>

Collectable(r) ==
  /\ run[r].registered
  /\ run[r].refs = 0
  /\ run[r].status # "running"
  /\ run[r].idle

Collects ==
  /\ \E r \in Runs : Collectable(r)
  /\ run' = [r \in Runs |-> IF Collectable(r)
                            THEN [run[r] EXCEPT !.registered = FALSE] ELSE run[r]]
  /\ UNCHANGED <<conn, client, phase>>

-----------------------------------------------------------------------------
(* GET /runs/:id/events: the handler runs to its end without an await.     *)

(* What is replayed after the resume point `after': the buffered events.   *)
Replayed(r, after) ==
  LET from == IF after + 1 > MinSeq(r) THEN after + 1 ELSE MinSeq(r)
  IN  IF run[r].seq = 0 \/ from > run[r].seq THEN <<>>
      ELSE [i \in 1 .. run[r].seq - from + 1 |->
              Frame(IF from + i - 1 = run[r].seq THEN run[r].last ELSE "event",
                    from + i - 1)]

(* Variant with a plausible bug: no 409. *)
NoGap(r, after) == FALSE

Gap(r, after) == after > 0 /\ MinSeq(r) > after + 1

(* The stream ends with the replay if that held the last event of the run, *)
(* or if the run is not (or no longer) recorded as running.                *)
EndsWithReplay(r, after) ==
  \/ Replayed(r, after) # <<>> /\ run[r].last # "event"
  \/ run[r].status # "running"

Opened(c, r, after) ==
  LET stays == ~EndsWithReplay(r, after)
  IN  [client |-> c, run |-> r, open |-> stays, alive |-> TRUE,
       ended |-> ~stays, subscribed |-> stays,
       written |-> IF run[r].seq > after THEN run[r].seq ELSE after,
       frames |-> Replayed(r, after)]

Listening(c) == \E k \in Conns : conn[k].client = c /\ conn[k].alive

(* A client attaches to its run, anew or after the last event it was       *)
(* handed.  It knows the run once the POST has been answered.              *)
Attaches(c, k, after) ==
  LET r == Follows[c]
  IN  /\ phase # "exited"
      /\ run[r].exec \in {"active", "ended", "settled"}
      /\ ~Listening(c) /\ client[c].outcome \notin {"final", "error"}
      /\ conn[k] = NoConn
      /\ after \in {0, client[c].last}
      /\ IF ~run[r].registered \/ Gap(r, after)
         THEN /\ client' = [client EXCEPT ![c].outcome = "lost"]
              /\ UNCHANGED <<run, conn>>
         ELSE /\ conn' = [conn EXCEPT ![k] = Opened(c, r, after)]
              /\ client' = [client EXCEPT ![c] =
                              IF after = 0 THEN NewClient ELSE [@ EXCEPT !.outcome = "none"]]
              /\ run' = [run EXCEPT ![r].idle = FALSE,
                                    ![r].refs = IF EndsWithReplay(r, after)
                                                THEN @ ELSE @ + 1]
      /\ UNCHANGED phase

(* The client stops reading; the record of a connection that both sides    *)
(* have left is free again.                                                *)
Left(k) == IF conn[k].open THEN [conn[k] EXCEPT !.alive = FALSE, !.frames = <<>>]
           ELSE NoConn

Leaves(k, outcome) ==
  /\ conn' = [conn EXCEPT ![k] = Left(k)]
  /\ client' = [client EXCEPT ![conn[k].client].outcome = outcome]
  /\ UNCHANGED <<run, phase>>

Head1(k) == Head(conn[k].frames)

HasFrame(k, kinds) ==
  conn[k].alive /\ conn[k].frames # <<>> /\ Head1(k).kind \in kinds

(* An error or shutdown frame is the outcome; frames that came in the same *)
(* chunk as a shutdown are still looked at.                                *)
ReadsEnd(k) ==
  \/ HasFrame(k, {"error"}) /\ Leaves(k, "error")
  \/ HasFrame(k, {"shutdown"}) /\ Leaves(k, "lost")
  \/ /\ HasFrame(k, {"shutdown"}) /\ Len(conn[k].frames) > 1
     /\ conn' = [conn EXCEPT ![k].frames = Tail(@)]
     /\ UNCHANGED <<run, client, phase>>

(* A data frame: the first one of a fresh attach is taken as it comes;     *)
(* then one already seen is skipped, a hole throws, the next is handed     *)
(* over.                                                                   *)
ReadsData(k) ==
  /\ HasFrame(k, {"event", "final"})
  /\ LET c == conn[k].client
         id == Head1(k).id
         first == client[c].last = 0
         over == [client EXCEPT ![c].last = id,
                                ![c].first = IF first THEN id ELSE @,
                                ![c].outcome = IF Head1(k).kind = "final" THEN "final" ELSE @]
     IN  \/ /\ ~first /\ id <= client[c].last
            /\ conn' = [conn EXCEPT ![k].frames = Tail(@)]
            /\ UNCHANGED client
         \/ /\ ~first /\ id > client[c].last + 1
            /\ conn' = [conn EXCEPT ![k] = Left(k)]
            /\ client' = [client EXCEPT ![c].outcome = "hole"]
         \/ /\ first \/ id = client[c].last + 1
            /\ client' = over
            /\ conn' = [conn EXCEPT ![k] =
                          IF Head1(k).kind = "final" THEN Left(k)
                          ELSE [conn[k] EXCEPT !.frames = Tail(conn[k].frames)]]
  /\ UNCHANGED <<run, phase>>

(* The server has ended the response and everything has been read. *)
SeesEnd(k) ==
  /\ conn[k].alive /\ conn[k].frames = <<>> /\ conn[k].ended
  /\ Leaves(k, "lost")

(* The network breaks the connection, or the caller's signal aborts it. *)
Breaks(k) == conn[k].alive /\ Leaves(k, "lost")

(* The server's "close" event: cleanup(). *)
ServerSeesClose(k) ==
  /\ conn[k].open /\ ~conn[k].alive
  /\ conn' = [conn EXCEPT ![k] = NoConn]
  /\ run' = [run EXCEPT ![conn[k].run].refs = @ - 1, ![conn[k].run].idle = FALSE]
  /\ UNCHANGED <<client, phase>>

-----------------------------------------------------------------------------
(* Drain: a flag that refuses new runs, one shutdown frame to every sink,  *)
(* a bounded wait, and the end of the process.                             *)

DrainBegins == phase = "up" /\ phase' = "draining" /\ UNCHANGED <<run, conn, client>>

TellsSinks ==
  /\ phase = "draining"
  /\ phase' = "told"
  /\ conn' = [k \in Conns |->
                IF conn[k].open /\ conn[k].alive
                THEN [conn[k] EXCEPT !.frames = Append(@, Frame("shutdown", 0))]
                ELSE conn[k]]
  /\ UNCHANGED <<run, client>>

Exits ==
  /\ phase = "told"
  /\ phase' = "exited"
  /\ conn' = [k \in Conns |->
                IF conn[k].alive
                THEN [conn[k] EXCEPT !.open = FALSE, !.subscribed = FALSE, !.ended = TRUE]
                ELSE NoConn]
  /\ run' = [r \in Runs |-> [run[r] EXCEPT !.registered = FALSE, !.refs = 0,
                                           !.exec = IF Executing(r) THEN "settled" ELSE @]]
  /\ UNCHANGED client

RunNext(r) ==
  \/ PostArrives(r) \/ PostRefused(r) \/ PostCreates(r) \/ PostThrows(r)
  \/ Emits(r) \/ EmitsFinal(r) \/ RunResolves(r) \/ RunRejects(r)
  \/ Aborts(r) \/ IdlePasses(r)

ConnNext(k) ==
  \/ ReadsEnd(k) \/ ReadsData(k) \/ SeesEnd(k) \/ Breaks(k) \/ ServerSeesClose(k)
  \/ \E c \in Clients : Attaches(c, k, 0) \/ Attaches(c, k, client[c].last)

Next ==
  \/ phase # "exited" /\ \E r \in Runs : RunNext(r)
  \/ phase # "exited" /\ Collects
  \/ \E k \in Conns : ConnNext(k)
  \/ DrainBegins \/ TellsSinks \/ Exits

Spec == Init /\ [][Next]_vars

(* A run under way ends (timeoutMs bounds it), its promise is handled, and *)
(* a client reads what has arrived.                                        *)
Fairness ==
  /\ \A r \in Runs : WF_vars(phase # "exited" /\ (EmitsFinal(r) \/ RunRejects(r)))
  /\ \A r \in Runs : WF_vars(phase # "exited" /\ RunResolves(r))
  /\ \A k \in Conns : WF_vars(ReadsEnd(k) \/ ReadsData(k) \/ SeesEnd(k))

FairSpec == Spec /\ Fairness

-----------------------------------------------------------------------------
(* Properties *)

(* The variables hold values of their types. *)
TypeOK ==
  /\ phase \in {"up", "draining", "told", "exited"}
  /\ run \in [Runs ->
       [exec : {"none", "body", "active", "ended", "settled", "threw"},
        registered : BOOLEAN, status : {"running", "done", "error", "aborted"},
        seq : 0 .. MaxSeq, last : {"event", "final", "error"},
        aborted : BOOLEAN, refs : Nat, idle : BOOLEAN]]
  /\ client \in [Clients ->
       [first : 0 .. MaxSeq, last : 0 .. MaxSeq,
        outcome : {"none", "final", "error", "lost", "hole"}]]
  /\ \A k \in Conns : conn[k] # NoConn =>
       /\ conn[k].client \in Clients /\ conn[k].run = Follows[conn[k].client]
       /\ conn[k].written \in 0 .. MaxSeq
       /\ conn[k].frames \in Seq([kind : {"event", "final", "error", "shutdown"},
                                  id : 0 .. MaxSeq])

(* Over any mixture of live events, replays, broken connections, resumes,  *)
(* ring eviction and fresh attaches, the events handed to a client are     *)
(* consecutive, in order and never twice: the gateway with attach()        *)
(* implements EventStream.                                                 *)
Stream(c) == INSTANCE EventStream
               WITH published <- run[Follows[c]].seq,
                    first <- client[c].first, last <- client[c].last

StreamsAreFaithful ==
  /\ \A c \in Clients : Stream(c)!Init
  /\ [][\A c \in Clients : [Stream(c)!Next]_(Stream(c)!streamVars)]_vars

(* The server never makes a client's continuity check fail: the 409 of the *)
(* handler comes before any hole could, and subscribe-then-replay leaves   *)
(* none between the buffered and the live events.                          *)
NoHole == \A c \in Clients : client[c].outcome # "hole"

(* The reference count that guards GC and drain is the number of sinks     *)
(* whose cleanup has not run: every path that ends a stream (final, error, *)
(* replay of a finished run, close) releases it once.                      *)
RefsCountSinks ==
  \A r \in Runs : run[r].registered =>
    run[r].refs = Cardinality({k \in Conns : conn[k].open /\ conn[k].run = r})

(* An open sink belongs to a run that is registered and still executing,   *)
(* and is subscribed to it: no stream is left open that nothing will write *)
(* to or end, and GC never takes the run of an attached client.            *)
NoOrphanSink ==
  \A k \in Conns : conn[k].open =>
    /\ conn[k].subscribed
    /\ run[conn[k].run].registered
    /\ Executing(conn[k].run)

(* A heartbeat carries the run's newest number as its id; a client that    *)
(* resumes from that id misses nothing, because everything up to it has    *)
(* been written to the same sink.                                          *)
HeartbeatIdIsWritten ==
  \A k \in Conns : conn[k].open => conn[k].written = run[conn[k].run].seq

(* The server's end of every stream is sound: counted once, subscribed to a*)
(* run that will end it, and in step with that run.                        *)
SinksSound == RefsCountSinks /\ NoOrphanSink /\ HeartbeatIdIsWritten

(* A response the server ends before the run's last event was written to   *)
(* it belongs to a run that was aborted (or the process exits).            *)
CutOnlyAfterAbort ==
  \A k \in Conns : conn[k].ended /\ phase # "exited" =>
    \/ run[conn[k].run].aborted
    \/ /\ run[conn[k].run].last # "event"
       /\ conn[k].written = run[conn[k].run].seq

(* Nothing is withheld from a client: there is no hole in its stream, and  *)
(* the server does not end it early unless the run was aborted.            *)
NothingWithheld == NoHole /\ CutOnlyAfterAbort

(* The tenant never has more runs recorded as running than its cap,        *)
(* although the check precedes the creation by several requests' awaits.   *)
CapHolds == RunningCount <= MaxConcurrent

(* Every stream a client has open ends: with the run, with the daemon, or  *)
(* because the server closes it.                                           *)
EveryStreamEnds ==
  \A c \in Clients : Listening(c) ~> ~Listening(c)

-----------------------------------------------------------------------------
(* What a comment says, and the code does not do: refuted. *)

(* registry.ts on runningCount(): it counts "currently-running runs (for   *)
(* concurrency caps)": a run recorded as running is executing, and gives   *)
(* its place back when it is over.                                         *)
RunningIsExecuting ==
  \A r \in Runs : run[r].registered /\ run[r].status = "running" => Executing(r)
=============================================================================
