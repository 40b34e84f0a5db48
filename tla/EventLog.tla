------------------------------ MODULE EventLog ------------------------------
(***************************************************************************)
(* The durable event log of the runs (RunEventLog of daemon/eventlog.ts):  *)
(* one file for each run, one line for each event.  The gateway appends    *)
(* and does not wait, so the appends wait for each other in a chain of     *)
(* promises; any of them may fail, or leave a part of its line behind, and *)
(* the process may end at any time.  Module Service composes the log with  *)
(* the daemon that keeps it.                                               *)
(***************************************************************************)
EXTENDS Naturals, Sequences

CONSTANTS
  Runs,     \* run ids: UUIDs, so a process never sees one of another process
  MaxEvents \* bound: events of a run

ASSUME EventLogAssumption == MaxEvents \in Nat

VARIABLES
  chain,  \* appends that have not settled, in the order of the calls
  made,   \* mkdirDone: not called, resolved or rejected
  file,   \* each run's file, as the pieces that were written
  called, \* history: how many events of each run were handed to append()
  lost,   \* history: events whose append failed, or ended with the process
  over    \* history: runs of processes that have ended

logVars == <<chain, made, file, called, lost, over>>

(* A piece is what an append has left of its line: all of it, all but the  *)
(* newline, or less.                                                       *)
Piece == [seq : 1 .. MaxEvents, ink : {"line", "bare", "part"}]

LogInit ==
  /\ chain = <<>> /\ made = "no"
  /\ file = [r \in Runs |-> <<>>]
  /\ called = [r \in Runs |-> 0]
  /\ lost = [r \in Runs |-> {}]
  /\ over = {}

(* read(): what is between two newlines and can be parsed, in file order.  *)
Readable(f) ==
  LET legible(i) == /\ f[i].ink \in {"line", "bare"}
                    /\ i > 1 => f[i - 1].ink = "line"
                    /\ i < Len(f) => f[i].ink = "line"
  IN {i \in DOMAIN f : legible(i)}

-----------------------------------------------------------------------------
(* append(), up to its first await.  (seq identifies the event, in the     *)
(* order of the calls.  The number in the line is the registry's, which is *)
(* the same but for an aborted run that was collected while it went on: it *)
(* is 0 from then on.)                                                     *)
Appends(r) ==
  /\ r \notin over /\ called[r] < MaxEvents
  /\ called' = [called EXCEPT ![r] = @ + 1]
  /\ chain' = Append(chain, [run |-> r, seq |-> called[r] + 1])
  /\ UNCHANGED <<made, file, lost, over>>

Loses(call) == lost' = [lost EXCEPT ![call.run] = @ \cup {call.seq}]

(* The first append makes the directory.  That it failed is remembered, so *)
(* that every append of this process fails.                                *)
MakesDirectory ==
  /\ chain # <<>> /\ made = "no"
  /\ \/ made' = "yes" /\ UNCHANGED <<chain, lost>>
     \/ made' = "refused" /\ Loses(Head(chain)) /\ chain' = Tail(chain)
  /\ UNCHANGED <<file, called, over>>

Refused ==
  /\ chain # <<>> /\ made = "refused"
  /\ Loses(Head(chain)) /\ chain' = Tail(chain)
  /\ UNCHANGED <<made, file, called, over>>

Written(call, ink) == [file EXCEPT ![call.run] = Append(@, [seq |-> call.seq, ink |-> ink])]

(* Variant with a plausible bug: an append does not wait for the one before.*)
WritesUnchained ==
  /\ chain # <<>> /\ made = "yes"
  /\ \E i \in DOMAIN chain :
       /\ file' = Written(chain[i], "line")
       /\ chain' = SubSeq(chain, 1, i - 1) \o SubSeq(chain, i + 1, Len(chain))
  /\ UNCHANGED <<made, called, lost, over>>

(* appendFile() of the oldest append, whose outcome the next one ignores.  *)
Writes ==
  /\ chain # <<>> /\ made = "yes"
  /\ \/ file' = Written(Head(chain), "line") /\ UNCHANGED lost
     \/ /\ file' \in {file, Written(Head(chain), "bare"), Written(Head(chain), "part")}
        /\ Loses(Head(chain))
  /\ chain' = Tail(chain)
  /\ UNCHANGED <<made, called, over>>

LogStep == (\E r \in Runs : Appends(r)) \/ MakesDirectory \/ Refused \/ Writes

(* The process ends, maybe in the middle of a write.                       *)
LogEnds ==
  /\ file' \in IF chain # <<>> /\ made = "yes"
               THEN {file} \cup {Written(Head(chain), ink) : ink \in {"line", "bare", "part"}}
               ELSE {file}
  /\ lost' = [r \in Runs |-> lost[r] \cup
                {chain[i].seq : i \in {j \in DOMAIN chain : chain[j].run = r}}]
  /\ over' = over \cup {r \in Runs : called[r] > 0}
  /\ chain' = <<>> /\ made' = "no"
  /\ UNCHANGED called

-----------------------------------------------------------------------------
LogTypeOK ==
  /\ chain \in Seq([run : Runs, seq : 1 .. MaxEvents])
  /\ made \in {"no", "yes", "refused"}
  /\ file \in [Runs -> Seq(Piece)]
  /\ called \in [Runs -> 0 .. MaxEvents]
  /\ lost \in [Runs -> SUBSET (1 .. MaxEvents)]
  /\ over \subseteq Runs

(* What a reader finds of a run is in the order in which its events came,  *)
(* whatever fails; and of the events whose append is over, it misses only  *)
(* those whose append failed and those that came after a line broken off:  *)
(* one failure costs at most one event more (eventlog.ts:50).              *)
LogKept ==
  \A r \in Runs :
    LET f == file[r]
        found == {f[i].seq : i \in Readable(f)}
        pending == {chain[i].seq : i \in {j \in DOMAIN chain : chain[j].run = r}}
        glued == {f[i].seq : i \in {j \in DOMAIN f : j > 1 /\ f[j - 1].ink # "line"}}
    IN /\ \A i, j \in Readable(f) : i < j => f[i].seq < f[j].seq
       /\ 1 .. called[r] \subseteq found \cup lost[r] \cup pending \cup glued
=============================================================================
