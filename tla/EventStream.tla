---------------------------- MODULE EventStream ----------------------------
(***************************************************************************)
(* What the gateway promises a client that follows a run over any number   *)
(* of connections (src/gateway/server.ts, src/bridge/openclaw/client.ts):  *)
(* it is handed consecutive events of the run, each once, in order, and    *)
(* none that the run has not published.  It may start anew at any time,    *)
(* with the oldest event that is still kept, and it may stop anywhere.     *)
(***************************************************************************)
EXTENDS Naturals

VARIABLES
  published,  \* number of events the run has published
  first,      \* number of the first event handed to the client, 0 = none yet
  last        \* number of the last one

streamVars == <<published, first, last>>

Init == published = 0 /\ first = 0 /\ last = 0

Publish == published' = published + 1 /\ UNCHANGED <<first, last>>

HandOver ==
  /\ UNCHANGED published
  /\ \/ /\ last = 0
        /\ last' \in 1 .. published
        /\ first' = last'
     \/ /\ last > 0 /\ last < published
        /\ last' = last + 1
        /\ UNCHANGED first

StartAnew == first' = 0 /\ last' = 0 /\ UNCHANGED published

Next == Publish \/ HandOver \/ StartAnew

Spec == Init /\ [][Next]_streamVars
=============================================================================
