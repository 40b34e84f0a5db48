--------------------------- MODULE GatewayProofs ---------------------------
(***************************************************************************)
(* Theorems about the gateway and its streaming clients, for any number of *)
(* runs, clients, connections and events, and any size of the ring.        *)
(*                                                                         *)
(* The invariant says of each connection that is read what its frames hold *)
(* (Shape): the events that end with the newest one written, without a     *)
(* hole, with one shutdown frame among them at most; and that they begin no*)
(* later than the event that its client needs next (Streams).  That a ring *)
(* eviction, a resume or an abort never breaks this rests on what is known *)
(* of the run (RunSound) and of the server's end (ConnSound).              *)
(***************************************************************************)
EXTENDS Gateway, SequenceTheorems, FiniteSetTheorems, TLAPS

RunType ==
  [exec : {"none", "body", "active", "ended", "settled", "threw"},
   registered : BOOLEAN, status : {"running", "done", "error", "aborted"},
   seq : 0 .. MaxSeq, last : {"event", "final", "error"},
   aborted : BOOLEAN, refs : Nat, idle : BOOLEAN]

FrameType == [kind : {"event", "final", "error", "shutdown"}, id : 0 .. MaxSeq]

ConnType ==
  [client : Clients, run : Runs, open : BOOLEAN, alive : BOOLEAN, ended : BOOLEAN,
   subscribed : BOOLEAN, written : 0 .. MaxSeq, frames : Seq(FrameType)]

ClientType ==
  [first : 0 .. MaxSeq, last : 0 .. MaxSeq,
   outcome : {"none", "final", "error", "lost", "hole"}]

Types ==
  /\ phase \in {"up", "draining", "told", "exited"}
  /\ run \in [Runs -> RunType]
  /\ client \in [Clients -> ClientType]
  /\ conn \in [Conns -> ConnType \cup {NoConn}]
  /\ \A k \in Conns : conn[k] # NoConn => conn[k].run = Follows[conn[k].client]

RunSound(r) ==
  /\ run[r].exec \in {"none", "body", "threw"} => run[r].seq = 0
  /\ run[r].exec = "active" => run[r].seq < MaxSeq /\ run[r].last = "event"
  /\ run[r].last # "event" => run[r].seq > 0
  /\ run[r].registered /\ run[r].status # "running" => run[r].aborted \/ run[r].last # "event"
  /\ run[r].registered /\ run[r].exec = "ended" => run[r].last = "final"
  /\ run[r].registered /\ run[r].exec = "settled" => run[r].status # "running"

(* The server's end of a connection.                                       *)
ConnSound(k) ==
  /\ conn[k] # NoConn => run[conn[k].run].exec \notin {"none", "body", "threw"}
  /\ conn[k].open <=> conn[k].subscribed
  /\ conn[k].open => /\ ~conn[k].ended /\ run[conn[k].run].registered
                     /\ run[conn[k].run].exec = "active"
                     /\ conn[k].written = run[conn[k].run].seq
  /\ conn[k].ended /\ phase # "exited" =>
       \/ run[conn[k].run].aborted
       \/ /\ run[conn[k].run].last # "event"
          /\ conn[k].written = run[conn[k].run].seq

(* Is a shutdown frame behind the i-th?  How many events are in the frames,*)
(* and how many of them behind the i-th frame?                             *)
Cut(f, i) == IF \E j \in DOMAIN f : j > i /\ f[j].kind = "shutdown" THEN 1 ELSE 0
Events(f) == Len(f) - Cut(f, 0)
Behind(f, i) == Len(f) - i - Cut(f, i)

Shape(f, w) ==
  /\ Events(f) <= w
  /\ \A i, j \in DOMAIN f : f[i].kind = "shutdown" /\ f[j].kind = "shutdown" => i = j
  /\ \A i \in DOMAIN f : f[i].kind # "shutdown" => f[i].id = w - Behind(f, i)

Kinds(f, seq, last) ==
  \A i \in DOMAIN f : f[i].kind # "shutdown" =>
    f[i].kind = IF f[i].id = seq THEN last ELSE "event"

Quiet(f) == \A i \in DOMAIN f : f[i].kind # "shutdown"

(* The client's end of a connection.                                       *)
Streams(k) ==
  conn[k].alive =>
    /\ conn[k].written <= run[conn[k].run].seq
    /\ Shape(conn[k].frames, conn[k].written)
    /\ Kinds(conn[k].frames, run[conn[k].run].seq, run[conn[k].run].last)
    /\ \/ client[conn[k].client].last = 0
       \/ client[conn[k].client].last >= conn[k].written - Events(conn[k].frames)
    /\ phase \in {"up", "draining"} => Quiet(conn[k].frames)
    /\ client[conn[k].client].outcome \notin {"final", "error"}
    /\ \A j \in Conns : conn[j].alive /\ conn[j].client = conn[k].client => j = k

ClientSound(c) ==
  /\ client[c].last <= run[Follows[c]].seq
  /\ client[c].last > 0 /\ client[c].last = run[Follows[c]].seq
       /\ run[Follows[c]].last = "final" => client[c].outcome = "final"
  /\ client[c].outcome # "hole"

Inv ==
  /\ Types
  /\ \A r \in Runs : RunSound(r)
  /\ \A k \in Conns : ConnSound(k) /\ Streams(k)
  /\ \A c \in Clients : ClientSound(c)
  /\ RefsCountSinks
  /\ CapHolds

-----------------------------------------------------------------------------
(* Lemmas on frames *)

(* What is behind a frame is in the sequence.                              *)
LEMMA BehindIsSound ==
  ASSUME NEW f \in Seq(FrameType), NEW i \in 0 .. Len(f)
  PROVE  /\ Cut(f, i) \in {0, 1} /\ Len(f) - i - Cut(f, i) \in Nat
         /\ Len(f) \in Nat /\ DOMAIN f = 1 .. Len(f)
         /\ Events(f) \in Nat /\ Behind(f, i) \in Nat
<1>1. Len(f) \in Nat /\ DOMAIN f = 1 .. Len(f)
  BY LenProperties
<1>2. ASSUME NEW h \in 0 .. Len(f) PROVE Cut(f, h) \in {0, 1} /\ Len(f) - h - Cut(f, h) \in Nat
  <2>1. CASE \E j \in DOMAIN f : j > h /\ f[j].kind = "shutdown"
    <3>1. Cut(f, h) = 1
      BY <2>1 DEF Cut
    <3>2. Len(f) > h
      BY <1>1, <2>1
    <3> QED  BY <1>1, <3>1, <3>2
  <2>2. CASE ~(\E j \in DOMAIN f : j > h /\ f[j].kind = "shutdown")
    <3>1. Cut(f, h) = 0
      BY <2>2 DEF Cut
    <3> QED  BY <1>1, <3>1
  <2> QED  BY <2>1, <2>2
<1>3. 0 \in 0 .. Len(f)
  BY <1>1
<1>4. Events(f) \in Nat
  BY <1>1, <1>2, <1>3 DEF Events
<1> QED  BY <1>1, <1>2, <1>4 DEF Behind

(* A frame is appended.                                                    *)
LEMMA AppendedFrame ==
  ASSUME NEW f \in Seq(FrameType), NEW x \in FrameType
  PROVE  /\ Append(f, x) \in Seq(FrameType) /\ Len(Append(f, x)) = Len(f) + 1
         /\ DOMAIN Append(f, x) = 1 .. Len(f) + 1
         /\ \A i \in DOMAIN f : Append(f, x)[i] = f[i]
         /\ Append(f, x)[Len(f) + 1] = x
         /\ Len(f) \in Nat /\ DOMAIN f = 1 .. Len(f)
<1>1. Len(f) \in Nat /\ DOMAIN f = 1 .. Len(f)
  BY LenProperties
<1>2. /\ Append(f, x) \in Seq(FrameType) /\ Len(Append(f, x)) = Len(f) + 1
      /\ \A i \in 1 .. Len(f) : Append(f, x)[i] = f[i]
      /\ Append(f, x)[Len(f) + 1] = x
  BY AppendProperties
<1>3. DOMAIN Append(f, x) = 1 .. Len(f) + 1
  BY <1>2, LenProperties
<1> QED  BY <1>1, <1>2, <1>3

(* An event is written.                                                    *)
LEMMA EventAppended ==
  ASSUME NEW f \in Seq(FrameType), NEW w \in Nat, Shape(f, w), NEW x \in FrameType,
         x.kind # "shutdown", x.id = w + 1
  PROVE  Shape(Append(f, x), w + 1) /\ Events(Append(f, x)) = Events(f) + 1
<1> DEFINE g == Append(f, x)
<1>1. /\ g \in Seq(FrameType) /\ Len(g) = Len(f) + 1 /\ DOMAIN g = 1 .. Len(f) + 1
      /\ \A i \in DOMAIN f : g[i] = f[i]
      /\ g[Len(f) + 1] = x /\ Len(f) \in Nat /\ DOMAIN f = 1 .. Len(f)
  BY AppendedFrame
<1> HIDE DEF g
<1>2. ASSUME NEW j \in DOMAIN g, g[j].kind = "shutdown" PROVE j \in DOMAIN f /\ f[j].kind = "shutdown"
  <2>1. j # Len(f) + 1
    BY <1>1, <1>2
  <2>2. j \in DOMAIN f
    BY <1>1, <2>1
  <2> QED  BY <1>1, <1>2, <2>2
<1>3. ASSUME NEW j \in DOMAIN f PROVE j \in DOMAIN g /\ g[j] = f[j]
  BY <1>1
<1>4. ASSUME NEW i \in 0 .. Len(f) PROVE Cut(g, i) = Cut(f, i)
  BY <1>2, <1>3 DEF Cut
<1>5. Events(g) = Events(f) + 1
  <2>1. Cut(f, 0) \in {0, 1} /\ Cut(g, 0) = Cut(f, 0)
    BY <1>1, <1>4, BehindIsSound
  <2> QED  BY <1>1, <2>1 DEF Events
<1>6. Events(f) \in Nat /\ Events(f) <= w
  BY <1>1, BehindIsSound DEF Shape
<1>7. ASSUME NEW i \in DOMAIN g, g[i].kind # "shutdown" PROVE g[i].id = (w + 1) - Behind(g, i)
  <2>1. CASE i \in DOMAIN f
    <3>1. f[i].id = w - Behind(f, i)
      BY <1>1, <1>7, <2>1 DEF Shape
    <3>2. i \in 0 .. Len(f)
      BY <1>1, <2>1
    <3>3. Cut(f, i) \in {0, 1} /\ Cut(g, i) = Cut(f, i) /\ i \in Nat
      BY <1>1, <1>4, <3>2, BehindIsSound
    <3>4. Behind(g, i) = Behind(f, i) + 1 /\ Behind(f, i) \in Nat
      <4>1. Len(g) - i - Cut(g, i) = Len(f) - i - Cut(f, i) + 1
        BY <1>1, <3>3
      <4> QED  BY <3>2, <4>1, BehindIsSound DEF Behind
    <3>5. g[i] = f[i]
      BY <1>1, <2>1
    <3> QED  BY <3>1, <3>4, <3>5
  <2>2. CASE i \notin DOMAIN f
    <3>1. i = Len(f) + 1
      BY <1>1, <2>2
    <3>2. Cut(g, i) = 0
      BY <1>1, <3>1 DEF Cut
    <3>3. Behind(g, i) = 0
      BY <1>1, <3>1, <3>2 DEF Behind
    <3> QED  BY <1>1, <3>1, <3>3
  <2> QED  BY <2>1, <2>2
<1>8. \A i, j \in DOMAIN g : g[i].kind = "shutdown" /\ g[j].kind = "shutdown" => i = j
  BY <1>2 DEF Shape
<1>9. Events(g) <= w + 1
  BY <1>5, <1>6
<1>10. Shape(g, w + 1)
  BY <1>7, <1>8, <1>9 DEF Shape
<1> QED  BY <1>5, <1>10 DEF g

(* The first shutdown frame is written.                                    *)
LEMMA ShutdownAppended ==
  ASSUME NEW f \in Seq(FrameType), NEW w \in Nat, Shape(f, w), Quiet(f), NEW x \in FrameType,
         x.kind = "shutdown"
  PROVE  Shape(Append(f, x), w) /\ Events(Append(f, x)) = Events(f)
<1> DEFINE g == Append(f, x)
<1>1. /\ g \in Seq(FrameType) /\ Len(g) = Len(f) + 1 /\ DOMAIN g = 1 .. Len(f) + 1
      /\ \A i \in DOMAIN f : g[i] = f[i]
      /\ g[Len(f) + 1] = x /\ Len(f) \in Nat /\ DOMAIN f = 1 .. Len(f)
  BY AppendedFrame
<1> HIDE DEF g
<1>2. ASSUME NEW i \in 0 .. Len(f) PROVE Cut(g, i) = 1 /\ Cut(f, i) = 0
  <2>1. Cut(f, i) = 0
    BY DEF Cut, Quiet
  <2>2. Len(f) + 1 \in DOMAIN g /\ Len(f) + 1 > i
    BY <1>1
  <2> QED  BY <1>1, <2>1, <2>2 DEF Cut
<1>3. Events(g) = Events(f) /\ Events(f) <= w
  <2>1. Cut(g, 0) = 1 /\ Cut(f, 0) = 0
    BY <1>1, <1>2
  <2> QED  BY <1>1, <2>1 DEF Events, Shape
<1>4. ASSUME NEW i \in DOMAIN g, g[i].kind = "shutdown" PROVE i = Len(f) + 1
  BY <1>1, <1>4 DEF Quiet
<1>5. ASSUME NEW i \in DOMAIN g, g[i].kind # "shutdown" PROVE g[i].id = w - Behind(g, i)
  <2>1. i # Len(f) + 1
    BY <1>1, <1>5
  <2>2. i \in DOMAIN f /\ i \in 0 .. Len(f)
    BY <1>1, <2>1
  <2>3. f[i].id = w - Behind(f, i) /\ g[i] = f[i]
    BY <1>1, <1>5, <2>2 DEF Shape
  <2>4. Behind(g, i) = Behind(f, i)
    <3>1. Cut(g, i) = 1 /\ Cut(f, i) = 0
      BY <1>2, <2>2
    <3>2. i \in Nat
      BY <2>2
    <3> QED  BY <1>1, <3>1, <3>2 DEF Behind
  <2> QED  BY <2>3, <2>4
<1> QED  BY <1>3, <1>4, <1>5 DEF Shape, g

(* The first frame is read.                                                *)
LEMMA FrameRead ==
  ASSUME NEW f \in Seq(FrameType), NEW w \in Nat, Shape(f, w), f # <<>>
  PROVE  /\ Tail(f) \in Seq(FrameType) /\ Shape(Tail(f), w)
         /\ 1 \in DOMAIN f /\ Head(f) = f[1]
         /\ Head(f).kind # "shutdown" =>
              /\ Head(f).id = w - Events(f) + 1
              /\ Events(Tail(f)) = Events(f) - 1
         /\ Head(f).kind = "shutdown" => Events(Tail(f)) = Events(f)
         /\ \A i \in DOMAIN Tail(f) : i + 1 \in DOMAIN f /\ Tail(f)[i] = f[i + 1]
<1> DEFINE g == Tail(f)
<1>1. /\ Head(f) = f[1] /\ g \in Seq(FrameType) /\ Len(g) = Len(f) - 1
      /\ \A i \in 1 .. Len(g) : g[i] = f[i + 1]
  BY HeadTailProperties
<1>2. Len(f) \in Nat /\ DOMAIN f = 1 .. Len(f) /\ Len(f) # 0
  BY LenProperties, EmptySeq
<1>3. DOMAIN g = 1 .. Len(f) - 1
  BY <1>1, LenProperties
<1> HIDE DEF g
<1>4. \A i \in DOMAIN g : i + 1 \in DOMAIN f /\ g[i] = f[i + 1]
  BY <1>1, <1>2, <1>3
<1>5. ASSUME NEW i \in 0 .. Len(f) - 1 PROVE Cut(g, i) = Cut(f, i + 1)
  <2>1. ASSUME NEW j \in DOMAIN g, j > i, g[j].kind = "shutdown"
        PROVE  \E h \in DOMAIN f : h > i + 1 /\ f[h].kind = "shutdown"
    <3>1. j + 1 \in DOMAIN f /\ f[j + 1].kind = "shutdown" /\ j + 1 > i + 1
      BY <1>2, <1>3, <1>4, <2>1
    <3> QED  BY <3>1
  <2>2. ASSUME NEW h \in DOMAIN f, h > i + 1, f[h].kind = "shutdown"
        PROVE  \E j \in DOMAIN g : j > i /\ g[j].kind = "shutdown"
    <3>1. h - 1 \in DOMAIN g /\ h - 1 + 1 = h /\ h - 1 > i
      BY <1>2, <1>3, <2>2
    <3>2. g[h - 1].kind = "shutdown"
      BY <1>4, <2>2, <3>1
    <3> QED  BY <3>1, <3>2
  <2> QED  BY <2>1, <2>2 DEF Cut
<1>6. ASSUME NEW i \in DOMAIN g, g[i].kind # "shutdown" PROVE g[i].id = w - Behind(g, i)
  <2>1. i + 1 \in DOMAIN f /\ g[i] = f[i + 1] /\ i \in Nat /\ i \in 0 .. Len(f) - 1
    BY <1>2, <1>3, <1>4
  <2>2. f[i + 1].id = w - Behind(f, i + 1)
    BY <1>6, <2>1 DEF Shape
  <2>3. Cut(g, i) = Cut(f, i + 1) /\ Cut(f, i + 1) \in {0, 1}
    BY <1>2, <1>5, <2>1 DEF Cut
  <2>4. Behind(g, i) = Behind(f, i + 1)
    BY <1>1, <1>2, <2>1, <2>3 DEF Behind
  <2> QED  BY <2>1, <2>2, <2>4
<1>7. ASSUME NEW i \in DOMAIN g, NEW j \in DOMAIN g, g[i].kind = "shutdown", g[j].kind = "shutdown"
      PROVE  i = j
  <2>1. i + 1 = j + 1 /\ i \in Nat /\ j \in Nat
    BY <1>2, <1>3, <1>4, <1>7 DEF Shape
  <2> QED  BY <2>1
<1>8. 1 \in DOMAIN f
  BY <1>2
<1>9. Cut(g, 0) = Cut(f, 1) /\ Cut(f, 0) \in {0, 1} /\ Cut(f, 1) \in {0, 1}
  BY <1>2, <1>5 DEF Cut
<1>10. f[1].kind # "shutdown" => Cut(f, 1) = Cut(f, 0)
  <2>1. ASSUME f[1].kind # "shutdown", NEW h \in DOMAIN f, h > 0, f[h].kind = "shutdown" PROVE h > 1
    BY <1>2, <2>1
  <2>2. ASSUME NEW h \in DOMAIN f, h > 1 PROVE h > 0
    BY <1>2, <2>2
  <2> QED  BY <2>1, <2>2 DEF Cut
<1>11. f[1].kind = "shutdown" => Cut(f, 1) = 0 /\ Cut(f, 0) = 1
  <2>1. ASSUME f[1].kind = "shutdown", NEW h \in DOMAIN f, h > 1, f[h].kind = "shutdown" PROVE FALSE
    <3>1. h = 1
      BY <1>8, <2>1 DEF Shape
    <3> QED  BY <2>1, <3>1
  <2> QED  BY <1>8, <2>1 DEF Cut
<1>12. f[1].kind # "shutdown" => f[1].id = w - Events(f) + 1 /\ Events(g) = Events(f) - 1
  <2>1. ASSUME f[1].kind # "shutdown"
        PROVE  Behind(f, 1) = Events(f) - 1 /\ Events(g) = Events(f) - 1 /\ Events(f) \in Nat
    <3>1. Cut(f, 1) = Cut(f, 0)
      BY <1>10, <2>1
    <3>2. Events(f) \in Nat
      BY <1>2, BehindIsSound
    <3> QED  BY <1>1, <1>2, <1>9, <3>1, <3>2 DEF Behind, Events
  <2>2. f[1].kind # "shutdown" => f[1].id = w - Behind(f, 1)
    BY <1>8 DEF Shape
  <2> QED  BY <2>1, <2>2
<1>13. f[1].kind = "shutdown" => Events(g) = Events(f)
  BY <1>1, <1>2, <1>9, <1>11 DEF Events
<1>14. Events(g) <= w
  <2>1. Events(f) \in Nat /\ Events(f) <= w
    BY <1>2, BehindIsSound DEF Shape
  <2> QED  BY <1>12, <1>13, <2>1
<1> QED  BY <1>1, <1>4, <1>6, <1>7, <1>8, <1>12, <1>13, <1>14 DEF Shape, g

(* What is replayed after the resume point.                                *)
LEMMA ReplayShape ==
  ASSUME Types, NEW r \in Runs, NEW after \in 0 .. run[r].seq, ~Gap(r, after),
         run[r].last # "event" => run[r].seq > 0
  PROVE  /\ Replayed(r, after) \in Seq(FrameType)
         /\ Shape(Replayed(r, after), run[r].seq)
         /\ Kinds(Replayed(r, after), run[r].seq, run[r].last)
         /\ Quiet(Replayed(r, after))
         /\ after > 0 => after >= run[r].seq - Events(Replayed(r, after))
         /\ Replayed(r, after) # <<>> <=> after < run[r].seq
<1> DEFINE s == run[r].seq
           from == IF after + 1 > MinSeq(r) THEN after + 1 ELSE MinSeq(r)
           f == Replayed(r, after)
           x(i) == Frame(IF from + i - 1 = s THEN run[r].last ELSE "event", from + i - 1)
<1>1. s \in 0 .. MaxSeq /\ s \in Nat /\ after \in Nat /\ after <= s /\ MaxSeq \in Nat
      /\ BufferMax \in Nat \ {0} /\ run[r].last \in {"event", "final", "error"}
  BY GatewayAssumption DEF Types, RunType
<1>2. MinSeq(r) \in Nat /\ MinSeq(r) <= s /\ (s > 0 => MinSeq(r) > 0)
  BY <1>1 DEF MinSeq
<1>3. from \in Nat /\ from > 0 /\ (after > 0 => from = after + 1) /\ (after < s => from <= s)
      /\ (after = s => from > s)
  BY <1>1, <1>2 DEF Gap
<1>4. f = IF s = 0 \/ from > s THEN <<>> ELSE [i \in 1 .. s - from + 1 |-> x(i)]
  BY DEF Replayed
<1> HIDE DEF from, f
<1>5. CASE s = 0 \/ from > s
  <2>1. f = <<>> /\ f \in Seq(FrameType) /\ Len(f) = 0
    BY <1>4, <1>5, EmptySeq
  <2>2. DOMAIN f = {}
    BY <2>1, LenProperties
  <2>3. Events(f) = 0
    BY <2>1, <2>2 DEF Events, Cut
  <2>4. Shape(f, s) /\ Kinds(f, s, run[r].last) /\ Quiet(f)
    BY <1>1, <2>2, <2>3 DEF Shape, Kinds, Quiet
  <2>5. ~(after < s)
    BY <1>1, <1>3, <1>5
  <2>6. after >= s - Events(f)
    BY <1>1, <2>3, <2>5
  <2> QED  BY <2>1, <2>4, <2>5, <2>6 DEF f
<1>6. CASE s # 0 /\ ~(from > s)
  <2>1. s - from + 1 \in Nat /\ s - from + 1 > 0 /\ after < s
    BY <1>1, <1>3, <1>6
  <2>2. \A i \in 1 .. s - from + 1 : x(i) \in FrameType /\ x(i).kind # "shutdown"
    BY <1>1, <1>3, <2>1 DEF Frame, FrameType
  <2>3. f = [i \in 1 .. s - from + 1 |-> x(i)]
    BY <1>4, <1>6
  <2> DEFINE n == s - from + 1
  <2> HIDE DEF x
  <2>4. f \in Seq(FrameType) /\ Len(f) = n /\ DOMAIN f = 1 .. n /\ \A i \in 1 .. n : f[i] = x(i)
    <3>1. f \in [1 .. n -> FrameType]
      BY <2>2, <2>3
    <3>2. f \in Seq(FrameType)
      BY <2>1, <3>1, SeqDef
    <3>3. Len(f) \in Nat /\ DOMAIN f = 1 .. Len(f)
      BY <3>2, LenProperties
    <3>4. DOMAIN f = 1 .. n
      BY <3>1
    <3>5. Len(f) = n
      BY <2>1, <3>3, <3>4
    <3> QED  BY <2>3, <3>2, <3>4, <3>5
  <2>5. Quiet(f)
    BY <2>2, <2>4 DEF Quiet
  <2>6. \A i \in 0 .. n : Cut(f, i) = 0
    BY <2>5 DEF Cut, Quiet
  <2>7. Events(f) = n
    BY <2>1, <2>4, <2>6 DEF Events
  <2>8. ASSUME NEW i \in DOMAIN f PROVE f[i].id = s - Behind(f, i)
    <3>1. f[i].id = from + i - 1
      <4>1. f[i] = x(i)
        BY <2>4
      <4> QED  BY <4>1 DEF x, Frame
    <3>2. Cut(f, i) = 0
      BY <2>4, <2>6
    <3>3. Behind(f, i) = n - i
      BY <2>1, <2>4, <3>2 DEF Behind
    <3>4. i \in Nat
      BY <2>4
    <3> QED  BY <1>1, <1>3, <3>1, <3>3, <3>4
  <2>9. Events(f) <= s
    BY <1>1, <1>3, <2>7
  <2>10. Shape(f, s)
    BY <2>5, <2>8, <2>9 DEF Shape, Quiet
  <2>11. Kinds(f, s, run[r].last)
    <3>1. ASSUME NEW i \in DOMAIN f
          PROVE  f[i].kind = IF f[i].id = s THEN run[r].last ELSE "event"
      <4>1. f[i] = x(i)
        BY <2>4
      <4> QED  BY <4>1 DEF x, Frame
    <3> QED  BY <3>1 DEF Kinds
  <2>12. after > 0 => after >= s - Events(f)
    BY <1>1, <1>3, <2>7
  <2>13. f # <<>>
    <3>1. Len(f) # 0
      BY <2>1, <2>4
    <3> QED  BY <2>4, <3>1, EmptySeq
  <2> QED  BY <2>1, <2>4, <2>5, <2>10, <2>11, <2>12, <2>13 DEF f
<1> QED  BY <1>1, <1>5, <1>6

-----------------------------------------------------------------------------
(* Lemmas on the state *)

OpenOn(r) == {k \in Conns : conn[k].open /\ conn[k].run = r}

Running == {r \in Runs : run[r].registered /\ run[r].status = "running"}

(* A connection that is in use.                                            *)
LEMMA InUse ==
  ASSUME Types, NEW k \in Conns,
         conn[k] # NoConn \/ conn[k].alive \/ conn[k].open \/ conn[k].subscribed \/ conn[k].ended
  PROVE  /\ conn[k] # NoConn /\ conn[k] \in ConnType /\ conn[k].run = Follows[conn[k].client]
         /\ conn[k].client \in Clients /\ conn[k].run \in Runs
<1>1. conn[k] # NoConn
  BY DEF NoConn
<1>2. conn[k] \in ConnType
  BY <1>1 DEF Types
<1> QED  BY <1>1, <1>2 DEF Types, ConnType

(* Fewer runs are recorded as running, or the same.                        *)
LEMMA CapKept ==
  ASSUME CapHolds,
         \A q \in Runs : run'[q].registered /\ run'[q].status = "running" =>
                           run[q].registered /\ run[q].status = "running"
  PROVE  CapHolds'
<1>1. Running' \subseteq Running /\ IsFiniteSet(Running)
  BY GatewayAssumption, FS_Subset DEF Running
<1>2. Cardinality(Running') <= Cardinality(Running) /\ Cardinality(Running) \in Nat
      /\ Cardinality(Running') \in Nat
  BY <1>1, FS_Subset, FS_CardinalityType
<1>3. RunningCount = Cardinality(Running) /\ RunningCount' = Cardinality(Running')
  BY DEF RunningCount, Running
<1> QED  BY <1>2, <1>3, GatewayAssumption DEF CapHolds

(* One more may be.                                                        *)
LEMMA CapTaken ==
  ASSUME RunningCount < MaxConcurrent, NEW r \in Runs,
         \A q \in Runs : q # r /\ run'[q].registered /\ run'[q].status = "running" =>
                           run[q].registered /\ run[q].status = "running"
  PROVE  CapHolds'
<1>1. Running' \subseteq Running \cup {r} /\ IsFiniteSet(Running)
  BY GatewayAssumption, FS_Subset DEF Running
<1>2. /\ IsFiniteSet(Running \cup {r})
      /\ Cardinality(Running \cup {r}) = IF r \in Running THEN Cardinality(Running)
                                         ELSE Cardinality(Running) + 1
  BY <1>1, FS_AddElement
<1>3. Cardinality(Running') <= Cardinality(Running \cup {r}) /\ Cardinality(Running) \in Nat
      /\ Cardinality(Running') \in Nat
  BY <1>1, <1>2, FS_Subset, FS_CardinalityType
<1>4. RunningCount = Cardinality(Running) /\ RunningCount' = Cardinality(Running')
  BY DEF RunningCount, Running
<1>5. Cardinality(Running \cup {r}) <= Cardinality(Running) + 1
  BY <1>2, <1>3
<1> QED  BY <1>2, <1>3, <1>4, <1>5, GatewayAssumption DEF CapHolds

(* What a step that leaves the connections alone may do to a run.          *)
RunKept(q) ==
  /\ run'[q].seq = run[q].seq /\ run'[q].last = run[q].last
  /\ run[q].exec \notin {"none", "body", "threw"} => run'[q].exec \notin {"none", "body", "threw"}
  /\ run[q].exec \notin {"none", "body", "threw"} /\ run[q].aborted => run'[q].aborted
  /\ run[q].registered /\ run[q].exec = "active" /\ OpenOn(q) # {} =>
       run'[q].registered /\ run'[q].exec = "active"
  /\ run'[q].registered => run'[q].refs = Cardinality(OpenOn(q))

(* A step of the runs alone.                                               *)
LEMMA RunsOnly ==
  ASSUME Inv, UNCHANGED <<conn, client, phase>>, run' \in [Runs -> RunType],
         \A q \in Runs : RunKept(q) /\ RunSound(q)', CapHolds'
  PROVE  Inv'
<1>1. Types'
  BY DEF Inv, Types
<1>2. ASSUME NEW k \in Conns PROVE ConnSound(k)'
  <2>1. ConnSound(k)
    BY DEF Inv
  <2>2. CASE conn[k] = NoConn
    BY <2>2 DEF ConnSound, NoConn
  <2>3. CASE conn[k] # NoConn
    <3> DEFINE q == conn[k].run
    <3>1. q \in Runs /\ RunKept(q)
      BY <2>3, InUse DEF Inv
    <3>2. conn[k].open => OpenOn(q) # {}
      BY DEF OpenOn
    <3>3. run[q].exec \notin {"none", "body", "threw"}
      BY <2>1, <2>3 DEF ConnSound
    <3> HIDE DEF q
    <3>4. conn'[k] = conn[k] /\ phase' = phase
      OBVIOUS
    <3>5. /\ conn[k].open => run'[q].registered /\ run'[q].exec = "active"
          /\ run'[q].seq = run[q].seq /\ run'[q].last = run[q].last
          /\ run'[q].exec \notin {"none", "body", "threw"}
          /\ run[q].aborted => run'[q].aborted
      BY <2>1, <3>1, <3>2, <3>3 DEF ConnSound, RunKept, q
    <3> QED  BY <2>1, <3>4, <3>5 DEF ConnSound, q
  <2> QED  BY <2>2, <2>3
<1>3. ASSUME NEW k \in Conns PROVE Streams(k)'
  <2>1. CASE ~conn[k].alive
    BY <2>1 DEF Streams
  <2>2. CASE conn[k].alive
    <3>1. conn[k].run \in Runs /\ Streams(k)
      BY <2>2, InUse DEF Inv
    <3>2. run'[conn[k].run].seq = run[conn[k].run].seq /\ run'[conn[k].run].last = run[conn[k].run].last
      BY <3>1 DEF RunKept
    <3> QED  BY <3>1, <3>2 DEF Streams
  <2> QED  BY <2>1, <2>2
<1>4. ASSUME NEW c \in Clients PROVE ClientSound(c)'
  <2>1. Follows[c] \in Runs /\ ClientSound(c)
    BY GatewayAssumption DEF Inv
  <2>2. run'[Follows[c]].seq = run[Follows[c]].seq /\ run'[Follows[c]].last = run[Follows[c]].last
    BY <2>1 DEF RunKept
  <2> QED  BY <2>1, <2>2 DEF ClientSound
<1>5. RefsCountSinks'
  BY DEF RefsCountSinks, RunKept, OpenOn
<1> QED  BY <1>1, <1>2, <1>3, <1>4, <1>5 DEF Inv

-----------------------------------------------------------------------------
(* Steps of the runs *)

(* A run that nobody follows: nothing is open on it.                       *)
LEMMA NothingOpen ==
  ASSUME Inv, NEW r \in Runs, run[r].exec # "active" \/ ~run[r].registered
  PROVE  OpenOn(r) = {} /\ Cardinality(OpenOn(r)) = 0
<1>1. OpenOn(r) = {}
  BY DEF OpenOn, Inv, ConnSound
<1> QED  BY <1>1, FS_EmptySet

(* Other runs are as they were.                                            *)
LEMMA OtherRun ==
  ASSUME Inv, NEW q \in Runs, run'[q] = run[q], UNCHANGED conn
  PROVE  RunKept(q) /\ RunSound(q)'
<1>1. RunSound(q)'
  BY DEF Inv, RunSound
<1>2. run[q].registered => run[q].refs = Cardinality(OpenOn(q))
  BY DEF Inv, RefsCountSinks, OpenOn
<1> QED  BY <1>1, <1>2 DEF RunKept

(* POST /runs arrives: its body is awaited.                                *)
LEMMA NextPostArrives == ASSUME Inv, NEW r \in Runs, PostArrives(r) PROVE Inv'
<1>1. /\ run[r].exec = "none" /\ run' = [run EXCEPT ![r].exec = "body"]
      /\ UNCHANGED <<conn, client, phase>> /\ run \in [Runs -> RunType]
  BY DEF PostArrives, Inv, Types
<1>2. run' \in [Runs -> RunType] /\ \A q \in Runs : q # r => run'[q] = run[q]
  BY <1>1 DEF RunType
<1>3. /\ run'[r].exec = "body" /\ run'[r].seq = run[r].seq /\ run'[r].last = run[r].last
      /\ run'[r].registered = run[r].registered /\ run'[r].status = run[r].status
      /\ run'[r].aborted = run[r].aborted /\ run'[r].refs = run[r].refs
  BY <1>1 DEF RunType
<1>4. RunKept(r) /\ RunSound(r)'
  <2>1. run[r].registered => run[r].refs = Cardinality(OpenOn(r))
    BY DEF Inv, RefsCountSinks, OpenOn
  <2> QED  BY <1>1, <1>3, <2>1 DEF Inv, RunSound, RunKept
<1>5. CapHolds'
  BY <1>2, <1>3, CapKept DEF Inv
<1> QED  BY <1>1, <1>2, <1>4, <1>5, OtherRun, RunsOnly

(* It is refused.                                                          *)
LEMMA NextPostRefused == ASSUME Inv, NEW r \in Runs, PostRefused(r) PROVE Inv'
<1>1. /\ run[r].exec = "body" /\ run' = [run EXCEPT ![r].exec = "none"]
      /\ UNCHANGED <<conn, client, phase>> /\ run \in [Runs -> RunType]
  BY DEF PostRefused, Inv, Types
<1>2. run' \in [Runs -> RunType] /\ \A q \in Runs : q # r => run'[q] = run[q]
  BY <1>1 DEF RunType
<1>3. /\ run'[r].exec = "none" /\ run'[r].seq = run[r].seq /\ run'[r].last = run[r].last
      /\ run'[r].registered = run[r].registered /\ run'[r].status = run[r].status
      /\ run'[r].aborted = run[r].aborted /\ run'[r].refs = run[r].refs
  BY <1>1 DEF RunType
<1>4. RunKept(r) /\ RunSound(r)'
  <2>1. run[r].registered => run[r].refs = Cardinality(OpenOn(r))
    BY DEF Inv, RefsCountSinks, OpenOn
  <2> QED  BY <1>1, <1>3, <2>1 DEF Inv, RunSound, RunKept
<1>5. CapHolds'
  BY <1>2, <1>3, CapKept DEF Inv
<1> QED  BY <1>1, <1>2, <1>4, <1>5, OtherRun, RunsOnly

(* A run is created, whether it begins or not.                             *)
LEMMA NextCreates == ASSUME Inv, NEW r \in Runs, PostCreates(r) \/ PostThrows(r) PROVE Inv'
<1>1. PICK exec \in {"active", "threw"} :
        run' = [run EXCEPT ![r] = [NewRun EXCEPT !.exec = exec, !.registered = TRUE]]
  BY DEF PostCreates, PostThrows
<1>2. /\ run[r].exec = "body" /\ RunningCount < MaxConcurrent
      /\ UNCHANGED <<conn, client, phase>> /\ run \in [Runs -> RunType]
  BY DEF PostCreates, PostThrows, Inv, Types
<1>3. run' \in [Runs -> RunType] /\ \A q \in Runs : q # r => run'[q] = run[q]
  <2>1. [NewRun EXCEPT !.exec = exec, !.registered = TRUE] \in RunType
    <3>1. 0 \in 0 .. MaxSeq
      BY GatewayAssumption
    <3>2. NewRun \in RunType
      BY <3>1 DEF RunType, NewRun
    <3> QED  BY <3>2 DEF RunType
  <2> QED  BY <1>1, <1>2, <2>1
<1>4. /\ run'[r].exec = exec /\ run'[r].seq = 0 /\ run'[r].last = "event"
      /\ run'[r].status = "running" /\ run'[r].refs = 0
  BY <1>1, <1>2 DEF NewRun
<1>5. run[r].seq = 0 /\ run[r].last = "event" /\ OpenOn(r) = {} /\ Cardinality(OpenOn(r)) = 0
  BY <1>2, NothingOpen DEF Inv, RunSound
<1>6. RunKept(r)
  BY <1>2, <1>4, <1>5 DEF RunKept
<1>7. RunSound(r)'
  BY <1>4, GatewayAssumption DEF RunSound
<1>8. CapHolds'
  BY <1>2, <1>3, CapTaken
<1> QED  BY <1>2, <1>3, <1>6, <1>7, <1>8, OtherRun, RunsOnly

(* A run is aborted: it goes on, but no longer counts as running.          *)
LEMMA NextAborts == ASSUME Inv, NEW r \in Runs, Aborts(r) PROVE Inv'
<1>1. /\ run' = [run EXCEPT ![r].aborted = TRUE,
                            ![r].status = IF @ = "running" THEN "aborted" ELSE @]
      /\ UNCHANGED <<conn, client, phase>> /\ run \in [Runs -> RunType]
  BY DEF Aborts, Inv, Types
<1>2. run' \in [Runs -> RunType] /\ \A q \in Runs : q # r => run'[q] = run[q]
  <2> DEFINE x == [run[r] EXCEPT !.aborted = TRUE,
                                 !.status = IF @ = "running" THEN "aborted" ELSE @]
  <2>1. x \in RunType
    BY <1>1 DEF RunType
  <2>2. run' = [run EXCEPT ![r] = x]
    BY <1>1
  <2> HIDE DEF x
  <2> QED  BY <1>1, <2>1, <2>2
<1>3. /\ run'[r].exec = run[r].exec /\ run'[r].seq = run[r].seq /\ run'[r].last = run[r].last
      /\ run'[r].registered = run[r].registered /\ run'[r].refs = run[r].refs
      /\ run'[r].status = (IF run[r].status = "running" THEN "aborted" ELSE run[r].status)
      /\ run'[r].aborted
  BY <1>1 DEF RunType
<1>4. RunKept(r) /\ RunSound(r)'
  <2>1. run[r].registered => run[r].refs = Cardinality(OpenOn(r))
    BY DEF Inv, RefsCountSinks, OpenOn
  <2> QED  BY <1>3, <2>1 DEF Inv, RunSound, RunKept
<1>5. CapHolds'
  BY <1>2, <1>3, CapKept DEF Inv
<1> QED  BY <1>1, <1>2, <1>4, <1>5, OtherRun, RunsOnly

(* The idle time of a run that is over passes.                             *)
LEMMA NextIdlePasses == ASSUME Inv, NEW r \in Runs, IdlePasses(r) PROVE Inv'
<1>1. /\ run' = [run EXCEPT ![r].idle = TRUE]
      /\ UNCHANGED <<conn, client, phase>> /\ run \in [Runs -> RunType]
  BY DEF IdlePasses, Inv, Types
<1> DEFINE x == [run[r] EXCEPT !.idle = TRUE]
<1>x. x \in RunType
  <2>1. run[r] \in RunType
    BY <1>1
  <2> QED  BY <2>1 DEF RunType
<1> HIDE DEF x
<1>2. run' \in [Runs -> RunType] /\ \A q \in Runs : q # r => run'[q] = run[q]
  <2>1. run' = [run EXCEPT ![r] = x]
    BY <1>1 DEF x
  <2> QED  BY <1>1, <1>x, <2>1
<1>3. /\ run'[r].exec = run[r].exec /\ run'[r].seq = run[r].seq /\ run'[r].last = run[r].last
      /\ run'[r].registered = run[r].registered /\ run'[r].refs = run[r].refs
      /\ run'[r].status = run[r].status /\ run'[r].aborted = run[r].aborted
  BY <1>1 DEF RunType
<1>4. RunKept(r) /\ RunSound(r)'
  <2>1. run[r].registered => run[r].refs = Cardinality(OpenOn(r))
    BY DEF Inv, RefsCountSinks, OpenOn
  <2> QED  BY <1>3, <2>1 DEF Inv, RunSound, RunKept
<1>5. CapHolds'
  BY <1>2, <1>3, CapKept DEF Inv
<1> QED  BY <1>1, <1>2, <1>4, <1>5, OtherRun, RunsOnly

(* GC takes no run with an open sink: its count would not be 0.            *)
LEMMA NextCollects == ASSUME Inv, Collects PROVE Inv'
<1>1. /\ run' = [q \in Runs |-> IF Collectable(q) THEN [run[q] EXCEPT !.registered = FALSE]
                                ELSE run[q]]
      /\ UNCHANGED <<conn, client, phase>> /\ run \in [Runs -> RunType]
  BY DEF Collects, Inv, Types
<1>2. ASSUME NEW q \in Runs
      PROVE  /\ run'[q] \in RunType
             /\ run'[q].exec = run[q].exec /\ run'[q].seq = run[q].seq
             /\ run'[q].last = run[q].last /\ run'[q].refs = run[q].refs
             /\ run'[q].status = run[q].status /\ run'[q].aborted = run[q].aborted
             /\ run'[q].registered => run[q].registered
             /\ run[q].registered /\ ~run'[q].registered => run[q].refs = 0
  BY <1>1 DEF RunType, Collectable
<1>3. run' \in [Runs -> RunType]
  <2>1. DOMAIN run' = Runs /\ run' = [q \in Runs |-> run'[q]]
    BY <1>1
  <2> QED  BY <1>2, <2>1
<1>4. ASSUME NEW q \in Runs PROVE RunKept(q) /\ RunSound(q)'
  <2>1. run[q].registered => run[q].refs = Cardinality(OpenOn(q))
    BY DEF Inv, RefsCountSinks, OpenOn
  <2>2. OpenOn(q) # {} => Cardinality(OpenOn(q)) # 0
    <3>1. IsFiniteSet(OpenOn(q))
      BY GatewayAssumption, FS_Subset DEF OpenOn
    <3> QED  BY <3>1, FS_EmptySet
  <2>3. RunKept(q)
    BY <1>2, <2>1, <2>2 DEF RunKept
  <2>4. RunSound(q)
    BY DEF Inv
  <2> QED  BY <1>2, <2>3, <2>4 DEF RunSound
<1>5. CapHolds'
  BY <1>2, CapKept DEF Inv
<1> QED  BY <1>1, <1>3, <1>4, <1>5, RunsOnly

-----------------------------------------------------------------------------
(* Steps that publish an event *)

(* The count that is left: of a registered run every sink is subscribed.   *)
LEMMA RefsThatAreLeft ==
  ASSUME Inv, NEW r \in Runs, run[r].registered, NEW kind
  PROVE  /\ RefsLeft(r, kind) = IF kind = "event" THEN run[r].refs ELSE 0
         /\ Subscribers(r) = OpenOn(r)
<1>1. Subscribers(r) = OpenOn(r)
  BY DEF Subscribers, OpenOn, Inv, ConnSound
<1>2. run[r].refs = Cardinality(OpenOn(r)) /\ run[r].refs \in Nat
  BY DEF Inv, RefsCountSinks, OpenOn, Types, RunType
<1> QED  BY <1>1, <1>2 DEF RefsLeft

(* A subscriber after the event.                                           *)
LEMMA WrittenConn ==
  ASSUME Inv, NEW k \in Conns, conn[k].subscribed, NEW kind \in {"event", "final", "error"},
         NEW id \in 0 .. MaxSeq
  PROVE  /\ Written(conn[k], kind, id) \in ConnType
         /\ Written(conn[k], kind, id).client = conn[k].client
         /\ Written(conn[k], kind, id).run = conn[k].run
         /\ Written(conn[k], kind, id).alive = conn[k].alive
         /\ Written(conn[k], kind, id).written = id
         /\ Written(conn[k], kind, id).open = (kind = "event")
         /\ Written(conn[k], kind, id).subscribed = (kind = "event")
         /\ Written(conn[k], kind, id).ended = (kind # "event")
         /\ Written(conn[k], kind, id).frames =
              IF conn[k].alive THEN Append(conn[k].frames, Frame(kind, id)) ELSE conn[k].frames
<1>1. conn[k] \in ConnType
  BY InUse DEF Inv
<1>2. Frame(kind, id) \in FrameType
  BY DEF Frame, FrameType
<1>3. Append(conn[k].frames, Frame(kind, id)) \in Seq(FrameType)
  BY <1>1, <1>2, AppendedFrame DEF ConnType
<1> DEFINE fs == IF conn[k].alive THEN Append(conn[k].frames, Frame(kind, id)) ELSE conn[k].frames
           last == kind \in {"final", "error"}
<1>4. fs \in Seq(FrameType)
  BY <1>1, <1>3 DEF ConnType
<1>5. Written(conn[k], kind, id) =
        [conn[k] EXCEPT !.frames = fs, !.written = id, !.open = ~last, !.subscribed = ~last, !.ended = last]
  BY DEF Written
<1>6. last = (kind # "event") /\ ~last = (kind = "event") /\ last \in BOOLEAN
  OBVIOUS
<1> HIDE DEF fs, last
<1>7. /\ Written(conn[k], kind, id) \in ConnType
      /\ Written(conn[k], kind, id).client = conn[k].client
      /\ Written(conn[k], kind, id).run = conn[k].run
      /\ Written(conn[k], kind, id).alive = conn[k].alive
      /\ Written(conn[k], kind, id).written = id
      /\ Written(conn[k], kind, id).open = ~last
      /\ Written(conn[k], kind, id).subscribed = ~last
      /\ Written(conn[k], kind, id).ended = last
      /\ Written(conn[k], kind, id).frames = fs
  BY <1>1, <1>4, <1>5, <1>6 DEF ConnType
<1> QED  BY <1>6, <1>7 DEF fs

(* Before a run's last event every event in a client's frames is a plain   *)
(* one, and older than the next.                                           *)
LEMMA OldKinds ==
  ASSUME Inv, NEW k \in Conns, conn[k].alive, run[conn[k].run].exec = "active",
         NEW last
  PROVE  Kinds(conn[k].frames, run[conn[k].run].seq + 1, last)
<1> DEFINE f == conn[k].frames  w == conn[k].written  q == conn[k].run
<1>1. conn[k] \in ConnType /\ q \in Runs
  BY InUse DEF Inv
<1>2. f \in Seq(FrameType) /\ w \in Nat /\ run[q].seq \in Nat
  BY <1>1 DEF ConnType, Inv, Types, RunType
<1>3. Streams(k) /\ run[q].last = "event"
  BY <1>1 DEF Inv, RunSound
<1>4. w <= run[q].seq /\ Shape(f, w) /\ Kinds(f, run[q].seq, "event")
  BY <1>3 DEF Streams
<1> HIDE DEF f, w, q
<1>5. ASSUME NEW i \in DOMAIN f, f[i].kind # "shutdown"
      PROVE  f[i].kind = IF f[i].id = run[q].seq + 1 THEN last ELSE "event"
  <2>1. f[i].kind = "event"
    BY <1>4, <1>5 DEF Kinds
  <2>2. i \in 0 .. Len(f)
    BY <1>2, LenProperties
  <2>3. f[i].id = w - Behind(f, i) /\ Behind(f, i) \in Nat
    BY <1>2, <1>4, <1>5, <2>2, BehindIsSound DEF Shape
  <2>4. f[i].id # run[q].seq + 1
    BY <1>2, <1>4, <2>3
  <2> QED  BY <2>1, <2>4
<1>6. Kinds(f, run[q].seq + 1, last)
  BY <1>5 DEF Kinds
<1> QED  BY <1>6 DEF f, q

(* registry.append() with everything it calls.                             *)
LEMMA Publishes ==
  ASSUME Inv, NEW r \in Runs, NEW kind \in {"event", "final", "error"},
         run[r].exec = "active", run[r].registered,
         conn' = Notified(r, kind), UNCHANGED <<client, phase>>,
         run' \in [Runs -> RunType], \A q \in Runs : q # r => run'[q] = run[q],
         run'[r].seq = run[r].seq + 1, run'[r].last = kind, run'[r].registered,
         run'[r].refs = RefsLeft(r, kind), run'[r].aborted = run[r].aborted,
         kind = "event" => run'[r].exec = "active" /\ run'[r].seq < MaxSeq,
         kind = "final" => run'[r].exec = "ended",
         kind = "error" => run'[r].exec = "settled" /\ run'[r].status = "error",
         kind # "error" => run'[r].status = run[r].status
  PROVE  Inv'
<1> DEFINE n == run[r].seq + 1
<1>1. run[r].seq \in Nat /\ run[r].seq < MaxSeq /\ run[r].last = "event" /\ n \in 0 .. MaxSeq
      /\ n \in Nat
  BY GatewayAssumption DEF Inv, RunSound, Types, RunType
<1>2. ASSUME NEW k \in Conns
      PROVE  /\ k \in Subscribers(r) => conn'[k] = Written(conn[k], kind, n)
             /\ k \notin Subscribers(r) => conn'[k] = conn[k]
  BY DEF Notified
<1>3. ASSUME NEW k \in Conns, k \in Subscribers(r)
      PROVE  /\ conn'[k] \in ConnType
             /\ conn'[k].client = conn[k].client /\ conn'[k].run = r /\ conn[k].run = r
             /\ conn'[k].alive = conn[k].alive /\ conn'[k].written = n
             /\ conn'[k].open = (kind = "event") /\ conn'[k].subscribed = (kind = "event")
             /\ conn'[k].ended = (kind # "event")
             /\ conn'[k].frames = IF conn[k].alive THEN Append(conn[k].frames, Frame(kind, n))
                                  ELSE conn[k].frames
  <2>1. conn[k].subscribed /\ conn[k].run = r
    BY <1>3 DEF Subscribers
  <2> HIDE DEF n
  <2> QED  BY <1>1, <1>2, <1>3, <2>1, WrittenConn
<1> HIDE DEF n
<1>4. Types'
  <2>1. conn' = [k \in Conns |-> conn'[k]]
    BY DEF Notified
  <2>2. \A k \in Conns : conn'[k] \in ConnType \cup {NoConn}
    BY <1>2, <1>3 DEF Inv, Types
  <2>3. ASSUME NEW k \in Conns, conn'[k] # NoConn PROVE conn'[k].run = Follows[conn'[k].client]
    <3>1. CASE k \in Subscribers(r)
      <4>1. conn[k].run = Follows[conn[k].client]
        BY <3>1, InUse DEF Subscribers, Inv
      <4> QED  BY <1>3, <3>1, <4>1
    <3>2. CASE k \notin Subscribers(r)
      BY <1>2, <2>3, <3>2 DEF Inv, Types
    <3> QED  BY <3>1, <3>2
  <2>4. conn' \in [Conns -> ConnType \cup {NoConn}]
    BY <2>1, <2>2
  <2> QED  BY <2>3, <2>4 DEF Inv, Types
<1>5. \A q \in Runs : RunSound(q)'
  <2>1. RunSound(r)'
    <3>1. /\ run'[r].exec \in {"active", "ended", "settled"} /\ run'[r].seq > 0
          /\ run'[r].status # "running" =>
               run[r].status # "running" \/ run'[r].last # "event"
          /\ run'[r].exec = "active" => kind = "event"
          /\ run'[r].exec = "ended" => kind = "final"
          /\ run'[r].exec = "settled" => run'[r].status # "running"
      BY <1>1
    <3>2. run[r].status # "running" => run[r].aborted
      BY <1>1 DEF Inv, RunSound
    <3> QED  BY <1>1, <3>1, <3>2 DEF RunSound
  <2>2. ASSUME NEW q \in Runs, q # r PROVE RunSound(q)'
    BY <2>2 DEF Inv, RunSound
  <2> QED  BY <2>1, <2>2
<1>6. ASSUME NEW k \in Conns PROVE ConnSound(k)'
  <2>1. CASE k \in Subscribers(r)
    <3>1. run'[r].exec \in {"active", "ended", "settled"} /\ run'[r].seq = n
      BY DEF n
    <3>2. /\ conn'[k].run = r /\ conn'[k].written = n
          /\ conn'[k].open = (kind = "event") /\ conn'[k].subscribed = (kind = "event")
          /\ conn'[k].ended = (kind # "event")
      BY <1>3, <2>1
    <3>3. /\ conn'[k].open <=> kind = "event"
          /\ conn'[k].subscribed <=> kind = "event"
          /\ conn'[k].ended <=> kind # "event"
      BY <3>2
    <3> QED  BY <3>1, <3>2, <3>3 DEF ConnSound
  <2>2. CASE k \notin Subscribers(r) /\ conn[k] = NoConn
    BY <1>2, <2>2 DEF ConnSound, NoConn
  <2>3. CASE k \notin Subscribers(r) /\ conn[k] # NoConn
    <3>1. conn'[k] = conn[k] /\ conn[k].run \in Runs /\ ConnSound(k) /\ phase' = phase
      BY <1>2, <2>3, InUse DEF Inv
    <3>2. CASE conn[k].run # r
      <4>1. run'[conn[k].run] = run[conn[k].run]
        BY <3>1, <3>2
      <4> QED  BY <3>1, <4>1 DEF ConnSound
    <3>3. CASE conn[k].run = r
      <4>1. ~conn[k].subscribed /\ ~conn[k].open
        BY <2>3, <3>1, <3>3 DEF Subscribers, ConnSound
      <4>2. conn[k].ended /\ phase # "exited" => run[r].aborted
        BY <1>1, <3>1, <3>3 DEF ConnSound
      <4>3. run'[r].exec \notin {"none", "body", "threw"}
        OBVIOUS
      <4> QED  BY <3>1, <3>3, <4>1, <4>2, <4>3 DEF ConnSound
    <3> QED  BY <3>2, <3>3
  <2> QED  BY <2>1, <2>2, <2>3
<1>7. \A k \in Conns : conn'[k].alive = conn[k].alive /\ (conn[k].alive => conn'[k].client = conn[k].client)
  BY <1>2, <1>3
<1>8. ASSUME NEW k \in Conns PROVE Streams(k)'
  <2>1. CASE ~conn[k].alive
    BY <1>7, <2>1 DEF Streams
  <2>2. CASE conn[k].alive
    <3> DEFINE f == conn[k].frames  w == conn[k].written
    <3>1. conn[k] \in ConnType /\ conn[k].run \in Runs /\ conn[k].client \in Clients
      BY <2>2, InUse DEF Inv
    <3>2. /\ w <= run[conn[k].run].seq /\ Shape(f, w)
          /\ Kinds(f, run[conn[k].run].seq, run[conn[k].run].last)
          /\ client[conn[k].client].last = 0 \/ client[conn[k].client].last >= w - Events(f)
          /\ phase \in {"up", "draining"} => Quiet(f)
          /\ client[conn[k].client].outcome \notin {"final", "error"}
          /\ \A j \in Conns : conn[j].alive /\ conn[j].client = conn[k].client => j = k
      BY <2>2 DEF Inv, Streams
    <3>3. f \in Seq(FrameType) /\ w \in Nat /\ client[conn[k].client].last \in Nat
      BY <3>1 DEF ConnType, Inv, Types, ClientType
    <3>4. \A j \in Conns : conn'[j].alive /\ conn'[j].client = conn[k].client => j = k
      BY <1>7, <3>2
    <3>5. CASE k \in Subscribers(r)
      <4> DEFINE x == Frame(kind, n)  g == Append(f, x)
      <4>1. /\ conn'[k].client = conn[k].client /\ conn'[k].run = r /\ conn[k].run = r
            /\ conn'[k].written = n /\ conn'[k].frames = g
        BY <1>3, <2>2, <3>5
      <4>2. w = run[r].seq
        BY <3>5 DEF Subscribers, Inv, ConnSound
      <4>3. x \in FrameType /\ x.kind = kind /\ x.kind # "shutdown" /\ x.id = n /\ n = w + 1
        BY <1>1, <4>2 DEF Frame, FrameType, n
      <4>4. Kinds(f, n, kind)
        BY <2>2, <4>1, OldKinds DEF n
      <4> HIDE DEF f, w, x
      <4>5. Shape(g, n) /\ Events(g) = Events(f) + 1 /\ Events(f) \in Nat
        <5>1. 0 \in 0 .. Len(f)
          BY <3>3, LenProperties
        <5> QED  BY <3>2, <3>3, <4>3, <5>1, EventAppended, BehindIsSound
      <4>6. /\ DOMAIN g = 1 .. Len(f) + 1 /\ \A i \in DOMAIN f : g[i] = f[i]
            /\ g[Len(f) + 1] = x /\ DOMAIN f = 1 .. Len(f) /\ Len(f) \in Nat
        BY <3>3, <4>3, AppendedFrame
      <4>7. \A i \in DOMAIN g : IF i \in DOMAIN f THEN g[i] = f[i] ELSE g[i] = x
        BY <4>6
      <4> HIDE DEF g
      <4>8. Kinds(g, n, kind)
        BY <4>3, <4>4, <4>7 DEF Kinds
      <4>9. phase \in {"up", "draining"} => Quiet(g)
        BY <3>2, <4>3, <4>7 DEF Quiet
      <4>10. client[conn[k].client].last = 0 \/ client[conn[k].client].last >= n - Events(g)
        BY <3>2, <3>3, <4>3, <4>5
      <4>11. run'[r].seq = n /\ run'[r].last = kind /\ n <= n
        BY <1>1 DEF n
      <4> QED  BY <3>2, <3>4, <4>1, <4>5, <4>8, <4>9, <4>10, <4>11 DEF Streams
    <3>6. CASE k \notin Subscribers(r)
      <4>1. conn'[k] = conn[k]
        BY <1>2, <3>6
      <4>2. CASE conn[k].run = r
        <5>1. Kinds(f, run'[r].seq, kind)
          BY <2>2, <4>2, OldKinds
        <5>2. w <= run'[r].seq
          BY <1>1, <3>2, <3>3, <4>2
        <5> QED  BY <3>2, <3>4, <4>1, <4>2, <5>1, <5>2 DEF Streams
      <4>3. CASE conn[k].run # r
        <5>1. run'[conn[k].run] = run[conn[k].run]
          BY <3>1, <4>3
        <5> QED  BY <3>2, <3>4, <4>1, <5>1 DEF Streams
      <4> QED  BY <4>2, <4>3
    <3> QED  BY <3>5, <3>6
  <2> QED  BY <2>1, <2>2
<1>9. ASSUME NEW c \in Clients PROVE ClientSound(c)'
  <2>1. Follows[c] \in Runs /\ ClientSound(c) /\ client[c].last \in Nat
    BY GatewayAssumption DEF Inv, Types, ClientType
  <2>2. CASE Follows[c] = r
    <3>1. client[c].last <= run[r].seq /\ client[c].outcome # "hole"
      BY <2>1, <2>2 DEF ClientSound
    <3>2. client[c].last <= run'[r].seq /\ client[c].last # run'[r].seq
      BY <1>1, <2>1, <3>1
    <3> QED  BY <2>2, <3>1, <3>2 DEF ClientSound
  <2>3. CASE Follows[c] # r
    <3>1. run'[Follows[c]] = run[Follows[c]]
      BY <2>1, <2>3
    <3> QED  BY <2>1, <3>1 DEF ClientSound
  <2> QED  BY <2>2, <2>3
<1>10. RefsCountSinks'
  <2>1. ASSUME NEW q \in Runs, q # r, run'[q].registered PROVE run'[q].refs = Cardinality(OpenOn(q)')
    <3>1. OpenOn(q)' = OpenOn(q)
      BY <1>2, <1>3, <2>1 DEF OpenOn
    <3> QED  BY <2>1, <3>1 DEF Inv, RefsCountSinks, OpenOn
  <2>2. run'[r].refs = Cardinality(OpenOn(r)')
    <3>1. Subscribers(r) = OpenOn(r) /\ run'[r].refs = IF kind = "event" THEN run[r].refs ELSE 0
      BY RefsThatAreLeft
    <3>2. CASE kind = "event"
      <4>1. OpenOn(r)' = OpenOn(r)
        BY <1>2, <1>3, <3>1, <3>2 DEF OpenOn
      <4> QED  BY <3>1, <3>2, <4>1 DEF Inv, RefsCountSinks, OpenOn
    <3>3. CASE kind # "event"
      <4>1. ASSUME NEW k \in Conns, conn'[k].open, conn'[k].run = r PROVE FALSE
        <5>1. k \notin Subscribers(r)
          BY <1>3, <3>3, <4>1
        <5>2. conn'[k] = conn[k]
          BY <1>2, <5>1
        <5> QED  BY <3>1, <4>1, <5>1, <5>2 DEF OpenOn
      <4>2. OpenOn(r)' = {}
        BY <4>1 DEF OpenOn
      <4> QED  BY <3>1, <3>3, <4>2, FS_EmptySet
    <3> QED  BY <3>2, <3>3
  <2> QED  BY <2>1, <2>2 DEF RefsCountSinks, OpenOn
<1>11. CapHolds'
  BY CapKept DEF Inv
<1> QED  BY <1>4, <1>5, <1>6, <1>8, <1>9, <1>10, <1>11 DEF Inv

(* onEvent, with the final event or another.                               *)
LEMMA NextEmits == ASSUME Inv, NEW r \in Runs, Emits(r) \/ EmitsFinal(r) PROVE Inv'
<1>1. /\ run[r].exec = "active" /\ UNCHANGED <<client, phase>>
      /\ run \in [Runs -> RunType] /\ run[r] \in RunType /\ run[r].seq < MaxSeq
  BY DEF Emits, EmitsFinal, Inv, Types, RunSound
<1>2. ASSUME run[r].registered, NEW kind \in {"event", "final"},
             NEW exec \in {"active", "ended"}, exec = "active" <=> kind = "event",
             kind = "event" => run[r].seq < MaxSeq - 1,
             conn' = Notified(r, kind),
             run' = [run EXCEPT ![r] = [Record(r, kind) EXCEPT !.exec = exec]]
      PROVE  Inv'
  <2> DEFINE refs == RefsLeft(r, kind)
  <2>1. refs \in Nat
    BY <1>1, <1>2, RefsThatAreLeft DEF RunType
  <2>2. run[r].seq + 1 \in 0 .. MaxSeq /\ (kind = "event" => run[r].seq + 1 < MaxSeq)
    BY <1>1, <1>2, GatewayAssumption DEF RunType
  <2> DEFINE x == [Record(r, kind) EXCEPT !.exec = exec]
  <2>3. /\ x \in RunType /\ x.seq = run[r].seq + 1 /\ x.last = kind /\ x.refs = refs
        /\ x.exec = exec /\ x.registered /\ x.status = run[r].status /\ x.aborted = run[r].aborted
    <3>1. x = [run[r] EXCEPT !.seq = run[r].seq + 1, !.idle = FALSE, !.refs = refs,
                             !.last = kind, !.exec = exec]
      BY <1>1 DEF Record, RunType
    <3> HIDE DEF x, refs
    <3> QED  BY <1>1, <1>2, <2>1, <2>2, <3>1 DEF RunType
  <2>4. run' = [run EXCEPT ![r] = x]
    BY <1>2
  <2> HIDE DEF x
  <2>5. run' \in [Runs -> RunType] /\ run'[r] = x /\ \A q \in Runs : q # r => run'[q] = run[q]
    BY <1>1, <2>3, <2>4
  <2>6. /\ kind \in {"event", "final", "error"} /\ kind # "error"
        /\ kind = "event" => x.exec = "active" /\ x.seq < MaxSeq
        /\ kind = "final" => x.exec = "ended"
    BY <1>2, <2>2, <2>3
  <2>7. /\ run'[r].seq = run[r].seq + 1 /\ run'[r].last = kind /\ run'[r].registered
        /\ run'[r].refs = RefsLeft(r, kind) /\ run'[r].aborted = run[r].aborted
        /\ kind = "event" => run'[r].exec = "active" /\ run'[r].seq < MaxSeq
        /\ kind = "final" => run'[r].exec = "ended"
        /\ run'[r].status = run[r].status
    BY <2>3, <2>5, <2>6
  <2>8. /\ run[r].exec = "active" /\ run[r].registered
        /\ conn' = Notified(r, kind) /\ UNCHANGED <<client, phase>>
    BY <1>1, <1>2
  <2> HIDE DEF refs
  <2> QED  BY <2>5, <2>6, <2>7, <2>8, Publishes
<1>3. CASE run[r].registered /\ Emits(r)
  <2>1. /\ conn' = Notified(r, "event") /\ run[r].seq < MaxSeq - 1
        /\ run' = [run EXCEPT ![r] = Record(r, "event")]
    BY <1>3 DEF Emits
  <2>2. Record(r, "event") = [Record(r, "event") EXCEPT !.exec = "active"]
    BY <1>1 DEF Record, RunType
  <2>3. run' = [run EXCEPT ![r] = [Record(r, "event") EXCEPT !.exec = "active"]]
    BY <2>1, <2>2
  <2> QED  BY <1>2, <1>3, <2>1, <2>3
<1>4. CASE run[r].registered /\ EmitsFinal(r)
  <2>1. /\ conn' = Notified(r, "final")
        /\ run' = [run EXCEPT ![r] = [Record(r, "final") EXCEPT !.exec = "ended"]]
    BY <1>4 DEF EmitsFinal
  <2> QED  BY <1>2, <1>4, <2>1
<1>5. CASE ~run[r].registered /\ Emits(r)
  BY <1>5 DEF Emits, Inv, Types, RunSound, ConnSound, Streams, ClientSound, RefsCountSinks,
              CapHolds, RunningCount
<1>6. CASE ~run[r].registered /\ EmitsFinal(r)
  <2>1. run' = [run EXCEPT ![r].exec = "ended"] /\ UNCHANGED conn
    BY <1>6 DEF EmitsFinal
  <2>2. run' \in [Runs -> RunType] /\ \A q \in Runs : q # r => run'[q] = run[q]
    BY <1>1, <2>1 DEF RunType
  <2>3. /\ run'[r].exec = "ended" /\ run'[r].seq = run[r].seq /\ run'[r].last = run[r].last
        /\ run'[r].registered = run[r].registered /\ run'[r].aborted = run[r].aborted
    BY <1>1, <2>1 DEF RunType
  <2>4. RunKept(r) /\ RunSound(r)'
    BY <1>1, <1>6, <2>3 DEF RunKept, RunSound, Inv
  <2>5. CapHolds'
    BY <1>6, <2>2, <2>3, CapKept DEF Inv
  <2> QED  BY <1>1, <2>1, <2>2, <2>4, <2>5, OtherRun, RunsOnly
<1> QED  BY <1>3, <1>4, <1>5, <1>6

(* The promise of a run is handled: by then no sink is left open.          *)
LEMMA NextRunResolves == ASSUME Inv, NEW r \in Runs, RunResolves(r) PROVE Inv'
<1>1. /\ run[r].exec = "ended" /\ UNCHANGED <<client, phase>>
      /\ run \in [Runs -> RunType] /\ run[r] \in RunType
  BY DEF RunResolves, Inv, Types
<1>2. PICK status \in {"running", "done", "error", "aborted"}, idle \in BOOLEAN :
        /\ run' = [run EXCEPT ![r] = [run[r] EXCEPT !.exec = "settled", !.status = status,
                                                    !.idle = idle]]
        /\ run[r].registered => /\ status # "running"
                                /\ conn' = Released(r, conn)
        /\ ~run[r].registered => conn' = conn
  <2>1. CASE run[r].registered
    BY <1>1, <2>1 DEF RunResolves, Finished
  <2>2. CASE ~run[r].registered
    <3>1. run' = [run EXCEPT ![r].exec = "settled"] /\ conn' = conn
      BY <2>2 DEF RunResolves
    <3>2. [run[r] EXCEPT !.exec = "settled"] =
            [run[r] EXCEPT !.exec = "settled", !.status = run[r].status, !.idle = run[r].idle]
      BY <1>1 DEF RunType
    <3>3. run[r].status \in {"running", "done", "error", "aborted"} /\ run[r].idle \in BOOLEAN
      BY <1>1 DEF RunType
    <3> QED  BY <2>2, <3>1, <3>2, <3>3
  <2> QED  BY <2>1, <2>2
<1>3. conn' = conn
  <2>1. CASE run[r].registered
    <3>1. \A k \in Conns : conn[k].run = r => conn[k].subscribed = FALSE
      <4>1. ASSUME NEW k \in Conns, conn[k].run = r, conn[k].subscribed PROVE FALSE
        BY <1>1, <4>1 DEF Inv, ConnSound
      <4>2. ASSUME NEW k \in Conns PROVE conn[k].subscribed \in BOOLEAN
        <5>1. CASE conn[k] = NoConn
          BY <5>1 DEF NoConn
        <5>2. CASE conn[k] # NoConn
          BY <5>2, InUse DEF Inv, ConnType
        <5> QED  BY <5>1, <5>2
      <4> QED  BY <4>1, <4>2
    <3>2. \A k \in Conns : conn[k].run = r => [conn[k] EXCEPT !.subscribed = FALSE] = conn[k]
      BY <3>1 DEF Inv, Types, ConnType, NoConn
    <3>3. conn' = [k \in Conns |-> conn[k]]
      BY <1>2, <2>1, <3>2 DEF Released
    <3> QED  BY <3>3 DEF Inv, Types
  <2> QED  BY <1>2, <2>1
<1>4. run' \in [Runs -> RunType] /\ \A q \in Runs : q # r => run'[q] = run[q]
  BY <1>1, <1>2 DEF RunType
<1>5. /\ run'[r].exec = "settled" /\ run'[r].seq = run[r].seq /\ run'[r].last = run[r].last
      /\ run'[r].registered = run[r].registered /\ run'[r].aborted = run[r].aborted
      /\ run'[r].status = status /\ run'[r].refs = run[r].refs
  BY <1>1, <1>2 DEF RunType
<1>6. RunKept(r) /\ RunSound(r)'
  <2>1. run[r].registered => run[r].refs = Cardinality(OpenOn(r))
    BY DEF Inv, RefsCountSinks, OpenOn
  <2> QED  BY <1>1, <1>2, <1>5, <2>1 DEF RunKept, RunSound, Inv
<1>7. CapHolds'
  BY <1>2, <1>4, <1>5, CapKept DEF Inv
<1> QED  BY <1>1, <1>3, <1>4, <1>6, <1>7, OtherRun, RunsOnly

(* run() rejects.                                                          *)
LEMMA NextRunRejects == ASSUME Inv, NEW r \in Runs, RunRejects(r) PROVE Inv'
<1>1. /\ run[r].exec = "active" /\ UNCHANGED <<client, phase>>
      /\ run \in [Runs -> RunType] /\ run[r] \in RunType /\ run[r].seq < MaxSeq
  BY DEF RunRejects, Inv, Types, RunSound
<1>2. CASE run[r].registered
  <2> DEFINE refs == RefsLeft(r, "error")
             x == Finished(Record(r, "error"), "error")
  <2>1. conn' = Notified(r, "error") /\ run' = [run EXCEPT ![r] = x]
    BY <1>2 DEF RunRejects
  <2>2. refs \in Nat /\ run[r].seq + 1 \in 0 .. MaxSeq
    BY <1>1, <1>2, RefsThatAreLeft, GatewayAssumption DEF RunType
  <2>3. /\ x \in RunType /\ x.seq = run[r].seq + 1 /\ x.last = "error" /\ x.refs = refs
        /\ x.exec = "settled" /\ x.registered /\ x.status = "error" /\ x.aborted = run[r].aborted
    <3>1. x = [run[r] EXCEPT !.seq = run[r].seq + 1, !.idle = FALSE, !.refs = refs,
                             !.last = "error", !.exec = "settled", !.status = "error"]
      BY <1>1 DEF Finished, Record, RunType
    <3> HIDE DEF x, refs
    <3> QED  BY <1>1, <1>2, <2>2, <3>1 DEF RunType
  <2> HIDE DEF x
  <2>4. run' \in [Runs -> RunType] /\ run'[r] = x /\ \A q \in Runs : q # r => run'[q] = run[q]
    BY <1>1, <2>1, <2>3
  <2> QED  BY <1>1, <1>2, <2>1, <2>3, <2>4, Publishes
<1>3. CASE ~run[r].registered
  <2>1. run' = [run EXCEPT ![r].exec = "settled"] /\ UNCHANGED conn
    BY <1>3 DEF RunRejects
  <2>2. run' \in [Runs -> RunType] /\ \A q \in Runs : q # r => run'[q] = run[q]
    BY <1>1, <2>1 DEF RunType
  <2>3. /\ run'[r].exec = "settled" /\ run'[r].seq = run[r].seq /\ run'[r].last = run[r].last
        /\ run'[r].registered = run[r].registered /\ run'[r].aborted = run[r].aborted
    BY <1>1, <2>1 DEF RunType
  <2>4. RunKept(r) /\ RunSound(r)'
    BY <1>1, <1>3, <2>3 DEF RunKept, RunSound, Inv
  <2>5. CapHolds'
    BY <1>3, <2>2, <2>3, CapKept DEF Inv
  <2> QED  BY <1>1, <2>1, <2>2, <2>4, <2>5, OtherRun, RunsOnly
<1> QED  BY <1>2, <1>3

-----------------------------------------------------------------------------
(* Steps of a connection *)

(* A step of one connection and its client, and of counts.                 *)
LEMMA ConnStep ==
  ASSUME Inv, NEW k \in Conns, NEW c \in Clients, phase' = phase,
         conn' \in [Conns -> ConnType \cup {NoConn}], \A j \in Conns : j # k => conn'[j] = conn[j],
         conn'[k] # NoConn => conn'[k].run = Follows[conn'[k].client],
         client' \in [Clients -> ClientType], \A d \in Clients : d # c => client'[d] = client[d],
         run' \in [Runs -> RunType],
         \A q \in Runs : /\ run'[q].seq = run[q].seq /\ run'[q].last = run[q].last
                         /\ run'[q].exec = run[q].exec /\ run'[q].registered = run[q].registered
                         /\ run'[q].status = run[q].status /\ run'[q].aborted = run[q].aborted,
         RefsCountSinks', ConnSound(k)', Streams(k)', ClientSound(c)',
         conn'[k].alive => conn'[k].client = c,
         client' # client \/ conn'[k].alive =>
           \A j \in Conns : j # k => ~(conn[j].alive /\ conn[j].client = c)
  PROVE  Inv'
<1>1. Types'
  BY DEF Inv, Types
<1>2. \A q \in Runs : RunSound(q)'
  BY DEF Inv, RunSound
<1>3. ASSUME NEW j \in Conns PROVE ConnSound(j)'
  <2>1. CASE j # k /\ conn[j] = NoConn
    BY <2>1 DEF ConnSound, NoConn
  <2>2. CASE j # k /\ conn[j] # NoConn
    <3>1. conn'[j] = conn[j] /\ conn[j].run \in Runs /\ ConnSound(j)
      BY <2>2, InUse DEF Inv
    <3> QED  BY <3>1 DEF ConnSound
  <2> QED  BY <2>1, <2>2
<1>4. ASSUME NEW j \in Conns PROVE Streams(j)'
  <2>1. CASE j # k /\ ~conn[j].alive
    BY <2>1 DEF Streams
  <2>2. CASE j # k /\ conn[j].alive
    <3>1. conn'[j] = conn[j] /\ conn[j].run \in Runs /\ Streams(j) /\ conn[j].client \in Clients
      BY <2>2, InUse DEF Inv
    <3>2. client'[conn[j].client] = client[conn[j].client]
      BY <2>2, <3>1
    <3>3. \A i \in Conns : conn'[i].alive /\ conn'[i].client = conn[j].client => i = j
      <4>1. ASSUME NEW i \in Conns, conn'[i].alive, conn'[i].client = conn[j].client PROVE i = j
        <5>1. CASE i = k
          BY <2>2, <4>1, <5>1
        <5>2. CASE i # k
          BY <2>2, <3>1, <4>1, <5>2 DEF Streams
        <5> QED  BY <5>1, <5>2
      <4> QED  BY <4>1
    <3>4. /\ run'[conn[j].run].seq = run[conn[j].run].seq
          /\ run'[conn[j].run].last = run[conn[j].run].last
      BY <3>1
    <3> QED  BY <2>2, <3>1, <3>2, <3>3, <3>4 DEF Streams
  <2> QED  BY <2>1, <2>2
<1>5. ASSUME NEW d \in Clients PROVE ClientSound(d)'
  <2>1. CASE d # c
    <3>1. Follows[d] \in Runs /\ ClientSound(d) /\ client'[d] = client[d]
      BY <2>1, GatewayAssumption DEF Inv
    <3> QED  BY <3>1 DEF ClientSound
  <2> QED  BY <2>1
<1>6. CapHolds'
  BY CapKept DEF Inv
<1> QED  BY <1>1, <1>2, <1>3, <1>4, <1>5, <1>6 DEF Inv

(* Such a step leaves the sinks alone.                                     *)
LEMMA SinksKept ==
  ASSUME Inv, NEW k \in Conns, \A j \in Conns : j # k => conn'[j] = conn[j], run' = run,
         conn'[k].open = conn[k].open, conn[k].open => conn'[k].run = conn[k].run
  PROVE  RefsCountSinks'
<1>1. ASSUME NEW q \in Runs PROVE OpenOn(q)' = OpenOn(q)
  BY DEF OpenOn
<1>2. ASSUME NEW q \in Runs, run'[q].registered PROVE run'[q].refs = Cardinality(OpenOn(q)')
  BY <1>1, <1>2 DEF Inv, RefsCountSinks, OpenOn
<1> QED  BY <1>2 DEF RefsCountSinks, OpenOn

(* The client stops reading.                                               *)
LEMMA StopsReading ==
  ASSUME Inv, NEW k \in Conns, conn[k].alive, conn' = [conn EXCEPT ![k] = Left(k)],
         NEW c \in Clients, conn[k].client = c,
         UNCHANGED <<run, phase>>, client' \in [Clients -> ClientType],
         \A d \in Clients : d # c => client'[d] = client[d],
         ClientSound(c)'
  PROVE  Inv'
<1>1. conn[k] \in ConnType /\ conn[k] # NoConn /\ conn[k].run = Follows[c]
  BY InUse DEF Inv
<1>2. /\ conn \in [Conns -> ConnType \cup {NoConn}] /\ run \in [Runs -> RunType]
      /\ ConnSound(k) /\ Streams(k)
  BY DEF Inv, Types
<1>3. conn'[k] = Left(k) /\ \A j \in Conns : j # k => conn'[j] = conn[j]
  BY <1>2
<1>4. /\ Left(k) \in ConnType \cup {NoConn} /\ ~Left(k).alive /\ Left(k).open = conn[k].open
      /\ Left(k) # NoConn => Left(k).run = conn[k].run /\ Left(k).client = c
      /\ Left(k).subscribed => conn[k].open
      /\ conn[k].open => /\ Left(k).run = conn[k].run /\ Left(k).subscribed
                         /\ Left(k).written = conn[k].written /\ Left(k).ended = conn[k].ended
      /\ Left(k).ended => conn[k].open
  <2>1. CASE conn[k].open
    <3>1. Left(k) = [conn[k] EXCEPT !.alive = FALSE, !.frames = <<>>]
      BY <2>1 DEF Left
    <3>2. <<>> \in Seq(FrameType)
      BY EmptySeq
    <3>3. conn[k].subscribed
      BY <1>2, <2>1 DEF ConnSound
    <3> QED  BY <1>1, <2>1, <3>1, <3>2, <3>3 DEF ConnType
  <2>2. CASE ~conn[k].open
    <3>1. Left(k) = NoConn
      BY <2>2 DEF Left
    <3>2. conn[k].open = FALSE
      BY <1>1, <2>2 DEF ConnType
    <3>3. ~NoConn.alive /\ NoConn.open = FALSE /\ ~NoConn.subscribed /\ ~NoConn.ended
      BY DEF NoConn
    <3> QED  BY <2>2, <3>1, <3>2, <3>3
  <2> QED  BY <2>1, <2>2
<1>5. conn' \in [Conns -> ConnType \cup {NoConn}]
  BY <1>2, <1>4
<1>6. ConnSound(k)'
  <2>1. ConnSound(k) /\ run' = run
    BY <1>2
  <2>2. conn'[k] # NoConn => run[conn'[k].run].exec \notin {"none", "body", "threw"}
    BY <1>1, <1>3, <1>4, <2>1 DEF ConnSound
  <2>3. conn'[k].open <=> conn'[k].subscribed
    BY <1>3, <1>4
  <2>4. conn'[k].open =>
          /\ ~conn'[k].ended /\ conn'[k].run = conn[k].run /\ conn'[k].written = conn[k].written
          /\ conn[k].open
    BY <1>3, <1>4, <2>1 DEF ConnSound
  <2>5. ~conn'[k].ended
    BY <1>3, <1>4, <2>4
  <2> QED  BY <2>1, <2>2, <2>3, <2>4, <2>5 DEF ConnSound
<1>7. Streams(k)'
  BY <1>3, <1>4 DEF Streams
<1>8. \A j \in Conns : j # k => ~(conn[j].alive /\ conn[j].client = c)
  BY <1>2 DEF Streams
<1>9. RefsCountSinks'
  BY <1>3, <1>4, SinksKept
<1>10. conn'[k] # NoConn => conn'[k].run = Follows[conn'[k].client]
  BY <1>1, <1>3, <1>4
<1>11. ~conn'[k].alive
  BY <1>3, <1>4
<1> QED  BY <1>2, <1>3, <1>5, <1>6, <1>7, <1>8, <1>9, <1>10, <1>11, ConnStep

(* It comes back without the run's last event, or with its error.          *)
LEMMA NextLeaves ==
  ASSUME Inv, NEW k \in Conns, conn[k].alive, NEW outcome \in {"lost", "error"}, Leaves(k, outcome)
  PROVE  Inv'
<1>1. PICK c \in Clients : conn[k].client = c
  BY InUse DEF Inv
<1>2. /\ conn' = [conn EXCEPT ![k] = Left(k)] /\ UNCHANGED <<run, phase>>
      /\ client' = [client EXCEPT ![c].outcome = outcome]
      /\ client \in [Clients -> ClientType]
  BY <1>1 DEF Leaves, Inv, Types
<1>3. client' \in [Clients -> ClientType] /\ \A d \in Clients : d # c => client'[d] = client[d]
  BY <1>2 DEF ClientType
<1>4. client'[c].last = client[c].last /\ client'[c].outcome = outcome
  BY <1>2 DEF ClientType
<1>5. ClientSound(c) /\ client[c].outcome # "final"
  BY <1>1 DEF Inv, Streams
<1>6. ClientSound(c)'
  BY <1>2, <1>4, <1>5 DEF ClientSound
<1> QED  BY <1>1, <1>2, <1>3, <1>6, StopsReading

(* A frame is read, and the client goes on.                                *)
LEMMA ReadsOn ==
  ASSUME Inv, NEW k \in Conns, conn[k].alive, conn[k].frames # <<>>,
         conn' = [conn EXCEPT ![k] = [conn[k] EXCEPT !.frames = Tail(conn[k].frames)]],
         NEW c \in Clients, conn[k].client = c,
         UNCHANGED <<run, phase>>, client' \in [Clients -> ClientType],
         \A d \in Clients : d # c => client'[d] = client[d],
         ClientSound(c)', client'[c].outcome \notin {"final", "error"},
         \/ client'[c].last = 0
         \/ client'[c].last >= conn[k].written - Events(Tail(conn[k].frames))
  PROVE  Inv'
<1> DEFINE f == conn[k].frames  w == conn[k].written
<1>1. conn[k] \in ConnType /\ conn[k] # NoConn /\ conn[k].run = Follows[c] /\ conn[k].run \in Runs
  BY InUse DEF Inv
<1>2. /\ conn \in [Conns -> ConnType \cup {NoConn}] /\ run \in [Runs -> RunType]
      /\ ConnSound(k) /\ Streams(k)
  BY DEF Inv, Types
<1>3. f \in Seq(FrameType) /\ w \in Nat /\ f # <<>>
  BY <1>1 DEF ConnType
<1>4. /\ Shape(f, w) /\ Kinds(f, run[conn[k].run].seq, run[conn[k].run].last)
      /\ w <= run[conn[k].run].seq
      /\ phase \in {"up", "draining"} => Quiet(f)
      /\ \A j \in Conns : conn[j].alive /\ conn[j].client = conn[k].client => j = k
  BY <1>2 DEF Streams
<1>5. /\ Tail(f) \in Seq(FrameType) /\ Shape(Tail(f), w)
      /\ \A i \in DOMAIN Tail(f) : i + 1 \in DOMAIN f /\ Tail(f)[i] = f[i + 1]
  BY <1>3, <1>4, FrameRead
<1>6. /\ Kinds(Tail(f), run[conn[k].run].seq, run[conn[k].run].last)
      /\ phase \in {"up", "draining"} => Quiet(Tail(f))
  BY <1>4, <1>5 DEF Kinds, Quiet
<1> DEFINE x == [conn[k] EXCEPT !.frames = Tail(f)]
<1>7. /\ conn' = [conn EXCEPT ![k] = x]
      /\ x \in ConnType /\ x.frames = Tail(f) /\ x.written = w /\ x.run = conn[k].run
      /\ x.client = c /\ x.alive /\ x.open = conn[k].open
      /\ x.subscribed = conn[k].subscribed /\ x.ended = conn[k].ended
  BY <1>1, <1>5 DEF ConnType
<1> HIDE DEF f, w, x
<1>8. /\ x \in ConnType
      /\ conn'[k].frames = Tail(f) /\ conn'[k].written = w /\ conn'[k].run = conn[k].run
      /\ conn'[k].client = c /\ conn'[k].alive /\ conn'[k].open = conn[k].open
      /\ conn'[k].subscribed = conn[k].subscribed /\ conn'[k].ended = conn[k].ended
      /\ \A j \in Conns : j # k => conn'[j] = conn[j]
  BY <1>2, <1>7
<1>9. conn' \in [Conns -> ConnType \cup {NoConn}]
  BY <1>2, <1>7, <1>8
<1>10. ConnSound(k)'
  BY <1>1, <1>2, <1>8 DEF ConnSound, w
<1>11. \A j \in Conns : j # k => ~(conn[j].alive /\ conn[j].client = c)
  BY <1>4
<1>12. Streams(k)'
  <2>1. \A j \in Conns : conn'[j].alive /\ conn'[j].client = c => j = k
    BY <1>8, <1>11
  <2>2. client'[c].last = 0 \/ client'[c].last >= w - Events(Tail(f))
    BY DEF f, w
  <2> QED  BY <1>4, <1>5, <1>6, <1>8, <2>1, <2>2 DEF Streams
<1>13. RefsCountSinks'
  BY <1>8, SinksKept
<1> QED  BY <1>1, <1>2, <1>8, <1>9, <1>10, <1>11, <1>12, <1>13, ConnStep

(* The first of the frames, if it is an event: the client needs it next or *)
(* has it already.                                                         *)
LEMMA HeadIsDue ==
  ASSUME Inv, NEW k \in Conns, HasFrame(k, {"event", "final"}), NEW c \in Clients,
         conn[k].client = c
  PROVE  /\ conn[k].alive /\ conn[k].frames # <<>>
         /\ Head1(k).id \in 1 .. run[Follows[c]].seq /\ Head1(k).id \in 0 .. MaxSeq
         /\ client[c].last = 0 \/ client[c].last >= Head1(k).id - 1
         /\ Head1(k).id = conn[k].written - Events(Tail(conn[k].frames))
         /\ Head1(k).id = run[Follows[c]].seq /\ run[Follows[c]].last = "final" =>
              Head1(k).kind = "final"
         /\ client[c].outcome \notin {"final", "error"}
         /\ client[c].last \in Nat
<1> DEFINE f == conn[k].frames  w == conn[k].written  h == Head1(k)
<1>1. conn[k].alive /\ f # <<>> /\ h = Head(f) /\ h.kind \in {"event", "final"}
  BY DEF HasFrame, Head1
<1>2. conn[k] \in ConnType /\ conn[k].run = Follows[c] /\ conn[k].run \in Runs
  BY <1>1, InUse DEF Inv
<1>3. f \in Seq(FrameType) /\ w \in Nat /\ client[c].last \in Nat /\ run[Follows[c]].seq \in Nat
  BY <1>2 DEF ConnType, Inv, Types, ClientType, RunType
<1>4. /\ Shape(f, w) /\ Kinds(f, run[Follows[c]].seq, run[Follows[c]].last)
      /\ w <= run[Follows[c]].seq
      /\ client[c].last = 0 \/ client[c].last >= w - Events(f)
      /\ client[c].outcome \notin {"final", "error"}
  BY <1>1, <1>2 DEF Inv, Streams
<1>5. /\ 1 \in DOMAIN f /\ h = f[1] /\ h.id = w - Events(f) + 1
      /\ Events(Tail(f)) = Events(f) - 1 /\ Tail(f) \in Seq(FrameType)
  <2> HIDE DEF f, w, h
  <2> QED  BY <1>1, <1>3, <1>4, FrameRead
<1>6. Events(f) \in Nat /\ Events(f) <= w /\ Events(Tail(f)) \in Nat
  <2> HIDE DEF f, w
  <2>1. 0 \in 0 .. Len(f) /\ 0 \in 0 .. Len(Tail(f))
    BY <1>3, <1>5, LenProperties
  <2> QED  BY <1>3, <1>4, <1>5, <2>1, BehindIsSound DEF Shape
<1>7. h \in FrameType
  <2> HIDE DEF f
  <2> QED  BY <1>3, <1>5, ElementOfSeq, LenProperties
<1>8. h.id = run[Follows[c]].seq /\ run[Follows[c]].last = "final" => h.kind = "final"
  BY <1>1, <1>4, <1>5 DEF Kinds
<1>9. h.id \in 0 .. MaxSeq
  BY <1>7 DEF FrameType
<1> HIDE DEF f, w, h
<1>10. h.id = w - Events(Tail(f)) /\ h.id >= 1 /\ h.id <= w /\ h.id \in Nat
  BY <1>3, <1>5, <1>6
<1>11. h.id \in 1 .. run[Follows[c]].seq
  BY <1>3, <1>4, <1>10
<1>12. client[c].last = 0 \/ client[c].last >= h.id - 1
  BY <1>3, <1>4, <1>5, <1>6
<1> QED  BY <1>1, <1>3, <1>4, <1>8, <1>9, <1>10, <1>11, <1>12 DEF f, w, h

(* Data is never refused for a hole.                                       *)
LEMMA NextReadsData == ASSUME Inv, NEW k \in Conns, ReadsData(k) PROVE Inv'
<1>1. HasFrame(k, {"event", "final"}) /\ UNCHANGED <<run, phase>>
  BY DEF ReadsData
<1>2. PICK c \in Clients : conn[k].client = c
  BY <1>1, InUse DEF HasFrame, Inv
<1> DEFINE id == Head1(k).id  final == Head1(k).kind = "final"
<1>3. /\ conn[k].alive /\ conn[k].frames # <<>>
      /\ id \in 1 .. run[Follows[c]].seq /\ id \in 0 .. MaxSeq
      /\ client[c].last = 0 \/ client[c].last >= id - 1
      /\ id = conn[k].written - Events(Tail(conn[k].frames))
      /\ id = run[Follows[c]].seq /\ run[Follows[c]].last = "final" => final
      /\ client[c].outcome \notin {"final", "error"}
      /\ client[c].last \in Nat
  BY <1>1, <1>2, HeadIsDue
<1>4. /\ client \in [Clients -> ClientType] /\ ClientSound(c) /\ id \in Nat
      /\ run[Follows[c]].seq \in Nat
  BY <1>3, GatewayAssumption DEF Inv, Types, RunType
<1> DEFINE over == [client EXCEPT ![c].last = id,
                                  ![c].first = IF client[c].last = 0 THEN id ELSE @,
                                  ![c].outcome = IF final THEN "final" ELSE @]
<1>5. \/ /\ id <= client[c].last /\ client' = client
         /\ conn' = [conn EXCEPT ![k].frames = Tail(@)]
      \/ /\ client' = over
         /\ conn' = [conn EXCEPT ![k] = IF final THEN Left(k)
                                       ELSE [conn[k] EXCEPT !.frames = Tail(conn[k].frames)]]
  <2>1. ~(client[c].last # 0 /\ id > client[c].last + 1)
    BY <1>3, <1>4
  <2>2. \/ /\ id <= client[c].last /\ client' = client
           /\ conn' = [conn EXCEPT ![k].frames = Tail(@)]
        \/ client[c].last # 0 /\ id > client[c].last + 1
        \/ /\ client' = over
           /\ conn' = [conn EXCEPT ![k] = IF final THEN Left(k)
                                         ELSE [conn[k] EXCEPT !.frames = Tail(conn[k].frames)]]
    BY <1>2 DEF ReadsData
  <2> HIDE DEF over, final, id
  <2> QED  BY <2>1, <2>2
<1>6. /\ over \in [Clients -> ClientType] /\ \A d \in Clients : d # c => over[d] = client[d]
      /\ over[c].last = id /\ over[c].outcome = IF final THEN "final" ELSE client[c].outcome
  <2> HIDE DEF id, final
  <2>1. final \in BOOLEAN
    BY DEF final
  <2>2. client[c] \in ClientType
    BY <1>4
  <2> DEFINE x == [client[c] EXCEPT !.last = id,
                                    !.first = IF client[c].last = 0 THEN id ELSE @,
                                    !.outcome = IF final THEN "final" ELSE @]
  <2>3. x \in ClientType /\ x.last = id /\ x.outcome = IF final THEN "final" ELSE client[c].outcome
    BY <1>3, <2>1, <2>2 DEF ClientType
  <2>4. over = [client EXCEPT ![c] = x]
    BY <1>4, <2>2 DEF ClientType
  <2> HIDE DEF x, over
  <2> QED  BY <1>4, <2>3, <2>4
<1> HIDE DEF over, id, final
<1>7. CASE id <= client[c].last /\ client' = client /\ conn' = [conn EXCEPT ![k].frames = Tail(@)]
  <2>1. ClientSound(c)'
    BY <1>1, <1>4, <1>7 DEF ClientSound
  <2>2. client'[c].last >= conn[k].written - Events(Tail(conn[k].frames))
    BY <1>3, <1>4, <1>7
  <2>3. client' \in [Clients -> ClientType] /\ client'[c].outcome \notin {"final", "error"}
    BY <1>3, <1>4, <1>7
  <2> QED  BY <1>1, <1>2, <1>3, <1>7, <2>1, <2>2, <2>3, ReadsOn
<1>8. CASE /\ client' = over
           /\ conn' = [conn EXCEPT ![k] = IF final THEN Left(k)
                                         ELSE [conn[k] EXCEPT !.frames = Tail(conn[k].frames)]]
  <2>1. ClientSound(c)'
    <3>1. client'[c].last = id /\ client'[c].outcome = IF final THEN "final" ELSE client[c].outcome
      BY <1>6, <1>8
    <3>2. client'[c].last <= run'[Follows[c]].seq
      BY <1>1, <1>3, <1>4, <3>1
    <3>3. client'[c].outcome # "hole"
      BY <1>4, <3>1 DEF ClientSound
    <3>4. client'[c].last = run'[Follows[c]].seq /\ run'[Follows[c]].last = "final" =>
            client'[c].outcome = "final"
      BY <1>1, <1>3, <3>1
    <3> QED  BY <3>2, <3>3, <3>4 DEF ClientSound
  <2>2. client' \in [Clients -> ClientType] /\ \A d \in Clients : d # c => client'[d] = client[d]
    BY <1>6, <1>8
  <2>3. CASE final
    <3>1. conn' = [conn EXCEPT ![k] = Left(k)]
      BY <1>8, <2>3
    <3> QED  BY <1>1, <1>2, <1>3, <2>1, <2>2, <3>1, StopsReading
  <2>4. CASE ~final
    <3>1. conn' = [conn EXCEPT ![k] = [conn[k] EXCEPT !.frames = Tail(conn[k].frames)]]
      BY <1>8, <2>4
    <3>2. client'[c].outcome \notin {"final", "error"}
      BY <1>3, <1>6, <1>8, <2>4
    <3>3. client'[c].last >= conn[k].written - Events(Tail(conn[k].frames))
      BY <1>3, <1>4, <1>6, <1>8
    <3> QED  BY <1>1, <1>2, <1>3, <2>1, <2>2, <3>1, <3>2, <3>3, ReadsOn
  <2> QED  BY <2>3, <2>4
<1> QED  BY <1>5, <1>7, <1>8

(* The end of the stream, seen by the client.                              *)
LEMMA NextEnds ==
  ASSUME Inv, NEW k \in Conns, ReadsEnd(k) \/ SeesEnd(k) \/ Breaks(k)
  PROVE  Inv'
<1>1. CASE conn[k].alive /\ (Leaves(k, "error") \/ Leaves(k, "lost"))
  BY <1>1, NextLeaves
<1>2. CASE /\ HasFrame(k, {"shutdown"}) /\ conn' = [conn EXCEPT ![k].frames = Tail(@)]
           /\ UNCHANGED <<run, client, phase>>
  <2>1. PICK c \in Clients : conn[k].client = c
    BY <1>2, InUse DEF HasFrame, Inv
  <2>2. conn[k].alive /\ conn[k].frames # <<>> /\ Head(conn[k].frames).kind = "shutdown"
    BY <1>2 DEF HasFrame, Head1
  <2>3. Streams(k) /\ ClientSound(c) /\ client \in [Clients -> ClientType] /\ conn[k] \in ConnType
    BY <2>2, InUse DEF Inv, Types
  <2>4. conn[k].frames \in Seq(FrameType) /\ conn[k].written \in Nat
    BY <2>3 DEF ConnType
  <2>5. Events(Tail(conn[k].frames)) = Events(conn[k].frames)
    BY <2>2, <2>3, <2>4, FrameRead DEF Streams
  <2>6. ClientSound(c)'
    BY <1>2, <2>3 DEF ClientSound
  <2>7. client'[c].last = 0 \/ client'[c].last >= conn[k].written - Events(Tail(conn[k].frames))
    BY <1>2, <2>1, <2>2, <2>3, <2>5 DEF Streams
  <2>8. client'[c].outcome \notin {"final", "error"} /\ client' = client
    BY <1>2, <2>1, <2>2, <2>3 DEF Streams
  <2> QED  BY <1>2, <2>1, <2>2, <2>3, <2>6, <2>7, <2>8, ReadsOn
<1> QED  BY <1>1, <1>2 DEF ReadsEnd, SeesEnd, Breaks, HasFrame

(* A count that sinks are opened and closed under: one run's sinks change  *)
(* by one connection, and its count with them.                             *)
LEMMA SinkMoved ==
  ASSUME Inv, NEW k \in Conns, NEW r \in Runs, \A j \in Conns : j # k => conn'[j] = conn[j],
         conn[k].open => conn[k].run = r, conn'[k].open => conn'[k].run = r,
         \A q \in Runs : q # r => run'[q] = run[q],
         run[r].registered /\ run'[r].registered,
         \/ conn[k].open /\ ~conn'[k].open /\ run'[r].refs = run[r].refs - 1
         \/ ~conn[k].open /\ conn'[k].open /\ run'[r].refs = run[r].refs + 1
         \/ ~conn[k].open /\ ~conn'[k].open /\ run'[r].refs = run[r].refs
  PROVE  /\ RefsCountSinks'
         /\ run'[r].refs \in Nat
<1>1. ASSUME NEW q \in Runs, q # r PROVE OpenOn(q)' = OpenOn(q)
  BY <1>1 DEF OpenOn
<1>2. ASSUME NEW q \in Runs, q # r, run'[q].registered PROVE run'[q].refs = Cardinality(OpenOn(q)')
  BY <1>1, <1>2 DEF Inv, RefsCountSinks, OpenOn
<1>3. IsFiniteSet(OpenOn(r)) /\ run[r].refs = Cardinality(OpenOn(r))
  <2>1. OpenOn(r) \subseteq Conns
    BY DEF OpenOn
  <2> QED  BY <2>1, GatewayAssumption, FS_Subset DEF Inv, RefsCountSinks, OpenOn
<1>4. Cardinality(OpenOn(r)) \in Nat
  BY <1>3, FS_CardinalityType
<1>5. CASE conn[k].open /\ ~conn'[k].open /\ run'[r].refs = run[r].refs - 1
  <2>1. OpenOn(r)' = OpenOn(r) \ {k} /\ k \in OpenOn(r)
    BY <1>5 DEF OpenOn
  <2>2. Cardinality(OpenOn(r) \ {k}) = Cardinality(OpenOn(r)) - 1 /\ IsFiniteSet(OpenOn(r) \ {k})
    BY <1>3, <2>1, FS_RemoveElement
  <2>3. Cardinality(OpenOn(r) \ {k}) \in Nat
    <3>1. \A S : IsFiniteSet(S) => Cardinality(S) \in Nat
      BY FS_CardinalityType
    <3> QED  BY <2>2, <3>1
  <2>4. run'[r].refs = Cardinality(OpenOn(r)') /\ run'[r].refs \in Nat
    BY <1>3, <1>5, <2>1, <2>2, <2>3
  <2> QED  BY <1>2, <2>4 DEF RefsCountSinks, OpenOn
<1>6. CASE ~conn[k].open /\ conn'[k].open /\ run'[r].refs = run[r].refs + 1
  <2>1. OpenOn(r)' = OpenOn(r) \cup {k} /\ k \notin OpenOn(r)
    BY <1>6 DEF OpenOn
  <2>2. Cardinality(OpenOn(r) \cup {k}) = Cardinality(OpenOn(r)) + 1
    <3>1. \A S, x : IsFiniteSet(S) /\ x \notin S => Cardinality(S \cup {x}) = Cardinality(S) + 1
      BY FS_AddElement
    <3> QED  BY <1>3, <2>1, <3>1
  <2>3. run'[r].refs = Cardinality(OpenOn(r)') /\ run'[r].refs \in Nat
    BY <1>3, <1>4, <1>6, <2>1, <2>2
  <2> QED  BY <1>2, <2>3 DEF RefsCountSinks, OpenOn
<1>7. CASE ~conn[k].open /\ ~conn'[k].open /\ run'[r].refs = run[r].refs
  <2>1. OpenOn(r)' = OpenOn(r)
    BY <1>7 DEF OpenOn
  <2>2. run'[r].refs = Cardinality(OpenOn(r)') /\ run'[r].refs \in Nat
    BY <1>3, <1>4, <1>7, <2>1
  <2> QED  BY <1>2, <2>2 DEF RefsCountSinks, OpenOn
<1> QED  BY <1>5, <1>6, <1>7

(* The server's cleanup() of a connection that was left.                   *)
LEMMA NextSeesClose == ASSUME Inv, NEW k \in Conns, ServerSeesClose(k) PROVE Inv'
<1>1. PICK r \in Runs : conn[k].run = r
  BY InUse DEF ServerSeesClose, Inv
<1>2. PICK c \in Clients : conn[k].client = c
  BY InUse DEF ServerSeesClose, Inv
<1>3. /\ conn[k].open /\ conn' = [conn EXCEPT ![k] = NoConn] /\ UNCHANGED <<client, phase>>
      /\ conn \in [Conns -> ConnType \cup {NoConn}] /\ run \in [Runs -> RunType]
      /\ client \in [Clients -> ClientType] /\ ConnSound(k) /\ ClientSound(c)
      /\ run[r] \in RunType
  BY DEF ServerSeesClose, Inv, Types
<1>4. run' = [run EXCEPT ![r].refs = run[r].refs - 1, ![r].idle = FALSE]
  BY <1>1, <1>3 DEF ServerSeesClose
<1>5. /\ conn'[k] = NoConn /\ conn' \in [Conns -> ConnType \cup {NoConn}]
      /\ \A j \in Conns : j # k => conn'[j] = conn[j]
      /\ ~NoConn.open /\ ~NoConn.alive /\ ~NoConn.ended /\ ~NoConn.subscribed
  BY <1>3 DEF NoConn
<1>6. /\ \A q \in Runs : q # r => run'[q] = run[q]
      /\ run'[r].refs = run[r].refs - 1 /\ run'[r].seq = run[r].seq
      /\ run'[r].last = run[r].last /\ run'[r].exec = run[r].exec
      /\ run'[r].registered = run[r].registered /\ run'[r].status = run[r].status
      /\ run'[r].aborted = run[r].aborted
  BY <1>3, <1>4 DEF RunType
<1>7. run[r].registered
  BY <1>1, <1>3 DEF ConnSound
<1>8. RefsCountSinks' /\ run'[r].refs \in Nat
  <2>1. ~conn'[k].open
    BY <1>5
  <2>2. run'[r].registered
    BY <1>6, <1>7
  <2> QED  BY <1>1, <1>3, <1>5, <1>6, <1>7, <2>1, <2>2, SinkMoved
<1>9. run' \in [Runs -> RunType]
  <2> DEFINE x == [run[r] EXCEPT !.refs = run[r].refs - 1, !.idle = FALSE]
  <2>1. run' = [run EXCEPT ![r] = x]
    BY <1>3, <1>4
  <2>2. run[r].refs - 1 \in Nat
    BY <1>6, <1>8
  <2>3. x \in RunType
    BY <1>3, <2>2 DEF RunType
  <2> HIDE DEF x
  <2> QED  BY <1>3, <2>1, <2>3
<1>10. ConnSound(k)'
  BY <1>5 DEF ConnSound
<1>11. Streams(k)'
  BY <1>5 DEF Streams
<1>12. ClientSound(c)'
  <2>1. Follows[c] \in Runs
    BY GatewayAssumption
  <2> QED  BY <1>3, <1>6, <2>1 DEF ClientSound
<1>13. \A q \in Runs : /\ run'[q].seq = run[q].seq /\ run'[q].last = run[q].last
                       /\ run'[q].exec = run[q].exec /\ run'[q].registered = run[q].registered
                       /\ run'[q].status = run[q].status /\ run'[q].aborted = run[q].aborted
  BY <1>6
<1> QED  BY <1>3, <1>5, <1>8, <1>9, <1>10, <1>11, <1>12, <1>13, ConnStep

(* A sink that stays open belongs to a run that will end it: had the run   *)
(* published its last event, the replay would hold it, or the client would *)
(* have it.                                                                *)
LEMMA StaysWithAnActiveRun ==
  ASSUME Inv, NEW c \in Clients, NEW r \in Runs, Follows[c] = r,
         NEW after \in {0, client[c].last}, run[r].exec \in {"active", "ended", "settled"},
         client[c].outcome \notin {"final", "error"}, run[r].registered, ~Gap(r, after)
  PROVE  /\ after \in 0 .. run[r].seq
         /\ ~EndsWithReplay(r, after) => run[r].exec = "active"
         /\ EndsWithReplay(r, after) => run[r].aborted \/ run[r].last # "event"
<1>1. run[r] \in RunType /\ client[c] \in ClientType /\ RunSound(r) /\ ClientSound(c)
  BY DEF Inv, Types
<1>2. /\ run[r].seq \in Nat /\ client[c].last \in Nat /\ client[c].last <= run[r].seq
      /\ run[r].last # "event" => run[r].seq > 0
  BY <1>1 DEF RunType, ClientType, ClientSound, RunSound
<1>3. after \in 0 .. run[r].seq
  BY <1>2
<1>4. Replayed(r, after) # <<>> <=> after < run[r].seq
  BY <1>2, <1>3, ReplayShape DEF Inv
<1>5. ASSUME ~EndsWithReplay(r, after), run[r].exec # "active" PROVE FALSE
  <2>1. run[r].status = "running" /\ (Replayed(r, after) = <<>> \/ run[r].last = "event")
    BY <1>5 DEF EndsWithReplay
  <2>2. run[r].exec = "ended" /\ run[r].last = "final" /\ run[r].seq > 0
    BY <1>1, <1>5, <2>1 DEF RunSound
  <2>3. after = run[r].seq
    BY <1>2, <1>3, <1>4, <2>1, <2>2
  <2>4. client[c].last = run[r].seq /\ client[c].last > 0
    BY <1>2, <2>2, <2>3
  <2> QED  BY <1>1, <2>2, <2>4 DEF ClientSound
<1>6. EndsWithReplay(r, after) => run[r].aborted \/ run[r].last # "event"
  BY <1>1 DEF EndsWithReplay, RunSound
<1> QED  BY <1>3, <1>5, <1>6

(* The connection that is opened.                                          *)
LEMMA OpenedConn ==
  ASSUME Inv, NEW c \in Clients, NEW r \in Runs, Follows[c] = r,
         NEW after \in 0 .. run[r].seq, ~Gap(r, after)
  PROVE  /\ Opened(c, r, after) \in ConnType
         /\ Opened(c, r, after).client = c /\ Opened(c, r, after).run = r
         /\ Opened(c, r, after).alive /\ Opened(c, r, after).written = run[r].seq
         /\ Opened(c, r, after).frames = Replayed(r, after)
         /\ Opened(c, r, after).open = ~EndsWithReplay(r, after)
         /\ Opened(c, r, after).subscribed = ~EndsWithReplay(r, after)
         /\ Opened(c, r, after).ended = EndsWithReplay(r, after)
<1>1. run[r].seq \in 0 .. MaxSeq /\ run[r].seq \in Nat /\ after \in Nat /\ after <= run[r].seq
  BY GatewayAssumption DEF Inv, Types, RunType
<1>2. Replayed(r, after) \in Seq(FrameType)
  BY ReplayShape DEF Inv, RunSound
<1>3. EndsWithReplay(r, after) \in BOOLEAN
  BY DEF EndsWithReplay
<1>4. (IF run[r].seq > after THEN run[r].seq ELSE after) = run[r].seq
  BY <1>1
<1> DEFINE ends == EndsWithReplay(r, after)  fs == Replayed(r, after)
<1>5. Opened(c, r, after) =
        [client |-> c, run |-> r, open |-> ~ends, alive |-> TRUE, ended |-> ~~ends,
         subscribed |-> ~ends, written |-> run[r].seq, frames |-> fs]
  BY <1>4 DEF Opened
<1>6. ~~ends = ends /\ ends \in BOOLEAN /\ fs \in Seq(FrameType)
  BY <1>2, <1>3
<1> HIDE DEF ends, fs
<1>7. /\ Opened(c, r, after) \in ConnType
      /\ Opened(c, r, after).client = c /\ Opened(c, r, after).run = r
      /\ Opened(c, r, after).alive /\ Opened(c, r, after).written = run[r].seq
      /\ Opened(c, r, after).frames = fs
      /\ Opened(c, r, after).open = ~ends
      /\ Opened(c, r, after).subscribed = ~ends
      /\ Opened(c, r, after).ended = ends
  BY <1>1, <1>5, <1>6 DEF ConnType
<1> QED  BY <1>7 DEF ends, fs

(* A client attaches, anew or after the last event it was handed.          *)
LEMMA NextAttaches ==
  ASSUME Inv, NEW k \in Conns, NEW c \in Clients, NEW after, Attaches(c, k, after)
  PROVE  Inv'
<1>1. PICK r \in Runs : Follows[c] = r
  BY GatewayAssumption
<1>2. /\ run[r].exec \in {"active", "ended", "settled"} /\ conn[k] = NoConn
      /\ client[c].outcome \notin {"final", "error"} /\ after \in {0, client[c].last}
      /\ \A j \in Conns : ~(conn[j].client = c /\ conn[j].alive) /\ phase' = phase
  BY <1>1 DEF Attaches, Listening
<1>3. /\ conn \in [Conns -> ConnType \cup {NoConn}] /\ run \in [Runs -> RunType]
      /\ client \in [Clients -> ClientType] /\ run[r] \in RunType /\ client[c] \in ClientType
      /\ ClientSound(c) /\ ConnSound(k) /\ RunSound(r)
  BY DEF Inv, Types
<1>4. ~NoConn.open /\ ~NoConn.alive /\ ~NoConn.ended /\ ~NoConn.subscribed
  BY DEF NoConn
<1>5. CASE ~run[r].registered \/ Gap(r, after)
  <2>1. client' = [client EXCEPT ![c].outcome = "lost"] /\ run' = run /\ conn' = conn
    BY <1>1, <1>5 DEF Attaches
  <2>2. /\ client' \in [Clients -> ClientType] /\ \A d \in Clients : d # c => client'[d] = client[d]
        /\ client'[c].last = client[c].last /\ client'[c].outcome = "lost"
    BY <1>3, <2>1 DEF ClientType
  <2>3. ClientSound(c)'
    BY <1>2, <1>3, <2>1, <2>2 DEF ClientSound
  <2>4. ConnSound(k)' /\ Streams(k)'
    BY <1>2, <1>4, <2>1 DEF ConnSound, Streams
  <2>5. RefsCountSinks'
    BY <2>1 DEF Inv, RefsCountSinks
  <2> QED  BY <1>2, <1>3, <1>4, <2>1, <2>2, <2>3, <2>4, <2>5, ConnStep
<1>6. CASE run[r].registered /\ ~Gap(r, after)
  <2> DEFINE ends == EndsWithReplay(r, after)
  <2>1. /\ conn' = [conn EXCEPT ![k] = Opened(c, r, after)]
        /\ client' = [client EXCEPT ![c] = IF after = 0 THEN NewClient
                                           ELSE [client[c] EXCEPT !.outcome = "none"]]
        /\ run' = [run EXCEPT ![r].idle = FALSE, ![r].refs = IF ends THEN @ ELSE @ + 1]
    BY <1>1, <1>6 DEF Attaches
  <2>2. /\ after \in 0 .. run[r].seq
        /\ ~ends => run[r].exec = "active"
        /\ ends => run[r].aborted \/ run[r].last # "event"
    BY <1>1, <1>2, <1>6, StaysWithAnActiveRun
  <2>3. ends \in BOOLEAN
    BY DEF EndsWithReplay
  <2> HIDE DEF ends
  <2>4. /\ conn'[k] \in ConnType /\ conn'[k].client = c /\ conn'[k].run = r
        /\ conn'[k].alive /\ conn'[k].written = run[r].seq
        /\ conn'[k].frames = Replayed(r, after)
        /\ conn'[k].open = ~ends /\ conn'[k].subscribed = ~ends /\ conn'[k].ended = ends
        /\ \A j \in Conns : j # k => conn'[j] = conn[j]
    <3>1. conn'[k] = Opened(c, r, after) /\ \A j \in Conns : j # k => conn'[j] = conn[j]
      BY <1>3, <2>1
    <3> QED  BY <1>1, <1>6, <2>2, <3>1, OpenedConn DEF ends
  <2>5. conn' \in [Conns -> ConnType \cup {NoConn}]
    <3>1. conn' = [conn EXCEPT ![k] = conn'[k]]
      BY <1>3, <2>1
    <3> QED  BY <1>3, <2>4, <3>1
  <2>6. /\ client' \in [Clients -> ClientType]
        /\ \A d \in Clients : d # c => client'[d] = client[d]
        /\ client'[c].last = after /\ client'[c].outcome = "none"
    <3> DEFINE x == IF after = 0 THEN NewClient ELSE [client[c] EXCEPT !.outcome = "none"]
    <3>1. x \in ClientType /\ x.last = after /\ x.outcome = "none"
      <4>1. CASE after = 0
        <5>1. 0 \in 0 .. MaxSeq
          BY GatewayAssumption
        <5> QED  BY <4>1, <5>1 DEF NewClient, ClientType
      <4>2. CASE after # 0
        BY <1>2, <1>3, <4>2 DEF ClientType
      <4> QED  BY <4>1, <4>2
    <3>2. client' = [client EXCEPT ![c] = x]
      BY <2>1
    <3> HIDE DEF x
    <3> QED  BY <1>3, <3>1, <3>2
  <2>7. /\ \A q \in Runs : q # r => run'[q] = run[q]
        /\ run'[r].refs = IF ends THEN run[r].refs ELSE run[r].refs + 1
        /\ run'[r].seq = run[r].seq /\ run'[r].last = run[r].last
        /\ run'[r].exec = run[r].exec /\ run'[r].registered = run[r].registered
        /\ run'[r].status = run[r].status /\ run'[r].aborted = run[r].aborted
    BY <1>3, <2>1 DEF RunType
  <2>8. RefsCountSinks' /\ run'[r].refs \in Nat
    <3>1. run'[r].registered
      BY <1>6, <2>7
    <3>2. ~conn[k].open
      BY <1>2, <1>4
    <3>3. \/ ~conn[k].open /\ conn'[k].open /\ run'[r].refs = run[r].refs + 1
          \/ ~conn[k].open /\ ~conn'[k].open /\ run'[r].refs = run[r].refs
      BY <2>3, <2>4, <2>7, <3>2
    <3> QED  BY <1>6, <2>4, <2>7, <3>1, <3>2, <3>3, SinkMoved
  <2>9. run' \in [Runs -> RunType]
    <3> DEFINE n == IF ends THEN run[r].refs ELSE run[r].refs + 1
               x == [run[r] EXCEPT !.idle = FALSE, !.refs = n]
    <3>1. run' = [run EXCEPT ![r] = x]
      BY <1>3, <2>1
    <3>2. n \in Nat
      BY <2>7, <2>8
    <3> HIDE DEF n
    <3>3. x \in RunType
      BY <1>3, <3>2 DEF RunType
    <3> HIDE DEF x
    <3> QED  BY <1>3, <3>1, <3>3
  <2>10. ConnSound(k)'
    BY <1>2, <1>6, <2>2, <2>3, <2>4, <2>7 DEF ConnSound
  <2>11. /\ Shape(Replayed(r, after), run[r].seq)
         /\ Kinds(Replayed(r, after), run[r].seq, run[r].last)
         /\ Quiet(Replayed(r, after))
         /\ after > 0 => after >= run[r].seq - Events(Replayed(r, after))
    BY <1>3, <1>6, <2>2, ReplayShape DEF Inv, RunSound
  <2>12. run[r].seq \in Nat /\ after \in Nat /\ after <= run[r].seq
    BY <1>3, <2>2 DEF RunType
  <2>13. \A j \in Conns : conn'[j].alive /\ conn'[j].client = c => j = k
    BY <1>2, <2>4
  <2>14. Streams(k)'
    <3>1. after = 0 \/ after >= run[r].seq - Events(Replayed(r, after))
      BY <2>11, <2>12
    <3>2. run[r].seq <= run[r].seq
      BY <2>12
    <3> HIDE DEF ends
    <3> QED  BY <2>4, <2>6, <2>7, <2>11, <2>13, <3>1, <3>2 DEF Streams
  <2>15. ClientSound(c)'
    <3>1. after > 0 /\ after = run[r].seq /\ run[r].last = "final" => FALSE
      BY <1>1, <1>2, <1>3, <2>12 DEF ClientSound
    <3> QED  BY <1>1, <2>6, <2>7, <2>12, <3>1 DEF ClientSound
  <2>16. \A q \in Runs : /\ run'[q].seq = run[q].seq /\ run'[q].last = run[q].last
                         /\ run'[q].exec = run[q].exec /\ run'[q].registered = run[q].registered
                         /\ run'[q].status = run[q].status /\ run'[q].aborted = run[q].aborted
    BY <2>7
  <2>17. conn'[k] # NoConn => conn'[k].run = Follows[conn'[k].client]
    BY <1>1, <2>4
  <2> QED  BY <1>2, <2>4, <2>5, <2>6, <2>8, <2>9, <2>10, <2>14, <2>15, <2>16, <2>17, ConnStep
<1> QED  BY <1>5, <1>6

-----------------------------------------------------------------------------
(* Drain *)

(* A step that leaves the runs and the clients alone, and of a connection  *)
(* changes at most what the client still has to read.                      *)
LEMMA DrainStep ==
  ASSUME Inv, UNCHANGED <<run, client>>, phase # "exited" /\ phase' # "exited",
         phase' \in {"up", "draining", "told", "exited"},
         conn' \in [Conns -> ConnType \cup {NoConn}],
         \A k \in Conns : /\ conn'[k].client = conn[k].client /\ conn'[k].run = conn[k].run
                          /\ conn'[k].open = conn[k].open /\ conn'[k].alive = conn[k].alive
                          /\ conn'[k].ended = conn[k].ended /\ conn'[k].written = conn[k].written
                          /\ conn'[k].subscribed = conn[k].subscribed
                          /\ conn[k] = NoConn => conn'[k] = NoConn,
         \A k \in Conns : conn[k].alive =>
           /\ Shape(conn'[k].frames, conn[k].written)
           /\ Kinds(conn'[k].frames, run[conn[k].run].seq, run[conn[k].run].last)
           /\ Events(conn'[k].frames) = Events(conn[k].frames)
           /\ phase' \in {"up", "draining"} => Quiet(conn'[k].frames)
  PROVE  Inv'
<1>1. Types'
  <2>1. ASSUME NEW k \in Conns, conn'[k] # NoConn PROVE conn'[k].run = Follows[conn'[k].client]
    <3>1. conn[k].run = Follows[conn[k].client]
      BY <2>1 DEF Inv, Types
    <3> QED  BY <3>1
  <2> QED  BY <2>1 DEF Inv, Types
<1>2. \A q \in Runs : RunSound(q)'
  BY DEF Inv, RunSound
<1>3. ASSUME NEW k \in Conns PROVE ConnSound(k)'
  <2>1. ConnSound(k)
    BY DEF Inv
  <2> QED  BY <2>1 DEF ConnSound
<1>4. ASSUME NEW k \in Conns PROVE Streams(k)'
  <2>1. CASE ~conn[k].alive
    BY <2>1 DEF Streams
  <2>2. CASE conn[k].alive
    <3>1. Streams(k)
      BY DEF Inv
    <3> QED  BY <2>2, <3>1 DEF Streams
  <2> QED  BY <2>1, <2>2
<1>5. \A c \in Clients : ClientSound(c)'
  BY DEF Inv, ClientSound
<1>6. RefsCountSinks'
  <2>1. \A q \in Runs : OpenOn(q)' = OpenOn(q)
    BY DEF OpenOn
  <2> QED  BY <2>1 DEF Inv, RefsCountSinks, OpenOn
<1>7. CapHolds'
  BY DEF Inv, CapHolds, RunningCount
<1> QED  BY <1>1, <1>2, <1>3, <1>4, <1>5, <1>6, <1>7 DEF Inv

(* Nothing is told yet.                                                    *)
LEMMA NextDrainBegins == ASSUME Inv, DrainBegins PROVE Inv'
<1>1. phase = "up" /\ phase' = "draining" /\ UNCHANGED <<run, conn, client>>
  BY DEF DrainBegins
<1>2. conn \in [Conns -> ConnType \cup {NoConn}]
  BY DEF Inv, Types
<1>3. ASSUME NEW k \in Conns, conn[k].alive
      PROVE  /\ Shape(conn'[k].frames, conn[k].written)
             /\ Kinds(conn'[k].frames, run[conn[k].run].seq, run[conn[k].run].last)
             /\ Events(conn'[k].frames) = Events(conn[k].frames)
             /\ phase' \in {"up", "draining"} => Quiet(conn'[k].frames)
  BY <1>1, <1>3 DEF Inv, Streams
<1> QED  BY <1>1, <1>2, <1>3, DrainStep

(* The one shutdown frame of a stream.                                     *)
LEMMA NextTellsSinks == ASSUME Inv, TellsSinks PROVE Inv'
<1> DEFINE x == Frame("shutdown", 0)
           told(k) == [conn[k] EXCEPT !.frames = Append(conn[k].frames, x)]
<1>1. /\ phase = "draining" /\ phase' = "told" /\ UNCHANGED <<run, client>>
      /\ conn' = [k \in Conns |-> IF conn[k].open /\ conn[k].alive THEN told(k) ELSE conn[k]]
      /\ conn \in [Conns -> ConnType \cup {NoConn}]
  BY DEF TellsSinks, Inv, Types
<1>2. x \in FrameType /\ x.kind = "shutdown"
  BY GatewayAssumption DEF Frame, FrameType
<1> HIDE DEF x
<1>3. ASSUME NEW k \in Conns, conn[k].open, conn[k].alive
      PROVE  /\ conn'[k] \in ConnType /\ conn[k] \in ConnType
             /\ conn'[k].frames = Append(conn[k].frames, x)
             /\ conn'[k].client = conn[k].client /\ conn'[k].run = conn[k].run
             /\ conn'[k].open = conn[k].open /\ conn'[k].alive = conn[k].alive
             /\ conn'[k].ended = conn[k].ended /\ conn'[k].written = conn[k].written
             /\ conn'[k].subscribed = conn[k].subscribed
             /\ conn[k] # NoConn
  <2>1. conn[k] \in ConnType /\ conn[k] # NoConn
    BY <1>3, InUse DEF Inv
  <2>2. Append(conn[k].frames, x) \in Seq(FrameType)
    BY <1>2, <2>1, AppendedFrame DEF ConnType
  <2>3. conn'[k] = told(k)
    BY <1>1, <1>3
  <2> QED  BY <2>1, <2>2, <2>3 DEF ConnType
<1> HIDE DEF told
<1>4. ASSUME NEW k \in Conns, ~(conn[k].open /\ conn[k].alive) PROVE conn'[k] = conn[k]
  BY <1>1, <1>4
<1>5. conn' \in [Conns -> ConnType \cup {NoConn}]
  <2>1. conn' = [k \in Conns |-> conn'[k]]
    BY <1>1
  <2>2. \A k \in Conns : conn'[k] \in ConnType \cup {NoConn}
    BY <1>1, <1>3, <1>4
  <2> QED  BY <2>1, <2>2
<1>6. ASSUME NEW k \in Conns, conn[k].alive
      PROVE  /\ Shape(conn'[k].frames, conn[k].written)
             /\ Kinds(conn'[k].frames, run[conn[k].run].seq, run[conn[k].run].last)
             /\ Events(conn'[k].frames) = Events(conn[k].frames)
  <2> DEFINE f == conn[k].frames
  <2>1. /\ Shape(f, conn[k].written) /\ Quiet(f)
        /\ Kinds(f, run[conn[k].run].seq, run[conn[k].run].last)
    BY <1>1, <1>6 DEF Inv, Streams
  <2>2. CASE conn[k].open
    <3>1. conn'[k].frames = Append(f, x) /\ f \in Seq(FrameType) /\ conn[k].written \in Nat
      BY <1>3, <1>6, <2>2 DEF ConnType
    <3> HIDE DEF f
    <3>2. Shape(Append(f, x), conn[k].written) /\ Events(Append(f, x)) = Events(f)
      BY <1>2, <2>1, <3>1, ShutdownAppended
    <3>3. /\ DOMAIN Append(f, x) = 1 .. Len(f) + 1 /\ \A i \in DOMAIN f : Append(f, x)[i] = f[i]
          /\ Append(f, x)[Len(f) + 1] = x /\ DOMAIN f = 1 .. Len(f) /\ Len(f) \in Nat
      BY <1>2, <3>1, AppendedFrame
    <3>4. \A i \in DOMAIN Append(f, x) : IF i \in DOMAIN f THEN Append(f, x)[i] = f[i]
                                         ELSE Append(f, x)[i] = x
      BY <3>3
    <3>5. Kinds(Append(f, x), run[conn[k].run].seq, run[conn[k].run].last)
      BY <1>2, <2>1, <3>4 DEF Kinds
    <3> QED  BY <3>1, <3>2, <3>5 DEF f
  <2>3. CASE ~conn[k].open
    BY <1>4, <2>1, <2>3
  <2> QED  BY <2>2, <2>3
<1>7. ASSUME NEW k \in Conns
      PROVE  /\ conn'[k].client = conn[k].client /\ conn'[k].run = conn[k].run
             /\ conn'[k].open = conn[k].open /\ conn'[k].alive = conn[k].alive
             /\ conn'[k].ended = conn[k].ended /\ conn'[k].written = conn[k].written
             /\ conn'[k].subscribed = conn[k].subscribed
             /\ conn[k] = NoConn => conn'[k] = NoConn
  BY <1>3, <1>4
<1> QED  BY <1>1, <1>5, <1>6, <1>7, DrainStep

(* The process ends, and with it every run and the server's end of every   *)
(* connection.                                                             *)
LEMMA NextExits == ASSUME Inv, Exits PROVE Inv'
<1>1. /\ phase' = "exited" /\ client' = client
      /\ conn' = [k \in Conns |-> IF conn[k].alive
                    THEN [conn[k] EXCEPT !.open = FALSE, !.subscribed = FALSE, !.ended = TRUE]
                    ELSE NoConn]
      /\ run' = [r \in Runs |-> [run[r] EXCEPT !.registered = FALSE, !.refs = 0,
                                   !.exec = IF Executing(r) THEN "settled" ELSE run[r].exec]]
      /\ run \in [Runs -> RunType]
  BY DEF Exits, Inv, Types
<1>2. ~NoConn.open /\ ~NoConn.alive /\ ~NoConn.ended /\ ~NoConn.subscribed
  BY DEF NoConn
<1>3. ASSUME NEW k \in Conns, conn[k].alive
      PROVE  /\ conn'[k] \in ConnType /\ conn[k] \in ConnType /\ conn[k] # NoConn
             /\ conn'[k].client = conn[k].client /\ conn'[k].run = conn[k].run
             /\ conn'[k].open = FALSE /\ conn'[k].subscribed = FALSE
             /\ conn'[k].alive /\ conn'[k].written = conn[k].written
             /\ conn'[k].frames = conn[k].frames
  <2>1. conn[k] \in ConnType /\ conn[k] # NoConn
    BY <1>3, InUse DEF Inv
  <2>2. conn'[k] = [conn[k] EXCEPT !.open = FALSE, !.subscribed = FALSE, !.ended = TRUE]
    BY <1>1, <1>3
  <2>3. [conn[k] EXCEPT !.open = FALSE, !.subscribed = FALSE, !.ended = TRUE] \in ConnType
    <3> DEFINE x == [conn[k] EXCEPT !.open = FALSE]
               y == [x EXCEPT !.subscribed = FALSE]
               z == [y EXCEPT !.ended = TRUE]
    <3>1. x \in ConnType
      BY <2>1 DEF ConnType
    <3>2. y \in ConnType
      BY <3>1 DEF ConnType
    <3>3. z \in ConnType
      BY <3>2 DEF ConnType
    <3> QED  BY <3>3
  <2>4. /\ conn'[k].client = conn[k].client /\ conn'[k].run = conn[k].run
        /\ conn'[k].open = FALSE /\ conn'[k].subscribed = FALSE
        /\ conn'[k].alive = conn[k].alive /\ conn'[k].written = conn[k].written
        /\ conn'[k].frames = conn[k].frames
    BY <2>1, <2>2 DEF ConnType
  <2> QED  BY <1>3, <2>1, <2>2, <2>3, <2>4
<1>4. ASSUME NEW k \in Conns, ~conn[k].alive PROVE conn'[k] = NoConn
  BY <1>1, <1>4
<1>5. ASSUME NEW q \in Runs
      PROVE  /\ run'[q] \in RunType
             /\ ~run'[q].registered /\ run'[q].seq = run[q].seq /\ run'[q].last = run[q].last
             /\ run'[q].exec = run[q].exec \/ (run'[q].exec = "settled" /\ Executing(q))
             /\ run'[q].exec # "active"
  <2>1. run[q] \in RunType
    BY <1>1
  <2> DEFINE e == IF Executing(q) THEN "settled" ELSE run[q].exec
  <2>2. run'[q] = [run[q] EXCEPT !.registered = FALSE, !.refs = 0, !.exec = e]
    BY <1>1
  <2>3. /\ e \in {"none", "body", "active", "ended", "settled", "threw"} /\ e # "active"
        /\ e = run[q].exec \/ (e = "settled" /\ Executing(q))
    BY <2>1 DEF RunType, Executing
  <2> HIDE DEF e
  <2> DEFINE x == [run[q] EXCEPT !.registered = FALSE, !.refs = 0, !.exec = e]
  <2>4. /\ x \in RunType /\ ~x.registered /\ x.seq = run[q].seq /\ x.last = run[q].last
        /\ x.exec = e
    BY <2>1, <2>3 DEF RunType
  <2>5. run'[q] = x
    BY <2>2
  <2> HIDE DEF x
  <2> QED  BY <2>3, <2>4, <2>5
<1>6. Types'
  <2>1. conn' = [k \in Conns |-> conn'[k]] /\ run' = [q \in Runs |-> run'[q]]
    BY <1>1
  <2>2. \A k \in Conns : conn'[k] \in ConnType \cup {NoConn}
    BY <1>3, <1>4
  <2>3. ASSUME NEW k \in Conns, conn'[k] # NoConn PROVE conn'[k].run = Follows[conn'[k].client]
    <3>1. conn[k].alive
      BY <1>4, <2>3
    <3>2. conn[k].run = Follows[conn[k].client]
      BY <3>1, InUse DEF Inv
    <3> QED  BY <1>3, <3>1, <3>2
  <2>4. conn' \in [Conns -> ConnType \cup {NoConn}] /\ run' \in [Runs -> RunType]
    BY <1>5, <2>1, <2>2
  <2> QED  BY <1>1, <2>3, <2>4 DEF Inv, Types
<1>7. ASSUME NEW q \in Runs PROVE RunSound(q)'
  <2>1. RunSound(q) /\ (Executing(q) => run[q].exec \notin {"none", "body", "threw"})
    BY DEF Inv, Executing
  <2> QED  BY <1>5, <2>1 DEF RunSound
<1>8. ASSUME NEW k \in Conns PROVE ConnSound(k)'
  <2>1. CASE ~conn[k].alive
    BY <1>2, <1>4, <2>1 DEF ConnSound
  <2>2. CASE conn[k].alive
    <3>1. conn[k].run \in Runs /\ run[conn[k].run].exec \notin {"none", "body", "threw"}
      BY <2>2, InUse DEF Inv, ConnSound
    <3>2. run'[conn[k].run].exec \notin {"none", "body", "threw"}
      BY <1>5, <3>1
    <3> QED  BY <1>1, <1>3, <2>2, <3>2 DEF ConnSound
  <2> QED  BY <2>1, <2>2
<1>9. ASSUME NEW k \in Conns PROVE Streams(k)'
  <2>1. CASE ~conn[k].alive
    BY <1>2, <1>4, <2>1 DEF Streams
  <2>2. CASE conn[k].alive
    <3>1. conn[k].run \in Runs /\ Streams(k)
      BY <2>2, InUse DEF Inv
    <3>2. \A j \in Conns : conn'[j].alive /\ conn'[j].client = conn[k].client => j = k
      BY <1>2, <1>3, <1>4, <2>2, <3>1 DEF Streams
    <3>3. run'[conn[k].run].seq = run[conn[k].run].seq /\ run'[conn[k].run].last = run[conn[k].run].last
      BY <1>5, <3>1
    <3>4. /\ conn'[k].client = conn[k].client /\ conn'[k].run = conn[k].run
          /\ conn'[k].written = conn[k].written /\ conn'[k].frames = conn[k].frames
      BY <1>3, <2>2
    <3>5. phase' \notin {"up", "draining"} /\ client' = client
      BY <1>1
    <3> QED  BY <2>2, <3>1, <3>2, <3>3, <3>4, <3>5 DEF Streams
  <2> QED  BY <2>1, <2>2
<1>10. ASSUME NEW c \in Clients PROVE ClientSound(c)'
  <2>1. Follows[c] \in Runs /\ ClientSound(c)
    BY GatewayAssumption DEF Inv
  <2> QED  BY <1>1, <1>5, <2>1 DEF ClientSound
<1>11. RefsCountSinks'
  BY <1>5 DEF RefsCountSinks
<1>12. CapHolds'
  BY <1>5, CapKept DEF Inv
<1> QED  BY <1>6, <1>7, <1>8, <1>9, <1>10, <1>11, <1>12 DEF Inv

-----------------------------------------------------------------------------
(* The invariant *)

(* Initially nothing is registered and nothing is open.                    *)
LEMMA InitInv == Init => Inv
<1> SUFFICES ASSUME Init PROVE Inv
  OBVIOUS
<1>1. /\ run = [r \in Runs |-> NewRun] /\ conn = [k \in Conns |-> NoConn]
      /\ client = [c \in Clients |-> NewClient] /\ phase = "up"
  BY DEF Init
<1>2. ~NoConn.open /\ ~NoConn.alive /\ ~NoConn.ended /\ ~NoConn.subscribed
  BY DEF NoConn
<1>3. 0 \in 0 .. MaxSeq /\ 0 < MaxSeq /\ 0 \in Nat
  BY GatewayAssumption
<1>4. Types
  <2>1. NewRun \in RunType /\ NewClient \in ClientType
    BY <1>3 DEF NewRun, RunType, NewClient, ClientType
  <2>2. \A k \in Conns : conn[k] = NoConn
    BY <1>1
  <2> QED  BY <1>1, <2>1, <2>2 DEF Types
<1>5. \A q \in Runs : RunSound(q)
  BY <1>1, <1>3 DEF RunSound, NewRun
<1>6. \A k \in Conns : ConnSound(k) /\ Streams(k)
  <2>1. \A k \in Conns : conn[k] = NoConn
    BY <1>1
  <2> QED  BY <1>2, <2>1 DEF ConnSound, Streams
<1>7. \A c \in Clients : ClientSound(c)
  BY <1>1, <1>3, GatewayAssumption DEF ClientSound, NewClient, NewRun
<1>8. RefsCountSinks
  BY <1>1 DEF RefsCountSinks, NewRun
<1>9. CapHolds
  <2>1. {r \in Runs : run[r].registered /\ run[r].status = "running"} = {}
    BY <1>1 DEF NewRun
  <2>2. RunningCount = 0
    BY <2>1, FS_EmptySet DEF RunningCount
  <2> QED  BY <2>2, GatewayAssumption DEF CapHolds
<1> QED  BY <1>4, <1>5, <1>6, <1>7, <1>8, <1>9 DEF Inv

(* Every step preserves the invariant.                                     *)
LEMMA NextInv == Inv /\ [Next]_vars => Inv'
<1> SUFFICES ASSUME Inv, [Next]_vars PROVE Inv'
  OBVIOUS
<1>1. ASSUME NEW r \in Runs, RunNext(r) PROVE Inv'
  BY <1>1, NextPostArrives, NextPostRefused, NextCreates, NextEmits, NextRunResolves,
     NextRunRejects, NextAborts, NextIdlePasses DEF RunNext
<1>2. ASSUME NEW k \in Conns, ConnNext(k) PROVE Inv'
  <2>1. CASE ReadsEnd(k) \/ SeesEnd(k) \/ Breaks(k)
    BY <2>1, NextEnds
  <2>2. CASE ReadsData(k)
    BY <2>2, NextReadsData
  <2>3. CASE ServerSeesClose(k)
    BY <2>3, NextSeesClose
  <2>4. ASSUME NEW c \in Clients, Attaches(c, k, 0) \/ Attaches(c, k, client[c].last) PROVE Inv'
    <3>1. PICK after : Attaches(c, k, after)
      BY <2>4
    <3> QED  BY <3>1, NextAttaches
  <2> QED  BY <1>2, <2>1, <2>2, <2>3, <2>4 DEF ConnNext
<1>3. CASE UNCHANGED vars
  BY <1>3 DEF vars, Inv, Types, RunSound, ConnSound, Streams, ClientSound, RefsCountSinks,
              CapHolds, RunningCount
<1> QED  BY <1>1, <1>2, <1>3, NextCollects, NextDrainBegins, NextTellsSinks, NextExits DEF Next

(* So it always holds.                                                     *)
LEMMA Invariant == Spec => []Inv
  BY InitInv, NextInv, PTL DEF Spec

-----------------------------------------------------------------------------
(* Theorems *)

(* The variables hold values of their types, for any instance.             *)
THEOREM TypeCorrect == Spec => []TypeOK
<1>1. Inv => TypeOK
  <2> SUFFICES ASSUME Inv PROVE TypeOK
    OBVIOUS
  <2>1. Types
    BY DEF Inv
  <2>2. ASSUME NEW k \in Conns, conn[k] # NoConn
        PROVE  /\ conn[k].client \in Clients /\ conn[k].run = Follows[conn[k].client]
               /\ conn[k].written \in 0 .. MaxSeq
               /\ conn[k].frames \in Seq([kind : {"event", "final", "error", "shutdown"},
                                          id : 0 .. MaxSeq])
    <3>1. conn[k] \in ConnType /\ conn[k].run = Follows[conn[k].client]
      BY <2>1, <2>2, InUse
    <3> QED  BY <3>1 DEF ConnType, FrameType
  <2> QED  BY <2>1, <2>2 DEF Types, TypeOK, RunType, ClientType
<1> QED  BY <1>1, Invariant, PTL

(* However many requests await their bodies at once, the tenant's cap on   *)
(* running runs holds.                                                     *)
THEOREM CapIsKept == Spec => []CapHolds
<1>1. Inv => CapHolds
  BY DEF Inv
<1> QED  BY <1>1, Invariant, PTL

(* A run's reference count is the number of its open sinks; each of them is*)
(* subscribed to a registered run that is still executing, and has been    *)
(* written everything up to the id that a heartbeat would carry.           *)
THEOREM SinksAreSound == Spec => []SinksSound
<1>1. Inv => SinksSound
  <2> SUFFICES ASSUME Inv PROVE SinksSound
    OBVIOUS
  <2>1. ASSUME NEW k \in Conns, conn[k].open
        PROVE  /\ conn[k].subscribed /\ run[conn[k].run].registered /\ Executing(conn[k].run)
               /\ conn[k].written = run[conn[k].run].seq
    BY <2>1 DEF Inv, ConnSound, Executing
  <2>2. RefsCountSinks
    BY DEF Inv
  <2> QED  BY <2>1, <2>2 DEF SinksSound, NoOrphanSink, HeartbeatIdIsWritten
<1> QED  BY <1>1, Invariant, PTL

(* No client ever sees a hole in its stream, and no response is ended      *)
(* before the run's last event unless the run was aborted.                 *)
THEOREM NothingIsWithheld == Spec => []NothingWithheld
<1>1. Inv => NothingWithheld
  <2> SUFFICES ASSUME Inv PROVE NothingWithheld
    OBVIOUS
  <2>1. NoHole
    BY DEF Inv, ClientSound, NoHole
  <2>2. CutOnlyAfterAbort
    BY DEF Inv, ConnSound, CutOnlyAfterAbort
  <2> QED  BY <2>1, <2>2 DEF NothingWithheld
<1> QED  BY <1>1, Invariant, PTL

(* A run's step hands nothing over, and publishes one event at most.       *)
LEMMA RunsPublish ==
  ASSUME Inv, NEW q \in Runs, RunNext(q), NEW r \in Runs
  PROVE  client' = client /\ (run'[r].seq = run[r].seq \/ run'[r].seq = run[r].seq + 1)
<1>1. run \in [Runs -> RunType] /\ run[q] \in RunType /\ run[r] \in RunType
  BY DEF Inv, Types
<1>2. CASE PostArrives(q) \/ PostRefused(q)
  BY <1>1, <1>2 DEF PostArrives, PostRefused, RunType
<1>3. CASE PostCreates(q) \/ PostThrows(q)
  <2>1. PICK exec \in {"active", "threw"} :
          run' = [run EXCEPT ![q] = [NewRun EXCEPT !.exec = exec, !.registered = TRUE]]
    BY <1>3 DEF PostCreates, PostThrows
  <2>2. client' = client /\ run[q].exec = "body"
    BY <1>3 DEF PostCreates, PostThrows
  <2>3. run[q].seq = 0
    BY <2>2 DEF Inv, RunSound
  <2>4. run'[r].seq = run[r].seq
    BY <1>1, <2>1, <2>3 DEF NewRun
  <2> QED  BY <2>2, <2>4
<1>4. CASE Emits(q)
  <2>1. client' = client /\ (run' = run \/ run' = [run EXCEPT ![q] = Record(q, "event")])
    BY <1>4 DEF Emits
  <2>2. Record(q, "event").seq = run[q].seq + 1
    BY <1>1 DEF Record, RunType
  <2> QED  BY <1>1, <2>1, <2>2
<1>5. CASE EmitsFinal(q)
  <2>1. /\ client' = client
        /\ \/ run' = [run EXCEPT ![q].exec = "ended"]
           \/ run' = [run EXCEPT ![q] = [Record(q, "final") EXCEPT !.exec = "ended"]]
    BY <1>5 DEF EmitsFinal
  <2>2. [Record(q, "final") EXCEPT !.exec = "ended"].seq = run[q].seq + 1
    BY <1>1 DEF Record, RunType
  <2>3. [run[q] EXCEPT !.exec = "ended"].seq = run[q].seq
    BY <1>1 DEF RunType
  <2> QED  BY <1>1, <2>1, <2>2, <2>3
<1>6. CASE RunResolves(q)
  <2>1. client' = client
    BY <1>6 DEF RunResolves
  <2>2. CASE run[q].registered
    <3>1. PICK status : run' = [run EXCEPT ![q] = Finished(run[q], status)]
      BY <1>6, <2>2 DEF RunResolves
    <3> QED  BY <1>1, <2>1, <3>1 DEF Finished, RunType
  <2>3. CASE ~run[q].registered
    BY <1>1, <1>6, <2>1, <2>3 DEF RunResolves, RunType
  <2> QED  BY <2>2, <2>3
<1>7. CASE RunRejects(q)
  <2>1. client' = client
    BY <1>7 DEF RunRejects
  <2>2. CASE run[q].registered
    <3>1. run' = [run EXCEPT ![q] = Finished(Record(q, "error"), "error")]
      BY <1>7, <2>2 DEF RunRejects
    <3>2. Finished(Record(q, "error"), "error").seq = run[q].seq + 1
      BY <1>1 DEF Finished, Record, RunType
    <3> QED  BY <1>1, <2>1, <3>1, <3>2
  <2>3. CASE ~run[q].registered
    BY <1>1, <1>7, <2>1, <2>3 DEF RunRejects, RunType
  <2> QED  BY <2>2, <2>3
<1>8. CASE Aborts(q) \/ IdlePasses(q)
  BY <1>1, <1>8 DEF Aborts, IdlePasses, RunType
<1> QED  BY <1>2, <1>3, <1>4, <1>5, <1>6, <1>7, <1>8 DEF RunNext

(* A connection's step publishes nothing; to the clients it does what      *)
(* EventStream allows (Handed).                                            *)
Handed(c) ==
  \/ client'[c].first = client[c].first /\ client'[c].last = client[c].last
  \/ client'[c].first = 0 /\ client'[c].last = 0
  \/ /\ client[c].last = 0
     /\ client'[c].last \in 1 .. run[Follows[c]].seq /\ client'[c].first = client'[c].last
  \/ /\ client[c].last > 0 /\ client[c].last < run[Follows[c]].seq
     /\ client'[c].last = client[c].last + 1 /\ client'[c].first = client[c].first

(* A data frame is skipped, or is the one that is due.                     *)
LEMMA DataIsHanded ==
  ASSUME Inv, NEW k \in Conns, ReadsData(k), NEW d \in Clients
  PROVE  run' = run /\ Handed(d)
<1>1. HasFrame(k, {"event", "final"}) /\ UNCHANGED <<run, phase>>
  BY DEF ReadsData
<1>2. PICK c \in Clients : conn[k].client = c
  BY <1>1, InUse DEF HasFrame, Inv
<1>3. PICK id \in Nat : id = Head1(k).id
  BY <1>1, <1>2, HeadIsDue
<1>4. /\ id \in 1 .. run[Follows[c]].seq /\ client[c].last \in Nat
      /\ run[Follows[c]].seq \in Nat
      /\ client[c].last = 0 \/ client[c].last >= id - 1
      /\ client \in [Clients -> ClientType] /\ client[c] \in ClientType
      /\ client[d] \in ClientType
  BY <1>1, <1>2, <1>3, HeadIsDue, GatewayAssumption DEF Inv, Types, RunType
<1>5. \/ client' = client
      \/ client[c].last # 0 /\ id > client[c].last + 1
      \/ /\ client[c].last = 0 \/ id = client[c].last + 1
         /\ client' = [client EXCEPT ![c].last = id,
                         ![c].first = IF client[c].last = 0 THEN id ELSE client[c].first,
                         ![c].outcome = IF Head1(k).kind = "final" THEN "final"
                                        ELSE client[c].outcome]
  BY <1>2, <1>3 DEF ReadsData
<1>6. CASE client' = client
  BY <1>1, <1>6 DEF Handed
<1>7. CASE /\ client[c].last = 0 \/ id = client[c].last + 1
           /\ client' = [client EXCEPT ![c].last = id,
                           ![c].first = IF client[c].last = 0 THEN id ELSE client[c].first,
                           ![c].outcome = IF Head1(k).kind = "final" THEN "final"
                                          ELSE client[c].outcome]
  <2>1. /\ client'[c].last = id
        /\ client'[c].first = IF client[c].last = 0 THEN id ELSE client[c].first
        /\ d # c => client'[d] = client[d]
    BY <1>4, <1>7 DEF ClientType
  <2>2. CASE d # c
    BY <1>1, <2>1, <2>2 DEF Handed
  <2>3. CASE d = c /\ client[c].last = 0
    BY <1>1, <1>4, <2>1, <2>3 DEF Handed
  <2>4. CASE d = c /\ client[c].last # 0
    <3>1. /\ client[c].last > 0 /\ client[c].last < run[Follows[c]].seq
          /\ client'[c].last = client[c].last + 1 /\ client'[c].first = client[c].first
      BY <1>4, <1>7, <2>1, <2>4
    <3> QED  BY <1>1, <2>4, <3>1 DEF Handed
  <2> QED  BY <2>2, <2>3, <2>4
<1>8. ~(client[c].last # 0 /\ id > client[c].last + 1)
  BY <1>4
<1> QED  BY <1>5, <1>6, <1>7, <1>8

(* Nothing else is handed over.                                            *)
LEMMA ConnsHandOver ==
  ASSUME Inv, NEW k \in Conns, ConnNext(k), NEW d \in Clients
  PROVE  run'[Follows[d]].seq = run[Follows[d]].seq /\ Handed(d)
<1>1. /\ run \in [Runs -> RunType] /\ client \in [Clients -> ClientType]
      /\ Follows[d] \in Runs /\ client[d] \in ClientType /\ run[Follows[d]] \in RunType
  BY GatewayAssumption DEF Inv, Types
<1>2. CASE ReadsEnd(k) \/ SeesEnd(k) \/ Breaks(k)
  <2>1. CASE \E outcome : Leaves(k, outcome)
    <3>1. PICK outcome : Leaves(k, outcome)
      BY <2>1
    <3>2. run' = run /\ client' = [client EXCEPT ![conn[k].client].outcome = outcome]
      BY <3>1 DEF Leaves
    <3> QED  BY <1>1, <3>2 DEF Handed, ClientType
  <2>2. CASE UNCHANGED <<run, client, phase>>
    BY <2>2 DEF Handed
  <2> QED  BY <1>2, <2>1, <2>2 DEF ReadsEnd, SeesEnd, Breaks
<1>3. CASE ReadsData(k)
  BY <1>3, DataIsHanded
<1>4. CASE ServerSeesClose(k)
  BY <1>1, <1>4 DEF ServerSeesClose, Handed, RunType
<1>5. ASSUME NEW c \in Clients, NEW after, Attaches(c, k, after)
      PROVE  run'[Follows[d]].seq = run[Follows[d]].seq /\ Handed(d)
  <2>1. run'[Follows[d]].seq = run[Follows[d]].seq
    BY <1>1, <1>5 DEF Attaches, RunType
  <2>2. PICK outcome : \/ client' = [client EXCEPT ![c].outcome = outcome]
                       \/ client' = [client EXCEPT ![c] = NewClient]
    <3>1. \/ client' = [client EXCEPT ![c].outcome = "lost"]
          \/ client' = [client EXCEPT ![c] = NewClient]
          \/ client' = [client EXCEPT ![c].outcome = "none"]
      <4>1. \/ client' = [client EXCEPT ![c].outcome = "lost"]
            \/ client' = [client EXCEPT ![c] = IF after = 0 THEN NewClient
                                               ELSE [client[c] EXCEPT !.outcome = "none"]]
        BY <1>5 DEF Attaches
      <4> QED  BY <1>1, <4>1
    <3> QED  BY <3>1
  <2>3. Handed(d)
    BY <1>1, <2>2 DEF Handed, ClientType, NewClient
  <2> QED  BY <2>1, <2>3
<1>6. ASSUME NEW c \in Clients, Attaches(c, k, 0) \/ Attaches(c, k, client[c].last)
      PROVE  \E after : Attaches(c, k, after)
  BY <1>6
<1> QED  BY <1>2, <1>3, <1>4, <1>5, <1>6 DEF ConnNext

(* The gateway with attach() implements EventStream, for every client.     *)
LEMMA NextStreams ==
  ASSUME Inv, [Next]_vars, NEW c \in Clients
  PROVE  [Stream(c)!Next]_(Stream(c)!streamVars)
<1> DEFINE r == Follows[c]
<1>1. /\ r \in Runs /\ client \in [Clients -> ClientType] /\ run \in [Runs -> RunType]
      /\ run[r].seq \in Nat /\ client[c].last \in Nat
  BY GatewayAssumption DEF Inv, Types, RunType, ClientType
<1>2. \/ client' = client /\ (run'[r].seq = run[r].seq \/ run'[r].seq = run[r].seq + 1)
      \/ run'[r].seq = run[r].seq /\ Handed(c)
  <2>1. ASSUME NEW q \in Runs, RunNext(q)
        PROVE  client' = client /\ (run'[r].seq = run[r].seq \/ run'[r].seq = run[r].seq + 1)
    BY <1>1, <2>1, RunsPublish
  <2>2. ASSUME NEW k \in Conns, ConnNext(k) PROVE run'[r].seq = run[r].seq /\ Handed(c)
    BY <2>2, ConnsHandOver
  <2>3. CASE Collects
    BY <1>1, <2>3 DEF Collects, RunType
  <2>4. CASE DrainBegins \/ TellsSinks \/ UNCHANGED vars
    BY <2>4 DEF DrainBegins, TellsSinks, vars
  <2>5. CASE Exits
    <3>1. client' = client
      BY <2>5 DEF Exits
    <3>2. PICK e : run'[r] = [run[r] EXCEPT !.registered = FALSE, !.refs = 0, !.exec = e]
      BY <1>1, <2>5 DEF Exits
    <3>3. run[r] \in RunType
      BY <1>1
    <3> QED  BY <3>1, <3>2, <3>3 DEF RunType
  <2> QED  BY <2>1, <2>2, <2>3, <2>4, <2>5 DEF Next
<1>3. CASE client' = client /\ (run'[r].seq = run[r].seq \/ run'[r].seq = run[r].seq + 1)
  BY <1>3 DEF Stream!Next, Stream!Publish, Stream!streamVars
<1>4. CASE run'[r].seq = run[r].seq /\ Handed(c)
  BY <1>1, <1>4 DEF Handed, Stream!Next, Stream!HandOver, Stream!StartAnew, Stream!streamVars
<1> QED  BY <1>2, <1>3, <1>4

(* Over any mixture of live events, replays, broken connections, resumes,  *)
(* ring evictions, fresh attaches and drain, what a client is handed is    *)
(* what EventStream promises.                                              *)
THEOREM StreamsImplementEventStream == Spec => StreamsAreFaithful
<1>1. Init => \A c \in Clients : Stream(c)!Init
  <2> SUFFICES ASSUME Init, NEW c \in Clients PROVE Stream(c)!Init
    OBVIOUS
  <2>1. Follows[c] \in Runs
    BY GatewayAssumption
  <2> QED  BY <2>1 DEF Init, NewRun, NewClient, Stream!Init
<1>2. Inv /\ [Next]_vars => [\A c \in Clients : [Stream(c)!Next]_(Stream(c)!streamVars)]_vars
  BY NextStreams
<1> QED  BY <1>1, <1>2, Invariant, PTL DEF Spec, StreamsAreFaithful

-----------------------------------------------------------------------------
(* The safety half of EveryStreamEnds: who a silent client waits for *)

(* A client that reads has a server that has not let go of it unheard, and *)
(* if it has been handed nothing, what was written to it is still on its   *)
(* way.                                                                    *)
Fed(k) ==
  conn[k].alive =>
    /\ conn[k].open \/ conn[k].ended
    /\ client[conn[k].client].last = 0 /\ conn[k].written > 0 =>
         Events(conn[k].frames) > 0

(* The registry's error event is not handed over: attach() throws on it.   *)
Unseen(c) == run[Follows[c]].last = "error" => client[c].last < run[Follows[c]].seq

Due == (\A k \in Conns : Fed(k)) /\ (\A c \in Clients : Unseen(c))

(* A client that listens and has no frame to read waits for somebody who   *)
(* will act: either its sink is subscribed to a registered run that is     *)
(* still executing, so that the run's end will reach it, or the server has *)
(* ended its response, and then only because the run was aborted or the    *)
(* process exits.  It never sits on a response that was ended after the    *)
(* run's last event, still waiting for that event.                         *)
NobodyWaitsInVain ==
  \A k \in Conns : conn[k].alive /\ conn[k].frames = <<>> =>
    \/ /\ conn[k].open /\ conn[k].subscribed
       /\ run[conn[k].run].registered /\ run[conn[k].run].exec = "active"
    \/ conn[k].ended /\ (run[conn[k].run].aborted \/ phase = "exited")

(* A connection that a step leaves alone.                                  *)
LEMMA FedKept ==
  ASSUME Inv, NEW j \in Conns, Fed(j), conn'[j] = conn[j],
         \A d \in Clients : client'[d].last = client[d].last \/ client'[d].last # 0
  PROVE  Fed(j)'
<1>1. CASE ~conn[j].alive
  BY <1>1 DEF Fed
<1>2. CASE conn[j].alive
  <2>1. conn[j].client \in Clients
    BY <1>2, InUse DEF Inv
  <2>2. PICK d \in Clients : d = conn[j].client
    BY <2>1
  <2>3. client'[d].last = 0 => client[d].last = 0
    BY <2>2
  <2> QED  BY <1>2, <2>2, <2>3 DEF Fed
<1> QED  BY <1>1, <1>2

(* What a run's step may do to a connection.                               *)
LEMMA RunsFeed ==
  ASSUME Inv, NEW q \in Runs, RunNext(q), NEW k \in Conns
  PROVE  \/ /\ conn'[k].open = conn[k].open /\ conn'[k].alive = conn[k].alive
            /\ conn'[k].client = conn[k].client /\ conn'[k].ended = conn[k].ended
            /\ conn'[k].written = conn[k].written /\ conn'[k].frames = conn[k].frames
         \/ /\ conn[k].subscribed
            /\ \E kind \in {"event", "final", "error"} :
                 conn'[k] = Written(conn[k], kind, run[conn[k].run].seq + 1)
            /\ run[conn[k].run].exec = "active"
<1>1. CASE conn' = conn
  BY <1>1
<1>2. CASE conn' = Released(q, conn)
  <2>1. CASE conn[k] = NoConn
    BY <1>2, <2>1 DEF Released, NoConn
  <2>2. CASE conn[k] # NoConn
    <3>1. conn[k] \in ConnType
      BY <2>2, InUse DEF Inv
    <3>2. conn'[k] = conn[k] \/ conn'[k] = [conn[k] EXCEPT !.subscribed = FALSE]
      BY <1>2 DEF Released
    <3> QED  BY <3>1, <3>2 DEF ConnType
  <2> QED  BY <2>1, <2>2
<1>3. ASSUME NEW kind \in {"event", "final", "error"}, conn' = Notified(q, kind),
             run[q].exec = "active"
      PROVE  \/ conn'[k] = conn[k]
             \/ /\ conn[k].subscribed /\ run[conn[k].run].exec = "active"
                /\ conn'[k] = Written(conn[k], kind, run[conn[k].run].seq + 1)
  BY <1>3 DEF Notified, Subscribers
<1>4. \/ conn' = conn \/ conn' = Released(q, conn)
      \/ /\ run[q].exec = "active"
         /\ \E kind \in {"event", "final", "error"} : conn' = Notified(q, kind)
  BY DEF RunNext, PostArrives, PostRefused, PostCreates, PostThrows, Emits, EmitsFinal,
         RunResolves, RunRejects, Aborts, IdlePasses
<1> QED  BY <1>1, <1>2, <1>3, <1>4

(* The event that is written is on its way.                                *)
LEMMA FedByRuns ==
  ASSUME Inv, Due, NEW q \in Runs, RunNext(q), NEW k \in Conns
  PROVE  Fed(k)'
<1>1. client' = client
  BY RunsPublish
<1>2. Fed(k)
  BY DEF Due
<1>3. CASE /\ conn'[k].open = conn[k].open /\ conn'[k].alive = conn[k].alive
           /\ conn'[k].client = conn[k].client /\ conn'[k].ended = conn[k].ended
           /\ conn'[k].written = conn[k].written /\ conn'[k].frames = conn[k].frames
  BY <1>1, <1>2, <1>3 DEF Fed
<1>4. ASSUME conn[k].subscribed, NEW kind \in {"event", "final", "error"},
             conn'[k] = Written(conn[k], kind, run[conn[k].run].seq + 1),
             run[conn[k].run].exec = "active"
      PROVE  Fed(k)'
  <2>1. conn[k] \in ConnType /\ conn[k].run \in Runs
    BY <1>4, InUse DEF Inv
  <2>2. PICK r \in Runs : r = conn[k].run
    BY <2>1
  <2>3. PICK w \in Nat : w = conn[k].written
    BY <2>1 DEF ConnType
  <2>4. w = run[r].seq /\ run[r].seq < MaxSeq
    BY <1>4, <2>2, <2>3 DEF Inv, ConnSound, RunSound
  <2>5. w + 1 \in 0 .. MaxSeq
    BY <2>4, GatewayAssumption
  <2> DEFINE x == Frame(kind, w + 1)
  <2>6. x \in FrameType /\ x.kind # "shutdown" /\ x.id = w + 1
    BY <2>5 DEF Frame, FrameType
  <2>7. /\ conn'[k].alive = conn[k].alive
        /\ conn'[k].open = (kind = "event") /\ conn'[k].ended = (kind # "event")
        /\ conn'[k].frames = IF conn[k].alive THEN Append(conn[k].frames, x) ELSE conn[k].frames
    BY <1>4, <2>2, <2>3, <2>4, <2>5, WrittenConn
  <2> HIDE DEF x
  <2>8. ASSUME conn[k].alive PROVE Events(conn'[k].frames) > 0
    <3>1. conn[k].frames \in Seq(FrameType) /\ Shape(conn[k].frames, w)
      BY <2>1, <2>3, <2>8 DEF ConnType, Inv, Streams
    <3>2. Events(Append(conn[k].frames, x)) = Events(conn[k].frames) + 1
      BY <2>6, <3>1, EventAppended
    <3>3. 0 \in 0 .. Len(conn[k].frames)
      BY <3>1, LenProperties
    <3>4. Events(conn[k].frames) \in Nat
      BY <3>1, <3>3, BehindIsSound
    <3> QED  BY <2>7, <2>8, <3>2, <3>4
  <2> QED  BY <2>7, <2>8 DEF Fed
<1> QED  BY <1>3, <1>4, RunsFeed

(* A run's step: an error event is newer than all that was handed over.    *)
LEMMA UnseenByRuns ==
  ASSUME Inv, Due, NEW q \in Runs, RunNext(q), NEW c \in Clients
  PROVE  Unseen(c)'
<1> DEFINE r == Follows[c]
<1>1. /\ r \in Runs /\ run \in [Runs -> RunType] /\ run[q] \in RunType /\ run[r] \in RunType
      /\ client[c] \in ClientType /\ Unseen(c) /\ ClientSound(c)
  BY GatewayAssumption DEF Inv, Types, Due
<1>2. client' = client /\ (run'[r].seq = run[r].seq \/ run'[r].seq = run[r].seq + 1)
  BY <1>1, RunsPublish
<1>3. /\ client[c].last \in Nat /\ run[r].seq \in Nat /\ client[c].last <= run[r].seq
  BY <1>1 DEF ClientSound, ClientType, RunType
<1>4. run'[r].last = "error" => run[r].last = "error" \/ run'[r].seq = run[r].seq + 1
  <2>1. CASE PostArrives(q) \/ PostRefused(q) \/ Aborts(q) \/ IdlePasses(q)
    <3>1. CASE PostArrives(q) \/ PostRefused(q)
      BY <1>1, <3>1 DEF PostArrives, PostRefused, RunType
    <3>2. CASE Aborts(q)
      <4> DEFINE p == [run[q] EXCEPT !.aborted = TRUE,
                                     !.status = IF @ = "running" THEN "aborted" ELSE @]
      <4>1. run' = [run EXCEPT ![q] = p]
        BY <1>1, <3>2 DEF Aborts
      <4>2. p.last = run[q].last
        BY <1>1 DEF RunType
      <4> HIDE DEF p
      <4>3. r = q => run'[r] = p
        BY <1>1, <4>1
      <4>4. r # q => run'[r] = run[r]
        BY <1>1, <4>1
      <4> QED  BY <4>2, <4>3, <4>4
    <3>3. CASE IdlePasses(q)
      BY <1>1, <3>3 DEF IdlePasses, RunType
    <3> QED  BY <2>1, <3>1, <3>2, <3>3
  <2>2. CASE PostCreates(q) \/ PostThrows(q)
    <3>1. PICK exec \in {"active", "threw"} :
            run' = [run EXCEPT ![q] = [NewRun EXCEPT !.exec = exec, !.registered = TRUE]]
      BY <2>2 DEF PostCreates, PostThrows
    <3>2. [NewRun EXCEPT !.exec = exec, !.registered = TRUE].last = "event"
      BY DEF NewRun
    <3> QED  BY <1>1, <3>1, <3>2
  <2>3. CASE Emits(q)
    <3>1. run' = run \/ run' = [run EXCEPT ![q] = Record(q, "event")]
      BY <2>3 DEF Emits
    <3>2. Record(q, "event").last = "event"
      BY <1>1 DEF Record, RunType
    <3> QED  BY <1>1, <3>1, <3>2
  <2>4. CASE EmitsFinal(q)
    <3>1. \/ run' = [run EXCEPT ![q].exec = "ended"]
          \/ run' = [run EXCEPT ![q] = [Record(q, "final") EXCEPT !.exec = "ended"]]
      BY <2>4 DEF EmitsFinal
    <3>2. [Record(q, "final") EXCEPT !.exec = "ended"].last = "final"
      BY <1>1 DEF Record, RunType
    <3>3. [run[q] EXCEPT !.exec = "ended"].last = run[q].last
      BY <1>1 DEF RunType
    <3> QED  BY <1>1, <3>1, <3>2, <3>3
  <2>5. CASE RunResolves(q)
    <3>1. CASE run[q].registered
      <4>1. PICK status : run' = [run EXCEPT ![q] = Finished(run[q], status)]
        BY <2>5, <3>1 DEF RunResolves
      <4> QED  BY <1>1, <4>1 DEF Finished, RunType
    <3>2. CASE ~run[q].registered
      BY <1>1, <2>5, <3>2 DEF RunResolves, RunType
    <3> QED  BY <3>1, <3>2
  <2>6. CASE RunRejects(q)
    <3>1. CASE run[q].registered
      <4>1. run' = [run EXCEPT ![q] = Finished(Record(q, "error"), "error")]
        BY <2>6, <3>1 DEF RunRejects
      <4>2. Finished(Record(q, "error"), "error").seq = run[q].seq + 1
        BY <1>1 DEF Finished, Record, RunType
      <4> QED  BY <1>1, <4>1, <4>2
    <3>2. CASE ~run[q].registered
      BY <1>1, <2>6, <3>2 DEF RunRejects, RunType
    <3> QED  BY <3>1, <3>2
  <2> QED  BY <2>1, <2>2, <2>3, <2>4, <2>5, <2>6 DEF RunNext
<1> HIDE DEF r
<1>5. run'[r].last = "error" => client'[c].last < run'[r].seq
  <2>1. run[r].last = "error" => client[c].last < run[r].seq
    BY <1>1 DEF Unseen, r
  <2> QED  BY <1>2, <1>3, <1>4, <2>1
<1> QED  BY <1>5 DEF Unseen, r

(* What a connection's step changes is fed, or no longer reads.            *)
LEMMA DueAfterLeaving ==
  ASSUME Inv, Due, NEW k \in Conns, conn[k].alive, NEW outcome, Leaves(k, outcome)
  PROVE  Due'
<1>1. PICK c \in Clients : conn[k].client = c
  BY InUse DEF Inv
<1>2. /\ conn' = [conn EXCEPT ![k] = Left(k)] /\ run' = run
      /\ client' = [client EXCEPT ![c].outcome = outcome]
      /\ conn \in [Conns -> ConnType \cup {NoConn}] /\ client \in [Clients -> ClientType]
  BY <1>1 DEF Leaves, Inv, Types
<1>3. \A d \in Clients : client'[d].last = client[d].last
  BY <1>2 DEF ClientType
<1>4. conn[k] \in ConnType
  BY InUse DEF Inv
<1>5. ~conn'[k].alive
  BY <1>2, <1>4 DEF Left, NoConn, ConnType
<1>6. ASSUME NEW j \in Conns PROVE Fed(j)'
  <2>1. CASE j = k
    BY <1>5, <2>1 DEF Fed
  <2>2. CASE j # k
    BY <1>2, <1>3, <2>2, FedKept DEF Due
  <2> QED  BY <2>1, <2>2
<1>7. ASSUME NEW d \in Clients PROVE Unseen(d)'
  BY <1>2, <1>3 DEF Due, Unseen
<1> QED  BY <1>6, <1>7 DEF Due

(* A shutdown frame is passed over: the events behind it are still there.  *)
LEMMA DueAfterShutdown ==
  ASSUME Inv, Due, NEW k \in Conns, HasFrame(k, {"shutdown"}),
         conn' = [conn EXCEPT ![k].frames = Tail(@)], UNCHANGED <<run, client, phase>>
  PROVE  Due'
<1> DEFINE f == conn[k].frames  w == conn[k].written
<1>1. conn[k].alive /\ f # <<>> /\ Head(f).kind = "shutdown"
  BY DEF HasFrame, Head1
<1>2. conn[k] \in ConnType /\ conn \in [Conns -> ConnType \cup {NoConn}]
  BY <1>1, InUse DEF Inv, Types
<1>3. f \in Seq(FrameType) /\ w \in Nat /\ Shape(f, w)
  BY <1>1, <1>2 DEF ConnType, Inv, Streams
<1>4. /\ conn'[k].frames = Tail(f) /\ conn'[k].open = conn[k].open
      /\ conn'[k].ended = conn[k].ended /\ conn'[k].client = conn[k].client
      /\ conn'[k].written = w
  BY <1>2 DEF ConnType
<1>5. Events(Tail(f)) = Events(f)
  <2> HIDE DEF f, w
  <2> QED  BY <1>1, <1>3, FrameRead
<1>6. ASSUME NEW j \in Conns PROVE Fed(j)'
  <2>1. CASE j = k
    <3>1. Fed(k)
      BY DEF Due
    <3> QED  BY <1>1, <1>4, <1>5, <2>1, <3>1 DEF Fed
  <2>2. CASE j # k
    BY <1>2, <2>2, FedKept DEF Due
  <2> QED  BY <2>1, <2>2
<1>7. ASSUME NEW d \in Clients PROVE Unseen(d)'
  BY DEF Due, Unseen
<1> QED  BY <1>6, <1>7 DEF Due

(* Data is read: the client has been handed something, and not the error.  *)
LEMMA DueAfterData ==
  ASSUME Inv, Due, NEW k \in Conns, ReadsData(k)
  PROVE  Due'
<1>1. HasFrame(k, {"event", "final"}) /\ UNCHANGED <<run, phase>>
  BY DEF ReadsData
<1>2. PICK c \in Clients : conn[k].client = c
  BY <1>1, InUse DEF HasFrame, Inv
<1>3. PICK id \in Nat : id = Head1(k).id
  BY <1>1, <1>2, HeadIsDue
<1>4. /\ id \in 1 .. run[Follows[c]].seq /\ client[c].last \in Nat
      /\ run[Follows[c]].seq \in Nat
      /\ client[c].last = 0 \/ client[c].last >= id - 1
      /\ conn[k].alive /\ conn[k].frames # <<>>
  BY <1>1, <1>2, <1>3, HeadIsDue, GatewayAssumption DEF Inv, Types, RunType
<1>5. /\ client \in [Clients -> ClientType] /\ conn[k] \in ConnType
      /\ conn \in [Conns -> ConnType \cup {NoConn}] /\ conn[k].run = Follows[c]
  BY <1>2, <1>4, InUse DEF Inv, Types
<1>6. ~(client[c].last # 0 /\ id > client[c].last + 1)
  BY <1>4
<1>7. /\ \/ client' = client /\ client[c].last # 0
         \/ client' = [client EXCEPT ![c].last = id,
                         ![c].first = IF client[c].last = 0 THEN id ELSE client[c].first,
                         ![c].outcome = IF Head1(k).kind = "final" THEN "final"
                                        ELSE client[c].outcome]
      /\ \/ conn' = [conn EXCEPT ![k].frames = Tail(conn[k].frames)]
         \/ conn' = [conn EXCEPT ![k] = Left(k)]
  <2>1. conn' = [conn EXCEPT ![k] = [conn[k] EXCEPT !.frames = Tail(conn[k].frames)]] =>
          conn' = [conn EXCEPT ![k].frames = Tail(conn[k].frames)]
    OBVIOUS
  <2> QED  BY <1>2, <1>3, <1>6, <2>1 DEF ReadsData
<1>8. /\ client'[c].last # 0 /\ \A d \in Clients : d # c => client'[d] = client[d]
      /\ client'[c].last = client[c].last \/ client'[c].last = id
  BY <1>4, <1>5, <1>7 DEF ClientType
<1>9. /\ \A j \in Conns : j # k => conn'[j] = conn[j]
      /\ conn'[k].alive => /\ conn'[k].open = conn[k].open /\ conn'[k].ended = conn[k].ended
                           /\ conn'[k].client = c
  <2>1. CASE conn' = [conn EXCEPT ![k].frames = Tail(conn[k].frames)]
    BY <1>2, <1>5, <2>1 DEF ConnType
  <2>2. CASE conn' = [conn EXCEPT ![k] = Left(k)]
    BY <1>2, <1>5, <2>2 DEF ConnType, Left, NoConn
  <2> QED  BY <1>7, <2>1, <2>2
<1>10. ASSUME NEW j \in Conns PROVE Fed(j)'
  <2>1. CASE j = k
    <3>1. conn[k].open \/ conn[k].ended
      BY <1>4 DEF Due, Fed
    <3> QED  BY <1>8, <1>9, <2>1, <3>1 DEF Fed
  <2>2. CASE j # k
    <3>1. \A d \in Clients : client'[d].last = client[d].last \/ client'[d].last # 0
      BY <1>8
    <3> QED  BY <1>9, <2>2, <3>1, FedKept DEF Due
  <2> QED  BY <2>1, <2>2
<1>11. run[Follows[c]].last = "error" => id < run[Follows[c]].seq
  <2> DEFINE f == conn[k].frames  w == conn[k].written
  <2>1. Head(f).kind \in {"event", "final"} /\ id = Head(f).id
    BY <1>1, <1>3 DEF HasFrame, Head1
  <2>2. /\ Shape(f, w) /\ f \in Seq(FrameType) /\ w \in Nat
        /\ Kinds(f, run[Follows[c]].seq, run[Follows[c]].last)
    BY <1>4, <1>5 DEF Inv, Streams, ConnType
  <2>3. 1 \in DOMAIN f /\ Head(f) = f[1]
    <3> HIDE DEF f, w
    <3>1. f # <<>>
      BY <1>4 DEF f
    <3> QED  BY <2>2, <3>1, FrameRead
  <2>4. id = run[Follows[c]].seq => Head(f).kind = run[Follows[c]].last
    BY <2>1, <2>2, <2>3 DEF Kinds
  <2> HIDE DEF f
  <2>5. run[Follows[c]].last = "error" => id # run[Follows[c]].seq
    BY <2>1, <2>4
  <2> QED  BY <1>4, <2>5
<1>12. ASSUME NEW d \in Clients PROVE Unseen(d)'
  <2>1. run' = run /\ Unseen(d)
    BY <1>1 DEF Due
  <2> QED  BY <1>8, <1>11, <2>1 DEF Unseen
<1> QED  BY <1>10, <1>12 DEF Due

(* A client attaches: it is replayed everything it has not been handed, and*)
(* the sink stays open or the response has been ended.                     *)
LEMMA DueAfterAttach ==
  ASSUME Inv, Due, NEW k \in Conns, NEW c \in Clients, NEW after, Attaches(c, k, after)
  PROVE  Due'
<1>1. PICK r \in Runs : Follows[c] = r
  BY GatewayAssumption
<1>2. /\ run[r].exec \in {"active", "ended", "settled"} /\ conn[k] = NoConn
      /\ client[c].outcome \notin {"final", "error"} /\ after \in {0, client[c].last}
      /\ \A j \in Conns : ~(conn[j].client = c /\ conn[j].alive)
  BY <1>1 DEF Attaches, Listening
<1>3. /\ conn \in [Conns -> ConnType \cup {NoConn}] /\ run \in [Runs -> RunType]
      /\ client \in [Clients -> ClientType] /\ run[r] \in RunType /\ client[c] \in ClientType
      /\ ClientSound(c) /\ RunSound(r)
  BY DEF Inv, Types
<1>4. \A q \in Runs : run'[q].seq = run[q].seq /\ run'[q].last = run[q].last
  BY <1>1, <1>3 DEF Attaches, RunType
<1>5. /\ \A d \in Clients : d # c => client'[d] = client[d]
      /\ client'[c].last = client[c].last \/ client'[c].last = 0
  <2>1. \/ client' = [client EXCEPT ![c].outcome = "lost"]
        \/ client' = [client EXCEPT ![c] = IF after = 0 THEN NewClient
                                           ELSE [client[c] EXCEPT !.outcome = "none"]]
    BY DEF Attaches
  <2>2. [client[c] EXCEPT !.outcome = "none"].last = client[c].last /\ NewClient.last = 0
    BY <1>3 DEF ClientType, NewClient
  <2> QED  BY <1>3, <2>1, <2>2 DEF ClientType
<1>6. ASSUME NEW d \in Clients PROVE Unseen(d)'
  <2>1. Follows[d] \in Runs /\ RunSound(Follows[d]) /\ Unseen(d)
    BY GatewayAssumption DEF Inv, Due
  <2>2. run[Follows[d]].seq \in Nat /\ (run[Follows[d]].last = "error" => run[Follows[d]].seq > 0)
    BY <1>3, <2>1 DEF RunSound, RunType
  <2> QED  BY <1>4, <1>5, <2>1, <2>2 DEF Unseen
<1>7. ASSUME NEW j \in Conns, j # k, conn'[j] = conn[j] PROVE Fed(j)'
  <2>1. CASE ~conn[j].alive
    BY <1>7, <2>1 DEF Fed
  <2>2. CASE conn[j].alive
    <3>1. conn[j].client \in Clients /\ conn[j].client # c
      BY <1>2, <2>2, InUse DEF Inv
    <3>2. client'[conn[j].client] = client[conn[j].client]
      BY <1>5, <3>1
    <3> QED  BY <1>7, <2>2, <3>2 DEF Fed, Due
  <2> QED  BY <2>1, <2>2
<1>8. CASE ~run[r].registered \/ Gap(r, after)
  <2>1. conn' = conn
    BY <1>1, <1>8 DEF Attaches
  <2>2. ~NoConn.alive
    BY DEF NoConn
  <2>3. Fed(k)'
    BY <1>2, <2>1, <2>2 DEF Fed
  <2> QED  BY <1>6, <1>7, <2>1, <2>3 DEF Due
<1>9. CASE run[r].registered /\ ~Gap(r, after)
  <2>1. /\ conn' = [conn EXCEPT ![k] = Opened(c, r, after)]
        /\ client' = [client EXCEPT ![c] = IF after = 0 THEN NewClient
                                           ELSE [client[c] EXCEPT !.outcome = "none"]]
    BY <1>1, <1>9 DEF Attaches
  <2>2. conn'[k] = Opened(c, r, after) /\ \A j \in Conns : j # k => conn'[j] = conn[j]
    BY <1>3, <2>1
  <2>3. after \in 0 .. run[r].seq
    BY <1>1, <1>2, <1>9, StaysWithAnActiveRun
  <2>4. /\ conn'[k].client = c /\ conn'[k].written = run[r].seq
        /\ conn'[k].frames = Replayed(r, after)
        /\ conn'[k].open = ~EndsWithReplay(r, after)
        /\ conn'[k].ended = EndsWithReplay(r, after)
    BY <1>1, <1>9, <2>2, <2>3, OpenedConn
  <2>5. conn'[k].open \/ conn'[k].ended
    <3>1. EndsWithReplay(r, after) \in BOOLEAN
      BY DEF EndsWithReplay
    <3> QED  BY <2>4, <3>1
  <2>6. client'[c].last = after
    <3>1. [client[c] EXCEPT !.outcome = "none"].last = client[c].last /\ NewClient.last = 0
      BY <1>3 DEF ClientType, NewClient
    <3> QED  BY <1>2, <1>3, <2>1, <3>1
  <2>7. ASSUME client'[c].last = 0, run[r].seq > 0 PROVE Events(Replayed(r, after)) > 0
    <3>1. after = 0 /\ after < run[r].seq /\ run[r].seq \in Nat
      BY <1>3, <2>6, <2>7 DEF RunType
    <3> DEFINE f == Replayed(r, after)
    <3>2. f \in Seq(FrameType) /\ Quiet(f) /\ f # <<>>
      BY <1>3, <1>9, <2>3, <3>1, ReplayShape DEF Inv, RunSound
    <3> HIDE DEF f
    <3>3. Cut(f, 0) = 0
      BY <3>2 DEF Cut, Quiet
    <3>4. Len(f) \in Nat /\ Len(f) # 0
      BY <3>2, LenProperties, EmptySeq
    <3>5. Events(f) > 0
      BY <3>3, <3>4 DEF Events
    <3> QED  BY <3>5 DEF f
  <2>8. Fed(k)'
    BY <2>4, <2>5, <2>7 DEF Fed
  <2> QED  BY <1>6, <1>7, <2>2, <2>8 DEF Due
<1> QED  BY <1>8, <1>9

(* Drain and exit: a shutdown frame hides no event, and the exit ends every*)
(* response that is still open.                                            *)
LEMMA DueAfterDrain ==
  ASSUME Inv, Due, DrainBegins \/ TellsSinks \/ Exits
  PROVE  Due'
<1>1. client' = client /\ run \in [Runs -> RunType] /\ conn \in [Conns -> ConnType \cup {NoConn}]
  BY DEF DrainBegins, TellsSinks, Exits, Inv, Types
<1>2. \A q \in Runs : run'[q].seq = run[q].seq /\ run'[q].last = run[q].last
  <2>1. CASE run' = run
    BY <2>1
  <2>2. ASSUME Exits, NEW q \in Runs PROVE run'[q].seq = run[q].seq /\ run'[q].last = run[q].last
    <3>1. PICK e : run'[q] = [run[q] EXCEPT !.registered = FALSE, !.refs = 0, !.exec = e]
      BY <1>1, <2>2 DEF Exits
    <3>2. run[q] \in RunType
      BY <1>1
    <3> QED  BY <3>1, <3>2 DEF RunType
  <2> QED  BY <2>1, <2>2 DEF DrainBegins, TellsSinks
<1>3. ASSUME NEW c \in Clients PROVE Unseen(c)'
  <2>1. Follows[c] \in Runs /\ Unseen(c)
    BY GatewayAssumption DEF Due
  <2> QED  BY <1>1, <1>2, <2>1 DEF Unseen
<1>4. ASSUME NEW k \in Conns PROVE Fed(k)'
  <2>1. Fed(k)
    BY DEF Due
  <2>2. CASE conn'[k] = conn[k]
    BY <1>1, <2>1, <2>2 DEF Fed
  <2>3. CASE ~conn'[k].alive
    BY <2>3 DEF Fed
  <2>4. CASE TellsSinks /\ conn'[k] # conn[k]
    <3> DEFINE f == conn[k].frames  w == conn[k].written  x == Frame("shutdown", 0)
    <3>1. /\ conn[k].open /\ conn[k].alive /\ phase = "draining"
          /\ conn'[k] = [conn[k] EXCEPT !.frames = Append(f, x)]
      BY <1>1, <2>4 DEF TellsSinks
    <3>2. conn[k] \in ConnType
      BY <3>1, InUse DEF Inv
    <3>3. f \in Seq(FrameType) /\ w \in Nat /\ Shape(f, w) /\ Quiet(f)
      BY <3>1, <3>2 DEF ConnType, Inv, Streams
    <3>4. x \in FrameType /\ x.kind = "shutdown"
      BY GatewayAssumption DEF Frame, FrameType
    <3>5. Events(Append(f, x)) = Events(f)
      <4> HIDE DEF f, w, x
      <4> QED  BY <3>3, <3>4, ShutdownAppended
    <3>6. /\ conn'[k].frames = Append(f, x) /\ conn'[k].open = conn[k].open
          /\ conn'[k].client = conn[k].client /\ conn'[k].written = conn[k].written
      BY <3>1, <3>2 DEF ConnType
    <3> QED  BY <1>1, <2>1, <3>1, <3>5, <3>6 DEF Fed
  <2>5. CASE Exits /\ conn'[k].alive
    <3>1. ~NoConn.alive
      BY DEF NoConn
    <3>2. conn[k].alive /\ conn'[k] = [conn[k] EXCEPT !.open = FALSE, !.subscribed = FALSE,
                                                      !.ended = TRUE]
      BY <1>1, <2>5, <3>1 DEF Exits
    <3>3. conn[k] \in ConnType
      BY <3>2, InUse DEF Inv
    <3>4. /\ conn'[k].ended /\ conn'[k].frames = conn[k].frames
          /\ conn'[k].client = conn[k].client /\ conn'[k].written = conn[k].written
      BY <3>2, <3>3 DEF ConnType
    <3> QED  BY <1>1, <2>1, <3>2, <3>4 DEF Fed
  <2> QED  BY <2>2, <2>3, <2>4, <2>5 DEF DrainBegins, TellsSinks
<1> QED  BY <1>3, <1>4 DEF Due

(* Every step keeps it.                                                    *)
LEMMA NextDue == Inv /\ Due /\ [Next]_vars => Due'
<1> SUFFICES ASSUME Inv, Due, [Next]_vars PROVE Due'
  OBVIOUS
<1>1. ASSUME NEW r \in Runs, RunNext(r) PROVE Due'
  BY <1>1, FedByRuns, UnseenByRuns DEF Due
<1>2. ASSUME NEW k \in Conns, ConnNext(k) PROVE Due'
  <2>1. CASE ReadsEnd(k) \/ SeesEnd(k) \/ Breaks(k)
    <3>1. \/ conn[k].alive /\ \E outcome : Leaves(k, outcome)
          \/ /\ HasFrame(k, {"shutdown"}) /\ conn' = [conn EXCEPT ![k].frames = Tail(@)]
             /\ UNCHANGED <<run, client, phase>>
      BY <2>1 DEF ReadsEnd, SeesEnd, Breaks, HasFrame
    <3> QED  BY <3>1, DueAfterLeaving, DueAfterShutdown
  <2>2. CASE ReadsData(k)
    BY <2>2, DueAfterData
  <2>3. CASE ServerSeesClose(k)
    <3>1. /\ conn' = [conn EXCEPT ![k] = NoConn] /\ client' = client
          /\ conn \in [Conns -> ConnType \cup {NoConn}] /\ run \in [Runs -> RunType]
      BY <2>3 DEF ServerSeesClose, Inv, Types
    <3>2. \A q \in Runs : run'[q].seq = run[q].seq /\ run'[q].last = run[q].last
      BY <2>3, <3>1 DEF ServerSeesClose, RunType
    <3>3. ASSUME NEW c \in Clients PROVE Unseen(c)'
      <4>1. Follows[c] \in Runs /\ Unseen(c)
        BY GatewayAssumption DEF Due
      <4> QED  BY <3>1, <3>2, <4>1 DEF Unseen
    <3>4. ASSUME NEW j \in Conns PROVE Fed(j)'
      <4>1. CASE j = k
        BY <3>1, <4>1 DEF Fed, NoConn
      <4>2. CASE j # k
        BY <3>1, <4>2, FedKept DEF Due
      <4> QED  BY <4>1, <4>2
    <3> QED  BY <3>3, <3>4 DEF Due
  <2>4. ASSUME NEW c \in Clients, Attaches(c, k, 0) \/ Attaches(c, k, client[c].last) PROVE Due'
    <3>1. PICK after : Attaches(c, k, after)
      BY <2>4
    <3> QED  BY <3>1, DueAfterAttach
  <2> QED  BY <1>2, <2>1, <2>2, <2>3, <2>4 DEF ConnNext
<1>3. CASE Collects
  <2>1. /\ conn' = conn /\ client' = client
        /\ \A q \in Runs : run'[q].seq = run[q].seq /\ run'[q].last = run[q].last
    BY <1>3 DEF Collects, Inv, Types, RunType
  <2>2. ASSUME NEW c \in Clients PROVE Unseen(c)'
    <3>1. Follows[c] \in Runs /\ Unseen(c)
      BY GatewayAssumption DEF Due
    <3> QED  BY <2>1, <3>1 DEF Unseen
  <2> QED  BY <2>1, <2>2 DEF Due, Fed
<1>4. CASE UNCHANGED vars
  BY <1>4 DEF vars, Due, Fed, Unseen
<1> QED  BY <1>1, <1>2, <1>3, <1>4, DueAfterDrain DEF Next

(* A client with nothing to read never waits in vain: the run that will    *)
(* write its last event is executing and its sink is subscribed to it, or  *)
(* the response has been ended early because the run was aborted or the    *)
(* process exits, and the client will see that.  With the fairness of      *)
(* FairSpec this is what EveryStreamEnds rests on.                         *)
THEOREM WaitsAreNotInVain == Spec => []NobodyWaitsInVain
<1>1. Init => Due
  <2> SUFFICES ASSUME Init PROVE Due
    OBVIOUS
  <2>1. ASSUME NEW k \in Conns PROVE Fed(k)
    BY DEF Init, Fed, NoConn
  <2>2. ASSUME NEW c \in Clients PROVE Unseen(c)
    <3>1. Follows[c] \in Runs
      BY GatewayAssumption
    <3> QED  BY <3>1 DEF Init, Unseen, NewRun
  <2> QED  BY <2>1, <2>2 DEF Due
<1>2. Inv /\ Due => NobodyWaitsInVain
  <2> SUFFICES ASSUME Inv, Due, NEW k \in Conns, conn[k].alive, conn[k].frames = <<>>
               PROVE  \/ /\ conn[k].open /\ conn[k].subscribed
                         /\ run[conn[k].run].registered /\ run[conn[k].run].exec = "active"
                      \/ conn[k].ended /\ (run[conn[k].run].aborted \/ phase = "exited")
    BY DEF NobodyWaitsInVain
  <2>1. CASE conn[k].open
    BY <2>1 DEF Inv, ConnSound
  <2>2. CASE conn[k].ended /\ phase # "exited" /\ ~run[conn[k].run].aborted
    <3>1. PICK c \in Clients : conn[k].client = c
      BY InUse DEF Inv
    <3>2. PICK r \in Runs : r = conn[k].run /\ r = Follows[c]
      BY <3>1, InUse DEF Inv
    <3>3. run[r].last # "event" /\ conn[k].written = run[r].seq
      BY <2>2, <3>2 DEF Inv, ConnSound
    <3>4. /\ run[r].seq \in Nat /\ run[r].seq > 0 /\ client[c].last \in Nat
          /\ client[c].last <= run[r].seq
      BY <3>2, <3>3 DEF Inv, Types, RunType, ClientType, RunSound, ClientSound
    <3>5. Events(<<>>) = 0
      <4>1. Cut(<<>>, 0) = 0
        BY DEF Cut
      <4> QED  BY <4>1 DEF Events
    <3>6. client[c].last # 0
      <4>1. client[c].last = 0 /\ conn[k].written > 0 => Events(<<>>) > 0
        BY <3>1 DEF Due, Fed
      <4> QED  BY <3>3, <3>4, <3>5, <4>1
    <3>7. client[c].last >= conn[k].written - Events(<<>>) /\ client[c].outcome \notin {"final", "error"}
      BY <3>1, <3>6 DEF Inv, Streams
    <3>8. client[c].last = run[r].seq /\ client[c].last > 0
      BY <3>3, <3>4, <3>5, <3>6, <3>7
    <3>9. run[r].last # "error"
      BY <3>2, <3>4, <3>8 DEF Due, Unseen
    <3>10. run[r].last # "final"
      BY <3>2, <3>7, <3>8 DEF Inv, ClientSound
    <3>11. run[r].last \in {"event", "final", "error"}
      BY DEF Inv, Types, RunType
    <3> QED  BY <3>3, <3>9, <3>10, <3>11
  <2>3. conn[k].open \/ conn[k].ended
    BY DEF Due, Fed
  <2> QED  BY <2>1, <2>2, <2>3
<1> QED  BY <1>1, <1>2, Invariant, NextDue, PTL DEF Spec
=============================================================================
