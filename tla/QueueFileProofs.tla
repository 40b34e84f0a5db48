--------------------------- MODULE QueueFileProofs ---------------------------
(***************************************************************************)
(* What each step of the flush protocol does to the types of QueueFile's   *)
(* variables and to the set of snapshots there is, for any set of callers  *)
(* and any type of data: the lemmas that the proofs about VersionedFile    *)
(* and Daemon rest on.                                                     *)
(***************************************************************************)
EXTENDS QueueFile, TLAPS

(* A file that is loaded gives one of its snapshots, or the fresh value.   *)
LEMMA LoadedIsHeld ==
  ASSUME NEW content, NEW fresh
  PROVE  Loaded(content, fresh) \in content \union {fresh}
<1>1. CASE Readable(content)
  <2>1. PICK d \in content : content = {d}
    BY <1>1 DEF Readable
  <2>2. (CHOOSE e \in content : content = {e}) \in content
    BY <2>1
  <2> QED  BY <1>1, <2>2 DEF Loaded
<1>2. CASE ~Readable(content)
  BY <1>2 DEF Loaded
<1> QED  BY <1>1, <1>2

(* A file that holds one whole text is read as that text.                  *)
LEMMA LoadedWhole ==
  ASSUME NEW d, NEW fresh
  PROVE  Readable({d}) /\ Loaded({d}, fresh) = d
<1>1. \A e \in {d} : e = d
  OBVIOUS
<1>2. Readable({d})
  BY DEF Readable
<1>3. (CHOOSE e \in {d} : {d} = {e}) \in {d}
  OBVIOUS
<1> QED  BY <1>1, <1>2, <1>3 DEF Loaded

-----------------------------------------------------------------------------
(* Types *)

(* Before anything is flushed, the variables have their types.             *)
LEMMA FileInitTypes ==
  ASSUME NEW Data, NEW stored \in SUBSET Data, FileInit(stored)
  PROVE  FileTypeOK(Data)
BY DEF FileInit, FileTypeOK, DiskType, FlushType, NoFlush

(* Calling flush() keeps the types.                                        *)
LEMMA CallFlushTypes ==
  ASSUME NEW Data, FileTypeOK(Data), NEW f \in Flushers, CallFlush(f)
  PROVE  FileTypeOK(Data)'
BY DEF CallFlush, FileTypeOK, FlushType, NewFlush

(* So does every internal step of a flush, whatever the queue holds.       *)
LEMMA FlushStepTypes ==
  ASSUME NEW Data, FileTypeOK(Data), NEW f \in Flushers,
         NEW data \in Data, FlushStep(f, data)
  PROVE  FileTypeOK(Data)'
<1> USE DEF FileTypeOK, DiskType, FlushType, Writing
<1>1. CASE FlushSnapshot(f, data)
  BY <1>1 DEF FlushSnapshot
<1>2. CASE FlushOpen(f)
  BY <1>2 DEF FlushOpen
<1>3. CASE FlushWrite(f)
  <2>1. flush' \in [Flushers -> FlushType(Data)]
    <3>1. flush' = [flush EXCEPT ![f] = [@ EXCEPT !.pc = "rename", !.fd = "closed"]]
      BY <1>3, Zenon DEF FlushWrite
    <3> QED  BY <3>1
  <2>2. disk' \in DiskType(Data)
    <3>1. flush[f].snap \in SUBSET Data
      OBVIOUS
    <3> QED  BY <1>3, <3>1 DEF FlushWrite
  <2> QED  BY <1>3, <2>1, <2>2 DEF FlushWrite
<1> QED  BY <1>1, <1>2, <1>3 DEF FlushStep

(* So does a flush that returns.                                           *)
LEMMA FlushReturnsTypes ==
  ASSUME NEW Data, FileTypeOK(Data), NEW f \in Flushers, FlushReturns(f)
  PROVE  FileTypeOK(Data)'
BY DEF FlushReturns, FileTypeOK, DiskType, FlushType, NoFlush

(* A flush that rejects changes no file and only counts the fault.         *)
LEMMA FlushFailsTypes ==
  ASSUME NEW Data, FileTypeOK(Data),
         NEW f \in Flushers, FlushFails(f)
  PROVE  disk' \in DiskType(Data) /\ overlap' \in BOOLEAN /\ faults' \in Nat
BY DEF FlushFails, FileTypeOK

(* So does a flush that rejects, when its caller goes on without a flush   *)
(* or with a new one.                                                      *)
LEMMA FlushRejectsTypes ==
  ASSUME NEW Data, FileTypeOK(Data), NEW f \in Flushers,
         NEW next \in {NoFlush, NewFlush}, FlushRejects(f, next)
  PROVE  FileTypeOK(Data)'
<1>1. next \in FlushType(Data)
  BY DEF FlushType, NoFlush, NewFlush
<1> QED  BY <1>1 DEF FlushRejects, FlushFails, FileTypeOK

(* And so does the end of the process.                                     *)
LEMMA FlushesDieTypes ==
  ASSUME NEW Data, FileTypeOK(Data), FlushesDie,
         disk' \in DiskType(Data), overlap' \in BOOLEAN, faults' \in Nat
  PROVE  FileTypeOK(Data)'
BY DEF FlushesDie, FileTypeOK, FlushType, NoFlush

-----------------------------------------------------------------------------
(* Snapshots *)

(* What is in Held, without the union over the callers.                    *)
LEMMA HeldMembers ==
  /\ disk.file \subseteq Held /\ disk.tmp \subseteq Held
  /\ \A f \in Flushers : flush[f].snap \subseteq Held
BY DEF Held

(* Only a flush that takes its snapshot adds to Held, and what it adds is  *)
(* the queue of that moment.                                               *)
LEMMA FlushStepHeld ==
  ASSUME NEW Data, FileTypeOK(Data), NEW f \in Flushers,
         NEW data \in Data, FlushStep(f, data)
  PROVE  Held' \subseteq Held \union {data}
<1> USE HeldMembers
<1> SUFFICES /\ disk'.file \subseteq Held /\ disk'.tmp \subseteq Held
             /\ \A g \in Flushers : flush'[g].snap \subseteq Held \union {data}
  BY DEF Held
<1>1. CASE FlushSnapshot(f, data)
  <2>1. \A g \in Flushers : flush'[g].snap = IF g = f THEN {data} ELSE flush[g].snap
    BY <1>1 DEF FlushSnapshot, FileTypeOK, FlushType
  <2> QED  BY <1>1, <2>1 DEF FlushSnapshot
<1>2. CASE FlushOpen(f)
  <2>1. disk'.file = disk.file /\ disk'.tmp = {}
    BY <1>2 DEF FlushOpen, FileTypeOK, DiskType
  <2>2. \A g \in Flushers : flush'[g].snap = flush[g].snap
    BY <1>2 DEF FlushOpen, FileTypeOK, FlushType
  <2> QED  BY <2>1, <2>2
<1>3. CASE FlushWrite(f)
  <2>1. flush' = [flush EXCEPT ![f] = [@ EXCEPT !.pc = "rename", !.fd = "closed"]]
    BY <1>3, Zenon DEF FlushWrite
  <2>2. \A g \in Flushers : flush'[g].snap = flush[g].snap
    BY <2>1 DEF FileTypeOK, FlushType
  <2>3. \/ disk' = disk
        \/ \E c \in {flush[f].snap, disk.tmp \union flush[f].snap} :
             disk' = [disk EXCEPT !.tmp = c]
        \/ \E c \in {flush[f].snap, disk.file \union flush[f].snap} :
             disk' = [disk EXCEPT !.file = c]
    BY <1>3, Zenon DEF FlushWrite
  <2>4. flush[f].snap \subseteq Held
    OBVIOUS
  <2>5. disk'.file \subseteq Held /\ disk'.tmp \subseteq Held
    BY <2>3, <2>4 DEF FileTypeOK, DiskType
  <2> QED  BY <2>2, <2>5
<1> QED  BY <1>1, <1>2, <1>3 DEF FlushStep

(* Calling flush(), its return, its rejection and the end of the process   *)
(* add nothing.                                                            *)
LEMMA CallFlushHeld ==
  ASSUME NEW Data, FileTypeOK(Data), NEW f \in Flushers, CallFlush(f)
  PROVE  Held' \subseteq Held
<1>1. \A g \in Flushers : flush'[g].snap = IF g = f THEN {} ELSE flush[g].snap
  BY DEF CallFlush, NewFlush, FileTypeOK, FlushType
<1> QED  BY <1>1 DEF CallFlush, Held

(* A rename only moves what was held.                                      *)
LEMMA FlushReturnsHeld ==
  ASSUME NEW Data, FileTypeOK(Data), NEW f \in Flushers, FlushReturns(f)
  PROVE  Held' \subseteq Held
<1>1. \A g \in Flushers : flush'[g].snap \subseteq flush[g].snap
  BY DEF FlushReturns, NoFlush, FileTypeOK, FlushType
<1>2. disk'.file = disk.tmp /\ disk'.tmp = {}
  BY DEF FlushReturns
<1> QED  BY <1>1, <1>2 DEF Held

(* A flush that rejects drops its snapshot.                                *)
LEMMA FlushRejectsHeld ==
  ASSUME NEW Data, FileTypeOK(Data), NEW f \in Flushers,
         NEW next \in {NoFlush, NewFlush}, FlushRejects(f, next)
  PROVE  Held' \subseteq Held
<1>1. \A g \in Flushers : flush'[g].snap = IF g = f THEN {} ELSE flush[g].snap
  <2>1. flush' = [flush EXCEPT ![f] = next] /\ flush \in [Flushers -> FlushType(Data)]
    BY DEF FlushRejects, FileTypeOK
  <2>2. next.snap = {}
    BY DEF NoFlush, NewFlush
  <2> QED  BY <2>1, <2>2
<1>2. disk' = disk
  BY DEF FlushRejects, FlushFails
<1> QED  BY <1>1, <1>2 DEF Held

(* The end of the process drops all snapshots.                             *)
LEMMA FlushesDieHeld ==
  ASSUME FlushesDie, disk' = disk
  PROVE  Held' \subseteq Held
<1>1. \A g \in Flushers : flush'[g].snap = {}
  BY DEF FlushesDie, NoFlush
<1> QED  BY <1>1 DEF Held
=============================================================================
