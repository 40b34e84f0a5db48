--------------------------- MODULE VersionedFile ---------------------------
(***************************************************************************)
(* The flush protocol of QueueFile over a memory that is just a version    *)
(* number, to ask what flush() promises of the file whatever the queue     *)
(* holds.  Each mutation of the queue is a new version; any caller may     *)
(* flush at any time; the process may die between any two steps and start  *)
(* again from the file.                                                    *)
(***************************************************************************)
EXTENDS QueueFile

CONSTANT MaxVersion   \* bound: how many mutations are explored

ASSUME MaxVersionAssumption == MaxVersion \in Nat

VARIABLE version

vars == <<version, disk, flush, overlap, faults>>

Init == version = 0 /\ FileInit({0})

(* enqueue, claim, complete, fail: a synchronous change of the queue. *)
Mutate ==
  /\ version < MaxVersion
  /\ version' = version + 1
  /\ UNCHANGED fileVars

Call(f) ==
  /\ flush[f].pc = "idle"
  /\ CallFlush(f)
  /\ UNCHANGED version

Step(f) == FlushStep(f, version) /\ UNCHANGED version

Return(f) == FlushReturns(f) /\ UNCHANGED version

Reject(f) == FlushRejects(f, NoFlush) /\ UNCHANGED version

(* The process dies and TaskQueue.open() loads what the file holds. *)
Reboot ==
  /\ version' = Loaded(disk.file, 0)
  /\ FlushesDie
  /\ UNCHANGED <<disk, overlap, faults>>

Next ==
  \/ Mutate
  \/ Reboot
  \/ \E f \in Flushers : Call(f) \/ Step(f) \/ Return(f) \/ Reject(f)

Spec == Init /\ [][Next]_vars

-----------------------------------------------------------------------------

(* The variables hold values of their types. *)
TypeOK == version \in Nat /\ FileTypeOK(Nat)

(* As long as no two flushes have been under way at once, the file is one  *)
(* whole text: a crash at any point finds the queue as some flush saw it.  *)
(* This is what tmp + rename in flush() is for.                            *)
WholeUnlessOverlap == ~overlap => Readable(disk.file)

(* As long as no two flushes have been under way at once, a rename finds   *)
(* the temporary file of its own flush, with that flush's text in it: a    *)
(* flush then rejects only for a fault of the file system.                 *)
OwnTextUnlessOverlap ==
  ~overlap => \A f \in Flushers :
                flush[f].pc = "rename" => disk.linked /\ disk.tmp = flush[f].snap

(* Why: as long as no two flushes have overlapped, at most one is past its *)
(* snapshot, that snapshot is a version between the stored and the current *)
(* one, and the temporary file is that flush's own.                        *)
OneWriter ==
  \A f, g \in Flushers :
    flush[f].pc \in Writing /\ flush[g].pc \in Writing => f = g

SnapshotBetween ==
  \A f \in Flushers : flush[f].pc \in Writing =>
    \E d \in 0 .. version : flush[f].snap = {d} /\ \A e \in disk.file : e <= d

TmpIsOwn ==
  \A f \in Flushers :
    /\ flush[f].pc = "write" => flush[f].fd = "tmp" /\ disk.linked /\ disk.tmp = {}
    /\ flush[f].pc = "rename" => disk.linked /\ disk.tmp = flush[f].snap

StoredNotAhead == \E d \in 0 .. version : disk.file = {d}

Solo == OneWriter /\ SnapshotBetween /\ TmpIsOwn /\ StoredNotAhead

SoloUnlessOverlap == ~overlap => Solo

(* The flush protocol is sound until two flushes overlap: one writer, whose*)
(* snapshot is no older than the file, a whole file, and a rename that     *)
(* finds its own text.                                                     *)
FlushesSound == SoloUnlessOverlap /\ WholeUnlessOverlap /\ OwnTextUnlessOverlap

(* The refinement mapping: what is stored is what a reboot would load.     *)
Register == INSTANCE AtomicRegister
              WITH memory <- version, stored <- Loaded(disk.file, 0)

(* As long as no two flushes have been under way at once, whatever crashes *)
(* and faults there are, every step is one the atomically saved register   *)
(* allows: a flush takes effect at its rename, and never puts back a       *)
(* version older than the one that is stored.                              *)
AtomicUnlessOverlap ==
  /\ Register!Init
  /\ [][~overlap' => [Register!Next]_(Register!regVars)]_vars

-----------------------------------------------------------------------------
(* What a comment says, and the code does not do: refuted. *)

(* queue.ts, header: "Persistence is atomic (tmp + rename)": the file is   *)
(* an atomically saved register, however many callers flush() has.         *)
AtomicPersistence == Register!Spec
=============================================================================
