----------------------------- MODULE QueueFile -----------------------------
(***************************************************************************)
(* TaskQueue.flush() of src/daemon/queue.ts at the granularity of its      *)
(* awaits and of the file-system calls behind them:                        *)
(*                                                                         *)
(*     await mkdir(...)                                                    *)
(*     await writeFile(file.tmp, JSON.stringify(tasks))                    *)
(*     await rename(file.tmp, file)                                        *)
(*                                                                         *)
(* The JSON text is built when writeFile is called; writeFile opens the    *)
(* temporary file with truncation, writes it and closes it, each on the    *)
(* thread pool.  Every caller uses the SAME temporary name and nothing     *)
(* orders one flush after another, so flushes of several callers           *)
(* interleave.                                                             *)
(*                                                                         *)
(* The content of a file is the SET of snapshots its bytes come from: {}   *)
(* is an empty file, {d} the text of d and nothing else, and two or more   *)
(* members a text laid over a longer one, which does not parse.  A file    *)
(* descriptor follows its file when rename moves it: "tmp" and "file" say  *)
(* under which name the open file is now, "gone" that it has been          *)
(* replaced.                                                               *)
(***************************************************************************)
EXTENDS Naturals

CONSTANTS
  Flushers,   \* the callers of flush()
  MaxFaults   \* bound: file-system calls that fail for a reason of their own

ASSUME MaxFaultsAssumption == MaxFaults \in Nat

VARIABLES
  disk,     \* [file, tmp : content, linked : does the temporary name exist]
  flush,    \* flush[f] : where f's call of flush() is, its snapshot, its fd
  overlap,  \* history: two flushes have been past their snapshots at once
  faults    \* file-system faults so far

fileVars == <<disk, flush, overlap, faults>>

NoFlush == [pc |-> "idle", snap |-> {}, fd |-> "closed"]

NewFlush == [pc |-> "mkdir", snap |-> {}, fd |-> "closed"]

Writing == {"open", "write", "rename"}

DiskType(Data) ==
  [file : SUBSET Data, tmp : SUBSET Data, linked : BOOLEAN]

FlushType(Data) ==
  [pc : {"idle", "mkdir"} \union Writing, snap : SUBSET Data,
   fd : {"closed", "tmp", "file", "gone"}]

FileTypeOK(Data) ==
  /\ disk \in DiskType(Data)
  /\ flush \in [Flushers -> FlushType(Data)]
  /\ overlap \in BOOLEAN
  /\ faults \in Nat

(* Every snapshot there is: in a file, or carried by a flush under way. *)
Held == disk.file \union disk.tmp \union UNION {flush[f].snap : f \in Flushers}

FileInit(stored) ==
  /\ disk = [file |-> stored, tmp |-> {}, linked |-> FALSE]
  /\ flush = [f \in Flushers |-> NoFlush]
  /\ overlap = FALSE
  /\ faults = 0

-----------------------------------------------------------------------------

(* flush() is called: mkdir is under way.  An action that calls flush()    *)
(* has this as a conjunct.                                                 *)
CallFlush(f) ==
  /\ flush' = [flush EXCEPT ![f] = NewFlush]
  /\ UNCHANGED <<disk, overlap, faults>>

(* mkdir is done; writeFile is called with the text of the queue as it is  *)
(* now.                                                                    *)
FlushSnapshot(f, data) ==
  /\ flush[f].pc = "mkdir"
  /\ flush' = [flush EXCEPT ![f] = [@ EXCEPT !.pc = "open", !.snap = {data}]]
  /\ overlap' = (overlap \/ \E g \in Flushers \ {f} : flush[g].pc \in Writing)
  /\ UNCHANGED <<disk, faults>>

(* Variants with a plausible bug: the queue's own file is opened, or an    *)
(* existing temporary file is not truncated.                               *)
FlushOpenInPlace(f) ==
  /\ flush[f].pc = "open"
  /\ disk' = [disk EXCEPT !.file = {}]
  /\ flush' = [flush EXCEPT ![f] = [@ EXCEPT !.pc = "write", !.fd = "file"]]
  /\ UNCHANGED <<overlap, faults>>

FlushOpenKeeping(f) ==
  /\ flush[f].pc = "open"
  /\ disk' = [disk EXCEPT !.linked = TRUE]
  /\ flush' = [flush EXCEPT ![f] = [@ EXCEPT !.pc = "write", !.fd = "tmp"]]
  /\ UNCHANGED <<overlap, faults>>

(* open(file.tmp, "w"): created, or truncated where it is. *)
FlushOpen(f) ==
  /\ flush[f].pc = "open"
  /\ disk' = [disk EXCEPT !.tmp = {}, !.linked = TRUE]
  /\ flush' = [flush EXCEPT ![f] = [@ EXCEPT !.pc = "write", !.fd = "tmp"]]
  /\ UNCHANGED <<overlap, faults>>

(* The bytes are written from offset 0 and the file is closed.  Over the   *)
(* text of another flush the result depends on which text is longer.       *)
FlushWrite(f) ==
  /\ flush[f].pc = "write"
  /\ LET name == flush[f].fd
         snap == flush[f].snap
     IN  \/ name = "gone" /\ UNCHANGED disk
         \/ /\ name = "tmp"
            /\ \E c \in {snap, disk.tmp \union snap} :
                 disk' = [disk EXCEPT !.tmp = c]
         \/ /\ name = "file"
            /\ \E c \in {snap, disk.file \union snap} :
                 disk' = [disk EXCEPT !.file = c]
  /\ flush' = [flush EXCEPT ![f] = [@ EXCEPT !.pc = "rename", !.fd = "closed"]]
  /\ UNCHANGED <<overlap, faults>>

(* rename() moves whatever file has the temporary name now; descriptors    *)
(* that are still open move with it.  flush() returns.                     *)
FlushReturns(f) ==
  /\ flush[f].pc = "rename"
  /\ disk.linked
  /\ disk' = [file |-> disk.tmp, tmp |-> {}, linked |-> FALSE]
  /\ flush' = [g \in Flushers |->
                 IF g = f THEN NoFlush
                 ELSE [flush[g] EXCEPT !.fd =
                         CASE @ = "tmp" -> "file"
                           [] @ = "file" -> "gone"
                           [] OTHER -> @]]
  /\ UNCHANGED <<overlap, faults>>

(* flush() rejects: another flush has renamed the temporary file away      *)
(* (ENOENT), or a call failed on its own (disk full, permissions).         *)
FlushFails(f) ==
  /\ \/ flush[f].pc = "rename" /\ ~disk.linked /\ UNCHANGED faults
     \/ flush[f].pc # "idle" /\ faults < MaxFaults /\ faults' = faults + 1
  /\ UNCHANGED <<disk, overlap>>

(* The caller goes on with `next': no flush, or the start of another one. *)
FlushRejects(f, next) ==
  /\ FlushFails(f)
  /\ flush' = [flush EXCEPT ![f] = next]

(* The internal steps of a flush, between the call and its outcome. *)
FlushStep(f, data) == FlushSnapshot(f, data) \/ FlushOpen(f) \/ FlushWrite(f)

(* The process dies: the files stay as they are. *)
FlushesDie == flush' = [f \in Flushers |-> NoFlush]

(* What readFile and JSON.parse make of the file: one whole text, or       *)
(* nothing (missing, empty and unparsable files all start fresh).          *)
Readable(content) == \E d \in content : content = {d}

Loaded(content, fresh) ==
  IF Readable(content) THEN CHOOSE d \in content : content = {d} ELSE fresh
=============================================================================
