------------------------- MODULE VersionedFileProofs -------------------------
(***************************************************************************)
(* Theorems about flush(), for any number of callers, faults, crashes and  *)
(* changes of the queue.  The inductive invariant is TypeOK together with  *)
(* SoloUnlessOverlap: the file and the temporary file alone say too little *)
(* about the flush that is under way.                                      *)
(***************************************************************************)
EXTENDS VersionedFile, QueueFileProofs

(* The type invariant is inductive.                                        *)
LEMMA InitTypes == Init => TypeOK
BY FileInitTypes DEF Init, TypeOK

(* Every step keeps the types.                                             *)
LEMMA NextTypes ==
  ASSUME TypeOK, [Next]_vars
  PROVE  TypeOK'
<1> USE DEF TypeOK
<1>0. NoFlush \in {NoFlush, NewFlush}
  OBVIOUS
<1>1. CASE Mutate
  BY <1>1 DEF Mutate, fileVars, FileTypeOK
<1>2. CASE Reboot
  <2>1. Loaded(disk.file, 0) \in Nat
    BY LoadedIsHeld DEF FileTypeOK, DiskType
  <2>2. FileTypeOK(Nat)'
    <3>1. disk' \in DiskType(Nat) /\ overlap' \in BOOLEAN /\ faults' \in Nat
      BY <1>2 DEF Reboot, FileTypeOK
    <3>2. FlushesDie
      BY <1>2 DEF Reboot
    <3> QED  BY <3>1, <3>2, FlushesDieTypes
  <2> QED  BY <1>2, <2>1, <2>2 DEF Reboot
<1>3. ASSUME NEW f \in Flushers, Call(f)  PROVE TypeOK'
  BY <1>3, CallFlushTypes DEF Call
<1>4. ASSUME NEW f \in Flushers, Step(f)  PROVE TypeOK'
  BY <1>4, FlushStepTypes DEF Step
<1>5. ASSUME NEW f \in Flushers, Return(f)  PROVE TypeOK'
  BY <1>5, FlushReturnsTypes DEF Return
<1>6. ASSUME NEW f \in Flushers, Reject(f)  PROVE TypeOK'
  BY <1>6, <1>0, FlushRejectsTypes DEF Reject
<1>7. CASE UNCHANGED vars
  BY <1>7 DEF vars, FileTypeOK
<1> QED  BY <1>1, <1>2, <1>3, <1>4, <1>5, <1>6, <1>7 DEF Next

(* The variables always have their types.                                  *)
THEOREM TypeCorrect == Spec => []TypeOK
<1>1. Init => TypeOK
  BY InitTypes
<1>2. TypeOK /\ [Next]_vars => TypeOK'
  BY NextTypes
<1> QED  BY <1>1, <1>2, PTL DEF Spec

-----------------------------------------------------------------------------

(* At first no flush is under way and the file holds version 0.            *)
LEMMA InitSolo == Init => SoloUnlessOverlap
BY DEF Init, FileInit, NoFlush, SoloUnlessOverlap, Solo, OneWriter, SnapshotBetween,
       TmpIsOwn, StoredNotAhead, Writing

(* The step in which a flush takes its snapshot: if no other flush is      *)
(* writing, it is the only one, and what it took is the current version.   *)
LEMMA SnapshotSolo ==
  ASSUME TypeOK, Solo, NEW f \in Flushers, FlushSnapshot(f, version),
         version' = version, ~overlap'
  PROVE  Solo'
<1> USE DEF TypeOK, FileTypeOK, FlushType, Writing
<1>1. flush' = [flush EXCEPT ![f] = [@ EXCEPT !.pc = "open", !.snap = {version}]]
  BY DEF FlushSnapshot
<1>2. \A g \in Flushers \ {f} : flush[g].pc \notin Writing /\ flush'[g] = flush[g]
  BY <1>1 DEF FlushSnapshot
<1>3. flush'[f].pc = "open" /\ flush'[f].snap = {version}
  BY <1>1
<1>4. disk' = disk
  BY DEF FlushSnapshot
<1>5. \A e \in disk.file : e <= version
  BY DEF Solo, StoredNotAhead
<1>6. OneWriter'
  BY <1>2, <1>3 DEF OneWriter
<1>7. SnapshotBetween'
  BY <1>2, <1>3, <1>4, <1>5 DEF SnapshotBetween
<1>8. TmpIsOwn'
  BY <1>2, <1>3 DEF TmpIsOwn
<1>9. StoredNotAhead'
  BY <1>4 DEF Solo, StoredNotAhead
<1> QED  BY <1>6, <1>7, <1>8, <1>9 DEF Solo

(* Opening the temporary file empties it, and disturbs nobody.             *)
LEMMA OpenSolo ==
  ASSUME TypeOK, Solo, NEW f \in Flushers, FlushOpen(f), version' = version
  PROVE  Solo'
<1> USE DEF TypeOK, FileTypeOK, FlushType, DiskType, Writing
<1>1. flush' = [flush EXCEPT ![f] = [@ EXCEPT !.pc = "write", !.fd = "tmp"]]
  BY DEF FlushOpen
<1>2. \A g \in Flushers \ {f} : flush[g].pc \notin Writing /\ flush'[g] = flush[g]
  BY <1>1 DEF FlushOpen, Solo, OneWriter
<1>3. flush'[f].pc = "write" /\ flush'[f].snap = flush[f].snap /\ flush'[f].fd = "tmp"
  BY <1>1
<1>4. disk'.file = disk.file /\ disk'.tmp = {} /\ disk'.linked
  BY DEF FlushOpen
<1>5. flush[f].pc \in Writing
  BY DEF FlushOpen
<1>6. OneWriter'
  BY <1>2, <1>3 DEF OneWriter
<1>7. SnapshotBetween'
  BY <1>2, <1>3, <1>4, <1>5 DEF SnapshotBetween, Solo
<1>8. TmpIsOwn'
  BY <1>2, <1>3, <1>4 DEF TmpIsOwn
<1>9. StoredNotAhead'
  BY <1>4 DEF Solo, StoredNotAhead
<1> QED  BY <1>6, <1>7, <1>8, <1>9 DEF Solo

(* What is written into the empty temporary file is the snapshot.          *)
LEMMA WriteSolo ==
  ASSUME TypeOK, Solo, NEW f \in Flushers, FlushWrite(f), version' = version
  PROVE  Solo'
<1> USE DEF TypeOK, FileTypeOK, FlushType, DiskType, Writing
<1>1. flush[f].pc = "write"
  BY Zenon DEF FlushWrite
<1>2. flush' = [flush EXCEPT ![f] = [@ EXCEPT !.pc = "rename", !.fd = "closed"]]
  BY Zenon DEF FlushWrite
<1>3. \A g \in Flushers \ {f} : flush[g].pc \notin Writing /\ flush'[g] = flush[g]
  BY <1>1, <1>2 DEF Solo, OneWriter
<1>4. flush'[f].pc = "rename" /\ flush'[f].snap = flush[f].snap
  BY <1>2
<1>5. flush[f].fd = "tmp" /\ disk.linked /\ disk.tmp = {}
  BY <1>1 DEF Solo, TmpIsOwn
<1>6. disk'.file = disk.file /\ disk'.tmp = flush[f].snap /\ disk'.linked
  <2>1. \E c \in {flush[f].snap, disk.tmp \union flush[f].snap} :
          disk' = [disk EXCEPT !.tmp = c]
    <3>1. flush[f].fd # "gone" /\ flush[f].fd # "file"
      BY <1>5
    <3> QED  BY <3>1, Zenon DEF FlushWrite
  <2>2. disk' = [disk EXCEPT !.tmp = flush[f].snap]
    BY <1>5, <2>1
  <2> QED  BY <1>5, <2>2
<1>7. OneWriter'
  BY <1>3, <1>4 DEF OneWriter
<1>8. SnapshotBetween'
  BY <1>1, <1>3, <1>4, <1>6 DEF SnapshotBetween, Solo
<1>9. TmpIsOwn'
  BY <1>3, <1>4, <1>6 DEF TmpIsOwn
<1>10. StoredNotAhead'
  BY <1>6 DEF Solo, StoredNotAhead
<1> QED  BY <1>7, <1>8, <1>9, <1>10 DEF Solo

(* The rename stores the snapshot of the one flush that writes.            *)
LEMMA ReturnSolo ==
  ASSUME TypeOK, Solo, NEW f \in Flushers, FlushReturns(f), version' = version
  PROVE  Solo' /\ disk'.file = flush[f].snap
<1> USE DEF TypeOK, FileTypeOK, FlushType, DiskType, Writing
<1>1. disk'.file = flush[f].snap
  BY DEF FlushReturns, Solo, TmpIsOwn
<1>2. \A g \in Flushers : flush'[g].pc = IF g = f THEN "idle" ELSE flush[g].pc
  BY DEF FlushReturns, NoFlush
<1>3. \A g \in Flushers : flush'[g].pc \notin Writing
  BY <1>2 DEF FlushReturns, Solo, OneWriter
<1>4. StoredNotAhead'
  BY <1>1 DEF FlushReturns, Solo, SnapshotBetween, StoredNotAhead
<1>5. OneWriter' /\ SnapshotBetween' /\ TmpIsOwn'
  BY <1>3 DEF OneWriter, SnapshotBetween, TmpIsOwn
<1> QED  BY <1>1, <1>4, <1>5 DEF Solo

(* Steps that leave the files alone and only take flushes out of the       *)
(* writing part keep the invariant.                                        *)
LEMMA IdleSolo ==
  ASSUME Solo, disk' = disk, version' = version,
         \A f \in Flushers : flush'[f].pc \in Writing => flush'[f] = flush[f],
         "idle" \notin Writing
  PROVE  Solo'
<1>1. OneWriter'
  BY DEF Solo, OneWriter
<1>2. SnapshotBetween'
  BY DEF Solo, SnapshotBetween
<1>3. TmpIsOwn'
  BY DEF Solo, TmpIsOwn, Writing
<1>4. StoredNotAhead'
  BY DEF Solo, StoredNotAhead
<1> QED  BY <1>1, <1>2, <1>3, <1>4 DEF Solo

(* A change of the queue, and a reboot.                                    *)
LEMMA MutateSolo ==
  ASSUME TypeOK, Solo, Mutate
  PROVE  Solo'
<1>1. 0 .. version \subseteq 0 .. version'
  BY DEF Mutate, TypeOK
<1>2. disk' = disk /\ flush' = flush
  BY DEF Mutate, fileVars
<1>3. OneWriter' /\ TmpIsOwn'
  BY <1>2 DEF Solo, OneWriter, TmpIsOwn
<1>4. SnapshotBetween'
  BY <1>1, <1>2 DEF Solo, SnapshotBetween
<1>5. StoredNotAhead'
  BY <1>1, <1>2 DEF Solo, StoredNotAhead
<1> QED  BY <1>3, <1>4, <1>5 DEF Solo

(* A reboot loads the one version that is stored.                          *)
LEMMA RebootSolo ==
  ASSUME TypeOK, Solo, Reboot
  PROVE  Solo'
<1>1. PICK d \in 0 .. version : disk.file = {d}
  BY DEF Solo, StoredNotAhead
<1>2. version' = d /\ disk'.file = {d}
  BY <1>1, LoadedWhole DEF Reboot
<1>3. d \in 0 .. d
  BY DEF TypeOK
<1>4. StoredNotAhead'
  BY <1>2, <1>3 DEF StoredNotAhead
<1>5. \A f \in Flushers : flush'[f].pc \notin Writing
  BY DEF Reboot, FlushesDie, NoFlush, Writing
<1>6. OneWriter' /\ SnapshotBetween' /\ TmpIsOwn'
  BY <1>5 DEF OneWriter, SnapshotBetween, TmpIsOwn, Writing
<1> QED  BY <1>4, <1>6 DEF Solo

(* Once two flushes have overlapped, overlap stays TRUE.                   *)
LEMMA OverlapStays ==
  ASSUME [Next]_vars, ~overlap'
  PROVE  ~overlap
<1>1. ASSUME NEW f \in Flushers, Step(f)  PROVE overlap => overlap'
  <2>1. CASE FlushWrite(f)
    BY <2>1, Zenon DEF FlushWrite
  <2>2. CASE FlushSnapshot(f, version) \/ FlushOpen(f)
    BY <2>2 DEF FlushSnapshot, FlushOpen
  <2> QED  BY <1>1, <2>1, <2>2 DEF Step, FlushStep
<1> QED  BY <1>1 DEF Next, vars, Mutate, fileVars, Reboot, Call, CallFlush, Return,
                     FlushReturns, Reject, FlushRejects, FlushFails

(* The strengthened invariant is inductive.                                *)
LEMMA NextSolo ==
  ASSUME TypeOK, SoloUnlessOverlap, [Next]_vars
  PROVE  SoloUnlessOverlap'
<1> SUFFICES ASSUME ~overlap' PROVE Solo'
  BY DEF SoloUnlessOverlap
<1> USE DEF Writing
<1>0. ~overlap
  BY OverlapStays
<1>1. Solo
  BY <1>0 DEF SoloUnlessOverlap
<1>2. CASE Mutate
  BY <1>1, <1>2, MutateSolo
<1>3. CASE Reboot
  BY <1>1, <1>3, RebootSolo
<1>4. ASSUME NEW f \in Flushers, Call(f)  PROVE Solo'
  BY <1>1, <1>4, IdleSolo DEF Call, CallFlush, NewFlush, TypeOK, FileTypeOK
<1>5. ASSUME NEW f \in Flushers, Step(f)  PROVE Solo'
  <2>1. version' = version
    BY <1>5 DEF Step
  <2>2. CASE FlushSnapshot(f, version)
    BY <1>1, <2>1, <2>2, SnapshotSolo
  <2>3. CASE FlushOpen(f)
    BY <1>1, <2>1, <2>3, OpenSolo
  <2>4. CASE FlushWrite(f)
    BY <1>1, <2>1, <2>4, WriteSolo
  <2> QED  BY <1>5, <2>2, <2>3, <2>4 DEF Step, FlushStep
<1>6. ASSUME NEW f \in Flushers, Return(f)  PROVE Solo'
  BY <1>1, <1>6, ReturnSolo DEF Return
<1>7. ASSUME NEW f \in Flushers, Reject(f)  PROVE Solo'
  BY <1>1, <1>7, IdleSolo
     DEF Reject, FlushRejects, FlushFails, NoFlush, TypeOK, FileTypeOK
<1>8. CASE UNCHANGED vars
  BY <1>1, <1>8, IdleSolo DEF vars
<1> QED  BY <1>2, <1>3, <1>4, <1>5, <1>6, <1>7, <1>8 DEF Next

(* As long as no two flushes have overlapped, the one that writes works on *)
(* its own temporary file and with a snapshot between the stored and the   *)
(* current version.                                                        *)
THEOREM SoloWriter == Spec => []SoloUnlessOverlap
<1>1. TypeOK /\ SoloUnlessOverlap /\ [Next]_vars => SoloUnlessOverlap'
  BY NextSolo
<1> QED  BY <1>1, InitSolo, TypeCorrect, PTL DEF Spec

(* The file is one whole text unless two flushes have overlapped.          *)
THEOREM FileIsWhole == Spec => []WholeUnlessOverlap
<1>1. SoloUnlessOverlap => WholeUnlessOverlap
  BY LoadedWhole DEF SoloUnlessOverlap, Solo, StoredNotAhead, WholeUnlessOverlap
<1> QED  BY <1>1, SoloWriter, PTL

(* A rename finds its own flush's text unless two flushes have overlapped. *)
THEOREM RenameFindsOwnText == Spec => []OwnTextUnlessOverlap
<1>1. SoloUnlessOverlap => OwnTextUnlessOverlap
  BY DEF SoloUnlessOverlap, Solo, TmpIsOwn, OwnTextUnlessOverlap
<1> QED  BY <1>1, SoloWriter, PTL

(* The three together: what the run of this module checks.                 *)
THEOREM FlushesAreSound == Spec => []FlushesSound
<1>1. SoloUnlessOverlap /\ WholeUnlessOverlap /\ OwnTextUnlessOverlap => FlushesSound
  BY DEF FlushesSound
<1> QED  BY <1>1, SoloWriter, FileIsWhole, RenameFindsOwnText, PTL

-----------------------------------------------------------------------------

(* What is stored, when Solo holds: the one version in the file.           *)
LEMMA StoredVersion ==
  ASSUME Solo
  PROVE  /\ Loaded(disk.file, 0) \in 0 .. version
         /\ disk.file = {Loaded(disk.file, 0)}
BY LoadedWhole DEF Solo, StoredNotAhead

(* A step after which no two flushes have overlapped is a step of the      *)
(* register, or leaves it alone.                                           *)
LEMMA StepRefines ==
  ASSUME TypeOK, Solo, Solo', [Next]_vars
  PROVE  [Register!Next]_(Register!regVars)
<1> DEFINE stored == Loaded(disk.file, 0)
<1> USE DEF Register!Next, Register!Change, Register!Save, Register!Restart,
            Register!regVars
<1>1. CASE Mutate
  <2>1. version' = version + 1 /\ disk' = disk
    BY <1>1 DEF Mutate, fileVars
  <2> QED  BY <2>1
<1>2. CASE Reboot
  BY <1>2 DEF Reboot
<1>3. ASSUME NEW f \in Flushers, Call(f)
      PROVE  [Register!Next]_(Register!regVars)
  BY <1>3 DEF Call, CallFlush
<1>4. ASSUME NEW f \in Flushers, Step(f)
      PROVE  [Register!Next]_(Register!regVars)
  <2>1. version' = version
    BY <1>4 DEF Step
  <2>2. disk'.file = disk.file
    <3>1. CASE FlushSnapshot(f, version)
      BY <3>1 DEF FlushSnapshot
    <3>2. CASE FlushOpen(f)
      BY <3>2 DEF FlushOpen, TypeOK, FileTypeOK, DiskType
    <3>3. CASE FlushWrite(f)
      <4>1. flush[f].fd = "tmp"
        <5>1. flush[f].pc = "write"
          BY <3>3, Zenon DEF FlushWrite
        <5> QED  BY <5>1 DEF Solo, TmpIsOwn
      <4>2. \E c \in {flush[f].snap, disk.tmp \union flush[f].snap} :
              disk' = [disk EXCEPT !.tmp = c]
        <5>1. flush[f].fd # "gone" /\ flush[f].fd # "file"
          BY <4>1
        <5> QED  BY <3>3, <5>1, Zenon DEF FlushWrite
      <4> QED  BY <4>2 DEF TypeOK, FileTypeOK, DiskType
    <3> QED  BY <1>4, <3>1, <3>2, <3>3 DEF Step, FlushStep
  <2> QED  BY <2>1, <2>2
<1>5. ASSUME NEW f \in Flushers, Return(f)
      PROVE  [Register!Next]_(Register!regVars)
  <2>1. version' = version /\ FlushReturns(f)
    BY <1>5 DEF Return
  <2>2. disk'.file = flush[f].snap
    BY <2>1, ReturnSolo
  <2>3. PICK d \in 0 .. version : flush[f].snap = {d} /\ \A e \in disk.file : e <= d
    BY <2>1 DEF Solo, SnapshotBetween, FlushReturns, Writing
  <2>4. stored \in 0 .. version /\ stored <= d
    BY <2>3, StoredVersion
  <2>5. stored' = d
    BY <2>2, <2>3, LoadedWhole
  <2> QED  BY <2>1, <2>3, <2>4, <2>5
<1>6. ASSUME NEW f \in Flushers, Reject(f)
      PROVE  [Register!Next]_(Register!regVars)
  BY <1>6 DEF Reject, FlushRejects, FlushFails
<1>7. CASE UNCHANGED vars
  BY <1>7 DEF vars
<1> QED  BY <1>1, <1>2, <1>3, <1>4, <1>5, <1>6, <1>7 DEF Next

(* Until two flushes overlap, the file is an atomically saved register,    *)
(* whatever the number of callers, crashes and faults.                     *)
THEOREM AtomicWithoutOverlap == Spec => AtomicUnlessOverlap
<1>1. Init => Register!Init
  <2> SUFFICES ASSUME Init PROVE Register!Init
    OBVIOUS
  <2>1. version = 0 /\ Loaded(disk.file, 0) = 0
    BY LoadedWhole DEF Init, FileInit
  <2> QED  BY <2>1 DEF Register!Init
<1>2. TypeOK /\ SoloUnlessOverlap /\ [Next]_vars /\ SoloUnlessOverlap'
        => [~overlap' => [Register!Next]_(Register!regVars)]_vars
  <2> SUFFICES ASSUME TypeOK, SoloUnlessOverlap, [Next]_vars, SoloUnlessOverlap', ~overlap'
               PROVE  [Register!Next]_(Register!regVars)
    OBVIOUS
  <2>1. Solo'
    BY DEF SoloUnlessOverlap
  <2>2. CASE ~overlap
    BY <2>1, <2>2, StepRefines DEF SoloUnlessOverlap
  <2>3. ~overlap
    BY OverlapStays
  <2> QED  BY <2>2, <2>3
<1> QED  BY <1>1, <1>2, TypeCorrect, SoloWriter, PTL DEF Spec, AtomicUnlessOverlap
=============================================================================
