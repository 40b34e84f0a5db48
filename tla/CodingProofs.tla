---------------------------- MODULE CodingProofs ----------------------------
(***************************************************************************)
(* Theorems about the coding workers, for any number of calls and slots.   *)
(*                                                                         *)
(* The invariant says where each thing belongs: a waiter is a queued call, *)
(* and waits once (Queue); a lease that was confirmed is its call's until  *)
(* the handler reports, and one that the server keeps is known to its call *)
(* or over (Leases); a copy is on disk from before the worker's start to   *)
(* its end, or is litter (CopiesKnown); and each cause to end a worker has *)
(* been used when its SIGKILL timer is armed (TimersUsed).                 *)
(***************************************************************************)
EXTENDS Coding, SequenceTheorems, FiniteSetTheorems, TLAPS

CallType ==
  [pc : {"new", "queued", "cwd", "claim", "preflight", "worktree", "exec", "clean",
         "report", "leave", "done"},
   claimed : BOOLEAN, lost : BOOLEAN, litters : BOOLEAN]

ProcType == [alive : BOOLEAN, watched : BOOLEAN, listens : BOOLEAN,
             times : BOOLEAN, timer : BOOLEAN, stray : BOOLEAN]

(* The waiters are queued calls, each once.                                *)
Queue ==
  /\ \A i \in DOMAIN waiters : call[waiters[i]].pc = "queued"
  /\ \A i, j \in DOMAIN waiters : i # j => waiters[i] # waiters[j]

(* A call that has not got as far has nothing, and one that is over claims *)
(* nothing any more.                                                       *)
Fresh ==
  \A c \in Calls :
    /\ call[c].pc \in {"new", "queued", "cwd", "claim"} =>
         ~call[c].claimed /\ ~call[c].lost /\ ~call[c].litters
    /\ call[c].pc = "done" => ~call[c].claimed

Leases ==
  \A c \in Calls :
    /\ call[c].claimed /\ call[c].pc # "leave" => lease = {c}
    /\ c \in lease => call[c].claimed \/ call[c].lost \/ call[c].pc = "done"
    /\ call[c].pc = "leave" /\ ~call[c].lost => c \notin lease

CopiesKnown ==
  \A c \in Calls :
    /\ call[c].pc \in {"worktree", "clean"} => c \in Reviews
    /\ c \in copies => call[c].pc \in {"exec", "clean", "done"} \/ call[c].litters
    /\ c \in Reviews /\ call[c].pc = "exec" => c \in copies

TimersUsed ==
  \A c \in Calls :
    /\ proc[c].watched => call[c].pc = "exec"
    /\ proc[c].timer => ~(proc[c].listens /\ proc[c].times)
    /\ proc[c].stray => ~proc[c].listens /\ ~proc[c].times

Inv ==
  /\ TypeOK /\ Queue /\ Fresh /\ Leases /\ CopiesKnown /\ TimersUsed
  /\ active = Cardinality(Inside) /\ active <= Limit
  /\ NoIdleSlot

(* Where a call has a slot.                                                *)
Ins == {"cwd", "claim", "preflight", "worktree", "exec", "clean", "report", "leave"}

-----------------------------------------------------------------------------
(* Lemmas on sequences and sets *)

(* A sequence without one of its elements.                                 *)
LEMMA RemoveAtShape ==
  ASSUME NEW S, NEW s \in Seq(S), NEW i \in DOMAIN s
  PROVE  /\ RemoveAt(s, i) \in Seq(S) /\ DOMAIN RemoveAt(s, i) = 1 .. Len(s) - 1
         /\ \A j \in 1 .. Len(s) - 1 : RemoveAt(s, i)[j] = IF j < i THEN s[j] ELSE s[j + 1]
<1> DEFINE a == SubSeq(s, 1, i - 1)  b == SubSeq(s, i + 1, Len(s))
<1>1. /\ Len(s) \in Nat /\ DOMAIN s = 1 .. Len(s) /\ i \in 1 .. Len(s)
      /\ \A j \in 1 .. Len(s) : s[j] \in S
  BY LenProperties, ElementOfSeq
<1>2. /\ a \in Seq(S) /\ Len(a) = i - 1
      /\ \A j \in 1 .. i - 1 : a[j] = s[j]
  <2>1. \A j \in 1 .. i - 1 : s[j] \in S
    BY <1>1
  <2>2. 1 \in Int /\ i - 1 \in Int
    BY <1>1
  <2>3. /\ a \in Seq(S) /\ Len(a) = IF 1 <= i - 1 THEN i - 1 - 1 + 1 ELSE 0
        /\ \A j \in 1 .. i - 1 - 1 + 1 : a[j] = s[1 + j - 1]
    BY <2>1, <2>2, SubSeqProperties
  <2> HIDE DEF a
  <2> QED  BY <2>3, <1>1
<1>3. /\ b \in Seq(S) /\ Len(b) = Len(s) - i
      /\ \A j \in 1 .. Len(s) - i : b[j] = s[i + j]
  <2>1. \A j \in i + 1 .. Len(s) : s[j] \in S
    BY <1>1
  <2>2. i + 1 \in Int /\ Len(s) \in Int
    BY <1>1
  <2>3. /\ b \in Seq(S) /\ Len(b) = IF i + 1 <= Len(s) THEN Len(s) - (i + 1) + 1 ELSE 0
        /\ \A j \in 1 .. Len(s) - (i + 1) + 1 : b[j] = s[i + 1 + j - 1]
    BY <2>1, <2>2, SubSeqProperties
  <2> HIDE DEF b
  <2>4. Len(b) = Len(s) - i
    <3>1. Len(b) = IF i + 1 <= Len(s) THEN Len(s) - (i + 1) + 1 ELSE 0
      BY <2>3
    <3>2. Len(s) \in Nat /\ i \in Nat /\ i <= Len(s)
      BY <1>1
    <3> QED  BY <3>1, <3>2
  <2>5. ASSUME NEW j \in 1 .. Len(s) - i PROVE b[j] = s[i + j]
    <3>1. j \in 1 .. Len(s) - (i + 1) + 1 /\ i + 1 + j - 1 = i + j
      BY <1>1
    <3> QED  BY <2>3, <3>1
  <2> QED  BY <2>3, <2>4, <2>5
<1> HIDE DEF a, b
<1>4. /\ a \o b \in Seq(S) /\ Len(a \o b) = Len(a) + Len(b)
      /\ \A j \in 1 .. Len(a) + Len(b) : (a \o b)[j] = IF j <= Len(a) THEN a[j] ELSE b[j - Len(a)]
  BY <1>2, <1>3, ConcatProperties
<1>5. RemoveAt(s, i) = a \o b
  BY DEF RemoveAt, a, b
<1> DEFINE r == RemoveAt(s, i)
<1>6. r \in Seq(S) /\ Len(r) = Len(s) - 1
  <2>1. Len(a) + Len(b) = Len(s) - 1
    BY <1>1, <1>2, <1>3
  <2> QED  BY <2>1, <1>4, <1>5
<1>7. DOMAIN r = 1 .. Len(s) - 1
  BY <1>6, LenProperties
<1>8. ASSUME NEW j \in 1 .. Len(s) - 1
      PROVE  r[j] = IF j < i THEN s[j] ELSE s[j + 1]
  <2>1. r[j] = IF j <= i - 1 THEN a[j] ELSE b[j - (i - 1)]
    <3>1. Len(a) = i - 1 /\ Len(a) + Len(b) = Len(s) - 1
      BY <1>1, <1>2, <1>3
    <3>2. j \in 1 .. Len(a) + Len(b)
      BY <3>1
    <3>3. (a \o b)[j] = IF j <= Len(a) THEN a[j] ELSE b[j - Len(a)]
      BY <1>4, <3>2
    <3> QED  BY <1>5, <3>1, <3>3
  <2>2. CASE j < i
    BY <1>1, <1>2, <2>1, <2>2
  <2>3. CASE ~(j < i)
    <3>1. j - (i - 1) \in 1 .. Len(s) - i /\ i + (j - (i - 1)) = j + 1
      BY <1>1, <2>3
    <3>2. b[j - (i - 1)] = s[j + 1]
      BY <1>3, <3>1
    <3> QED  BY <1>1, <2>1, <2>3, <3>2
  <2> QED  BY <2>2, <2>3
<1> QED  BY <1>6, <1>7, <1>8

(* The end of a sequence.                                                  *)
LEMMA RestShape ==
  ASSUME NEW S, NEW s \in Seq(S), NEW n \in 0 .. Len(s)
  PROVE  /\ SubSeq(s, n + 1, Len(s)) \in Seq(S)
         /\ DOMAIN SubSeq(s, n + 1, Len(s)) = 1 .. Len(s) - n
         /\ \A j \in 1 .. Len(s) - n :
              SubSeq(s, n + 1, Len(s))[j] = s[n + j] /\ n + j \in DOMAIN s
<1> DEFINE b == SubSeq(s, n + 1, Len(s))
<1>1. /\ Len(s) \in Nat /\ DOMAIN s = 1 .. Len(s) /\ n \in Nat /\ n <= Len(s)
      /\ \A j \in 1 .. Len(s) : s[j] \in S
  BY LenProperties, ElementOfSeq
<1>2. \A j \in n + 1 .. Len(s) : s[j] \in S
  BY <1>1
<1>3. n + 1 \in Int /\ Len(s) \in Int
  BY <1>1
<1>4. /\ b \in Seq(S) /\ Len(b) = IF n + 1 <= Len(s) THEN Len(s) - (n + 1) + 1 ELSE 0
      /\ \A j \in 1 .. Len(s) - (n + 1) + 1 : b[j] = s[n + 1 + j - 1]
  BY <1>2, <1>3, SubSeqProperties
<1> HIDE DEF b
<1>5. Len(b) = Len(s) - n /\ \A j \in 1 .. Len(s) - n : b[j] = s[n + j] /\ n + j \in DOMAIN s
  <2>1. Len(b) = Len(s) - n
    <3>1. Len(b) = IF n + 1 <= Len(s) THEN Len(s) - (n + 1) + 1 ELSE 0
      BY <1>4
    <3>2. Len(s) \in Nat /\ n \in Nat /\ n <= Len(s)
      BY <1>1
    <3> QED  BY <3>1, <3>2
  <2>2. ASSUME NEW j \in 1 .. Len(s) - n
        PROVE  b[j] = s[n + j] /\ n + j \in DOMAIN s
    <3>1. j \in 1 .. Len(s) - (n + 1) + 1 /\ n + 1 + j - 1 = n + j /\ n + j \in 1 .. Len(s)
      BY <1>1
    <3>2. b[j] = s[n + 1 + j - 1]
      BY <1>4, <3>1
    <3> QED  BY <3>1, <3>2, <1>1
  <2> QED  BY <2>1, <2>2
<1>6. DOMAIN b = 1 .. Len(s) - n
  BY <1>4, <1>5, LenProperties
<1> QED  BY <1>4, <1>5, <1>6 DEF b

-----------------------------------------------------------------------------
(* Steps of one call *)

(* A call that only goes on.                                               *)
LEMMA GoesType ==
  ASSUME TypeOK, NEW c \in Calls, NEW pc \in Ins \cup {"queued", "done"}, Goes(c, pc)
  PROVE  /\ call' \in [Calls -> CallType]
         /\ \A d \in Calls : d # c => call'[d] = call[d]
         /\ call'[c].pc = pc /\ call'[c].claimed = call[c].claimed
         /\ call'[c].lost = call[c].lost /\ call'[c].litters = call[c].litters
BY DEF TypeOK, Goes, CallType, Ins

(* A step of a call that has a slot and keeps it: what must be shown.      *)
LEMMA Keeps ==
  ASSUME Inv, NEW c \in Calls, call[c].pc \in Ins, call'[c].pc \in Ins,
         active' = active, waiters' = waiters,
         call' \in [Calls -> CallType], \A d \in Calls : d # c => call'[d] = call[d],
         proc' \in [Calls -> ProcType], \A d \in Calls : d # c => proc'[d] = proc[d],
         lease' \in {lease, {c}, {}}, copies' \subseteq Reviews,
         call'[c].pc \in {"cwd", "claim"} =>
           ~call'[c].claimed /\ ~call'[c].lost /\ ~call'[c].litters,
         Leases', CopiesKnown',
         proc'[c].watched => call'[c].pc = "exec",
         proc'[c].timer => ~(proc'[c].listens /\ proc'[c].times),
         proc'[c].stray => ~proc'[c].listens /\ ~proc'[c].times
  PROVE  Inv'
<1>1. TypeOK'
  <2>1. lease' \subseteq Calls /\ Cardinality(lease') <= 1
    <3>1. lease' = lease \/ lease' = {c} \/ lease' = {}
      OBVIOUS
    <3>2. Cardinality({c}) = 1
      BY FS_Singleton
    <3>3. Cardinality({}) = 0
      BY FS_EmptySet
    <3>4. CASE lease' = lease
      BY <3>4 DEF Inv, TypeOK
    <3>5. CASE lease' = {c}
      BY <3>2, <3>5
    <3>6. CASE lease' = {}
      BY <3>3, <3>6
    <3> QED  BY <3>1, <3>4, <3>5, <3>6
  <2> QED  BY <2>1 DEF Inv, TypeOK, CallType, ProcType
<1>2. Inside' = Inside
  BY DEF Inside, Ins
<1>3. \A i \in DOMAIN waiters : waiters[i] \in Calls
  BY ElementOfSeq, LenProperties DEF Inv, TypeOK
<1>4. Queue'
  BY <1>3 DEF Inv, Queue, Ins
<1>5. Fresh'
  BY DEF Inv, Fresh, Ins
<1>6. TimersUsed'
  BY DEF Inv, TimersUsed
<1>7. active' = Cardinality(Inside)' /\ active' <= Limit /\ NoIdleSlot'
  BY <1>2 DEF Inv, NoIdleSlot
<1> QED  BY <1>1, <1>4, <1>5, <1>6, <1>7 DEF Inv

(* resolveCodingCwd().                                                     *)
LEMMA NextResolvesCwd == ASSUME Inv, NEW c \in Calls, ResolvesCwd(c) PROVE Inv'
<1>1. /\ call[c].pc = "cwd" /\ active' = active /\ waiters' = waiters
      /\ proc' = proc /\ lease' = lease /\ copies' = copies
  BY DEF ResolvesCwd
<1>2. PICK pc \in {"leave", "claim", "preflight"} : Goes(c, pc)
  BY DEF ResolvesCwd
<1>3. /\ call' \in [Calls -> CallType]
      /\ \A d \in Calls : d # c => call'[d] = call[d]
      /\ call'[c].pc = pc /\ call'[c].claimed = call[c].claimed
      /\ call'[c].lost = call[c].lost /\ call'[c].litters = call[c].litters
  BY <1>2, GoesType DEF Inv, Ins
<1>4. ~call[c].claimed /\ ~call[c].lost /\ ~call[c].litters
  BY <1>1 DEF Inv, Fresh
<1>5. Leases'
  BY <1>1, <1>3, <1>4 DEF Inv, Leases
<1>6. CopiesKnown'
  BY <1>1, <1>3, <1>4 DEF Inv, CopiesKnown
<1>7. proc' \in [Calls -> ProcType] /\ copies' \subseteq Reviews /\ TimersUsed
  BY <1>1 DEF Inv, TypeOK, ProcType
<1> QED  BY <1>1, <1>2, <1>3, <1>4, <1>5, <1>6, <1>7, Keeps DEF Ins, TimersUsed

(* file_claim: a lease that was confirmed was nobody else's.               *)
LEMMA NextClaims == ASSUME Inv, NEW c \in Calls, Claims(c) PROVE Inv'
<1>1. /\ call[c].pc = "claim" /\ active' = active /\ waiters' = waiters
      /\ proc' = proc /\ copies' = copies
  BY DEF Claims
<1>2. ~call[c].claimed /\ ~call[c].lost /\ ~call[c].litters
  BY <1>1 DEF Inv, Fresh
<1>3. /\ call' \in [Calls -> CallType]
      /\ \A d \in Calls : d # c => call'[d] = call[d]
      /\ call'[c].pc \in {"preflight", "report"} /\ ~call'[c].litters
      /\ \/ lease = {} /\ lease' = {c} /\ call'[c].claimed
         \/ ~call'[c].claimed /\ lease' = lease
         \/ ~call'[c].claimed /\ call'[c].lost /\ lease = {} /\ lease' = {c}
  <2> USE <1>1, <1>2 DEF Inv, TypeOK, CallType
  <2>1. CASE /\ lease = {} /\ lease' = {c}
             /\ call' = [call EXCEPT ![c].pc = "preflight", ![c].claimed = TRUE]
    BY <2>1
  <2>2. CASE Goes(c, "report") /\ lease' = lease
    BY <2>2 DEF Goes
  <2>3. CASE /\ lease' \in {lease, IF lease = {} THEN {c} ELSE lease}
             /\ call' \in {[call EXCEPT ![c] = Unclear(@)],
                           [call EXCEPT ![c].pc = "report", ![c].lost = TRUE]}
    <3>1. \/ lease' = lease
          \/ lease = {} /\ lease' = {c}
      BY <2>3
    <3>2. /\ call' \in [Calls -> CallType]
          /\ \A d \in Calls : d # c => call'[d] = call[d]
          /\ call'[c].pc \in {"preflight", "report"} /\ ~call'[c].litters
          /\ ~call'[c].claimed /\ call'[c].lost
      <4>1. CASE call' = [call EXCEPT ![c] = Unclear(@)]
        <5>1. call' = [call EXCEPT ![c] = [call[c] EXCEPT !.pc = "preflight", !.lost = TRUE]]
          BY <4>1 DEF Unclear
        <5> QED  BY <5>1
      <4>2. CASE call' = [call EXCEPT ![c].pc = "report", ![c].lost = TRUE]
        BY <4>2
      <4> QED  BY <2>3, <4>1, <4>2
    <3> QED  BY <3>1, <3>2
  <2> QED  BY <2>1, <2>2, <2>3 DEF Claims
<1>4. Leases'
  <2>1. ASSUME NEW d \in Calls, d # c
        PROVE  /\ call'[d].claimed /\ call'[d].pc # "leave" => lease' = {d}
               /\ d \in lease' => call'[d].claimed \/ call'[d].lost \/ call'[d].pc = "done"
               /\ call'[d].pc = "leave" /\ ~call'[d].lost => d \notin lease'
    <3>1. /\ call[d].claimed /\ call[d].pc # "leave" => lease = {d}
          /\ d \in lease => call[d].claimed \/ call[d].lost \/ call[d].pc = "done"
          /\ call[d].pc = "leave" /\ ~call[d].lost => d \notin lease
      BY DEF Inv, Leases
    <3> QED  BY <1>3, <2>1, <3>1
  <2>2. /\ call'[c].claimed /\ call'[c].pc # "leave" => lease' = {c}
        /\ c \in lease' => call'[c].claimed \/ call'[c].lost \/ call'[c].pc = "done"
        /\ call'[c].pc = "leave" /\ ~call'[c].lost => c \notin lease'
    <3>1. c \notin lease
      BY <1>1, <1>2 DEF Inv, Leases
    <3> QED  BY <1>3, <3>1
  <2> QED  BY <2>1, <2>2 DEF Leases
<1>5. CopiesKnown'
  BY <1>1, <1>2, <1>3 DEF Inv, CopiesKnown
<1>6. proc' \in [Calls -> ProcType] /\ copies' \subseteq Reviews /\ TimersUsed
  BY <1>1 DEF Inv, TypeOK, ProcType
<1>7. lease' \in {lease, {c}, {}}
  BY <1>3
<1> QED  BY <1>1, <1>3, <1>4, <1>5, <1>6, <1>7, Keeps DEF Ins, TimersUsed

(* The worker is spawned or not; a review has its copy by then.            *)
LEMMA Started ==
  ASSUME Inv, NEW c \in Calls, call[c].pc \in {"preflight", "worktree"}, Spawns(c),
         active' = active, waiters' = waiters, lease' = lease,
         copies' \subseteq Reviews, c \in Reviews => c \in copies',
         \A d \in Calls : d # c => (d \in copies' <=> d \in copies)
  PROVE  Inv'
<1>1. PICK pc \in {"clean", "report", "exec"} :
        /\ Goes(c, pc)
        /\ pc = "clean" => c \in Reviews
        /\ pc = "report" => c \notin Reviews
  BY DEF Spawns, Ended
<1>2. /\ call' \in [Calls -> CallType]
      /\ \A d \in Calls : d # c => call'[d] = call[d]
      /\ call'[c].pc = pc /\ call'[c].claimed = call[c].claimed
      /\ call'[c].lost = call[c].lost /\ call'[c].litters = call[c].litters
  BY <1>1, GoesType DEF Inv, Ins
<1>3. proc[c].watched = FALSE /\ proc \in [Calls -> ProcType] /\ proc[c] \in ProcType
  BY DEF Inv, TimersUsed, TypeOK, ProcType
<1>4. /\ proc' \in [Calls -> ProcType]
      /\ \A d \in Calls : d # c => proc'[d] = proc[d]
      /\ proc'[c].watched => pc = "exec"
      /\ proc'[c].timer => ~(proc'[c].listens /\ proc'[c].times)
      /\ proc'[c].stray => ~proc'[c].listens /\ ~proc'[c].times
  <2>1. CASE proc' = proc
    BY <1>3, <2>1 DEF Inv, TimersUsed
  <2>2. CASE Goes(c, "exec") /\ \E raised \in BOOLEAN :
               proc' = [proc EXCEPT ![c] = [NoProc EXCEPT !.alive = TRUE, !.watched = TRUE,
                                              !.times = TRUE, !.listens = ~raised]]
    <3>1. pc = "exec"
      BY <1>2, <2>2, GoesType DEF Inv, Ins
    <3>2. PICK raised \in BOOLEAN :
            proc' = [proc EXCEPT ![c] = [NoProc EXCEPT !.alive = TRUE, !.watched = TRUE,
                                           !.times = TRUE, !.listens = ~raised]]
      BY <2>2
    <3> QED  BY <1>3, <3>1, <3>2 DEF NoProc, ProcType
  <2> QED  BY <2>1, <2>2 DEF Spawns
<1>5. Leases'
  BY <1>1, <1>2 DEF Inv, Leases
<1>6. CopiesKnown'
  BY <1>1, <1>2 DEF Inv, CopiesKnown
<1> QED  BY <1>1, <1>2, <1>4, <1>5, <1>6, Keeps DEF Ins

(* Preflight.                                                              *)
LEMMA NextPrepares == ASSUME Inv, NEW c \in Calls, Prepares(c) PROVE Inv'
<1>1. /\ call[c].pc = "preflight" /\ active' = active /\ waiters' = waiters
      /\ lease' = lease /\ copies' = copies /\ copies \subseteq Reviews
  BY DEF Prepares, Inv, TypeOK
<1>2. CASE c \notin Reviews /\ Spawns(c)
  BY <1>1, <1>2, Started
<1>3. ASSUME NEW pc \in {"report", "worktree"}, Goes(c, pc), proc' = proc,
             pc = "worktree" => c \in Reviews
      PROVE  Inv'
  <2>1. /\ call' \in [Calls -> CallType]
        /\ \A d \in Calls : d # c => call'[d] = call[d]
        /\ call'[c].pc = pc /\ call'[c].claimed = call[c].claimed
        /\ call'[c].lost = call[c].lost /\ call'[c].litters = call[c].litters
    BY <1>3, GoesType DEF Inv, Ins
  <2>2. Leases' /\ CopiesKnown'
    BY <1>1, <1>3, <2>1 DEF Inv, Leases, CopiesKnown
  <2>3. proc' \in [Calls -> ProcType] /\ TimersUsed
    BY <1>3 DEF Inv, TypeOK, ProcType
  <2> QED  BY <1>1, <1>3, <2>1, <2>2, <2>3, Keeps DEF Ins, TimersUsed
<1> QED  BY <1>2, <1>3 DEF Prepares

(* createReviewWorktree().                                                 *)
LEMMA NextCopies == ASSUME Inv, NEW c \in Calls, Copies(c) PROVE Inv'
<1>1. /\ call[c].pc = "worktree" /\ active' = active /\ waiters' = waiters
      /\ lease' = lease /\ copies \subseteq Reviews /\ c \in Reviews
  BY DEF Copies, Inv, TypeOK, CopiesKnown
<1>2. CASE copies' = copies \cup {c} /\ Spawns(c)
  BY <1>1, <1>2, Started
<1>3. ASSUME proc' = proc,
             \/ Goes(c, "report") /\ copies' = copies
             \/ /\ copies' = copies \cup {c}
                /\ call' = [call EXCEPT ![c].pc = "report", ![c].litters = TRUE]
      PROVE  Inv'
  <2>1. /\ call' \in [Calls -> CallType]
        /\ \A d \in Calls : d # c => call'[d] = call[d]
        /\ call'[c].pc = "report" /\ call'[c].claimed = call[c].claimed
        /\ call'[c].lost = call[c].lost
        /\ c \in copies' => call'[c].litters
    <3>1. CASE Goes(c, "report") /\ copies' = copies
      BY <1>1, <3>1, GoesType DEF Inv, Ins, CopiesKnown
    <3>2. CASE /\ copies' = copies \cup {c}
               /\ call' = [call EXCEPT ![c].pc = "report", ![c].litters = TRUE]
      <4> DEFINE x == [call[c] EXCEPT !.pc = "report", !.litters = TRUE]
      <4>1. call \in [Calls -> CallType] /\ call[c] \in CallType
        BY DEF Inv, TypeOK, CallType
      <4>2. call' = [call EXCEPT ![c] = x]
        BY <3>2, <4>1
      <4>3. x \in CallType /\ x.pc = "report" /\ x.litters
        BY <4>1 DEF CallType
      <4>4. x.claimed = call[c].claimed /\ x.lost = call[c].lost
        BY <4>1 DEF CallType
      <4> HIDE DEF x
      <4> QED  BY <4>1, <4>2, <4>3, <4>4
    <3> QED  BY <1>3, <3>1, <3>2
  <2>2. Leases'
    BY <1>1, <2>1 DEF Inv, Leases
  <2>3. copies' \subseteq Reviews /\ \A d \in Calls : d # c => (d \in copies' <=> d \in copies)
    BY <1>1, <1>3
  <2>4. CopiesKnown'
    BY <1>1, <2>1, <2>3 DEF Inv, CopiesKnown
  <2>5. proc' \in [Calls -> ProcType] /\ TimersUsed
    BY <1>3 DEF Inv, TypeOK, ProcType
  <2> QED  BY <1>1, <1>3, <2>1, <2>2, <2>3, <2>4, <2>5, Keeps DEF Ins, TimersUsed
<1> QED  BY <1>2, <1>3 DEF Copies

(* The finally block of the run.                                           *)
LEMMA NextCleansUp == ASSUME Inv, NEW c \in Calls, CleansUp(c) PROVE Inv'
<1>1. /\ call[c].pc = "clean" /\ active' = active /\ waiters' = waiters
      /\ lease' = lease /\ proc' = proc /\ copies \subseteq Reviews
  BY DEF CleansUp, Inv, TypeOK
<1>2. /\ call' \in [Calls -> CallType]
      /\ \A d \in Calls : d # c => call'[d] = call[d]
      /\ call'[c].pc = "report" /\ call'[c].claimed = call[c].claimed
      /\ call'[c].lost = call[c].lost
      /\ c \in copies' => call'[c].litters
      /\ copies' \subseteq copies
  <2>1. CASE Goes(c, "report") /\ copies' = copies \ {c}
    BY <2>1, GoesType DEF Inv, Ins
  <2>2. CASE /\ call' = [call EXCEPT ![c].pc = "report", ![c].litters = TRUE]
             /\ copies' = copies
    BY <2>2 DEF Inv, TypeOK, CallType
  <2> QED  BY <2>1, <2>2 DEF CleansUp
<1>3. Leases'
  BY <1>1, <1>2 DEF Inv, Leases
<1>4. \A d \in Calls : d # c => (d \in copies' <=> d \in copies)
  BY DEF CleansUp
<1>5. CopiesKnown'
  BY <1>1, <1>2, <1>4 DEF Inv, CopiesKnown
<1>6. proc' \in [Calls -> ProcType] /\ TimersUsed /\ copies' \subseteq Reviews
  BY <1>1, <1>2 DEF Inv, TypeOK, ProcType
<1> QED  BY <1>1, <1>2, <1>3, <1>5, <1>6, Keeps DEF Ins, TimersUsed

(* The lease is given back.                                                *)
LEMMA NextReports == ASSUME Inv, NEW c \in Calls, Reports(c) PROVE Inv'
<1>1. /\ call[c].pc = "report" /\ active' = active /\ waiters' = waiters
      /\ proc' = proc /\ copies' = copies /\ copies \subseteq Reviews
  BY DEF Reports, Inv, TypeOK
<1>2. /\ call' \in [Calls -> CallType]
      /\ \A d \in Calls : d # c => call'[d] = call[d]
      /\ call'[c].pc = "leave" /\ call'[c].litters = call[c].litters
      /\ call'[c].claimed = call[c].claimed
      /\ \/ ~call[c].claimed /\ call'[c].lost = call[c].lost /\ lease' = lease
         \/ call[c].claimed /\ call'[c].lost = call[c].lost /\ lease' = {}
         \/ call[c].claimed /\ call'[c].lost /\ lease' = lease
  <2>1. CASE /\ Goes(c, "leave")
             /\ \/ ~call[c].claimed /\ lease' = lease
                \/ call[c].claimed /\ lease' = {}
    BY <2>1, GoesType DEF Inv, Ins
  <2>2. CASE /\ call[c].claimed /\ lease' = lease
             /\ call' = [call EXCEPT ![c].pc = "leave", ![c].lost = TRUE]
    BY <2>2 DEF Inv, TypeOK, CallType
  <2> QED  BY <2>1, <2>2 DEF Reports
<1>3. Leases'
  <2>1. /\ call[c].claimed => lease = {c}
        /\ c \in lease => call[c].claimed \/ call[c].lost
    BY <1>1 DEF Inv, Leases
  <2>2. ASSUME NEW d \in Calls, d # c
        PROVE  /\ call'[d].claimed /\ call'[d].pc # "leave" => lease' = {d}
               /\ d \in lease' => call'[d].claimed \/ call'[d].lost \/ call'[d].pc = "done"
               /\ call'[d].pc = "leave" /\ ~call'[d].lost => d \notin lease'
    <3>1. /\ call[d].claimed /\ call[d].pc # "leave" => lease = {d}
          /\ d \in lease => call[d].claimed \/ call[d].lost \/ call[d].pc = "done"
          /\ call[d].pc = "leave" /\ ~call[d].lost => d \notin lease
      BY DEF Inv, Leases
    <3> QED  BY <1>2, <2>1, <2>2, <3>1
  <2>3. /\ c \in lease' => call'[c].claimed \/ call'[c].lost
        /\ ~call'[c].lost => c \notin lease'
    BY <1>2, <2>1
  <2> QED  BY <1>2, <2>2, <2>3 DEF Leases
<1>4. CopiesKnown'
  BY <1>1, <1>2 DEF Inv, CopiesKnown
<1>5. proc' \in [Calls -> ProcType] /\ TimersUsed
  BY <1>1 DEF Inv, TypeOK, ProcType
<1> QED  BY <1>1, <1>2, <1>3, <1>4, <1>5, Keeps DEF Ins, TimersUsed

(* The run settles: by the end of the process, or by too much output.      *)
LEMMA Settles ==
  ASSUME Inv, NEW c \in Calls, Overflows(c) \/ Closes(c)
  PROVE  /\ Inv'
         /\ ~proc'[c].watched /\ ~proc'[c].timer
         /\ \A d \in Calls : d # c => proc'[d] = proc[d]
         /\ Closes(c) => ~proc'[c].alive /\ proc'[c].stray = proc[c].stray
<1>1. /\ proc[c].watched /\ call[c].pc = "exec"
      /\ active' = active /\ waiters' = waiters /\ lease' = lease
      /\ copies' = copies /\ copies \subseteq Reviews
      /\ c \in Reviews => c \in copies
  BY DEF Overflows, Closes, Inv, TypeOK, TimersUsed, CopiesKnown
<1>2. PICK pc \in {"clean", "report"} : Goes(c, pc) /\ (pc = "clean" <=> c \in Reviews)
  BY DEF Overflows, Closes, Ended
<1>3. /\ call' \in [Calls -> CallType]
      /\ \A d \in Calls : d # c => call'[d] = call[d]
      /\ call'[c].pc = pc /\ call'[c].claimed = call[c].claimed
      /\ call'[c].lost = call[c].lost /\ call'[c].litters = call[c].litters
  BY <1>2, GoesType DEF Inv, Ins
<1>4. proc \in [Calls -> ProcType] /\ proc[c] \in ProcType
  BY DEF Inv, TypeOK, ProcType
<1>5. /\ proc' \in [Calls -> ProcType]
      /\ \A d \in Calls : d # c => proc'[d] = proc[d]
      /\ ~proc'[c].watched /\ ~proc'[c].timer /\ ~proc'[c].listens /\ ~proc'[c].times
      /\ Closes(c) => ~proc'[c].alive /\ proc'[c].stray = proc[c].stray
  <2>1. CASE Overflows(c)
    <3>1. proc' = [proc EXCEPT ![c] = Settled(Terminated(proc[c]))]
      BY <2>1 DEF Overflows
    <3>2. Settled(Terminated(proc[c])) \in ProcType
      BY <1>4 DEF Settled, Terminated, NoProc, ProcType
    <3>3. ~proc'[c].watched /\ ~proc'[c].timer /\ ~proc'[c].listens /\ ~proc'[c].times
      BY <1>4, <3>1 DEF Settled, NoProc
    <3>4. Closes(c) => ~proc'[c].alive /\ proc'[c].stray = proc[c].stray
      <4>1. ASSUME Closes(c) PROVE proc' = [proc EXCEPT ![c] = Settled(proc[c])] /\ ~proc[c].alive
        BY <4>1 DEF Closes
      <4> QED  BY <4>1, <1>4 DEF Settled, NoProc
    <3> QED  BY <1>4, <3>1, <3>2, <3>3, <3>4
  <2>2. CASE Closes(c)
    <3>1. proc' = [proc EXCEPT ![c] = Settled(proc[c])] /\ ~proc[c].alive
      BY <2>2 DEF Closes
    <3> QED  BY <1>4, <3>1 DEF Settled, NoProc, ProcType
  <2> QED  BY <2>1, <2>2
<1>6. Leases'
  BY <1>1, <1>2, <1>3 DEF Inv, Leases
<1>7. CopiesKnown'
  BY <1>1, <1>2, <1>3 DEF Inv, CopiesKnown
<1>8. Inv'
  BY <1>1, <1>2, <1>3, <1>5, <1>6, <1>7, Keeps DEF Ins
<1> QED  BY <1>5, <1>8

(* A step that only changes a worker process or its timers.                *)
LEMMA ProcOnly ==
  ASSUME Inv, NEW c \in Calls, UNCHANGED <<call, active, waiters, lease, copies>>,
         NEW p \in ProcType, proc' = [proc EXCEPT ![c] = p],
         p.watched = proc[c].watched,
         p.timer => ~(p.listens /\ p.times), p.stray => ~p.listens /\ ~p.times
  PROVE  Inv'
<1>1. TypeOK'
  BY DEF Inv, TypeOK, CallType, ProcType
<1>2. TimersUsed'
  <2>1. proc \in [Calls -> ProcType]
    BY DEF Inv, TypeOK, ProcType
  <2> QED  BY <2>1 DEF Inv, TimersUsed
<1>3. Queue' /\ Fresh' /\ Leases' /\ CopiesKnown'
  BY DEF Inv, Queue, Fresh, Leases, CopiesKnown
<1>4. active' = Cardinality(Inside)' /\ active' <= Limit /\ NoIdleSlot'
  BY DEF Inv, Inside, NoIdleSlot
<1> QED  BY <1>1, <1>2, <1>3, <1>4 DEF Inv

(* SIGTERM, SIGKILL and the end of a worker process.                       *)
LEMMA NextProc ==
  ASSUME Inv, NEW c \in Calls,
         \/ Aborts(c) /\ proc[c].listens /\ UNCHANGED <<call, waiters>>
              /\ proc' = [proc EXCEPT ![c] = [Terminated(@) EXCEPT !.listens = FALSE]]
         \/ TimesOut(c)
         \/ Kills(c)
         \/ Exits(c)
  PROVE  Inv' /\ \A d \in Calls : proc'[d].watched = proc[d].watched
<1>1. proc \in [Calls -> ProcType] /\ proc[c] \in ProcType
  BY DEF Inv, TypeOK, ProcType
<1>2. /\ proc[c].timer => ~(proc[c].listens /\ proc[c].times)
      /\ proc[c].stray => ~proc[c].listens /\ ~proc[c].times
  BY DEF Inv, TimersUsed
<1>3. /\ UNCHANGED <<call, active, waiters, lease, copies>>
      /\ \E p \in ProcType :
           /\ proc' = [proc EXCEPT ![c] = p]
           /\ p.watched = proc[c].watched
           /\ p.timer => ~(p.listens /\ p.times)
           /\ p.stray => ~p.listens /\ ~p.times
  <2>1. CASE /\ Aborts(c) /\ proc[c].listens /\ UNCHANGED <<call, waiters>>
             /\ proc' = [proc EXCEPT ![c] = [Terminated(@) EXCEPT !.listens = FALSE]]
    <3> DEFINE p == [Terminated(proc[c]) EXCEPT !.listens = FALSE]
    <3>1. p \in ProcType /\ p.watched = proc[c].watched /\ ~p.listens /\ p.times = proc[c].times
      BY <1>1 DEF Terminated, ProcType
    <3>2. p.stray = (proc[c].stray \/ proc[c].timer)
      BY <1>1 DEF Terminated, ProcType
    <3>3. proc' = [proc EXCEPT ![c] = p]
      BY <2>1
    <3>4. UNCHANGED <<call, active, waiters, lease, copies>>
      BY <2>1 DEF Aborts
    <3> HIDE DEF p
    <3> QED  BY <1>2, <2>1, <3>1, <3>2, <3>3, <3>4
  <2>2. CASE TimesOut(c)
    <3> DEFINE p == [Terminated(proc[c]) EXCEPT !.times = FALSE]
    <3>1. p \in ProcType /\ p.watched = proc[c].watched /\ ~p.times /\ p.listens = proc[c].listens
      BY <1>1 DEF Terminated, ProcType
    <3>2. p.stray = (proc[c].stray \/ proc[c].timer)
      BY <1>1 DEF Terminated, ProcType
    <3>3. proc' = [proc EXCEPT ![c] = p] /\ proc[c].times
      BY <2>2 DEF TimesOut
    <3>4. UNCHANGED <<call, active, waiters, lease, copies>>
      BY <2>2 DEF TimesOut
    <3> HIDE DEF p
    <3> QED  BY <1>2, <3>1, <3>2, <3>3, <3>4
  <2>3. CASE Kills(c) \/ Exits(c)
    <3>1. \/ proc' = [proc EXCEPT ![c] = [proc[c] EXCEPT !.timer = FALSE, !.alive = FALSE]]
          \/ proc' = [proc EXCEPT ![c] = [proc[c] EXCEPT !.stray = FALSE, !.alive = FALSE]]
          \/ proc' = [proc EXCEPT ![c] = [proc[c] EXCEPT !.alive = FALSE]]
      <4>1. CASE Kills(c)
        <5>1. CASE proc' = [proc EXCEPT ![c].timer = FALSE, ![c].alive = FALSE]
          BY <1>1, <5>1
        <5>2. CASE proc' = [proc EXCEPT ![c].stray = FALSE, ![c].alive = FALSE]
          BY <1>1, <5>2
        <5> QED  BY <4>1, <5>1, <5>2 DEF Kills
      <4>2. CASE Exits(c)
        BY <4>2 DEF Exits
      <4> QED  BY <2>3, <4>1, <4>2
    <3> DEFINE Less(p) == /\ p.watched = proc[c].watched /\ p.listens = proc[c].listens
                          /\ p.times = proc[c].times
                          /\ p.timer => proc[c].timer
                          /\ p.stray => proc[c].stray
    <3>2. \E p \in ProcType : proc' = [proc EXCEPT ![c] = p] /\ Less(p)
      <4> DEFINE p1 == [proc[c] EXCEPT !.timer = FALSE, !.alive = FALSE]
                 p2 == [proc[c] EXCEPT !.stray = FALSE, !.alive = FALSE]
                 p3 == [proc[c] EXCEPT !.alive = FALSE]
      <4>1. p1 \in ProcType /\ Less(p1)
        BY <1>1 DEF ProcType
      <4>2. p2 \in ProcType /\ Less(p2)
        BY <1>1 DEF ProcType
      <4>3. p3 \in ProcType /\ Less(p3)
        BY <1>1 DEF ProcType
      <4>4. proc' = [proc EXCEPT ![c] = p1] \/ proc' = [proc EXCEPT ![c] = p2]
              \/ proc' = [proc EXCEPT ![c] = p3]
        BY <3>1
      <4> HIDE DEF p1, p2, p3, Less
      <4> QED  BY <4>1, <4>2, <4>3, <4>4
    <3>3. UNCHANGED <<call, active, waiters, lease, copies>>
      BY <2>3 DEF Kills, Exits
    <3> QED  BY <1>2, <3>2, <3>3 DEF Less
  <2> QED  BY <2>1, <2>2, <2>3
<1>4. PICK p \in ProcType :
        /\ proc' = [proc EXCEPT ![c] = p]
        /\ p.watched = proc[c].watched
        /\ p.timer => ~(p.listens /\ p.times)
        /\ p.stray => ~p.listens /\ ~p.times
  BY <1>3
<1>5. Inv'
  BY <1>3, <1>4, ProcOnly
<1> QED  BY <1>1, <1>4, <1>5

(* A lease that nobody gave back runs out.                                 *)
LEMMA NextLeaseExpires == ASSUME Inv, LeaseExpires PROVE Inv'
<1>1. PICK c \in lease : call[c].pc = "done"
  BY DEF LeaseExpires
<1>2. lease' = {} /\ UNCHANGED <<call, active, waiters, proc, copies>> /\ c \in Calls
  BY DEF LeaseExpires, Inv, TypeOK
<1>3. Leases'
  <2>1. ASSUME NEW d \in Calls PROVE ~(call[d].claimed /\ call[d].pc # "leave")
    BY <1>1, <1>2 DEF Inv, Leases, Fresh
  <2> QED  BY <1>2, <2>1 DEF Leases
<1>4. TypeOK'
  BY <1>2, FS_EmptySet DEF Inv, TypeOK
<1>5. Queue' /\ Fresh' /\ CopiesKnown' /\ TimersUsed'
  BY <1>2 DEF Inv, Queue, Fresh, CopiesKnown, TimersUsed
<1>6. active' = Cardinality(Inside)' /\ active' <= Limit /\ NoIdleSlot'
  BY <1>2 DEF Inv, Inside, NoIdleSlot
<1> QED  BY <1>3, <1>4, <1>5, <1>6 DEF Inv

-----------------------------------------------------------------------------
(* Steps of the semaphore *)

(* A call that has not had a slot yet has nothing to lose.                 *)
LEMMA Waits ==
  ASSUME Inv, NEW c \in Calls, call[c].pc \in {"new", "queued"},
         NEW pc \in {"queued", "cwd", "done"}, Goes(c, pc), UNCHANGED <<proc, lease, copies>>
  PROVE  /\ call' \in [Calls -> CallType] /\ call'[c].pc = pc
         /\ \A d \in Calls : d # c => call'[d] = call[d]
         /\ Fresh' /\ Leases' /\ CopiesKnown' /\ TimersUsed'
<1>1. /\ call' \in [Calls -> CallType]
      /\ \A d \in Calls : d # c => call'[d] = call[d]
      /\ call'[c].pc = pc /\ call'[c].claimed = call[c].claimed
      /\ call'[c].lost = call[c].lost /\ call'[c].litters = call[c].litters
  BY GoesType DEF Inv, Ins
<1>2. ~call[c].claimed /\ ~call[c].lost /\ ~call[c].litters
  BY DEF Inv, Fresh
<1>3. Fresh'
  BY <1>1, <1>2 DEF Inv, Fresh
<1>4. Leases'
  BY <1>1, <1>2 DEF Inv, Leases
<1>5. CopiesKnown'
  BY <1>1, <1>2 DEF Inv, CopiesKnown
<1>6. TimersUsed'
  BY <1>1, <1>2 DEF Inv, TimersUsed
<1> QED  BY <1>1, <1>3, <1>4, <1>5, <1>6

(* What is left to show for such a step.                                   *)
LEMMA SlotType ==
  ASSUME Inv, call' \in [Calls -> CallType], active' \in Nat, waiters' \in Seq(Calls),
         UNCHANGED <<proc, lease, copies>>
  PROVE  TypeOK'
BY DEF Inv, TypeOK, CallType

(* Refused, or aborted before it came.                                     *)
LEMMA NextRefused == ASSUME Inv, NEW c \in Calls, Refused(c) PROVE Inv'
<1>1. call[c].pc = "new" /\ Goes(c, "done") /\ UNCHANGED <<active, waiters, proc, lease, copies>>
  BY DEF Refused
<1>2. /\ call' \in [Calls -> CallType] /\ call'[c].pc = "done"
      /\ \A d \in Calls : d # c => call'[d] = call[d]
      /\ Fresh' /\ Leases' /\ CopiesKnown' /\ TimersUsed'
  BY <1>1, Waits
<1>3. TypeOK'
  BY <1>1, <1>2, SlotType DEF Inv, TypeOK
<1>4. \A i \in DOMAIN waiters : waiters[i] \in Calls
  BY ElementOfSeq, LenProperties DEF Inv, TypeOK
<1>5. Queue'
  BY <1>1, <1>2, <1>4 DEF Inv, Queue
<1>6. Inside' = Inside
  BY <1>1, <1>2 DEF Inside
<1>7. active' = Cardinality(Inside)' /\ active' <= Limit /\ NoIdleSlot'
  BY <1>1, <1>6 DEF Inv, NoIdleSlot
<1> QED  BY <1>2, <1>3, <1>5, <1>7 DEF Inv

(* A free slot is taken: then nobody waits.                                *)
LEMMA NextEnters == ASSUME Inv, NEW c \in Calls, Enters(c) PROVE Inv'
<1>1. /\ call[c].pc = "new" /\ Goes(c, "cwd") /\ active < Limit /\ active' = active + 1
      /\ UNCHANGED <<waiters, proc, lease, copies>>
  BY DEF Enters
<1>2. /\ call' \in [Calls -> CallType] /\ call'[c].pc = "cwd"
      /\ \A d \in Calls : d # c => call'[d] = call[d]
      /\ Fresh' /\ Leases' /\ CopiesKnown' /\ TimersUsed'
  BY <1>1, Waits
<1>3. active \in Nat /\ Limit \in Nat /\ waiters = <<>>
  BY <1>1, CodingAssumption DEF Inv, TypeOK, NoIdleSlot
<1>4. TypeOK'
  BY <1>1, <1>2, <1>3, SlotType DEF Inv, TypeOK
<1>5. Queue'
  BY <1>1, <1>3 DEF Queue
<1>6. Inside' = Inside \cup {c} /\ c \notin Inside
  BY <1>1, <1>2 DEF Inside
<1>7. IsFiniteSet(Inside)
  BY CodingAssumption, FS_Subset DEF Inside
<1>8. Cardinality(Inside') = Cardinality(Inside) + 1
  BY <1>6, <1>7, FS_AddElement
<1>9. active' = Cardinality(Inside)' /\ active' <= Limit /\ NoIdleSlot'
  BY <1>1, <1>3, <1>8 DEF Inv, NoIdleSlot
<1> QED  BY <1>2, <1>4, <1>5, <1>9 DEF Inv

(* No slot is free: the call waits behind the others.                      *)
LEMMA NextQueues == ASSUME Inv, NEW c \in Calls, Queues(c) PROVE Inv'
<1>1. /\ call[c].pc = "new" /\ Goes(c, "queued") /\ active >= Limit
      /\ waiters' = Append(waiters, c) /\ UNCHANGED <<active, proc, lease, copies>>
  BY DEF Queues
<1>2. /\ call' \in [Calls -> CallType] /\ call'[c].pc = "queued"
      /\ \A d \in Calls : d # c => call'[d] = call[d]
      /\ Fresh' /\ Leases' /\ CopiesKnown' /\ TimersUsed'
  BY <1>1, Waits
<1>3. /\ waiters' \in Seq(Calls) /\ Len(waiters') = Len(waiters) + 1
      /\ \A i \in 1 .. Len(waiters) : waiters'[i] = waiters[i]
      /\ waiters'[Len(waiters) + 1] = c
      /\ Len(waiters) \in Nat /\ DOMAIN waiters = 1 .. Len(waiters)
  BY <1>1, AppendProperties, LenProperties DEF Inv, TypeOK
<1>4. DOMAIN waiters' = 1 .. Len(waiters) + 1
  BY <1>3, LenProperties
<1>5. TypeOK'
  BY <1>1, <1>2, <1>3, SlotType DEF Inv, TypeOK
<1>6. \A i \in DOMAIN waiters : waiters[i] \in Calls /\ waiters[i] # c
  BY <1>1, ElementOfSeq, LenProperties DEF Inv, TypeOK, Queue
<1>7. ASSUME NEW i \in DOMAIN waiters'
      PROVE  IF i = Len(waiters) + 1 THEN waiters'[i] = c
             ELSE i \in DOMAIN waiters /\ waiters'[i] = waiters[i]
  BY <1>3, <1>4
<1>8. Queue'
  BY <1>2, <1>6, <1>7 DEF Inv, Queue
<1>9. Inside' = Inside
  BY <1>1, <1>2 DEF Inside
<1>10. active' = Cardinality(Inside)' /\ active' <= Limit
  BY <1>1, <1>9 DEF Inv
<1>11. NoIdleSlot'
  BY <1>1, CodingAssumption DEF Inv, TypeOK, NoIdleSlot
<1> QED  BY <1>2, <1>5, <1>8, <1>10, <1>11 DEF Inv

(* A waiter whose signal is aborted leaves the queue.                      *)
LEMMA NextAborts ==
  ASSUME Inv, NEW c \in Calls, Aborts(c)
  PROVE  Inv' /\ \A d \in Calls : proc'[d].watched = proc[d].watched
<1>1. CASE /\ call[c].pc = "queued" /\ Goes(c, "done") /\ proc' = proc
           /\ \E i \in DOMAIN waiters : waiters[i] = c /\ waiters' = RemoveAt(waiters, i)
  <2>1. PICK i \in DOMAIN waiters : waiters[i] = c /\ waiters' = RemoveAt(waiters, i)
    BY <1>1
  <2>2. UNCHANGED <<active, proc, lease, copies>>
    BY <1>1 DEF Aborts
  <2>3. /\ call' \in [Calls -> CallType] /\ call'[c].pc = "done"
        /\ \A d \in Calls : d # c => call'[d] = call[d]
        /\ Fresh' /\ Leases' /\ CopiesKnown' /\ TimersUsed'
    BY <1>1, <2>2, Waits
  <2>4. waiters \in Seq(Calls) /\ Len(waiters) \in Nat /\ DOMAIN waiters = 1 .. Len(waiters)
    BY LenProperties DEF Inv, TypeOK
  <2>5. /\ waiters' \in Seq(Calls) /\ DOMAIN waiters' = 1 .. Len(waiters) - 1
        /\ \A j \in 1 .. Len(waiters) - 1 : waiters'[j] = IF j < i THEN waiters[j] ELSE waiters[j + 1]
    BY <2>1, <2>4, RemoveAtShape
  <2>6. TypeOK'
    BY <2>2, <2>3, <2>5, SlotType DEF Inv, TypeOK
  <2> DEFINE old(j) == IF j < i THEN j ELSE j + 1
  <2>7. ASSUME NEW j \in DOMAIN waiters'
        PROVE  old(j) \in DOMAIN waiters /\ old(j) # i /\ waiters'[j] = waiters[old(j)]
    BY <2>4, <2>5
  <2>8. \A j, k \in DOMAIN waiters' : j # k => old(j) # old(k)
    BY <2>4, <2>5
  <2>9. \A j \in DOMAIN waiters : waiters[j] \in Calls
    BY ElementOfSeq, <2>4
  <2> HIDE DEF old
  <2>10. \A j \in DOMAIN waiters' : call'[waiters'[j]].pc = "queued"
    BY <2>1, <2>3, <2>7, <2>9 DEF Inv, Queue
  <2>11. \A j, k \in DOMAIN waiters' : j # k => waiters'[j] # waiters'[k]
    BY <2>7, <2>8 DEF Inv, Queue
  <2>12. Inside' = Inside
    BY <1>1, <2>3 DEF Inside
  <2>13. active' = Cardinality(Inside)' /\ active' <= Limit
    BY <2>2, <2>12 DEF Inv
  <2>14. NoIdleSlot'
    <3>1. waiters # <<>>
      BY <2>1, <2>4
    <3> QED  BY <2>2, <3>1 DEF Inv, NoIdleSlot
  <2> QED  BY <1>1, <2>3, <2>6, <2>10, <2>11, <2>13, <2>14 DEF Inv, Queue
<1>2. CASE /\ proc[c].listens /\ UNCHANGED <<call, waiters>>
           /\ proc' = [proc EXCEPT ![c] = [Terminated(@) EXCEPT !.listens = FALSE]]
  BY <1>2, NextProc
<1> QED  BY <1>1, <1>2 DEF Aborts

(* release(): with a waiter, the slots were all in use and exactly the     *)
(* oldest is let in.                                                       *)
LEMMA LetsOneIn ==
  ASSUME Inv, NEW n \in 0 .. Len(waiters), n = Len(waiters) \/ Admitted(n) = Limit,
         Admitted(n) <= Limit
  PROVE  /\ n = IF waiters = <<>> THEN 0 ELSE 1
         /\ Len(waiters) \in Nat /\ DOMAIN waiters = 1 .. Len(waiters)
         /\ Pumped(n).ahead = IF waiters = <<>> THEN {} ELSE {waiters[1]}
<1>1. /\ waiters \in Seq(Calls) /\ Len(waiters) \in Nat /\ DOMAIN waiters = 1 .. Len(waiters)
      /\ active \in Nat /\ Limit \in Nat
  BY LenProperties, CodingAssumption DEF Inv, TypeOK
<1>2. CASE waiters = <<>>
  <2>1. Len(waiters) = 0
    BY <1>2, EmptySeq
  <2>2. n = 0
    BY <2>1
  <2>3. Pumped(n).ahead = {}
    BY <2>2 DEF Pumped
  <2> QED  BY <1>1, <1>2, <2>2, <2>3
<1>3. CASE waiters # <<>>
  <2>1. Len(waiters) # 0
    BY <1>1, <1>3, EmptySeq
  <2>2. active = Limit
    BY <1>3 DEF Inv, NoIdleSlot
  <2>3. n = 1
    <3>1. /\ n = Len(waiters) \/ Limit - 1 + n = Limit
          /\ Limit - 1 + n <= Limit
      BY <2>2 DEF Admitted
    <3>2. Len(waiters) \in Nat /\ Limit \in Nat
      BY <1>1
    <3>3. n \in Nat
      BY <3>2
    <3> QED  BY <2>1, <3>1, <3>2, <3>3
  <2>4. 1 .. n = {1}
    BY <2>3
  <2>5. Pumped(n).ahead = {waiters[1]}
    BY <2>4 DEF Pumped
  <2> QED  BY <1>1, <1>3, <2>3, <2>5
<1> QED  BY <1>2, <1>3

(* A call gives its slot back, and the oldest waiter has it.               *)
LEMMA NextLeaves == ASSUME Inv, NEW c \in Calls, Leaves(c) PROVE Inv'
<1>1. call[c].pc = "leave" /\ UNCHANGED <<proc, lease, copies>>
  BY DEF Leaves
<1>2. PICK n \in 0 .. Len(waiters) :
       /\ n = Len(waiters) \/ Admitted(n) = Limit
       /\ Admitted(n) <= Limit
       /\ active' = Admitted(n)
       /\ waiters' = Pumped(n).behind
       /\ call' = [d \in Calls |->
                     IF d = c THEN [NewCall EXCEPT !.pc = "done"]
                     ELSE IF d \in Pumped(n).ahead THEN [call[d] EXCEPT !.pc = "cwd"]
                     ELSE call[d]]
  BY DEF Leaves
<1>3. /\ n = IF waiters = <<>> THEN 0 ELSE 1
      /\ Len(waiters) \in Nat /\ DOMAIN waiters = 1 .. Len(waiters)
      /\ Pumped(n).ahead = IF waiters = <<>> THEN {} ELSE {waiters[1]}
  BY <1>2, LetsOneIn
<1>4. /\ waiters \in Seq(Calls) /\ active \in Nat /\ Limit \in Nat
      /\ call \in [Calls -> CallType]
  BY CodingAssumption DEF Inv, TypeOK, CallType
<1>5. waiters # <<>> => 1 \in DOMAIN waiters
  <2>1. waiters # <<>> => Len(waiters) # 0
    BY <1>4, EmptySeq
  <2> QED  BY <1>3, <2>1
<1>6. \A i \in DOMAIN waiters : waiters[i] \in Calls /\ waiters[i] # c /\ call[waiters[i]].pc = "queued"
  BY <1>1, <1>4, ElementOfSeq, LenProperties DEF Inv, Queue
<1> DEFINE ahead == Pumped(n).ahead
<1>7. \A d \in ahead : d \in Calls /\ d # c /\ call[d].pc = "queued"
  BY <1>3, <1>5, <1>6
<1>8. /\ call' \in [Calls -> CallType]
      /\ call'[c].pc = "done" /\ ~call'[c].claimed
      /\ \A d \in ahead : /\ call'[d].pc = "cwd" /\ call'[d].claimed = call[d].claimed
                          /\ call'[d].lost = call[d].lost /\ call'[d].litters = call[d].litters
      /\ \A d \in Calls : d # c /\ d \notin ahead => call'[d] = call[d]
  <2> DEFINE over == [NewCall EXCEPT !.pc = "done"]
             In(d) == [call[d] EXCEPT !.pc = "cwd"]
  <2>1. over \in CallType /\ over.pc = "done" /\ ~over.claimed
    BY DEF NewCall, CallType
  <2>2. \A d \in Calls : /\ In(d) \in CallType /\ In(d).pc = "cwd" /\ In(d).claimed = call[d].claimed
                         /\ In(d).lost = call[d].lost /\ In(d).litters = call[d].litters
    BY <1>4 DEF CallType
  <2>3. call' = [d \in Calls |-> IF d = c THEN over ELSE IF d \in ahead THEN In(d) ELSE call[d]]
    BY <1>2
  <2> HIDE DEF over, In, ahead
  <2> QED  BY <1>4, <1>7, <2>1, <2>2, <2>3
<1>9. /\ waiters' \in Seq(Calls) /\ DOMAIN waiters' = 1 .. Len(waiters) - n
      /\ \A j \in 1 .. Len(waiters) - n : waiters'[j] = waiters[n + j] /\ n + j \in DOMAIN waiters
  <2>1. waiters' = SubSeq(waiters, n + 1, Len(waiters))
    BY <1>2 DEF Pumped
  <2> QED  BY <1>4, <2>1, RestShape
<1> HIDE DEF ahead
<1>10. Fresh'
  BY <1>7, <1>8 DEF Inv, Fresh
<1>11. Leases'
  <2>1. ASSUME NEW d \in Calls
        PROVE  /\ call'[d].claimed /\ call'[d].pc # "leave" => lease = {d}
               /\ d \in lease => call'[d].claimed \/ call'[d].lost \/ call'[d].pc = "done"
               /\ call'[d].pc = "leave" /\ ~call'[d].lost => d \notin lease
    <3>1. CASE d = c
      BY <1>8, <3>1
    <3>2. CASE d \in ahead
      <4>1. ~call[d].claimed /\ ~call[d].lost /\ d \notin lease
        BY <1>7, <3>2 DEF Inv, Fresh, Leases
      <4> QED  BY <1>8, <3>2, <4>1
    <3>3. CASE d # c /\ d \notin ahead
      <4>1. call'[d] = call[d]
        BY <1>8, <3>3
      <4> QED  BY <4>1 DEF Inv, Leases
    <3> QED  BY <3>1, <3>2, <3>3
  <2> QED  BY <1>1, <2>1 DEF Leases
<1>12. CopiesKnown'
  <2>1. ASSUME NEW d \in Calls
        PROVE  /\ call'[d].pc \in {"worktree", "clean"} => d \in Reviews
               /\ d \in copies => call'[d].pc \in {"exec", "clean", "done"} \/ call'[d].litters
               /\ d \in Reviews /\ call'[d].pc = "exec" => d \in copies
    <3>1. CASE d = c
      BY <1>8, <3>1
    <3>2. CASE d \in ahead
      <4>1. call[d].pc = "queued" /\ (d \in copies => call[d].litters)
        BY <1>7, <3>2 DEF Inv, CopiesKnown
      <4> QED  BY <1>8, <3>2, <4>1
    <3>3. CASE d # c /\ d \notin ahead
      <4>1. call'[d] = call[d]
        BY <1>8, <3>3
      <4> QED  BY <4>1 DEF Inv, CopiesKnown
    <3> QED  BY <3>1, <3>2, <3>3
  <2> QED  BY <1>1, <2>1 DEF CopiesKnown
<1>13. TimersUsed'
  <2>1. ASSUME NEW d \in Calls, proc[d].watched PROVE call'[d].pc = "exec"
    <3>1. call[d].pc = "exec"
      BY <2>1 DEF Inv, TimersUsed
    <3>2. d # c /\ d \notin ahead
      BY <1>1, <1>7, <3>1
    <3> QED  BY <1>8, <3>1, <3>2
  <2> QED  BY <1>1, <2>1 DEF Inv, TimersUsed
<1>14. Queue'
  <2>1. n \in Nat /\ n <= Len(waiters)
    BY <1>3
  <2>2. ASSUME NEW j \in DOMAIN waiters' PROVE call'[waiters'[j]].pc = "queued"
    <3>1. waiters'[j] = waiters[n + j] /\ n + j \in DOMAIN waiters /\ j \in Nat /\ j >= 1
      BY <1>9
    <3>2. waiters[n + j] \notin ahead
      <4>1. CASE waiters = <<>>
        BY <1>3, <4>1 DEF ahead
      <4>2. CASE waiters # <<>>
        <5>1. n + j # 1 /\ 1 \in DOMAIN waiters
          BY <1>3, <1>5, <3>1, <4>2
        <5>2. waiters[n + j] # waiters[1]
          BY <3>1, <5>1 DEF Inv, Queue
        <5> QED  BY <1>3, <4>2, <5>2 DEF ahead
      <4> QED  BY <4>1, <4>2
    <3> QED  BY <1>6, <1>8, <3>1, <3>2
  <2>3. ASSUME NEW j \in DOMAIN waiters', NEW k \in DOMAIN waiters', j # k
        PROVE  waiters'[j] # waiters'[k]
    <3>1. /\ waiters'[j] = waiters[n + j] /\ n + j \in DOMAIN waiters
          /\ waiters'[k] = waiters[n + k] /\ n + k \in DOMAIN waiters
          /\ n + j # n + k
      BY <1>9, <2>1, <2>3
    <3> QED  BY <3>1 DEF Inv, Queue
  <2> QED  BY <2>2, <2>3 DEF Queue
<1>15. Inside' = (Inside \ {c}) \cup ahead /\ c \in Inside /\ ahead \cap Inside = {}
  <2>1. c \in Inside
    BY <1>1 DEF Inside
  <2>2. \A d \in ahead : d \notin Inside /\ d \in Inside'
    BY <1>7, <1>8 DEF Inside
  <2>3. c \notin Inside'
    BY <1>8 DEF Inside
  <2>4. \A d \in Calls : d # c /\ d \notin ahead => (d \in Inside' <=> d \in Inside)
    BY <1>8 DEF Inside
  <2>5. Inside \subseteq Calls /\ Inside' \subseteq Calls
    BY DEF Inside
  <2> QED  BY <2>1, <2>2, <2>3, <2>4, <2>5
<1>16. IsFiniteSet(Inside) /\ IsFiniteSet(Inside \ {c})
  BY CodingAssumption, FS_Subset DEF Inside
<1>17. Cardinality(Inside \ {c}) = active - 1 /\ active > 0
  <2>1. Cardinality(Inside \ {c}) = Cardinality(Inside) - 1
    BY <1>15, <1>16, FS_RemoveElement
  <2>2. Cardinality(Inside \ {c}) \in Nat
    BY <1>16, FS_CardinalityType
  <2>3. active = Cardinality(Inside)
    BY DEF Inv
  <2> QED  BY <1>4, <2>1, <2>2, <2>3
<1>18. active' = Cardinality(Inside') /\ active' \in Nat /\ active' <= Limit
  <2>1. CASE waiters = <<>>
    <3>1. ahead = {} /\ n = 0
      BY <1>3, <2>1 DEF ahead
    <3>2. Inside' = Inside \ {c}
      BY <1>15, <3>1
    <3>3. active' = active - 1 /\ active <= Limit
      BY <1>2, <1>4, <3>1 DEF Admitted, Inv
    <3> QED  BY <1>4, <1>17, <3>2, <3>3
  <2>2. CASE waiters # <<>>
    <3>1. ahead = {waiters[1]} /\ n = 1
      BY <1>3, <2>2 DEF ahead
    <3>2. waiters[1] \notin Inside \ {c} /\ Inside' = (Inside \ {c}) \cup {waiters[1]}
      BY <1>15, <3>1
    <3>3. Cardinality(Inside') = Cardinality(Inside \ {c}) + 1
      BY <1>16, <3>2, FS_AddElement
    <3>4. active' = active /\ active <= Limit
      BY <1>2, <1>4, <3>1 DEF Admitted, Inv
    <3> QED  BY <1>4, <1>17, <3>3, <3>4
  <2> QED  BY <2>1, <2>2
<1>19. NoIdleSlot'
  <2>1. CASE n = Len(waiters)
    <3>1. waiters' = <<>>
      <4>1. DOMAIN waiters' = 1 .. Len(waiters') /\ Len(waiters') \in Nat
        BY <1>9, LenProperties
      <4>2. Len(waiters') = 0
        BY <1>3, <1>9, <2>1, <4>1
      <4> QED  BY <1>9, <4>2, EmptySeq
    <3> QED  BY <3>1 DEF NoIdleSlot
  <2>2. CASE Admitted(n) = Limit
    BY <1>2, <2>2 DEF NoIdleSlot
  <2> QED  BY <1>2, <2>1, <2>2
<1>20. TypeOK'
  BY <1>1, <1>8, <1>9, <1>18, SlotType
<1> QED  BY <1>10, <1>11, <1>12, <1>13, <1>14, <1>18, <1>19, <1>20 DEF Inv

-----------------------------------------------------------------------------
(* Theorems *)

LEMMA InitInv == Init => Inv
<1> SUFFICES ASSUME Init PROVE Inv
  OBVIOUS
<1>1. /\ call = [c \in Calls |-> NewCall] /\ active = 0 /\ waiters = <<>>
      /\ proc = [c \in Calls |-> NoProc] /\ lease = {} /\ copies = {}
  BY DEF Init
<1>2. /\ call \in [Calls -> CallType] /\ proc \in [Calls -> ProcType]
      /\ \A c \in Calls : /\ call[c].pc = "new" /\ ~call[c].claimed
                          /\ ~call[c].lost /\ ~call[c].litters
                          /\ ~proc[c].watched /\ ~proc[c].timer /\ ~proc[c].stray
  BY <1>1 DEF NewCall, NoProc, CallType, ProcType
<1>3. waiters \in Seq(Calls) /\ DOMAIN waiters = {}
  <2>1. waiters \in Seq(Calls) /\ Len(waiters) = 0
    BY <1>1, EmptySeq
  <2>2. DOMAIN waiters = 1 .. 0
    BY <2>1, LenProperties
  <2> QED  BY <2>1, <2>2
<1>4. TypeOK
  BY <1>1, <1>2, <1>3, FS_EmptySet DEF TypeOK, CallType, ProcType
<1>5. Queue /\ Fresh /\ Leases /\ CopiesKnown /\ TimersUsed
  BY <1>1, <1>2, <1>3 DEF Queue, Fresh, Leases, CopiesKnown, TimersUsed
<1>6. Inside = {}
  BY <1>2 DEF Inside
<1>7. active = Cardinality(Inside) /\ active <= Limit /\ NoIdleSlot
  BY <1>1, <1>6, FS_EmptySet, CodingAssumption DEF NoIdleSlot
<1> QED  BY <1>4, <1>5, <1>7 DEF Inv

LEMMA NextInv == Inv /\ [Next]_vars => Inv'
<1> SUFFICES ASSUME Inv, [Next]_vars PROVE Inv'
  OBVIOUS
<1>1. CASE UNCHANGED vars
  BY <1>1 DEF vars, Inv, TypeOK, Queue, Fresh, Leases, CopiesKnown, TimersUsed, Inside,
              NoIdleSlot
<1>2. CASE LeaseExpires
  BY <1>2, NextLeaseExpires
<1>3. ASSUME NEW c \in Calls,
             \/ Refused(c) \/ Enters(c) \/ Queues(c) \/ Aborts(c) \/ HandlerStep(c)
             \/ TimesOut(c) \/ Overflows(c) \/ Kills(c) \/ Exits(c) \/ Closes(c)
      PROVE  Inv'
  <2>1. CASE Refused(c) \/ Enters(c) \/ Queues(c)
    BY <2>1, NextRefused, NextEnters, NextQueues
  <2>2. CASE Aborts(c)
    BY <2>2, NextAborts
  <2>3. CASE HandlerStep(c)
    BY <2>3, NextResolvesCwd, NextClaims, NextPrepares, NextCopies, NextCleansUp, NextReports,
       NextLeaves DEF HandlerStep
  <2>4. CASE TimesOut(c) \/ Kills(c) \/ Exits(c)
    BY <2>4, NextProc
  <2>5. CASE Overflows(c) \/ Closes(c)
    BY <2>5, Settles
  <2> QED  BY <1>3, <2>1, <2>2, <2>3, <2>4, <2>5
<1> QED  BY <1>1, <1>2, <1>3 DEF Next

LEMMA Invariant == Spec => []Inv
BY InitInv, NextInv, PTL DEF Spec

(* The types: in particular one call at most holds the file, and only a    *)
(* review has a copy.                                                      *)
THEOREM TypeCorrect == Spec => []TypeOK
<1>1. Inv => TypeOK
  BY DEF Inv
<1> QED  BY <1>1, Invariant, PTL

(* The semaphore: the count is the number of calls that have a slot, never *)
(* more than the limit, a watched worker's call has one, and nobody waits  *)
(* while one is free.                                                      *)
THEOREM SlotsAreSound == Spec => []SlotsSound
<1>1. Inv => SlotsSound
  BY DEF Inv, SlotsSound, SlotsCounted, TimersUsed
<1> QED  BY <1>1, Invariant, PTL

(* A watched worker whose lease was confirmed has the file to itself.      *)
THEOREM LeasesGuard == Spec => []LeaseGuardsWorker
<1>1. Inv => LeaseGuardsWorker
  BY DEF Inv, LeaseGuardsWorker, Leases, TimersUsed
<1> QED  BY <1>1, Invariant, PTL

(* A call that is about to return has given back its lease and its copy,   *)
(* but where the server or the disk did not let it; and the copy stays     *)
(* while its worker is watched.                                            *)
THEOREM AllGivenBack == Spec => []GivenBack
<1>1. Inv => GivenBack
  BY DEF Inv, GivenBack, Leases, CopiesKnown, TimersUsed
<1> QED  BY <1>1, Invariant, PTL

(* Only a slot that is given back lets a waiter in.                        *)
LEMMA OthersLetNobodyIn ==
  ASSUME Inv, [Next]_vars, NEW d \in Calls, call[d].pc = "queued", call'[d].pc = "cwd"
  PROVE  \E c \in Calls : Leaves(c)
<1>1. call \in [Calls -> CallType] /\ d \in DOMAIN call
  BY DEF Inv, TypeOK, CallType
<1>2. ASSUME NEW c \in Calls, c # d, NEW x, call' = [call EXCEPT ![c] = x]
      PROVE  FALSE
  BY <1>1, <1>2
<1>3. ASSUME NEW c \in Calls, NEW pc, Goes(c, pc), c # d \/ pc # "cwd"
      PROVE  FALSE
  BY <1>1, <1>3 DEF Goes
<1>4. ~(UNCHANGED call)
  OBVIOUS
<1>5. ASSUME NEW c \in Calls, Refused(c) \/ Enters(c) \/ Queues(c) PROVE FALSE
  BY <1>3, <1>5 DEF Refused, Enters, Queues
<1>6. ASSUME NEW c \in Calls, Aborts(c) PROVE FALSE
  BY <1>3, <1>4, <1>6 DEF Aborts
<1>7. ASSUME NEW c \in Calls, ResolvesCwd(c) PROVE FALSE
  <2>1. c # d
    BY <1>7 DEF ResolvesCwd
  <2> QED  BY <1>3, <1>7, <2>1 DEF ResolvesCwd
<1>8. ASSUME NEW c \in Calls, Claims(c) PROVE FALSE
  <2>1. c # d
    BY <1>8 DEF Claims
  <2> QED  BY <1>1, <1>8, <2>1 DEF Claims, Goes
<1>9. ASSUME NEW c \in Calls, Prepares(c) \/ Copies(c) PROVE FALSE
  <2>1. c # d
    BY <1>9 DEF Prepares, Copies
  <2> QED  BY <1>1, <1>9, <2>1 DEF Prepares, Copies, Spawns, Ended, Goes
<1>10. ASSUME NEW c \in Calls, CleansUp(c) \/ Reports(c) PROVE FALSE
  <2>1. c # d
    BY <1>10 DEF CleansUp, Reports
  <2> QED  BY <1>1, <1>10, <2>1 DEF CleansUp, Reports, Goes
<1>11. ASSUME NEW c \in Calls, Overflows(c) \/ Closes(c) PROVE FALSE
  <2>1. c # d
    BY <1>11 DEF Overflows, Closes, Inv, TimersUsed
  <2> QED  BY <1>3, <1>11, <2>1 DEF Overflows, Closes, Ended
<1>12. ASSUME NEW c \in Calls, TimesOut(c) \/ Kills(c) \/ Exits(c) PROVE FALSE
  BY <1>4, <1>12 DEF TimesOut, Kills, Exits
<1>13. ~LeaseExpires /\ ~UNCHANGED vars
  BY <1>4 DEF LeaseExpires, vars
<1>14. ASSUME NEW c \in Calls, HandlerStep(c) PROVE Leaves(c)
  BY <1>7, <1>8, <1>9, <1>10, <1>14 DEF HandlerStep
<1> QED  BY <1>5, <1>6, <1>11, <1>12, <1>13, <1>14 DEF Next

(* Slots are given in the order of the calls.                              *)
THEOREM FirstComeIsFirstServed == Spec => FirstComeFirstServed
<1>1. ASSUME Inv, [Next]_vars, NEW i \in DOMAIN waiters, NEW j \in DOMAIN waiters,
             i < j, call'[waiters[j]].pc = "cwd"
      PROVE  FALSE
  <2>1. /\ waiters[j] \in Calls /\ call[waiters[j]].pc = "queued"
        /\ Len(waiters) \in Nat /\ DOMAIN waiters = 1 .. Len(waiters)
    BY <1>1, ElementOfSeq, LenProperties DEF Inv, TypeOK, Queue
  <2>2. PICK c \in Calls : Leaves(c)
    BY <1>1, <2>1, OthersLetNobodyIn
  <2>3. PICK n \in 0 .. Len(waiters) :
         /\ n = Len(waiters) \/ Admitted(n) = Limit
         /\ Admitted(n) <= Limit
         /\ call' = [d \in Calls |->
                       IF d = c THEN [NewCall EXCEPT !.pc = "done"]
                       ELSE IF d \in Pumped(n).ahead THEN [call[d] EXCEPT !.pc = "cwd"]
                       ELSE call[d]]
    BY <2>2 DEF Leaves
  <2>4. Pumped(n).ahead \subseteq {waiters[1]}
    BY <1>1, <2>3, LetsOneIn
  <2>5. waiters[j] \in Pumped(n).ahead
    <3>1. waiters[j] # c
      BY <2>1, <2>2 DEF Leaves
    <3> QED  BY <1>1, <2>1, <2>3, <3>1
  <2>6. waiters[j] = waiters[1]
    BY <2>4, <2>5
  <2>7. 1 \in DOMAIN waiters /\ j # 1
    BY <1>1, <2>1
  <2> QED  BY <1>1, <2>6, <2>7 DEF Inv, Queue
<1>2. Inv /\ [Next]_vars => [\A i, j \in DOMAIN waiters :
        i < j /\ call'[waiters[j]].pc = "cwd" => call'[waiters[i]].pc # "queued"]_vars
  BY <1>1
<1> QED  BY <1>2, Invariant, PTL DEF Spec, FirstComeFirstServed

(* What a step may do to the worker processes, when it is not the end of a *)
(* run.                                                                    *)
LEMMA OthersWatchOn ==
  ASSUME Inv, [Next]_vars, \A c \in Calls : ~Overflows(c) /\ ~Closes(c), NEW d \in Calls,
         proc[d].watched
  PROVE  proc'[d].watched
<1>1. proc \in [Calls -> ProcType] /\ call[d].pc = "exec"
  BY DEF Inv, TypeOK, ProcType, TimersUsed
<1>2. ASSUME NEW c \in Calls, Refused(c) \/ Enters(c) \/ Queues(c) PROVE proc' = proc
  BY <1>2 DEF Refused, Enters, Queues
<1>3. ASSUME NEW c \in Calls, ResolvesCwd(c) \/ Claims(c) \/ CleansUp(c) \/ Reports(c) \/ Leaves(c)
      PROVE  proc' = proc
  BY <1>3 DEF ResolvesCwd, Claims, CleansUp, Reports, Leaves
<1>4. ASSUME NEW c \in Calls, Prepares(c) \/ Copies(c) PROVE proc'[d] = proc[d]
  <2>1. c # d
    BY <1>1, <1>4 DEF Prepares, Copies
  <2> QED  BY <1>1, <1>4, <2>1 DEF Prepares, Copies, Spawns
<1>5. ASSUME NEW c \in Calls, Aborts(c) \/ TimesOut(c) \/ Kills(c) \/ Exits(c)
      PROVE  proc'[d].watched = proc[d].watched
  BY <1>5, NextAborts, NextProc
<1>6. LeaseExpires \/ UNCHANGED vars => proc' = proc
  BY DEF LeaseExpires, vars
<1> QED  BY <1>2, <1>3, <1>4, <1>5, <1>6 DEF Next, HandlerStep

(* When a run settles nothing is sent to its process group any more, but   *)
(* for the two cases that the property names.                              *)
THEOREM NothingIsLeftBehind == Spec => NothingLeftBehind
<1>1. ASSUME Inv, [Next]_vars, NEW d \in Calls, proc[d].watched, ~proc'[d].watched
      PROVE  /\ ~proc'[d].timer
             /\ proc'[d].alive => Overflows(d)
             /\ proc'[d].stray /\ Closes(d) => ~(proc[d].listens \/ proc[d].times)
  <2>1. PICK c \in Calls : Overflows(c) \/ Closes(c)
    BY <1>1, OthersWatchOn
  <2>2. /\ ~proc'[c].timer
        /\ \A e \in Calls : e # c => proc'[e] = proc[e]
        /\ Closes(c) => ~proc'[c].alive /\ proc'[c].stray = proc[c].stray
    BY <1>1, <2>1, Settles
  <2>3. c = d
    BY <1>1, <2>2
  <2> QED  BY <1>1, <2>1, <2>2, <2>3 DEF Inv, TimersUsed
<1>2. Inv /\ [Next]_vars => [\A c \in Calls : proc[c].watched /\ ~proc'[c].watched =>
        /\ ~proc'[c].timer
        /\ proc'[c].alive => Overflows(c)
        /\ proc'[c].stray /\ Closes(c) => ~(proc[c].listens \/ proc[c].times)]_vars
  BY <1>1
<1> QED  BY <1>2, Invariant, PTL DEF Spec, NothingLeftBehind

-----------------------------------------------------------------------------
(* The safety half of EveryCallReturns *)

(* How far a call is from its return, and how much its worker process and  *)
(* its timers can still do.                                                *)
Stage(pc) ==
  CASE pc = "new" -> 10
    [] pc = "queued" -> 9
    [] pc = "cwd" -> 8
    [] pc = "claim" -> 7
    [] pc = "preflight" -> 6
    [] pc = "worktree" -> 5
    [] pc = "exec" -> 4
    [] pc = "clean" -> 3
    [] pc = "report" -> 2
    [] pc = "leave" -> 1
    [] OTHER -> 0

One(b) == IF b THEN 1 ELSE 0

ProcLeft(p) ==
  2 * One(p.listens) + 2 * One(p.times) + One(p.timer) + One(p.stray) + One(p.alive)

Nearer(c) ==
  \/ Stage(call'[c].pc) < Stage(call[c].pc)
  \/ call'[c] = call[c] /\ ProcLeft(proc'[c]) < ProcLeft(proc[c])

(* Every step of the system brings a call nearer to its return (Stage, and *)
(* where that stays, ProcLeft, a number that is never more than 7), or lets*)
(* a lease run out, and takes no other call back: the handler, pump(), the *)
(* abort of a waiter and the timers of executeCommand() have no loop, so   *)
(* with finitely many calls only finitely many steps can be taken.         *)
NothingGoesRound ==
  [][/\ \A c \in Calls : Nearer(c) \/ (call'[c] = call[c] /\ proc'[c] = proc[c])
     /\ (\E c \in Calls : Nearer(c)) \/ (lease # {} /\ lease' = {})]_vars

(* While a call is under way, some call can take a step that must be taken:*)
(* a handler between its awaits, a runner whose worker is gone, a timeout  *)
(* that has not fired or a SIGKILL timer that is armed.  In particular a   *)
(* queued call waits behind calls that have a slot, never for a slot that  *)
(* nobody will give back, and a worker that ignores SIGTERM has a SIGKILL  *)
(* ahead as long as its call waits for it.                                 *)
SomebodyActs ==
  (\E c \in Calls : call[c].pc \notin {"new", "done"}) =>
    \E d \in Calls :
      \/ call[d].pc \in Ins \ {"exec"}
      \/ proc[d].watched /\ ~proc[d].alive
      \/ proc[d].times \/ proc[d].timer

(* Whoever is queued is among the waiters, and a running worker has a timer*)
(* that ends it.                                                           *)
Queued(c) == call[c].pc = "queued" => \E i \in DOMAIN waiters : waiters[i] = c

Timed(c) ==
  call[c].pc = "exec" => proc[c].watched /\ (proc[c].alive => proc[c].times \/ proc[c].timer)

Awaited == \A c \in Calls : Queued(c) /\ Timed(c)

(* Steps that bring a call to another place, and steps that only wear its  *)
(* worker process and its timers.                                          *)
GivesUp(c) ==
  /\ call[c].pc = "queued" /\ Goes(c, "done") /\ proc' = proc
  /\ \E i \in DOMAIN waiters : waiters[i] = c /\ waiters' = RemoveAt(waiters, i)

MovesOn(c) ==
  \/ Refused(c) \/ Enters(c) \/ Queues(c) \/ ResolvesCwd(c) \/ Claims(c) \/ Prepares(c)
  \/ Copies(c) \/ CleansUp(c) \/ Reports(c) \/ Overflows(c) \/ Closes(c) \/ GivesUp(c)

AbortsWorker(c) ==
  /\ proc[c].listens /\ UNCHANGED <<call, waiters>>
  /\ proc' = [proc EXCEPT ![c] = [Terminated(@) EXCEPT !.listens = FALSE]]

Wears(c) == AbortsWorker(c) \/ TimesOut(c) \/ Kills(c) \/ Exits(c)

(* A call that goes to another place of the handler.                       *)
LEMMA GoesOn ==
  ASSUME Inv, NEW c \in Calls, MovesOn(c)
  PROVE  /\ Stage(call'[c].pc) < Stage(call[c].pc)
         /\ \A d \in Calls : d # c => call'[d] = call[d] /\ proc'[d] = proc[d]
         /\ call'[c].pc = "queued" => Queues(c)
         /\ call'[c].pc = "exec" => proc'[c].watched /\ proc'[c].times
<1>1. /\ call \in [Calls -> CallType] /\ proc \in [Calls -> ProcType]
      /\ \A d \in Calls : proc[d].watched => call[d].pc = "exec"
      /\ \A d \in Calls : proc[d].listens \in BOOLEAN
  BY DEF Inv, TypeOK, CallType, ProcType, TimersUsed
<1> DEFINE Others == \A d \in Calls : d # c => call'[d] = call[d] /\ proc'[d] = proc[d]
<1>2. ASSUME NEW pc, \/ Goes(c, pc)
                     \/ call' = [call EXCEPT ![c].pc = pc, ![c].claimed = TRUE]
                     \/ call' = [call EXCEPT ![c] = Unclear(@)] /\ pc = "preflight"
                     \/ call' = [call EXCEPT ![c].pc = pc, ![c].lost = TRUE]
                     \/ call' = [call EXCEPT ![c].pc = pc, ![c].litters = TRUE]
      PROVE  call'[c].pc = pc /\ \A d \in Calls : d # c => call'[d] = call[d]
  <2>1. PICK x : call' = [call EXCEPT ![c] = x] /\ x.pc = pc
    <3>1. CASE Goes(c, pc)
      <4>1. call' = [call EXCEPT ![c] = [call[c] EXCEPT !.pc = pc]]
        BY <1>1, <3>1 DEF Goes
      <4>2. [call[c] EXCEPT !.pc = pc].pc = pc
        BY <1>1 DEF CallType
      <4> QED  BY <4>1, <4>2
    <3>2. CASE call' = [call EXCEPT ![c].pc = pc, ![c].claimed = TRUE]
      <4>1. call' = [call EXCEPT ![c] = [call[c] EXCEPT !.pc = pc, !.claimed = TRUE]]
        BY <1>1, <3>2
      <4>2. [call[c] EXCEPT !.pc = pc, !.claimed = TRUE].pc = pc
        BY <1>1 DEF CallType
      <4> QED  BY <4>1, <4>2
    <3>3. CASE call' = [call EXCEPT ![c] = Unclear(@)] /\ pc = "preflight"
      <4>1. Unclear(call[c]).pc = pc
        BY <1>1, <3>3 DEF Unclear, CallType
      <4> QED  BY <3>3, <4>1
    <3>4. CASE call' = [call EXCEPT ![c].pc = pc, ![c].lost = TRUE]
      <4>1. call' = [call EXCEPT ![c] = [call[c] EXCEPT !.pc = pc, !.lost = TRUE]]
        BY <1>1, <3>4
      <4>2. [call[c] EXCEPT !.pc = pc, !.lost = TRUE].pc = pc
        BY <1>1 DEF CallType
      <4> QED  BY <4>1, <4>2
    <3>5. CASE call' = [call EXCEPT ![c].pc = pc, ![c].litters = TRUE]
      <4>1. call' = [call EXCEPT ![c] = [call[c] EXCEPT !.pc = pc, !.litters = TRUE]]
        BY <1>1, <3>5
      <4>2. [call[c] EXCEPT !.pc = pc, !.litters = TRUE].pc = pc
        BY <1>1 DEF CallType
      <4> QED  BY <4>1, <4>2
    <3> QED  BY <1>2, <3>1, <3>2, <3>3, <3>4, <3>5
  <2> QED  BY <1>1, <2>1
<1>3. CASE Refused(c) \/ Enters(c) \/ Queues(c)
  <2>1. PICK pc \in {"done", "cwd", "queued"} :
          Goes(c, pc) /\ proc' = proc /\ (pc = "queued" => Queues(c)) /\ call[c].pc = "new"
    BY <1>3 DEF Refused, Enters, Queues
  <2>2. call'[c].pc = pc /\ Others
    BY <1>2, <2>1
  <2> QED  BY <2>1, <2>2 DEF Stage
<1>4. CASE ResolvesCwd(c)
  <2>1. PICK pc \in {"leave", "claim", "preflight"} :
          Goes(c, pc) /\ proc' = proc /\ call[c].pc = "cwd"
    BY <1>4 DEF ResolvesCwd
  <2>2. call'[c].pc = pc /\ Others
    BY <1>2, <2>1
  <2> QED  BY <2>1, <2>2 DEF Stage
<1>5. CASE Claims(c)
  <2>1. proc' = proc /\ call[c].pc = "claim"
    BY <1>5 DEF Claims
  <2>2. PICK pc \in {"preflight", "report"} :
          \/ Goes(c, pc)
          \/ call' = [call EXCEPT ![c].pc = pc, ![c].claimed = TRUE]
          \/ call' = [call EXCEPT ![c] = Unclear(@)] /\ pc = "preflight"
          \/ call' = [call EXCEPT ![c].pc = pc, ![c].lost = TRUE]
    BY <1>5 DEF Claims
  <2>3. call'[c].pc = pc /\ Others
    BY <1>2, <2>1, <2>2
  <2> QED  BY <2>1, <2>2, <2>3 DEF Stage
<1>6. ASSUME Spawns(c)
      PROVE  /\ call'[c].pc \in {"clean", "report", "exec"} /\ Others
             /\ call'[c].pc = "exec" => proc'[c].watched /\ proc'[c].times
  <2>1. CASE Ended(c) /\ proc' = proc
    <3>1. PICK pc \in {"clean", "report"} : Goes(c, pc)
      BY <2>1 DEF Ended
    <3> QED  BY <1>2, <2>1, <3>1
  <2>2. ASSUME Goes(c, "exec"), NEW raised \in BOOLEAN,
               proc' = [proc EXCEPT ![c] = [NoProc EXCEPT !.alive = TRUE, !.watched = TRUE,
                                              !.times = TRUE, !.listens = ~raised]]
        PROVE  /\ call'[c].pc = "exec" /\ Others
               /\ proc'[c].watched /\ proc'[c].times
    <3>1. /\ proc'[c] = [NoProc EXCEPT !.alive = TRUE, !.watched = TRUE,
                                       !.times = TRUE, !.listens = ~raised]
          /\ \A d \in Calls : d # c => proc'[d] = proc[d]
      BY <1>1, <2>2
    <3>2. proc'[c].watched /\ proc'[c].times
      BY <3>1 DEF NoProc
    <3> QED  BY <1>2, <2>2, <3>1, <3>2
  <2> QED  BY <1>6, <2>1, <2>2 DEF Spawns
<1>7. CASE Prepares(c)
  <2>1. call[c].pc = "preflight"
    BY <1>7 DEF Prepares
  <2>2. ASSUME NEW pc \in {"report", "worktree"}, Goes(c, pc), proc' = proc
        PROVE  call'[c].pc \in {"report", "worktree"} /\ Others
    BY <1>2, <2>2
  <2>3. /\ call'[c].pc \in {"report", "worktree", "clean", "exec"} /\ Others
        /\ call'[c].pc = "exec" => proc'[c].watched /\ proc'[c].times
    BY <1>6, <1>7, <2>2 DEF Prepares
  <2> QED  BY <2>1, <2>3 DEF Stage
<1>8. CASE Copies(c)
  <2>1. call[c].pc = "worktree"
    BY <1>8 DEF Copies
  <2>2. ASSUME Goes(c, "report") \/ call' = [call EXCEPT ![c].pc = "report", ![c].litters = TRUE],
               proc' = proc
        PROVE  call'[c].pc = "report" /\ Others
    BY <1>2, <2>2
  <2>3. /\ call'[c].pc \in {"report", "clean", "exec"} /\ Others
        /\ call'[c].pc = "exec" => proc'[c].watched /\ proc'[c].times
    BY <1>6, <1>8, <2>2 DEF Copies
  <2> QED  BY <2>1, <2>3 DEF Stage
<1>9. CASE CleansUp(c)
  <2>1. /\ proc' = proc /\ call[c].pc = "clean"
        /\ Goes(c, "report") \/ call' = [call EXCEPT ![c].pc = "report", ![c].litters = TRUE]
    BY <1>9 DEF CleansUp
  <2>2. call'[c].pc = "report" /\ Others
    BY <1>2, <2>1
  <2> QED  BY <2>1, <2>2 DEF Stage
<1>10. CASE Reports(c)
  <2>1. /\ proc' = proc /\ call[c].pc = "report"
        /\ Goes(c, "leave") \/ call' = [call EXCEPT ![c].pc = "leave", ![c].lost = TRUE]
    BY <1>10 DEF Reports
  <2>2. call'[c].pc = "leave" /\ Others
    BY <1>2, <2>1
  <2> QED  BY <2>1, <2>2 DEF Stage
<1>11. CASE Overflows(c) \/ Closes(c)
  <2>1. call[c].pc = "exec" /\ Ended(c)
    BY <1>1, <1>11 DEF Overflows, Closes
  <2>2. PICK pc \in {"clean", "report"} : Goes(c, pc)
    BY <2>1 DEF Ended
  <2>3. \A d \in Calls : d # c => proc'[d] = proc[d]
    BY <1>11, Settles
  <2>4. call'[c].pc = pc /\ Others
    BY <1>2, <2>2, <2>3
  <2> QED  BY <2>1, <2>2, <2>4 DEF Stage
<1>12. CASE GivesUp(c)
  <2>1. Goes(c, "done") /\ proc' = proc /\ call[c].pc = "queued"
    BY <1>12 DEF GivesUp
  <2>2. call'[c].pc = "done" /\ Others
    BY <1>2, <2>1
  <2> QED  BY <2>1, <2>2 DEF Stage
<1> QED  BY <1>3, <1>4, <1>5, <1>7, <1>8, <1>9, <1>10, <1>11, <1>12 DEF MovesOn

(* A call that leaves, and the waiter that has its slot.                   *)
LEMMA LeavesOn ==
  ASSUME Inv, NEW c \in Calls, Leaves(c)
  PROVE  /\ proc' = proc /\ Stage(call'[c].pc) < Stage(call[c].pc)
         /\ \A d \in Calls :
              \/ call'[d] = call[d]
              \/ /\ call'[d].pc \in {"done", "cwd"}
                 /\ Stage(call'[d].pc) < Stage(call[d].pc)
         /\ \A i \in DOMAIN waiters : call'[waiters[i]].pc = "queued" =>
              \E j \in DOMAIN waiters' : waiters'[j] = waiters[i]
<1>1. /\ call[c].pc = "leave" /\ proc' = proc
      /\ call \in [Calls -> CallType] /\ waiters \in Seq(Calls)
  BY DEF Leaves, Inv, TypeOK, CallType
<1>2. PICK n \in 0 .. Len(waiters) :
       /\ n = Len(waiters) \/ Admitted(n) = Limit
       /\ Admitted(n) <= Limit
       /\ waiters' = Pumped(n).behind
       /\ call' = [d \in Calls |->
                     IF d = c THEN [NewCall EXCEPT !.pc = "done"]
                     ELSE IF d \in Pumped(n).ahead THEN [call[d] EXCEPT !.pc = "cwd"]
                     ELSE call[d]]
  BY DEF Leaves
<1>3. /\ n = IF waiters = <<>> THEN 0 ELSE 1
      /\ Len(waiters) \in Nat /\ DOMAIN waiters = 1 .. Len(waiters)
      /\ Pumped(n).ahead = IF waiters = <<>> THEN {} ELSE {waiters[1]}
  BY <1>2, LetsOneIn
<1>4. \A i \in DOMAIN waiters : waiters[i] \in Calls /\ call[waiters[i]].pc = "queued"
  BY <1>1, ElementOfSeq, LenProperties DEF Inv, Queue
<1>5. waiters # <<>> => 1 \in DOMAIN waiters
  <2>1. waiters # <<>> => Len(waiters) # 0
    BY <1>1, EmptySeq
  <2> QED  BY <1>3, <2>1
<1> DEFINE ahead == Pumped(n).ahead
<1>6. \A d \in ahead : d \in Calls /\ call[d].pc = "queued" /\ d # c
  BY <1>1, <1>3, <1>4, <1>5
<1>7. /\ call'[c].pc = "done"
      /\ \A d \in ahead : call'[d].pc = "cwd"
      /\ \A d \in Calls : d # c /\ d \notin ahead => call'[d] = call[d]
  <2> DEFINE over == [NewCall EXCEPT !.pc = "done"]
             In(d) == [call[d] EXCEPT !.pc = "cwd"]
  <2>1. over.pc = "done"
    BY DEF NewCall
  <2>2. \A d \in Calls : In(d).pc = "cwd"
    BY <1>1 DEF CallType
  <2>3. call' = [d \in Calls |-> IF d = c THEN over ELSE IF d \in ahead THEN In(d) ELSE call[d]]
    BY <1>2
  <2> HIDE DEF over, In, ahead
  <2> QED  BY <1>6, <2>1, <2>2, <2>3
<1> HIDE DEF ahead
<1>8. Stage(call'[c].pc) < Stage(call[c].pc)
  BY <1>1, <1>7 DEF Stage
<1>9. ASSUME NEW d \in Calls
      PROVE  \/ call'[d] = call[d]
             \/ call'[d].pc \in {"done", "cwd"} /\ Stage(call'[d].pc) < Stage(call[d].pc)
  <2>1. CASE d = c
    BY <1>7, <1>8, <2>1
  <2>2. CASE d \in ahead
    BY <1>6, <1>7, <2>2 DEF Stage
  <2>3. CASE d # c /\ d \notin ahead
    BY <1>7, <2>3
  <2> QED  BY <2>1, <2>2, <2>3
<1>10. ASSUME NEW i \in DOMAIN waiters, call'[waiters[i]].pc = "queued"
       PROVE  \E j \in DOMAIN waiters' : waiters'[j] = waiters[i]
  <2>1. waiters # <<>> /\ n = 1 /\ waiters[1] \in ahead
    <3>1. waiters # <<>>
      BY <1>3, <1>10, EmptySeq
    <3> QED  BY <1>3, <3>1 DEF ahead
  <2>2. i # 1
    BY <1>7, <1>10, <2>1
  <2>3. /\ DOMAIN waiters' = 1 .. Len(waiters) - n
        /\ \A j \in 1 .. Len(waiters) - n : waiters'[j] = waiters[n + j]
    <3>1. waiters' = SubSeq(waiters, n + 1, Len(waiters))
      BY <1>2 DEF Pumped
    <3> QED  BY <1>1, <3>1, RestShape
  <2>4. i - 1 \in 1 .. Len(waiters) - n /\ n + (i - 1) = i
    BY <1>3, <1>10, <2>1, <2>2
  <2> QED  BY <2>3, <2>4
<1> QED  BY <1>1, <1>8, <1>9, <1>10

(* SIGTERM, SIGKILL and the end of a process use something up.             *)
LEMMA ProcsWear ==
  ASSUME Inv, NEW c \in Calls, Wears(c)
  PROVE  /\ call' = call /\ waiters' = waiters
         /\ ProcLeft(proc'[c]) < ProcLeft(proc[c])
         /\ \A d \in Calls : d # c => proc'[d] = proc[d]
         /\ proc'[c].watched = proc[c].watched
         /\ proc'[c].alive => proc[c].alive
         /\ proc'[c].alive /\ (proc[c].times \/ proc[c].timer) => proc'[c].times \/ proc'[c].timer
<1> DEFINE p == proc[c]  q == proc'[c]
<1>1. proc \in [Calls -> ProcType] /\ p \in ProcType
  BY DEF Inv, TypeOK, ProcType
<1>2. call' = call /\ waiters' = waiters /\ \A d \in Calls : d # c => proc'[d] = proc[d]
  BY <1>1 DEF Wears, AbortsWorker, TimesOut, Kills, Exits
<1>3. /\ p.listens \in BOOLEAN /\ p.times \in BOOLEAN /\ p.timer \in BOOLEAN
      /\ p.stray \in BOOLEAN /\ p.alive \in BOOLEAN
  BY <1>1 DEF ProcType
<1>4. CASE AbortsWorker(c)
  <2>1. /\ p.listens
        /\ q.listens = FALSE /\ q.times = p.times /\ q.timer = TRUE
        /\ q.stray = (p.stray \/ p.timer) /\ q.alive = p.alive /\ q.watched = p.watched
    BY <1>1, <1>4 DEF AbortsWorker, Terminated, ProcType
  <2> HIDE DEF p, q
  <2>2. ProcLeft(q) < ProcLeft(p)
    BY <1>3, <2>1 DEF ProcLeft, One
  <2> QED  BY <1>2, <2>1, <2>2 DEF p, q
<1>5. CASE TimesOut(c)
  <2>1. /\ q.listens = p.listens /\ q.times = FALSE /\ q.timer = TRUE /\ p.times
        /\ q.stray = (p.stray \/ p.timer) /\ q.alive = p.alive /\ q.watched = p.watched
    BY <1>1, <1>5 DEF TimesOut, Terminated, ProcType
  <2> HIDE DEF p, q
  <2>2. ProcLeft(q) < ProcLeft(p)
    BY <1>3, <2>1 DEF ProcLeft, One
  <2> QED  BY <1>2, <2>1, <2>2 DEF p, q
<1>6. CASE Kills(c)
  <2>1. /\ q.listens = p.listens /\ q.times = p.times /\ q.watched = p.watched
        /\ q.alive = FALSE
        /\ \/ p.timer /\ q.timer = FALSE /\ q.stray = p.stray
           \/ p.stray /\ q.stray = FALSE /\ q.timer = p.timer
    BY <1>1, <1>6 DEF Kills, ProcType
  <2> HIDE DEF p, q
  <2>2. ProcLeft(q) < ProcLeft(p)
    BY <1>3, <2>1 DEF ProcLeft, One
  <2> QED  BY <1>2, <2>1, <2>2 DEF p, q
<1>7. CASE Exits(c)
  <2>1. /\ q.listens = p.listens /\ q.times = p.times /\ q.watched = p.watched
        /\ q.timer = p.timer /\ q.stray = p.stray /\ q.alive = FALSE /\ p.alive
    BY <1>1, <1>7 DEF Exits, ProcType
  <2> HIDE DEF p, q
  <2>2. ProcLeft(q) < ProcLeft(p)
    BY <1>3, <2>1 DEF ProcLeft, One
  <2> QED  BY <1>2, <2>1, <2>2 DEF p, q
<1> QED  BY <1>4, <1>5, <1>6, <1>7 DEF Wears

(* What a step of the system is, one way or another.                       *)
LEMMA StepsSplit ==
  ASSUME [Next]_vars
  PROVE  \/ \E c \in Calls : MovesOn(c) \/ Leaves(c) \/ Wears(c)
         \/ LeaseExpires \/ UNCHANGED vars
BY DEF Next, HandlerStep, Aborts, GivesUp, AbortsWorker, MovesOn, Wears

(* Every step uses something up, so nothing goes on for ever.              *)
THEOREM NothingGoesOnForEver == Spec => NothingGoesRound
<1>1. ASSUME Inv, NEW c \in Calls, MovesOn(c)
      PROVE  Nearer(c) /\ \A d \in Calls : d # c => call'[d] = call[d] /\ proc'[d] = proc[d]
  BY <1>1, GoesOn DEF Nearer
<1>2. ASSUME Inv, NEW c \in Calls, Leaves(c)
      PROVE  Nearer(c) /\ \A d \in Calls : Nearer(d) \/ (call'[d] = call[d] /\ proc'[d] = proc[d])
  BY <1>2, LeavesOn DEF Nearer
<1>3. ASSUME Inv, NEW c \in Calls, Wears(c)
      PROVE  Nearer(c) /\ \A d \in Calls : d # c => call'[d] = call[d] /\ proc'[d] = proc[d]
  BY <1>3, ProcsWear DEF Nearer
<1>4. ASSUME Inv, LeaseExpires
      PROVE  lease # {} /\ lease' = {} /\ call' = call /\ proc' = proc
  BY <1>4 DEF LeaseExpires
<1>5. Inv /\ [Next]_vars =>
        [/\ \A c \in Calls : Nearer(c) \/ (call'[c] = call[c] /\ proc'[c] = proc[c])
         /\ (\E c \in Calls : Nearer(c)) \/ (lease # {} /\ lease' = {})]_vars
  <2> SUFFICES ASSUME Inv, [Next]_vars, ~UNCHANGED vars
               PROVE  /\ \A c \in Calls : Nearer(c) \/ (call'[c] = call[c] /\ proc'[c] = proc[c])
                      /\ (\E c \in Calls : Nearer(c)) \/ (lease # {} /\ lease' = {})
    OBVIOUS
  <2>1. (\E c \in Calls : MovesOn(c) \/ Leaves(c) \/ Wears(c)) \/ LeaseExpires
    BY StepsSplit
  <2> QED  BY <1>1, <1>2, <1>3, <1>4, <2>1
<1> QED  BY <1>5, Invariant, PTL DEF Spec, NothingGoesRound

(* A queued call stays among the waiters until it is let in or gives up.   *)
LEMMA StaysQueued ==
  ASSUME Inv, Awaited, NEW c \in Calls, MovesOn(c), NEW d \in Calls
  PROVE  Queued(d)'
<1>1. /\ \A e \in Calls : e # c => call'[e] = call[e]
      /\ call'[c].pc = "queued" => Queues(c)
  BY GoesOn
<1>2. waiters \in Seq(Calls) /\ Len(waiters) \in Nat /\ DOMAIN waiters = 1 .. Len(waiters)
  BY LenProperties DEF Inv, TypeOK
<1>3. CASE waiters' = waiters /\ ~Queues(c)
  BY <1>1, <1>3 DEF Awaited, Queued
<1>4. CASE Queues(c)
  <2>1. waiters' = Append(waiters, c)
    BY <1>4 DEF Queues
  <2>2. /\ \A i \in 1 .. Len(waiters) : waiters'[i] = waiters[i]
        /\ waiters'[Len(waiters) + 1] = c
        /\ waiters' \in Seq(Calls) /\ Len(waiters') = Len(waiters) + 1
    BY <1>2, <2>1, AppendProperties
  <2>3. DOMAIN waiters' = 1 .. Len(waiters) + 1
    BY <2>2, LenProperties
  <2>4. CASE d = c
    <3>1. Len(waiters) + 1 \in DOMAIN waiters'
      BY <1>2, <2>3
    <3> QED  BY <2>2, <2>4, <3>1 DEF Queued
  <2>5. ASSUME d # c, call'[d].pc = "queued" PROVE \E i \in DOMAIN waiters' : waiters'[i] = d
    <3>1. PICK i \in DOMAIN waiters : waiters[i] = d
      BY <1>1, <2>5 DEF Awaited, Queued
    <3>2. i \in DOMAIN waiters' /\ waiters'[i] = d
      BY <1>2, <2>2, <2>3, <3>1
    <3> QED  BY <3>2
  <2> QED  BY <2>4, <2>5 DEF Queued
<1>5. CASE GivesUp(c)
  <2>1. PICK i \in DOMAIN waiters : waiters[i] = c /\ waiters' = RemoveAt(waiters, i)
    BY <1>5 DEF GivesUp
  <2>2. /\ DOMAIN waiters' = 1 .. Len(waiters) - 1
        /\ \A j \in 1 .. Len(waiters) - 1 : waiters'[j] = IF j < i THEN waiters[j] ELSE waiters[j + 1]
    BY <1>2, <2>1, RemoveAtShape
  <2>3. call'[c].pc # "queued"
    BY <1>5, GoesType DEF GivesUp, Inv, Ins
  <2>4. ASSUME call'[d].pc = "queued" PROVE \E j \in DOMAIN waiters' : waiters'[j] = d
    <3>1. d # c
      BY <2>3, <2>4
    <3>2. PICK j \in DOMAIN waiters : waiters[j] = d
      BY <1>1, <2>4, <3>1 DEF Awaited, Queued
    <3>3. j # i
      BY <2>1, <3>1, <3>2
    <3> DEFINE k == IF j < i THEN j ELSE j - 1
    <3>4. k \in 1 .. Len(waiters) - 1 /\ waiters[j] = IF k < i THEN waiters[k] ELSE waiters[k + 1]
      BY <1>2, <3>3
    <3> HIDE DEF k
    <3> QED  BY <2>2, <3>2, <3>4
  <2> QED  BY <2>4 DEF Queued
<1>6. waiters' = waiters \/ Queues(c) \/ GivesUp(c)
  BY DEF MovesOn, Refused, Enters, ResolvesCwd, Claims, Prepares, Copies, CleansUp, Reports,
         Overflows, Closes
<1> QED  BY <1>3, <1>4, <1>5, <1>6

(* Every step keeps it.                                                    *)
LEMMA NextAwaited == Inv /\ Awaited /\ [Next]_vars => Awaited'
<1> SUFFICES ASSUME Inv, Awaited, [Next]_vars, NEW d \in Calls PROVE Queued(d)' /\ Timed(d)'
  BY DEF Awaited
<1>1. ASSUME NEW c \in Calls, MovesOn(c) PROVE Queued(d)' /\ Timed(d)'
  <2>1. /\ \A e \in Calls : e # c => call'[e] = call[e] /\ proc'[e] = proc[e]
        /\ call'[c].pc = "exec" => proc'[c].watched /\ proc'[c].times
    BY <1>1, GoesOn
  <2>2. Timed(d)'
    BY <2>1 DEF Awaited, Timed
  <2>3. Queued(d)'
    BY <1>1, StaysQueued
  <2> QED  BY <2>2, <2>3
<1>2. ASSUME NEW c \in Calls, Leaves(c) PROVE Queued(d)' /\ Timed(d)'
  <2>1. /\ proc' = proc /\ (call'[d] = call[d] \/ call'[d].pc \in {"done", "cwd"})
        /\ \A i \in DOMAIN waiters : call'[waiters[i]].pc = "queued" =>
             \E j \in DOMAIN waiters' : waiters'[j] = waiters[i]
    BY <1>2, LeavesOn
  <2>2. Timed(d)'
    BY <2>1 DEF Awaited, Timed
  <2>3. ASSUME call'[d].pc = "queued" PROVE \E j \in DOMAIN waiters' : waiters'[j] = d
    <3>1. call[d].pc = "queued"
      BY <2>1, <2>3
    <3>2. PICK i \in DOMAIN waiters : waiters[i] = d
      BY <3>1 DEF Awaited, Queued
    <3> QED  BY <2>1, <2>3, <3>2
  <2> QED  BY <2>2, <2>3 DEF Queued
<1>3. ASSUME NEW c \in Calls, Wears(c) PROVE Queued(d)' /\ Timed(d)'
  <2>1. /\ call' = call /\ waiters' = waiters
        /\ \A e \in Calls : e # c => proc'[e] = proc[e]
        /\ proc'[c].watched = proc[c].watched /\ (proc'[c].alive => proc[c].alive)
        /\ proc'[c].alive /\ (proc[c].times \/ proc[c].timer) => proc'[c].times \/ proc'[c].timer
    BY <1>3, ProcsWear
  <2>2. Queued(d)'
    BY <2>1 DEF Awaited, Queued
  <2>3. Timed(d)'
    <3>1. CASE d = c
      BY <2>1, <3>1 DEF Awaited, Timed
    <3>2. CASE d # c
      BY <2>1, <3>2 DEF Awaited, Timed
    <3> QED  BY <3>1, <3>2
  <2> QED  BY <2>2, <2>3
<1>4. CASE LeaseExpires \/ UNCHANGED vars
  BY <1>4 DEF LeaseExpires, vars, Awaited, Queued, Timed
<1> QED  BY <1>1, <1>2, <1>3, <1>4, StepsSplit

(* As long as a call is under way, one of the steps that FairSpec calls    *)
(* fair can be taken: its guard is one of those that SomebodyActs lists.   *)
(* With NothingGoesOnForEver this is what EveryCallReturns rests on.       *)
THEOREM NobodyWaitsForNobody == Spec => []SomebodyActs
<1>1. Init => Awaited
  BY DEF Init, NewCall, Awaited, Queued, Timed
<1>2. ASSUME Inv, Awaited, NEW c \in Calls, call[c].pc \notin {"new", "done"}
      PROVE  \E d \in Calls :
               \/ call[d].pc \in Ins \ {"exec"}
               \/ proc[d].watched /\ ~proc[d].alive
               \/ proc[d].times \/ proc[d].timer
  <2>1. ASSUME NEW d \in Calls, call[d].pc \in Ins
        PROVE  \/ call[d].pc \in Ins \ {"exec"}
               \/ proc[d].watched /\ ~proc[d].alive
               \/ proc[d].times \/ proc[d].timer
    BY <1>2, <2>1 DEF Awaited, Timed
  <2>2. call[c].pc \in Ins \cup {"queued"}
    <3>1. call[c].pc \in {"new", "queued", "cwd", "claim", "preflight", "worktree", "exec", "clean",
                          "report", "leave", "done"}
      BY <1>2 DEF Inv, TypeOK
    <3> QED  BY <1>2, <3>1 DEF Ins
  <2>3. ASSUME call[c].pc = "queued" PROVE \E d \in Calls : call[d].pc \in Ins
    <3>1. PICK i \in DOMAIN waiters : waiters[i] = c
      BY <1>2, <2>3 DEF Awaited, Queued
    <3>2. waiters # <<>>
      BY <3>1
    <3>3. Cardinality(Inside) = Limit /\ Limit # 0
      BY <1>2, <3>2, CodingAssumption DEF Inv, NoIdleSlot
    <3>4. Inside # {}
      BY <3>3, FS_EmptySet
    <3> QED  BY <3>4 DEF Inside, Ins
  <2> QED  BY <1>2, <2>1, <2>2, <2>3
<1>3. Inv /\ Awaited => SomebodyActs
  BY <1>2 DEF SomebodyActs
<1> QED  BY <1>1, <1>3, Invariant, NextAwaited, PTL DEF Spec
=============================================================================
