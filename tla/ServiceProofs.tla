--------------------------- MODULE ServiceProofs ---------------------------
(***************************************************************************)
(* Theorems about the event log and the settings, for any number of runs,  *)
(* events, programs and ends.                                              *)
(*                                                                         *)
(* The argument for the log: an event is known by its number, and numbers  *)
(* grow along each file, along the chain of appends, and from a file to    *)
(* the chain (InOrder).  An event is waiting in the chain, is lost, or has *)
(* a whole line (Accounted).  A whole line is found by a reader unless the *)
(* piece before it is none.  All steps that take an append from the chain  *)
(* do it from its head (OldestSettles); the steps of programs and launchd  *)
(* do nothing to the log, but for the end of the process (LogSteps).       *)
(*                                                                         *)
(* The argument for the settings (SettingsInv): a program that is not alone*)
(* leaves everything in doubt (CompanyDoubts), so that only a program that *)
(* is alone has anything to preserve, and it knows what the files hold     *)
(* (Knows): the wizard has read the env file that is there, holds what it  *)
(* writes, and has written to the list what the env file has.  All copies  *)
(* agree with the env file, or, while that is being written and is empty,  *)
(* with what the program holds that writes it (CopiesAgree).  What is      *)
(* written has the key its driver needs (WizardHasKey), whole or broken    *)
(* off (TornHasKey).  Focus reduces a step of a program to the case that it*)
(* is alone.                                                               *)
(***************************************************************************)
EXTENDS Service, SequenceTheorems, TLAPS

Inks == {"line", "bare", "part"}

Calls == [run : Runs, seq : 1 .. MaxEvents]

(* Numbers grow from the oldest piece of a file to the latest append.      *)
InOrder ==
  /\ \A r \in Runs : \A i \in DOMAIN file[r] : file[r][i].seq <= called[r]
  /\ \A r \in Runs : \A i, j \in DOMAIN file[r] : i < j => file[r][i].seq < file[r][j].seq
  /\ \A j \in DOMAIN chain : chain[j].seq <= called[chain[j].run]
  /\ \A i, j \in DOMAIN chain :
       i < j /\ chain[i].run = chain[j].run => chain[i].seq < chain[j].seq
  /\ \A j \in DOMAIN chain : \A i \in DOMAIN file[chain[j].run] :
       file[chain[j].run][i].seq < chain[j].seq

Waits(r, n) == \E i \in DOMAIN chain : chain[i].run = r /\ chain[i].seq = n

HasLine(r, n) == \E i \in DOMAIN file[r] : file[r][i].seq = n /\ file[r][i].ink = "line"

(* Every event that was handed over is waiting, lost, or has its line.     *)
Accounted ==
  \A r \in Runs : \A n \in 1 .. called[r] : n \in lost[r] \/ Waits(r, n) \/ HasLine(r, n)

LogInv == LogTypeOK /\ InOrder /\ Accounted

-----------------------------------------------------------------------------
(* Sequences *)

(* What is left of a sequence without its first element.                   *)
LEMMA TailShape ==
  ASSUME NEW S, NEW s \in Seq(S), s # <<>>
  PROVE  /\ Tail(s) \in Seq(S) /\ DOMAIN Tail(s) = 1 .. Len(s) - 1
         /\ \A i \in 1 .. Len(s) - 1 : Tail(s)[i] = s[i + 1] /\ i + 1 \in DOMAIN s
         /\ Head(s) = s[1] /\ 1 \in DOMAIN s /\ s[1] \in S
         /\ \A i \in DOMAIN s : i # 1 => i - 1 \in DOMAIN Tail(s) /\ Tail(s)[i - 1] = s[i]
BY EmptySeq, HeadTailProperties, LenProperties, ElementOfSeq

(* A sequence with one element more.                                       *)
LEMMA AppendShape ==
  ASSUME NEW S, NEW s \in Seq(S), NEW e \in S
  PROVE  /\ Append(s, e) \in Seq(S) /\ DOMAIN Append(s, e) = 1 .. Len(s) + 1
         /\ \A i \in DOMAIN s : Append(s, e)[i] = s[i] /\ i \in DOMAIN Append(s, e)
         /\ \A i \in 1 .. Len(s) + 1 : i \in DOMAIN s \/ i = Len(s) + 1
         /\ Append(s, e)[Len(s) + 1] = e
         /\ DOMAIN s = 1 .. Len(s) /\ Len(s) \in Nat
BY AppendProperties, LenProperties

-----------------------------------------------------------------------------
(* The log *)

LEMMA InitLog == Init => LogInv
<1> SUFFICES ASSUME Init PROVE LogInv
  OBVIOUS
<1>1. \A S : <<>> \in Seq(S) /\ DOMAIN <<>> = {}
  BY EmptySeq, LenProperties
<1>2. LogTypeOK
  BY <1>1, EventLogAssumption DEF Init, LogInit, LogTypeOK
<1> QED  BY <1>1, <1>2 DEF Init, LogInit, LogInv, InOrder, Accounted

(* Files are made of pieces. *)
LEMMA PiecesOfFiles ==
  ASSUME LogTypeOK, NEW r \in Runs, NEW i \in DOMAIN file[r]
  PROVE  file[r][i] \in Piece /\ file[r][i].seq \in Nat
<1>1. file[r] \in Seq(Piece)
  BY DEF LogTypeOK
<1>2. i \in 1 .. Len(file[r])
  BY <1>1, LenProperties
<1>3. file[r][i] \in Piece
  BY <1>1, <1>2, ElementOfSeq
<1> QED  BY <1>3, EventLogAssumption DEF Piece

(* The chain is made of calls. *)
LEMMA CallsOfChain ==
  ASSUME LogTypeOK, NEW i \in DOMAIN chain
  PROVE  chain[i] \in Calls /\ chain[i].seq \in Nat /\ chain[i].run \in Runs
<1>1. chain \in Seq(Calls)
  BY DEF LogTypeOK, Calls
<1>2. i \in 1 .. Len(chain)
  BY <1>1, LenProperties
<1>3. chain[i] \in Calls
  BY <1>1, <1>2, ElementOfSeq
<1> QED  BY <1>3, EventLogAssumption DEF Calls

(* append() hands over the next event of a run.                            *)
LEMMA NextAppended ==
  ASSUME LogInv, NEW r \in Runs, Appends(r)
  PROVE  LogInv'
<1> DEFINE e == [run |-> r, seq |-> called[r] + 1]
<1>1. /\ called \in [Runs -> 0 .. MaxEvents] /\ called[r] \in 0 .. MaxEvents
      /\ called[r] < MaxEvents /\ MaxEvents \in Nat /\ called' = [called EXCEPT ![r] = @ + 1]
      /\ file' = file /\ lost' = lost /\ over' = over /\ made' = made
      /\ chain' = Append(chain, e) /\ chain \in Seq(Calls)
  BY EventLogAssumption DEF LogInv, LogTypeOK, Appends, Calls
<1>2. e \in Calls
  BY <1>1 DEF Calls
<1>3. /\ called' \in [Runs -> 0 .. MaxEvents] /\ called'[r] = called[r] + 1
      /\ \A q \in Runs : q # r => called'[q] = called[q]
      /\ \A q \in Runs : called[q] \in Nat /\ called[q] <= called'[q]
  BY <1>1
<1>4. LogTypeOK'
  BY <1>1, <1>2, <1>3, AppendShape DEF LogInv, LogTypeOK, Calls
<1>5. /\ DOMAIN chain' = 1 .. Len(chain) + 1 /\ DOMAIN chain = 1 .. Len(chain) /\ Len(chain) \in Nat
      /\ \A i \in DOMAIN chain : chain'[i] = chain[i] /\ i \in DOMAIN chain' /\ chain[i] \in Calls
      /\ chain'[Len(chain) + 1] = e /\ e.run = r /\ e.seq = called[r] + 1
  BY <1>1, <1>2, AppendShape, ElementOfSeq
<1> HIDE DEF e
<1>6. \A q \in Runs : \A i \in DOMAIN file[q] : file[q][i].seq \in Nat
  BY PiecesOfFiles DEF LogInv
<1>7. \A i \in DOMAIN chain : chain[i].seq \in Nat /\ chain[i].run \in Runs
  BY CallsOfChain DEF LogInv
<1>8. InOrder'
  <2>1. \A q \in Runs : \A i \in DOMAIN file'[q] : file'[q][i].seq <= called'[q]
    BY <1>1, <1>3, <1>6 DEF LogInv, InOrder
  <2>2. \A j \in DOMAIN chain' : chain'[j].seq <= called'[chain'[j].run]
    BY <1>3, <1>5, <1>7 DEF LogInv, InOrder
  <2>3. \A i, j \in DOMAIN chain' :
          i < j /\ chain'[i].run = chain'[j].run => chain'[i].seq < chain'[j].seq
    <3> SUFFICES ASSUME NEW i \in DOMAIN chain', NEW j \in DOMAIN chain',
                        i < j, chain'[i].run = chain'[j].run
                 PROVE  chain'[i].seq < chain'[j].seq
      OBVIOUS
    <3>1. i \in DOMAIN chain
      BY <1>5
    <3>2. CASE j \in DOMAIN chain
      BY <3>1, <3>2, <1>5 DEF LogInv, InOrder
    <3>3. CASE j = Len(chain) + 1
      <4>1. chain[i].run = r /\ chain[i].seq <= called[r]
        BY <3>1, <3>3, <1>5 DEF LogInv, InOrder
      <4> QED  BY <4>1, <3>1, <3>3, <1>1, <1>5, <1>7
    <3> QED  BY <3>2, <3>3, <1>5
  <2>4. \A j \in DOMAIN chain' : \A i \in DOMAIN file'[chain'[j].run] :
          file'[chain'[j].run][i].seq < chain'[j].seq
    <3> SUFFICES ASSUME NEW j \in DOMAIN chain', NEW i \in DOMAIN file[chain'[j].run]
                 PROVE  file[chain'[j].run][i].seq < chain'[j].seq
      BY <1>1
    <3>1. CASE j \in DOMAIN chain
      BY <3>1, <1>5 DEF LogInv, InOrder
    <3>2. CASE j = Len(chain) + 1
      <4>1. file[r][i].seq <= called[r] /\ file[r][i].seq \in Nat
        BY <3>2, <1>5, <1>6 DEF LogInv, InOrder
      <4> QED  BY <4>1, <3>2, <1>1, <1>5
    <3> QED  BY <3>1, <3>2, <1>5
  <2> QED  BY <1>1, <2>1, <2>2, <2>3, <2>4 DEF LogInv, InOrder
<1>9. Accounted'
  <2> SUFFICES ASSUME NEW q \in Runs, NEW n \in 1 .. called'[q]
               PROVE  n \in lost'[q] \/ Waits(q, n)' \/ HasLine(q, n)'
    BY DEF Accounted
  <2>1. CASE n \in 1 .. called[q]
    BY <2>1, <1>1, <1>5 DEF LogInv, Accounted, Waits, HasLine
  <2>2. CASE n \notin 1 .. called[q]
    <3>1. q = r /\ n = called[r] + 1
      BY <2>2, <1>1, <1>3
    <3>2. Len(chain) + 1 \in DOMAIN chain'
      BY <1>5
    <3> QED  BY <3>1, <3>2, <1>5 DEF Waits
  <2> QED  BY <2>1, <2>2
<1> QED  BY <1>4, <1>8, <1>9 DEF LogInv

(* What a write has left: the file without or with a piece more.           *)
Left(call, inks) == {file} \cup {Written(call, ink) : ink \in inks}

(* What that means for a file: its pieces stay, and one more comes after   *)
(* them, of the oldest append.                                             *)
LEMMA FileGrows ==
  ASSUME LogInv, chain # <<>>, file' \in Left(Head(chain), Inks)
  PROVE  /\ file' \in [Runs -> Seq(Piece)]
         /\ \A q \in Runs : \A i \in DOMAIN file[q] :
              i \in DOMAIN file'[q] /\ file'[q][i] = file[q][i]
         /\ \A q \in Runs : \A i \in DOMAIN file'[q] :
              \/ i \in DOMAIN file[q]
              \/ Head(chain).run = q /\ file'[q][i].seq = Head(chain).seq
         /\ \A q \in Runs : \A i \in DOMAIN file'[q] : file'[q][i].seq <= called[q]
         /\ \A q \in Runs : \A i, j \in DOMAIN file'[q] :
              i < j => file'[q][i].seq < file'[q][j].seq
<1> DEFINE c == Head(chain)  r == c.run
<1>1. /\ chain \in Seq(Calls) /\ file \in [Runs -> Seq(Piece)]
      /\ c = chain[1] /\ 1 \in DOMAIN chain /\ c.run = r
  BY TailShape DEF LogInv, LogTypeOK, Calls
<1>2. r \in Runs /\ c.seq \in 1 .. MaxEvents /\ c.seq <= called[r]
  BY <1>1, CallsOfChain DEF LogInv, InOrder, Calls
<1>3. PICK ink \in Inks : file' = file \/ file' = Written(c, ink)
  BY DEF Left, Inks
<1> DEFINE piece == [seq |-> c.seq, ink |-> ink]
           new == Append(file[r], piece)
<1>4. file' = file \/ file' = [file EXCEPT ![r] = new]
  BY <1>3 DEF Written
<1>5. piece \in Piece /\ piece.seq = c.seq
  BY <1>2 DEF Piece, Inks
<1>6. /\ new \in Seq(Piece) /\ DOMAIN new = 1 .. Len(file[r]) + 1
      /\ \A i \in DOMAIN file[r] : new[i] = file[r][i] /\ i \in DOMAIN new
      /\ \A i \in 1 .. Len(file[r]) + 1 : i \in DOMAIN file[r] \/ i = Len(file[r]) + 1
      /\ new[Len(file[r]) + 1] = piece
      /\ DOMAIN file[r] = 1 .. Len(file[r]) /\ Len(file[r]) \in Nat
  <2> HIDE DEF c, r, piece
  <2> QED  BY <1>1, <1>2, <1>5, AppendShape
<1> HIDE DEF c, piece, r, new
<1>7. \A q \in Runs : file'[q] = file[q] \/ (q = r /\ file'[r] = new)
  BY <1>1, <1>2, <1>4
<1>8. file' \in [Runs -> Seq(Piece)]
  BY <1>1, <1>2, <1>4, <1>6
<1>9. \A q \in Runs : \A i \in DOMAIN file[q] : i \in DOMAIN file'[q] /\ file'[q][i] = file[q][i]
  BY <1>6, <1>7
<1>10. \A q \in Runs : \A i \in DOMAIN file'[q] :
         \/ i \in DOMAIN file[q]
         \/ q = r /\ file'[q][i] = piece /\ \A k \in DOMAIN file'[q] : k # i => k < i
  BY <1>6, <1>7
<1>11. \A i \in DOMAIN file[r] : file[r][i].seq < c.seq
  BY <1>1, <1>2 DEF LogInv, InOrder
<1>12. ASSUME NEW q \in Runs, NEW i \in DOMAIN file'[q]
       PROVE  file'[q][i].seq <= called[q]
  BY <1>2, <1>5, <1>9, <1>10 DEF LogInv, InOrder
<1>13. ASSUME NEW q \in Runs, NEW i \in DOMAIN file'[q], NEW j \in DOMAIN file'[q], i < j
       PROVE  file'[q][i].seq < file'[q][j].seq
  <2>1. i \in Nat /\ j \in Nat
    BY <1>8, LenProperties
  <2>2. i \in DOMAIN file[q]
    BY <2>1, <1>10, <1>13
  <2>3. CASE j \in DOMAIN file[q]
    BY <2>2, <2>3, <1>9, <1>13 DEF LogInv, InOrder
  <2>4. CASE j \notin DOMAIN file[q]
    BY <2>2, <2>4, <1>5, <1>9, <1>10, <1>11
  <2> QED  BY <2>3, <2>4
<1> QED  BY <1>5, <1>8, <1>9, <1>10, <1>12, <1>13 DEF c, r

(* The oldest append settles: with its line, or lost with what it has left.*)
LEMMA OldestSettles ==
  ASSUME LogInv, chain # <<>>, chain' = Tail(chain), called' = called,
         over' \in SUBSET Runs, made' \in {"no", "yes", "refused"},
         \/ file' = Written(Head(chain), "line") /\ lost' = lost
         \/ file' \in Left(Head(chain), Inks) /\ Loses(Head(chain))
  PROVE  LogInv'
<1> DEFINE c == Head(chain)
<1>1. /\ chain \in Seq(Calls) /\ called \in [Runs -> 0 .. MaxEvents]
      /\ file \in [Runs -> Seq(Piece)] /\ lost \in [Runs -> SUBSET (1 .. MaxEvents)]
  BY DEF LogInv, LogTypeOK, Calls
<1>2. /\ chain' \in Seq(Calls)
      /\ \A i \in DOMAIN chain' : chain'[i] = chain[i + 1] /\ i + 1 \in DOMAIN chain /\ i \in Nat
      /\ \A i \in DOMAIN chain : i # 1 => i - 1 \in DOMAIN chain' /\ chain'[i - 1] = chain[i]
      /\ c = chain[1] /\ 1 \in DOMAIN chain
  BY <1>1, TailShape
<1>3. c.run \in Runs /\ c.seq \in 1 .. MaxEvents
  BY <1>2, CallsOfChain DEF LogInv, Calls
<1>4. \/ lost' = lost /\ file' = [file EXCEPT ![c.run] = Append(@, [seq |-> c.seq, ink |-> "line"])]
      \/ lost' = [lost EXCEPT ![c.run] = @ \cup {c.seq}]
  BY DEF Loses, Written
<1>5. file' \in Left(c, Inks)
  BY DEF Left, Inks
<1>6. /\ file' \in [Runs -> Seq(Piece)]
      /\ \A q \in Runs : \A i \in DOMAIN file[q] : i \in DOMAIN file'[q] /\ file'[q][i] = file[q][i]
      /\ \A q \in Runs : \A i \in DOMAIN file'[q] :
           i \in DOMAIN file[q] \/ (c.run = q /\ file'[q][i].seq = c.seq)
      /\ \A q \in Runs : \A i \in DOMAIN file'[q] : file'[q][i].seq <= called[q]
      /\ \A q \in Runs : \A i, j \in DOMAIN file'[q] :
           i < j => file'[q][i].seq < file'[q][j].seq
  BY <1>5, FileGrows
<1> HIDE DEF c
<1>7. lost' \in [Runs -> SUBSET (1 .. MaxEvents)] /\ \A q \in Runs : lost[q] \subseteq lost'[q]
  <2>1. lost[c.run] \cup {c.seq} \in SUBSET (1 .. MaxEvents)
    BY <1>1, <1>3
  <2> QED  BY <2>1, <1>1, <1>3, <1>4
<1>8. LogTypeOK'
  BY <1>1, <1>2, <1>6, <1>7 DEF LogTypeOK, Calls
<1>9. InOrder'
  <2>1. ASSUME NEW j \in DOMAIN chain'
        PROVE  chain'[j].seq <= called'[chain'[j].run]
    BY <1>2 DEF LogInv, InOrder
  <2>2. ASSUME NEW i \in DOMAIN chain', NEW j \in DOMAIN chain',
               i < j, chain'[i].run = chain'[j].run
        PROVE  chain'[i].seq < chain'[j].seq
    <3>1. i \in Nat /\ j \in Nat
      BY <1>2
    <3>2. i + 1 < j + 1
      BY <3>1, <2>2
    <3> QED  BY <3>2, <2>2, <1>2 DEF LogInv, InOrder
  <2>3. ASSUME NEW j \in DOMAIN chain', NEW i \in DOMAIN file'[chain'[j].run]
        PROVE  file'[chain'[j].run][i].seq < chain'[j].seq
    <3>1. j + 1 \in DOMAIN chain /\ chain'[j] = chain[j + 1] /\ 1 < j + 1
      <4>1. j \in 1 .. Len(chain')
        BY <1>2, LenProperties
      <4> QED  BY <4>1, <1>2
    <3>2. chain'[j].run \in Runs
      BY <3>1, CallsOfChain DEF LogInv
    <3>3. CASE i \in DOMAIN file[chain'[j].run]
      <4>1. file[chain'[j].run][i].seq < chain'[j].seq
        BY <3>1, <3>3 DEF LogInv, InOrder
      <4> QED  BY <4>1, <3>2, <3>3, <1>6
    <3>4. CASE i \notin DOMAIN file[chain'[j].run]
      <4>1. c.run = chain'[j].run /\ file'[chain'[j].run][i].seq = c.seq
        BY <3>2, <3>4, <1>6
      <4>2. c.seq < chain'[j].seq
        BY <4>1, <3>1, <1>2 DEF LogInv, InOrder
      <4> QED  BY <4>1, <4>2
    <3> QED  BY <3>3, <3>4
  <2> QED  BY <2>1, <2>2, <2>3, <1>6 DEF InOrder
<1>10. \/ c.seq \in lost'[c.run]
       \/ \E k \in DOMAIN file'[c.run] :
            file'[c.run][k].seq = c.seq /\ file'[c.run][k].ink = "line"
  <2>1. CASE lost' = [lost EXCEPT ![c.run] = @ \cup {c.seq}]
    BY <2>1, <1>1, <1>3
  <2>2. CASE file' = [file EXCEPT ![c.run] = Append(@, [seq |-> c.seq, ink |-> "line"])]
    <3> DEFINE line == [seq |-> c.seq, ink |-> "line"]
    <3>1. line \in Piece /\ line.seq = c.seq /\ line.ink = "line"
      BY <1>3 DEF Piece
    <3>2. file'[c.run] = Append(file[c.run], line) /\ file[c.run] \in Seq(Piece)
      BY <2>2, <1>1, <1>3
    <3> HIDE DEF line
    <3>3. Len(file[c.run]) + 1 \in DOMAIN file'[c.run]
          /\ file'[c.run][Len(file[c.run]) + 1] = line
      BY <3>1, <3>2, AppendShape
    <3> QED  BY <3>1, <3>3
  <2> QED  BY <2>1, <2>2, <1>4
<1>11. Accounted'
  <2> SUFFICES ASSUME NEW q \in Runs, NEW n \in 1 .. called[q]
               PROVE  n \in lost'[q] \/ Waits(q, n)' \/ HasLine(q, n)'
    BY DEF Accounted
  <2>1. CASE n \in lost[q]
    BY <2>1, <1>7
  <2>2. CASE Waits(q, n)
    <3>1. PICK i \in DOMAIN chain : chain[i].run = q /\ chain[i].seq = n
      BY <2>2 DEF Waits
    <3>2. CASE i = 1
      <4>1. q = c.run /\ n = c.seq
        BY <3>1, <3>2, <1>2
      <4> QED  BY <4>1, <1>10 DEF HasLine
    <3>3. CASE i # 1
      BY <3>1, <3>3, <1>2 DEF Waits
    <3> QED  BY <3>2, <3>3
  <2>3. CASE HasLine(q, n)
    BY <2>3, <1>6 DEF HasLine
  <2> QED  BY <2>1, <2>2, <2>3 DEF LogInv, Accounted
<1> QED  BY <1>8, <1>9, <1>11 DEF LogInv

(* The directory is made, or will not be.                                  *)
LEMMA NextDirectory ==
  ASSUME LogInv, MakesDirectory
  PROVE  LogInv'
<1>1. CASE made' = "yes" /\ UNCHANGED <<chain, lost>>
  BY <1>1 DEF MakesDirectory, LogInv, LogTypeOK, InOrder, Accounted, Waits, HasLine
<1>2. CASE made' = "refused" /\ Loses(Head(chain)) /\ chain' = Tail(chain)
  BY <1>2, OldestSettles DEF MakesDirectory, LogInv, LogTypeOK, Left
<1> QED  BY <1>1, <1>2 DEF MakesDirectory

(* Every step of the log.                                                  *)
LEMMA NextLog == ASSUME LogInv, LogStep PROVE LogInv'
<1>1. CASE Refused
  BY <1>1, OldestSettles DEF Refused, LogInv, LogTypeOK, Left
<1>2. CASE Writes
  BY <1>2, OldestSettles DEF Writes, LogInv, LogTypeOK, Left, Inks
<1> QED  BY <1>1, <1>2, NextAppended, NextDirectory DEF LogStep

(* The process ends: nothing waits any more, and what has waited is lost.  *)
LEMMA NextEnds == ASSUME LogInv, LogEnds PROVE LogInv'
<1> DEFINE gone(r) == {chain[i].seq : i \in {j \in DOMAIN chain : chain[j].run = r}}
<1>1. /\ chain' = <<>> /\ made' = "no" /\ called' = called
      /\ lost' = [r \in Runs |-> lost[r] \cup gone(r)]
      /\ over' = over \cup {r \in Runs : called[r] > 0}
      /\ file' = file \/ (chain # <<>> /\ file' \in Left(Head(chain), Inks))
  BY DEF LogEnds, Left, Inks
<1>2. \A S : <<>> \in Seq(S) /\ DOMAIN <<>> = {}
  BY EmptySeq, LenProperties
<1>3. \A i \in DOMAIN chain : chain[i].run \in Runs /\ chain[i].seq \in 1 .. MaxEvents
  BY CallsOfChain DEF LogInv, Calls
<1>4. lost' \in [Runs -> SUBSET (1 .. MaxEvents)]
  BY <1>1, <1>3 DEF LogInv, LogTypeOK
<1>5. /\ file' \in [Runs -> Seq(Piece)]
      /\ \A q \in Runs : \A i \in DOMAIN file[q] : i \in DOMAIN file'[q] /\ file'[q][i] = file[q][i]
      /\ \A q \in Runs : \A i \in DOMAIN file'[q] : file'[q][i].seq <= called[q]
      /\ \A q \in Runs : \A i, j \in DOMAIN file'[q] :
           i < j => file'[q][i].seq < file'[q][j].seq
  <2>1. CASE file' = file
    BY <2>1 DEF LogInv, LogTypeOK, InOrder
  <2>2. CASE chain # <<>> /\ file' \in Left(Head(chain), Inks)
    BY <2>2, FileGrows
  <2> QED  BY <2>1, <2>2, <1>1
<1>6. LogTypeOK'
  BY <1>1, <1>2, <1>4, <1>5 DEF LogInv, LogTypeOK
<1>7. InOrder'
  BY <1>1, <1>2, <1>5 DEF InOrder
<1>8. Accounted'
  <2> SUFFICES ASSUME NEW q \in Runs, NEW n \in 1 .. called[q]
               PROVE  n \in lost'[q] \/ HasLine(q, n)'
    BY <1>1 DEF Accounted
  <2>1. CASE Waits(q, n)
    BY <2>1, <1>1 DEF Waits
  <2>2. CASE HasLine(q, n)
    BY <2>2, <1>5 DEF HasLine
  <2>3. CASE n \in lost[q]
    BY <2>3, <1>1
  <2> QED  BY <2>1, <2>2, <2>3 DEF LogInv, Accounted
<1> QED  BY <1>6, <1>7, <1>8 DEF LogInv

-----------------------------------------------------------------------------
(* Programs, launchd and the log *)

(* Whoever takes a step does nothing to the log, takes a step of it, or    *)
(* ends the process that keeps it.                                         *)
LEMMA LogSteps == ASSUME [Next]_vars PROVE LogStep \/ LogEnds \/ UNCHANGED logVars
<1>1. ASSUME NEW p \in Ids, ProgramStep(p)
      PROVE  LogEnds \/ UNCHANGED logVars
  BY <1>1 DEF ProgramStep, Begins, Answered, EmptiesFile, WritesFile, Offers, Collects,
       EmptiesPlist, WritesPlist, BootsOut, BootsUp, Removes, Examines, DaemonGoes,
       unchangedByPrompts
<1>2. CASE Starts \/ Dies \/ LogsIn \/ Logs
  BY <1>2 DEF Starts, Dies, LogsIn, Logs, DaemonGoes
<1>3. CASE UNCHANGED vars
  BY <1>3 DEF vars
<1> QED  BY <1>1, <1>2, <1>3 DEF Next

(* Every step of the whole leaves the log in order.                        *)
LEMMA NextLogInv == ASSUME LogInv, [Next]_vars PROVE LogInv'
<1>1. CASE UNCHANGED logVars
  BY <1>1 DEF logVars, LogInv, LogTypeOK, InOrder, Accounted, Waits, HasLine
<1> QED  BY <1>1, LogSteps, NextLog, NextEnds

(* A reader misses no line but those after a line broken off.              *)
LEMMA LogIsKept == ASSUME LogInv PROVE LogKept
<1> SUFFICES ASSUME NEW r \in Runs
             PROVE  LET f == file[r]
                        found == {f[i].seq : i \in Readable(f)}
                        pending == {chain[i].seq : i \in {j \in DOMAIN chain : chain[j].run = r}}
                        glued == {f[i].seq : i \in {j \in DOMAIN f : j > 1 /\ f[j - 1].ink # "line"}}
                    IN /\ \A i, j \in Readable(f) : i < j => f[i].seq < f[j].seq
                       /\ 1 .. called[r] \subseteq found \cup lost[r] \cup pending \cup glued
  BY DEF LogKept
<1> DEFINE f == file[r]
<1>1. Readable(f) \subseteq DOMAIN f
  BY DEF Readable
<1>2. \A i, j \in Readable(f) : i < j => f[i].seq < f[j].seq
  BY <1>1 DEF LogInv, InOrder
<1>3. ASSUME NEW n \in 1 .. called[r], n \notin lost[r], ~Waits(r, n)
      PROVE  \E i \in DOMAIN f :
               f[i].seq = n /\ (i \in Readable(f) \/ (i > 1 /\ f[i - 1].ink # "line"))
  <2>1. PICK i \in DOMAIN f : f[i].seq = n /\ f[i].ink = "line"
    BY <1>3 DEF LogInv, Accounted, HasLine
  <2>2. (i > 1 /\ f[i - 1].ink # "line") \/ i \in Readable(f)
    BY <2>1 DEF Readable
  <2> QED  BY <2>1, <2>2
<1> QED  BY <1>2, <1>3 DEF Waits

(* What a reader finds of a run is in the order of its events and complete *)
(* but for failures, whatever the number of runs, events, programs and     *)
(* deaths of the daemon (append() and read() of eventlog.ts).              *)
THEOREM LogSound == Spec => []LogKept
<1>1. LogInv => LogKept
  BY LogIsKept
<1>2. LogInv /\ [Next]_vars => LogInv'
  BY NextLogInv
<1> QED  BY <1>1, <1>2, InitLog, PTL DEF Spec

-----------------------------------------------------------------------------
(* The settings *)

(* The settings that a program or the daemon has are settings.             *)
LEMMA DefaultsType ==
  ASSUME NEW a \in Settings, NEW b \in Settings
  PROVE  /\ Defaults(a, b) \in Settings
         /\ Defaults(a, b).token = IF a.token # 0 THEN a.token ELSE b.token
         /\ Defaults(a, b).driver = IF a.driver # "none" THEN a.driver ELSE b.driver
         /\ Defaults(a, b).key = IF a.key # 0 THEN a.key ELSE b.key
<1> DEFINE d == Defaults(a, b)
<1>1. DOMAIN d = {"token", "driver", "key"}
  BY DEF Defaults, Keys
<1>2. d["token"] = IF a["token"] # 0 THEN a["token"] ELSE b["token"]
  BY DEF Defaults, Keys, None
<1>3. d["driver"] = IF a["driver"] # "none" THEN a["driver"] ELSE b["driver"]
  BY DEF Defaults, Keys, None
<1>4. d["key"] = IF a["key"] # 0 THEN a["key"] ELSE b["key"]
  BY DEF Defaults, Keys, None
<1>5. d = [k \in {"token", "driver", "key"} |-> d[k]]
  BY DEF Defaults, Keys
<1> HIDE DEF d
<1>6. d["token"] \in 0 .. Half /\ d["key"] \in 0 .. Half
      /\ d["driver"] \in {"none", "ollama", "openrouter", "half"}
  BY <1>2, <1>3, <1>4 DEF Settings
<1>7. d \in Settings
  BY <1>1, <1>5, <1>6 DEF Settings
<1> QED  BY <1>2, <1>3, <1>4, <1>7 DEF d

Pcs == Over \cup {"new", "read", "write", "writing", "offer", "collect",
                  "write plist", "writing plist", "boot out", "boot up", "remove", "doctor"}

ProgramType == [pc : Pcs, kind : Commands, shell : Shells, seen : Settings, own : Settings,
                alone : BOOLEAN]

(* What is about to be written to the property list has a token, and so    *)
(* has the list.                                                           *)
ListHasToken ==
  \A p \in Ids : prog[p].pc \in {"write plist", "writing plist"} => prog[p].own.token # 0

CopiesType ==
  /\ envFile \in Settings
  /\ \A copy \in {plist, loaded, daemon} : copy \in Settings /\ (copy # None => copy.token # 0)
  /\ daemon # None => daemon.token = loaded.token

SettingsType ==
  /\ prog \in [Ids -> ProgramType] /\ ListHasToken
  /\ CopiesType
  /\ doubt \subseteq Keys
  /\ ends \in 0 .. MaxEnds

(* Names of tokens and keys are numbers, and none of them is 0.            *)
LEMMA Numbers ==
  /\ Programs \in Nat /\ MaxEnds \in Nat /\ Half \in Nat /\ FromShell \in 0 .. Half
  /\ \A p \in Ids : p \in 0 .. Half /\ p # 0
  /\ 0 \in 0 .. Half /\ Half \in 0 .. Half /\ Half # 0 /\ FromShell # 0
BY ServiceAssumption DEF Half, FromShell, Ids

(* No settings are settings, too, and what a shell exports are.            *)
LEMMA NoneType ==
  /\ None \in Settings /\ None.token = 0 /\ None.key = 0 /\ None.driver = "none"
  /\ Shells \subseteq Settings /\ None \in Shells /\ NewProgram \in ProgramType
  /\ NewProgram.pc = "new" /\ NewProgram.alone = FALSE
BY Numbers DEF None, Settings, Shells, NewProgram, ProgramType, Pcs, Commands

(* A program that only goes on.                                            *)
LEMMA GoesType ==
  ASSUME SettingsType, NEW p \in Ids, NEW pc \in Pcs, Goes(p, pc),
         pc \in {"write plist", "writing plist"} => prog[p].own.token # 0
  PROVE  /\ prog' \in [Ids -> ProgramType] /\ ListHasToken'
         /\ \A q \in Ids : q # p => prog'[q] = prog[q]
         /\ prog'[p].pc = pc /\ prog'[p].own = prog[p].own /\ prog'[p].seen = prog[p].seen
         /\ prog'[p].kind = prog[p].kind /\ prog'[p].alone = prog[p].alone
BY DEF SettingsType, Goes, ProgramType, ListHasToken

(* One that holds something to write.                                      *)
LEMMA HoldsType ==
  ASSUME SettingsType, NEW p \in Ids, NEW pc \in Pcs, NEW own \in Settings, Holds(p, pc, own),
         pc \in {"write plist", "writing plist"} => own.token # 0
  PROVE  /\ prog' \in [Ids -> ProgramType] /\ ListHasToken'
         /\ \A q \in Ids : q # p => prog'[q] = prog[q]
         /\ prog'[p].pc = pc /\ prog'[p].own = own /\ prog'[p].seen = prog[p].seen
         /\ prog'[p].kind = prog[p].kind /\ prog'[p].alone = prog[p].alone
BY DEF SettingsType, Holds, ProgramType, ListHasToken

(* One that ends.                                                          *)
LEMMA EndsType ==
  ASSUME SettingsType, NEW p \in Ids, NEW pc \in Over, Ends(p, pc)
  PROVE  /\ prog' \in [Ids -> ProgramType] /\ ListHasToken'
         /\ \A q \in Ids : q # p => prog'[q] = prog[q]
         /\ prog'[p].pc = pc /\ ~UnderWay(p)'
<1>1. [NewProgram EXCEPT !.pc = pc] \in ProgramType
  BY NoneType DEF ProgramType, Pcs, Over
<1>2. [NewProgram EXCEPT !.pc = pc].pc = pc
  BY NoneType DEF NewProgram
<1> QED  BY <1>1, <1>2 DEF SettingsType, Ends, ListHasToken, UnderWay, Over

(* What a program has for settings.                                        *)
LEMMA EnvType == ASSUME SettingsType, NEW p \in Ids PROVE Env(p) \in Settings
<1>1. prog[p].shell \in Settings /\ prog[p].seen \in Settings
  BY NoneType DEF SettingsType, ProgramType
<1> QED  BY <1>1, DefaultsType DEF Env

(* The installation is over.                                               *)
LEMMA InstalledType ==
  ASSUME SettingsType, NEW p \in Ids, NEW pc \in Over, Installed(p, pc)
  PROVE  /\ prog' \in [Ids -> ProgramType] /\ ListHasToken'
         /\ \A q \in Ids : q # p => prog'[q] = prog[q]
         /\ \/ /\ prog[p].kind = "setup"
               /\ prog'[p] = [prog[p] EXCEPT !.pc = "doctor", !.seen = Refreshed(p)]
            \/ prog'[p].pc = pc /\ ~UnderWay(p)'
<1>1. CASE prog[p].kind = "setup"
  <2>1. Refreshed(p) \in Settings
    BY DefaultsType DEF Refreshed, SettingsType, ProgramType
  <2> DEFINE x == [prog[p] EXCEPT !.pc = "doctor", !.seen = Refreshed(p)]
  <2>2. prog' = [prog EXCEPT ![p] = x] /\ prog \in [Ids -> ProgramType]
    BY <1>1 DEF Installed, SettingsType
  <2>3. x \in ProgramType
    <3>1. prog[p] \in ProgramType /\ "doctor" \in Pcs
      BY DEF SettingsType, Pcs
    <3>2. [prog[p] EXCEPT !.pc = "doctor"] \in ProgramType
      BY <3>1 DEF ProgramType
    <3> QED  BY <2>1, <3>1, <3>2 DEF ProgramType
  <2>4. x.pc = "doctor" /\ x.own = prog[p].own
    BY DEF SettingsType, ProgramType
  <2>5. prog'[p] = x /\ \A q \in Ids : q # p => prog'[q] = prog[q]
    BY <2>2
  <2>6. prog' \in [Ids -> ProgramType]
    BY <2>2, <2>3
  <2>7. ListHasToken'
    BY <2>4, <2>5 DEF SettingsType, ListHasToken
  <2> QED  BY <1>1, <2>5, <2>6, <2>7
<1>2. CASE prog[p].kind # "setup"
  BY <1>2, EndsType DEF Installed
<1> QED  BY <1>1, <1>2

-----------------------------------------------------------------------------
(* Agreement *)

Alone(p) == UnderWay(p) /\ prog[p].alone

(* A program that is not alone leaves everything in doubt.                 *)
CompanyDoubts ==
  \A p \in Ids : UnderWay(p) =>
    IF prog[p].alone THEN \A q \in Ids : UnderWay(q) => q = p ELSE doubt = Keys

(* The steps that only the wizard takes.                                   *)
WizardSteps == {"read", "write", "writing", "offer"}

WizardInstalls(p) ==
  /\ prog[p].kind = "setup"
  /\ prog[p].pc \in {"collect", "write plist", "writing plist", "boot out", "boot up"}

(* What the wizard is about to write has the key that it needs.            *)
WizardHasKey ==
  \A p \in Ids :
    /\ prog[p].pc \in WizardSteps => prog[p].kind = "setup"
    /\ prog[p].pc \in {"write", "writing"} => HasKey(prog[p].own)

(* A setting of a copy is that of s.                                       *)
Agrees(copy, s, k) == copy[k] # None[k] => copy[k] = s[k]

(* If a copy says OpenRouter, it has a key, or s has.                      *)
Keyed(copy, s) == copy.driver = "openrouter" => copy.key # 0 \/ s.key # 0

(* What a program that is alone knows of the env file and of the list.     *)
Knows(p) ==
  LET me == prog[p] IN
  /\ me.pc \in {"read", "write", "doctor"} => me.seen = envFile
  /\ me.pc = "write" => me.own.token = envFile.token \/ envFile.token = 0
  /\ me.pc = "writing" => envFile = None
  /\ me.pc \in {"write", "writing", "offer"} \/ WizardInstalls(p) =>
       /\ me.own.token # 0 /\ me.own.driver # "none"
       /\ me.own.key = 0 => me.seen.key = 0
  /\ me.pc = "offer" \/ WizardInstalls(p) => me.own = envFile
  /\ WizardInstalls(p) /\ me.pc \in {"boot out", "boot up"} => plist = me.own
  /\ me.pc \in {"write plist", "writing plist"} =>
       /\ \A k \in Keys \ doubt : Agrees(me.own, envFile, k)
       /\ "key" \notin doubt => Keyed(me.own, envFile)

AloneKnows == \A p \in Ids : Alone(p) => Knows(p)

(* Copies agree with settings s, but for what is in doubt.                 *)
Agreement(list, copy, running, unsure, s) ==
  /\ \A k \in Keys \ unsure : \A c \in {list, copy, running} : Agrees(c, s, k)
  /\ "key" \notin unsure => \A c \in {list, copy} : Keyed(c, s)

AgreeWith(s) == Agreement(plist, loaded, daemon, doubt, s)

(* The copies agree with the env file, or with the one that will replace it*)
(* while it is being written.                                              *)
CopiesAgree ==
  /\ (\A p \in Ids : prog[p].pc # "writing") => AgreeWith(envFile)
  /\ \A p \in Ids : prog[p].pc = "writing" => AgreeWith(prog[p].own)

Sound == CompanyDoubts /\ WizardHasKey /\ AloneKnows /\ CopiesAgree

SettingsInv == SettingsType /\ HasKey(envFile) /\ Sound

(* What the copies agree with, as far as p has a say.                      *)
Target(p) == IF prog[p].pc = "writing" THEN prog[p].own ELSE envFile

(* When everything is in doubt, everything agrees.                         *)
LEMMA AllInDoubt ==
  ASSUME NEW list, NEW copy, NEW running, NEW s
  PROVE  Agreement(list, copy, running, Keys, s)
BY DEF Agreement, Keys

(* Copies that go, or are loaded from the list, leave an agreement.        *)
LEMMA LessAgrees ==
  ASSUME NEW list, NEW copy, NEW running, NEW unsure, NEW s,
         Agreement(list, copy, running, unsure, s),
         NEW list2 \in {list, None}, NEW copy2 \in {copy, list, None},
         NEW running2 \in {running, None}, NEW unsure2, unsure \subseteq unsure2
  PROVE  Agreement(list2, copy2, running2, unsure2, s)
BY NoneType DEF Agreement, Agrees, Keyed, Keys

(* A program that is alone knows with what the copies agree.               *)
LEMMA AloneAgrees ==
  ASSUME SettingsInv, NEW p \in Ids, Alone(p)
  PROVE  Knows(p) /\ AgreeWith(Target(p)) /\ \A q \in Ids : UnderWay(q) => q = p
<1>1. \A q \in Ids : UnderWay(q) => q = p
  BY DEF SettingsInv, Sound, CompanyDoubts, Alone
<1>2. \A q \in Ids : prog[q].pc = "writing" => q = p
  BY <1>1 DEF UnderWay, Over
<1>3. AgreeWith(Target(p))
  BY <1>2 DEF SettingsInv, Sound, CopiesAgree, Target
<1> QED  BY <1>1, <1>3 DEF SettingsInv, Sound, AloneKnows

(* A step of one program: what must be shown when it is alone, and nothing *)
(* when it is not.                                                         *)
LEMMA Focus ==
  ASSUME SettingsInv, NEW p \in Ids, UnderWay(p),
         \A q \in Ids : q # p => prog'[q] = prog[q],
         prog'[p].alone = prog[p].alone \/ ~UnderWay(p)',
         ~prog[p].alone => doubt' = Keys,
         prog'[p].pc \in WizardSteps => prog'[p].kind = "setup",
         prog'[p].pc \in {"write", "writing"} => HasKey(prog'[p].own),
         Alone(p) => Knows(p)' \/ ~UnderWay(p)',
         Alone(p) => AgreeWith(Target(p))'
  PROVE  Sound'
<1>1. \A q \in Ids : q # p => (UnderWay(q)' <=> UnderWay(q))
  BY DEF UnderWay
<1>2. CompanyDoubts'
  <2>1. CASE Alone(p)
    BY <2>1, <1>1, AloneAgrees DEF CompanyDoubts, Alone
  <2>2. CASE ~Alone(p)
    <3>1. doubt' = Keys
      BY <2>2 DEF Alone
    <3>2. \A q \in Ids : UnderWay(q) => ~prog[q].alone
      BY <2>2 DEF SettingsInv, Sound, CompanyDoubts, Alone
    <3> QED  BY <3>1, <3>2, <1>1 DEF CompanyDoubts
  <2> QED  BY <2>1, <2>2
<1>3. WizardHasKey'
  BY DEF SettingsInv, Sound, WizardHasKey
<1>4. CASE Alone(p)
  <2>1. \A q \in Ids : q # p => ~UnderWay(q) /\ ~UnderWay(q)' /\ prog'[q].pc # "writing"
    BY <1>1, <1>4, AloneAgrees DEF UnderWay, Over
  <2>2. AloneKnows'
    BY <1>4, <2>1 DEF AloneKnows, Alone
  <2>3. CopiesAgree'
    BY <1>4, <2>1 DEF CopiesAgree, Target
  <2> QED  BY <1>2, <1>3, <2>2, <2>3 DEF Sound
<1>5. CASE ~Alone(p)
  <2>1. doubt' = Keys /\ \A q \in Ids : UnderWay(q) => ~prog[q].alone
    BY <1>5 DEF SettingsInv, Sound, CompanyDoubts, Alone
  <2>2. \A q \in Ids : ~Alone(q)'
    BY <2>1, <1>1 DEF Alone
  <2>3. CopiesAgree'
    BY <2>1, AllInDoubt DEF CopiesAgree, AgreeWith
  <2> QED  BY <1>2, <1>3, <2>2, <2>3 DEF Sound, AloneKnows
<1> QED  BY <1>4, <1>5

-----------------------------------------------------------------------------
(* The steps of the programs *)

(* Whatever the answers, what the wizard is about to write has a token, a  *)
(* driver, and the key for it.                                             *)
LEMMA AnswersAreWhole ==
  ASSUME SettingsType, HasKey(envFile), NEW p \in Ids,
         NEW brain \in OllamaBrain(envFile) \cup SameBrain(envFile) \cup OpenRouterBrain(p, envFile)
  PROVE  LET own == [brain EXCEPT !.token = TokenFor(p, envFile)]
         IN /\ own \in Settings /\ HasKey(own)
            /\ own.token # 0 /\ (own.token = envFile.token \/ envFile.token = 0)
            /\ own.driver # "none"
            /\ own.key = 0 => envFile.key = 0
<1>1. envFile \in Settings /\ Env(p) \in Settings /\ p \in 0 .. Half /\ p # 0
  BY EnvType, Numbers DEF SettingsType, CopiesType
<1>2. /\ brain \in Settings /\ brain.driver # "none" /\ HasKey(brain)
      /\ brain.key = 0 => envFile.key = 0
  <2>1. CASE brain \in OllamaBrain(envFile)
    BY <1>1, <2>1 DEF OllamaBrain, HasKey, Settings
  <2>2. CASE brain \in SameBrain(envFile)
    BY <1>1, <2>2 DEF SameBrain, HasKey, Settings
  <2>3. CASE brain \in OpenRouterBrain(p, envFile)
    <3> DEFINE existing == IF envFile.key # 0 THEN envFile.key ELSE Env(p).key
    <3>1. CASE brain = [envFile EXCEPT !.driver = "ollama"]
      BY <1>1, <3>1 DEF HasKey, Settings
    <3>2. CASE \E k \in {existing, p} \ {0} :
                 brain = [envFile EXCEPT !.driver = "openrouter", !.key = k]
      <4>1. existing \in 0 .. Half
        BY <1>1 DEF Settings
      <4> QED  BY <1>1, <3>2, <4>1 DEF HasKey, Settings
    <3> QED  BY <2>3, <3>1, <3>2 DEF OpenRouterBrain
  <2> QED  BY <2>1, <2>2, <2>3
<1>3. /\ TokenFor(p, envFile) \in 0 .. Half /\ TokenFor(p, envFile) # 0
      /\ TokenFor(p, envFile) = envFile.token \/ envFile.token = 0
  <2>1. envFile.token \in 0 .. Half /\ Env(p).token \in 0 .. Half
    BY <1>1 DEF Settings
  <2> QED  BY <1>1, <2>1 DEF TokenFor
<1> QED  BY <1>2, <1>3 DEF HasKey, Settings

(* The wizard has its answers, and nothing is written yet.                 *)
LEMMA NextAnswered ==
  ASSUME SettingsInv, NEW p \in Ids, Answered(p)
  PROVE  SettingsInv'
<1>1. PICK brain \in OllamaBrain(envFile) \cup SameBrain(envFile) \cup OpenRouterBrain(p, envFile) :
        Holds(p, "write", [brain EXCEPT !.token = TokenFor(p, envFile)])
  BY DEF Answered
<1>2. PICK own \in Settings :
        /\ Holds(p, "write", own) /\ HasKey(own)
        /\ own.token # 0 /\ (own.token = envFile.token \/ envFile.token = 0)
        /\ own.driver # "none"
        /\ own.key = 0 => envFile.key = 0
  BY <1>1, AnswersAreWhole DEF SettingsInv
<1>3. Holds(p, "write", own)
  BY <1>2
<1>4. /\ prog[p].pc = "read" /\ envFile' = envFile /\ plist' = plist /\ loaded' = loaded
      /\ daemon' = daemon /\ doubt' = doubt /\ ends' = ends /\ UnderWay(p)
  BY DEF Answered, unchangedByPrompts, UnderWay, Over
<1>5. /\ prog' \in [Ids -> ProgramType] /\ ListHasToken'
      /\ \A q \in Ids : q # p => prog'[q] = prog[q]
      /\ prog'[p].pc = "write" /\ prog'[p].own = own /\ prog'[p].seen = prog[p].seen
      /\ prog'[p].kind = prog[p].kind /\ prog'[p].alone = prog[p].alone
  <2>1. "write" \in Pcs /\ "write" \notin {"write plist", "writing plist"}
    BY DEF Pcs
  <2> QED  BY <2>1, <1>3, HoldsType DEF SettingsInv
<1>7. SettingsType' /\ HasKey(envFile)'
  BY <1>4, <1>5 DEF SettingsInv, SettingsType, CopiesType
<1>8. ASSUME Alone(p) PROVE Knows(p)' /\ AgreeWith(Target(p))'
  <2>1. Knows(p) /\ AgreeWith(envFile)
    BY <1>4, <1>8, AloneAgrees DEF Target
  <2>2. AgreeWith(Target(p))'
    BY <2>1, <1>4, <1>5 DEF AgreeWith, Target
  <2>3. Knows(p)'
    BY <2>1, <1>2, <1>4, <1>5 DEF Knows, WizardInstalls
  <2> QED  BY <2>2, <2>3
<1>9. ~prog[p].alone => doubt' = Keys
  BY <1>4 DEF SettingsInv, Sound, CompanyDoubts
<1>10. prog[p].kind = "setup"
  BY <1>4 DEF SettingsInv, Sound, WizardHasKey, WizardSteps
<1>11. Sound'
  BY <1>2, <1>4, <1>5, <1>8, <1>9, <1>10, Focus
<1> QED  BY <1>7, <1>11 DEF SettingsInv

(* The env file goes, and the copies agree with what will replace it: what *)
(* the user has changed is put in doubt.                                   *)
LEMMA NextEmptiesFile ==
  ASSUME SettingsInv, NEW p \in Ids, EmptiesFile(p)
  PROVE  SettingsInv'
<1>1. /\ prog[p].pc = "write" /\ envFile' = None /\ plist' = plist /\ loaded' = loaded
      /\ daemon' = daemon /\ ends' = ends /\ UnderWay(p) /\ Goes(p, "writing")
      /\ doubt' = doubt \cup {k \in {"driver", "key"} : prog[p].own[k] # envFile[k]}
  BY DEF EmptiesFile, UnderWay, Over
<1>2. /\ prog' \in [Ids -> ProgramType] /\ ListHasToken'
      /\ \A q \in Ids : q # p => prog'[q] = prog[q]
      /\ prog'[p].pc = "writing" /\ prog'[p].own = prog[p].own /\ prog'[p].seen = prog[p].seen
      /\ prog'[p].kind = prog[p].kind /\ prog'[p].alone = prog[p].alone
  <2>1. "writing" \in Pcs /\ "writing" \notin {"write plist", "writing plist"}
    BY DEF Pcs
  <2> QED  BY <1>1, <2>1, GoesType DEF SettingsInv
<1>3. HasKey(prog[p].own) /\ prog[p].kind = "setup"
  BY <1>1 DEF SettingsInv, Sound, WizardHasKey, WizardSteps
<1>4. SettingsType' /\ HasKey(envFile)'
  BY <1>1, <1>2, NoneType DEF SettingsInv, SettingsType, CopiesType, Keys, HasKey
<1>5. ASSUME Alone(p) PROVE Knows(p)' /\ AgreeWith(Target(p))'
  <2>1. Knows(p) /\ AgreeWith(envFile)
    BY <1>1, <1>5, AloneAgrees DEF Target
  <2>2. Knows(p)'
    BY <2>1, <1>1, <1>2 DEF Knows, WizardInstalls
  <2>3. ASSUME NEW k \in Keys \ doubt', NEW copy \in {plist, loaded, daemon}
        PROVE  Agrees(copy, prog[p].own, k)
    <3>1. Agrees(copy, envFile, k)
      BY <2>1, <1>1 DEF AgreeWith, Agreement
    <3>2. CASE k = "token"
      BY <3>1, <3>2, <2>1, <1>1, NoneType DEF Agrees, Knows
    <3>3. CASE k \in {"driver", "key"}
      BY <3>1, <3>3, <1>1 DEF Agrees
    <3> QED  BY <3>2, <3>3 DEF Keys
  <2>4. ASSUME "key" \notin doubt', NEW list \in {plist, loaded}
        PROVE  Keyed(list, prog[p].own)
    <3>1. Keyed(list, envFile) /\ prog[p].own.key = envFile.key
      BY <2>1, <2>4, <1>1 DEF AgreeWith, Agreement
    <3> QED  BY <3>1 DEF Keyed
  <2> QED  BY <2>2, <2>3, <2>4, <1>1, <1>2 DEF AgreeWith, Agreement, Target
<1>6. ~prog[p].alone => doubt' = Keys
  BY <1>1, <1>4 DEF SettingsInv, Sound, CompanyDoubts, SettingsType
<1>7. Sound'
  BY <1>1, <1>2, <1>3, <1>5, <1>6, Focus
<1> QED  BY <1>4, <1>7 DEF SettingsInv

(* A write that breaks off leaves settings, and a driver only with its key.*)
LEMMA TornHasKey ==
  ASSUME NEW own \in Settings, HasKey(own), NEW torn \in Torn(own)
  PROVE  torn \in Settings /\ HasKey(torn)
BY NoneType, Numbers DEF Torn, HasKey, Settings

(* The env file is what was to be written, or the half of it, and then     *)
(* nothing is certain.                                                     *)
LEMMA NextWritesFile ==
  ASSUME SettingsInv, NEW p \in Ids, WritesFile(p)
  PROVE  SettingsInv'
<1> DEFINE own == prog[p].own
<1>1. /\ prog[p].pc = "writing" /\ plist' = plist /\ loaded' = loaded /\ daemon' = daemon
      /\ ends' = ends /\ UnderWay(p) /\ own \in Settings /\ HasKey(own)
      /\ prog[p].kind = "setup"
  BY DEF WritesFile, UnderWay, Over, SettingsInv, SettingsType, ProgramType, Sound, WizardHasKey,
         WizardSteps
<1>2. CASE envFile' = own /\ Goes(p, "offer") /\ doubt' = doubt
  <2>1. /\ prog' \in [Ids -> ProgramType] /\ ListHasToken'
        /\ \A q \in Ids : q # p => prog'[q] = prog[q]
        /\ prog'[p].pc = "offer" /\ prog'[p].own = own /\ prog'[p].seen = prog[p].seen
        /\ prog'[p].kind = prog[p].kind /\ prog'[p].alone = prog[p].alone
    <3>1. "offer" \in Pcs /\ "offer" \notin {"write plist", "writing plist"}
      BY DEF Pcs
    <3> QED  BY <1>2, <3>1, GoesType DEF SettingsInv
  <2>2. SettingsType' /\ HasKey(envFile)'
    BY <1>1, <1>2, <2>1 DEF SettingsInv, SettingsType, CopiesType
  <2>3. ASSUME Alone(p) PROVE Knows(p)' /\ AgreeWith(Target(p))'
    <3>1. Knows(p) /\ AgreeWith(own)
      BY <1>1, <2>3, AloneAgrees DEF Target
    <3>2. Knows(p)'
      BY <3>1, <1>1, <1>2, <2>1 DEF Knows, WizardInstalls
    <3> QED  BY <3>1, <3>2, <1>1, <1>2, <2>1 DEF AgreeWith, Target
  <2>4. ~prog[p].alone => doubt' = Keys
    BY <1>1, <1>2 DEF SettingsInv, Sound, CompanyDoubts
  <2>5. Sound'
    BY <1>1, <2>1, <2>3, <2>4, Focus
  <2> QED  BY <2>2, <2>5 DEF SettingsInv
<1>3. CASE envFile' \in Torn(own) /\ Ends(p, "failed") /\ doubt' = Keys
  <2>1. /\ prog' \in [Ids -> ProgramType] /\ ListHasToken'
        /\ \A q \in Ids : q # p => prog'[q] = prog[q]
        /\ prog'[p].pc = "failed" /\ ~UnderWay(p)'
    BY <1>3, EndsType DEF SettingsInv, Over
  <2>2. SettingsType' /\ HasKey(envFile)'
    BY <1>1, <1>3, <2>1, TornHasKey DEF SettingsInv, SettingsType, CopiesType
  <2>3. AgreeWith(Target(p))'
    BY <1>3, AllInDoubt DEF AgreeWith
  <2>4. Sound'
    BY <1>1, <1>3, <2>1, <2>3, Focus DEF WizardSteps
  <2> QED  BY <2>2, <2>4 DEF SettingsInv
<1> QED  BY <1>2, <1>3 DEF WritesFile

(* Settings are what their fields are.                                     *)
LEMMA SameSettings ==
  ASSUME NEW a \in Settings, NEW b \in Settings,
         a.token = b.token, a.driver = b.driver, a.key = b.key
  PROVE  a = b
BY DEF Settings

(* The end of an installation: the wizard that was alone goes on to the    *)
(* doctor with the settings of the env file.                               *)
LEMMA InstalledSound ==
  ASSUME SettingsInv, NEW p \in Ids, NEW pc \in Over, Installed(p, pc),
         prog[p].pc \in {"offer", "collect", "write plist", "writing plist", "boot up"},
         envFile' = envFile, ~prog[p].alone => doubt' = Keys,
         Alone(p) => AgreeWith(envFile)'
  PROVE  prog' \in [Ids -> ProgramType] /\ ListHasToken' /\ Sound'
<1>1. UnderWay(p)
  BY DEF UnderWay, Over
<1>2. /\ prog' \in [Ids -> ProgramType] /\ ListHasToken'
      /\ \A q \in Ids : q # p => prog'[q] = prog[q]
      /\ \/ /\ prog[p].kind = "setup"
            /\ prog'[p] = [prog[p] EXCEPT !.pc = "doctor", !.seen = Refreshed(p)]
         \/ prog'[p].pc = pc /\ ~UnderWay(p)'
  BY InstalledType DEF SettingsInv
<1>3. CASE prog'[p].pc = pc /\ ~UnderWay(p)'
  <2>1. prog'[p].pc \notin WizardSteps /\ prog'[p].pc # "writing"
    BY <1>3 DEF Over, WizardSteps
  <2>2. Alone(p) => AgreeWith(Target(p))'
    BY <2>1 DEF Target
  <2>3. Sound'
    BY <1>1, <1>2, <1>3, <2>1, <2>2, Focus DEF WizardSteps
  <2> QED  BY <1>2, <2>3
<1>4. CASE /\ prog[p].kind = "setup"
           /\ prog'[p] = [prog[p] EXCEPT !.pc = "doctor", !.seen = Refreshed(p)]
  <2>1. /\ prog'[p].pc = "doctor" /\ prog'[p].seen = Refreshed(p)
        /\ prog'[p].kind = prog[p].kind /\ prog'[p].alone = prog[p].alone
    <3>1. prog[p] \in ProgramType
      BY DEF SettingsInv, SettingsType
    <3> QED  BY <1>4, <3>1 DEF ProgramType
  <2>2. Alone(p) => AgreeWith(Target(p))'
    BY <2>1 DEF Target
  <2>3. ASSUME Alone(p) PROVE Knows(p)'
    <3>1. /\ prog[p].own = envFile /\ envFile.token # 0 /\ envFile.driver # "none"
          /\ envFile.key = 0 => prog[p].seen.key = 0
      BY <1>4, <2>3, AloneAgrees DEF Knows, WizardInstalls
    <3>2. envFile \in Settings /\ prog[p].seen \in Settings
      BY DEF SettingsInv, SettingsType, CopiesType, ProgramType
    <3>3. Refreshed(p) = envFile
      <4> DEFINE new == Defaults(envFile, prog[p].seen)
      <4>1. /\ new \in Settings /\ new.token = envFile.token /\ new.driver = envFile.driver
            /\ new.key = envFile.key
        BY <3>1, <3>2, DefaultsType
      <4>2. Refreshed(p) = new
        BY <3>1 DEF Refreshed
      <4> HIDE DEF new
      <4> QED  BY <4>1, <4>2, <3>2, SameSettings
    <3> QED  BY <2>1, <3>3 DEF Knows, WizardInstalls
  <2>4. Sound'
    BY <1>1, <1>2, <2>1, <2>2, <2>3, Focus DEF WizardSteps
  <2> QED  BY <1>2, <2>4
<1> QED  BY <1>2, <1>3, <1>4

(* The offer to install: taken or not, the env file stays.                 *)
LEMMA NextOffers ==
  ASSUME SettingsInv, NEW p \in Ids, Offers(p)
  PROVE  SettingsInv'
<1>1. /\ prog[p].pc = "offer" /\ UnderWay(p) /\ prog[p].kind = "setup"
      /\ envFile' = envFile /\ plist' = plist /\ loaded' = loaded
      /\ daemon' = daemon /\ ends' = ends /\ doubt' = doubt
  BY DEF Offers, unchangedByPrompts, UnderWay, Over, SettingsInv, Sound, WizardHasKey, WizardSteps
<1>2. ~prog[p].alone => doubt' = Keys
  BY <1>1 DEF SettingsInv, Sound, CompanyDoubts
<1>3. Alone(p) => AgreeWith(envFile)'
  BY <1>1, AloneAgrees DEF AgreeWith, Target
<1>4. prog' \in [Ids -> ProgramType] /\ ListHasToken' /\ Sound'
  <2>1. CASE Installed(p, "done")
    BY <1>1, <1>2, <1>3, <2>1, InstalledSound DEF Over
  <2>2. CASE Goes(p, "collect")
    <3>1. /\ prog' \in [Ids -> ProgramType] /\ ListHasToken'
          /\ \A q \in Ids : q # p => prog'[q] = prog[q]
          /\ prog'[p].pc = "collect" /\ prog'[p].own = prog[p].own /\ prog'[p].seen = prog[p].seen
          /\ prog'[p].kind = prog[p].kind /\ prog'[p].alone = prog[p].alone
      <4>1. "collect" \in Pcs /\ "collect" \notin {"write plist", "writing plist"}
        BY DEF Pcs
      <4> QED  BY <2>2, <4>1, GoesType DEF SettingsInv
    <3>2. Alone(p) => Knows(p)'
      BY <1>1, <3>1, AloneAgrees DEF Knows, WizardInstalls
    <3>3. Alone(p) => AgreeWith(Target(p))'
      BY <1>3, <3>1 DEF Target
    <3> QED  BY <1>1, <1>2, <3>1, <3>2, <3>3, Focus DEF WizardSteps
  <2> QED  BY <2>1, <2>2 DEF Offers
<1> QED  BY <1>1, <1>4 DEF SettingsInv, SettingsType, CopiesType

(* What is collected is the env file's, but for what is put in doubt; and  *)
(* what a wizard that is alone collects is the env file's.                 *)
LEMMA CollectedIs ==
  ASSUME SettingsInv, NEW p \in Ids
  PROVE  /\ Collected(p) \in Settings
         /\ Collected(p).key = 0 \/ Collected(p).key = envFile.key
         /\ Alone(p) /\ prog[p].pc = "collect" /\ prog[p].kind = "setup" =>
              Collected(p) = envFile /\ prog[p].own = envFile
<1> DEFINE own == [Env(p) EXCEPT !.key = 0]
           new == Defaults(envFile, own)
<1>1. envFile \in Settings /\ Env(p) \in Settings
  BY EnvType DEF SettingsInv, SettingsType, CopiesType
<1>2. own \in Settings /\ own.key = 0
  BY <1>1, Numbers DEF Settings
<1>3. Collected(p) = IF prog[p].kind = "install" THEN own ELSE new
  BY DEF Collected
<1>4. /\ new \in Settings
      /\ new.token = IF envFile.token # 0 THEN envFile.token ELSE own.token
      /\ new.driver = IF envFile.driver # "none" THEN envFile.driver ELSE own.driver
      /\ new.key = IF envFile.key # 0 THEN envFile.key ELSE own.key
  <2> HIDE DEF own
  <2> QED  BY <1>1, <1>2, DefaultsType
<1> HIDE DEF own, new
<1>5. ASSUME Alone(p), prog[p].pc = "collect", prog[p].kind = "setup"
      PROVE  Collected(p) = envFile /\ prog[p].own = envFile
  <2>1. prog[p].own = envFile /\ envFile.token # 0 /\ envFile.driver # "none"
    BY <1>5, AloneAgrees DEF Knows, WizardInstalls
  <2>2. new.token = envFile.token /\ new.driver = envFile.driver /\ new.key = envFile.key
    BY <1>2, <1>4, <2>1
  <2> QED  BY <1>1, <1>3, <1>4, <1>5, <2>1, <2>2, SameSettings
<1> QED  BY <1>2, <1>3, <1>4, <1>5

(* What is collected for the list is the env file's, or is put in doubt.   *)
LEMMA NextCollects ==
  ASSUME SettingsInv, NEW p \in Ids, Collects(p)
  PROVE  SettingsInv'
<1>1. /\ prog[p].pc = "collect" /\ UnderWay(p)
      /\ envFile' = envFile /\ plist' = plist /\ loaded' = loaded
      /\ daemon' = daemon /\ ends' = ends
  BY DEF Collects, UnderWay, Over
<1>2. Alone(p) => AgreeWith(envFile)
  BY <1>1, AloneAgrees DEF Target
<1>3. CASE Installed(p, "failed") /\ doubt' = doubt
  <2>1. ~prog[p].alone => doubt' = Keys
    BY <1>1, <1>3 DEF SettingsInv, Sound, CompanyDoubts
  <2>2. Alone(p) => AgreeWith(envFile)'
    BY <1>1, <1>2, <1>3 DEF AgreeWith
  <2>3. prog' \in [Ids -> ProgramType] /\ ListHasToken' /\ Sound'
    BY <1>1, <1>3, <2>1, <2>2, InstalledSound DEF Over
  <2> QED  BY <1>1, <1>3, <2>3 DEF SettingsInv, SettingsType, CopiesType
<1>4. CASE /\ Collected(p).token # 0
           /\ Holds(p, "write plist", Collected(p))
           /\ doubt' = doubt
                \cup (IF Collected(p).token # envFile.token THEN {"token"} ELSE {})
                \cup (IF Collected(p).driver # envFile.driver THEN {"driver", "key"} ELSE {})
  <2>1. PICK own \in Settings :
          /\ own.token # 0 /\ Holds(p, "write plist", own) /\ own = Collected(p)
          /\ own.key = 0 \/ own.key = envFile.key
          /\ Alone(p) /\ prog[p].kind = "setup" => own = envFile /\ prog[p].own = envFile
          /\ doubt' = doubt \cup (IF own.token # envFile.token THEN {"token"} ELSE {})
                \cup (IF own.driver # envFile.driver THEN {"driver", "key"} ELSE {})
    BY <1>1, <1>4, CollectedIs
  <2>2. /\ prog' \in [Ids -> ProgramType] /\ ListHasToken'
        /\ \A q \in Ids : q # p => prog'[q] = prog[q]
        /\ prog'[p].pc = "write plist" /\ prog'[p].own = own /\ prog'[p].seen = prog[p].seen
        /\ prog'[p].kind = prog[p].kind /\ prog'[p].alone = prog[p].alone
    <3>1. "write plist" \in Pcs
      BY DEF Pcs
    <3> QED  BY <2>1, <3>1, HoldsType DEF SettingsInv
  <2>3. doubt' \subseteq Keys /\ doubt \subseteq doubt'
    BY <2>1 DEF SettingsInv, SettingsType, Keys
  <2>4. SettingsType' /\ HasKey(envFile)'
    BY <1>1, <2>2, <2>3 DEF SettingsInv, SettingsType, CopiesType
  <2>5. ~prog[p].alone => doubt' = Keys
    BY <1>1, <2>3 DEF SettingsInv, Sound, CompanyDoubts
  <2>6. ASSUME Alone(p) PROVE AgreeWith(Target(p))'
    <3>1. Agreement(plist, loaded, daemon, doubt', envFile)
      BY <1>2, <2>3, <2>6, LessAgrees DEF AgreeWith
    <3> QED  BY <3>1, <1>1, <2>2 DEF AgreeWith, Target
  <2>7. ASSUME Alone(p) PROVE Knows(p)'
    <3>1. \A k \in Keys \ doubt' : Agrees(own, envFile, k)
      BY <2>1, NoneType DEF Agrees, Keys
    <3>2. "key" \notin doubt' => Keyed(own, envFile)
      BY <2>1 DEF Keyed, SettingsInv, HasKey
    <3>3. prog[p].kind = "setup" =>
            /\ own = envFile /\ own.token # 0 /\ own.driver # "none"
            /\ own.key = 0 => prog[p].seen.key = 0
      BY <1>1, <2>1, <2>7, AloneAgrees DEF Knows, WizardInstalls
    <3> QED  BY <1>1, <2>2, <3>1, <3>2, <3>3 DEF Knows, WizardInstalls
  <2>8. Sound'
    BY <1>1, <2>2, <2>5, <2>6, <2>7, Focus DEF WizardSteps
  <2> QED  BY <2>4, <2>8 DEF SettingsInv
<1> QED  BY <1>3, <1>4 DEF Collects

(* The list goes: one copy less.                                           *)
LEMMA NextEmptiesPlist ==
  ASSUME SettingsInv, NEW p \in Ids, EmptiesPlist(p)
  PROVE  SettingsInv'
<1>1. /\ prog[p].pc = "write plist" /\ UnderWay(p) /\ Goes(p, "writing plist")
      /\ envFile' = envFile /\ plist' = None /\ loaded' = loaded
      /\ daemon' = daemon /\ ends' = ends /\ doubt' = doubt
  BY DEF EmptiesPlist, UnderWay, Over
<1>2. /\ prog' \in [Ids -> ProgramType] /\ ListHasToken'
      /\ \A q \in Ids : q # p => prog'[q] = prog[q]
      /\ prog'[p].pc = "writing plist" /\ prog'[p].own = prog[p].own
      /\ prog'[p].seen = prog[p].seen
      /\ prog'[p].kind = prog[p].kind /\ prog'[p].alone = prog[p].alone
  <2>1. "writing plist" \in Pcs
    BY DEF Pcs
  <2>2. prog[p].own.token # 0
    BY <1>1 DEF SettingsInv, SettingsType, ListHasToken
  <2> QED  BY <1>1, <2>1, <2>2, GoesType DEF SettingsInv
<1>3. SettingsType' /\ HasKey(envFile)'
  BY <1>1, <1>2, NoneType DEF SettingsInv, SettingsType, CopiesType
<1>4. ~prog[p].alone => doubt' = Keys
  BY <1>1 DEF SettingsInv, Sound, CompanyDoubts
<1>5. ASSUME Alone(p) PROVE Knows(p)' /\ AgreeWith(Target(p))'
  <2>1. Knows(p) /\ AgreeWith(envFile)
    BY <1>1, <1>5, AloneAgrees DEF Target
  <2>2. Agreement(None, loaded, daemon, doubt, envFile)
    BY <2>1, LessAgrees DEF AgreeWith
  <2>3. Knows(p)'
    BY <2>1, <1>1, <1>2 DEF Knows, WizardInstalls
  <2> QED  BY <2>2, <2>3, <1>1, <1>2 DEF AgreeWith, Target
<1>6. Sound'
  BY <1>1, <1>2, <1>4, <1>5, Focus DEF WizardSteps
<1> QED  BY <1>3, <1>6 DEF SettingsInv

(* The list is what was collected, which agrees with the env file.         *)
LEMMA NextWritesPlist ==
  ASSUME SettingsInv, NEW p \in Ids, WritesPlist(p)
  PROVE  SettingsInv'
<1> DEFINE own == prog[p].own
<1>1. /\ prog[p].pc = "writing plist" /\ UnderWay(p)
      /\ envFile' = envFile /\ loaded' = loaded
      /\ daemon' = daemon /\ ends' = ends /\ doubt' = doubt
      /\ own \in Settings /\ own.token # 0
  BY DEF WritesPlist, UnderWay, Over, SettingsInv, SettingsType, ProgramType, ListHasToken
<1>2. ~prog[p].alone => doubt' = Keys
  BY <1>1 DEF SettingsInv, Sound, CompanyDoubts
<1>3. Alone(p) => Knows(p) /\ AgreeWith(envFile)
  BY <1>1, AloneAgrees DEF Target
<1>4. CASE Installed(p, "failed") /\ plist' = plist
  <2>1. Alone(p) => AgreeWith(envFile)'
    BY <1>1, <1>3, <1>4 DEF AgreeWith
  <2>2. prog' \in [Ids -> ProgramType] /\ ListHasToken' /\ Sound'
    BY <1>1, <1>2, <1>4, <2>1, InstalledSound DEF Over
  <2> QED  BY <1>1, <1>4, <2>2 DEF SettingsInv, SettingsType, CopiesType
<1>5. CASE plist' = own /\ Goes(p, "boot out")
  <2>1. /\ prog' \in [Ids -> ProgramType] /\ ListHasToken'
        /\ \A q \in Ids : q # p => prog'[q] = prog[q]
        /\ prog'[p].pc = "boot out" /\ prog'[p].own = own /\ prog'[p].seen = prog[p].seen
        /\ prog'[p].kind = prog[p].kind /\ prog'[p].alone = prog[p].alone
    <3>1. "boot out" \in Pcs /\ "boot out" \notin {"write plist", "writing plist"}
      BY DEF Pcs
    <3> QED  BY <1>5, <3>1, GoesType DEF SettingsInv
  <2>2. SettingsType' /\ HasKey(envFile)'
    BY <1>1, <1>5, <2>1 DEF SettingsInv, SettingsType, CopiesType
  <2>3. ASSUME Alone(p) PROVE Knows(p)' /\ AgreeWith(Target(p))'
    <3>1. Agreement(own, loaded, daemon, doubt, envFile)
      BY <1>1, <1>3, <2>3 DEF AgreeWith, Agreement, Knows
    <3>2. Knows(p)'
      BY <1>1, <1>3, <1>5, <2>1, <2>3 DEF Knows, WizardInstalls
    <3> QED  BY <3>1, <3>2, <1>1, <1>5, <2>1 DEF AgreeWith, Target
  <2>4. Sound'
    BY <1>1, <1>2, <2>1, <2>3, Focus DEF WizardSteps
  <2> QED  BY <2>2, <2>4 DEF SettingsInv
<1> QED  BY <1>4, <1>5 DEF WritesPlist

(* launchctl bootout: fewer copies, which agree all the more.              *)
LEMMA NextBootsOut ==
  ASSUME SettingsInv, NEW p \in Ids, BootsOut(p)
  PROVE  SettingsInv'
<1> DEFINE next == IF prog[p].kind = "uninstall" THEN "remove" ELSE "boot up"
<1>1. /\ prog[p].pc = "boot out" /\ UnderWay(p) /\ Goes(p, next)
      /\ envFile' = envFile /\ plist' = plist
      /\ \/ loaded' = None /\ daemon' = None
         \/ loaded' = loaded /\ daemon' = daemon
      /\ ends' = ends /\ doubt' = doubt
  BY DEF BootsOut, DaemonGoes, UnderWay, Over
<1>2. next \in Pcs /\ next \notin {"write plist", "writing plist"} /\ next \in {"remove", "boot up"}
  BY DEF Pcs
<1> HIDE DEF next
<1>3. /\ prog' \in [Ids -> ProgramType] /\ ListHasToken'
      /\ \A q \in Ids : q # p => prog'[q] = prog[q]
      /\ prog'[p].pc = next /\ prog'[p].own = prog[p].own /\ prog'[p].seen = prog[p].seen
      /\ prog'[p].kind = prog[p].kind /\ prog'[p].alone = prog[p].alone
  BY <1>1, <1>2, GoesType DEF SettingsInv
<1>4. SettingsType' /\ HasKey(envFile)'
  BY <1>1, <1>3, NoneType DEF SettingsInv, SettingsType, CopiesType
<1>5. ~prog[p].alone => doubt' = Keys
  BY <1>1 DEF SettingsInv, Sound, CompanyDoubts
<1>6. ASSUME Alone(p) PROVE Knows(p)' /\ AgreeWith(Target(p))'
  <2>1. Knows(p) /\ AgreeWith(envFile)
    BY <1>1, <1>6, AloneAgrees DEF Target
  <2>2. /\ loaded' \in {loaded, plist, None} /\ daemon' \in {daemon, None}
    BY <1>1
  <2>3. Agreement(plist, loaded', daemon', doubt, envFile)
    BY <2>1, <2>2, LessAgrees DEF AgreeWith
  <2>4. Knows(p)'
    BY <2>1, <1>1, <1>2, <1>3 DEF Knows, WizardInstalls
  <2> QED  BY <2>3, <2>4, <1>1, <1>2, <1>3 DEF AgreeWith, Target
<1>7. Sound'
  BY <1>1, <1>2, <1>3, <1>5, <1>6, Focus DEF WizardSteps
<1> QED  BY <1>4, <1>7 DEF SettingsInv

(* launchctl bootstrap: nothing was loaded, so no daemon runs, and what is *)
(* loaded is the list.  After a wizard that was alone the list is the env  *)
(* file, so that nothing is in doubt any more.                             *)
LEMMA NextBootsUp ==
  ASSUME SettingsInv, NEW p \in Ids, BootsUp(p)
  PROVE  SettingsInv'
<1>1. /\ prog[p].pc = "boot up" /\ UnderWay(p)
      /\ envFile' = envFile /\ plist' = plist /\ daemon' = daemon /\ ends' = ends
  BY DEF BootsUp, UnderWay, Over
<1>2. Alone(p) => Knows(p) /\ AgreeWith(envFile)
  BY <1>1, AloneAgrees DEF Target
<1>3. ~prog[p].alone => doubt = Keys
  BY <1>1 DEF SettingsInv, Sound, CompanyDoubts
<1>4. CASE loaded' = loaded /\ doubt' = doubt /\ Installed(p, "failed")
  <2>1. Alone(p) => AgreeWith(envFile)'
    BY <1>1, <1>2, <1>4 DEF AgreeWith
  <2>2. prog' \in [Ids -> ProgramType] /\ ListHasToken' /\ Sound'
    BY <1>1, <1>3, <1>4, <2>1, InstalledSound DEF Over
  <2> QED  BY <1>1, <1>4, <2>2 DEF SettingsInv, SettingsType, CopiesType
<1>5. CASE /\ loaded = None /\ plist # None
           /\ loaded' = plist /\ Installed(p, "done")
           /\ doubt' = IF prog[p].kind = "setup" /\ prog[p].alone THEN {} ELSE doubt
  <2>1. daemon = None
    BY <1>5, NoneType DEF SettingsInv, SettingsType, CopiesType
  <2>2. ASSUME Alone(p) PROVE AgreeWith(envFile)'
    <3>1. CASE prog[p].kind = "setup"
      <4>1. plist = envFile /\ plist' = envFile /\ loaded' = envFile /\ daemon' = None
        BY <1>1, <1>2, <1>5, <2>1, <2>2, <3>1 DEF Knows, WizardInstalls
      <4>2. \A k \in Keys : Agrees(envFile, envFile, k) /\ Agrees(None, envFile, k)
        BY DEF Agrees
      <4>3. Keyed(envFile, envFile)
        BY DEF Keyed, SettingsInv, HasKey
      <4> QED  BY <4>1, <4>2, <4>3, <1>1 DEF AgreeWith, Agreement
    <3>2. CASE prog[p].kind # "setup"
      <4>1. Agreement(plist, plist, daemon, doubt, envFile)
        BY <1>2, <2>2, LessAgrees DEF AgreeWith
      <4> QED  BY <4>1, <3>2, <1>1, <1>5 DEF AgreeWith
    <3> QED  BY <3>1, <3>2
  <2>3. ~prog[p].alone => doubt' = Keys
    BY <1>3, <1>5
  <2>4. prog' \in [Ids -> ProgramType] /\ ListHasToken' /\ Sound'
    BY <1>1, <1>5, <2>2, <2>3, InstalledSound DEF Over
  <2>5. doubt' \subseteq Keys
    BY <1>5 DEF SettingsInv, SettingsType
  <2> QED  BY <1>1, <1>5, <2>1, <2>4, <2>5 DEF SettingsInv, SettingsType, CopiesType
<1> QED  BY <1>4, <1>5 DEF BootsUp

(* rm: the list goes, or stays.                                            *)
LEMMA NextRemoves ==
  ASSUME SettingsInv, NEW p \in Ids, Removes(p)
  PROVE  SettingsInv'
<1>1. /\ prog[p].pc = "remove" /\ UnderWay(p) /\ Ends(p, "done")
      /\ envFile' = envFile /\ plist' \in {plist, None} /\ loaded' = loaded
      /\ daemon' = daemon /\ ends' = ends /\ doubt' = doubt
  BY DEF Removes, UnderWay, Over
<1>2. /\ prog' \in [Ids -> ProgramType] /\ ListHasToken'
      /\ \A q \in Ids : q # p => prog'[q] = prog[q]
      /\ prog'[p].pc = "done" /\ ~UnderWay(p)'
  BY <1>1, EndsType DEF SettingsInv, Over
<1>3. SettingsType' /\ HasKey(envFile)'
  BY <1>1, <1>2, NoneType DEF SettingsInv, SettingsType, CopiesType
<1>4. ~prog[p].alone => doubt' = Keys
  BY <1>1 DEF SettingsInv, Sound, CompanyDoubts
<1>5. ASSUME Alone(p) PROVE AgreeWith(Target(p))'
  <2>1. AgreeWith(envFile)
    BY <1>1, <1>5, AloneAgrees DEF Target
  <2>2. Agreement(plist', loaded, daemon, doubt, envFile)
    BY <2>1, <1>1, LessAgrees DEF AgreeWith
  <2> QED  BY <2>2, <1>1, <1>2 DEF AgreeWith, Target
<1>6. Sound'
  BY <1>1, <1>2, <1>4, <1>5, Focus DEF WizardSteps
<1> QED  BY <1>3, <1>6 DEF SettingsInv

(* The doctor changes nothing.                                             *)
LEMMA NextExamines ==
  ASSUME SettingsInv, NEW p \in Ids, Examines(p)
  PROVE  SettingsInv'
<1>1. /\ prog[p].pc = "doctor" /\ UnderWay(p) /\ (Ends(p, "done") \/ Ends(p, "failed"))
      /\ envFile' = envFile /\ plist' = plist /\ loaded' = loaded
      /\ daemon' = daemon /\ ends' = ends /\ doubt' = doubt
  BY DEF Examines, unchangedByPrompts, UnderWay, Over
<1>2. /\ prog' \in [Ids -> ProgramType] /\ ListHasToken'
      /\ \A q \in Ids : q # p => prog'[q] = prog[q]
      /\ prog'[p].pc \in Over /\ ~UnderWay(p)'
  BY <1>1, EndsType DEF SettingsInv, Over
<1>3. SettingsType' /\ HasKey(envFile)'
  BY <1>1, <1>2 DEF SettingsInv, SettingsType, CopiesType
<1>4. ~prog[p].alone => doubt' = Keys
  BY <1>1 DEF SettingsInv, Sound, CompanyDoubts
<1>5. Alone(p) => AgreeWith(Target(p))'
  BY <1>1, <1>2, AloneAgrees DEF AgreeWith, Target, Over
<1>6. Sound'
  BY <1>1, <1>2, <1>4, <1>5, Focus DEF WizardSteps, Over
<1> QED  BY <1>3, <1>6 DEF SettingsInv

-----------------------------------------------------------------------------
(* The steps of launchd, and the others *)

(* A program begins: when another is under way nothing is certain any more,*)
(* and otherwise it is alone and has just read the env file.               *)
LEMMA NextBegins ==
  ASSUME SettingsInv, NEW p \in Ids, Begins(p)
  PROVE  SettingsInv'
<1>1. PICK kind \in Commands, shell \in Shells :
        prog' = [q \in Ids |->
          IF q # p THEN [prog[q] EXCEPT !.alone = FALSE]
          ELSE [pc |-> CASE kind = "setup" -> "read"
                         [] kind = "uninstall" -> "boot out"
                         [] kind = "doctor" -> "doctor"
                         [] OTHER -> "collect",
                kind |-> kind, shell |-> shell, seen |-> envFile, own |-> None,
                alone |-> \A r \in Ids : ~UnderWay(r)]]
  BY DEF Begins
<1>2. /\ prog[p].pc = "new" /\ ~UnderWay(p)
      /\ doubt' = IF \E q \in Ids : UnderWay(q) THEN Keys ELSE doubt
      /\ envFile' = envFile /\ plist' = plist /\ loaded' = loaded
      /\ daemon' = daemon /\ ends' = ends
  BY DEF Begins, UnderWay
<1>3. /\ prog \in [Ids -> ProgramType] /\ envFile \in Settings /\ None \in Settings
  BY NoneType DEF SettingsInv, SettingsType, CopiesType
<1>4. ASSUME NEW q \in Ids, q # p
      PROVE  /\ prog'[q] \in ProgramType /\ prog'[q].alone = FALSE /\ prog'[q].pc = prog[q].pc
             /\ prog'[q].own = prog[q].own /\ prog'[q].kind = prog[q].kind
  <2>1. prog'[q] = [prog[q] EXCEPT !.alone = FALSE]
    BY <1>1, <1>4
  <2> QED  BY <2>1, <1>3 DEF ProgramType
<1>5. /\ prog'[p] \in ProgramType /\ prog'[p].seen = envFile
      /\ prog'[p].pc \in {"read", "boot out", "doctor", "collect"}
      /\ prog'[p].pc = "read" <=> prog'[p].kind = "setup"
      /\ prog'[p].alone = \A r \in Ids : ~UnderWay(r)
  <2> DEFINE pc == CASE kind = "setup" -> "read"
                     [] kind = "uninstall" -> "boot out"
                     [] kind = "doctor" -> "doctor"
                     [] OTHER -> "collect"
             lonely == \A r \in Ids : ~UnderWay(r)
  <2>1. pc \in {"read", "boot out", "doctor", "collect"} /\ (pc = "read" <=> kind = "setup")
    BY DEF Commands
  <2>2. prog'[p] = [pc |-> pc, kind |-> kind, shell |-> shell, seen |-> envFile, own |-> None,
                    alone |-> lonely]
    BY <1>1
  <2>3. pc \in Pcs /\ lonely \in BOOLEAN
    BY <2>1 DEF Pcs
  <2> HIDE DEF pc, lonely
  <2>4. prog'[p] \in ProgramType
    BY <2>2, <2>3, <1>3 DEF ProgramType
  <2>5. /\ prog'[p].seen = envFile /\ prog'[p].pc = pc /\ prog'[p].kind = kind
        /\ prog'[p].alone = lonely
    BY <2>2
  <2> QED  BY <2>1, <2>4, <2>5 DEF lonely
<1>6. prog' \in [Ids -> ProgramType]
  <2>1. DOMAIN prog' = Ids /\ prog' = [q \in Ids |-> prog'[q]]
    BY <1>1
  <2> QED  BY <2>1, <1>4, <1>5
<1>7. ListHasToken'
  BY <1>4, <1>5 DEF SettingsInv, SettingsType, ListHasToken
<1>8. SettingsType' /\ HasKey(envFile)'
  BY <1>2, <1>6, <1>7 DEF SettingsInv, SettingsType, CopiesType
<1>9. WizardHasKey'
  <2>1. ASSUME NEW q \in Ids
        PROVE  /\ prog'[q].pc \in WizardSteps => prog'[q].kind = "setup"
               /\ prog'[q].pc \in {"write", "writing"} => HasKey(prog'[q].own)
    BY <1>4, <1>5 DEF SettingsInv, Sound, WizardHasKey, WizardSteps
  <2> QED  BY <2>1 DEF WizardHasKey
<1>10. \A q \in Ids : q # p => (UnderWay(q)' <=> UnderWay(q)) /\ ~Alone(q)'
  BY <1>4 DEF UnderWay, Alone
<1>11. CASE \E q \in Ids : UnderWay(q)
  <2>1. doubt' = Keys /\ \A q \in Ids : ~prog'[q].alone
    BY <1>2, <1>4, <1>5, <1>11
  <2>2. CompanyDoubts' /\ AloneKnows'
    BY <2>1 DEF CompanyDoubts, AloneKnows, Alone
  <2>3. CopiesAgree'
    BY <2>1, AllInDoubt DEF CopiesAgree, AgreeWith
  <2> QED  BY <2>2, <2>3, <1>8, <1>9 DEF SettingsInv, Sound
<1>12. CASE \A q \in Ids : ~UnderWay(q)
  <2>1. doubt' = doubt /\ prog'[p].alone /\ \A q \in Ids : UnderWay(q)' => q = p
    BY <1>2, <1>5, <1>10, <1>12
  <2>2. \A q \in Ids : prog[q].pc # "writing" /\ prog'[q].pc # "writing"
    BY <1>4, <1>5, <1>12 DEF UnderWay, Over
  <2>3. CompanyDoubts'
    BY <2>1 DEF CompanyDoubts
  <2>4. Knows(p)'
    BY <1>2, <1>5 DEF Knows, WizardInstalls
  <2>5. AloneKnows'
    BY <1>10, <2>4 DEF AloneKnows
  <2>6. CopiesAgree'
    BY <1>2, <2>1, <2>2 DEF SettingsInv, Sound, CopiesAgree, AgreeWith
  <2> QED  BY <2>3, <2>5, <2>6, <1>8, <1>9 DEF SettingsInv, Sound
<1> QED  BY <1>11, <1>12

(* Whoever is launched with the list, and the env file for defaults, agrees*)
(* with the env file, also while that is empty.                            *)
LEMMA LaunchAgrees ==
  ASSUME NEW list, NEW copy \in Settings, NEW running, NEW unsure, NEW s, NEW env \in Settings,
         Agreement(list, copy, running, unsure, s), env = s \/ env = None
  PROVE  Agreement(list, copy, Defaults(copy, env), unsure, s)
<1> DEFINE new == Defaults(copy, env)
<1>1. \A k \in Keys : new[k] = IF copy[k] # None[k] THEN copy[k] ELSE env[k]
  BY DEF Defaults
<1>2. \A k \in Keys \ unsure : Agrees(list, s, k) /\ Agrees(copy, s, k)
  BY DEF Agreement
<1> HIDE DEF new
<1>3. \A k \in Keys \ unsure : Agrees(new, s, k)
  BY <1>1, <1>2 DEF Agrees
<1>4. Agreement(list, copy, new, unsure, s)
  BY <1>2, <1>3 DEF Agreement
<1> QED  BY <1>4 DEF new

(* launchd starts the daemon.                                              *)
LEMMA NextStarts ==
  ASSUME SettingsInv, Starts
  PROVE  SettingsInv'
<1> DEFINE new == Defaults(loaded, envFile)
<1>1. /\ loaded # None /\ daemon' = new
      /\ prog' = prog /\ envFile' = envFile /\ plist' = plist /\ loaded' = loaded
      /\ doubt' = doubt /\ ends' = ends
  BY DEF Starts
<1>2. envFile \in Settings /\ loaded \in Settings /\ loaded.token # 0
  BY <1>1 DEF SettingsInv, SettingsType, CopiesType
<1>3. new \in Settings /\ new.token = loaded.token
  BY <1>2, DefaultsType
<1> HIDE DEF new
<1>4. SettingsType' /\ HasKey(envFile)'
  BY <1>1, <1>2, <1>3 DEF SettingsInv, SettingsType, CopiesType, ListHasToken
<1>5. CompanyDoubts' /\ WizardHasKey'
  BY <1>1 DEF SettingsInv, Sound, CompanyDoubts, UnderWay, WizardHasKey
<1>6. AloneKnows'
  BY <1>1 DEF SettingsInv, Sound, AloneKnows, Alone, UnderWay, Knows, WizardInstalls
<1>7. (\A p \in Ids : prog[p].pc # "writing") => Agreement(plist, loaded, new, doubt, envFile)
  BY <1>2, LaunchAgrees DEF new, SettingsInv, Sound, CopiesAgree, AgreeWith
<1>8. ASSUME NEW p \in Ids, prog[p].pc = "writing"
      PROVE  Agreement(plist, loaded, new, doubt, prog[p].own)
  <2>1. UnderWay(p)
    BY <1>8 DEF UnderWay, Over
  <2>2. CASE Alone(p)
    <3>1. envFile = None /\ AgreeWith(prog[p].own)
      BY <1>8, <2>2, AloneAgrees DEF Knows, Target
    <3> QED  BY <3>1, <1>2, LaunchAgrees DEF new, AgreeWith
  <2>3. CASE ~Alone(p)
    <3>1. doubt = Keys
      BY <2>1, <2>3 DEF Alone, SettingsInv, Sound, CompanyDoubts
    <3> QED  BY <3>1, AllInDoubt
  <2> QED  BY <2>2, <2>3
<1>9. CopiesAgree'
  BY <1>1, <1>7, <1>8 DEF CopiesAgree, AgreeWith
<1> QED  BY <1>4, <1>5, <1>6, <1>9 DEF SettingsInv, Sound

(* The daemon dies: one copy less.                                         *)
LEMMA NextDies ==
  ASSUME SettingsInv, Dies
  PROVE  SettingsInv'
<1>1. /\ daemon' = None /\ ends < MaxEnds /\ ends' = ends + 1
      /\ prog' = prog /\ envFile' = envFile /\ plist' = plist /\ loaded' = loaded
      /\ doubt' = doubt
  BY DEF Dies, DaemonGoes
<1>2. ends' \in 0 .. MaxEnds
  BY <1>1, Numbers DEF SettingsInv, SettingsType
<1>3. SettingsType' /\ HasKey(envFile)'
  BY <1>1, <1>2, NoneType DEF SettingsInv, SettingsType, CopiesType, ListHasToken
<1>4. CompanyDoubts' /\ WizardHasKey'
  BY <1>1 DEF SettingsInv, Sound, CompanyDoubts, UnderWay, WizardHasKey
<1>5. AloneKnows'
  BY <1>1 DEF SettingsInv, Sound, AloneKnows, Alone, UnderWay, Knows, WizardInstalls
<1>6. ASSUME NEW s, AgreeWith(s) PROVE Agreement(plist, loaded, None, doubt, s)
  BY <1>6, LessAgrees DEF AgreeWith
<1>7. CopiesAgree'
  BY <1>1, <1>6 DEF SettingsInv, Sound, CopiesAgree, AgreeWith
<1> QED  BY <1>3, <1>4, <1>5, <1>7 DEF SettingsInv, Sound

(* The user logs out and in: nobody is under way any more, launchd loads   *)
(* the list, and an env file that was being written is in doubt, but has   *)
(* the key that it needs.                                                  *)
LEMMA NextLogsIn ==
  ASSUME SettingsInv, LogsIn
  PROVE  SettingsInv'
<1> DEFINE gone == [NewProgram EXCEPT !.pc = "failed"]
           writing == {p \in Ids : prog[p].pc = "writing"}
<1>1. /\ ends < MaxEnds /\ ends' = ends + 1
      /\ prog' = [p \in Ids |-> IF UnderWay(p) THEN gone ELSE prog[p]]
      /\ envFile' \in {envFile} \cup UNION {Torn(prog[p].own) : p \in writing}
      /\ doubt' = IF writing = {} THEN doubt ELSE Keys
      /\ loaded' = plist /\ plist' = plist /\ daemon' = None
  BY DEF LogsIn, DaemonGoes
<1>2. ends' \in 0 .. MaxEnds
  BY <1>1, Numbers DEF SettingsInv, SettingsType
<1>3. gone \in ProgramType /\ gone.pc = "failed"
  BY NoneType DEF ProgramType, Pcs, Over
<1> HIDE DEF gone
<1>4. /\ prog' \in [Ids -> ProgramType]
      /\ \A p \in Ids : prog'[p].pc \in Over \cup {"new"} /\ ~UnderWay(p)'
  BY <1>1, <1>3 DEF SettingsInv, SettingsType, UnderWay, Over
<1>5. ListHasToken' /\ WizardHasKey' /\ CompanyDoubts' /\ AloneKnows'
  BY <1>4 DEF ListHasToken, WizardHasKey, WizardSteps, CompanyDoubts, AloneKnows, Alone, Over
<1>6. envFile' \in Settings /\ HasKey(envFile)' /\ doubt' \subseteq Keys
  <2>1. CASE envFile' = envFile
    BY <2>1, <1>1 DEF SettingsInv, SettingsType, CopiesType, HasKey
  <2>2. CASE \E p \in writing : envFile' \in Torn(prog[p].own)
    <3>1. PICK p \in writing : envFile' \in Torn(prog[p].own)
      BY <2>2
    <3>2. prog[p].own \in Settings /\ HasKey(prog[p].own)
      BY DEF SettingsInv, SettingsType, ProgramType, Sound, WizardHasKey
    <3> QED  BY <3>1, <3>2, <1>1, TornHasKey DEF SettingsInv, SettingsType, HasKey
  <2> QED  BY <2>1, <2>2, <1>1
<1>7. SettingsType'
  BY <1>1, <1>2, <1>4, <1>5, <1>6, NoneType DEF SettingsInv, SettingsType, CopiesType
<1>8. AgreeWith(envFile)'
  <2>1. CASE writing = {}
    <3>1. envFile' = envFile /\ doubt' = doubt /\ \A p \in Ids : prog[p].pc # "writing"
      BY <2>1, <1>1
    <3>2. Agreement(plist, plist, None, doubt, envFile)
      BY <3>1, LessAgrees DEF SettingsInv, Sound, CopiesAgree, AgreeWith
    <3> QED  BY <3>1, <3>2, <1>1 DEF AgreeWith
  <2>2. CASE writing # {}
    BY <2>2, <1>1, AllInDoubt DEF AgreeWith
  <2> QED  BY <2>1, <2>2
<1>9. CopiesAgree'
  BY <1>4, <1>8 DEF CopiesAgree, Over
<1> QED  BY <1>5, <1>6, <1>7, <1>9 DEF SettingsInv, Sound

-----------------------------------------------------------------------------
(* The theorems *)

LEMMA InitSettings == Init => SettingsInv
<1> SUFFICES ASSUME Init PROVE SettingsInv
  OBVIOUS
<1>1. /\ prog = [p \in Ids |-> NewProgram] /\ ends = 0 /\ doubt = {}
      /\ envFile = None /\ plist = None /\ loaded = None /\ daemon = None
  BY DEF Init
<1>2. prog \in [Ids -> ProgramType] /\ \A p \in Ids : prog[p].pc = "new" /\ ~UnderWay(p)
  BY <1>1, NoneType DEF UnderWay
<1>3. SettingsType /\ HasKey(envFile)
  <2>1. ListHasToken
    BY <1>2 DEF ListHasToken
  <2>2. CopiesType /\ HasKey(envFile)
    BY <1>1, NoneType DEF CopiesType, HasKey
  <2>3. ends \in 0 .. MaxEnds /\ doubt \subseteq Keys
    BY <1>1, Numbers
  <2> QED  BY <1>2, <2>1, <2>2, <2>3 DEF SettingsType
<1>4. CompanyDoubts /\ WizardHasKey /\ AloneKnows
  BY <1>2 DEF CompanyDoubts, WizardHasKey, WizardSteps, AloneKnows, Alone
<1>5. AgreeWith(None)
  BY <1>1, NoneType DEF AgreeWith, Agreement, Agrees, Keyed
<1>6. CopiesAgree
  BY <1>1, <1>2, <1>5 DEF CopiesAgree
<1> QED  BY <1>3, <1>4, <1>6 DEF SettingsInv, Sound

(* A step that leaves the settings alone.                                  *)
LEMMA SettingsUnchanged == ASSUME SettingsInv, UNCHANGED settingsVars PROVE SettingsInv'
<1>1. /\ prog' = prog /\ envFile' = envFile /\ plist' = plist /\ loaded' = loaded
      /\ daemon' = daemon /\ doubt' = doubt /\ ends' = ends
  BY DEF settingsVars
<1>2. SettingsType' /\ HasKey(envFile)'
  BY <1>1 DEF SettingsInv, SettingsType, CopiesType, ListHasToken
<1>3. CompanyDoubts' /\ WizardHasKey'
  BY <1>1 DEF SettingsInv, Sound, CompanyDoubts, UnderWay, WizardHasKey
<1>4. AloneKnows'
  BY <1>1 DEF SettingsInv, Sound, AloneKnows, Alone, UnderWay, Knows, WizardInstalls
<1>5. CopiesAgree'
  BY <1>1 DEF SettingsInv, Sound, CopiesAgree, AgreeWith
<1> QED  BY <1>2, <1>3, <1>4, <1>5 DEF SettingsInv, Sound

(* Every step of the whole leaves the settings sound.                      *)
LEMMA NextSettings == ASSUME SettingsInv, [Next]_vars PROVE SettingsInv'
<1>1. ASSUME NEW p \in Ids, ProgramStep(p) PROVE SettingsInv'
  BY <1>1, NextBegins, NextAnswered, NextEmptiesFile, NextWritesFile, NextOffers, NextCollects,
     NextEmptiesPlist, NextWritesPlist, NextBootsOut, NextBootsUp, NextRemoves, NextExamines
     DEF ProgramStep
<1>2. CASE Starts
  BY <1>2, NextStarts
<1>3. CASE Dies
  BY <1>3, NextDies
<1>4. CASE LogsIn
  BY <1>4, NextLogsIn
<1>5. CASE Logs
  BY <1>5, SettingsUnchanged DEF Logs
<1>6. CASE UNCHANGED vars
  BY <1>6, SettingsUnchanged DEF vars
<1> QED  BY <1>1, <1>2, <1>3, <1>4, <1>5, <1>6 DEF Next

(* What the invariant says of the copies.                                  *)
LEMMA CopiesOfSettings == ASSUME SettingsInv PROVE SettingsAgree
<1>1. PICK s : AgreeWith(s) /\ \A k \in Keys \ doubt : Agrees(envFile, s, k)
  <2>1. CASE \A p \in Ids : prog[p].pc # "writing"
    BY <2>1 DEF SettingsInv, Sound, CopiesAgree, Agrees
  <2>2. CASE \E p \in Ids : prog[p].pc = "writing"
    <3>1. PICK p \in Ids : prog[p].pc = "writing"
      BY <2>2
    <3>2. AgreeWith(prog[p].own) /\ UnderWay(p)
      BY <3>1 DEF SettingsInv, Sound, CopiesAgree, UnderWay, Over
    <3>3. CASE Alone(p)
      BY <3>1, <3>2, <3>3, AloneAgrees DEF Knows, Agrees
    <3>4. CASE ~Alone(p)
      BY <3>2, <3>4 DEF Alone, SettingsInv, Sound, CompanyDoubts
    <3> QED  BY <3>2, <3>3, <3>4
  <2> QED  BY <2>1, <2>2
<1>2. \A k \in Keys \ doubt : \A c \in {envFile, plist, loaded, daemon} : Agrees(c, s, k)
  BY <1>1 DEF AgreeWith, Agreement
<1>3. \A k \in Keys \ doubt : \A a, b \in {envFile, plist, loaded, daemon} :
        a[k] # None[k] /\ b[k] # None[k] => a[k] = b[k]
  BY <1>2 DEF Agrees
<1>4. ASSUME NEW p \in Ids, prog[p].pc = "doctor", prog[p].alone
      PROVE  Env(p) = Defaults(prog[p].shell, envFile)
  <2>1. Alone(p)
    BY <1>4 DEF Alone, UnderWay, Over
  <2>2. prog[p].seen = envFile
    BY <1>4, <2>1, AloneAgrees DEF Knows
  <2> QED  BY <2>2 DEF Env
<1> QED  BY <1>3, <1>4 DEF SettingsAgree

(* And of the keys.                                                        *)
LEMMA KeysOfDrivers == ASSUME SettingsInv PROVE DriverHasKey
<1>1. ASSUME NEW list \in {plist, loaded}, envFile # None, "key" \notin doubt
      PROVE  HasKey(Defaults(list, envFile))
  <2>1. \A p \in Ids : prog[p].pc # "writing"
    <3> SUFFICES ASSUME NEW p \in Ids, prog[p].pc = "writing" PROVE FALSE
      OBVIOUS
    <3>1. UnderWay(p)
      BY DEF UnderWay, Over
    <3>2. Alone(p)
      BY <3>1, <1>1 DEF Alone, SettingsInv, Sound, CompanyDoubts, Keys
    <3> QED  BY <3>2, <1>1, AloneAgrees DEF Knows
  <2>2. Keyed(list, envFile)
    BY <2>1, <1>1 DEF SettingsInv, Sound, CopiesAgree, AgreeWith, Agreement
  <2>3. list \in Settings /\ envFile \in Settings /\ HasKey(envFile)
    BY DEF SettingsInv, SettingsType, CopiesType
  <2>4. /\ Defaults(list, envFile).driver =
             IF list.driver # "none" THEN list.driver ELSE envFile.driver
        /\ Defaults(list, envFile).key = IF list.key # 0 THEN list.key ELSE envFile.key
    BY <2>3, DefaultsType
  <2> QED  BY <2>2, <2>3, <2>4 DEF HasKey, Keyed
<1> QED  BY <1>1 DEF DriverHasKey, SettingsInv

(* Nothing is installed, loaded or running without a token, and the daemon *)
(* asks for the one that launchd has loaded, whatever becomes of the files *)
(* (index.ts refuses to run without, service.ts to install).               *)
THEOREM TypeCorrect == Spec => []TypeOK
<1>1. LogInv /\ SettingsInv => TypeOK
  BY DEF LogInv, SettingsInv, SettingsType, CopiesType, TypeOK, ProgramType, Pcs
<1>2. LogInv /\ SettingsInv /\ [Next]_vars => (LogInv /\ SettingsInv)'
  BY NextLogInv, NextSettings
<1>3. Init => LogInv /\ SettingsInv
  BY InitLog, InitSettings
<1> QED  BY <1>1, <1>2, <1>3, PTL DEF Spec

(* The copies of a setting agree but for what is in doubt, and a wizard    *)
(* that runs alone and installs leaves nothing in doubt, whatever had      *)
(* happened before, for any number of programs (setup.ts, service.ts).     *)
THEOREM SettingsSound == Spec => []SettingsAgree
<1>1. SettingsInv => SettingsAgree
  BY CopiesOfSettings
<1>2. SettingsInv /\ [Next]_vars => SettingsInv'
  BY NextSettings
<1> QED  BY <1>1, <1>2, InitSettings, PTL DEF Spec

(* Whoever is told to use OpenRouter has a key for it, wherever the wizard *)
(* gives up and wherever a write of the env file breaks off (setup.ts).    *)
THEOREM KeysSound == Spec => []DriverHasKey
<1>1. SettingsInv => DriverHasKey
  BY KeysOfDrivers
<1>2. SettingsInv /\ [Next]_vars => SettingsInv'
  BY NextSettings
<1> QED  BY <1>1, <1>2, InitSettings, PTL DEF Spec
=============================================================================
