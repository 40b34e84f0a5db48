----------------------------- MODULE ChatProofs -----------------------------
(***************************************************************************)
(* Theorems about the chat front ends, for any number of messages and      *)
(* chats, any SESSION_HISTORY_MAX (of whole exchanges) and SESSION_CAP.    *)
(*                                                                         *)
(* The invariant says what a session remembers and is set to relative to   *)
(* the turns: what it remembers are ended turns of its own (MemoryKept),   *)
(* and a session that a message can still reach has settings at least as   *)
(* new as the last line that made one (SettingsLast), hence so have the    *)
(* options of each run (UsedLast).  Nearly every step is one of a single   *)
(* turn (Moves); the others let a message in, forget everything, or touch  *)
(* no turn.                                                                *)
(***************************************************************************)
EXTENDS Chat, SequenceTheorems, FiniteSetTheorems, TLAPS

-----------------------------------------------------------------------------
(* Histories *)

(* An even number is twice its half.                                       *)
LEMMA Even ==
  /\ \A n \in Nat : n % 2 = 0 => n \div 2 \in Nat /\ n = 2 * (n \div 2)
  /\ \A k \in Nat : (2 * k) % 2 = 0 /\ (2 * k) \div 2 = k
OBVIOUS

(* How many exchanges are remembered.                                      *)
Capacity == HistoryMax \div 2

(* It is half the entries.                                                 *)
LEMMA CapacityType == Capacity \in Nat /\ HistoryMax = 2 * Capacity
BY SessionsAssumption, Even DEF Capacity

(* A history of whole exchanges, and how many there are.                   *)
LEMMA WholeHistory ==
  ASSUME NEW h \in Seq(Entry), Whole(h)
  PROVE  LET k == Len(h) \div 2 IN
         /\ k \in 0 .. Capacity /\ Len(h) = 2 * k
         /\ ExchangesOf(h) \in Seq(Messages) /\ Len(ExchangesOf(h)) = k
         /\ \A i \in 1 .. k : /\ ExchangesOf(h)[i] = h[2 * i][2]
                              /\ h[2 * i - 1] = <<"user", h[2 * i][2]>>
                              /\ h[2 * i] \in Entry /\ h[2 * i][2] \in Messages
<1> DEFINE k == Len(h) \div 2
<1>1. k \in Nat /\ Len(h) = 2 * k
  BY Even DEF Whole
<1>2. k \in 0 .. Capacity
  BY <1>1, CapacityType DEF Whole
<1>3. \A i \in 1 .. k : h[2 * i] \in Entry /\ h[2 * i][2] \in Messages
  <2> SUFFICES ASSUME NEW i \in 1 .. k PROVE h[2 * i] \in Entry /\ h[2 * i][2] \in Messages
    OBVIOUS
  <2>1. 2 * i \in 1 .. Len(h)
    BY <1>1
  <2>2. h[2 * i] \in Entry
    BY <2>1, ElementOfSeq
  <2> QED  BY <2>2 DEF Entry
<1>4. ExchangesOf(h) = [i \in 1 .. k |-> h[2 * i][2]]
  BY DEF ExchangesOf
<1>5. ExchangesOf(h) \in Seq(Messages) /\ Len(ExchangesOf(h)) = k
  <2>1. ExchangesOf(h) \in [1 .. k -> Messages]
    BY <1>3, <1>4
  <2>2. [1 .. k -> Messages] \subseteq Seq(Messages)
    BY <1>1, SeqDef
  <2>3. DOMAIN ExchangesOf(h) = 1 .. k
    BY <1>4
  <2> QED  BY <1>1, <2>1, <2>2, <2>3, LenProperties
<1>6. \A i \in 1 .. k : /\ ExchangesOf(h)[i] = h[2 * i][2]
                        /\ h[2 * i - 1] = <<"user", h[2 * i][2]>>
  BY <1>4 DEF Whole
<1> QED  BY <1>1, <1>2, <1>3, <1>5, <1>6

(* The newest of a sequence of exchanges.                                  *)
Newest(q) == IF Len(q) <= Capacity THEN q ELSE SubSeq(q, Len(q) - Capacity + 1, Len(q))

(* A sequence without its first elements.                                  *)
Rest(s, d) == SubSeq(s, d + 1, Len(s))

(* What is left of it.                                                     *)
LEMMA RestOf ==
  ASSUME NEW S, NEW s \in Seq(S), NEW d \in 0 .. Len(s)
  PROVE  /\ Rest(s, d) \in Seq(S) /\ Len(Rest(s, d)) = Len(s) - d
         /\ \A i \in 1 .. Len(s) - d : Rest(s, d)[i] = s[i + d]
<1> DEFINE m == d + 1
           n == Len(s)
<1>0. n \in Nat
  BY LenProperties
<1>1. m \in Int /\ n \in Int /\ \A i \in m .. n : s[i] \in S
  BY <1>0, ElementOfSeq
<1> HIDE DEF m, n
<1>2. /\ SubSeq(s, m, n) \in Seq(S)
      /\ Len(SubSeq(s, m, n)) = IF m <= n THEN n - m + 1 ELSE 0
      /\ \A i \in 1 .. n - m + 1 : SubSeq(s, m, n)[i] = s[m + i - 1]
  BY <1>1, SubSeqProperties
<1>3. n - m + 1 = n - d /\ (~(m <= n) => n - d = 0)
  BY <1>0 DEF m, n
<1>4. \A i \in 1 .. n - d : m + i - 1 = i + d
  BY <1>0 DEF m
<1>5. Len(SubSeq(s, m, n)) = n - d
  BY <1>2, <1>3
<1>6. \A i \in 1 .. n - d : SubSeq(s, m, n)[i] = s[i + d]
  BY <1>2, <1>3, <1>4
<1> QED  BY <1>2, <1>5, <1>6 DEF Rest, m, n

(* Pairs of entries make a whole history.                                  *)
LEMMA WholeOf ==
  ASSUME NEW h \in Seq(Entry), NEW n \in 0 .. Capacity, Len(h) = 2 * n,
         \A i \in 1 .. n : h[2 * i - 1] = <<"user", h[2 * i][2]>>
  PROVE  Whole(h)
<1>1. n \in Nat /\ Len(h) % 2 = 0 /\ Len(h) \div 2 = n /\ Len(h) <= HistoryMax
  BY CapacityType, Even
<1> QED  BY <1>1 DEF Whole, ExchangesOf

(* What pushHistory() adds, before the splice.                             *)
LEMMA Longer ==
  ASSUME NEW h \in Seq(Entry), NEW m \in Messages, NEW k \in Nat, Len(h) = 2 * k
  PROVE  LET g == h \o <<<<"user", m>>, <<"assistant", m>>>> IN
         /\ g \in Seq(Entry) /\ Len(g) = 2 * k + 2
         /\ \A i \in 1 .. 2 * k : g[i] = h[i]
         /\ g[2 * k + 1] = <<"user", m>> /\ g[2 * k + 2] = <<"assistant", m>>
<1> DEFINE new == <<<<"user", m>>, <<"assistant", m>>>>
<1>1. <<"user", m>> \in Entry /\ <<"assistant", m>> \in Entry
  BY DEF Entry
<1>2. /\ new \in Seq(Entry) /\ Len(new) = 2
      /\ new[1] = <<"user", m>> /\ new[2] = <<"assistant", m>>
  BY <1>1
<1> HIDE DEF new
<1>3. /\ h \o new \in Seq(Entry) /\ Len(h \o new) = Len(h) + Len(new)
      /\ \A i \in 1 .. Len(h) + Len(new) :
           (h \o new)[i] = IF i <= Len(h) THEN h[i] ELSE new[i - Len(h)]
  BY <1>2, ConcatProperties
<1>4. (h \o new)[2 * k + 1] = new[1]
  <2>1. 2 * k + 1 \in 1 .. Len(h) + Len(new) /\ ~(2 * k + 1 <= Len(h)) /\ 2 * k + 1 - Len(h) = 1
    BY <1>2
  <2> QED  BY <1>3, <2>1
<1>5. (h \o new)[2 * k + 2] = new[2]
  <2>1. 2 * k + 2 \in 1 .. Len(h) + Len(new) /\ ~(2 * k + 2 <= Len(h)) /\ 2 * k + 2 - Len(h) = 2
    BY <1>2
  <2> QED  BY <1>3, <2>1
<1>6. \A i \in 1 .. 2 * k : (h \o new)[i] = h[i]
  BY <1>2, <1>3
<1> QED  BY <1>2, <1>3, <1>4, <1>5, <1>6 DEF new

(* After the splice: the history is whole again, and its exchanges are the *)
(* newest of those there were and the new one.                             *)
LEMMA PushedHistory ==
  ASSUME NEW h \in Seq(Entry), Whole(h), NEW m \in Messages
  PROVE  LET p == Capped(h \o <<<<"user", m>>, <<"assistant", m>>>>) IN
         /\ p \in Seq(Entry) /\ Whole(p)
         /\ ExchangesOf(p) = Newest(Append(ExchangesOf(h), m))
         /\ \A i \in DOMAIN p : p[i][2] = m \/ \E j \in DOMAIN h : p[i][2] = h[j][2]
<1> DEFINE k == Len(h) \div 2
           g == h \o <<<<"user", m>>, <<"assistant", m>>>>
           p == Capped(g)
           e == ExchangesOf(h)
           x == Append(e, m)
<1>1. /\ k \in 0 .. Capacity /\ Len(h) = 2 * k
      /\ e \in Seq(Messages) /\ Len(e) = k
      /\ \A i \in 1 .. k : e[i] = h[2 * i][2] /\ h[2 * i - 1] = <<"user", h[2 * i][2]>>
  BY WholeHistory
<1>2. k \in Nat /\ Capacity \in Nat /\ HistoryMax = 2 * Capacity /\ k <= Capacity
  BY <1>1, CapacityType
<1>3. /\ g \in Seq(Entry) /\ Len(g) = 2 * k + 2
      /\ \A i \in 1 .. 2 * k : g[i] = h[i]
      /\ g[2 * k + 1] = <<"user", m>> /\ g[2 * k + 2] = <<"assistant", m>>
  BY <1>1, <1>2, Longer
<1>4. /\ x \in Seq(Messages) /\ Len(x) = k + 1
      /\ \A i \in 1 .. k : x[i] = e[i]
      /\ x[k + 1] = m
  BY <1>1, AppendProperties
<1>5. p = IF Len(g) > HistoryMax THEN SubSeq(g, Len(g) - HistoryMax + 1, Len(g)) ELSE g
  BY DEF Capped
<1>g. \A i \in 1 .. 2 * k + 2 : g[i][2] = m \/ \E j \in DOMAIN h : g[i][2] = h[j][2]
  <2> SUFFICES ASSUME NEW i \in 1 .. 2 * k + 2
               PROVE  g[i][2] = m \/ \E j \in DOMAIN h : g[i][2] = h[j][2]
    OBVIOUS
  <2>1. CASE i \in 1 .. 2 * k
    <3>1. i \in DOMAIN h
      BY <1>1, <2>1, LenProperties
    <3> QED  BY <1>3, <2>1, <3>1
  <2>2. CASE i = 2 * k + 1 \/ i = 2 * k + 2
    BY <1>3, <2>2
  <2> QED  BY <1>2, <2>1, <2>2
<1>p. \A i \in 1 .. k + 1 : x[i] = g[2 * i][2] /\ g[2 * i - 1] = <<"user", g[2 * i][2]>>
  <2> SUFFICES ASSUME NEW i \in 1 .. k + 1
               PROVE  x[i] = g[2 * i][2] /\ g[2 * i - 1] = <<"user", g[2 * i][2]>>
    OBVIOUS
  <2>1. CASE i \in 1 .. k
    <3>1. 2 * i \in 1 .. 2 * k /\ 2 * i - 1 \in 1 .. 2 * k
      BY <1>2, <2>1
    <3> QED  BY <1>1, <1>3, <1>4, <2>1, <3>1
  <2>2. CASE i = k + 1
    <3>1. 2 * i = 2 * k + 2 /\ 2 * i - 1 = 2 * k + 1
      BY <1>2, <2>2
    <3>2. g[2 * i] = <<"assistant", m>> /\ g[2 * i - 1] = <<"user", m>> /\ x[i] = m
      BY <1>3, <1>4, <2>2, <3>1
    <3>3. g[2 * i][2] = m
      BY <3>2
    <3> QED  BY <3>2, <3>3
  <2>3. i \in 1 .. k \/ i = k + 1
    BY <1>2
  <2> QED  BY <2>1, <2>2, <2>3
<1> HIDE DEF k, g, p, e, x
<1>6. CASE k < Capacity
  <2>1. p = g /\ Newest(x) = x
    BY <1>2, <1>3, <1>4, <1>5, <1>6 DEF Newest
  <2>2. k + 1 \in 0 .. Capacity /\ Len(p) = 2 * (k + 1)
    BY <1>2, <1>3, <1>6, <2>1
  <2>3. Whole(p)
    BY <1>3, <1>p, <2>1, <2>2, WholeOf
  <2>4. ExchangesOf(p) = x
    <3>1. Len(p) \div 2 = k + 1
      BY <1>2, <2>2, Even
    <3>2. /\ ExchangesOf(p) \in Seq(Messages) /\ Len(ExchangesOf(p)) = k + 1
          /\ \A i \in 1 .. k + 1 : ExchangesOf(p)[i] = p[2 * i][2]
      BY <1>3, <2>1, <2>3, <3>1, WholeHistory
    <3> QED  BY <1>4, <1>p, <2>1, <3>2, SeqEqual
  <2>5. DOMAIN p = 1 .. 2 * k + 2
    BY <1>3, <2>1, LenProperties
  <2> QED  BY <1>3, <1>g, <2>1, <2>3, <2>4, <2>5 DEF g, p, e, x
<1>7. CASE k = Capacity
  <2>1. p = Rest(g, 2)
    <3>1. Len(g) > HistoryMax /\ Len(g) - HistoryMax = 2
      BY <1>2, <1>3, <1>7
    <3> QED  BY <1>3, <1>5, <3>1 DEF Rest
  <2>2. /\ p \in Seq(Entry) /\ Len(p) = 2 * k
        /\ \A i \in 1 .. 2 * k : p[i] = g[i + 2]
    <3>1. 2 \in 0 .. Len(g) /\ Len(g) - 2 = 2 * k
      BY <1>2, <1>3
    <3>2. \A d \in 0 .. Len(g) :
            /\ Rest(g, d) \in Seq(Entry) /\ Len(Rest(g, d)) = Len(g) - d
            /\ \A i \in 1 .. Len(g) - d : Rest(g, d)[i] = g[i + d]
      BY <1>3, RestOf
    <3> QED  BY <2>1, <3>1, <3>2
  <2>3. \A i \in 1 .. k : p[2 * i] = g[2 * (i + 1)] /\ p[2 * i - 1] = g[2 * (i + 1) - 1]
    <3> SUFFICES ASSUME NEW i \in 1 .. k
                 PROVE  p[2 * i] = g[2 * (i + 1)] /\ p[2 * i - 1] = g[2 * (i + 1) - 1]
      OBVIOUS
    <3>1. /\ 2 * i \in 1 .. 2 * k /\ 2 * i - 1 \in 1 .. 2 * k
          /\ 2 * i + 2 = 2 * (i + 1) /\ 2 * i - 1 + 2 = 2 * (i + 1) - 1
      BY <1>2
    <3> QED  BY <2>2, <3>1
  <2>4. \A i \in 1 .. k : p[2 * i][2] = x[i + 1] /\ p[2 * i - 1] = <<"user", p[2 * i][2]>>
    <3>1. \A i \in 1 .. k : i + 1 \in 1 .. k + 1
      BY <1>2
    <3> QED  BY <1>p, <2>3, <3>1
  <2>5. Whole(p)
    BY <1>1, <2>2, <2>4, WholeOf
  <2>6. /\ ExchangesOf(p) \in Seq(Messages) /\ Len(ExchangesOf(p)) = k
        /\ \A i \in 1 .. k : ExchangesOf(p)[i] = p[2 * i][2]
    <3>1. Len(p) \div 2 = k
      BY <1>2, <2>2, Even
    <3> QED  BY <2>2, <2>5, <3>1, WholeHistory
  <2>7. Newest(x) = Rest(x, 1)
    <3>1. ~(Len(x) <= Capacity) /\ Len(x) - Capacity = 1
      BY <1>2, <1>4, <1>7
    <3> QED  BY <1>4, <3>1 DEF Newest, Rest
  <2>8. /\ Newest(x) \in Seq(Messages) /\ Len(Newest(x)) = k
        /\ \A i \in 1 .. k : Newest(x)[i] = x[i + 1]
    <3>1. 1 \in 0 .. Len(x) /\ Len(x) - 1 = k
      BY <1>2, <1>4
    <3>2. \A d \in 0 .. Len(x) :
            /\ Rest(x, d) \in Seq(Messages) /\ Len(Rest(x, d)) = Len(x) - d
            /\ \A i \in 1 .. Len(x) - d : Rest(x, d)[i] = x[i + d]
      BY <1>4, RestOf
    <3> QED  BY <2>7, <3>1, <3>2
  <2>9. ExchangesOf(p) = Newest(x)
    <3>1. \A i \in 1 .. k : ExchangesOf(p)[i] = Newest(x)[i]
      BY <2>4, <2>6, <2>8
    <3> QED  BY <2>6, <2>8, <3>1, SeqEqual
  <2>10. \A i \in DOMAIN p : p[i][2] = m \/ \E j \in DOMAIN h : p[i][2] = h[j][2]
    <3>1. DOMAIN p = 1 .. 2 * k
      BY <2>2, LenProperties
    <3>2. \A i \in 1 .. 2 * k : i + 2 \in 1 .. 2 * k + 2
      BY <1>2
    <3> QED  BY <1>g, <2>2, <3>1, <3>2
  <2> QED  BY <2>2, <2>5, <2>9, <2>10 DEF g, p, e, x
<1>8. k < Capacity \/ k = Capacity
  BY <1>2
<1> QED  BY <1>6, <1>7, <1>8 DEF g, p, e, x

-----------------------------------------------------------------------------
(* Sessions *)

(* Lines that set the driver.                                              *)
DriverLines == {"driver", "driver off", "reset"}

(* Lines that set the skill.                                               *)
SkillLines == {"skill", "skill off", "reset"}

(* What a message does to its session: a setting becomes the message's, or *)
(* stays; the history is emptied by /reset, and stays otherwise.           *)
LEMMA HandledSession ==
  ASSUME NEW session \in Session, Whole(session.history), NEW m \in Messages, NEW line \in Lines
  PROVE  LET h == Handled(session, m, line) IN
         /\ h \in Session /\ Whole(h.history)
         /\ h.driver = IF line \in DriverLines THEN m ELSE session.driver
         /\ h.skill = IF line \in SkillLines THEN m ELSE session.skill
         /\ h.history = IF line = "reset" THEN <<>> ELSE session.history
<1>1. m \in 0 .. N
  BY DEF Messages
<1>2. <<>> \in Seq(Entry) /\ Whole(<<>>)
  <2>1. <<>> \in Seq(Entry) /\ Len(<<>>) = 2 * 0 /\ 0 \in 0 .. Capacity
    BY CapacityType
  <2>2. \A i \in 1 .. 0 : <<>>[2 * i - 1] = <<"user", <<>>[2 * i][2]>>
    OBVIOUS
  <2> QED  BY <2>1, <2>2, WholeOf
<1>3. CASE line \in {"driver", "driver off"}
  BY <1>1, <1>3 DEF Handled, Session, DriverLines, SkillLines
<1>4. CASE line \in {"skill", "skill off"}
  BY <1>1, <1>4 DEF Handled, Session, DriverLines, SkillLines
<1>5. CASE line = "reset"
  BY <1>1, <1>2, <1>5 DEF Handled, Session, DriverLines, SkillLines
<1>6. CASE line \notin {"driver", "driver off", "skill", "skill off", "reset"}
  BY <1>6 DEF Handled, Session, DriverLines, SkillLines
<1> QED  BY <1>3, <1>4, <1>5, <1>6

(* A new session has an empty history.                                     *)
LEMMA NewSessionType ==
  /\ NewSession \in Session /\ Whole(NewSession.history)
  /\ NewSession.history = <<>> /\ NewSession.driver = 0 /\ NewSession.skill = 0
<1>1. <<>> \in Seq(Entry) /\ Len(<<>>) = 2 * 0 /\ 0 \in 0 .. Capacity
  BY CapacityType
<1>2. \A i \in 1 .. 0 : <<>>[2 * i - 1] = <<"user", <<>>[2 * i][2]>>
  OBVIOUS
<1>3. Whole(<<>>)
  BY <1>1, <1>2, WholeOf
<1> QED  BY <1>3, SessionsAssumption DEF NewSession, Session

(* What pushHistory() does to a session.                                   *)
LEMMA PushedSession ==
  ASSUME NEW session \in Session, Whole(session.history), NEW m \in Messages
  PROVE  LET p == Pushed(session, m) IN
         /\ p \in Session /\ Whole(p.history)
         /\ p.driver = session.driver /\ p.skill = session.skill
         /\ ExchangesOf(p.history) = Newest(Append(ExchangesOf(session.history), m))
         /\ \A k : Remembers(p, k) => k = m \/ Remembers(session, k)
<1> DEFINE h == session.history
           c == Capped(h \o <<<<"user", m>>, <<"assistant", m>>>>)
           p == Pushed(session, m)
<1>1. h \in Seq(Entry)
  BY DEF Session
<1>2. /\ c \in Seq(Entry) /\ Whole(c)
      /\ ExchangesOf(c) = Newest(Append(ExchangesOf(h), m))
      /\ \A i \in DOMAIN c : c[i][2] = m \/ \E j \in DOMAIN h : c[i][2] = h[j][2]
  BY <1>1, PushedHistory
<1>3. p = [session EXCEPT !.history = c]
  BY DEF Pushed
<1> HIDE DEF c
<1>4. p \in Session /\ p.history = c /\ p.driver = session.driver /\ p.skill = session.skill
  BY <1>2, <1>3 DEF Session
<1> HIDE DEF p, h
<1>5. \A k : Remembers(p, k) => k = m \/ Remembers(session, k)
  BY <1>2, <1>4 DEF Remembers, h
<1> QED  BY <1>2, <1>4, <1>5 DEF p, h

-----------------------------------------------------------------------------
(* The Telegram bot's map of sessions *)

(* The map is within its cap, with one session for a chat at most.         *)
TableOK ==
  /\ table \in Seq(Messages) /\ Len(table) <= SessionCap
  /\ \A i, j \in DOMAIN table : ChatOf[table[i]] = ChatOf[table[j]] => i = j

(* The session is in the map.                                              *)
InTable(s) == \E i \in DOMAIN table : table[i] = s

(* The first elements of a sequence.                                       *)
LEMMA FrontOf ==
  ASSUME NEW S, NEW s \in Seq(S), NEW d \in 0 .. Len(s)
  PROVE  /\ SubSeq(s, 1, d) \in Seq(S) /\ Len(SubSeq(s, 1, d)) = d
         /\ \A i \in 1 .. d : SubSeq(s, 1, d)[i] = s[i]
<1> DEFINE m == 1
<1>1. m \in Int /\ d \in Int /\ \A i \in m .. d : s[i] \in S
  BY ElementOfSeq, LenProperties
<1> HIDE DEF m
<1>2. /\ SubSeq(s, m, d) \in Seq(S)
      /\ Len(SubSeq(s, m, d)) = IF m <= d THEN d - m + 1 ELSE 0
      /\ \A i \in 1 .. d - m + 1 : SubSeq(s, m, d)[i] = s[m + i - 1]
  BY <1>1, SubSeqProperties
<1>3. d \in Nat /\ d - m + 1 = d /\ (~(m <= d) => d = 0) /\ \A i \in 1 .. d : m + i - 1 = i
  BY LenProperties DEF m
<1>4. Len(SubSeq(s, m, d)) = d
  BY <1>2, <1>3
<1>5. \A i \in 1 .. d : SubSeq(s, m, d)[i] = s[i]
  BY <1>2, <1>3
<1> QED  BY <1>2, <1>4, <1>5 DEF m

(* The map without one of its places.                                      *)
LEMMA WithoutPlace ==
  ASSUME TableOK, NEW i \in DOMAIN table
  PROVE  /\ Without(i) \in Seq(Messages) /\ Len(Without(i)) = Len(table) - 1
         /\ \A j \in 1 .. Len(table) - 1 :
              Without(i)[j] = IF j < i THEN table[j] ELSE table[j + 1]
<1> DEFINE n == Len(table)
           a == SubSeq(table, 1, i - 1)
           b == SubSeq(table, i + 1, n)
<1>1. table \in Seq(Messages) /\ n \in Nat /\ i \in 1 .. n /\ i - 1 \in 0 .. n /\ i \in 0 .. n
  BY LenProperties DEF TableOK
<1>2. a \in Seq(Messages) /\ Len(a) = i - 1 /\ \A j \in 1 .. i - 1 : a[j] = table[j]
  <2>1. \A d \in 0 .. n : LET f == SubSeq(table, 1, d) IN
          f \in Seq(Messages) /\ Len(f) = d /\ \A j \in 1 .. d : f[j] = table[j]
    BY <1>1, FrontOf
  <2> QED  BY <1>1, <2>1
<1>3. b \in Seq(Messages) /\ Len(b) = n - i /\ \A j \in 1 .. n - i : b[j] = table[j + i]
  BY <1>1, RestOf DEF Rest
<1>4. Without(i) = a \o b
  BY DEF Without
<1> HIDE DEF a, b
<1>5. /\ a \o b \in Seq(Messages) /\ Len(a \o b) = Len(a) + Len(b)
      /\ \A j \in 1 .. Len(a) + Len(b) :
           (a \o b)[j] = IF j <= Len(a) THEN a[j] ELSE b[j - Len(a)]
  BY <1>2, <1>3, ConcatProperties
<1>6. Len(a) + Len(b) = n - 1
  BY <1>1, <1>2, <1>3
<1>7. ASSUME NEW j \in 1 .. n - 1
      PROVE  (a \o b)[j] = IF j < i THEN table[j] ELSE table[j + 1]
  <2>1. CASE j < i
    <3>1. j \in 1 .. i - 1 /\ j <= Len(a)
      BY <1>1, <1>2, <2>1
    <3> QED  BY <1>2, <1>5, <1>6, <2>1, <3>1
  <2>2. CASE ~(j < i)
    <3>1. j - Len(a) \in 1 .. n - i /\ ~(j <= Len(a)) /\ j - Len(a) + i = j + 1
      BY <1>1, <1>2, <2>2
    <3> QED  BY <1>3, <1>5, <1>6, <2>2, <3>1
  <2> QED  BY <2>1, <2>2
<1> QED  BY <1>4, <1>5, <1>6, <1>7

(* getSession() returns a session of the chat, and keeps the map in order. *)
LEMMA SeenTable ==
  ASSUME TableOK, NEW m \in Messages
  PROVE  /\ SessionOf(m) \in Messages /\ ChatOf[SessionOf(m)] = ChatOf[m]
         /\ SessionOf(m) = m \/ InTable(SessionOf(m))
         /\ Seen(m) \in Seq(Messages) /\ Len(Seen(m)) <= SessionCap
         /\ \A i, j \in DOMAIN Seen(m) : ChatOf[Seen(m)[i]] = ChatOf[Seen(m)[j]] => i = j
         /\ \A i \in DOMAIN Seen(m) : Seen(m)[i] = SessionOf(m) \/ InTable(Seen(m)[i])
<1> DEFINE n == Len(table)
           s == SessionOf(m)
           q == Seen(m)
<1>1. /\ table \in Seq(Messages) /\ n \in Nat /\ n <= SessionCap /\ DOMAIN table = 1 .. n
      /\ SessionCap \in Nat /\ SessionCap > 0
      /\ \A i \in 1 .. n : table[i] \in Messages /\ InTable(table[i])
      /\ \A i, j \in 1 .. n : ChatOf[table[i]] = ChatOf[table[j]] => i = j
  BY LenProperties, ElementOfSeq, ChatAssumption DEF TableOK, InTable
<1>e. ASSUME NEW w \in Seq(Messages), Len(w) < SessionCap, s \in Messages, q = Append(w, s),
             ChatOf[s] = ChatOf[m],
             \A i \in 1 .. Len(w) : InTable(w[i]) /\ ChatOf[w[i]] # ChatOf[m],
             \A i, j \in 1 .. Len(w) : ChatOf[w[i]] = ChatOf[w[j]] => i = j
      PROVE  /\ q \in Seq(Messages) /\ Len(q) <= SessionCap
             /\ \A i, j \in DOMAIN q : ChatOf[q[i]] = ChatOf[q[j]] => i = j
             /\ \A i \in DOMAIN q : q[i] = s \/ InTable(q[i])
  <2> HIDE DEF s, q
  <2>1. /\ Len(w) \in Nat /\ q \in Seq(Messages) /\ Len(q) = Len(w) + 1
        /\ \A i \in 1 .. Len(w) : q[i] = w[i]
        /\ q[Len(w) + 1] = s
    BY <1>e, AppendProperties, LenProperties
  <2>2. DOMAIN q = 1 .. Len(w) + 1
    BY <2>1, LenProperties
  <2>3. \A i \in DOMAIN q : i \in 1 .. Len(w) \/ i = Len(w) + 1
    BY <2>1, <2>2
  <2>4. Len(q) <= SessionCap
    BY <1>1, <1>e, <2>1
  <2>5. \A i \in DOMAIN q : q[i] = s \/ InTable(q[i])
    BY <1>e, <2>1, <2>3
  <2>6. ASSUME NEW i \in DOMAIN q, NEW j \in DOMAIN q, ChatOf[q[i]] = ChatOf[q[j]]
        PROVE  i = j
    <3>1. CASE i \in 1 .. Len(w) /\ j \in 1 .. Len(w)
      BY <1>e, <2>1, <2>6, <3>1
    <3>2. CASE i \in 1 .. Len(w) /\ j = Len(w) + 1
      BY <1>e, <2>1, <2>6, <3>2
    <3>3. CASE i = Len(w) + 1 /\ j \in 1 .. Len(w)
      BY <1>e, <2>1, <2>6, <3>3
    <3> QED  BY <2>3, <3>1, <3>2, <3>3
  <2> QED  BY <2>1, <2>4, <2>5, <2>6
<1>2. CASE Known(m) = {}
  <2>1. s = m /\ \A i \in 1 .. n : ChatOf[table[i]] # ChatOf[m]
    BY <1>1, <1>2 DEF SessionOf, Known
  <2>2. CASE n >= SessionCap
    <3>1. q = Append(Tail(table), m) /\ table # <<>>
      BY <1>1, <1>2, <2>2 DEF Seen
    <3>2. /\ Tail(table) \in Seq(Messages) /\ Len(Tail(table)) = n - 1
          /\ \A i \in 1 .. n - 1 : Tail(table)[i] = table[i + 1] /\ i + 1 \in 1 .. n
      <4>1. /\ Tail(table) \in Seq(Messages) /\ Len(Tail(table)) = n - 1
            /\ \A i \in 1 .. Len(Tail(table)) : Tail(table)[i] = table[i + 1]
        BY <1>1, <3>1, HeadTailProperties
      <4> QED  BY <1>1, <4>1
    <3> DEFINE w == Tail(table)
    <3> HIDE DEF w
    <3>3. /\ \A i \in 1 .. Len(w) : InTable(w[i]) /\ ChatOf[w[i]] # ChatOf[m]
          /\ \A i, j \in 1 .. Len(w) : ChatOf[w[i]] = ChatOf[w[j]] => i = j
          /\ Len(w) < SessionCap /\ w \in Seq(Messages)
      BY <1>1, <2>1, <3>2 DEF w
    <3>4. q = Append(w, s)
      BY <2>1, <3>1 DEF w
    <3> QED  BY <1>e, <2>1, <3>3, <3>4
  <2>3. CASE ~(n >= SessionCap)
    <3>1. q = Append(table, s) /\ n < SessionCap
      BY <1>1, <1>2, <2>1, <2>3 DEF Seen
    <3> QED  BY <1>1, <1>e, <2>1, <3>1
  <2> QED  BY <2>2, <2>3
<1>3. CASE Known(m) # {}
  <2> DEFINE i == Place(m)
             w == Without(i)
  <2>1. i \in 1 .. n /\ ChatOf[table[i]] = ChatOf[m]
    BY <1>1, <1>3 DEF Place, Known
  <2>2. s = table[i] /\ q = Append(w, s)
    BY <1>3 DEF SessionOf, Seen
  <2> HIDE DEF i
  <2>3. /\ w \in Seq(Messages) /\ Len(w) = n - 1
        /\ \A j \in 1 .. n - 1 : w[j] = IF j < i THEN table[j] ELSE table[j + 1]
    BY <1>1, <2>1, WithoutPlace
  <2> HIDE DEF w
  <2>4. \A j \in 1 .. n - 1 : \E k \in 1 .. n :
          w[j] = table[k] /\ k # i /\ k = IF j < i THEN j ELSE j + 1
    BY <1>1, <2>1, <2>3
  <2>5. /\ \A j \in 1 .. Len(w) : InTable(w[j]) /\ ChatOf[w[j]] # ChatOf[m]
        /\ \A j, k \in 1 .. Len(w) : ChatOf[w[j]] = ChatOf[w[k]] => j = k
    <3>1. \A j \in 1 .. n - 1 : InTable(w[j]) /\ ChatOf[w[j]] # ChatOf[m]
      BY <1>1, <2>1, <2>4
    <3>2. ASSUME NEW j \in 1 .. n - 1, NEW k \in 1 .. n - 1, ChatOf[w[j]] = ChatOf[w[k]]
          PROVE  j = k
      <4>1. PICK a \in 1 .. n : w[j] = table[a] /\ a = IF j < i THEN j ELSE j + 1
        BY <2>4
      <4>2. PICK b \in 1 .. n : w[k] = table[b] /\ b = IF k < i THEN k ELSE k + 1
        BY <2>4
      <4>3. a = b
        BY <1>1, <3>2, <4>1, <4>2
      <4> QED  BY <1>1, <2>1, <4>1, <4>2, <4>3
    <3> QED  BY <2>3, <3>1, <3>2
  <2>6. s \in Messages /\ ChatOf[s] = ChatOf[m] /\ InTable(s) /\ Len(w) < SessionCap
    BY <1>1, <2>1, <2>2, <2>3
  <2> HIDE DEF s, q
  <2>7. /\ q \in Seq(Messages) /\ Len(q) <= SessionCap
        /\ \A a, b \in DOMAIN q : ChatOf[q[a]] = ChatOf[q[b]] => a = b
        /\ \A a \in DOMAIN q : q[a] = s \/ InTable(q[a])
    BY <1>e, <2>2, <2>3, <2>5, <2>6
  <2> QED  BY <2>6, <2>7 DEF s, q
<1> QED  BY <1>2, <1>3

-----------------------------------------------------------------------------
(* The invariant *)

(* The types of the options of a run.                                      *)
Options == [driver : 0 .. N, skill : 0 .. N, heart : {"none", "session", "skill", "environment"}]

(* The types of a turn's fields.                                           *)
TurnType ==
  [pc : {"none", "begin", "task", "reply", "status", "run", "post", "attach", "stream",
         "final", "fallback", "error", "done", "gone"},
   line : Lines, session : 0 .. N, used : Options,
   past : BOOLEAN, shows : {"nothing", "working", "end", "apart"},
   edit : BOOLEAN, id : BOOLEAN, broken : BOOLEAN, missed : BOOLEAN]

(* The variables whose types say no more than that.                        *)
PlainTypes ==
  /\ front \in Fronts /\ mode \in {"local", "daemon"}
  /\ up \in {"up", "ended", "died"}
  /\ socket \in BOOLEAN /\ overlap \in BOOLEAN
  /\ next \in 1 .. N + 1 /\ batch \in 0 .. N /\ confirmed \subseteq Messages
  /\ daemon \in [Messages -> {"none", "running", "over", "aborted"}]
  /\ active \in 0 .. N /\ paused \in BOOLEAN
  /\ starts \in [Messages -> Nat] /\ restarts \in 0 .. MaxRestarts

(* Sessions have their type, and histories of whole exchanges.             *)
SessionsType == sessions \in [0 .. N -> Session] /\ \A s \in 0 .. N : Whole(sessions[s].history)

(* The vendors forget a prefix of the messages; each message before next   *)
(* has been begun, and by this process if a later one is not next.         *)
Order ==
  /\ \E c \in 0 .. N : confirmed = 1 .. c /\ c < next
  /\ front = "slack" => confirmed = 1 .. next - 1
  /\ front = "repl" => confirmed = {}
  /\ \A m \in Messages : /\ m < next => starts[m] > 0
                         /\ starts[m] <= restarts + 1
                         /\ m >= next /\ up = "up" => starts[m] <= restarts

(* No handler runs any more, or yet.                                       *)
Out == {"none", "done", "gone"}

(* Before the client knows the run's id.                                   *)
Before == {"begin", "task", "reply", "status", "run", "post"}

(* After the run.                                                          *)
After == {"final", "fallback", "error", "done"}

(* While the run is under way, as in Running.                              *)
RunPcs == {"run", "post", "attach", "stream"}

(* What holds of a turn t of message m whose run on the daemon is d.       *)
TurnSound(m, t, d) ==
  /\ t.pc \in {"none", "gone"} =>
       t.line = "ignored" /\ t.session = 0 /\ t.used.heart = "none" /\ ~t.past
  /\ t.pc = "none" => ~t.edit
  /\ t.session <= m /\ (t.session # 0 => ChatOf[t.session] = ChatOf[m])
  /\ t.session = 0 /\ t.line \in DriverLines \union SkillLines => front = "repl"
  /\ t.pc \in {"reply", "task"} => t.line \notin Asks
  /\ t.pc = "status" => front # "repl"
  /\ t.pc = "done" /\ t.line \in Asks /\ front # "repl" =>
       t.shows \in {"end", "apart"} \/ t.missed
  /\ t.pc \in Before => ~t.id
  /\ t.pc \in After /\ d = "running" => ~t.id \/ t.broken
  /\ t.past => t.pc \in After

(* It holds of every turn, and those of messages to come are new.          *)
TurnsSound ==
  \A m \in Messages : /\ TurnSound(m, turn[m], daemon[m])
                      /\ m >= next => turn[m].pc = "none"

(* A session remembers answers of its own turns; none of before a /reset.  *)
MemoryKept ==
  \A m \in Messages :
    /\ \A s \in 0 .. N : Remembers(sessions[s], m) => turn[m].session = s /\ turn[m].pc \in After
    /\ turn[m].past => ~Remembers(sessions[turn[m].session], m)

(* A session that a message can still reach.                               *)
Live(s) ==
  s = 0 \/ InTable(s) \/ \E m \in Messages : turn[m].pc \notin Out /\ turn[m].session = s

(* Its settings are at least as new as the last of its lines.              *)
SettingsLast ==
  \A s \in 0 .. N : Live(s) =>
    \A j \in Messages : turn[j].session = s =>
      /\ turn[j].line \in DriverLines => sessions[s].driver >= j
      /\ turn[j].line \in SkillLines => sessions[s].skill >= j

(* So are the options of a turn, but for the lines that came after it.     *)
UsedLast ==
  \A j, m \in Messages :
    turn[j].session = turn[m].session /\ j < m /\ turn[m].used.heart # "none" =>
      /\ turn[j].line \in DriverLines => turn[m].used.driver >= j
      /\ turn[j].line \in SkillLines => turn[m].used.skill >= j

(* The terminal: readline is paused only with a turn in active; that turn  *)
(* is under way, and none under way is younger; without overlaps it is the *)
(* only one.  Lines that have not gone on yet are younger than all turns   *)
(* under way, so the next turn to begin will be the youngest.              *)
ActiveRuns ==
  front = "repl" =>
    /\ paused => active # 0
    /\ active # 0 => turn[active].pc \in RunPcs
    /\ \A k \in Messages : turn[k].pc \in RunPcs =>
         /\ active # 0 => k <= active
         /\ ~overlap => active = k
         /\ \A j \in Messages : turn[j].pc = "begin" => k < j

(* A session of the map is of a message that has come.                     *)
TableBehind == \A i \in DOMAIN table : table[i] < next

(* The inductive invariant.                                                *)
Inv ==
  /\ PlainTypes /\ turn \in [Messages -> TurnType] /\ SessionsType /\ TableOK
  /\ Order /\ TurnsSound /\ MemoryKept /\ SettingsLast /\ UsedLast /\ ActiveRuns /\ TableBehind

(* The first parts are TypeOK.                                             *)
LEMMA InvTypes == Inv => TypeOK
BY DEF Inv, PlainTypes, SessionsType, TableOK, TypeOK, TurnType, Options

(* What a new turn is.                                                     *)
LEMMA NewTurnType ==
  /\ NewTurn \in TurnType /\ NewTurn.pc = "none" /\ NewTurn.line = "ignored"
  /\ NewTurn.session = 0 /\ NewTurn.used = NoOptions /\ NewTurn.past = FALSE
  /\ NewTurn.edit = FALSE /\ NewTurn.id = FALSE
  /\ NoOptions \in Options /\ NoOptions.heart = "none"
BY SessionsAssumption DEF NewTurn, NoOptions, TurnType, Options, Lines

(* The invariant holds at first.                                           *)
LEMMA InitInv == Init => Inv
<1> SUFFICES ASSUME Init PROVE Inv
  OBVIOUS
<1>1. PlainTypes
  <2>1. /\ 1 \in 1 .. N + 1 /\ 0 \in 0 .. N /\ 0 \in 0 .. MaxRestarts
    BY SessionsAssumption, ChatAssumption
  <2>2. /\ daemon \in [Messages -> {"none", "running", "over", "aborted"}]
        /\ starts \in [Messages -> Nat]
    BY DEF Init
  <2> QED  BY <2>1, <2>2 DEF Init, PlainTypes
<1>2. turn \in [Messages -> TurnType] /\ \A m \in Messages : turn[m] = NewTurn
  BY NewTurnType DEF Init
<1>3. SessionsType /\ \A s \in 0 .. N : sessions[s] = NewSession
  BY NewSessionType DEF Init, SessionsType
<1>4. TableOK /\ TableBehind /\ \A s : ~InTable(s)
  <2>1. <<>> \in Seq(Messages) /\ Len(<<>>) = 0 /\ DOMAIN <<>> = {}
    OBVIOUS
  <2> QED  BY <2>1, ChatAssumption DEF Init, TableOK, InTable, TableBehind
<1>5. Order
  <2>1. confirmed = 1 .. 0 /\ next = 1 /\ 0 \in 0 .. N
    BY SessionsAssumption DEF Init
  <2> QED  BY <2>1 DEF Init, Order, Messages
<1>6. TurnsSound
  <2> SUFFICES ASSUME NEW m \in Messages
               PROVE  TurnSound(m, turn[m], daemon[m]) /\ turn[m].pc = "none"
    BY DEF TurnsSound
  <2>1. 0 <= m
    BY DEF Messages
  <2> QED
    BY <1>2, <2>1, NewTurnType DEF TurnSound, After, Before, DriverLines, SkillLines
<1>7. MemoryKept
  <2>1. \A s \in 0 .. N : \A m : ~Remembers(sessions[s], m)
    BY <1>3, NewSessionType DEF Remembers
  <2> QED  BY <1>2, <2>1, NewTurnType DEF MemoryKept
<1>8. SettingsLast /\ UsedLast
  BY <1>2, NewTurnType DEF SettingsLast, UsedLast, DriverLines, SkillLines
<1>9. ActiveRuns
  BY <1>2, NewTurnType DEF ActiveRuns, RunPcs, Init, Messages
<1> QED  BY <1>1, <1>2, <1>3, <1>4, <1>5, <1>6, <1>7, <1>8, <1>9 DEF Inv

-----------------------------------------------------------------------------
(* A step of one turn *)

(* What turn m may become.                                                 *)
Move(m, t) ==
  /\ t \in TurnType
  /\ t.line = turn[m].line /\ t.session = turn[m].session /\ t.past = turn[m].past
  /\ t.pc = "none" <=> turn[m].pc = "none"
  /\ t.pc \notin Out => turn[m].pc \notin Out
  /\ turn[m].pc \in After => t.pc \in After
  /\ TurnSound(m, t, daemon'[m])
  /\ \/ t.used.heart = "none" \/ t.used = turn[m].used
     \/ /\ turn[m].pc \notin Out
        /\ t.used.driver = sessions[turn[m].session].driver
        /\ t.used.skill = sessions[turn[m].session].skill

(* Its exchange is pushed when its run has ended, and never again.         *)
Pushes(m, t) ==
  /\ turn[m].pc \in {"run", "stream"} /\ t.pc \in After
  /\ sessions' = [sessions EXCEPT ![turn[m].session] = Pushed(@, m)]

(* What becomes of the terminal's AbortController and of readline: they    *)
(* stay, but for a prompt that may resume it; turn m lets go; or it is the *)
(* oldest line that waits and takes them.                                  *)
ActiveStep(m, t) ==
  /\ t.pc = "begin" => turn[m].pc = "begin"
  /\ \/ /\ active' = active /\ paused' \in {paused, FALSE} /\ overlap' = overlap
        /\ front # "repl" \/ (t.pc \in RunPcs <=> turn[m].pc \in RunPcs)
     \/ /\ active' = 0 /\ paused' = FALSE /\ overlap' = overlap
        /\ turn[m].pc \in RunPcs /\ t.pc \notin RunPcs
     \/ /\ active' = m /\ paused' = TRUE /\ overlap' = (overlap \/ Running # {})
        /\ turn[m].pc = "begin" /\ \A k \in 1 .. m - 1 : turn[k].pc # "begin"
        /\ t.pc \in RunPcs

(* A step of turn m that makes it t, and touches no other turn.            *)
Moves(m, t) ==
  /\ Move(m, t) /\ turn' = [turn EXCEPT ![m] = t]
  /\ sessions' = sessions \/ Pushes(m, t)
  /\ daemon' \in [Messages -> {"none", "running", "over", "aborted"}]
  /\ \A k \in Messages \ {m} : daemon'[k] = daemon[k]
  /\ ActiveStep(m, t)
  /\ up' \in {up, "ended"} \* after an exit
  /\ UNCHANGED <<front, mode, socket, next, batch, table, confirmed, starts, restarts>>

(* What a step of a turn does to the sessions.                             *)
LEMMA MovesSessions ==
  ASSUME Inv, NEW m \in Messages, NEW t, Moves(m, t)
  PROVE  /\ SessionsType'
         /\ \A s \in 0 .. N :
              /\ sessions'[s].driver = sessions[s].driver /\ sessions'[s].skill = sessions[s].skill
              /\ \A k : Remembers(sessions'[s], k) =>
                          \/ Remembers(sessions[s], k)
                          \/ k = m /\ s = turn[m].session /\ t.pc \in After
<1>1. SessionsType /\ turn[m].session \in 0 .. N
  BY DEF Inv, TurnType
<1>2. CASE sessions' = sessions
  BY <1>1, <1>2 DEF SessionsType
<1>3. CASE Pushes(m, t)
  <2> DEFINE s == turn[m].session
             p == Pushed(sessions[s], m)
  <2>1. /\ p \in Session /\ Whole(p.history)
        /\ p.driver = sessions[s].driver /\ p.skill = sessions[s].skill
        /\ \A k : Remembers(p, k) => k = m \/ Remembers(sessions[s], k)
    BY <1>1, PushedSession DEF SessionsType
  <2>2. sessions' = [sessions EXCEPT ![s] = p] /\ t.pc \in After
    BY <1>3 DEF Pushes
  <2> HIDE DEF p
  <2>3. \A x \in 0 .. N : sessions'[x] = IF x = s THEN p ELSE sessions[x]
    BY <1>1, <2>2 DEF SessionsType
  <2>4. SessionsType'
    BY <1>1, <2>1, <2>2, <2>3 DEF SessionsType
  <2> QED  BY <2>1, <2>2, <2>3, <2>4
<1> QED  BY <1>2, <1>3 DEF Moves

(* It keeps the invariant.                                                 *)
LEMMA MovesKeepInv ==
  ASSUME Inv, NEW m \in Messages, NEW t, Moves(m, t)
  PROVE  Inv'
<1>m. Move(m, t)
  BY DEF Moves
<1>t. \A k \in Messages : turn'[k] = IF k = m THEN t ELSE turn[k]
  BY DEF Moves, Inv
<1>u. /\ UNCHANGED <<front, mode, socket, next, batch, table, confirmed, starts, restarts>>
      /\ up' \in {up, "ended"}
      /\ \A k \in Messages \ {m} : daemon'[k] = daemon[k]
  BY DEF Moves
<1>f. \A k \in Messages : /\ turn'[k].line = turn[k].line /\ turn'[k].session = turn[k].session
                          /\ turn'[k].past = turn[k].past
                          /\ turn'[k].pc \notin Out => turn[k].pc \notin Out
                          /\ turn[k].pc \in After => turn'[k].pc \in After
                          /\ turn'[k].pc = "none" <=> turn[k].pc = "none"
  BY <1>m, <1>t DEF Move
<1>s. /\ SessionsType'
      /\ \A s \in 0 .. N :
           /\ sessions'[s].driver = sessions[s].driver /\ sessions'[s].skill = sessions[s].skill
           /\ \A k : Remembers(sessions'[s], k) =>
                       \/ Remembers(sessions[s], k)
                       \/ k = m /\ s = turn[m].session /\ t.pc \in After
  BY MovesSessions
<1>1. PlainTypes'
  <2>1. active' \in 0 .. N
    <3>1. active' \in {active, 0, m}
      BY DEF Moves, ActiveStep
    <3> QED  BY <3>1, SessionsAssumption DEF Inv, PlainTypes, Messages
  <2>2. overlap' = overlap \/ overlap' = (overlap \/ Running # {})
    BY DEF Moves, ActiveStep
  <2>3. overlap' \in BOOLEAN
    BY <2>2, Zenon DEF Inv, PlainTypes
  <2>4. paused' \in BOOLEAN
    BY DEF Moves, ActiveStep, Inv, PlainTypes
  <2> QED  BY <1>u, <2>1, <2>3, <2>4 DEF Inv, PlainTypes, Moves
<1>2. turn' \in [Messages -> TurnType]
  BY <1>m DEF Inv, Moves, Move
<1>3. TableOK' /\ TableBehind' /\ \A s : InTable(s)' <=> InTable(s)
  BY <1>u DEF Inv, TableOK, TableBehind, InTable
<1>4. Order'
  BY <1>u DEF Inv, Order
<1>5. TurnsSound'
  <2> SUFFICES ASSUME NEW k \in Messages
               PROVE  TurnSound(k, turn[k], daemon[k])' /\ (k >= next => turn[k].pc = "none")'
    BY DEF TurnsSound
  <2>1. (k >= next => turn[k].pc = "none")'
    BY <1>u, <1>f DEF Inv, TurnsSound
  <2>2. CASE k = m
    <3>1. turn'[k] = t /\ TurnSound(k, t, daemon'[k])
      BY <1>m, <1>t, <2>2 DEF Move
    <3> QED  BY <1>u, <2>1, <3>1 DEF TurnSound
  <2>3. CASE k # m
    <3>1. TurnSound(k, turn[k], daemon[k]) /\ turn'[k] = turn[k] /\ daemon'[k] = daemon[k]
      BY <1>u, <1>t, <2>3 DEF Inv, TurnsSound
    <3> QED  BY <1>u, <2>1, <3>1 DEF TurnSound
  <2> QED  BY <2>2, <2>3
<1>6. MemoryKept'
  <2> SUFFICES ASSUME NEW k \in Messages
               PROVE  /\ \A s \in 0 .. N : Remembers(sessions'[s], k) =>
                           turn'[k].session = s /\ turn'[k].pc \in After
                      /\ turn'[k].past => ~Remembers(sessions'[turn'[k].session], k)
    BY DEF MemoryKept, Remembers
  <2>0. turn[k].session \in 0 .. N /\ (turn[k].past => turn[k].pc \in After)
    BY DEF Inv, TurnType, TurnsSound, TurnSound
  <2>1. ASSUME NEW s \in 0 .. N, Remembers(sessions'[s], k)
        PROVE  turn'[k].session = s /\ turn'[k].pc \in After
    <3>1. CASE Remembers(sessions[s], k)
      BY <1>f, <3>1 DEF Inv, MemoryKept
    <3>2. CASE k = m /\ s = turn[m].session /\ t.pc \in After
      BY <1>f, <1>t, <3>2
    <3> QED  BY <1>s, <2>1, <3>1, <3>2
  <2>2. ASSUME turn'[k].past, Remembers(sessions'[turn'[k].session], k) PROVE FALSE
    <3>1. turn[k].past /\ turn'[k].session = turn[k].session
      BY <1>f, <2>2
    <3>2. ~Remembers(sessions[turn[k].session], k)
      BY <3>1 DEF Inv, MemoryKept
    <3>3. k = m /\ sessions' # sessions
      BY <1>s, <2>0, <2>2, <3>1, <3>2
    <3>4. turn[m].pc \in {"run", "stream"}
      BY <3>3 DEF Moves, Pushes
    <3> QED  BY <2>0, <3>1, <3>3, <3>4 DEF After
  <2> QED  BY <2>1, <2>2
<1>l. \A s : Live(s)' => Live(s)
  BY <1>f, <1>3 DEF Live
<1>7. SettingsLast'
  <2> SUFFICES ASSUME NEW s \in 0 .. N, Live(s)', NEW j \in Messages, turn'[j].session = s
               PROVE  /\ turn'[j].line \in DriverLines => sessions'[s].driver >= j
                      /\ turn'[j].line \in SkillLines => sessions'[s].skill >= j
    BY DEF SettingsLast
  <2>1. Live(s)
    BY <1>l
  <2> QED  BY <1>f, <1>s, <2>1 DEF Inv, SettingsLast
<1>8. UsedLast'
  <2> SUFFICES ASSUME NEW j \in Messages, NEW k \in Messages,
                      turn'[j].session = turn'[k].session, j < k, turn'[k].used.heart # "none"
               PROVE  /\ turn'[j].line \in DriverLines => turn'[k].used.driver >= j
                      /\ turn'[j].line \in SkillLines => turn'[k].used.skill >= j
    BY DEF UsedLast
  <2>1. turn[j].session = turn[k].session /\ turn'[j].line = turn[j].line
    BY <1>f
  <2>2. CASE turn'[k].used = turn[k].used
    BY <2>1, <2>2 DEF Inv, UsedLast
  <2>3. CASE turn'[k].used # turn[k].used
    <3>1. /\ k = m /\ turn[k].pc \notin Out
          /\ turn'[k].used.driver = sessions[turn[k].session].driver
          /\ turn'[k].used.skill = sessions[turn[k].session].skill
      BY <1>m, <1>t, <2>3 DEF Move
    <3>2. Live(turn[k].session) /\ turn[k].session \in 0 .. N
      BY <3>1 DEF Live, Inv, TurnType
    <3> QED  BY <2>1, <3>1, <3>2 DEF Inv, SettingsLast
  <2> QED  BY <2>2, <2>3
<1>9. ActiveRuns'
  <2> SUFFICES ASSUME front = "repl" PROVE ActiveRuns'
    BY <1>u DEF ActiveRuns
  <2>0. /\ paused => active # 0
        /\ active # 0 => turn[active].pc \in RunPcs /\ active \in Messages
        /\ \A k \in Messages : turn[k].pc \in RunPcs =>
             /\ active # 0 => k <= active
             /\ ~overlap => active = k
             /\ \A j \in Messages : turn[j].pc = "begin" => k < j
        /\ m # 0 /\ m \in Nat
    BY SessionsAssumption DEF Inv, ActiveRuns, PlainTypes, Messages
  <2>1. \A j \in Messages : turn'[j].pc = "begin" => turn[j].pc = "begin"
    BY <1>t DEF Moves, ActiveStep
  <2>3. ASSUME active' = active, paused' \in {paused, FALSE}, overlap' = overlap,
               t.pc \in RunPcs <=> turn[m].pc \in RunPcs
        PROVE  ActiveRuns'
    <3>1. \A k \in Messages : turn'[k].pc \in RunPcs <=> turn[k].pc \in RunPcs
      BY <1>t, <2>3
    <3> QED  BY <2>0, <2>1, <2>3, <3>1 DEF ActiveRuns
  <2>4. ASSUME active' = 0, paused' = FALSE, overlap' = overlap,
               turn[m].pc \in RunPcs, t.pc \notin RunPcs
        PROVE  ActiveRuns'
    <3>1. \A k \in Messages : turn'[k].pc \in RunPcs => turn[k].pc \in RunPcs /\ k # m
      BY <1>t, <2>4
    <3>2. overlap \/ \A k \in Messages : turn'[k].pc \notin RunPcs
      BY <2>0, <2>4, <3>1
    <3> QED  BY <2>0, <2>1, <2>4, <3>1, <3>2 DEF ActiveRuns
  <2>5. ASSUME active' = m, overlap' = (overlap \/ Running # {}), turn[m].pc = "begin",
               \A k \in 1 .. m - 1 : turn[k].pc # "begin", t.pc \in RunPcs
        PROVE  ActiveRuns'
    <3>1. turn'[m].pc \in RunPcs /\ turn'[m].pc # "begin"
      BY <1>t, <2>5 DEF RunPcs
    <3>2. \A k \in Messages : turn'[k].pc \in RunPcs => k = m \/ (turn[k].pc \in RunPcs /\ k < m)
      BY <1>t, <2>0, <2>5
    <3>3. \A j \in Messages : turn'[j].pc = "begin" => turn[j].pc = "begin" /\ m < j
      BY <2>0, <2>1, <2>5, <3>1 DEF Messages
    <3>4. overlap' \/ \A k \in Messages : turn[k].pc \notin RunPcs
      BY <2>5 DEF Running, RunPcs
    <3> QED  BY <2>0, <2>5, <3>1, <3>2, <3>3, <3>4 DEF ActiveRuns, Messages
  <2> QED  BY <2>3, <2>4, <2>5 DEF Moves, ActiveStep
<1> QED  BY <1>s, <1>1, <1>2, <1>3, <1>4, <1>5, <1>6, <1>7, <1>8, <1>9 DEF Inv

-----------------------------------------------------------------------------
(* The steps of a turn are such moves *)

(* What the invariant says of one turn.                                    *)
LEMMA TurnFacts ==
  ASSUME Inv, NEW m \in Messages
  PROVE  /\ turn[m] \in TurnType /\ TurnSound(m, turn[m], daemon[m])
         /\ turn[m].session \in 0 .. N
         /\ daemon \in [Messages -> {"none", "running", "over", "aborted"}]
         /\ NoOptions \in Options /\ NoOptions.heart = "none"
BY NewTurnType DEF Inv, TurnsSound, TurnType, PlainTypes

(* A turn that is over.                                                    *)
LEMMA DoneFields ==
  ASSUME NEW r \in TurnType
  PROVE  LET x == Done(r) IN
         /\ x \in TurnType /\ x.pc = "done" /\ x.used = NoOptions
         /\ x.line = r.line /\ x.session = r.session /\ x.past = r.past
         /\ x.shows = r.shows /\ x.edit = r.edit /\ x.id = r.id
         /\ x.broken = r.broken /\ x.missed = r.missed
BY NewTurnType DEF Done, TurnType

(* What a turn may show, and where it may wait for the daemon or a message.*)
Shown == {"nothing", "working", "end", "apart"}
Onward == {"reply", "attach", "stream", "fallback", "error"}

(* One that is over and shows something.                                   *)
LEMMA DoneShown ==
  ASSUME NEW r \in TurnType, NEW shows \in Shown
  PROVE  LET x == [Done(r) EXCEPT !.shows = shows] IN
         /\ x \in TurnType /\ x.pc = "done" /\ x.used = NoOptions
         /\ x.line = r.line /\ x.session = r.session /\ x.past = r.past
         /\ x.shows = shows /\ x.id = r.id /\ x.broken = r.broken /\ x.missed = r.missed
<1> DEFINE d == Done(r)
<1>1. /\ d \in TurnType /\ d.pc = "done" /\ d.used = NoOptions
      /\ d.line = r.line /\ d.session = r.session /\ d.past = r.past
      /\ d.shows = r.shows /\ d.id = r.id /\ d.broken = r.broken /\ d.missed = r.missed
  BY DoneFields
<1> HIDE DEF d
<1>2. LET x == [d EXCEPT !.shows = shows] IN
        /\ x \in TurnType /\ x.pc = d.pc /\ x.used = d.used
        /\ x.line = d.line /\ x.session = d.session /\ x.past = d.past
        /\ x.shows = shows /\ x.id = d.id /\ x.broken = d.broken /\ x.missed = d.missed
  BY <1>1 DEF TurnType, Shown
<1> QED  BY <1>1, <1>2 DEF d

(* One that is over and could not show its end.                            *)
LEMMA DoneMissed ==
  ASSUME NEW r \in TurnType
  PROVE  LET x == [Done(r) EXCEPT !.missed = TRUE] IN
         /\ x \in TurnType /\ x.pc = "done" /\ x.used = NoOptions
         /\ x.line = r.line /\ x.session = r.session /\ x.past = r.past
         /\ x.id = r.id /\ x.broken = r.broken /\ x.missed = TRUE
<1> DEFINE d == Done(r)
<1>1. /\ d \in TurnType /\ d.pc = "done" /\ d.used = NoOptions
      /\ d.line = r.line /\ d.session = r.session /\ d.past = r.past
      /\ d.id = r.id /\ d.broken = r.broken
  BY DoneFields
<1> HIDE DEF d
<1>2. LET x == [d EXCEPT !.missed = TRUE] IN
        /\ x \in TurnType /\ x.pc = d.pc /\ x.used = d.used
        /\ x.line = d.line /\ x.session = d.session /\ x.past = d.past
        /\ x.id = d.id /\ x.broken = d.broken /\ x.missed = TRUE
  BY <1>1 DEF TurnType
<1> QED  BY <1>1, <1>2 DEF d

(* A turn that goes on to another await.                                   *)
LEMMA GoesFields ==
  ASSUME NEW r \in TurnType, NEW pc \in Onward
  PROVE  LET x == [r EXCEPT !.pc = pc] IN
         /\ x \in TurnType /\ x.pc = pc /\ x.used = r.used
         /\ x.line = r.line /\ x.session = r.session /\ x.past = r.past
         /\ x.shows = r.shows /\ x.id = r.id /\ x.broken = r.broken /\ x.missed = r.missed
BY DEF TurnType, Onward

(* The catch block, and the answer.                                        *)
LEMMA EndFields ==
  ASSUME NEW r \in TurnType
  PROVE  /\ LET x == Failed(r) IN
            /\ x \in TurnType /\ x.pc = (IF front = "repl" THEN "done" ELSE "error")
            /\ x.used = NoOptions
            /\ x.line = r.line /\ x.session = r.session /\ x.past = r.past
            /\ x.id = r.id /\ x.broken = r.broken
         /\ LET x == Answered(r) IN
            /\ x \in TurnType /\ x.used = NoOptions
            /\ x.pc \in (IF front = "repl" THEN {"done"} ELSE {"final", "fallback"})
            /\ x.line = r.line /\ x.session = r.session /\ x.past = r.past
            /\ x.id = r.id /\ x.broken = r.broken
<1>1. CASE front = "repl"
  <2> DEFINE x == [Done(r) EXCEPT !.shows = "end"]
  <2>1. Failed(r) = x /\ Answered(r) = x
    BY <1>1 DEF Failed, Answered
  <2>2. /\ x \in TurnType /\ x.pc = "done" /\ x.used = NoOptions
        /\ x.line = r.line /\ x.session = r.session /\ x.past = r.past
        /\ x.id = r.id /\ x.broken = r.broken
    <3>1. "end" \in Shown
      BY DEF Shown
    <3> QED  BY <3>1, DoneShown
  <2> HIDE DEF x
  <2> QED  BY <1>1, <2>1, <2>2
<1>2. CASE front # "repl"
  <2> DEFINE x(pc) == [r EXCEPT !.pc = pc, !.used = NoOptions]
  <2>1. Failed(r) = x("error") /\ \E pc \in {"final", "fallback"} : Answered(r) = x(pc)
    BY <1>2 DEF Failed, Answered
  <2>2. \A pc \in {"final", "fallback", "error"} :
          /\ x(pc) \in TurnType /\ x(pc).pc = pc /\ x(pc).used = NoOptions
          /\ x(pc).line = r.line /\ x(pc).session = r.session /\ x(pc).past = r.past
          /\ x(pc).id = r.id /\ x(pc).broken = r.broken
    <3> SUFFICES ASSUME NEW pc \in {"final", "fallback", "error"}
                 PROVE  /\ x(pc) \in TurnType /\ x(pc).pc = pc /\ x(pc).used = NoOptions
                        /\ x(pc).line = r.line /\ x(pc).session = r.session
                        /\ x(pc).past = r.past /\ x(pc).id = r.id /\ x(pc).broken = r.broken
      OBVIOUS
    <3> QED  BY NewTurnType DEF TurnType
  <2> HIDE DEF x
  <2> QED  BY <1>2, <2>1, <2>2
<1> QED  BY <1>1, <1>2

(* client.run() begins.                                                    *)
LEMMA BegunFields ==
  ASSUME Inv, NEW m \in Messages, NEW r \in TurnType
  PROVE  LET x == Begun(r, m) IN
         /\ x \in TurnType /\ x.pc \in {"run", "post"}
         /\ x.line = r.line /\ x.session = r.session /\ x.past = r.past
         /\ x.id = r.id
         /\ x.used.driver = sessions[r.session].driver /\ x.used.skill = sessions[r.session].skill
<1> DEFINE u == RunOptions(sessions[r.session], LineOf)
<1>1. sessions[r.session] \in Session
  BY DEF Inv, SessionsType, TurnType
<1>2. /\ u \in Options
      /\ u.driver = sessions[r.session].driver /\ u.skill = sessions[r.session].skill
  BY <1>1 DEF RunOptions, Options, Session
<1>3. Begun(r, m) = [r EXCEPT !.pc = IF mode = "daemon" THEN "post" ELSE "run", !.used = u]
  BY DEF Begun
<1> HIDE DEF u
<1>4. \A pc \in {"post", "run"} : LET x == [r EXCEPT !.pc = pc, !.used = u] IN
        /\ x \in TurnType /\ x.pc = pc /\ x.used = u
        /\ x.line = r.line /\ x.session = r.session /\ x.past = r.past /\ x.id = r.id
  BY <1>2 DEF TurnType
<1> QED  BY <1>2, <1>3, <1>4

(* What is enough for a move of a turn that is under way.                  *)
LEMMA IsMove ==
  ASSUME Inv, NEW m \in Messages, NEW t \in TurnType,
         t.line = turn[m].line, t.session = turn[m].session, t.past = turn[m].past,
         turn[m].pc \notin Out, t.pc \notin {"none", "gone", "status"},
         turn[m].pc \in After => t.pc \in After,
         \/ t.used.heart = "none" \/ t.used = turn[m].used
         \/ /\ t.used.driver = sessions[turn[m].session].driver
            /\ t.used.skill = sessions[turn[m].session].skill,
         t.pc \in {"reply", "task"} => t.line \notin Asks,
         t.pc = "done" /\ t.line \in Asks /\ front # "repl" =>
           t.shows \in {"end", "apart"} \/ t.missed,
         t.pc \in Before => ~t.id,
         t.pc \in After /\ daemon'[m] = "running" => ~t.id \/ t.broken
  PROVE  Move(m, t)
<1>1. TurnSound(m, turn[m], daemon[m])
  BY TurnFacts
<1>2. turn[m].pc # "none" /\ (turn[m].past => t.pc \in After)
  BY <1>1 DEF TurnSound, Out
<1>3. TurnSound(m, t, daemon'[m])
  BY <1>1, <1>2 DEF TurnSound
<1> QED  BY <1>2, <1>3 DEF Move

(* The catch block of a run.                                               *)
LEMMA FailsMoves ==
  ASSUME Inv, NEW m \in Messages, NEW r \in TurnType, Idle, turn[m].pc \in RunPcs,
         r.line = turn[m].line, r.session = turn[m].session, r.past = turn[m].past,
         daemon' \in [Messages -> {"none", "running", "over", "aborted"}],
         \A k \in Messages \ {m} : daemon'[k] = daemon[k],
         daemon'[m] = "running" => ~r.id \/ r.broken,
         turn' = [turn EXCEPT ![m] = Failed(r)], LetsGo,
         UNCHANGED <<sessions, unchangedByTurn>>
  PROVE  \E t : Moves(m, t)
<1> DEFINE t == Failed(r)
<1>1. /\ t \in TurnType /\ t.pc = (IF front = "repl" THEN "done" ELSE "error")
      /\ t.used = NoOptions
      /\ t.line = r.line /\ t.session = r.session /\ t.past = r.past
      /\ t.id = r.id /\ t.broken = r.broken
  BY EndFields
<1>2. turn' = [turn EXCEPT ![m] = t]
  OBVIOUS
<1> HIDE DEF t
<1>3. t.pc \in After /\ t.pc \notin Before /\ t.pc \notin RunPcs
      /\ t.pc \notin {"none", "gone", "status", "reply", "task"}
      /\ (front # "repl" => t.pc # "done")
  BY <1>1 DEF After, Before, RunPcs
<1>4. turn[m].pc \notin Out /\ t.used.heart = "none"
  BY <1>1, NewTurnType DEF RunPcs, Out
<1>5. Move(m, t)
  BY <1>1, <1>3, <1>4, IsMove
<1>6. ActiveStep(m, t)
  BY <1>3 DEF ActiveStep, LetsGo, unchangedByTurn, Before
<1>7. Moves(m, t)
  BY <1>2, <1>5, <1>6 DEF Moves, unchangedByTurn, history
<1> QED  BY <1>7

(* An answer.                                                              *)
LEMMA AnswersMoves ==
  ASSUME Inv, NEW m \in Messages, Idle, turn[m].pc \in {"run", "stream"}, Answers(m),
         daemon' \in [Messages -> {"none", "running", "over", "aborted"}],
         \A k \in Messages \ {m} : daemon'[k] = daemon[k],
         daemon'[m] = "running" => ~turn[m].id,
         UNCHANGED unchangedByTurn
  PROVE  \E t : Moves(m, t)
<1> DEFINE t == Answered(turn[m])
<1>0. turn[m] \in TurnType /\ turn[m].session \in 0 .. N
  BY TurnFacts
<1>1. /\ t \in TurnType /\ t.pc \in (IF front = "repl" THEN {"done"} ELSE {"final", "fallback"})
      /\ t.used = NoOptions
      /\ t.line = turn[m].line /\ t.session = turn[m].session /\ t.past = turn[m].past
      /\ t.id = turn[m].id /\ t.broken = turn[m].broken
  BY <1>0, EndFields
<1>2. turn' = [turn EXCEPT ![m] = t] /\ LetsGo
  BY DEF Answers, Inv
<1> HIDE DEF t
<1>3. t.pc \in After /\ t.pc \notin Before /\ t.pc \notin RunPcs
      /\ t.pc \notin {"none", "gone", "status", "reply", "task"}
      /\ (front # "repl" => t.pc # "done")
  BY <1>1 DEF After, Before, RunPcs
<1>4. turn[m].pc \notin Out /\ turn[m].pc \in RunPcs /\ t.used.heart = "none"
  BY <1>1, NewTurnType DEF RunPcs, Out
<1>5. Move(m, t)
  BY <1>1, <1>3, <1>4, IsMove
<1>6. ActiveStep(m, t)
  BY <1>2, <1>3, <1>4 DEF ActiveStep, LetsGo, unchangedByTurn, Before
<1>7. sessions' = sessions \/ Pushes(m, t)
  BY <1>3 DEF Answers, Pushes
<1>8. Moves(m, t)
  BY <1>2, <1>5, <1>6, <1>7 DEF Moves, unchangedByTurn, history
<1> QED  BY <1>8

(* A step that changes what the turn shows or waits for, and no more.      *)
LEMMA ShowsMoves ==
  ASSUME Inv, NEW m \in Messages, NEW t, Move(m, t), turn' = [turn EXCEPT ![m] = t],
         t.pc \in RunPcs <=> turn[m].pc \in RunPcs, t.pc = "begin" => turn[m].pc = "begin",
         paused' \in {paused, FALSE}, up' \in {up, "ended"},
         UNCHANGED <<sessions, daemon, active, front, mode, socket, next, batch, table, overlap,
                     confirmed, history>>
  PROVE  Moves(m, t)
<1>1. ActiveStep(m, t)
  BY DEF ActiveStep
<1>2. daemon \in [Messages -> {"none", "running", "over", "aborted"}]
  BY TurnFacts
<1> QED  BY <1>1, <1>2 DEF Moves, history

(* The turn's talk with the daemon.                                        *)
LEMMA DaemonMoves ==
  ASSUME Inv, NEW m \in Messages, Posts(m) \/ Attaches(m) \/ DaemonRunEnds(m)
  PROVE  \E t : Moves(m, t)
<1> DEFINE r == turn[m]
<1>0. /\ r \in TurnType /\ TurnSound(m, r, daemon[m]) /\ turn \in [Messages -> TurnType]
      /\ daemon \in [Messages -> {"none", "running", "over", "aborted"}]
  BY TurnFacts DEF Inv
<1>1. CASE /\ r.pc = "post"
           /\ daemon' = [daemon EXCEPT ![m] = "running"]
           /\ turn' = [turn EXCEPT ![m].pc = "attach", ![m].id = TRUE]
           /\ UNCHANGED <<active, paused, sessions, unchangedByTurn>>
  <2> DEFINE t == [r EXCEPT !.pc = "attach", !.id = TRUE]
  <2>1. /\ t \in TurnType /\ t.pc = "attach" /\ t.used = r.used
        /\ t.line = r.line /\ t.session = r.session /\ t.past = r.past
    BY <1>0 DEF TurnType
  <2>2. turn' = [turn EXCEPT ![m] = t]
    BY <1>0, <1>1
  <2> HIDE DEF t
  <2>3. Move(m, t)
    BY <1>1, <2>1, IsMove DEF Out, After, Before
  <2>4. ActiveStep(m, t)
    BY <1>1, <2>1 DEF ActiveStep, RunPcs, unchangedByTurn
  <2>5. Moves(m, t)
    BY <1>0, <1>1, <2>2, <2>3, <2>4 DEF Moves, unchangedByTurn, history
  <2> QED  BY <2>5
<1>2. CASE /\ At(m, {"post"})
           /\ daemon' \in {daemon, [daemon EXCEPT ![m] = "running"]}
           /\ Fails(m)
           /\ UNCHANGED <<sessions, unchangedByTurn>>
  <2>1. r.pc = "post" /\ Idle /\ r.pc \in RunPcs
    BY <1>2 DEF At, RunPcs
  <2>2. ~r.id
    BY <1>0, <2>1 DEF TurnSound, Before
  <2>3. /\ daemon' \in [Messages -> {"none", "running", "over", "aborted"}]
        /\ \A k \in Messages \ {m} : daemon'[k] = daemon[k]
    BY <1>0, <1>2
  <2>4. turn' = [turn EXCEPT ![m] = Failed(r)] /\ LetsGo
    BY <1>2 DEF Fails
  <2> QED  BY <1>0, <1>2, <2>1, <2>2, <2>3, <2>4, FailsMoves
<1>3. CASE Attaches(m) /\ Goes(m, "stream") /\ UNCHANGED <<active, paused>>
  <2> DEFINE t == [r EXCEPT !.pc = "stream"]
  <2>1. /\ t \in TurnType /\ t.pc = "stream" /\ t.used = r.used
        /\ t.line = r.line /\ t.session = r.session /\ t.past = r.past
    BY <1>0 DEF TurnType
  <2>2. /\ turn' = [turn EXCEPT ![m] = t] /\ r.pc = "attach"
        /\ UNCHANGED <<daemon, sessions, unchangedByTurn>>
    BY <1>0, <1>3 DEF Goes, Attaches, At
  <2> HIDE DEF t
  <2>3. Move(m, t)
    BY <2>1, <2>2, IsMove DEF Out, After, Before
  <2>4. ActiveStep(m, t)
    BY <1>3, <2>1, <2>2 DEF ActiveStep, RunPcs, unchangedByTurn
  <2>5. Moves(m, t)
    BY <1>0, <2>2, <2>3, <2>4 DEF Moves, unchangedByTurn, history
  <2> QED  BY <2>5
<1>4. CASE Attaches(m) /\ Breaks(m)
  <2> DEFINE b == [r EXCEPT !.broken = TRUE]
  <2>1. /\ b \in TurnType /\ b.broken = TRUE
        /\ b.line = r.line /\ b.session = r.session /\ b.past = r.past
    BY <1>0 DEF TurnType
  <2>2. /\ turn' = [turn EXCEPT ![m] = Failed(b)] /\ LetsGo
        /\ r.pc = "attach" /\ Idle /\ UNCHANGED <<daemon, sessions, unchangedByTurn>>
    BY <1>0, <1>4 DEF Breaks, Attaches, At
  <2> HIDE DEF b
  <2>3. r.pc \in RunPcs
    BY <2>2 DEF RunPcs
  <2> QED  BY <1>0, <2>1, <2>2, <2>3, FailsMoves
<1>5. CASE DaemonRunEnds(m)
  <2>1. /\ turn' = [turn EXCEPT ![m] = r]
        /\ UNCHANGED <<turn, active, paused, sessions, unchangedByTurn>>
        /\ daemon' \in [Messages -> {"none", "running", "over", "aborted"}]
        /\ \A k \in Messages \ {m} : daemon'[k] = daemon[k]
        /\ daemon'[m] # "running"
    BY <1>0, <1>5 DEF DaemonRunEnds
  <2>2. TurnSound(m, r, daemon'[m])
    BY <1>0, <2>1 DEF TurnSound
  <2>3. Move(m, r)
    BY <1>0, <2>2 DEF Move
  <2>4. ActiveStep(m, r)
    BY <2>1 DEF ActiveStep, unchangedByTurn
  <2>5. Moves(m, r)
    BY <2>1, <2>3, <2>4 DEF Moves, unchangedByTurn, history
  <2> QED  BY <2>5
<1> QED  BY <1>1, <1>2, <1>3, <1>4, <1>5 DEF Posts, Attaches, At

(* The end of a run.                                                       *)
LEMMA RunEndsMoves ==
  ASSUME Inv, NEW m \in Messages, LocalRunEnds(m) \/ StreamEnds(m)
  PROVE  \E t : Moves(m, t)
<1> DEFINE r == turn[m]
<1>0. /\ r \in TurnType /\ TurnSound(m, r, daemon[m]) /\ turn \in [Messages -> TurnType]
      /\ daemon \in [Messages -> {"none", "running", "over", "aborted"}]
  BY TurnFacts DEF Inv
<1>1. /\ Idle /\ r.pc \in {"run", "stream"} /\ r.pc \in RunPcs
      /\ r.pc = "run" => ~r.id
      /\ UNCHANGED unchangedByTurn
  BY <1>0 DEF LocalRunEnds, StreamEnds, At, RunPcs, TurnSound, Before
<1>2. /\ daemon' \in [Messages -> {"none", "running", "over", "aborted"}]
      /\ \A k \in Messages \ {m} : daemon'[k] = daemon[k]
      /\ r.pc = "stream" => daemon'[m] = IF daemon[m] = "over" THEN "none" ELSE daemon[m]
  BY <1>0 DEF LocalRunEnds, StreamEnds, At
<1>3. CASE (r.pc = "run" \/ daemon'[m] = "none") /\ Answers(m)
  BY <1>1, <1>2, <1>3, AnswersMoves
<1>4. CASE (r.pc = "run" \/ daemon'[m] = "none") /\ Fails(m) /\ UNCHANGED sessions
  <2>1. turn' = [turn EXCEPT ![m] = Failed(r)] /\ LetsGo
    BY <1>4 DEF Fails
  <2> QED  BY <1>0, <1>1, <1>2, <1>4, <2>1, FailsMoves
<1>5. CASE Breaks(m) /\ UNCHANGED sessions
  <2> DEFINE b == [r EXCEPT !.broken = TRUE]
  <2>1. /\ b \in TurnType /\ b.broken = TRUE
        /\ b.line = r.line /\ b.session = r.session /\ b.past = r.past
    BY <1>0 DEF TurnType
  <2>2. turn' = [turn EXCEPT ![m] = Failed(b)] /\ LetsGo
    BY <1>0, <1>5 DEF Breaks
  <2> HIDE DEF b
  <2> QED  BY <1>0, <1>1, <1>2, <1>5, <2>1, <2>2, FailsMoves
<1>6. CASE LocalRunEnds(m)
  BY <1>3, <1>4, <1>6 DEF LocalRunEnds, At
<1>7. CASE StreamEnds(m)
  <2>1. daemon[m] = "over" => daemon'[m] = "none"
    BY <1>2, <1>7 DEF StreamEnds, At
  <2> QED  BY <1>3, <1>4, <1>5, <1>7, <2>1 DEF StreamEnds
<1> QED  BY <1>6, <1>7

(* client.run() is called.                                                 *)
LEMMA BeginsMoves ==
  ASSUME Inv, NEW m \in Messages, NEW r \in TurnType,
         r.line = turn[m].line, r.session = turn[m].session, r.past = turn[m].past, ~r.id,
         turn[m].pc \notin Out, turn[m].pc \notin RunPcs, turn[m].pc \notin After,
         turn' = [turn EXCEPT ![m] = Begun(r, m)],
         \/ front # "repl" /\ UNCHANGED <<active, paused, overlap>>
         \/ /\ active' = m /\ paused' = TRUE /\ overlap' = (overlap \/ Running # {})
            /\ turn[m].pc = "begin" /\ \A k \in 1 .. m - 1 : turn[k].pc # "begin",
         UNCHANGED <<front, mode, up, socket, next, batch, table, confirmed, sessions, daemon,
                     starts, restarts>>
  PROVE  \E t : Moves(m, t)
<1> DEFINE t == Begun(r, m)
<1>1. /\ t \in TurnType /\ t.pc \in {"run", "post"}
      /\ t.line = r.line /\ t.session = r.session /\ t.past = r.past /\ t.id = r.id
      /\ t.used.driver = sessions[r.session].driver /\ t.used.skill = sessions[r.session].skill
  BY BegunFields
<1>2. turn' = [turn EXCEPT ![m] = t]
  OBVIOUS
<1> HIDE DEF t
<1>3. /\ t.pc \notin {"none", "gone", "status", "reply", "task", "done"}
      /\ t.pc \notin After /\ t.pc \in RunPcs
  BY <1>1 DEF After, RunPcs
<1>4. Move(m, t)
  BY <1>1, <1>3, IsMove
<1>5. ActiveStep(m, t)
  BY <1>3 DEF ActiveStep, RunPcs
<1>6. daemon \in [Messages -> {"none", "running", "over", "aborted"}]
  BY TurnFacts
<1>7. Moves(m, t)
  BY <1>2, <1>4, <1>5, <1>6 DEF Moves
<1> QED  BY <1>7

(* The bot's status message is there, or could not be sent.                *)
LEMMA StatusMoves ==
  ASSUME Inv, NEW m \in Messages, StatusSettles(m), ~Dies
  PROVE  \E t : Moves(m, t)
<1> DEFINE r == turn[m]
<1>0. /\ r \in TurnType /\ TurnSound(m, r, daemon[m]) /\ turn \in [Messages -> TurnType]
  BY TurnFacts DEF Inv
<1>1. r.pc = "status" /\ ~r.id /\ front # "repl" /\ UNCHANGED unchangedByShow
  BY <1>0 DEF StatusSettles, At, TurnSound, Before
<1>2. r.pc \notin Out /\ r.pc \notin RunPcs /\ r.pc \notin After
  BY <1>1 DEF Out, RunPcs, After
<1>3. ASSUME NEW shows \in {"working", "nothing"},
             turn' = [turn EXCEPT ![m] = Begun([@ EXCEPT !.shows = shows], m)]
      PROVE  \E t : Moves(m, t)
  <2> DEFINE b == [r EXCEPT !.shows = shows]
  <2>1. /\ b \in TurnType /\ b.line = r.line /\ b.session = r.session /\ b.past = r.past
        /\ ~b.id
    BY <1>0, <1>1 DEF TurnType
  <2>2. turn' = [turn EXCEPT ![m] = Begun(b, m)]
    BY <1>0, <1>3
  <2> HIDE DEF b
  <2> QED
    BY <1>1, <1>2, <2>1, <2>2, BeginsMoves DEF unchangedByShow, unchangedByTurn, history
<1>4. ASSUME turn' = [turn EXCEPT ![m] = [Done(@) EXCEPT !.missed = TRUE]]
      PROVE  \E t : Moves(m, t)
  <2> DEFINE t == [Done(r) EXCEPT !.missed = TRUE]
  <2>1. /\ t \in TurnType /\ t.pc = "done" /\ t.used = NoOptions
        /\ t.line = r.line /\ t.session = r.session /\ t.past = r.past
        /\ t.id = r.id /\ t.missed = TRUE
    BY <1>0, DoneMissed
  <2>2. turn' = [turn EXCEPT ![m] = t]
    BY <1>0, <1>4
  <2> HIDE DEF t
  <2>3. Move(m, t)
    BY <1>1, <1>2, <2>1, IsMove, NewTurnType DEF After, Before
  <2>4. Moves(m, t)
    BY <1>1, <1>2, <2>1, <2>2, <2>3, ShowsMoves
         DEF RunPcs, unchangedByShow, unchangedByTurn
  <2> QED  BY <2>4
<1> QED  BY <1>3, <1>4 DEF StatusSettles

(* What the bot shows at the end of a run, and on the way.                 *)
LEMMA ShownMoves ==
  ASSUME Inv, NEW m \in Messages,
         FinalEditSettles(m) \/ FallbackSettles(m) \/ ErrorSettles(m)
  PROVE  \E t : Moves(m, t)
<1> DEFINE r == turn[m]
<1>0. /\ r \in TurnType /\ TurnSound(m, r, daemon[m]) /\ turn \in [Messages -> TurnType]
  BY TurnFacts DEF Inv
<1>1. r.pc \in {"final", "fallback", "error"} /\ UNCHANGED unchangedByShow
  BY DEF FinalEditSettles, FallbackSettles, ErrorSettles, At
<1>2. r.pc \notin Out /\ r.pc \notin RunPcs /\ r.pc \in After
  BY <1>1 DEF Out, RunPcs, After
<1>3. UNCHANGED daemon
  BY <1>1 DEF unchangedByShow
<1>e. ASSUME NEW t \in TurnType, turn' = [turn EXCEPT ![m] = t],
             t.line = r.line, t.session = r.session, t.past = r.past,
             t.id = r.id, t.broken = r.broken,
             \/ t.pc \in {"fallback", "error"} /\ t.used = r.used
             \/ t.pc = "done" /\ t.used = NoOptions
                  /\ (t.shows \in {"end", "apart"} \/ t.missed)
      PROVE  \E x : Moves(m, x)
  <2>1. t.used.heart = "none" \/ t.used = r.used
    BY <1>e, NewTurnType
  <2>2. /\ t.pc \in After /\ t.pc \notin Before /\ t.pc \notin RunPcs
        /\ t.pc \notin {"none", "gone", "status", "reply", "task"}
    BY <1>e DEF After, Before, RunPcs
  <2>3. daemon'[m] = "running" => ~t.id \/ t.broken
    BY <1>0, <1>2, <1>3, <1>e DEF TurnSound
  <2>4. Move(m, t)
    BY <1>2, <1>e, <2>1, <2>2, <2>3, IsMove
  <2>5. Moves(m, t)
    BY <1>1, <1>2, <1>e, <2>2, <2>4, ShowsMoves DEF unchangedByShow, unchangedByTurn
  <2> QED  BY <2>5
<1>4. ASSUME NEW shows \in {"end", "apart"},
             turn' = [turn EXCEPT ![m] = [Done(r) EXCEPT !.shows = shows]]
      PROVE  \E t : Moves(m, t)
  <2> DEFINE t == [Done(r) EXCEPT !.shows = shows]
  <2>1. /\ t \in TurnType /\ t.pc = "done" /\ t.used = NoOptions
        /\ t.line = r.line /\ t.session = r.session /\ t.past = r.past
        /\ t.shows = shows /\ t.id = r.id /\ t.broken = r.broken
    <3>1. shows \in Shown
      BY DEF Shown
    <3>2. PICK a \in TurnType : a = r
      BY <1>0
    <3> QED  BY <3>1, <3>2, DoneShown
  <2>2. turn' = [turn EXCEPT ![m] = t]
    BY <1>4
  <2> HIDE DEF t
  <2> QED  BY <1>e, <2>1, <2>2
<1>5. ASSUME turn' = [turn EXCEPT ![m] = [Done(r) EXCEPT !.missed = TRUE]]
      PROVE  \E t : Moves(m, t)
  <2> DEFINE t == [Done(r) EXCEPT !.missed = TRUE]
  <2>1. /\ t \in TurnType /\ t.pc = "done" /\ t.used = NoOptions
        /\ t.line = r.line /\ t.session = r.session /\ t.past = r.past
        /\ t.id = r.id /\ t.broken = r.broken /\ t.missed = TRUE
    BY <1>0, DoneMissed
  <2>2. turn' = [turn EXCEPT ![m] = t]
    BY <1>5
  <2> HIDE DEF t
  <2> QED  BY <1>e, <2>1, <2>2
<1>6. ASSUME NEW pc \in {"fallback", "error"}, Goes(m, pc)
      PROVE  \E t : Moves(m, t)
  <2> DEFINE t == [r EXCEPT !.pc = pc]
  <2>1. /\ t \in TurnType /\ t.pc = pc /\ t.used = r.used
        /\ t.line = r.line /\ t.session = r.session /\ t.past = r.past
        /\ t.id = r.id /\ t.broken = r.broken
    <3>1. pc \in Onward
      BY DEF Onward
    <3>2. PICK a \in TurnType : a = r
      BY <1>0
    <3> QED  BY <3>1, <3>2, GoesFields
  <2>2. turn' = [turn EXCEPT ![m] = t]
    BY <1>0, <1>6 DEF Goes
  <2> HIDE DEF t
  <2> QED  BY <1>e, <2>1, <2>2
<1>7. CASE FinalEditSettles(m)
  <2>1. \/ turn' = [turn EXCEPT ![m] = [Done(r) EXCEPT !.shows = "end"]]
        \/ Goes(m, "fallback")
    BY <1>0, <1>7 DEF FinalEditSettles
  <2> QED  BY <1>4, <1>6, <2>1
<1>8. CASE FallbackSettles(m)
  <2>1. \/ turn' = [turn EXCEPT ![m] = [Done(r) EXCEPT !.shows = "apart"]]
        \/ turn' = [turn EXCEPT ![m] = [Done(r) EXCEPT !.missed = TRUE]]
        \/ Goes(m, "error")
    BY <1>0, <1>8 DEF FallbackSettles
  <2> QED  BY <1>4, <1>5, <1>6, <2>1
<1>9. CASE ErrorSettles(m)
  <2>1. Done(r).shows = r.shows
    BY <1>0, DoneFields
  <2>2. \/ \E shows \in {"end", "apart"} :
             turn' = [turn EXCEPT ![m] = [Done(r) EXCEPT !.shows = shows]]
        \/ turn' = [turn EXCEPT ![m] = [Done(r) EXCEPT !.missed = TRUE]]
    BY <1>0, <1>9, <2>1 DEF ErrorSettles
  <2> QED  BY <1>4, <1>5, <2>2
<1> QED  BY <1>7, <1>8, <1>9

(* A progress edit is made, and carried out or not.                        *)
LEMMA EditMoves ==
  ASSUME Inv, NEW m \in Messages, Progress(m) \/ EditSettles(m)
  PROVE  \E t : Moves(m, t)
<1> DEFINE r == turn[m]
<1>0. /\ r \in TurnType /\ TurnSound(m, r, daemon[m]) /\ turn \in [Messages -> TurnType]
  BY TurnFacts DEF Inv
<1>1. UNCHANGED unchangedByShow /\ UNCHANGED <<front, daemon>> /\ r.pc # "none"
  BY <1>0 DEF Progress, EditSettles, At, unchangedByShow, unchangedByTurn, TurnSound
<1>e. ASSUME NEW t \in TurnType, turn' = [turn EXCEPT ![m] = t],
             t.pc = r.pc, t.used = r.used,
             t.line = r.line, t.session = r.session, t.past = r.past,
             t.id = r.id, t.broken = r.broken,
             \/ t.shows = r.shows /\ t.missed = r.missed
             \/ r.shows = "apart" /\ t.shows = "apart"
             \/ r.shows # "apart" /\ (r.shows = "end" \/ r.missed => t.missed)
      PROVE  \E x : Moves(m, x)
  <2>1. TurnSound(m, t, daemon'[m])
    BY <1>0, <1>1, <1>e DEF TurnSound
  <2>2. Move(m, t)
    BY <1>0, <1>1, <1>e, <2>1 DEF Move
  <2>3. Moves(m, t)
    BY <1>1, <1>e, <2>2, ShowsMoves DEF unchangedByShow, unchangedByTurn
  <2> QED  BY <2>3
<1>2. ASSUME NEW edit \in BOOLEAN, turn' = [turn EXCEPT ![m].edit = edit]
      PROVE  \E t : Moves(m, t)
  <2> DEFINE t == [r EXCEPT !.edit = edit]
  <2>1. /\ t \in TurnType /\ t.pc = r.pc /\ t.used = r.used
        /\ t.line = r.line /\ t.session = r.session /\ t.past = r.past
        /\ t.id = r.id /\ t.broken = r.broken
        /\ t.shows = r.shows /\ t.missed = r.missed
    BY <1>0 DEF TurnType
  <2>2. turn' = [turn EXCEPT ![m] = t]
    BY <1>0, <1>2
  <2> HIDE DEF t
  <2> QED  BY <1>e, <2>1, <2>2
<1>3. ASSUME turn' = [turn EXCEPT ![m].edit = FALSE,
                                  ![m].shows = IF @ = "apart" THEN @ ELSE "working",
                                  ![m].missed = @ \/ r.shows = "end"]
      PROVE  \E t : Moves(m, t)
  <2> DEFINE shows == IF r.shows = "apart" THEN r.shows ELSE "working"
             missed == r.missed \/ r.shows = "end"
             t == [r EXCEPT !.edit = FALSE, !.shows = shows, !.missed = missed]
  <2>1. turn' = [turn EXCEPT ![m] = t]
    BY <1>0, <1>3
  <2>2. shows \in {"nothing", "working", "end", "apart"} /\ missed \in BOOLEAN
    BY <1>0 DEF TurnType
  <2>3. \/ r.shows = "apart" /\ shows = "apart"
        \/ r.shows # "apart" /\ (r.shows = "end" \/ r.missed => missed)
    OBVIOUS
  <2> HIDE DEF shows, missed
  <2>4. /\ t \in TurnType /\ t.pc = r.pc /\ t.used = r.used
        /\ t.line = r.line /\ t.session = r.session /\ t.past = r.past
        /\ t.id = r.id /\ t.broken = r.broken
        /\ t.shows = shows /\ t.missed = missed
    BY <1>0, <2>2 DEF TurnType
  <2> HIDE DEF t
  <2> QED  BY <1>e, <2>1, <2>3, <2>4
<1>4. CASE Progress(m)
  BY <1>2, <1>4 DEF Progress
<1>5. CASE EditSettles(m)
  BY <1>2, <1>3, <1>5 DEF EditSettles
<1> QED  BY <1>4, <1>5

(* The reply to a command is shown, or printed, maybe before an exit.      *)
LEMMA ReplyMoves ==
  ASSUME Inv, NEW m \in Messages, ~Dies,
         \/ ReplySettles(m) \/ TaskSettles(m)
         \/ ReplBegins(m) /\ turn[m].line \notin Asks
  PROVE  \E t : Moves(m, t)
<1> DEFINE r == turn[m]
<1>0. /\ r \in TurnType /\ TurnSound(m, r, daemon[m]) /\ turn \in [Messages -> TurnType]
  BY TurnFacts DEF Inv
<1>1. /\ r.pc \in {"begin", "reply", "task"}
      /\ paused' \in {paused, FALSE} /\ up' \in {up, "ended"}
      /\ UNCHANGED <<sessions, daemon, active, front, mode, socket, next, batch, table, overlap,
                     confirmed, history>>
  BY DEF ReplySettles, TaskSettles, ReplBegins, At, unchangedByShow, unchangedByTurn
<1>2. /\ r.pc \notin Out /\ r.pc \notin RunPcs /\ r.pc \notin After
      /\ ~r.id /\ r.line \notin Asks
  BY <1>0, <1>1 DEF Out, RunPcs, After, Before, TurnSound, ReplySettles, TaskSettles, ReplBegins, At
<1>3. ASSUME turn' = [turn EXCEPT ![m] = Done(r)]
      PROVE  \E t : Moves(m, t)
  <2> DEFINE t == Done(r)
  <2>1. /\ t \in TurnType /\ t.pc = "done" /\ t.used = NoOptions
        /\ t.line = r.line /\ t.session = r.session /\ t.past = r.past /\ t.id = r.id
    BY <1>0, DoneFields
  <2>2. turn' = [turn EXCEPT ![m] = t]
    BY <1>3
  <2> HIDE DEF t
  <2>3. Move(m, t)
    BY <1>2, <2>1, IsMove, NewTurnType DEF After, Before
  <2>4. Moves(m, t)
    BY <1>1, <1>2, <2>1, <2>2, <2>3, ShowsMoves DEF RunPcs
  <2> QED  BY <2>4
<1>4. ASSUME turn' = [turn EXCEPT ![m] = [@ EXCEPT !.pc = "reply"]]
      PROVE  \E t : Moves(m, t)
  <2> DEFINE t == [r EXCEPT !.pc = "reply"]
  <2>1. /\ t \in TurnType /\ t.pc = "reply" /\ t.used = r.used
        /\ t.line = r.line /\ t.session = r.session /\ t.past = r.past /\ t.id = r.id
    BY <1>0 DEF TurnType
  <2>2. turn' = [turn EXCEPT ![m] = t]
    BY <1>0, <1>4
  <2> HIDE DEF t
  <2>3. Move(m, t)
    BY <1>2, <2>1, IsMove DEF After
  <2>4. Moves(m, t)
    BY <1>1, <1>2, <2>1, <2>2, <2>3, ShowsMoves DEF RunPcs
  <2> QED  BY <2>4
<1>5. turn' = [turn EXCEPT ![m] = Done(r)] \/ turn' = [turn EXCEPT ![m] = [@ EXCEPT !.pc = "reply"]]
  BY <1>0 DEF ReplySettles, TaskSettles, ReplBegins
<1> QED  BY <1>3, <1>4, <1>5

(* A line of the terminal goes on.                                         *)
LEMMA ReplMoves ==
  ASSUME Inv, NEW m \in Messages, ReplBegins(m), ~Dies
  PROVE  \E t : Moves(m, t)
<1> DEFINE r == turn[m]
<1>0. /\ r \in TurnType /\ TurnSound(m, r, daemon[m]) /\ turn \in [Messages -> TurnType]
  BY TurnFacts DEF Inv
<1>1. r.pc = "begin" /\ ~r.id
  BY <1>0 DEF ReplBegins, TurnSound, Before
<1>2. r.pc \notin Out /\ r.pc \notin RunPcs /\ r.pc \notin After
  BY <1>1 DEF Out, RunPcs, After
<1>3. CASE r.line \in Asks
  <2>1. /\ turn' = [turn EXCEPT ![m] = Begun(r, m)]
        /\ active' = m /\ paused' = TRUE /\ overlap' = (overlap \/ Running # {})
        /\ \A k \in 1 .. m - 1 : turn[k].pc # "begin"
        /\ UNCHANGED <<front, mode, up, socket, next, batch, table, confirmed, sessions, daemon,
                       starts, restarts>>
    BY <1>0, <1>3 DEF ReplBegins, history
  <2> QED  BY <1>0, <1>1, <1>2, <2>1, BeginsMoves
<1>4. CASE r.line \notin Asks
  BY <1>4, ReplyMoves
<1> QED  BY <1>3, <1>4

(* Ctrl-C aborts it.                                                       *)
LEMMA AbortMoves ==
  ASSUME Inv, CtrlCPosting \/ CtrlC
  PROVE  \E m \in Messages : \E t : Moves(m, t)
<1>1. /\ active \in Messages /\ Idle /\ turn[active].pc \in {"post", "attach", "stream"}
      /\ UNCHANGED <<sessions, unchangedByTurn>>
  <2>1. active # 0 /\ active \in 0 .. N
    BY DEF Inv, PlainTypes, CtrlC, CtrlCPosting
  <2>2. active \in Messages
    BY <2>1, SessionsAssumption DEF Messages
  <2> QED  BY <2>2 DEF CtrlC, CtrlCPosting
<1>2. PICK m \in Messages : m = active
  BY <1>1
<1> DEFINE r == turn[m]
<1>0. /\ r \in TurnType /\ TurnSound(m, r, daemon[m]) /\ turn \in [Messages -> TurnType]
      /\ daemon \in [Messages -> {"none", "running", "over", "aborted"}]
  BY TurnFacts DEF Inv
<1>3. r.pc \in RunPcs /\ (r.pc = "post" => ~r.id)
  BY <1>0, <1>1, <1>2 DEF RunPcs, TurnSound, Before
<1>4. /\ daemon' \in [Messages -> {"none", "running", "over", "aborted"}]
      /\ \A k \in Messages \ {m} : daemon'[k] = daemon[k]
  BY <1>0, <1>2 DEF CtrlC, CtrlCPosting
<1>5. CASE (r.pc = "post" \/ daemon'[m] # "running") /\ Fails(m)
  <2>1. turn' = [turn EXCEPT ![m] = Failed(r)] /\ LetsGo
    BY <1>5 DEF Fails
  <2> QED  BY <1>0, <1>1, <1>2, <1>3, <1>4, <1>5, <2>1, FailsMoves
<1>6. CASE Breaks(m)
  <2> DEFINE b == [r EXCEPT !.broken = TRUE]
  <2>1. /\ b \in TurnType /\ b.broken = TRUE
        /\ b.line = r.line /\ b.session = r.session /\ b.past = r.past
    BY <1>0 DEF TurnType
  <2>2. turn' = [turn EXCEPT ![m] = Failed(b)] /\ LetsGo
    BY <1>0, <1>6 DEF Breaks
  <2> HIDE DEF b
  <2> QED  BY <1>0, <1>1, <1>2, <1>3, <1>4, <2>1, <2>2, FailsMoves
<1>7. CASE CtrlCPosting
  BY <1>2, <1>5, <1>7 DEF CtrlCPosting
<1>8. CASE CtrlC
  <2>1. daemon' = [daemon EXCEPT ![m] = IF @ = "running" THEN "aborted" ELSE @]
          => daemon'[m] # "running"
    BY <1>0
  <2> QED  BY <1>2, <1>5, <1>6, <1>8, <2>1 DEF CtrlC
<1> QED  BY <1>7, <1>8

-----------------------------------------------------------------------------
(* A message comes in *)

(* What the first part of its handler does to the turns.                   *)
ReceivedTurn(m, line, s, pc) ==
  /\ turn' \in [Messages -> TurnType]
  /\ turn'[m].pc = pc /\ turn'[m].line = line /\ turn'[m].session = s
  /\ turn'[m].used.heart = "none" /\ turn'[m].past = FALSE /\ turn'[m].id = FALSE
  /\ turn'[m].edit = FALSE
  /\ \A k \in Messages \ {m} :
       /\ turn'[k].pc = turn[k].pc /\ turn'[k].line = turn[k].line
       /\ turn'[k].session = turn[k].session /\ turn'[k].used = turn[k].used
       /\ turn'[k].shows = turn[k].shows /\ turn'[k].edit = turn[k].edit
       /\ turn'[k].id = turn[k].id /\ turn'[k].broken = turn[k].broken
       /\ turn'[k].missed = turn[k].missed
       /\ turn'[k].past <=> (turn[k].past \/ (line = "reset" /\ Remembers(sessions[s], k)))

(* Receives() does that to the turns.                                      *)
LEMMA ReceivedTurns ==
  ASSUME Inv, NEW m \in Messages, NEW line \in Lines, NEW s \in 0 .. N,
         NEW pc \in {"begin", "task", "reply", "status", "done"}, Receives(m, line, s, pc)
  PROVE  ReceivedTurn(m, line, s, pc)
<1> DEFINE new == [NewTurn EXCEPT !.pc = pc, !.line = line, !.session = s]
           old(k) == [turn[k] EXCEPT !.past = @ \/ (line = "reset" /\ Remembers(sessions[s], k))]
<1>1. /\ new \in TurnType /\ new.pc = pc /\ new.line = line /\ new.session = s
      /\ new.used.heart = "none" /\ new.past = FALSE /\ new.id = FALSE /\ new.edit = FALSE
  BY NewTurnType DEF TurnType
<1>2. ASSUME NEW k \in Messages
      PROVE  /\ old(k) \in TurnType
             /\ old(k).pc = turn[k].pc /\ old(k).line = turn[k].line
             /\ old(k).session = turn[k].session /\ old(k).used = turn[k].used
             /\ old(k).shows = turn[k].shows /\ old(k).edit = turn[k].edit
             /\ old(k).id = turn[k].id /\ old(k).broken = turn[k].broken
             /\ old(k).missed = turn[k].missed
             /\ old(k).past <=> (turn[k].past \/ (line = "reset" /\ Remembers(sessions[s], k)))
  <2> DEFINE past == turn[k].past \/ (line = "reset" /\ Remembers(sessions[s], k))
  <2>1. turn[k] \in TurnType /\ past \in BOOLEAN
    BY TurnFacts DEF TurnType
  <2>2. old(k) = [turn[k] EXCEPT !.past = past]
    BY <2>1 DEF TurnType
  <2>3. past <=> (turn[k].past \/ (line = "reset" /\ Remembers(sessions[s], k)))
    OBVIOUS
  <2> HIDE DEF past, old
  <2>4. /\ old(k) \in TurnType
        /\ old(k).pc = turn[k].pc /\ old(k).line = turn[k].line
        /\ old(k).session = turn[k].session /\ old(k).used = turn[k].used
        /\ old(k).shows = turn[k].shows /\ old(k).edit = turn[k].edit
        /\ old(k).id = turn[k].id /\ old(k).broken = turn[k].broken
        /\ old(k).missed = turn[k].missed /\ old(k).past = past
    BY <2>1, <2>2 DEF TurnType
  <2> QED  BY <2>3, <2>4
<1>3. turn' = [k \in Messages |-> IF k = m THEN new ELSE old(k)]
  BY DEF Receives
<1> HIDE DEF new, old
<1>4. turn' \in [Messages -> TurnType]
  BY <1>1, <1>2, <1>3
<1>5. turn'[m] = new /\ \A k \in Messages \ {m} : turn'[k] = old(k)
  BY <1>3
<1> QED  BY <1>1, <1>2, <1>4, <1>5 DEF ReceivedTurn

(* What Receives() does to the sessions.                                   *)
LEMMA ReceivedSessions ==
  ASSUME Inv, NEW m \in Messages, NEW line \in Lines, NEW s \in 0 .. N, NEW pc,
         Receives(m, line, s, pc)
  PROVE  /\ SessionsType'
         /\ \A x \in 0 .. N \ {s} : sessions'[x] = sessions[x]
         /\ sessions'[s].driver = IF line \in DriverLines THEN m ELSE sessions[s].driver
         /\ sessions'[s].skill = IF line \in SkillLines THEN m ELSE sessions[s].skill
         /\ sessions'[s].history = IF line = "reset" THEN <<>> ELSE sessions[s].history
<1> DEFINE h == Handled(sessions[s], m, line)
<1>1. sessions[s] \in Session /\ Whole(sessions[s].history) /\ SessionsType
  BY DEF Inv, SessionsType
<1>2. /\ h \in Session /\ Whole(h.history)
      /\ h.driver = IF line \in DriverLines THEN m ELSE sessions[s].driver
      /\ h.skill = IF line \in SkillLines THEN m ELSE sessions[s].skill
      /\ h.history = IF line = "reset" THEN <<>> ELSE sessions[s].history
  BY <1>1, HandledSession
<1>3. sessions' = [sessions EXCEPT ![s] = h]
  BY DEF Receives
<1> HIDE DEF h
<1>4. \A x \in 0 .. N : sessions'[x] = IF x = s THEN h ELSE sessions[x]
  BY <1>1, <1>3 DEF SessionsType
<1>5. SessionsType'
  BY <1>1, <1>2, <1>3, <1>4 DEF SessionsType
<1> QED  BY <1>2, <1>4, <1>5

(* It keeps the invariant.                                                 *)
LEMMA ReceivesKeepsInv ==
  ASSUME Inv, up = "up", next \in Messages, NEW line \in Lines, NEW s \in 0 .. N,
         NEW pc \in {"begin", "task", "reply", "status", "done"}, Receives(next, line, s, pc),
         s <= next, s # 0 => ChatOf[s] = ChatOf[next], Live(s) \/ s = next,
         s = 0 /\ line \in DriverLines \union SkillLines => front = "repl",
         pc \in {"reply", "task"} => line \notin Asks,
         pc = "status" => front # "repl",
         pc = "done" /\ front # "repl" => line \notin Asks,
         TableOK', \A i \in DOMAIN table' : table'[i] = s \/ InTable(table'[i]),
         table' # table => s # 0,
         confirmed' = IF front = "slack" THEN confirmed \union {next} ELSE confirmed,
         UNCHANGED <<up, socket, active, paused, overlap>>
  PROVE  Inv'
<1>m. PICK m \in Messages : m = next
  OBVIOUS
<1>c. Receives(m, line, s, pc)
  BY <1>m
<1>t. /\ turn' \in [Messages -> TurnType]
      /\ turn'[m].pc = pc /\ turn'[m].line = line /\ turn'[m].session = s
      /\ turn'[m].used.heart = "none" /\ turn'[m].past = FALSE /\ turn'[m].id = FALSE
      /\ turn'[m].edit = FALSE
      /\ \A k \in Messages \ {m} :
           /\ turn'[k].pc = turn[k].pc /\ turn'[k].line = turn[k].line
           /\ turn'[k].session = turn[k].session /\ turn'[k].used = turn[k].used
           /\ turn'[k].shows = turn[k].shows /\ turn'[k].edit = turn[k].edit
           /\ turn'[k].id = turn[k].id /\ turn'[k].broken = turn[k].broken
           /\ turn'[k].missed = turn[k].missed
           /\ turn'[k].past <=> (turn[k].past \/ (line = "reset" /\ Remembers(sessions[s], k)))
  <2>1. ReceivedTurn(m, line, s, pc)
    BY <1>c, ReceivedTurns
  <2> QED  BY <2>1 DEF ReceivedTurn
<1>s. /\ SessionsType'
      /\ \A x \in 0 .. N \ {s} : sessions'[x] = sessions[x]
      /\ sessions'[s].driver = IF line \in DriverLines THEN m ELSE sessions[s].driver
      /\ sessions'[s].skill = IF line \in SkillLines THEN m ELSE sessions[s].skill
      /\ sessions'[s].history = IF line = "reset" THEN <<>> ELSE sessions[s].history
  BY <1>c, ReceivedSessions
<1>u. /\ next' = next + 1 /\ starts' = [starts EXCEPT ![m] = @ + 1]
      /\ UNCHANGED <<front, mode, batch, daemon, restarts>>
  BY <1>c DEF Receives
<1>n. /\ m \in Nat /\ m = next /\ turn[m].pc = "none"
      /\ \A k \in Messages : k > m => turn[k].pc = "none"
  BY <1>m DEF Inv, TurnsSound, Messages
<1>o. \A k \in Messages : turn[k].pc = "none" =>
        turn[k].line = "ignored" /\ turn[k].session = 0 /\ turn[k].used.heart = "none"
  BY DEF Inv, TurnsSound, TurnSound
<1>1. PlainTypes'
  <2>1. next' \in 1 .. N + 1 /\ confirmed' \subseteq Messages
    BY <1>m, <1>u, SessionsAssumption DEF Inv, PlainTypes, Messages
  <2>2. starts' \in [Messages -> Nat]
    BY <1>u DEF Inv, PlainTypes
  <2> QED  BY <1>u, <2>1, <2>2 DEF Inv, PlainTypes
<1>2. \A i \in DOMAIN table' : table'[i] < next'
  <2> SUFFICES ASSUME NEW i \in DOMAIN table' PROVE table'[i] < next'
    OBVIOUS
  <2>1. table'[i] \in Nat
    <3>1. table' \in Seq(Messages)
      BY DEF TableOK
    <3>2. table'[i] \in Messages
      BY <3>1, ElementOfSeq, LenProperties
    <3> QED  BY <3>2 DEF Messages
  <2>2. CASE table'[i] = s
    BY <1>n, <1>u, <2>2
  <2>3. CASE InTable(table'[i])
    <3>1. table'[i] < next
      BY <2>3 DEF InTable, Inv, TableBehind
    <3> QED  BY <1>n, <1>u, <2>1, <3>1
  <2> QED  BY <2>2, <2>3
<1>3. TableBehind'
  BY <1>2 DEF TableBehind
<1>4. Order'
  <2>1. PICK c \in 0 .. N : confirmed = 1 .. c /\ c < next
    BY DEF Inv, Order
  <2>2. \E d \in 0 .. N : confirmed' = 1 .. d /\ d < next'
    <3>1. CASE front = "slack"
      <4>1. confirmed' = 1 .. next /\ next \in 0 .. N
        BY <1>n, <3>1 DEF Inv, Order, Messages
      <4>2. next < next'
        BY <1>n, <1>u
      <4> QED  BY <4>1, <4>2
    <3>2. CASE front # "slack"
      BY <1>n, <1>u, <2>1, <3>2
    <3> QED  BY <3>1, <3>2
  <2>3. front = "slack" => confirmed' = 1 .. next' - 1
    BY <1>n, <1>u DEF Inv, Order
  <2>4. starts \in [Messages -> Nat] /\ restarts \in Nat
    BY ChatAssumption DEF Inv, PlainTypes
  <2>5. \A k \in Messages : /\ k < next => starts[k] > 0
                            /\ starts[k] <= restarts + 1
                            /\ k >= next => starts[k] <= restarts
    BY DEF Inv, Order
  <2>6. ASSUME NEW k \in Messages
        PROVE  /\ k < next' => starts'[k] > 0
               /\ starts'[k] <= restarts + 1
               /\ k >= next' => starts'[k] <= restarts
    <3>1. CASE k = m
      BY <1>n, <1>u, <2>4, <2>5, <3>1
    <3>2. CASE k # m
      <4>1. starts'[k] = starts[k] /\ (k < next' => k < next) /\ (k >= next' => k >= next)
        BY <1>n, <1>u, <2>4, <3>2 DEF Messages
      <4> QED  BY <2>5, <4>1
    <3> QED  BY <3>1, <3>2
  <2> QED  BY <1>u, <2>2, <2>3, <2>6 DEF Order, Inv
<1>5. TurnsSound'
  <2> SUFFICES ASSUME NEW k \in Messages
               PROVE  TurnSound(k, turn[k], daemon[k])' /\ (k >= next => turn[k].pc = "none")'
    BY DEF TurnsSound
  <2>1. CASE k = m
    <3>1. TurnSound(k, turn[k], daemon[k])'
      BY <1>m, <1>t, <1>u, <2>1 DEF TurnSound
    <3> QED  BY <1>n, <1>u, <2>1, <3>1
  <2>2. CASE k # m
    <3>1. TurnSound(k, turn[k], daemon[k]) /\ (k >= next => turn[k].pc = "none")
      BY DEF Inv, TurnsSound
    <3>2. turn'[k].past => turn[k].pc \in After
      <4>1. Remembers(sessions[s], k) => turn[k].pc \in After
        BY DEF Inv, MemoryKept
      <4> QED  BY <1>t, <2>2, <3>1, <4>1 DEF TurnSound
    <3>3. TurnSound(k, turn[k], daemon[k])'
      BY <1>t, <1>u, <2>2, <3>1, <3>2 DEF TurnSound, After
    <3>4. k >= next' => turn'[k].pc = "none"
      BY <1>n, <1>t, <1>u, <2>2 DEF Messages
    <3> QED  BY <3>3, <3>4
  <2> QED  BY <2>1, <2>2
<1>r. \A x \in 0 .. N : \A k :
        Remembers(sessions'[x], k) => Remembers(sessions[x], k) /\ (x = s => line # "reset")
  BY <1>s DEF Remembers
<1>6. MemoryKept'
  <2> SUFFICES ASSUME NEW k \in Messages
               PROVE  /\ \A x \in 0 .. N : Remembers(sessions'[x], k) =>
                           turn'[k].session = x /\ turn'[k].pc \in After
                      /\ turn'[k].past => ~Remembers(sessions'[turn'[k].session], k)
    BY DEF MemoryKept, Remembers
  <2>1. \A x \in 0 .. N : Remembers(sessions[x], k) =>
          turn[k].session = x /\ turn[k].pc \in After
    BY DEF Inv, MemoryKept
  <2>2. \A x \in 0 .. N : Remembers(sessions'[x], k) => k # m
    BY <1>n, <1>r, <2>1 DEF After
  <2>3. ASSUME turn'[k].past, Remembers(sessions'[turn'[k].session], k) PROVE FALSE
    <3>1. k # m
      BY <1>t, <2>3
    <3>2. turn'[k].session = turn[k].session /\ turn[k].session \in 0 .. N
      BY <1>t, <3>1, TurnFacts
    <3>3. Remembers(sessions[turn[k].session], k) /\ (turn[k].session = s => line # "reset")
      BY <1>r, <2>3, <3>2
    <3>4. ~turn[k].past
      BY <3>3 DEF Inv, MemoryKept
    <3>5. line = "reset" /\ Remembers(sessions[s], k)
      BY <1>t, <2>3, <3>1, <3>4
    <3> QED  BY <2>1, <3>3, <3>5
  <2> QED  BY <1>r, <1>t, <2>1, <2>2, <2>3
<1>l. \A x : Live(x)' => Live(x) \/ x = s
  <2> SUFFICES ASSUME NEW x, Live(x)', x # s PROVE Live(x)
    OBVIOUS
  <2>1. CASE x = 0
    BY <2>1 DEF Live
  <2>2. CASE InTable(x)'
    <3>1. PICK i \in DOMAIN table' : table'[i] = x
      BY <2>2 DEF InTable
    <3> QED  BY <3>1 DEF Live
  <2>3. CASE \E k \in Messages : turn'[k].pc \notin Out /\ turn'[k].session = x
    BY <1>t, <2>3 DEF Live
  <2> QED  BY <2>1, <2>2, <2>3 DEF Live, InTable
<1>7. SettingsLast'
  <2> SUFFICES ASSUME NEW x \in 0 .. N, Live(x)', NEW j \in Messages, turn'[j].session = x
               PROVE  /\ turn'[j].line \in DriverLines => sessions'[x].driver >= j
                      /\ turn'[j].line \in SkillLines => sessions'[x].skill >= j
    BY DEF SettingsLast
  <2>n. j \in Nat /\ j >= j
    BY DEF Messages
  <2>1. CASE j = m
    BY <1>s, <1>t, <2>1, <2>n
  <2>2. CASE j > m
    <3>1. turn'[j].line = "ignored"
      BY <1>n, <1>o, <1>t, <2>2
    <3> QED  BY <3>1 DEF DriverLines, SkillLines
  <2>3. CASE j < m
    <3>1. turn'[j].session = turn[j].session /\ turn'[j].line = turn[j].line
      BY <1>n, <1>t, <2>3, <2>n
    <3>2. turn[j].session <= j /\ turn[j].session \in Nat
      BY TurnFacts DEF TurnSound
    <3>3. x # m
      BY <1>n, <2>3, <2>n, <3>1, <3>2
    <3>4. Live(x)
      BY <1>l, <1>m, <3>3
    <3>5. /\ turn[j].line \in DriverLines => sessions[x].driver >= j
          /\ turn[j].line \in SkillLines => sessions[x].skill >= j
      BY <3>1, <3>4 DEF Inv, SettingsLast
    <3>6. m >= j
      BY <1>n, <2>3, <2>n
    <3> QED  BY <1>s, <3>1, <3>5, <3>6
  <2> QED  BY <1>n, <2>1, <2>2, <2>3, <2>n
<1>8. UsedLast'
  <2> SUFFICES ASSUME NEW j \in Messages, NEW k \in Messages,
                      turn'[j].session = turn'[k].session, j < k, turn'[k].used.heart # "none"
               PROVE  /\ turn'[j].line \in DriverLines => turn'[k].used.driver >= j
                      /\ turn'[j].line \in SkillLines => turn'[k].used.skill >= j
    BY DEF UsedLast
  <2>1. k # m /\ turn[k].used.heart # "none"
    BY <1>t
  <2>2. j # m
    <3>1. ~(k > m)
      BY <1>n, <1>o, <2>1
    <3> QED  BY <1>n, <3>1 DEF Messages
  <2> QED  BY <1>t, <2>1, <2>2 DEF Inv, UsedLast
<1>9. ActiveRuns'
  <2> SUFFICES ASSUME front = "repl" PROVE ActiveRuns'
    BY <1>u DEF ActiveRuns
  <2>1. \A k \in Messages : turn'[k].pc \in RunPcs => turn[k].pc \in RunPcs /\ k < m
    BY <1>n, <1>t DEF RunPcs, Messages
  <2>2. \A k \in Messages : turn[k].pc \in RunPcs => turn'[k].pc \in RunPcs
    BY <1>n, <1>t DEF RunPcs
  <2>3. \A j \in Messages : turn'[j].pc = "begin" => j = m \/ turn[j].pc = "begin"
    BY <1>t
  <2>4. active # 0 => active \in Messages
    BY SessionsAssumption DEF Inv, PlainTypes, Messages
  <2> QED  BY <2>1, <2>2, <2>3, <2>4 DEF Inv, ActiveRuns
<1> QED  BY <1>s, <1>t, <1>1, <1>3, <1>4, <1>5, <1>6, <1>7, <1>8, <1>9 DEF Inv

(* The Telegram bot's updates keep it.                                     *)
LEMMA TelegramKeepsInv ==
  ASSUME Inv, NEW line \in Lines, TelegramReceives(line)
  PROVE  Inv'
<1>1. PICK m \in Messages : m = next
  BY DEF TelegramReceives, Comes
<1>2. /\ up = "up" /\ front = "telegram" /\ UNCHANGED <<up, socket, confirmed, active, paused, overlap>>
      /\ TableOK
  BY DEF TelegramReceives, Inv
<1>3. 0 \in 0 .. N /\ 0 <= m
  BY SessionsAssumption DEF Messages
<1>4. CASE line = "ignored"
  <2>1. Receives(next, line, 0, "done") /\ UNCHANGED table
    BY <1>4 DEF TelegramReceives
  <2>2. TableOK' /\ \A i \in DOMAIN table' : InTable(table'[i])
    BY <1>2, <2>1 DEF TableOK, InTable
  <2>3. line \notin Asks /\ line \notin DriverLines \union SkillLines /\ Live(0)
    BY <1>4 DEF Asks, DriverLines, SkillLines, Live
  <2> QED  BY <1>1, <1>2, <1>3, <2>1, <2>2, <2>3, ReceivesKeepsInv
<1>5. CASE line # "ignored"
  <2>1. /\ SessionOf(m) \in Messages /\ ChatOf[SessionOf(m)] = ChatOf[m]
        /\ SessionOf(m) = m \/ InTable(SessionOf(m))
        /\ Seen(m) \in Seq(Messages) /\ Len(Seen(m)) <= SessionCap
        /\ \A i, j \in DOMAIN Seen(m) : ChatOf[Seen(m)[i]] = ChatOf[Seen(m)[j]] => i = j
        /\ \A i \in DOMAIN Seen(m) : Seen(m)[i] = SessionOf(m) \/ InTable(Seen(m)[i])
    BY <1>2, SeenTable
  <2>2. PICK s \in Messages : s = SessionOf(m)
    BY <2>1
  <2>3. PICK pc \in {"status", "task", "reply"} :
          /\ Receives(next, line, s, pc)
          /\ pc = "status" <=> line \in Asks
    BY <1>1, <1>5, <2>2 DEF TelegramReceives
  <2>4. table' = Seen(m)
    BY <1>1, <1>5 DEF TelegramReceives
  <2>5. TableOK' /\ \A i \in DOMAIN table' : table'[i] = s \/ InTable(table'[i])
    BY <2>1, <2>2, <2>4 DEF TableOK
  <2>6. s <= m /\ (Live(s) \/ s = m) /\ s # 0 /\ s \in 0 .. N
    <3>1. CASE s = m
      BY <3>1, <1>3 DEF Messages
    <3>2. CASE InTable(s)
      <4>1. s < m
        BY <1>1, <3>2 DEF Inv, TableBehind, InTable
      <4> QED  BY <3>2, <4>1 DEF Messages, Live
    <3> QED  BY <2>1, <2>2, <3>1, <3>2
  <2>7. pc \in {"begin", "task", "reply", "status", "done"} /\ pc # "done"
    BY <2>3
  <2> QED  BY <1>1, <1>2, <2>1, <2>2, <2>3, <2>5, <2>6, <2>7, ReceivesKeepsInv
<1> QED  BY <1>4, <1>5

(* The Slack bot's envelopes, and the lines of the terminal.               *)
LEMMA OthersKeepInv ==
  ASSUME Inv, NEW line \in Lines, SlackReceives(line) \/ ReplReceives(line)
  PROVE  Inv'
<1>1. /\ up = "up" /\ next \in Messages /\ TableOK /\ 0 \in 0 .. N /\ 0 <= next
      /\ Live(0) /\ UNCHANGED <<up, socket, table, active, paused, overlap>>
  BY SessionsAssumption DEF SlackReceives, ReplReceives, Comes, Inv, Messages, Live
<1>2. TableOK' /\ \A i \in DOMAIN table' : InTable(table'[i])
  BY <1>1 DEF TableOK, InTable
<1>3. CASE SlackReceives(line)
  <2>1. PICK l \in {"plain", "ignored"}, pc \in {"status", "done"} :
          Receives(next, l, 0, pc) /\ (pc = "done" <=> l = "ignored")
    BY <1>3 DEF SlackReceives
  <2>2. /\ l \in Lines /\ l \notin DriverLines \union SkillLines
        /\ pc = "done" => l \notin Asks
    BY <2>1 DEF Lines, Asks, DriverLines, SkillLines
  <2>3. /\ confirmed' = confirmed \union {next} /\ front = "slack"
        /\ pc \in {"begin", "task", "reply", "status", "done"} /\ pc \notin {"task", "reply"}
    BY <1>3, <2>1 DEF SlackReceives
  <2> QED  BY <1>1, <1>2, <2>1, <2>2, <2>3, ReceivesKeepsInv
<1>4. CASE ReplReceives(line)
  <2>1. PICK pc \in {"begin", "task"} :
          Receives(next, line, 0, pc) /\ (pc = "task" => line \notin Asks)
    BY <1>4 DEF ReplReceives, Asks
  <2>2. /\ confirmed' = confirmed /\ front = "repl"
        /\ pc \in {"begin", "task", "reply", "status", "done"} /\ pc \notin {"status", "reply"}
    BY <1>1, <1>4, <2>1 DEF ReplReceives
  <2> QED  BY <1>1, <1>2, <2>1, <2>2, ReceivesKeepsInv
<1> QED  BY <1>3, <1>4

-----------------------------------------------------------------------------
(* The end of the process, and steps that touch no turn *)

(* The end of the process keeps the invariant.                             *)
LEMMA ForgottenKeepsInv ==
  ASSUME Inv, Forgotten, up' \in {"ended", "died"}
  PROVE  Inv'
<1>1. PICK c \in 0 .. N : confirmed = 1 .. c /\ c < next
  BY DEF Inv, Order
<1>2. c \in Nat /\ next' = c + 1 /\ confirmed \subseteq Messages
  <2>1. Cardinality(1 .. c) = c
    BY FS_Interval
  <2> QED  BY <1>1, <2>1 DEF Forgotten, Inv, PlainTypes
<1>f. /\ socket' = FALSE /\ table' = <<>> /\ active' = 0 /\ batch' = 0
      /\ paused' = FALSE
      /\ daemon' = [m \in Messages |-> "none"]
      /\ sessions' = [s \in 0 .. N |-> NewSession]
      /\ UNCHANGED <<front, mode, confirmed, overlap, starts, restarts>>
  BY DEF Forgotten, history
<1> DEFINE kept(k) == [turn[k] EXCEPT !.edit = FALSE]
           gone == [NewTurn EXCEPT !.pc = "gone"]
<1>3. \A k \in Messages : turn'[k] = IF k \notin confirmed THEN NewTurn
                                     ELSE IF turn[k].pc = "done" THEN kept(k) ELSE gone
  BY DEF Forgotten
<1>4. ASSUME NEW k \in Messages
      PROVE  /\ kept(k) \in TurnType
             /\ kept(k).pc = turn[k].pc /\ kept(k).line = turn[k].line
             /\ kept(k).session = turn[k].session /\ kept(k).used = turn[k].used
             /\ kept(k).shows = turn[k].shows /\ kept(k).missed = turn[k].missed
             /\ kept(k).past = turn[k].past /\ kept(k).edit = FALSE
  BY TurnFacts DEF TurnType
<1>5. /\ gone \in TurnType /\ gone.pc = "gone" /\ gone.line = "ignored" /\ gone.session = 0
      /\ gone.used.heart = "none" /\ gone.past = FALSE
  BY NewTurnType DEF TurnType
<1>6. turn' \in [Messages -> TurnType]
  <2>1. turn' = [k \in Messages |-> IF k \notin confirmed THEN NewTurn
                                    ELSE IF turn[k].pc = "done" THEN kept(k) ELSE gone]
    BY DEF Forgotten
  <2> HIDE DEF kept, gone
  <2> QED  BY <1>4, <1>5, <2>1, NewTurnType
<1> HIDE DEF kept, gone
<1>k. ASSUME NEW k \in Messages
      PROVE  \/ /\ turn'[k].pc \in {"none", "gone"} /\ turn'[k].line = "ignored"
                /\ turn'[k].session = 0 /\ turn'[k].used.heart = "none" /\ ~turn'[k].past
                /\ turn'[k].pc = "none" => ~turn'[k].edit
             \/ /\ k \in confirmed /\ turn[k].pc = "done" /\ turn'[k].pc = "done"
                /\ turn'[k].line = turn[k].line /\ turn'[k].session = turn[k].session
                /\ turn'[k].used = turn[k].used /\ turn'[k].shows = turn[k].shows
                /\ turn'[k].missed = turn[k].missed /\ turn'[k].past = turn[k].past
  BY <1>3, <1>4, <1>5, NewTurnType
<1>7. PlainTypes'
  <2>1. /\ next' \in 1 .. N + 1 /\ 0 \in 0 .. N
        /\ daemon' \in [Messages -> {"none", "running", "over", "aborted"}]
    BY <1>1, <1>2, <1>f, SessionsAssumption
  <2> QED  BY <1>f, <2>1 DEF Inv, PlainTypes
<1>8. SessionsType' /\ \A s \in 0 .. N : \A k : ~Remembers(sessions'[s], k)
  <2>1. \A s \in 0 .. N : sessions'[s] = NewSession
    BY <1>f
  <2>2. SessionsType'
    BY <1>f, <2>1, NewSessionType DEF SessionsType
  <2>3. \A k : ~Remembers(NewSession, k)
    BY NewSessionType DEF Remembers
  <2> QED  BY <2>1, <2>2, <2>3
<1>9. TableOK' /\ TableBehind' /\ \A s : ~InTable(s)'
  <2>1. <<>> \in Seq(Messages) /\ Len(<<>>) = 0 /\ DOMAIN <<>> = {}
    OBVIOUS
  <2> QED  BY <1>f, <2>1, ChatAssumption DEF TableOK, InTable, TableBehind
<1>10. Order'
  <2>1. /\ \E d \in 0 .. N : confirmed' = 1 .. d /\ d < next'
        /\ confirmed' = 1 .. next' - 1
    BY <1>1, <1>2, <1>f
  <2>2. \A m \in Messages : m < next' => m < next
    BY <1>1, <1>2 DEF Messages, Inv, PlainTypes
  <2> QED  BY <1>f, <2>1, <2>2 DEF Inv, Order
<1>11. ASSUME NEW k \in Messages
       PROVE  TurnSound(k, turn[k], daemon[k])' /\ (k >= next => turn[k].pc = "none")'
  <2>1. k >= next' => turn'[k].pc = "none"
    BY <1>1, <1>2, <1>3, NewTurnType DEF Messages
  <2>2. TurnSound(k, turn[k], daemon[k]) /\ daemon'[k] = "none" /\ 0 <= k
    BY <1>f, TurnFacts DEF Messages
  <2>3. TurnSound(k, turn[k], daemon[k])'
    BY <1>f, <1>k, <2>2 DEF TurnSound, Before, After, DriverLines, SkillLines
  <2> QED  BY <2>1, <2>3
<1>12. TurnsSound'
  BY <1>11 DEF TurnsSound
<1>13. MemoryKept'
  <2>1. \A k \in Messages : turn'[k].session \in 0 .. N
    BY <1>6 DEF TurnType
  <2> QED  BY <1>8, <2>1 DEF MemoryKept, Remembers
<1>14. SettingsLast'
  <2> SUFFICES ASSUME NEW s \in 0 .. N, Live(s)', NEW j \in Messages, turn'[j].session = s,
                      turn'[j].line \in DriverLines \union SkillLines
               PROVE  FALSE
    BY DEF SettingsLast
  <2>1. s = 0
    BY <1>9, <1>k DEF Live, Out
  <2>2. front = "repl"
    BY <1>11, <1>f, <2>1 DEF TurnSound
  <2>3. j \notin confirmed
    BY <2>2 DEF Inv, Order
  <2>4. turn'[j].line = "ignored"
    BY <1>3, <2>3, NewTurnType
  <2> QED  BY <2>4 DEF DriverLines, SkillLines
<1>15. UsedLast'
  <2> SUFFICES ASSUME NEW j \in Messages, NEW k \in Messages,
                      turn'[j].session = turn'[k].session, j < k, turn'[k].used.heart # "none"
               PROVE  /\ turn'[j].line \in DriverLines => turn'[k].used.driver >= j
                      /\ turn'[j].line \in SkillLines => turn'[k].used.skill >= j
    BY DEF UsedLast
  <2>1. turn'[k].used = turn[k].used /\ turn'[k].session = turn[k].session
    BY <1>k
  <2>2. \/ turn'[j].line = "ignored"
        \/ turn'[j].line = turn[j].line /\ turn'[j].session = turn[j].session
    BY <1>k
  <2> QED  BY <2>1, <2>2 DEF Inv, UsedLast, DriverLines, SkillLines
<1>16. ActiveRuns'
  <2>1. \A k \in Messages : turn'[k].pc \notin RunPcs
    BY <1>k DEF RunPcs
  <2> QED  BY <1>f, <2>1 DEF ActiveRuns
<1> QED
  BY <1>6, <1>7, <1>8, <1>9, <1>10, <1>12, <1>13, <1>14, <1>15, <1>16 DEF Inv

(* So does a step that touches no turn and no session.                     *)
LEMMA QuietKeepsInv ==
  ASSUME Inv,
         UNCHANGED <<front, mode, next, turn, sessions, table, daemon, active, paused, overlap,
                     starts>>,
         up' \in {"up", "ended", "died"}, socket' \in BOOLEAN, batch' \in 0 .. N,
         confirmed' \subseteq Messages, restarts' \in 0 .. MaxRestarts, Order'
  PROVE  Inv'
<1>1. PlainTypes'
  BY DEF Inv, PlainTypes
<1>2. SessionsType' /\ TableOK' /\ TableBehind' /\ UsedLast' /\ turn' \in [Messages -> TurnType]
  BY DEF Inv, SessionsType, TableOK, TableBehind, UsedLast
<1>3. MemoryKept'
  BY DEF Inv, MemoryKept, Remembers
<1>4. TurnsSound'
  BY DEF Inv, TurnsSound, TurnSound
<1>5. SettingsLast'
  <2>1. \A s : Live(s)' <=> Live(s)
    BY DEF Live, InTable
  <2> QED  BY <2>1 DEF Inv, SettingsLast
<1>6. ActiveRuns'
  BY DEF Inv, ActiveRuns
<1> QED  BY <1>1, <1>2, <1>3, <1>4, <1>5, <1>6 DEF Inv

(* Which steps do not.                                                     *)
LEMMA QuietSteps ==
  ASSUME Inv, Polls \/ SlackConnects \/ SlackDisconnects \/ Restart \/ TerminalCloses \/ UNCHANGED vars
  PROVE  Inv'
<1>0. PlainTypes /\ Order
  BY DEF Inv
<1>1. CASE Polls
  <2>1. PICK c \in 0 .. N : confirmed = 1 .. c /\ c < next
    BY <1>0 DEF Order
  <2>2. next \in 1 .. N + 1
    BY <1>0 DEF PlainTypes
  <2>3. confirmed' = 1 .. next - 1 /\ next - 1 \in 0 .. N /\ next - 1 < next
    BY <1>1, <2>1, <2>2, SessionsAssumption DEF Polls
  <2>4. /\ UNCHANGED <<front, mode, up, socket, next, table, active, paused, overlap, turn,
                       sessions, daemon, starts, restarts>>
        /\ front = "telegram"
    BY <1>1 DEF Polls, history
  <2>5. Order'
    BY <1>0, <2>3, <2>4 DEF Order
  <2>6. batch' \in 0 .. N /\ confirmed' \subseteq Messages
    BY <1>1, <2>2, <2>3, SessionsAssumption DEF Polls, Messages
  <2> QED  BY <1>0, <2>4, <2>5, <2>6, QuietKeepsInv DEF PlainTypes
<1>2. CASE Restart
  <2>1. /\ UNCHANGED <<front, mode, socket, next, batch, confirmed, turn, sessions, table, daemon,
                       active, paused, overlap, starts>>
        /\ front # "repl" /\ up' = "up" /\ restarts' = restarts + 1 /\ restarts < MaxRestarts
    BY <1>2 DEF Restart
  <2>2. restarts' \in 0 .. MaxRestarts
    BY <1>0, <2>1, ChatAssumption DEF PlainTypes
  <2>3. Order'
    BY <1>0, <2>1, ChatAssumption DEF Order, PlainTypes
  <2> QED  BY <1>0, <2>1, <2>2, <2>3, QuietKeepsInv DEF PlainTypes
<1>3. CASE SlackConnects \/ SlackDisconnects \/ TerminalCloses \/ UNCHANGED vars
  <2>1. /\ UNCHANGED <<front, mode, next, batch, confirmed, turn, sessions, table, daemon, active,
                       paused, overlap, starts, restarts>>
        /\ socket' = socket \/ socket' \in BOOLEAN
        /\ up' = up \/ up' = "ended"
    BY <1>3 DEF SlackConnects, SlackDisconnects, TerminalCloses, vars, history
  <2>2. Order'
    BY <1>0, <2>1 DEF Order
  <2> QED  BY <1>0, <2>1, <2>2, QuietKeepsInv DEF PlainTypes
<1> QED  BY <1>1, <1>2, <1>3

-----------------------------------------------------------------------------
(* Every step *)

(* Which kinds of steps there are.                                         *)
LEMMA StepKinds ==
  ASSUME Inv, [Next]_vars
  PROVE  \/ \E m \in Messages : \E t : Moves(m, t)
         \/ \E line \in Lines :
              TelegramReceives(line) \/ SlackReceives(line) \/ ReplReceives(line)
         \/ Forgotten /\ up' \in {"ended", "died"}
         \/ Polls \/ SlackConnects \/ SlackDisconnects \/ Restart \/ TerminalCloses \/ UNCHANGED vars
<1> DEFINE M == \E m \in Messages : \E t : Moves(m, t)
           R == \E line \in Lines :
                  TelegramReceives(line) \/ SlackReceives(line) \/ ReplReceives(line)
           F == Forgotten /\ up' \in {"ended", "died"}
           Q == Polls \/ SlackConnects \/ SlackDisconnects \/ Restart \/ TerminalCloses
                  \/ UNCHANGED vars
<1> SUFFICES M \/ R \/ F \/ Q
  OBVIOUS
<1>1. Dies => F
  BY DEF Dies
<1>2. Ends => F
  BY DEF Ends
<1>3. ASSUME NEW m \in Messages, TurnStep(m) PROVE M \/ F
  <2>1. CASE Posts(m) \/ Attaches(m)
    BY <2>1, DaemonMoves
  <2>2. CASE LocalRunEnds(m) \/ StreamEnds(m)
    BY <2>2, RunEndsMoves
  <2>3. CASE StatusSettles(m)
    BY <1>1, <2>3, StatusMoves
  <2>4. CASE FinalEditSettles(m) \/ FallbackSettles(m) \/ ErrorSettles(m)
    BY <2>4, ShownMoves
  <2>5. CASE ReplySettles(m) \/ TaskSettles(m)
    BY <1>1, <2>5, ReplyMoves
  <2>6. CASE ReplBegins(m)
    BY <1>1, <2>6, ReplMoves
  <2> QED  BY <1>3, <2>1, <2>2, <2>3, <2>4, <2>5, <2>6 DEF TurnStep
<1>4. ASSUME NEW m \in Messages, DaemonRunEnds(m) \/ Progress(m) \/ EditSettles(m) PROVE M
  BY <1>4, DaemonMoves, EditMoves
<1>5. CtrlCPosting \/ CtrlC => M
  BY AbortMoves
<1>6. (\E line \in Lines : TelegramReceives(line)) => R
  OBVIOUS
<1>7. (\E line \in Lines : SlackReceives(line)) => R
  OBVIOUS
<1>8. (\E line \in Lines : ReplReceives(line)) => R
  OBVIOUS
<1>9. Polls \/ SlackConnects \/ SlackDisconnects \/ Restart \/ TerminalCloses \/ UNCHANGED vars => Q
  OBVIOUS
<1> HIDE DEF M, R, F, Q
<1>10. CASE TelegramNext
  BY <1>6, <1>9, <1>10 DEF TelegramNext
<1>11. CASE SlackNext
  BY <1>7, <1>9, <1>11 DEF SlackNext
<1>12. CASE ReplNext
  BY <1>5, <1>8, <1>9, <1>12 DEF ReplNext
<1> QED  BY <1>2, <1>3, <1>4, <1>9, <1>10, <1>11, <1>12 DEF Next

(* Every state that can be reached satisfies the invariant.                *)
THEOREM Invariance == Spec => []Inv
<1>1. ASSUME Inv, [Next]_vars PROVE Inv'
  BY <1>1, StepKinds, MovesKeepInv, TelegramKeepsInv, OthersKeepInv, ForgottenKeepsInv, QuietSteps
<1> QED  BY <1>1, InitInv, PTL DEF Spec

(* TypeOK: the map of sessions never holds more than SESSION_CAP sessions, *)
(* nor two of one chat, and histories are capped at whole exchanges,       *)
(* however turns, commands and restarts interleave.                        *)
THEOREM TypeCorrect == Spec => []TypeOK
BY Invariance, InvTypes, PTL

(* Delivery: a message the vendor forgets has been begun, and none is      *)
(* begun twice by one process.                                             *)
THEOREM DeliveryHolds == Spec => []Delivery
<1>1. Inv => Delivery
  <2> SUFFICES ASSUME Inv, NEW m \in Messages
               PROVE  (m \in confirmed => starts[m] > 0) /\ starts[m] <= restarts + 1
    BY DEF Delivery
  <2>1. m \in confirmed => m < next
    BY DEF Inv, Order, PlainTypes, Messages
  <2> QED  BY <2>1 DEF Inv, Order
<1> QED  BY <1>1, Invariance, PTL

(* LastWordCounts: no run begins with a setting that was replaced before   *)
(* its message came, and no session remembers what ended before its /reset.*)
THEOREM LastWordHolds == Spec => []LastWordCounts
<1>1. Inv => LastWordCounts
  BY DEF Inv, MemoryKept, UsedLast, LastWordCounts, DriverLines, SkillLines
<1> QED  BY <1>1, Invariance, PTL

(* EndIsShown: the user of a bot sees the end of each turn, or the last    *)
(* call for it failed.                                                     *)
THEOREM EndShown == Spec => []EndIsShown
<1>1. Inv => EndIsShown
  BY DEF Inv, TurnsSound, TurnSound, EndIsShown
<1> QED  BY <1>1, Invariance, PTL

(* AbortReachesTheRun: the terminal is deaf only during the turn in active,*)
(* active holds the youngest turn under way and, without overlaps, the only*)
(* one; and no run goes on at the daemon whose id the client had and whose *)
(* events it could get to the end.                                         *)
THEOREM AbortReaches == Spec => []AbortReachesTheRun
<1>1. Inv => TerminalSound
  <2>1. Inv => (active # 0 => active \in Messages)
    BY SessionsAssumption DEF Inv, PlainTypes, Messages
  <2> QED  BY <2>1 DEF Inv, ActiveRuns, TerminalSound, Running, RunPcs
<1>2. Inv => AbandonedOnlyUnknown
  BY DEF Inv, TurnsSound, TurnSound, After, AbandonedOnlyUnknown
<1> QED  BY <1>1, <1>2, Invariance, PTL DEF AbortReachesTheRun

-----------------------------------------------------------------------------
(* Sessions keep the promise of a conversation *)

(* What a step of it does to the memory of session s.                      *)
Kept(s) == Conv(s)!Next \/ UNCHANGED ExchangesOf(sessions[s].history)

(* A history that is emptied, or left alone.                               *)
LEMMA EmptiedOrSame ==
  ASSUME NEW s, sessions'[s].history \in {<<>>, sessions[s].history}
  PROVE  Kept(s)
<1>1. CASE sessions'[s].history = <<>>
  <2>1. ExchangesOf(sessions'[s].history) = <<>>
    <3>1. Len(sessions'[s].history) \div 2 = 0
      BY <1>1
    <3>2. ExchangesOf(sessions'[s].history) = [i \in 1 .. 0 |-> sessions'[s].history[2 * i][2]]
      BY <3>1 DEF ExchangesOf
    <3> QED  BY <3>2
  <2> QED  BY <2>1 DEF Kept, Conv!Next, Conv!Forget
<1>2. CASE sessions'[s].history = sessions[s].history
  BY <1>2 DEF Kept
<1> QED  BY <1>1, <1>2

(* An exchange is pushed.                                                  *)
LEMMA PushKeeps ==
  ASSUME Inv, NEW m \in Messages, NEW t, Moves(m, t), NEW s \in 0 .. N
  PROVE  Kept(s)
<1>1. SessionsType /\ turn[m].session \in 0 .. N
  BY TurnFacts DEF Inv
<1>2. CASE sessions' = sessions
  BY <1>2, EmptiedOrSame
<1>3. CASE Pushes(m, t) /\ s # turn[m].session
  <2>1. sessions'[s] = sessions[s]
    BY <1>1, <1>3 DEF Pushes, SessionsType
  <2> QED  BY <2>1, EmptiedOrSame
<1>4. CASE Pushes(m, t) /\ s = turn[m].session
  <2> DEFINE h == sessions[s].history
             e == ExchangesOf(h)
  <2>1. sessions[s] \in Session /\ h \in Seq(Entry) /\ Whole(h)
    BY <1>1 DEF SessionsType, Session
  <2>2. sessions'[s] = Pushed(sessions[s], m)
    BY <1>1, <1>4 DEF Pushes, SessionsType
  <2>3. ExchangesOf(sessions'[s].history) = Newest(Append(e, m))
    BY <2>1, <2>2, PushedSession
  <2>4. ~Remembers(sessions[s], m)
    BY <1>4 DEF Inv, MemoryKept, Pushes, After
  <2>5. \A i \in DOMAIN e : e[i] # m
    <3> SUFFICES ASSUME NEW i \in DOMAIN e PROVE e[i] # m
      OBVIOUS
    <3>1. LET k == Len(h) \div 2 IN
          /\ k \in 0 .. Capacity /\ Len(h) = 2 * k
          /\ e \in Seq(Messages) /\ Len(e) = k
          /\ \A x \in 1 .. k : e[x] = h[2 * x][2]
      BY <2>1, WholeHistory
    <3>2. i \in 1 .. Len(e) /\ Len(h) = 2 * Len(e) /\ Len(e) \in Nat /\ e[i] = h[2 * i][2]
      BY <3>1, LenProperties
    <3>3. 2 * i \in DOMAIN h
      BY <2>1, <3>2, LenProperties
    <3> QED  BY <2>4, <3>2, <3>3 DEF Remembers
  <2>6. s = 0 \/ ChatOf[m] = ChatOf[s]
    BY <1>4, TurnFacts DEF TurnSound
  <2> HIDE DEF h
  <2>7. Conv(s)!Remember(m)
    BY <2>3, <2>5 DEF Conv!Remember, Conv!Latest, Newest, Capacity, h
  <2> QED  BY <2>6, <2>7 DEF Kept, Conv!Next
<1> QED  BY <1>2, <1>3, <1>4 DEF Moves

(* A command that comes in forgets, or leaves alone.                       *)
LEMMA ReceivesKeeps ==
  ASSUME Inv, NEW m \in Messages, NEW line \in Lines, NEW x \in 0 .. N, NEW pc,
         Receives(m, line, x, pc), NEW s \in 0 .. N
  PROVE  Kept(s)
<1>1. sessions'[s].history \in {<<>>, sessions[s].history}
  BY ReceivedSessions
<1> QED  BY <1>1, EmptiedOrSame

(* ConversationsKept: each session implements module Conversation: whole   *)
(* exchanges, each once, in the order in which they ended, the latest      *)
(* ones, and /reset forgets them all.                                      *)
THEOREM ConversationsHold == Spec => ConversationsKept
<1>1. ASSUME Inv, [Next]_vars, NEW s \in 0 .. N PROVE Kept(s)
  <2>1. CASE \E m \in Messages : \E t : Moves(m, t)
    BY <1>1, <2>1, PushKeeps
  <2>2. ASSUME NEW line \in Lines,
               TelegramReceives(line) \/ SlackReceives(line) \/ ReplReceives(line)
        PROVE  Kept(s)
    <3>1. PICK m \in Messages : m = next
      BY <2>2 DEF TelegramReceives, SlackReceives, ReplReceives, Comes
    <3>2. SessionOf(m) \in Messages /\ Messages \subseteq 0 .. N /\ 0 \in 0 .. N
      BY <1>1, SeenTable, SessionsAssumption DEF Inv, Messages
    <3>3. PICK x \in 0 .. N : x = SessionOf(m)
      BY <3>2
    <3>4. \E l \in Lines : \E y \in {0, x} : \E pc : Receives(m, l, y, pc)
      <4>1. CASE TelegramReceives(line)
        BY <3>1, <3>3, <4>1 DEF TelegramReceives
      <4>2. CASE SlackReceives(line)
        <5>1. "plain" \in Lines
          BY DEF Lines, Asks
        <5> QED  BY <3>1, <4>2, <5>1 DEF SlackReceives
      <4>3. CASE ReplReceives(line)
        BY <3>1, <4>3 DEF ReplReceives
      <4> QED  BY <2>2, <4>1, <4>2, <4>3
    <3>5. \E l \in Lines : \E y \in 0 .. N : \E pc : Receives(m, l, y, pc)
      BY <3>2, <3>4
    <3> QED  BY <1>1, <3>5, ReceivesKeeps
  <2>3. CASE Forgotten
    <3>1. sessions'[s].history = <<>>
      BY <2>3, NewSessionType DEF Forgotten
    <3> QED  BY <3>1, EmptiedOrSame
  <2>4. CASE Polls \/ SlackConnects \/ SlackDisconnects \/ Restart \/ TerminalCloses \/ UNCHANGED vars
    <3>1. sessions' = sessions
      BY <2>4 DEF Polls, SlackConnects, SlackDisconnects, Restart, TerminalCloses, vars
    <3> QED  BY <3>1, EmptiedOrSame
  <2> QED  BY <1>1, <2>1, <2>2, <2>3, <2>4, StepKinds
<1>2. Init => \A s \in 0 .. N : Conv(s)!Init
  <2> SUFFICES ASSUME Init, NEW s \in 0 .. N PROVE ExchangesOf(sessions[s].history) = <<>>
    BY DEF Conv!Init
  <2>1. sessions[s].history = <<>>
    BY NewSessionType DEF Init
  <2>2. Len(sessions[s].history) \div 2 = 0
    BY <2>1
  <2>3. ExchangesOf(sessions[s].history) = [i \in 1 .. 0 |-> sessions[s].history[2 * i][2]]
    BY <2>2 DEF ExchangesOf
  <2> QED  BY <2>3
<1>3. ASSUME Inv, [Next]_vars
      PROVE  [\A s \in 0 .. N :
                Conv(s)!Next \/ UNCHANGED ExchangesOf(sessions[s].history)]_vars
  BY <1>1, <1>3 DEF Kept
<1> QED  BY <1>2, <1>3, Invariance, PTL DEF Spec, ConversationsKept

-----------------------------------------------------------------------------
(* What MessagesSettle rests on: turns only go forward                     *)

(* How far a turn has come: the awaits of a handler in the order in which  *)
(* it meets them.                                                          *)
Rank(pc) ==
  CASE pc = "none" -> 0
    [] pc = "begin" -> 1
    [] pc \in {"task", "status"} -> 2
    [] pc \in {"run", "post"} -> 3
    [] pc = "attach" -> 4
    [] pc = "stream" -> 5
    [] pc = "final" -> 6
    [] pc \in {"reply", "fallback"} -> 7
    [] pc = "error" -> 8
    [] pc \in {"done", "gone"} -> 9

(* A turn in a process that lives moves only forward, and a step of a turn *)
(* moves it, if it does not end the process: so each takes at most nine,   *)
(* and what MessagesSettle needs of fairness is only that they are taken.  *)
TurnsGoForward ==
  [][/\ up' = "up" => \A m \in Messages :
          turn'[m].pc # turn[m].pc => Rank(turn'[m].pc) > Rank(turn[m].pc)
     /\ \A m \in Messages : TurnStep(m) => up' # "up" \/ turn'[m].pc # turn[m].pc]_vars

(* A turn that waits for events waits for a run of the daemon that goes on *)
(* or has an end to tell of; in particular none that was cancelled.        *)
StreamsHaveRuns ==
  \A m \in Messages :
    turn[m].pc \in {"attach", "stream"} => daemon[m] \in {"running", "over"}

(* What a step of turn m, or an abort of it, does in these respects.       *)
Forward(m) ==
  /\ Rank(turn'[m].pc) > Rank(turn[m].pc) /\ turn'[m].pc # turn[m].pc
  /\ turn'[m].pc \in {"attach", "stream"} => daemon'[m] \in {"running", "over"}
  /\ \A k \in Messages \ {m} : turn'[k] = turn[k] /\ daemon'[k] = daemon[k]

(* The ranks, one by one.                                                  *)
LEMMA Ranks ==
  /\ Rank("none") = 0 /\ Rank("begin") = 1 /\ Rank("task") = 2 /\ Rank("status") = 2
  /\ Rank("run") = 3 /\ Rank("post") = 3 /\ Rank("attach") = 4 /\ Rank("stream") = 5
  /\ Rank("final") = 6 /\ Rank("reply") = 7 /\ Rank("fallback") = 7 /\ Rank("error") = 8
  /\ Rank("done") = 9 /\ Rank("gone") = 9
BY DEF Rank

(* The catch block comes after every place of a run.                       *)
LEMMA FailsForward ==
  ASSUME Inv, NEW m \in Messages, Fails(m) \/ Breaks(m), turn[m].pc \in RunPcs,
         \A k \in Messages \ {m} : daemon'[k] = daemon[k]
  PROVE  Forward(m)
<1> DEFINE b == [turn[m] EXCEPT !.broken = TRUE]
<1>1. turn[m] \in TurnType /\ turn \in [Messages -> TurnType]
  BY TurnFacts DEF Inv
<1>2. b \in TurnType
  BY <1>1 DEF TurnType
<1>3. \E r \in {turn[m], b} : turn' = [turn EXCEPT ![m] = Failed(r)]
  BY <1>1 DEF Fails, Breaks
<1> HIDE DEF b
<1>4. PICK r \in TurnType : turn' = [turn EXCEPT ![m] = Failed(r)]
  BY <1>1, <1>2, <1>3
<1> DEFINE t == Failed(r)
<1>5. t.pc \in {"done", "error"}
  BY EndFields
<1>6. turn' = [turn EXCEPT ![m] = t]
  BY <1>4
<1> HIDE DEF t
<1>7. Rank(t.pc) >= 8 /\ Rank(turn[m].pc) <= 5
  BY <1>5, Ranks DEF RunPcs
<1>8. Rank(t.pc) \in Int /\ Rank(turn[m].pc) \in Int
  BY <1>5, Ranks DEF RunPcs
<1>9. Rank(t.pc) > Rank(turn[m].pc)
  BY <1>7, <1>8
<1>10. t.pc # turn[m].pc /\ t.pc \notin {"attach", "stream"}
  BY <1>5 DEF RunPcs
<1>11. turn'[m] = t /\ \A k \in Messages \ {m} : turn'[k] = turn[k]
  BY <1>1, <1>6
<1> QED  BY <1>9, <1>10, <1>11 DEF Forward

(* The answer does.                                                        *)
LEMMA AnswersForward ==
  ASSUME Inv, NEW m \in Messages, Answers(m), turn[m].pc \in {"run", "stream"},
         \A k \in Messages \ {m} : daemon'[k] = daemon[k]
  PROVE  Forward(m)
<1> DEFINE t == Answered(turn[m])
<1>1. t.pc \in {"done", "final", "fallback"}
  BY TurnFacts, EndFields
<1>2. turn' = [turn EXCEPT ![m] = t]
  BY DEF Answers
<1> HIDE DEF t
<1>3. turn'[m] = t /\ \A k \in Messages \ {m} : turn'[k] = turn[k]
  BY <1>2 DEF Inv
<1>4. Rank(t.pc) > Rank(turn[m].pc)
  BY <1>1, Ranks
<1>5. t.pc # turn[m].pc /\ t.pc \notin {"attach", "stream"}
  BY <1>1
<1> QED  BY <1>3, <1>4, <1>5 DEF Forward

(* The run of a turn begins, is attached to, and ends.                     *)
LEMMA RunsForward ==
  ASSUME Inv, NEW m \in Messages, StreamsHaveRuns,
         Posts(m) \/ Attaches(m) \/ LocalRunEnds(m) \/ StreamEnds(m)
  PROVE  Forward(m)
<1>1. /\ turn[m] \in TurnType /\ turn \in [Messages -> TurnType]
      /\ daemon \in [Messages -> {"none", "running", "over", "aborted"}]
  BY TurnFacts DEF Inv
<1>2. /\ turn[m].pc \in RunPcs
      /\ \A k \in Messages \ {m} : daemon'[k] = daemon[k]
  BY <1>1 DEF Posts, Attaches, LocalRunEnds, StreamEnds, At, RunPcs, unchangedByTurn
<1>3. CASE Fails(m) \/ Breaks(m)
  BY <1>2, <1>3, FailsForward
<1>4. CASE Posts(m) /\ ~Fails(m)
  <2> DEFINE t == [turn[m] EXCEPT !.pc = "attach", !.id = TRUE]
  <2>1. turn[m].pc = "post" /\ daemon'[m] = "running" /\ turn' = [turn EXCEPT ![m] = t]
    BY <1>1, <1>4 DEF Posts, At
  <2>2. t.pc = "attach"
    BY <1>1 DEF TurnType
  <2> HIDE DEF t
  <2>3. turn'[m] = t /\ \A k \in Messages \ {m} : turn'[k] = turn[k]
    BY <1>1, <2>1
  <2>4. Rank(t.pc) > Rank(turn[m].pc) /\ t.pc # turn[m].pc
    BY <2>1, <2>2, Ranks
  <2> QED  BY <1>2, <2>1, <2>3, <2>4 DEF Forward
<1>5. CASE Attaches(m) /\ ~Breaks(m)
  <2> DEFINE t == [turn[m] EXCEPT !.pc = "stream"]
  <2>1. turn[m].pc = "attach" /\ daemon' = daemon /\ turn' = [turn EXCEPT ![m] = t]
    BY <1>1, <1>5 DEF Attaches, At, Goes
  <2>2. t.pc = "stream"
    BY <1>1 DEF TurnType
  <2>3. daemon'[m] \in {"running", "over"}
    BY <2>1 DEF StreamsHaveRuns
  <2> HIDE DEF t
  <2>4. turn'[m] = t /\ \A k \in Messages \ {m} : turn'[k] = turn[k]
    BY <1>1, <2>1
  <2>5. Rank(t.pc) > Rank(turn[m].pc) /\ t.pc # turn[m].pc
    BY <2>1, <2>2, Ranks
  <2> QED  BY <1>2, <2>3, <2>4, <2>5 DEF Forward
<1>6. CASE (LocalRunEnds(m) \/ StreamEnds(m)) /\ ~Fails(m) /\ ~Breaks(m)
  <2>1. Answers(m) /\ turn[m].pc \in {"run", "stream"}
    BY <1>6 DEF LocalRunEnds, StreamEnds, At
  <2> QED  BY <1>2, <2>1, AnswersForward
<1> QED  BY <1>3, <1>4, <1>5, <1>6

(* The rest of a turn, when it does not end the process.                   *)
LEMMA ShowsForward ==
  ASSUME Inv, NEW m \in Messages, ~Dies,
         \/ StatusSettles(m) \/ FinalEditSettles(m) \/ FallbackSettles(m) \/ ErrorSettles(m)
         \/ ReplySettles(m) \/ TaskSettles(m) \/ ReplBegins(m)
  PROVE  Forward(m)
<1> DEFINE r == turn[m]
<1>0. /\ r \in TurnType /\ turn \in [Messages -> TurnType]
      /\ "end" \in Shown /\ "apart" \in Shown
  BY TurnFacts DEF Inv, Shown
<1>1. ASSUME NEW t \in TurnType, turn' = [turn EXCEPT ![m] = t], daemon' = daemon, t.pc = "done",
             r.pc \in {"begin", "status", "final", "fallback", "error", "reply", "task"}
      PROVE  Forward(m)
  <2>1. turn'[m] = t /\ \A k \in Messages \ {m} : turn'[k] = turn[k]
    BY <1>0, <1>1
  <2>2. Rank(t.pc) > Rank(r.pc)
    BY <1>1, Ranks
  <2>3. t.pc # r.pc /\ t.pc \notin {"attach", "stream"}
    BY <1>1
  <2> QED  BY <1>1, <2>1, <2>2, <2>3 DEF Forward
<1>2. ASSUME NEW t \in TurnType, turn' = [turn EXCEPT ![m] = t], daemon' = daemon,
             \/ r.pc = "final" /\ t.pc = "fallback"
             \/ r.pc = "fallback" /\ t.pc = "error"
             \/ r.pc = "task" /\ t.pc = "reply"
             \/ r.pc \in {"begin", "status"} /\ t.pc \in {"run", "post"}
      PROVE  Forward(m)
  <2>1. turn'[m] = t /\ \A k \in Messages \ {m} : turn'[k] = turn[k]
    BY <1>0, <1>2
  <2>2. Rank(t.pc) > Rank(r.pc)
    BY <1>2, Ranks
  <2>3. t.pc # r.pc /\ t.pc \notin {"attach", "stream"}
    BY <1>2
  <2> QED  BY <1>2, <2>1, <2>2, <2>3 DEF Forward
<1>3. /\ Done(r).pc = "done" /\ [Done(r) EXCEPT !.missed = TRUE].pc = "done"
      /\ Done(r) \in TurnType /\ [Done(r) EXCEPT !.missed = TRUE] \in TurnType
  BY <1>0, DoneFields, DoneMissed
<1>4. \A shows \in Shown : LET x == [Done(r) EXCEPT !.shows = shows] IN
        x \in TurnType /\ x.pc = "done"
  BY <1>0, DoneShown
<1>5. \A pc \in Onward : LET x == [r EXCEPT !.pc = pc] IN x \in TurnType /\ x.pc = pc
  BY <1>0, GoesFields
<1>6. CASE StatusSettles(m)
  <2>1. r.pc = "status" /\ daemon' = daemon
    BY <1>0, <1>6 DEF StatusSettles, At, unchangedByShow
  <2>2. ASSUME NEW shows \in {"working", "nothing"},
               turn' = [turn EXCEPT ![m] = Begun([@ EXCEPT !.shows = shows], m)]
        PROVE  Forward(m)
    <3> DEFINE q == [r EXCEPT !.shows = shows]
               t == Begun(q, m)
    <3>1. q \in TurnType
      BY <1>0 DEF TurnType
    <3>2. turn' = [turn EXCEPT ![m] = t]
      BY <2>2
    <3> HIDE DEF q
    <3>3. t.pc \in {"run", "post"} /\ t \in TurnType
      BY <3>1, BegunFields
    <3> HIDE DEF t
    <3> QED  BY <1>2, <2>1, <3>2, <3>3
  <2>3. CASE turn' = [turn EXCEPT ![m] = [Done(@) EXCEPT !.missed = TRUE]]
    BY <1>1, <1>3, <2>1, <2>3
  <2> QED  BY <1>0, <1>6, <2>2, <2>3 DEF StatusSettles
<1>7. CASE FinalEditSettles(m) \/ FallbackSettles(m)
  <2>1. r.pc \in {"final", "fallback"} /\ daemon' = daemon
    BY <1>7 DEF FinalEditSettles, FallbackSettles, At, unchangedByShow
  <2>2. \/ \E shows \in Shown : turn' = [turn EXCEPT ![m] = [Done(r) EXCEPT !.shows = shows]]
        \/ turn' = [turn EXCEPT ![m] = [Done(r) EXCEPT !.missed = TRUE]]
        \/ \E pc \in {"fallback", "error"} :
             /\ turn' = [turn EXCEPT ![m] = [r EXCEPT !.pc = pc]]
             /\ (r.pc = "final" /\ pc = "fallback") \/ (r.pc = "fallback" /\ pc = "error")
    BY <1>0, <1>7 DEF FinalEditSettles, FallbackSettles, At, Goes
  <2>3. CASE \E shows \in Shown : turn' = [turn EXCEPT ![m] = [Done(r) EXCEPT !.shows = shows]]
    BY <1>1, <1>4, <2>1, <2>3
  <2>4. CASE turn' = [turn EXCEPT ![m] = [Done(r) EXCEPT !.missed = TRUE]]
    BY <1>1, <1>3, <2>1, <2>4
  <2>5. ASSUME NEW pc \in {"fallback", "error"},
               turn' = [turn EXCEPT ![m] = [r EXCEPT !.pc = pc]],
               (r.pc = "final" /\ pc = "fallback") \/ (r.pc = "fallback" /\ pc = "error")
        PROVE  Forward(m)
    <3>1. LET x == [r EXCEPT !.pc = pc] IN x \in TurnType /\ x.pc = pc
      BY <1>5 DEF Onward
    <3> QED  BY <1>2, <2>1, <2>5, <3>1
  <2> QED  BY <2>2, <2>3, <2>4, <2>5
<1>8. CASE ErrorSettles(m)
  <2>1. r.pc = "error" /\ daemon' = daemon
    BY <1>8 DEF ErrorSettles, At, unchangedByShow
  <2>2. \/ \E shows \in Shown : turn' = [turn EXCEPT ![m] = [Done(r) EXCEPT !.shows = shows]]
        \/ turn' = [turn EXCEPT ![m] = [Done(r) EXCEPT !.missed = TRUE]]
    <3>1. Done(r).shows = r.shows
      BY <1>0, DoneFields
    <3> QED  BY <1>0, <1>8, <3>1 DEF ErrorSettles
  <2>3. CASE \E shows \in Shown : turn' = [turn EXCEPT ![m] = [Done(r) EXCEPT !.shows = shows]]
    BY <1>1, <1>4, <2>1, <2>3
  <2>4. CASE turn' = [turn EXCEPT ![m] = [Done(r) EXCEPT !.missed = TRUE]]
    BY <1>1, <1>3, <2>1, <2>4
  <2> QED  BY <2>2, <2>3, <2>4
<1>9. CASE ReplySettles(m) \/ TaskSettles(m)
  <2>1. r.pc \in {"reply", "task"} /\ daemon' = daemon
    BY <1>0, <1>9 DEF ReplySettles, TaskSettles, At, unchangedByShow
  <2>2. \/ turn' = [turn EXCEPT ![m] = Done(r)]
        \/ r.pc = "task" /\ turn' = [turn EXCEPT ![m] = [r EXCEPT !.pc = "reply"]]
    BY <1>0, <1>9 DEF ReplySettles, TaskSettles, At
  <2>3. LET x == [r EXCEPT !.pc = "reply"] IN x \in TurnType /\ x.pc = "reply"
    BY <1>5 DEF Onward
  <2> QED  BY <1>1, <1>2, <1>3, <2>1, <2>2, <2>3
<1>10. CASE ReplBegins(m)
  <2> DEFINE t == Begun(r, m)
  <2>1. /\ r.pc = "begin" /\ daemon' = daemon
        /\ turn' = [turn EXCEPT ![m] = t] \/ turn' = [turn EXCEPT ![m] = Done(r)]
    BY <1>10 DEF ReplBegins
  <2>2. t.pc \in {"run", "post"} /\ t \in TurnType
    BY <1>0, BegunFields
  <2> HIDE DEF t
  <2> QED  BY <1>1, <1>2, <1>3, <2>1, <2>2
<1> QED  BY <1>6, <1>7, <1>8, <1>9, <1>10

(* Ctrl-C moves the turn in active to its end.                             *)
LEMMA AbortForward ==
  ASSUME Inv, CtrlCPosting \/ CtrlC
  PROVE  \E m \in Messages : Forward(m)
<1>1. active \in Messages /\ turn[active].pc \in RunPcs
  <2>1. active # 0 /\ active \in 0 .. N
    BY DEF Inv, PlainTypes, CtrlC, CtrlCPosting
  <2>2. active \in Messages
    BY <2>1, SessionsAssumption DEF Messages
  <2> QED  BY <2>2 DEF CtrlC, CtrlCPosting, RunPcs
<1>2. PICK m \in Messages : m = active
  BY <1>1
<1>3. \A k \in Messages \ {m} : daemon'[k] = daemon[k]
  BY <1>2 DEF CtrlC, CtrlCPosting, Inv, PlainTypes
<1>4. Fails(m) \/ Breaks(m)
  BY <1>2 DEF CtrlC, CtrlCPosting
<1> QED  BY <1>1, <1>2, <1>3, <1>4, FailsForward

(* A message comes in: only its own turn moves, from "none".               *)
LEMMA ReceivesForward ==
  ASSUME Inv, NEW line \in Lines,
         TelegramReceives(line) \/ SlackReceives(line) \/ ReplReceives(line)
  PROVE  \E m \in Messages :
           /\ turn[m].pc = "none" /\ turn'[m].pc \in {"begin", "task", "reply", "status", "done"}
           /\ \A k \in Messages \ {m} : turn'[k].pc = turn[k].pc
           /\ daemon' = daemon
<1>1. PICK m \in Messages : m = next
  BY DEF TelegramReceives, SlackReceives, ReplReceives, Comes
<1>2. PICK pc \in {"begin", "task", "reply", "status", "done"} :
        \E l : \E s : Receives(m, l, s, pc)
  <2>1. CASE TelegramReceives(line)
    <3> DEFINE p == IF line \in Asks THEN "status"
                    ELSE IF line = "task" /\ mode = "daemon" THEN "task" ELSE "reply"
    <3>1. p \in {"task", "reply", "status"}
      OBVIOUS
    <3>2. Receives(m, line, 0, "done") \/ Receives(m, line, SessionOf(m), p)
      BY <1>1, <2>1 DEF TelegramReceives
    <3> HIDE DEF p
    <3> QED  BY <3>1, <3>2
  <2>2. CASE SlackReceives(line)
    <3>1. Receives(m, line, 0, "done") \/ Receives(m, "plain", 0, "status")
      BY <1>1, <2>2 DEF SlackReceives
    <3> QED  BY <3>1
  <2>3. CASE ReplReceives(line)
    <3> DEFINE p == IF line = "task" /\ mode = "daemon" THEN "task" ELSE "begin"
    <3>1. p \in {"task", "begin"}
      OBVIOUS
    <3>2. Receives(m, line, 0, p)
      BY <1>1, <2>3 DEF ReplReceives
    <3> HIDE DEF p
    <3> QED  BY <3>1, <3>2
  <2> QED  BY <2>1, <2>2, <2>3
<1>l. PICK l, s : Receives(m, l, s, pc)
  BY <1>2
<1>3. turn[m].pc = "none" /\ \A k \in Messages : turn[k] \in TurnType
  BY <1>1, TurnFacts DEF Inv, TurnsSound, PlainTypes
<1>4. /\ turn' = [k \in Messages |->
            IF k = m THEN [NewTurn EXCEPT !.pc = pc, !.line = l, !.session = s]
            ELSE [turn[k] EXCEPT !.past = @ \/ (l = "reset" /\ Remembers(sessions[s], k))]]
      /\ daemon' = daemon
  BY <1>l DEF Receives
<1>5. turn'[m].pc = pc
  BY <1>4 DEF NewTurn
<1>6. ASSUME NEW k \in Messages \ {m}  PROVE turn'[k].pc = turn[k].pc
  <2> DEFINE past == turn[k].past \/ (l = "reset" /\ Remembers(sessions[s], k))
  <2>1. turn'[k] = [turn[k] EXCEPT !.past = past]
    BY <1>3, <1>4 DEF TurnType
  <2> HIDE DEF past
  <2> QED  BY <1>3, <2>1 DEF TurnType
<1> QED  BY <1>2, <1>3, <1>4, <1>5, <1>6

(* The daemon's run ends, or an edit begins or is carried out.             *)
LEMMA AsideStays ==
  ASSUME Inv, StreamsHaveRuns, NEW m \in Messages,
         DaemonRunEnds(m) \/ Progress(m) \/ EditSettles(m)
  PROVE  /\ \A k \in Messages : turn'[k].pc = turn[k].pc
         /\ StreamsHaveRuns'
<1>1. /\ turn \in [Messages -> TurnType]
      /\ daemon \in [Messages -> {"none", "running", "over", "aborted"}]
  BY TurnFacts DEF Inv
<1>2. \A k \in Messages : turn'[k].pc = turn[k].pc
  <2>1. turn[m] \in TurnType
    BY <1>1
  <2>2. CASE DaemonRunEnds(m)
    BY <2>2 DEF DaemonRunEnds
  <2>3. CASE Progress(m)
    <3> DEFINE t == [turn[m] EXCEPT !.edit = TRUE]
    <3>1. t.pc = turn[m].pc
      BY <2>1 DEF TurnType
    <3>2. turn' = [turn EXCEPT ![m] = t]
      BY <2>3 DEF Progress
    <3> HIDE DEF t
    <3> QED  BY <1>1, <3>1, <3>2
  <2>4. CASE EditSettles(m)
    <3> DEFINE t == [turn[m] EXCEPT !.edit = FALSE]
               shows == IF turn[m].shows = "apart" THEN turn[m].shows ELSE "working"
               missed == turn[m].missed \/ turn[m].shows = "end"
               u == [turn[m] EXCEPT !.edit = FALSE, !.shows = shows, !.missed = missed]
    <3>1. t.pc = turn[m].pc
      BY <2>1 DEF TurnType
    <3>2. turn' = [turn EXCEPT ![m] = t] \/ turn' = [turn EXCEPT ![m] = u]
      BY <1>1, <2>1, <2>4 DEF EditSettles, TurnType
    <3> HIDE DEF t, shows, missed
    <3>3. u.pc = turn[m].pc
      BY <2>1 DEF TurnType
    <3> HIDE DEF u
    <3> QED  BY <1>1, <3>1, <3>2, <3>3
  <2> QED  BY <2>2, <2>3, <2>4
<1>3. \A k \in Messages : turn[k].pc \in {"attach", "stream"} =>
        daemon'[k] = daemon[k] \/ daemon'[k] = "over"
  BY <1>1 DEF DaemonRunEnds, Progress, EditSettles, unchangedByShow
<1> QED  BY <1>2, <1>3 DEF StreamsHaveRuns

(* Nothing waits for events in a process that has just ended.              *)
LEMMA ForgottenStays ==
  ASSUME Inv, Forgotten
  PROVE  StreamsHaveRuns'
<1>1. ASSUME NEW m \in Messages  PROVE turn'[m].pc \in {"none", "done", "gone"}
  <2>1. turn[m] \in TurnType
    BY TurnFacts
  <2>2. /\ NewTurn.pc = "none" /\ [NewTurn EXCEPT !.pc = "gone"].pc = "gone"
        /\ [turn[m] EXCEPT !.edit = FALSE].pc = turn[m].pc
    BY <2>1 DEF NewTurn, TurnType
  <2>3. turn'[m] = IF m \notin confirmed THEN NewTurn
                   ELSE IF turn[m].pc = "done" THEN [turn[m] EXCEPT !.edit = FALSE]
                   ELSE [NewTurn EXCEPT !.pc = "gone"]
    BY DEF Forgotten
  <2> QED  BY <2>2, <2>3
<1> QED  BY <1>1 DEF StreamsHaveRuns

(* Every step.                                                             *)
LEMMA NextForward ==
  ASSUME Inv, StreamsHaveRuns, [Next]_vars
  PROVE  /\ StreamsHaveRuns'
         /\ up' = "up" => \A m \in Messages :
              turn'[m].pc # turn[m].pc => Rank(turn'[m].pc) > Rank(turn[m].pc)
         /\ \A m \in Messages : TurnStep(m) => up' # "up" \/ turn'[m].pc # turn[m].pc
<1> DEFINE Ahead == \A m \in Messages :
             turn'[m].pc # turn[m].pc => Rank(turn'[m].pc) > Rank(turn[m].pc)
<1>1. ASSUME NEW m \in Messages, Forward(m)  PROVE Ahead /\ StreamsHaveRuns'
  BY <1>1 DEF Forward, StreamsHaveRuns
<1>2. ASSUME NEW m \in Messages, TurnStep(m)
      PROVE  Forward(m) \/ (Forgotten /\ up' # "up")
  <2>1. CASE Dies
    BY <2>1 DEF Dies
  <2>2. CASE ~Dies
    BY <1>2, <2>2, RunsForward, ShowsForward DEF TurnStep
  <2> QED  BY <2>1, <2>2
<1>3. \A m \in Messages : TurnStep(m) => up' # "up" \/ turn'[m].pc # turn[m].pc
  BY <1>2 DEF Forward
<1>4. ASSUME NEW line \in Lines,
             TelegramReceives(line) \/ SlackReceives(line) \/ ReplReceives(line)
      PROVE  Ahead /\ StreamsHaveRuns'
  <2>1. PICK m \in Messages :
          /\ turn[m].pc = "none" /\ turn'[m].pc \in {"begin", "task", "reply", "status", "done"}
          /\ \A k \in Messages \ {m} : turn'[k].pc = turn[k].pc
          /\ daemon' = daemon
    BY <1>4, ReceivesForward
  <2>2. Rank(turn'[m].pc) > Rank(turn[m].pc)
    BY <2>1, Ranks
  <2> QED  BY <2>1, <2>2 DEF StreamsHaveRuns
<1>5. CASE Polls \/ SlackConnects \/ SlackDisconnects \/ Restart \/ TerminalCloses \/ UNCHANGED vars
  <2>1. turn' = turn /\ daemon' = daemon
    BY <1>5 DEF Polls, SlackConnects, SlackDisconnects, Restart, TerminalCloses, vars
  <2> QED  BY <1>3, <2>1 DEF StreamsHaveRuns
<1>6. CASE Ends
  BY <1>3, <1>6, ForgottenStays DEF Ends
<1>7. CASE CtrlCPosting \/ CtrlC
  BY <1>1, <1>3, <1>7, AbortForward
<1>8. CASE \E m \in Messages : TurnStep(m)
  BY <1>1, <1>2, <1>3, <1>8, ForgottenStays
<1>9. CASE \E m \in Messages : DaemonRunEnds(m) \/ Progress(m) \/ EditSettles(m)
  BY <1>3, <1>9, AsideStays
<1>10. CASE \E line \in Lines :
             TelegramReceives(line) \/ SlackReceives(line) \/ ReplReceives(line)
  BY <1>3, <1>4, <1>10
<1> HIDE DEF Ahead
<1> QED
  BY <1>5, <1>6, <1>7, <1>8, <1>9, <1>10 DEF Next, TelegramNext, SlackNext, ReplNext

(* Turns only go forward, and a turn that waits for events waits for a run *)
(* that has some.                                                          *)
THEOREM TurnsOnlyGoForward == Spec => TurnsGoForward /\ []StreamsHaveRuns
<1>1. Init => StreamsHaveRuns
  BY DEF Init, NewTurn, StreamsHaveRuns
<1>2. ASSUME Inv, StreamsHaveRuns, [Next]_vars
      PROVE  /\ StreamsHaveRuns'
             /\ [/\ up' = "up" => \A m \in Messages :
                      turn'[m].pc # turn[m].pc => Rank(turn'[m].pc) > Rank(turn[m].pc)
                 /\ \A m \in Messages : TurnStep(m) => up' # "up" \/ turn'[m].pc # turn[m].pc]_vars
  BY <1>2, NextForward
<1> QED  BY <1>1, <1>2, Invariance, PTL DEF Spec, TurnsGoForward
====
