--------------------------- MODULE NumberingProofs --------------------------
(***************************************************************************)
(* Theorems about the CmdSNs of PduQueue: for any number of requests that  *)
(* is less than half of the number space, from any first CmdSN, so that    *)
(* the numbers may wrap, and for every window and every use of the queue   *)
(* that does not take single commands out of its middle.  On top of them,  *)
(* on a connection that does not fail, the order of the queue keeps the    *)
(* command of a DATA-OUT train alive until the train has been queued, and  *)
(* the train in the order the target wants it.                             *)
(***************************************************************************)
EXTENDS PduQueueProofs

-----------------------------------------------------------------------------
(* Offsets. *)

\* How far a CmdSN is from the first one of the session.
Off(sn) == SNMinus(sn, InitSN)

LEMMA OffType ==
  ASSUME NEW s \in Serial, NEW t \in Serial
  PROVE  /\ Off(s) \in Nat /\ Off(s) < Modulus
         /\ Off(s) = Off(t) => s = t
         /\ Off(InitSN) = 0
BY HalfAssumption, ConstantsAssumption DEF Serial, Modulus, SNMinus, Off

\* While the offsets are less than half of the number space the comparison
\* of the code is the comparison of the offsets.
LEMMA OffCompare ==
  ASSUME NEW s \in Serial, NEW t \in Serial, Off(s) < Half, Off(t) < Half
  PROVE  SerialCompare(s, t) < 0 <=> Off(s) < Off(t)
BY HalfAssumption, ConstantsAssumption
   DEF Serial, Modulus, SNMinus, Off, SerialCompare

LEMMA OffPlus ==
  ASSUME NEW s \in Serial, NEW n \in Nat, Off(s) + n < Modulus
  PROVE  /\ Off(SNPlus(s, n)) = Off(s) + n
         /\ \A t \in Serial : Off(t) = Off(s) + n => t = SNPlus(s, n)
<1>1. InitSN \in 0 .. (Modulus - 1) /\ s \in 0 .. (Modulus - 1)
      /\ Modulus \in Nat /\ Modulus >= 6
  BY HalfAssumption, ConstantsAssumption DEF Serial, Modulus
<1>2. SNPlus(s, n) \in 0 .. (Modulus - 1) /\ Off(SNPlus(s, n)) = Off(s) + n
  BY <1>1 DEF SNPlus, SNMinus, Off
<1>3. \A t \in Serial : Off(t) = Off(SNPlus(s, n)) => t = SNPlus(s, n)
  BY <1>2, OffType DEF Serial
<1> QED
  BY <1>2, <1>3

LEMMA OffMinus ==
  ASSUME NEW s \in Serial, NEW n \in Nat, n <= Off(s)
  PROVE  SNMinus(s, n) \in Serial /\ Off(SNMinus(s, n)) = Off(s) - n
<1>1. InitSN \in 0 .. (Modulus - 1) /\ s \in 0 .. (Modulus - 1)
      /\ Modulus \in Nat /\ Modulus >= 6
  BY HalfAssumption, ConstantsAssumption DEF Serial, Modulus
<1> QED
  BY <1>1 DEF SNMinus, Off, Serial

-----------------------------------------------------------------------------
(* Rows of numbered PDUs. *)

Num(s) == {i \in DOMAIN s : Numbered(s[i])}

Pos(s, i) == Off(s[i].cmdsn)

\* The numbered PDUs of the list have the numbers from lo to hi - 1, in
\* this order.
Row(s, lo, hi) ==
  /\ lo \in Nat /\ hi \in Nat /\ lo <= hi
  /\ \A i \in Num(s) : Pos(s, i) \in lo .. hi - 1
  /\ \A i, j \in Num(s) : i < j => Pos(s, i) < Pos(s, j)
  /\ \A n \in lo .. hi - 1 : \E i \in Num(s) : Pos(s, i) = n

\* Then they are also counted by their numbers.
LEMMA RowRanks ==
  ASSUME NEW s \in Seq(Pdu), NEW lo, NEW hi, Row(s, lo, hi)
  PROVE  /\ \A i \in Num(s) :
              Pos(s, i) = lo + Cardinality({j \in Num(s) : j < i})
         /\ hi = lo + Cardinality(Num(s))
<1>1. lo \in Nat /\ hi \in Nat /\ lo <= hi /\ Num(s) \subseteq Nat
  BY LenProperties DEF Row, Num
<1>2. ASSUME NEW m \in lo .. hi, NEW J \in SUBSET Num(s),
             \A j \in Num(s) : j \in J <=> Pos(s, j) < m
      PROVE  m = lo + Cardinality(J)
  <2> DEFINE f == [j \in J |-> Pos(s, j)]
             I == lo .. m - 1
  <2>1. f \in [J -> I]
    BY <1>1, <1>2 DEF Row
  <2>2. \A a, b \in J : f[a] = f[b] => a = b
    <3>1. ASSUME NEW a \in J, NEW b \in J, f[a] = f[b], a # b PROVE FALSE
      <4>1. a < b \/ b < a
        BY <1>1, <3>1
      <4>2. Pos(s, a) = Pos(s, b) /\ Pos(s, a) \in Int
        BY <1>1, <2>1, <3>1
      <4>3. Pos(s, a) < Pos(s, b) \/ Pos(s, b) < Pos(s, a)
        BY <4>1 DEF Row
      <4> QED
        BY <4>2, <4>3
    <3> QED
      BY <3>1
  <2>3. \A n \in I : \E j \in J : f[j] = n
    <3>1. ASSUME NEW n \in I PROVE \E j \in J : f[j] = n
      <4>1. n \in lo .. hi - 1 /\ n < m
        BY <1>1, <1>2
      <4>2. PICK j \in Num(s) : Pos(s, j) = n
        BY <4>1 DEF Row
      <4>3. j \in J
        BY <1>2, <4>1, <4>2
      <4> QED
        BY <4>2, <4>3
    <3> QED
      BY <3>1
  <2>4. f \in Injection(J, I) /\ f \in Surjection(J, I)
    BY <2>1, <2>2, <2>3 DEF Injection, Surjection, IsInjective
  <2>5. IsFiniteSet(I) /\ Cardinality(I) = m - lo
    <3>1. lo \in Int /\ m - 1 \in Int /\ lo <= m
      BY <1>1, <1>2
    <3>2. /\ IsFiniteSet(lo .. m - 1)
          /\ Cardinality(lo .. m - 1) = IF lo > m - 1 THEN 0 ELSE (m - 1) - lo + 1
      BY <3>1, FS_Interval
    <3> QED
      BY <3>1, <3>2
  <2>6. Cardinality(J) = Cardinality(I)
    <3> HIDE DEF f, I
    <3> QED
      BY <2>4, <2>5, FS_Injection
  <2> QED
    BY <1>1, <1>2, <2>5, <2>6
<1>3. ASSUME NEW i \in Num(s)
      PROVE  Pos(s, i) = lo + Cardinality({j \in Num(s) : j < i})
  <2>1. Pos(s, i) \in lo .. hi
    BY <1>1 DEF Row
  <2>2. ASSUME NEW j \in Num(s) PROVE j < i <=> Pos(s, j) < Pos(s, i)
    <3>1. i \in Nat /\ j \in Nat /\ Pos(s, i) \in Int /\ Pos(s, j) \in Int
      BY <1>1 DEF Row
    <3>2. i < j => Pos(s, i) < Pos(s, j)
      BY DEF Row
    <3>3. j < i => Pos(s, j) < Pos(s, i)
      BY DEF Row
    <3>4. j = i => Pos(s, j) = Pos(s, i)
      OBVIOUS
    <3> QED
      BY <3>1, <3>2, <3>3, <3>4
  <2> QED
    BY <1>2, <2>1, <2>2
<1>4. hi = lo + Cardinality(Num(s))
  <2>1. \A j \in Num(s) : j \in Num(s) <=> Pos(s, j) < hi
    BY <1>1 DEF Row
  <2>2. hi \in lo .. hi
    BY <1>1
  <2> QED
    BY <1>2, <2>1, <2>2
<1> QED
  BY <1>3, <1>4

\* The first numbered PDU has the first number.
LEMMA RowFirst ==
  ASSUME NEW s \in Seq(Pdu), NEW lo, NEW hi, Row(s, lo, hi), NEW i \in Num(s),
         \A j \in Num(s) : i <= j
  PROVE  Pos(s, i) = lo /\ lo < hi
<1>1. lo \in Nat /\ hi \in Nat /\ Num(s) \subseteq Nat
      /\ Pos(s, i) \in lo .. hi - 1
  BY LenProperties DEF Row, Num
<1>2. PICK j \in Num(s) : Pos(s, j) = lo
  BY <1>1 DEF Row
<1>3. i = j \/ Pos(s, i) < Pos(s, j)
  BY <1>1 DEF Row
<1> QED
  BY <1>1, <1>2, <1>3

\* A list in line: its commands form a row; what is immediate is in front of
\* them with the number of the first, or of the next one if there are none;
\* and no DATA-OUT is ahead of them.
InLine(s, lo, hi) ==
  /\ Row(s, lo, hi)
  /\ \A i \in DOMAIN s : Immediate(s[i]) => Pos(s, i) = lo /\ \A j \in Num(s) : i < j
  /\ \A i \in DOMAIN s : Pos(s, i) <= hi

\* Every PDU of the queue is numbered, immediate or a DATA-OUT.
LEMMA Sorts ==
  ASSUME NEW p \in Pdu
  PROVE  /\ Numbered(p) \/ Immediate(p) \/ p.op = "DATA"
         /\ Numbered(p) => ~Immediate(p) /\ p.op # "DATA"
         /\ Immediate(p) => p.op # "DATA"
         /\ p.cmdsn \in Serial
BY DEF Pdu, Ops, Numbered, Immediate

\* A PDU without a number of its own is inserted.
LEMMA InsertUnnumbered ==
  ASSUME NEW q \in Seq(Pdu), NEW lo, NEW hi, InLine(q, lo, hi),
         NEW i \in 1 .. (Len(q) + 1), NEW p \in Pdu, ~Numbered(p),
         Off(p.cmdsn) <= hi,
         Immediate(p) => /\ Off(p.cmdsn) = lo
                         /\ \A j \in 1 .. (i - 1) : ~Numbered(q[j])
  PROVE  InLine(InsertAt(q, i, p), lo, hi)
<1> DEFINE n == InsertAt(q, i, p)
           g(k) == IF k < i THEN k ELSE k - 1
           h(j) == IF j < i THEN j ELSE j + 1
<1>0. Len(q) \in Nat /\ DOMAIN q = 1 .. Len(q) /\ i \in Nat
  BY LenProperties
<1>1. /\ InsertAt(q, i, p) \in Seq(Pdu)
      /\ Len(InsertAt(q, i, p)) = Len(q) + 1
      /\ \A k \in 1 .. (Len(q) + 1) :
           InsertAt(q, i, p)[k] = IF k < i THEN q[k] ELSE IF k = i THEN p ELSE q[k - 1]
  <2>1. InsertAt(q, i, p) \in Seq(Pdu) /\ Inserted(InsertAt(q, i, p), q, i, p)
    BY InsertShape
  <2> QED
    BY <2>1 DEF Inserted
<1>2. DOMAIN n = 1 .. (Len(q) + 1) /\ n[i] = p
  BY <1>0, <1>1, LenProperties
<1>3. \A k \in DOMAIN n : k # i => g(k) \in DOMAIN q /\ n[k] = q[g(k)]
  <2>1. ASSUME NEW k \in DOMAIN n, k # i PROVE g(k) \in DOMAIN q /\ n[k] = q[g(k)]
    <3>1. n[k] = IF k < i THEN q[k] ELSE q[k - 1]
      BY <1>1, <1>2, <2>1
    <3> QED
      BY <1>0, <1>2, <2>1, <3>1
  <2> QED
    BY <2>1
<1>4. \A j \in DOMAIN q : h(j) \in DOMAIN n /\ h(j) # i /\ n[h(j)] = q[j]
  <2>1. ASSUME NEW j \in DOMAIN q PROVE h(j) \in DOMAIN n /\ h(j) # i /\ n[h(j)] = q[j]
    <3>1. h(j) \in DOMAIN n /\ h(j) # i /\ g(h(j)) = j
      BY <1>0, <1>2, <2>1
    <3> QED
      BY <1>3, <3>1
  <2> QED
    BY <2>1
<1>5. \A a, b \in DOMAIN n : a # i /\ b # i /\ a < b => g(a) < g(b)
  BY <1>0, <1>2
<1>6. \A a \in DOMAIN n : \A j \in DOMAIN q : a # i /\ g(a) < j => a < h(j)
  BY <1>0, <1>2
<1>7. \A j \in DOMAIN q : ~(j \in 1 .. (i - 1)) => i < h(j)
  BY <1>0
<1>8. \A k \in Num(n) : k # i /\ g(k) \in Num(q) /\ Pos(n, k) = Pos(q, g(k))
  <2> HIDE DEF g, h, n
  <2> QED
    BY <1>2, <1>3 DEF Num, Pos
<1>9. \A j \in Num(q) : h(j) \in Num(n) /\ Pos(n, h(j)) = Pos(q, j)
  <2> HIDE DEF g, h, n
  <2> QED
    BY <1>4 DEF Num, Pos
<1>10. Num(n) \subseteq DOMAIN n /\ Num(q) \subseteq DOMAIN q
  BY DEF Num
<1>11. Row(n, lo, hi)
  <2> HIDE DEF g, h, n
  <2>1. \A a, b \in Num(n) : a < b => Pos(n, a) < Pos(n, b)
    BY <1>5, <1>8, <1>10 DEF InLine, Row
  <2>2. \A a \in Num(n) : Pos(n, a) \in lo .. hi - 1
    BY <1>8 DEF InLine, Row
  <2>3. \A m \in lo .. hi - 1 : \E a \in Num(n) : Pos(n, a) = m
    <3>1. ASSUME NEW m \in lo .. hi - 1 PROVE \E a \in Num(n) : Pos(n, a) = m
      <4>1. PICK j \in Num(q) : Pos(q, j) = m
        BY DEF InLine, Row
      <4> QED
        BY <1>9, <4>1
    <3> QED
      BY <3>1
  <2> QED
    BY <2>1, <2>2, <2>3 DEF InLine, Row
<1>12. ASSUME NEW a \in DOMAIN n, Immediate(n[a])
       PROVE  Pos(n, a) = lo /\ \A k \in Num(n) : a < k
  <2>1. CASE a = i
    <3>1. Pos(n, a) = lo
      BY <1>2, <1>12, <2>1 DEF Pos
    <3>2. ASSUME NEW k \in Num(n) PROVE i < k
      <4>1. g(k) \in Num(q) /\ ~(g(k) \in 1 .. (i - 1)) /\ k # i
        BY <1>2, <1>8, <1>12, <2>1, <3>2 DEF Num
      <4>2. k \in 1 .. (Len(q) + 1)
        BY <1>2, <1>10
      <4> QED
        BY <1>0, <4>1, <4>2
    <3> QED
      BY <2>1, <3>1, <3>2
  <2>2. CASE a # i
    <3>1. g(a) \in DOMAIN q /\ Immediate(q[g(a)]) /\ Pos(n, a) = Pos(q, g(a))
      BY <1>3, <1>12, <2>2 DEF Pos
    <3>2. Pos(q, g(a)) = lo /\ \A j \in Num(q) : g(a) < j
      BY <3>1 DEF InLine
    <3>3. ASSUME NEW k \in Num(n) PROVE a < k
      <4>1. k # i /\ g(a) < g(k)
        BY <1>8, <3>2
      <4> QED
        BY <1>0, <1>2, <1>10, <2>2, <4>1
    <3> QED
      BY <3>1, <3>2, <3>3
  <2> QED
    BY <2>1, <2>2
<1>13. ASSUME NEW a \in DOMAIN n PROVE Pos(n, a) <= hi
  <2>1. CASE a = i
    BY <1>2, <2>1 DEF Pos
  <2>2. CASE a # i
    <3>1. g(a) \in DOMAIN q /\ Pos(n, a) = Pos(q, g(a))
      BY <1>3, <2>2 DEF Pos
    <3> QED
      BY <3>1 DEF InLine
  <2> QED
    BY <2>1, <2>2
<1> QED
  BY <1>11, <1>12, <1>13 DEF InLine

\* A command with the next number goes to the end.
LEMMA InsertNumbered ==
  ASSUME NEW q \in Seq(Pdu), NEW lo, NEW hi, InLine(q, lo, hi),
         NEW p \in Pdu, Numbered(p), Off(p.cmdsn) = hi
  PROVE  InLine(InsertAt(q, Len(q) + 1, p), lo, hi + 1)
<1> DEFINE n == InsertAt(q, Len(q) + 1, p)
           l == Len(q) + 1
<1>0. Len(q) \in Nat /\ DOMAIN q = 1 .. Len(q) /\ l \in Nat
      /\ lo \in Nat /\ hi \in Nat /\ lo <= hi
  BY LenProperties DEF InLine, Row
<1>1. /\ InsertAt(q, Len(q) + 1, p) \in Seq(Pdu)
      /\ Len(InsertAt(q, Len(q) + 1, p)) = Len(q) + 1
      /\ \A k \in 1 .. (Len(q) + 1) :
           InsertAt(q, Len(q) + 1, p)[k] =
             IF k < Len(q) + 1 THEN q[k] ELSE IF k = Len(q) + 1 THEN p ELSE q[k - 1]
  <2>1. Len(q) + 1 \in 1 .. (Len(q) + 1)
    BY <1>0
  <2>2. /\ InsertAt(q, Len(q) + 1, p) \in Seq(Pdu)
        /\ Inserted(InsertAt(q, Len(q) + 1, p), q, Len(q) + 1, p)
    BY <2>1, InsertShape
  <2> QED
    BY <2>2 DEF Inserted
<1>2. DOMAIN n = 1 .. l /\ n[l] = p /\ \A k \in DOMAIN q : n[k] = q[k] /\ k # l
  BY <1>0, <1>1, LenProperties
<1>3. DOMAIN n = DOMAIN q \cup {l} /\ \A k \in DOMAIN q : k \in Nat /\ k < l
  <2>1. \A m \in Nat : 1 .. (m + 1) = (1 .. m) \cup {m + 1}
    OBVIOUS
  <2>2. \A m \in Nat : \A k \in 1 .. m : k \in Nat /\ k < m + 1
    OBVIOUS
  <2> QED
    BY <1>0, <1>2, <2>1, <2>2
<1> HIDE DEF n, l
<1>4. /\ Num(n) = Num(q) \cup {l} /\ Pos(n, l) = hi
      /\ \A k \in DOMAIN q : Pos(n, k) = Pos(q, k)
      /\ Num(q) \subseteq DOMAIN q /\ ~Immediate(p)
  BY <1>2, <1>3, Sorts DEF Num, Pos
<1>5. /\ \A k \in Num(q) : Pos(q, k) \in lo .. hi - 1
      /\ \A i, j \in Num(q) : i < j => Pos(q, i) < Pos(q, j)
      /\ \A m \in lo .. hi - 1 : \E i \in Num(q) : Pos(q, i) = m
  BY DEF InLine, Row
<1>6. \A k \in Num(n) : Pos(n, k) \in lo .. (hi + 1) - 1
  BY <1>0, <1>4, <1>5
<1>7. \A i, j \in Num(n) : i < j => Pos(n, i) < Pos(n, j)
  <2>1. ASSUME NEW i \in Num(n), NEW j \in Num(n), i < j PROVE Pos(n, i) < Pos(n, j)
    <3>1. CASE j \in Num(q)
      <4>1. i \in Num(q)
        BY <1>0, <1>3, <1>4, <2>1, <3>1
      <4> QED
        BY <1>4, <1>5, <2>1, <3>1, <4>1
    <3>2. CASE j = l
      <4>1. i \in Num(q)
        BY <1>0, <1>4, <2>1, <3>2
      <4> QED
        BY <1>0, <1>4, <1>5, <3>2, <4>1
    <3> QED
      BY <1>4, <3>1, <3>2
  <2> QED
    BY <2>1
<1>8. \A m \in lo .. (hi + 1) - 1 : \E i \in Num(n) : Pos(n, i) = m
  <2>1. ASSUME NEW m \in lo .. (hi + 1) - 1 PROVE \E i \in Num(n) : Pos(n, i) = m
    <3>1. m = hi \/ m \in lo .. hi - 1
      BY <1>0
    <3>2. CASE m \in lo .. hi - 1
      <4>1. PICK i \in Num(q) : Pos(q, i) = m
        BY <1>5, <3>2
      <4> QED
        BY <1>4, <4>1
    <3> QED
      BY <1>4, <3>1, <3>2
  <2> QED
    BY <2>1
<1>9. Row(n, lo, hi + 1)
  BY <1>0, <1>6, <1>7, <1>8 DEF Row
<1>10. ASSUME NEW i \in DOMAIN n, Immediate(n[i])
       PROVE  Pos(n, i) = lo /\ \A j \in Num(n) : i < j
  <2>1. i \in DOMAIN q /\ Immediate(q[i])
    BY <1>2, <1>3, <1>4, <1>10
  <2>2. Pos(q, i) = lo /\ \A j \in Num(q) : i < j
    BY <2>1 DEF InLine
  <2> QED
    BY <1>3, <1>4, <2>1, <2>2
<1>11. \A i \in DOMAIN n : Pos(n, i) <= hi + 1
  <2>1. ASSUME NEW i \in DOMAIN q PROVE Pos(q, i) <= hi + 1
    <3>1. Pos(q, i) <= hi
      BY DEF InLine
    <3>2. q[i] \in Pdu
      BY <1>0, ElementOfSeq
    <3>3. Pos(q, i) \in Nat
      BY <3>2, Sorts, OffType DEF Pos
    <3> QED
      BY <1>0, <3>1, <3>3
  <2> QED
    BY <1>0, <1>3, <1>4, <2>1
<1> QED
  BY <1>9, <1>10, <1>11 DEF InLine, n

\* The number an immediate PDU is queued with is the first of the row.
LEMMA QueueSNLine ==
  ASSUME NEW q \in Seq(Pdu), NEW lo, NEW hi, InLine(q, lo, hi),
         NEW p \in Pdu, Off(p.cmdsn) = hi, Immediate(p), NEW sn \in QueueSN(q, p)
  PROVE  sn \in Serial /\ Off(sn) = lo
<1> DEFINE firsts == {i \in DOMAIN q : /\ q[i].op # "DATA"
                                       /\ \A j \in 1 .. (i - 1) : q[j].op = "DATA"}
<1>0. /\ Len(q) \in Nat /\ DOMAIN q = 1 .. Len(q)
      /\ lo \in Nat /\ hi \in Nat /\ lo <= hi
      /\ \A i \in DOMAIN q : q[i] \in Pdu
  BY LenProperties, ElementOfSeq DEF InLine, Row
<1>1. CASE firsts # {}
  <2>1. PICK i \in firsts : sn = q[i].cmdsn
    BY <1>1 DEF QueueSN
  <2>2. CASE Immediate(q[i])
    BY <1>0, <2>1, <2>2, Sorts DEF InLine, Pos
  <2>3. CASE Numbered(q[i])
    <3>1. ASSUME NEW j \in Num(q) PROVE i <= j
      <4>1. j \in DOMAIN q /\ q[j].op # "DATA"
        BY <1>0, Sorts DEF Num
      <4> QED
        BY <1>0, <2>1, <4>1
    <3>2. i \in Num(q)
      BY <2>1, <2>3 DEF Num
    <3>3. Pos(q, i) = lo
      BY <3>1, <3>2, RowFirst DEF InLine
    <3> QED
      BY <1>0, <2>1, <3>3, Sorts DEF Pos
  <2> QED
    BY <1>0, <2>1, <2>2, <2>3, Sorts
<1>2. CASE firsts = {}
  <2>1. sn = p.cmdsn
    BY <1>2 DEF QueueSN
  <2> DEFINE T == {i \in DOMAIN q : q[i].op # "DATA"}
  <2>2. T = {}
    <3>1. ASSUME T # {} PROVE FALSE
      <4>1. T \in SUBSET Nat
        BY <1>0
      <4>2. PICK m \in T : \A k \in T : m <= k
        BY <3>1, <4>1, Smallest
      <4>3. \A j \in 1 .. (m - 1) : q[j].op = "DATA"
        BY <1>0, <4>2
      <4> QED
        BY <1>2, <4>2, <4>3
    <3> QED
      BY <3>1
  <2>3. Num(q) = {}
    BY <1>0, <2>2, Sorts DEF Num
  <2>4. lo = hi
    BY <1>0, <2>3 DEF InLine, Row
  <2> QED
    BY <2>1, <2>4, Sorts
<1> QED
  BY <1>1, <1>2

\* iscsi_add_to_outqueue keeps the queue in line.
LEMMA AddLine ==
  ASSUME NEW q \in Seq(Pdu), NEW lo, NEW hi, InLine(q, lo, hi), hi < Half,
         NEW p \in Pdu, NEW callers, AddToOutqueue(q, p, callers),
         Off(p.cmdsn) <= hi, p.op # "DATA" => Off(p.cmdsn) = hi
  PROVE  InLine(outqueue', lo, IF Numbered(p) THEN hi + 1 ELSE hi)
<1>0. /\ Len(q) \in Nat /\ DOMAIN q = 1 .. Len(q)
      /\ lo \in Nat /\ hi \in Nat /\ lo <= hi /\ Half \in Nat
      /\ \A i \in DOMAIN q : q[i] \in Pdu
  BY LenProperties, ElementOfSeq, HalfAssumption DEF InLine, Row
<1>1. PICK sn \in QueueSN(q, p), i \in 1 .. (Len(q) + 1) :
         /\ InsertionPoint(q, [p EXCEPT !.cmdsn = sn], i)
         /\ outqueue' = InsertAt(q, i, [p EXCEPT !.cmdsn = sn])
  BY DEF AddToOutqueue
<1> DEFINE np == [p EXCEPT !.cmdsn = sn]
<1>2. sn \in Serial /\ (~Immediate(p) => sn = p.cmdsn)
  <2>1. CASE Immediate(p)
    BY <2>1, QueueSNLine, Sorts
  <2>2. CASE ~Immediate(p)
    BY <2>2, Sorts DEF QueueSN
  <2> QED
    BY <2>1, <2>2
<1>3. /\ np \in Pdu /\ np.op = p.op /\ np.cmdsn = sn
      /\ Numbered(np) <=> Numbered(p)
      /\ Immediate(np) <=> Immediate(p)
  BY <1>2 DEF Pdu, Numbered, Immediate
<1> HIDE DEF np
<1>4. CASE Numbered(p)
  <2>1. Off(np.cmdsn) = hi /\ ~Immediate(np)
    BY <1>2, <1>3, <1>4, Sorts
  <2>2. i = Len(q) + 1
    <3>1. ASSUME i <= Len(q) PROVE FALSE
      <4>1. i \in DOMAIN q /\ GoesBefore(np, q[i])
        BY <1>0, <1>1, <3>1 DEF InsertionPoint, np
      <4>2. SerialCompare(np.cmdsn, q[i].cmdsn) < 0
        BY <2>1, <4>1 DEF GoesBefore
      <4>3. q[i].cmdsn \in Serial /\ np.cmdsn \in Serial
        BY <1>0, <1>3, <4>1, Sorts
      <4>4. Off(q[i].cmdsn) \in Nat /\ Off(q[i].cmdsn) <= hi
        BY <4>1, <4>3, OffType DEF InLine, Pos
      <4> QED
        BY <1>0, <2>1, <4>2, <4>3, <4>4, OffCompare
    <3> QED
      BY <1>0, <3>1
  <2> QED
    BY <1>1, <1>3, <1>4, <2>1, <2>2, InsertNumbered DEF np
<1>5. CASE Immediate(p)
  <2>1. Off(np.cmdsn) = lo /\ ~Numbered(p)
    BY <1>3, <1>5, QueueSNLine, Sorts
  <2>2. ASSUME NEW j \in 1 .. (i - 1) PROVE ~Numbered(q[j])
    <3>1. j \in DOMAIN q /\ ~GoesBefore(np, q[j])
      BY <1>0, <1>1 DEF InsertionPoint, np
    <3>2. Immediate(q[j])
      BY <1>3, <1>5, <3>1 DEF GoesBefore
    <3> QED
      BY <1>0, <3>1, <3>2, Sorts
  <2> QED
    BY <1>0, <1>1, <1>3, <2>1, <2>2, InsertUnnumbered DEF np
<1>6. CASE p.op = "DATA"
  <2>1. ~Numbered(p) /\ ~Immediate(p) /\ Off(np.cmdsn) <= hi
    BY <1>2, <1>3, <1>6, Sorts
  <2> QED
    BY <1>1, <1>3, <2>1, InsertUnnumbered DEF np
<1> QED
  BY <1>4, <1>5, <1>6, Sorts

\* The head is taken off the queue.
LEMMA TailLine ==
  ASSUME NEW q \in Seq(Pdu), NEW lo, NEW hi, InLine(q, lo, hi), q # <<>>
  PROVE  /\ Numbered(Head(q)) => Off(Head(q).cmdsn) = lo /\ InLine(Tail(q), lo + 1, hi)
         /\ ~Numbered(Head(q)) => InLine(Tail(q), lo, hi)
<1>0. /\ Len(q) \in Nat /\ DOMAIN q = 1 .. Len(q) /\ Len(q) >= 1
      /\ lo \in Nat /\ hi \in Nat /\ lo <= hi
      /\ \A i \in DOMAIN q : q[i] \in Pdu
  BY LenProperties, ElementOfSeq, EmptySeq DEF InLine, Row
<1>1. /\ Head(q) = q[1] /\ Tail(q) \in Seq(Pdu)
      /\ Len(Tail(q)) = Len(q) - 1
      /\ \A k \in 1 .. Len(Tail(q)) : Tail(q)[k] = q[k + 1]
  BY HeadTailProperties
<1> DEFINE t == Tail(q)
<1>2. /\ \A k \in DOMAIN t : /\ k \in Nat /\ k + 1 \in DOMAIN q /\ k + 1 # 1
                             /\ t[k] = q[k + 1]
      /\ \A j \in DOMAIN q : j # 1 => j - 1 \in DOMAIN t /\ j - 1 + 1 = j /\ j \in Nat
      /\ 1 \in DOMAIN q
  BY <1>0, <1>1, LenProperties
<1> HIDE DEF t
<1>3. /\ \A k \in Num(t) : /\ k \in Nat /\ k + 1 \in Num(q) /\ k + 1 # 1
                           /\ Pos(t, k) = Pos(q, k + 1)
      /\ \A j \in Num(q) : j # 1 => j - 1 \in Num(t) /\ Pos(t, j - 1) = Pos(q, j)
  BY <1>2 DEF Num, Pos
<1>4. /\ \A k \in Num(q) : Pos(q, k) \in lo .. hi - 1
      /\ \A i, j \in Num(q) : i < j => Pos(q, i) < Pos(q, j)
      /\ \A m \in lo .. hi - 1 : \E i \in Num(q) : Pos(q, i) = m
  BY DEF InLine, Row
<1>5. \A i, j \in Num(t) : i < j => Pos(t, i) < Pos(t, j)
  BY <1>3, <1>4
<1>6. ASSUME NEW i \in DOMAIN t, Immediate(t[i])
      PROVE  Pos(t, i) = lo /\ \A j \in Num(t) : i < j
  <2>1. i + 1 \in DOMAIN q /\ Immediate(q[i + 1]) /\ Pos(t, i) = Pos(q, i + 1)
    BY <1>2, <1>6 DEF Pos
  <2>2. Pos(q, i + 1) = lo /\ \A j \in Num(q) : i + 1 < j
    BY <2>1 DEF InLine
  <2> QED
    BY <1>2, <1>3, <2>1, <2>2
<1>7. \A i \in DOMAIN t : Pos(t, i) <= hi
  BY <1>2 DEF InLine, Pos
<1>8. CASE Numbered(Head(q))
  <2>1. 1 \in Num(q) /\ \A j \in Num(q) : 1 <= j
    BY <1>0, <1>1, <1>2, <1>8 DEF Num
  <2>2. Pos(q, 1) = lo /\ lo < hi
    BY <2>1, RowFirst DEF InLine
  <2>3. \A k \in Num(t) : Pos(t, k) \in lo + 1 .. hi - 1
    <3>1. ASSUME NEW k \in Num(t) PROVE Pos(t, k) \in lo + 1 .. hi - 1
      <4>1. k + 1 \in Num(q) /\ 1 < k + 1 /\ Pos(t, k) = Pos(q, k + 1)
        BY <1>2, <1>3, <2>1 DEF Num
      <4>2. Pos(q, 1) < Pos(q, k + 1) /\ Pos(q, k + 1) \in lo .. hi - 1
        BY <1>4, <2>1, <4>1
      <4> QED
        BY <1>0, <2>2, <4>1, <4>2
    <3> QED
      BY <3>1
  <2>4. \A m \in lo + 1 .. hi - 1 : \E i \in Num(t) : Pos(t, i) = m
    <3>1. ASSUME NEW m \in lo + 1 .. hi - 1 PROVE \E i \in Num(t) : Pos(t, i) = m
      <4>1. m \in lo .. hi - 1 /\ m # lo
        BY <1>0
      <4>2. PICK j \in Num(q) : Pos(q, j) = m
        BY <1>4, <4>1
      <4>3. j # 1
        BY <2>2, <4>1, <4>2
      <4> QED
        BY <1>3, <4>2, <4>3
    <3> QED
      BY <3>1
  <2>5. Row(t, lo + 1, hi)
    BY <1>0, <1>5, <2>2, <2>3, <2>4 DEF Row
  <2>6. \A i \in DOMAIN t : ~Immediate(t[i])
    <3>1. ASSUME NEW i \in DOMAIN t, Immediate(t[i]) PROVE FALSE
      <4>1. i + 1 \in DOMAIN q /\ Immediate(q[i + 1]) /\ i \in Nat
        BY <1>2, <3>1
      <4>2. i + 1 < 1
        BY <2>1, <4>1 DEF InLine
      <4> QED
        BY <4>1, <4>2
    <3> QED
      BY <3>1
  <2> QED
    BY <1>1, <1>7, <1>8, <2>2, <2>5, <2>6 DEF InLine, Pos, t
<1>9. CASE ~Numbered(Head(q))
  <2>1. \A j \in Num(q) : j # 1
    BY <1>1, <1>9 DEF Num
  <2>2. \A m \in lo .. hi - 1 : \E i \in Num(t) : Pos(t, i) = m
    BY <1>3, <1>4, <2>1
  <2>3. Row(t, lo, hi)
    BY <1>0, <1>3, <1>4, <1>5, <2>2 DEF Row
  <2> QED
    BY <1>6, <1>7, <1>9, <2>3 DEF InLine, t
<1> QED
  BY <1>8, <1>9

-----------------------------------------------------------------------------
(* The session in line. *)

\* The requests that have taken a CmdSN.
Counted == {r \in Reqs : rq[r].kind \in ScsiKinds \cup {"nop"}}

\* The commands with numbers below lo were taken off the queue, the others
\* are in it; the target has not counted any that was not.
LineAt(lo) ==
  /\ InLine(outqueue, lo, Off(cmdsn))
  /\ Off(cmdsn) <= Cardinality(Counted)
  /\ Off(tgtExp) <= lo
  /\ \A p \in ToSet(waitpdu) \cup {current} : Numbered(p) => Off(p.cmdsn) < lo

\* The target announces no number it has not counted.
HeardAt(lo) == Off(expcmdsn) <= lo

\* Nothing is skipped: the target expects the command being written, or the
\* first one of the queue.
ExactAt(lo) ==
  \/ reconnect_deferred \/ Doing("destroyed")
  \/ IF Numbered(current)
     THEN Off(current.cmdsn) = Off(tgtExp) /\ lo = Off(tgtExp) + 1
     ELSE lo = Off(tgtExp)

\* Nothing is dropped: neither the LUN reset nor the timeout scan has run.
NothingDropped ==
  /\ leaked = {}
  /\ \A f \in Stack : f.do \notin {"scan_out", "scan_wait"}

\* The inductive invariants.
LineInv == TypeOK /\ NothingDropped /\ \E lo \in 0 .. Off(cmdsn) : LineAt(lo) /\ HeardAt(lo)

ExactInv == TornInv /\ NothingDropped /\ \E lo \in 0 .. Off(cmdsn) : LineAt(lo) /\ ExactAt(lo)

\* The facts about the numbers that every step starts from.
LEMMA LineFacts ==
  ASSUME IsFiniteSet(Reqs), Cardinality(Reqs) < Half, TypeOK, NEW lo, LineAt(lo)
  PROVE  /\ lo \in Nat /\ Off(cmdsn) \in Nat /\ lo <= Off(cmdsn) /\ Off(tgtExp) \in Nat
         /\ IsFiniteSet(Counted)
         /\ Cardinality(Counted) \in Nat /\ Cardinality(Counted) <= Cardinality(Reqs)
         /\ Cardinality(Reqs) \in Nat /\ Half \in Nat
         /\ Off(cmdsn) < Half
<1>1. lo \in Nat /\ Off(cmdsn) \in Nat /\ lo <= Off(cmdsn)
  BY DEF LineAt, InLine, Row
<1>2. Counted \subseteq Reqs
  BY DEF Counted
<1>3. IsFiniteSet(Counted) /\ Cardinality(Counted) <= Cardinality(Reqs)
  BY <1>2, FS_Subset
<1>4. Cardinality(Counted) \in Nat /\ Cardinality(Reqs) \in Nat
  BY <1>3, FS_CardinalityType
<1>5. Off(tgtExp) \in Nat /\ Half \in Nat
  BY OffType, HalfAssumption DEF TypeOK
<1>6. Off(cmdsn) <= Cardinality(Counted)
  BY DEF LineAt
<1> QED
  BY <1>1, <1>3, <1>4, <1>5, <1>6

\* What is still waiting or being written stays below the line.
Below(lo) == \A p \in ToSet(waitpdu) \cup {current} : Numbered(p) => Off(p.cmdsn) < lo

LEMMA StillBelow ==
  ASSUME NEW lo, Below(lo), ToSet(waitpdu') \subseteq ToSet(waitpdu),
         current' \in {current, NoPdu}
  PROVE  Below(lo)'
<1>1. ~Numbered(NoPdu)
  BY DEF Numbered, NoPdu, NewPdu
<1> QED
  BY <1>1 DEF Below

\* The queue and the counters are left alone.
LEMMA SameLine ==
  ASSUME NEW lo, LineAt(lo), UNCHANGED <<outqueue, cmdsn, rq, tgtExp>>,
         ToSet(waitpdu') \subseteq ToSet(waitpdu), current' \in {current, NoPdu}
  PROVE  LineAt(lo)'
<1>1. Below(lo)'
  BY StillBelow DEF LineAt, Below
<1> QED
  BY <1>1 DEF LineAt, Below, Counted

\* An empty list is in line.
LEMMA EmptyLine ==
  ASSUME NEW lo \in Nat
  PROVE  InLine(<<>>, lo, lo)
<1>1. Num(<<>>) = {} /\ DOMAIN <<>> = {}
  BY DEF Num
<1> QED
  BY <1>1 DEF InLine, Row

\* The commands of the whole queue give back exactly the numbers from lo on.
LEMMA AllGivenBack ==
  ASSUME IsFiniteSet(Reqs), Cardinality(Reqs) < Half, TypeOK, NEW lo, LineAt(lo)
  PROVE  CmdSNWithout(DOMAIN outqueue) \in Serial /\ Off(CmdSNWithout(DOMAIN outqueue)) = lo
<1>0. /\ outqueue \in Seq(Pdu) /\ cmdsn \in Serial /\ lo \in Nat /\ Off(cmdsn) \in Nat
      /\ Off(cmdsn) < Half /\ Half \in Nat /\ lo <= Off(cmdsn)
  BY LineFacts DEF TypeOK
<1> DEFINE c == Cardinality(Num(outqueue))
<1>1. Off(cmdsn) = lo + c
  BY <1>0, RowRanks DEF LineAt, InLine
<1>2. c \in Nat
  <2>1. IsFiniteSet(DOMAIN outqueue)
    BY <1>0, FS_Interval, LenProperties
  <2> QED
    BY <2>1, FS_Subset, FS_CardinalityType DEF Num
<1> HIDE DEF c
<1>3. c < Modulus /\ c <= Off(cmdsn) /\ Off(cmdsn) - c = lo
  BY <1>0, <1>1, <1>2 DEF Modulus
<1>4. GivenBack(outqueue, DOMAIN outqueue) = c
  <2>1. GivenBack(outqueue, DOMAIN outqueue) = c % Modulus
    BY DEF GivenBack, c, Num
  <2> QED
    BY <1>0, <1>2, <1>3, <2>1 DEF Modulus
<1> QED
  BY <1>0, <1>2, <1>3, <1>4, OffMinus DEF CmdSNWithout

\* Everything is cancelled: the line is where the queue began.
LEMMA CancelLine ==
  ASSUME IsFiniteSet(Reqs), Cardinality(Reqs) < Half, TypeOK, NEW lo, LineAt(lo),
         outqueue' = <<>>, waitpdu' = <<>>, current' \in {current, NoPdu},
         cmdsn' = CmdSNWithout(DOMAIN outqueue), UNCHANGED <<rq, tgtExp>>
  PROVE  LineAt(lo)'
<1>1. Off(cmdsn') = lo /\ lo \in Nat /\ lo <= Off(cmdsn)
      /\ Off(cmdsn) \in Nat /\ Cardinality(Counted) \in Nat
  BY AllGivenBack, LineFacts
<1>2. InLine(outqueue', lo, Off(cmdsn'))
  BY <1>1, EmptyLine
<1>3. ToSet(waitpdu') \subseteq ToSet(waitpdu)
  BY DEF ToSet
<1>4. Below(lo)'
  BY <1>3, StillBelow DEF LineAt, Below
<1>5. Counted' = Counted
  BY DEF Counted
<1>6. Off(cmdsn') <= Cardinality(Counted')
  BY <1>1, <1>5 DEF LineAt
<1> QED
  BY <1>2, <1>4, <1>6 DEF LineAt, Below

\* A service call that fails.
LEMMA FailLine ==
  ASSUME IsFiniteSet(Reqs), Cardinality(Reqs) < Half, TypeOK, NEW lo, LineAt(lo),
         NEW callers, ServiceFails(callers), UNCHANGED <<rq, tgtExp>>
  PROVE  LineAt(lo)'
<1>1. CASE is_loggedin /\ ~reconnect_deferred
  BY <1>1, CancelLine DEF ServiceFails, CancelPdus, CancelWaiting
<1>2. CASE ~(is_loggedin /\ ~reconnect_deferred)
  BY <1>2, SameLine DEF ServiceFails
<1> QED
  BY <1>1, <1>2

\* A request of the application that takes the next number.
LEMMA CommandLine ==
  ASSUME IsFiniteSet(Reqs), Cardinality(Reqs) < Half, TypeOK, NEW lo, LineAt(lo),
         NEW r \in Reqs, NEW op \in {"SCSI", "NOP"}, NEW callers,
         AddToOutqueue(outqueue, NewPdu(op, r, cmdsn, 0), callers),
         cmdsn' = SNPlus(cmdsn, 1), rq[r].kind = "unused", Counted' = Counted \cup {r},
         UNCHANGED <<waitpdu, current, tgtExp>>
  PROVE  LineAt(lo)'
<1> DEFINE p == NewPdu(op, r, cmdsn, 0)
           hi == Off(cmdsn)
<1>0. /\ outqueue \in Seq(Pdu) /\ cmdsn \in Serial /\ lo \in Nat /\ hi \in Nat
      /\ hi < Half /\ Half \in Nat /\ IsFiniteSet(Counted) /\ Cardinality(Counted) \in Nat
  BY LineFacts DEF TypeOK
<1>1. p \in Pdu /\ Numbered(p) /\ p.cmdsn = cmdsn
  BY <1>0, NewPduType DEF Ops, Numbered, NewPdu
<1>2. Off(p.cmdsn) <= hi /\ InLine(outqueue, lo, hi)
  BY <1>0, <1>1 DEF LineAt
<1> HIDE DEF p, hi
<1>3. InLine(outqueue', lo, hi + 1)
  BY <1>0, <1>1, <1>2, AddLine DEF p, hi
<1>4. Off(cmdsn') = hi + 1
  <2>1. hi + 1 < Modulus /\ 1 \in Nat
    BY <1>0, HalfAssumption DEF Modulus
  <2> QED
    BY <1>0, <2>1, OffPlus DEF hi
<1>5. r \notin Counted
  BY DEF Counted, ScsiKinds
<1>6. Cardinality(Counted') = Cardinality(Counted) + 1
  BY <1>0, <1>5, FS_AddElement
<1>7. Off(cmdsn') <= Cardinality(Counted')
  BY <1>0, <1>4, <1>6 DEF LineAt, hi
<1> QED
  BY <1>3, <1>4, <1>7 DEF LineAt

\* A PDU without a number of its own is queued.
LEMMA UnnumberedLine ==
  ASSUME IsFiniteSet(Reqs), Cardinality(Reqs) < Half, TypeOK, NEW lo, LineAt(lo),
         NEW p \in Pdu, ~Numbered(p), NEW callers, AddToOutqueue(outqueue, p, callers),
         Off(p.cmdsn) <= Off(cmdsn), p.op # "DATA" => Off(p.cmdsn) = Off(cmdsn),
         Counted' = Counted, UNCHANGED <<waitpdu, current, tgtExp, cmdsn>>
  PROVE  LineAt(lo)'
<1>0. outqueue \in Seq(Pdu) /\ Off(cmdsn) < Half /\ InLine(outqueue, lo, Off(cmdsn))
  BY LineFacts DEF TypeOK, LineAt
<1>1. InLine(outqueue', lo, Off(cmdsn))
  BY <1>0, AddLine
<1> QED
  BY <1>1 DEF LineAt

\* What a new request counts for.
LEMMA CountedGrows ==
  ASSUME TypeOK, NEW r \in Reqs, rq[r].kind = "unused", NEW kind, NEW lun,
         rq' = [rq EXCEPT ![r] = [kind |-> kind, lun |-> lun]] \/ rq' = [rq EXCEPT ![r].kind = kind]
  PROVE  Counted' = IF kind \in ScsiKinds \cup {"nop"} THEN Counted \cup {r} ELSE Counted
<1>1. \A t \in Reqs : rq'[t].kind = IF t = r THEN kind ELSE rq[t].kind
  BY DEF TypeOK
<1>2. "unused" \notin ScsiKinds \cup {"nop"}
  BY DEF ScsiKinds
<1> QED
  BY <1>1, <1>2 DEF Counted

\* The requests that are queued.
LEMMA QueueingLine ==
  ASSUME IsFiniteSet(Reqs), Cardinality(Reqs) < Half, TypeOK, NEW lo, LineAt(lo), NEW r \in Reqs,
         \/ \E kind \in ScsiKinds, lun \in Luns : CommandAsync(r, kind, lun)
         \/ NopOutAsync(r) \/ (\E t \in Reqs : AbortTaskAsync(r, t)) \/ LogoutAsync(r)
  PROVE  LineAt(lo)'
<1>1. ASSUME NEW kind \in ScsiKinds, NEW lun \in Luns, CommandAsync(r, kind, lun)
      PROVE  LineAt(lo)'
  <2>1. PICK callers : AddToOutqueue(outqueue, NewPdu("SCSI", r, cmdsn, 0), callers)
    BY <1>1 DEF CommandAsync
  <2>2. /\ cmdsn' = SNPlus(cmdsn, 1) /\ rq[r].kind = "unused"
        /\ UNCHANGED <<waitpdu, current, tgtExp>>
        /\ rq' = [rq EXCEPT ![r] = [kind |-> kind, lun |-> lun]]
    BY <1>1 DEF CommandAsync
  <2>3. Counted' = Counted \cup {r}
    BY <2>2, CountedGrows
  <2> QED
    BY <2>1, <2>2, <2>3, CommandLine
<1>2. CASE NopOutAsync(r)
  <2>1. /\ AddToOutqueue(outqueue, NewPdu("NOP", r, cmdsn, 0), agenda)
        /\ cmdsn' = SNPlus(cmdsn, 1) /\ rq[r].kind = "unused"
        /\ UNCHANGED <<waitpdu, current, tgtExp>>
        /\ rq' = [rq EXCEPT ![r].kind = "nop"]
    BY <1>2 DEF NopOutAsync, targetVars
  <2>2. Counted' = Counted \cup {r}
    BY <2>1, CountedGrows
  <2> QED
    BY <2>1, <2>2, CommandLine
<1>3. ASSUME NEW op \in {"TMF", "LOGOUT"}, NEW kind \in {"tmf", "logout"},
             AddToOutqueue(outqueue, NewPdu(op, r, cmdsn, 0), agenda),
             rq[r].kind = "unused", rq' = [rq EXCEPT ![r].kind = kind],
             UNCHANGED <<waitpdu, current, tgtExp, cmdsn>>
      PROVE  LineAt(lo)'
  <2> DEFINE p == NewPdu(op, r, cmdsn, 0)
  <2>1. p \in Pdu /\ ~Numbered(p) /\ p.cmdsn = cmdsn
    BY NewPduType DEF Ops, Numbered, NewPdu, TypeOK
  <2>2. Counted' = Counted
    BY <1>3, CountedGrows DEF ScsiKinds
  <2>3. Off(cmdsn) \in Nat /\ Off(cmdsn) <= Off(cmdsn)
    BY LineFacts
  <2> HIDE DEF p
  <2>4. AddToOutqueue(outqueue, p, agenda)
    BY <1>3 DEF p
  <2> QED
    BY <1>3, <2>1, <2>2, <2>3, <2>4, UnnumberedLine
<1>4. CASE (\E t \in Reqs : AbortTaskAsync(r, t)) \/ LogoutAsync(r)
  BY <1>3, <1>4 DEF AbortTaskAsync, LogoutAsync, targetVars
<1> QED
  BY <1>1, <1>2, <1>4

\* abort_task_set and the target resets.
LEMMA ResetLine ==
  ASSUME IsFiniteSet(Reqs), Cardinality(Reqs) < Half, TypeOK, NEW lo, LineAt(lo), NEW r \in Reqs,
         ResetAsync(r)
  PROVE  LineAt(lo)'
<1>0. /\ waitpdu' = <<>> /\ current' \in {current, NoPdu} /\ UNCHANGED tgtExp
      /\ cmdsn' = CmdSNWithout(DOMAIN outqueue) /\ rq[r].kind = "unused"
  BY DEF ResetAsync, CancelWaiting, targetVars
<1>1. CASE ~is_loggedin
  BY <1>0, <1>1, CancelLine DEF ResetAsync
<1>2. CASE is_loggedin
  <2> DEFINE p == NewPdu("TMF", r, cmdsn', 0)
  <2>1. /\ Off(cmdsn') = lo /\ lo \in Nat /\ cmdsn' \in Serial /\ lo <= Off(cmdsn)
        /\ Off(cmdsn) \in Nat /\ Cardinality(Counted) \in Nat
        /\ Off(cmdsn) < Half /\ Half \in Nat
    BY <1>0, AllGivenBack, LineFacts
  <2>2. p \in Pdu /\ ~Numbered(p) /\ p.cmdsn = cmdsn'
    BY <2>1, NewPduType DEF Ops, Numbered, NewPdu
  <2>3. AddToOutqueue(<<>>, p, agenda) /\ rq' = [rq EXCEPT ![r].kind = "tmf"]
    BY <1>0, <1>2 DEF ResetAsync
  <2> HIDE DEF p
  <2>4. InLine(<<>>, lo, lo) /\ <<>> \in Seq(Pdu) /\ lo < Half /\ Off(p.cmdsn) = lo /\ lo <= lo
    BY <2>1, <2>2, EmptyLine
  <2>5. InLine(outqueue', lo, lo)
    BY <2>2, <2>3, <2>4, AddLine
  <2>6. Counted' = Counted
    <3>1. rq[r].kind = "unused" /\ rq' = [rq EXCEPT ![r].kind = "tmf"]
      BY <1>0, <2>3
    <3>2. "tmf" \notin ScsiKinds \cup {"nop"}
      BY DEF ScsiKinds
    <3> QED
      BY <3>1, <3>2, CountedGrows
  <2>7. Off(cmdsn') <= Cardinality(Counted')
    BY <2>1, <2>6 DEF LineAt
  <2>8. ToSet(waitpdu') \subseteq ToSet(waitpdu)
    BY <1>0 DEF ToSet
  <2>9. Below(lo)'
    BY <1>0, <2>8, StillBelow DEF LineAt, Below
  <2> QED
    BY <1>0, <2>1, <2>5, <2>7, <2>9 DEF LineAt, Below
<1> QED
  BY <1>1, <1>2 DEF ResetAsync

\* A DATA-OUT has the number of its command, which is queued or waiting.
LEMMA DataLine ==
  ASSUME IsFiniteSet(Reqs), Cardinality(Reqs) < Half, TypeOK, NEW lo, LineAt(lo),
         leaked = {}, SendDataOut
  PROVE  LineAt(lo)'
<1> DEFINE f == Head(agenda)
           callers == SendData(f.req, f.datasn + 1, f.left - 1) \o Tail(agenda)
<1>0. /\ UNCHANGED <<waitpdu, current, tgtExp, cmdsn, rq>> /\ Counted' = Counted
      /\ f \in Frame /\ f.do = "data"
  BY ListType DEF SendDataOut, targetVars, Counted, Doing
<1>1. ASSUME NEW c \in ToSet(outqueue) \cup ToSet(waitpdu), c.op = "SCSI",
             AddToOutqueue(outqueue, NewPdu("DATA", f.req, c.cmdsn, f.datasn), callers)
      PROVE  LineAt(lo)'
  <2> DEFINE p == NewPdu("DATA", f.req, c.cmdsn, f.datasn)
  <2>1. c \in Pdu /\ Numbered(c)
    BY <1>1, ListType DEF ToSet, Numbered
  <2>2. f.req \in Reqs /\ f.datasn \in Nat /\ c.cmdsn \in Serial
    BY <1>0, <2>1 DEF Frame, Pdu
  <2>3. p \in Pdu /\ p.op = "DATA" /\ p.cmdsn = c.cmdsn
    BY <2>2, NewPduType DEF Ops, NewPdu
  <2>4. Off(c.cmdsn) <= Off(cmdsn)
    <3>1. CASE c \in ToSet(outqueue)
      <4>1. PICK i \in DOMAIN outqueue : c = outqueue[i]
        BY <3>1 DEF ToSet
      <4> QED
        BY <4>1 DEF LineAt, InLine, Pos
    <3>2. CASE c \in ToSet(waitpdu)
      <4>1. Off(c.cmdsn) < lo /\ Off(c.cmdsn) \in Nat
        BY <2>1, <2>2, <3>2, OffType DEF LineAt
      <4> QED
        BY <4>1, LineFacts
    <3> QED
      BY <1>1, <3>1, <3>2
  <2> HIDE DEF p, callers
  <2>5. AddToOutqueue(outqueue, p, callers) /\ ~Numbered(p)
    BY <1>1, <2>3 DEF p, Numbered
  <2> QED
    BY <1>0, <2>3, <2>4, <2>5, UnnumberedLine
<1>2. CASE UNCHANGED outqueue
  BY <1>0, <1>2, SameLine
<1> QED
  BY <1>1, <1>2 DEF SendDataOut

\* The answer to a NOP-In.
LEMMA PongLine ==
  ASSUME IsFiniteSet(Reqs), Cardinality(Reqs) < Half, TypeOK, NEW lo, LineAt(lo), TargetPing
  PROVE  LineAt(lo)'
<1> DEFINE p == NewPdu("PONG", NoReq, cmdsn, 0)
<1>1. p \in Pdu /\ ~Numbered(p) /\ p.cmdsn = cmdsn
  BY NewPduType DEF Ops, Numbered, NewPdu, TypeOK
<1>2. AddToOutqueue(outqueue, p, <<>>)
  BY DEF TargetPing
<1>3. Counted' = Counted /\ UNCHANGED <<waitpdu, current, tgtExp, cmdsn>>
  BY DEF TargetPing, Counted
<1>4. Off(cmdsn) <= Off(cmdsn)
  BY LineFacts
<1> HIDE DEF p
<1> QED
  BY <1>1, <1>2, <1>3, <1>4, UnnumberedLine

\* The head of the queue is taken off to be written.
LEMMA PopLine ==
  ASSUME IsFiniteSet(Reqs), Cardinality(Reqs) < Half, TypeOK, NEW lo, LineAt(lo), WritePop
  PROVE  /\ Numbered(current') => Off(current'.cmdsn) = lo /\ LineAt(lo + 1)'
         /\ ~Numbered(current') => LineAt(lo)'
<1> DEFINE h == Head(outqueue)
           t == Tail(outqueue)
<1>0. /\ outqueue \in Seq(Pdu) /\ outqueue # <<>> /\ InLine(outqueue, lo, Off(cmdsn))
      /\ h \in Pdu /\ current' = h /\ outqueue' = t
      /\ waitpdu' = waitpdu \/ waitpdu' = Append(waitpdu, h)
      /\ UNCHANGED <<cmdsn, rq, tgtExp>>
  BY ListType DEF TypeOK, LineAt, WritePop, CanPop, targetVars
<1>1. lo \in Nat /\ Off(tgtExp) \in Nat /\ Counted' = Counted
  BY <1>0, LineFacts DEF Counted
<1>2. ToSet(waitpdu') \cup {current'} \subseteq ToSet(waitpdu) \cup {h}
  <2>1. waitpdu \in Seq(Pdu)
    BY DEF TypeOK
  <2>2. \A i \in 1 .. (Len(waitpdu) + 1) : i = Len(waitpdu) + 1 \/ i \in 1 .. Len(waitpdu)
    BY <2>1, LenProperties
  <2>3. /\ Append(waitpdu, h) \in Seq(Pdu) /\ Len(Append(waitpdu, h)) = Len(waitpdu) + 1
        /\ \A i \in 1 .. Len(waitpdu) : Append(waitpdu, h)[i] = waitpdu[i]
        /\ Append(waitpdu, h)[Len(waitpdu) + 1] = h
    BY <1>0, <2>1, AppendProperties
  <2>4. DOMAIN Append(waitpdu, h) = 1 .. (Len(waitpdu) + 1) /\ DOMAIN waitpdu = 1 .. Len(waitpdu)
    BY <2>1, <2>3, LenProperties
  <2>5. ToSet(Append(waitpdu, h)) \subseteq ToSet(waitpdu) \cup {h}
    <3> HIDE DEF h
    <3> QED
      BY <2>2, <2>3, <2>4 DEF ToSet
  <2> QED
    BY <1>0, <2>5
<1>3. \A p \in ToSet(waitpdu) : Numbered(p) => Off(p.cmdsn) < lo /\ Off(p.cmdsn) \in Nat
  <2>1. \A p \in ToSet(waitpdu) : p \in Pdu
    BY ListType DEF ToSet
  <2>2. \A p \in ToSet(waitpdu) : Off(p.cmdsn) \in Nat
    BY <2>1, Sorts, OffType
  <2> QED
    BY <2>2 DEF LineAt
<1> HIDE DEF h, t
<1>4. CASE Numbered(h)
  <2>1. Off(h.cmdsn) = lo /\ InLine(t, lo + 1, Off(cmdsn))
    BY <1>0, <1>4, TailLine DEF h, t
  <2>2. \A p \in ToSet(waitpdu') \cup {current'} : Numbered(p) => Off(p.cmdsn) < lo + 1
    BY <1>1, <1>2, <1>3, <2>1
  <2>3. Off(tgtExp') <= lo + 1
    BY <1>0, <1>1 DEF LineAt
  <2> QED
    BY <1>0, <1>1, <1>4, <2>1, <2>2, <2>3 DEF LineAt
<1>5. CASE ~Numbered(h)
  <2>1. InLine(t, lo, Off(cmdsn))
    BY <1>0, <1>5, TailLine DEF h, t
  <2>2. \A p \in ToSet(waitpdu') \cup {current'} : Numbered(p) => Off(p.cmdsn) < lo
    BY <1>2, <1>3, <1>5
  <2> QED
    BY <1>0, <1>1, <1>5, <2>1, <2>2 DEF LineAt
<1> QED
  BY <1>0, <1>4, <1>5

\* The target counts the command it has received.
LEMMA DoneLine ==
  ASSUME IsFiniteSet(Reqs), Cardinality(Reqs) < Half, TypeOK, NEW lo, LineAt(lo), WriteDone
  PROVE  /\ LineAt(lo)'
         /\ Off(tgtExp') = IF Numbered(current) /\ current.cmdsn = tgtExp
                           THEN Off(tgtExp) + 1 ELSE Off(tgtExp)
<1>0. /\ current \in Pdu /\ current' = NoPdu
      /\ tgtExp' = IF Numbered(current) /\ current.cmdsn = tgtExp THEN SNPlus(tgtExp, 1) ELSE tgtExp
      /\ UNCHANGED <<outqueue, waitpdu, cmdsn, rq>>
  BY DEF WriteDone, TargetReceives, TypeOK
<1>1. lo \in Nat /\ Off(tgtExp) \in Nat /\ lo <= Off(cmdsn) /\ Off(cmdsn) \in Nat
      /\ Off(cmdsn) < Half /\ Half \in Nat /\ tgtExp \in Serial /\ Off(tgtExp) <= lo
  BY LineFacts DEF TypeOK, LineAt
<1>2. Off(tgtExp') = IF Numbered(current) /\ current.cmdsn = tgtExp
                     THEN Off(tgtExp) + 1 ELSE Off(tgtExp)
  <2>1. Off(tgtExp) + 1 < Modulus
    BY <1>1, HalfAssumption DEF Modulus
  <2>2. Off(SNPlus(tgtExp, 1)) = Off(tgtExp) + 1
    BY <1>1, <2>1, OffPlus
  <2> QED
    BY <1>0, <2>2
<1>3. Off(tgtExp') <= lo
  <2>1. Numbered(current) => Off(current.cmdsn) < lo
    BY DEF LineAt
  <2> QED
    BY <1>1, <1>2, <2>1
<1>4. Below(lo)'
  BY <1>0, StillBelow DEF LineAt, Below
<1> QED
  BY <1>0, <1>2, <1>3, <1>4 DEF LineAt, Below, Counted

\* The target's PDUs.
LEMMA ReadLine ==
  ASSUME IsFiniteSet(Reqs), Cardinality(Reqs) < Half, TypeOK, NEW lo, LineAt(lo),
         NEW r \in Reqs, Read(r)
  PROVE  LineAt(lo)'
<1>1. UNCHANGED <<rq, tgtExp>>
  BY DEF Read, Reply, Reject, MalformedReply, DataIn, R2T, Unsolicited, initiatorVars, targetVars
<1>2. \/ Unsolicited
      \/ UNCHANGED <<outqueue, current, waitpdu, cmdsn>>
  BY DEF Read, Reply, Reject, MalformedReply, DataIn, R2T, initiatorVars
<1> QED
  BY <1>1, <1>2, FailLine, SameLine DEF Unsolicited

\* The PDU of a completed request is unlinked.
LEMMA UnlinkLine ==
  ASSUME TypeOK, NEW lo, LineAt(lo), FinishPdu \/ FinishReject
  PROVE  LineAt(lo)'
<1>1. UNCHANGED <<outqueue, cmdsn, rq, tgtExp>> /\ current' \in {current, NoPdu}
  BY DEF FinishPdu, FinishReject, FreePdu, targetVars
<1>2. ToSet(waitpdu') \subseteq ToSet(waitpdu)
  <2>1. \/ UNCHANGED waitpdu
        \/ waitpdu' \in Retain(waitpdu, {i \in DOMAIN waitpdu : waitpdu[i].req # Head(agenda).req})
    BY DEF FinishPdu, FinishReject
  <2>2. waitpdu \in Seq(Pdu)
    BY DEF TypeOK
  <2> QED
    BY <2>1, <2>2, RetainSet
<1> QED
  BY <1>1, <1>2, SameLine

\* Every other step keeps the line where it is.
LEMMA StepLine ==
  ASSUME IsFiniteSet(Reqs), Cardinality(Reqs) < Half, Timeouts = FALSE,
         Calls \cap {"cancel_task", "lun_reset"} = {},
         TypeOK, NothingDropped, NEW lo, LineAt(lo), [Next]_vars, ~WritePop
  PROVE  LineAt(lo)'
<1>1. ASSUME NEW r \in Reqs, AppCall(r) PROVE LineAt(lo)'
  <2>1. ~CancelTask(r) /\ ~(\E lun \in Luns : LunResetAsync(r, lun))
    BY DEF CancelTask, LunResetAsync, MayCall
  <2> QED
    BY <1>1, <2>1, QueueingLine, ResetLine DEF AppCall
<1>2. CASE CancelAllTasks \/ DestroyContext
  <2>1. /\ outqueue' = <<>> /\ waitpdu' = <<>> /\ current' \in {current, NoPdu}
        /\ cmdsn' = CmdSNWithout(DOMAIN outqueue) /\ UNCHANGED <<rq, tgtExp>>
    BY <1>2 DEF CancelAllTasks, DestroyContext, CancelPdus, CancelWaiting, targetVars
  <2> QED
    BY <2>1, CancelLine
<1>3. CASE FailRead \/ ReadError \/ WriteStale \/ WriteError
  BY <1>3, FailLine DEF FailRead, ReadError, WriteStale, WriteError, Unsolicited, targetVars
<1>4. CASE \/ CallbackReturns \/ PollOut \/ Tick \/ WriteStops \/ WriteBlocks \/ TargetNopIn
           \/ Destroyed \/ UNCHANGED vars
  <2>1. UNCHANGED <<outqueue, cmdsn, rq, tgtExp, waitpdu, current>>
    BY <1>4 DEF CallbackReturns, PollOut, Tick, WriteStops, WriteBlocks, TargetNopIn, Destroyed,
                vars, initiatorVars, targetVars
  <2> QED
    BY <2>1, SameLine
<1>5. ~ScanOutqueue /\ ~ScanWaitpdu
  <2>1. agenda # <<>> => Head(agenda) \in Stack
    BY StackOf DEF TypeOK, Stack
  <2> QED
    BY <2>1 DEF ScanOutqueue, ScanWaitpdu, Doing, NothingDropped
<1>6. CASE SendDataOut
  BY <1>6, DataLine DEF NothingDropped
<1>7. CASE FinishPdu \/ FinishReject
  BY <1>7, UnlinkLine
<1>8. CASE WriteDone
  BY <1>8, DoneLine
<1>9. CASE TargetPing
  BY <1>9, PongLine
<1> QED
  BY <1>1, <1>2, <1>3, <1>4, <1>5, <1>6, <1>7, <1>8, <1>9, ReadLine DEF Next, Write

\* Neither the timeout scan nor the LUN reset runs.
LEMMA StillNothingDropped ==
  ASSUME Timeouts = FALSE, "lun_reset" \notin Calls, TypeOK, NothingDropped, [Next]_vars
  PROVE  NothingDropped'
<1>1. \A f \in Stack' : f.do \notin {"scan_out", "scan_wait"}
  BY NextFrames DEF NothingDropped, Quiet, Answered, Unlinking
<1>2. ~Doing("scan_out") /\ ~Doing("scan_wait")
  <2>1. agenda # <<>> => Head(agenda) \in Stack
    BY StackOf DEF TypeOK, Stack
  <2> QED
    BY <2>1 DEF Doing, NothingDropped
<1>3. ASSUME NEW r \in Reqs, AppCall(r) PROVE UNCHANGED leaked
  BY <1>3 DEF AppCall, CommandAsync, NopOutAsync, AbortTaskAsync, LogoutAsync, CancelTask, ResetAsync,
              LunResetAsync, MayCall
<1>4. ASSUME NEW r \in Reqs, Read(r) PROVE UNCHANGED leaked
  BY <1>4 DEF Read, Reply, Reject, MalformedReply, DataIn, R2T, Unsolicited, initiatorVars
<1>5. ASSUME Next, ~(\E r \in Reqs : AppCall(r) \/ Read(r)) PROVE UNCHANGED leaked
  BY <1>2, <1>5
     DEF Next, CancelAllTasks, DestroyContext, CallbackReturns, SendDataOut, FinishPdu, FinishReject,
         FailRead, PollOut, Tick, Write, WriteStops, WriteStale, WritePop, WriteBlocks, WriteError,
         WriteDone, ScanOutqueue, ScanWaitpdu, TargetNopIn, TargetPing, ReadError, Destroyed,
         Unsolicited, vars, initiatorVars
<1>6. UNCHANGED leaked
  BY <1>3, <1>4, <1>5 DEF vars, initiatorVars
<1> QED
  BY <1>1, <1>6 DEF NothingDropped

\* At first nothing is queued.
LEMMA InitLine ==
  ASSUME Init
  PROVE  LineAt(0)
<1>1. Off(InitSN) = 0
  BY ConstantsAssumption, OffType
<1>2. Counted = {}
  BY DEF Init, Counted, Unused, ScsiKinds
<1>3. Cardinality(Counted) = 0
  BY <1>2, FS_EmptySet
<1>4. ToSet(waitpdu) = {} /\ ~Numbered(current)
  BY DEF Init, ToSet, Numbered, NoPdu, NewPdu
<1>5. InLine(outqueue, 0, 0)
  BY EmptyLine DEF Init
<1> QED
  BY <1>1, <1>3, <1>4, <1>5 DEF Init, LineAt

\* The line moves by at most one command.
LEMMA LineMoves ==
  ASSUME IsFiniteSet(Reqs), Cardinality(Reqs) < Half, Timeouts = FALSE,
         Calls \cap {"cancel_task", "lun_reset"} = {},
         TypeOK, NothingDropped, NEW lo, LineAt(lo), [Next]_vars
  PROVE  /\ lo \in Nat
         /\ \E m \in 0 .. Off(cmdsn)' :
              /\ LineAt(m)'
              /\ m = IF WritePop /\ Numbered(current') THEN lo + 1 ELSE lo
              /\ WritePop /\ Numbered(current') => Off(current'.cmdsn) = lo
<1>0. lo \in Nat /\ TypeOK'
  BY LineFacts, NextType
<1>1. PICK m : m = IF WritePop /\ Numbered(current') THEN lo + 1 ELSE lo
  OBVIOUS
<1>2. LineAt(m)' /\ (WritePop /\ Numbered(current') => Off(current'.cmdsn) = lo)
  BY <1>1, PopLine, StepLine
<1>3. m \in 0 .. Off(cmdsn)'
  BY <1>2 DEF LineAt, InLine, Row
<1> QED
  BY <1>0, <1>1, <1>2, <1>3

-----------------------------------------------------------------------------
(* No command is stale. *)

\* ExpCmdSN as last heard of is never ahead of what the target has counted.
LEMMA HeardLemma ==
  ASSUME Rejects = FALSE, [Next]_vars
  PROVE  expcmdsn' \in {expcmdsn, tgtExp}
<1>1. ASSUME ProcessSerials PROVE expcmdsn' \in {expcmdsn, tgtExp}
  BY <1>1 DEF ProcessSerials, AnnouncedExp, Forward
<1>2. ASSUME NEW r \in Reqs, AppCall(r) PROVE UNCHANGED expcmdsn
  BY <1>2 DEF AppCall, CommandAsync, NopOutAsync, AbortTaskAsync, LogoutAsync, CancelTask, ResetAsync,
              LunResetAsync, windowVars
<1>3. ASSUME NEW r \in Reqs, Read(r) PROVE ProcessSerials
  BY <1>3 DEF Read, Reply, Reject, MalformedReply, DataIn, R2T
<1>4. ASSUME Next, ~(\E r \in Reqs : AppCall(r) \/ Read(r)) PROVE ProcessSerials \/ UNCHANGED expcmdsn
  BY <1>4
     DEF Next, CancelAllTasks, DestroyContext, CallbackReturns, SendDataOut, FinishPdu, FinishReject,
         FailRead, PollOut, Tick, Write, WriteStops, WriteStale, WritePop, WriteBlocks, WriteError,
         WriteDone, ScanOutqueue, ScanWaitpdu, TargetNopIn, TargetPing, ReadError, Destroyed,
         vars, windowVars
<1> QED
  BY <1>1, <1>2, <1>3, <1>4 DEF vars, windowVars

\* The invariant is inductive.
LEMMA LineInvInductive ==
  ASSUME IsFiniteSet(Reqs), Cardinality(Reqs) < Half, Timeouts = FALSE, Rejects = FALSE,
         Calls \cap {"cancel_task", "lun_reset"} = {}
  PROVE  /\ Init => LineInv
         /\ LineInv /\ [Next]_vars => LineInv'
<1>1. ASSUME Init PROVE LineInv
  <2>1. TypeOK
    BY <1>1, InitType
  <2>2. NothingDropped
    BY <1>1 DEF Init, NothingDropped, Stack, ToSet
  <2>3. LineAt(0)
    BY <1>1, <2>1, InitLine
  <2>4. HeardAt(0) /\ 0 \in 0 .. Off(cmdsn)
    <3>1. Off(InitSN) = 0
      BY ConstantsAssumption, OffType
    <3> QED
      BY <1>1, <3>1 DEF Init, HeardAt
  <2> QED
    BY <2>1, <2>2, <2>3, <2>4 DEF LineInv
<1>2. ASSUME LineInv, [Next]_vars PROVE LineInv'
  <2>1. TypeOK /\ TypeOK' /\ NothingDropped
    BY <1>2, NextType DEF LineInv
  <2>2. NothingDropped'
    BY <1>2, <2>1, StillNothingDropped
  <2>3. PICK lo \in 0 .. Off(cmdsn) : LineAt(lo) /\ HeardAt(lo)
    BY <1>2 DEF LineInv
  <2>4. lo \in Nat
    BY <2>1, <2>3, LineFacts
  <2>a. PICK m \in 0 .. Off(cmdsn)' :
          LineAt(m)' /\ m = IF WritePop /\ Numbered(current') THEN lo + 1 ELSE lo
    <3>1. \E m \in 0 .. Off(cmdsn)' :
            /\ LineAt(m)'
            /\ m = IF WritePop /\ Numbered(current') THEN lo + 1 ELSE lo
            /\ WritePop /\ Numbered(current') => Off(current'.cmdsn) = lo
      BY <1>2, <2>1, <2>3, LineMoves
    <3> QED
      BY <3>1
  <2>5. HeardAt(m)'
    <3>1. expcmdsn' \in {expcmdsn, tgtExp} /\ Off(expcmdsn') \in Nat
      BY <1>2, <2>1, HeardLemma, OffType DEF TypeOK
    <3>2. Off(expcmdsn') <= lo
      BY <2>3, <3>1 DEF LineAt, HeardAt
    <3> QED
      BY <2>4, <2>a, <3>1, <3>2 DEF HeardAt
  <2> QED
    BY <2>1, <2>2, <2>a, <2>5 DEF LineInv
<1> QED
  BY <1>1, <1>2

LEMMA LineNeverStale ==
  ASSUME IsFiniteSet(Reqs), Cardinality(Reqs) < Half
  PROVE  LineInv => NeverStale
<1> SUFFICES ASSUME LineInv, NEW i \in DOMAIN outqueue, outqueue[i].op # "DATA"
             PROVE  SerialCompare(outqueue[i].cmdsn, expcmdsn) >= 0
  BY DEF NeverStale
<1> DEFINE p == outqueue[i]
<1>1. TypeOK /\ expcmdsn \in Serial /\ p \in Pdu
  BY ListType DEF LineInv, TypeOK
<1>2. PICK lo \in 0 .. Off(cmdsn) : LineAt(lo) /\ HeardAt(lo)
  BY DEF LineInv
<1>3. /\ lo \in Nat /\ Off(cmdsn) \in Nat /\ Off(cmdsn) < Half /\ Half \in Nat
      /\ p.cmdsn \in Serial /\ Off(p.cmdsn) \in Nat /\ Off(expcmdsn) \in Nat
  BY <1>1, <1>2, LineFacts, Sorts, OffType
<1>4. lo <= Off(p.cmdsn) /\ Off(p.cmdsn) <= Off(cmdsn)
  <2>1. CASE Numbered(p)
    <3>1. i \in Num(outqueue)
      BY <2>1 DEF Num
    <3>2. Pos(outqueue, i) \in lo .. Off(cmdsn) - 1
      BY <1>2, <3>1 DEF LineAt, InLine, Row
    <3> QED
      BY <1>3, <3>2 DEF Pos
  <2>2. CASE Immediate(p)
    BY <1>2, <1>3, <2>2 DEF LineAt, InLine, Pos
  <2> QED
    BY <1>1, <2>1, <2>2, Sorts
<1> HIDE DEF p
<1>5. ~(Off(p.cmdsn) < Off(expcmdsn)) /\ Off(expcmdsn) < Half /\ Off(p.cmdsn) < Half
  BY <1>2, <1>3, <1>4 DEF HeardAt
<1>6. ~(SerialCompare(p.cmdsn, expcmdsn) < 0)
  BY <1>1, <1>3, <1>5, OffCompare
<1>7. SerialCompare(p.cmdsn, expcmdsn) \in Int
  BY DEF SerialCompare
<1> QED
  BY <1>6, <1>7 DEF p

\* No PDU that waits to be written carries a CmdSN the target has seen: the
\* check in iscsi_write_to_socket that would drop the session never fires,
\* whatever is cancelled, reset or destroyed, from callbacks too, wherever
\* the numbers wrap and whenever the connection fails.  The hypotheses leave
\* out a target that announces what it has not received, and the operations
\* that take commands out of the middle of the queue: iscsi_scsi_cancel_task,
\* which gives back the last number instead of the one it takes out
\* (src/lib/iscsi-command.c:2731), the LUN reset and the timeout scan.
THEOREM NeverStaleCorrect ==
  ASSUME IsFiniteSet(Reqs), Cardinality(Reqs) < Half, Timeouts = FALSE, Rejects = FALSE,
         Calls \cap {"cancel_task", "lun_reset"} = {}
  PROVE  Spec => []NeverStale
BY LineNeverStale, LineInvInductive, PTL DEF Spec

-----------------------------------------------------------------------------
(* No number is skipped. *)

\* A connection that is out of use stays so.
LEMMA StaysDown ==
  ASSUME [Next]_vars
  PROVE  /\ reconnect_deferred => reconnect_deferred'
         /\ Doing("destroyed") => Doing("destroyed")'
<1>1. ASSUME NEW callers, ServiceFails(callers)
      PROVE  reconnect_deferred => reconnect_deferred'
  BY <1>1 DEF ServiceFails
<1>2. ASSUME NEW r \in Reqs, AppCall(r)
      PROVE  UNCHANGED reconnect_deferred /\ ~Doing("destroyed")
  BY <1>2 DEF AppCall, CommandAsync, NopOutAsync, AbortTaskAsync, LogoutAsync, CancelTask, ResetAsync,
              LunResetAsync, MayCall, Doing
<1>3. ASSUME NEW r \in Reqs, Read(r)
      PROVE  (reconnect_deferred => reconnect_deferred') /\ ~Doing("destroyed")
  BY <1>1, <1>3 DEF Read, Reply, Reject, MalformedReply, DataIn, R2T, Unsolicited, initiatorVars,
                    CanRead, Doing
<1>4. CASE FailRead \/ WriteStale \/ WriteError \/ ReadError
  BY <1>1, <1>4 DEF FailRead, WriteStale, WriteError, ReadError, Unsolicited, CanPop, Doing
<1>5. CASE \/ CancelAllTasks \/ DestroyContext \/ CallbackReturns \/ SendDataOut \/ FinishPdu
           \/ FinishReject \/ PollOut \/ Tick \/ WriteStops \/ WritePop \/ WriteBlocks \/ WriteDone
           \/ ScanOutqueue \/ ScanWaitpdu \/ TargetNopIn \/ TargetPing
  <2>1. UNCHANGED reconnect_deferred
    BY <1>5 DEF CancelAllTasks, DestroyContext, CallbackReturns, SendDataOut, FinishPdu, FinishReject,
                PollOut, Tick, WriteStops, WritePop, WriteBlocks, WriteDone, ScanOutqueue, ScanWaitpdu,
                TargetNopIn, TargetPing, initiatorVars
  <2>2. ~Doing("destroyed")
    BY <1>5 DEF CancelAllTasks, DestroyContext, CallbackReturns, SendDataOut, FinishPdu, FinishReject,
                PollOut, Tick, WriteStops, WritePop, WriteBlocks, WriteDone, ScanOutqueue, ScanWaitpdu,
                TargetNopIn, TargetPing, MayCall, CanPop, CanRead, Doing
  <2> QED
    BY <2>1, <2>2
<1>6. CASE Destroyed \/ UNCHANGED vars
  BY <1>6 DEF Destroyed, vars, initiatorVars, Doing
<1> QED
  BY <1>2, <1>3, <1>4, <1>5, <1>6 DEF Next, Write

\* The target counts only what is written.
LEMMA TargetCounts ==
  ASSUME [Next]_vars, ~WriteDone
  PROVE  UNCHANGED tgtExp
<1>1. ASSUME NEW r \in Reqs, AppCall(r) PROVE UNCHANGED tgtExp
  BY <1>1 DEF AppCall, CommandAsync, NopOutAsync, AbortTaskAsync, LogoutAsync, CancelTask, ResetAsync,
              LunResetAsync, targetVars
<1>2. ASSUME NEW r \in Reqs, Read(r) PROVE UNCHANGED tgtExp
  BY <1>2 DEF Read, Reply, Reject, MalformedReply, DataIn, R2T, targetVars
<1>3. ASSUME Next, ~(\E r \in Reqs : AppCall(r) \/ Read(r)) PROVE UNCHANGED tgtExp
  BY <1>3
     DEF Next, CancelAllTasks, DestroyContext, CallbackReturns, SendDataOut, FinishPdu, FinishReject,
         FailRead, PollOut, Tick, Write, WriteStops, WriteStale, WritePop, WriteBlocks, WriteError,
         ScanOutqueue, ScanWaitpdu, TargetNopIn, TargetPing, ReadError, Destroyed, vars, targetVars
<1> QED
  BY <1>1, <1>2, <1>3 DEF vars, targetVars

\* The invariant is inductive.
LEMMA ExactInvInductive ==
  ASSUME IsFiniteSet(Reqs), Cardinality(Reqs) < Half, Timeouts = FALSE,
         Calls \cap {"cancel_task", "cancel_all", "reset", "lun_reset"} = {}
  PROVE  /\ Init => ExactInv
         /\ ExactInv /\ [Next]_vars => ExactInv'
<1>0. ~Numbered(NoPdu)
  BY DEF Numbered, NoPdu, NewPdu
<1>1. ASSUME Init PROVE ExactInv
  <2>1. TornInv
    BY <1>1, TornInvInductive
  <2>2. NothingDropped
    BY <1>1 DEF Init, NothingDropped, Stack, ToSet
  <2>3. LineAt(0)
    BY <1>1, InitLine
  <2>4. ExactAt(0) /\ 0 \in 0 .. Off(cmdsn)
    <3>1. Off(InitSN) = 0
      BY ConstantsAssumption, OffType
    <3> QED
      BY <1>0, <1>1, <3>1 DEF Init, ExactAt
  <2> QED
    BY <2>1, <2>2, <2>3, <2>4 DEF ExactInv
<1>2. ASSUME ExactInv, [Next]_vars PROVE ExactInv'
  <2>1. TypeOK /\ TypeOK' /\ NothingDropped /\ TornInv
    BY <1>2, NextType DEF ExactInv, TornInv
  <2>2. NothingDropped' /\ TornInv'
    BY <1>2, <2>1, StillNothingDropped, TornInvInductive
  <2>3. PICK lo \in 0 .. Off(cmdsn) : LineAt(lo) /\ ExactAt(lo)
    BY <1>2 DEF ExactInv
  <2>4. lo \in Nat /\ Off(tgtExp) \in Nat /\ tgtExp \in Serial
    BY <2>1, <2>3, LineFacts DEF TypeOK
  <2>5. PICK m \in 0 .. Off(cmdsn)' :
          /\ LineAt(m)'
          /\ m = IF WritePop /\ Numbered(current') THEN lo + 1 ELSE lo
          /\ WritePop /\ Numbered(current') => Off(current'.cmdsn) = lo
    <3>1. Calls \cap {"cancel_task", "lun_reset"} = {}
      OBVIOUS
    <3>2. \E m \in 0 .. Off(cmdsn)' :
            /\ LineAt(m)'
            /\ m = IF WritePop /\ Numbered(current') THEN lo + 1 ELSE lo
            /\ WritePop /\ Numbered(current') => Off(current'.cmdsn) = lo
      BY <1>2, <2>1, <2>3, <3>1, LineMoves
    <3> QED
      BY <3>2
  <2>6. ExactAt(m)'
    <3>1. CASE reconnect_deferred \/ Doing("destroyed")
      BY <1>2, <3>1, StaysDown DEF ExactAt
    <3>2. CASE reconnect_deferred' \/ Doing("destroyed")'
      BY <3>2 DEF ExactAt
    <3>3. CASE /\ ~(reconnect_deferred \/ Doing("destroyed"))
               /\ ~(reconnect_deferred' \/ Doing("destroyed")')
      <4>1. IF Numbered(current)
            THEN Off(current.cmdsn) = Off(tgtExp) /\ lo = Off(tgtExp) + 1
            ELSE lo = Off(tgtExp)
        BY <2>3, <3>3 DEF ExactAt
      <4>2. CASE WritePop
        <5>1. current = NoPdu /\ UNCHANGED tgtExp
          BY <4>2 DEF WritePop, CanPop, targetVars
        <5>2. lo = Off(tgtExp)
          BY <1>0, <4>1, <5>1
        <5> QED
          BY <2>5, <4>2, <5>1, <5>2 DEF ExactAt
      <4>3. CASE WriteDone
        <5>1. /\ current \in Pdu /\ current' = NoPdu /\ ~WritePop
              /\ Off(tgtExp') = IF Numbered(current) /\ current.cmdsn = tgtExp
                                THEN Off(tgtExp) + 1 ELSE Off(tgtExp)
          <6>1. current \in Pdu /\ current # NoPdu /\ current' = NoPdu
            BY <2>1, <4>3 DEF WriteDone, TypeOK
          <6>2. ~WritePop
            BY <6>1 DEF WritePop, CanPop
          <6> QED
            BY <2>1, <2>3, <4>3, <6>1, <6>2, DoneLine
        <5>2. Numbered(current) => current.cmdsn = tgtExp
          BY <2>4, <4>1, <5>1, OffType, Sorts
        <5>3. Off(tgtExp') = lo /\ m = lo
          BY <2>5, <4>1, <5>1, <5>2
        <5> QED
          BY <1>0, <5>1, <5>3 DEF ExactAt
      <4>4. CASE ~WritePop /\ ~WriteDone
        <5>1. UNCHANGED current
          BY <1>2, <2>1, <3>3, <4>4, CurrentSteps
        <5>2. UNCHANGED tgtExp
          BY <1>2, <4>4, TargetCounts
        <5> QED
          BY <2>5, <4>1, <4>4, <5>1, <5>2 DEF ExactAt
      <4> QED
        BY <4>2, <4>3, <4>4
    <3> QED
      BY <3>1, <3>2, <3>3
  <2> QED
    BY <2>2, <2>5, <2>6 DEF ExactInv
<1> QED
  BY <1>1, <1>2

\* A row behind the PDU being written.
LEMMA ConsRow ==
  ASSUME NEW q \in Seq(Pdu), NEW lo, NEW hi, Row(q, lo, hi), NEW p \in Pdu, NEW first \in Nat,
         IF Numbered(p) THEN Off(p.cmdsn) = first /\ lo = first + 1 ELSE lo = first
  PROVE  <<p>> \o q \in Seq(Pdu) /\ Row(<<p>> \o q, first, hi)
<1> DEFINE n == <<p>> \o q
<1>0. /\ Len(q) \in Nat /\ DOMAIN q = 1 .. Len(q)
      /\ lo \in Nat /\ hi \in Nat /\ lo <= hi
  BY LenProperties DEF Row
<1>1. /\ n \in Seq(Pdu) /\ Len(n) = Len(q) + 1
      /\ \A k \in 1 .. (Len(q) + 1) : n[k] = IF k = 1 THEN p ELSE q[k - 1]
  <2>1. <<p>> \in Seq(Pdu) /\ Len(<<p>>) = 1 /\ <<p>>[1] = p
    OBVIOUS
  <2> DEFINE s == <<p>>
  <2> HIDE DEF s
  <2>2. /\ s \o q \in Seq(Pdu) /\ Len(s \o q) = Len(s) + Len(q)
        /\ \A k \in 1 .. (Len(s) + Len(q)) : (s \o q)[k] = IF k <= Len(s) THEN s[k] ELSE q[k - Len(s)]
    BY <2>1, ConcatProperties DEF s
  <2> QED
    BY <1>0, <2>1, <2>2 DEF s
<1>2. /\ DOMAIN n = 1 .. (Len(q) + 1) /\ 1 \in DOMAIN n /\ n[1] = p
      /\ \A k \in DOMAIN n : k # 1 => k - 1 \in DOMAIN q /\ n[k] = q[k - 1] /\ k \in Nat /\ k > 1
      /\ \A k \in DOMAIN q : k \in Nat /\ k + 1 \in DOMAIN n /\ k + 1 # 1 /\ (k + 1) - 1 = k
  BY <1>0, <1>1, LenProperties
<1> HIDE DEF n
<1>3. /\ \A k \in Num(n) : k # 1 => k - 1 \in Num(q) /\ Pos(n, k) = Pos(q, k - 1) /\ k \in Nat /\ k > 1
      /\ \A k \in Num(q) : k + 1 \in Num(n) /\ Pos(n, k + 1) = Pos(q, k)
      /\ Pos(n, 1) = Off(p.cmdsn) /\ (1 \in Num(n) <=> Numbered(p))
  <2>1. \A k \in DOMAIN q : n[k + 1] = q[k]
    BY <1>2
  <2> QED
    BY <1>2, <2>1 DEF Num, Pos
<1>4. /\ \A k \in Num(q) : Pos(q, k) \in lo .. hi - 1
      /\ \A i, j \in Num(q) : i < j => Pos(q, i) < Pos(q, j)
      /\ \A k \in lo .. hi - 1 : \E i \in Num(q) : Pos(q, i) = k
  BY DEF Row
<1>5. first <= hi /\ first <= lo
  BY <1>0
<1>6. \A k \in Num(n) : Pos(n, k) \in first .. hi - 1
  <2>1. ASSUME NEW k \in Num(n), k # 1 PROVE Pos(n, k) \in first .. hi - 1
    BY <1>0, <1>3, <1>4, <1>5, <2>1
  <2>2. ASSUME 1 \in Num(n) PROVE Pos(n, 1) \in first .. hi - 1
    BY <1>0, <1>3, <2>2
  <2> QED
    BY <2>1, <2>2
<1>7. ASSUME NEW i \in Num(n), NEW j \in Num(n), i < j PROVE Pos(n, i) < Pos(n, j)
  <2>1. CASE i = 1
    <3>1. j # 1
      BY <1>7, <2>1
    <3>2. Pos(n, j) \in lo .. hi - 1 /\ Pos(n, i) = first /\ lo = first + 1
      BY <1>3, <1>4, <2>1, <3>1
    <3> QED
      BY <1>0, <3>2
  <2>2. CASE i # 1
    <3>1. i \in Nat /\ i > 1
      BY <1>3, <2>2
    <3>2. j # 1
      BY <1>7, <3>1
    <3>3. j \in Nat /\ i - 1 < j - 1
      BY <1>3, <1>7, <3>1, <3>2
    <3> QED
      BY <1>3, <1>4, <2>2, <3>2, <3>3
  <2> QED
    BY <2>1, <2>2
<1>8. ASSUME NEW k \in first .. hi - 1 PROVE \E i \in Num(n) : Pos(n, i) = k
  <2>1. CASE k \in lo .. hi - 1
    <3>1. PICK i \in Num(q) : Pos(q, i) = k
      BY <1>4, <2>1
    <3> QED
      BY <1>3, <3>1
  <2>2. CASE ~(k \in lo .. hi - 1)
    <3>1. k = first /\ Numbered(p)
      BY <1>0, <2>2
    <3> QED
      BY <1>3, <3>1
  <2> QED
    BY <2>1, <2>2
<1> QED
  BY <1>0, <1>1, <1>5, <1>6, <1>7, <1>8 DEF Row, n

\* The commands not yet with the target carry the successive numbers from
\* the one it expects to the last one handed out, for as long as the
\* connection is in use: for every number of requests, every first CmdSN and
\* every window, whatever the callbacks queue, whatever the target rejects
\* and although immediate PDUs overtake commands in iscsi_add_to_outqueue
\* (src/lib/socket.c:93).  The hypotheses leave out the calls that cancel tasks
\* and the timeout scan: they free a command that is being written, whose
\* number the target then never gets (src/lib/pdu.c:1018).
THEOREM CmdSNContiguousCorrect ==
  ASSUME IsFiniteSet(Reqs), Cardinality(Reqs) < Half, Timeouts = FALSE,
         Calls \cap {"cancel_task", "cancel_all", "reset", "lun_reset"} = {}
  PROVE  Spec => []CmdSNContiguous
<1>1. ExactInv => CmdSNContiguous
  <2> DEFINE q == (IF current = NoPdu THEN <<>> ELSE <<current>>) \o outqueue
             N == {i \in DOMAIN q : Numbered(q[i])}
  <2> SUFFICES ASSUME ExactInv, ~(reconnect_deferred \/ Doing("destroyed"))
               PROVE  /\ \A i \in N : q[i].cmdsn = SNPlus(tgtExp, Cardinality({j \in N : j < i}))
                      /\ cmdsn = SNPlus(tgtExp, Cardinality(N))
    BY DEF CmdSNContiguous
  <2>1. /\ TypeOK /\ outqueue \in Seq(Pdu) /\ tgtExp \in Serial /\ cmdsn \in Serial
        /\ current \in Pdu \cup {NoPdu}
    BY DEF ExactInv, TornInv, TypeOK
  <2>2. PICK lo \in 0 .. Off(cmdsn) : LineAt(lo) /\ ExactAt(lo)
    BY DEF ExactInv
  <2>3. Off(tgtExp) \in Nat /\ Row(outqueue, lo, Off(cmdsn))
    BY <2>1, <2>2, LineFacts DEF LineAt, InLine
  <2>4. IF Numbered(current)
        THEN Off(current.cmdsn) = Off(tgtExp) /\ lo = Off(tgtExp) + 1
        ELSE lo = Off(tgtExp)
    BY <2>2 DEF ExactAt
  <2>5. q \in Seq(Pdu) /\ Row(q, Off(tgtExp), Off(cmdsn))
    <3>1. CASE current = NoPdu
      <4>1. lo = Off(tgtExp)
        BY <2>4, <3>1 DEF Numbered, NoPdu, NewPdu
      <4>2. q = outqueue
        <5>1. <<>> \o outqueue = outqueue
          BY <2>1, ConcatEmptySeq
        <5> QED
          BY <3>1, <5>1
      <4> QED
        BY <2>1, <2>3, <4>1, <4>2
    <3>2. CASE current # NoPdu
      <4>1. q = <<current>> \o outqueue /\ current \in Pdu
        BY <2>1, <3>2
      <4>2. <<current>> \o outqueue \in Seq(Pdu) /\ Row(<<current>> \o outqueue, Off(tgtExp), Off(cmdsn))
        BY <2>1, <2>3, <2>4, <4>1, ConsRow
      <4> QED
        BY <4>1, <4>2
    <3> QED
      BY <3>1, <3>2
  <2> HIDE DEF q
  <2>6. /\ \A i \in Num(q) : Pos(q, i) = Off(tgtExp) + Cardinality({j \in Num(q) : j < i})
        /\ Off(cmdsn) = Off(tgtExp) + Cardinality(Num(q))
    BY <2>5, RowRanks
  <2>7. N = Num(q) /\ IsFiniteSet(N) /\ \A S \in SUBSET N : Cardinality(S) \in Nat
    <3>1. IsFiniteSet(DOMAIN q) /\ N \subseteq DOMAIN q
      BY <2>5, FS_Interval, LenProperties
    <3> QED
      BY <3>1, FS_Subset, FS_CardinalityType DEF Num
  <2>8. ASSUME NEW s \in Serial, NEW c \in Nat, Off(s) = Off(tgtExp) + c
        PROVE  s = SNPlus(tgtExp, c)
    <3>1. Off(tgtExp) + c < Modulus
      BY <2>8, OffType
    <3> QED
      BY <2>1, <2>8, <3>1, OffPlus
  <2>9. ASSUME NEW i \in N
        PROVE  q[i].cmdsn = SNPlus(tgtExp, Cardinality({j \in N : j < i}))
    <3>1. q[i] \in Pdu
      BY <2>5, ElementOfSeq, LenProperties
    <3>2. q[i].cmdsn \in Serial /\ Cardinality({j \in N : j < i}) \in Nat
      BY <2>7, <3>1, Sorts
    <3>3. Off(q[i].cmdsn) = Off(tgtExp) + Cardinality({j \in N : j < i})
      BY <2>6, <2>7 DEF Pos
    <3> QED
      BY <2>8, <3>2, <3>3
  <2>10. cmdsn = SNPlus(tgtExp, Cardinality(N))
    BY <2>1, <2>6, <2>7, <2>8
  <2> QED
    BY <2>9, <2>10
<1> QED
  BY <1>1, ExactInvInductive, PTL DEF Spec

-----------------------------------------------------------------------------
(* A healthy connection.  Callbacks may queue and bursts may be of any      *)
(* length, so that the stack is a call of the library, with a burst it has  *)
(* begun, on top of a callback, on top of the function that called it.      *)

\* Where a PDU is sorted in, and what its caller then has to do.
LEMMA AddPlace ==
  ASSUME NEW q \in Seq(Pdu), NEW p \in Pdu, NEW callers, AddToOutqueue(q, p, callers)
  PROVE  \E i \in 1 .. (Len(q) + 1), np \in Pdu :
           /\ np.op = p.op /\ np.req = p.req /\ np.datasn = p.datasn
           /\ ~Immediate(p) => np = p
           /\ InsertionPoint(q, np, i)
           /\ outqueue' \in Seq(Pdu) /\ Inserted(outqueue', q, i, np)
           /\ agenda' = (IF i = 1 THEN ServicePollout ELSE <<>>) \o callers
<1>1. PICK sn \in QueueSN(q, p), i \in 1 .. (Len(q) + 1) :
        /\ InsertionPoint(q, [p EXCEPT !.cmdsn = sn], i)
        /\ outqueue' = InsertAt(q, i, [p EXCEPT !.cmdsn = sn])
        /\ agenda' = (IF i = 1 THEN ServicePollout ELSE <<>>) \o callers
  BY DEF AddToOutqueue
<1>2. sn \in Serial /\ (~Immediate(p) => sn = p.cmdsn)
  <2>1. p.cmdsn \in Serial
    BY DEF Pdu
  <2>2. \A k \in DOMAIN q : q[k].cmdsn \in Serial
    <3>1. \A k \in DOMAIN q : q[k] \in Pdu
      BY ElementOfSeq, LenProperties
    <3> QED
      BY <3>1 DEF Pdu
  <2> QED
    BY <2>1, <2>2 DEF QueueSN
<1> DEFINE np == [p EXCEPT !.cmdsn = sn]
<1>3. np \in Pdu /\ np.op = p.op /\ np.req = p.req /\ np.datasn = p.datasn
  BY <1>2 DEF Pdu
<1>4. ~Immediate(p) => np = p
  BY <1>2 DEF Pdu
<1>5. InsertionPoint(q, np, i) /\ outqueue' = InsertAt(q, i, np)
  BY <1>1
<1> HIDE DEF np
<1>6. outqueue' \in Seq(Pdu) /\ Inserted(outqueue', q, i, np)
  BY <1>3, <1>5, InsertShape
<1> QED
  BY <1>1, <1>3, <1>4, <1>5, <1>6

\* The queue has the PDU and what it had before.
LEMMA InsertedSet ==
  ASSUME NEW q \in Seq(Pdu), NEW p, NEW i \in 1 .. (Len(q) + 1), NEW t \in Seq(Pdu), Inserted(t, q, i, p)
  PROVE  ToSet(t) = ToSet(q) \cup {p}
<1>1. DOMAIN t = 1 .. (Len(q) + 1) /\ DOMAIN q = 1 .. Len(q) /\ Len(q) \in Nat
  BY LenProperties DEF Inserted
<1>2. ASSUME NEW k \in DOMAIN t PROVE t[k] = p \/ \E j \in DOMAIN q : t[k] = q[j]
  <2>1. CASE k < i
    BY <1>1, <2>1 DEF Inserted
  <2>2. CASE k = i
    BY <1>1, <2>2 DEF Inserted
  <2>3. CASE k > i
    <3>1. k - 1 \in DOMAIN q /\ t[k] = q[k - 1]
      BY <1>1, <2>3 DEF Inserted
    <3> QED
      BY <3>1
  <2> QED
    BY <1>1, <2>1, <2>2, <2>3
<1>3. ASSUME NEW j \in DOMAIN q PROVE \E k \in DOMAIN t : q[j] = t[k]
  <2>1. CASE j < i
    <3>1. j \in DOMAIN t /\ t[j] = q[j]
      BY <1>1, <2>1 DEF Inserted
    <3> QED
      BY <3>1
  <2>2. CASE j >= i
    <3>1. j + 1 \in DOMAIN t /\ t[j + 1] = q[j]
      BY <1>1, <2>2 DEF Inserted
    <3> QED
      BY <3>1
  <2> QED
    BY <1>1, <2>1, <2>2
<1>4. \E k \in DOMAIN t : t[k] = p
  BY <1>1 DEF Inserted
<1>5. \A k \in DOMAIN t : t[k] = p \/ \E j \in DOMAIN q : t[k] = q[j]
  BY <1>2
<1>6. \A j \in DOMAIN q : \E k \in DOMAIN t : q[j] = t[k]
  BY <1>3
<1>7. HasAlso(t, q, p)
  BY <1>4, <1>5, <1>6, Zenon DEF HasAlso
<1> QED
  BY <1>7, OneMore

\* The layers of the stack.
Writes == {<<>>, <<Do("write")>>}

Trains == {<<>>} \cup {<<f>> : f \in {g \in Frame : g.do = "data"}}

Finishes(r) == {<<DoFor("finish", r)>>, <<Do("callback"), DoFor("finish", r)>>}

Bottoms == {<<>>, <<Do("destroyed")>>} \cup UNION {Finishes(r) : r \in Reqs}

StackIs(w, d, b) == agenda = w \o (d \o b)

\* A burst has its command, and a callback the PDU that will be unlinked
\* after it.
Backed(d, b) ==
  /\ \A f : d = <<f>> => HasCommand(f.req)
  /\ \A r \in Reqs : b \in Finishes(r) => r \in Owners(waitpdu)

BackedStack == \E w \in Writes, d \in Trains, b \in Bottoms : StackIs(w, d, b) /\ Backed(d, b)

BackedInv == LineInv /\ KindInv /\ ~broken /\ BackedStack

\* The layers are lists of frames; an empty layer is not there.
LEMMA Layers ==
  ASSUME NEW w \in Writes, NEW d \in Trains, NEW b \in Bottoms
  PROVE  /\ w \in Seq(Frame) /\ d \in Seq(Frame) /\ b \in Seq(Frame) /\ d \o b \in Seq(Frame)
         /\ <<>> \o b = b /\ <<>> \o (d \o b) = d \o b /\ b \o <<>> = b /\ d \o <<>> = d
<1>0. /\ Do("write") \in Frame /\ Do("destroyed") \in Frame /\ Do("callback") \in Frame
      /\ \A r \in Reqs : DoFor("finish", r) \in Frame
  BY FrameType DEF Steps
<1>a. <<>> \in Seq(Frame) /\ \A x, y \in Frame : <<x>> \in Seq(Frame) /\ <<x, y>> \in Seq(Frame)
  OBVIOUS
<1>1. w \in Seq(Frame) /\ d \in Seq(Frame)
  <2>1. w \in Seq(Frame)
    BY <1>0, <1>a DEF Writes
  <2>2. d = <<>> \/ \E f \in Frame : d = <<f>>
    BY DEF Trains
  <2> QED
    BY <1>a, <2>1, <2>2
<1>2. b \in Seq(Frame)
  <2>2. CASE b \in {<<>>, <<Do("destroyed")>>}
    BY <1>0, <1>a, <2>2
  <2>3. ASSUME NEW r \in Reqs, b \in Finishes(r) PROVE b \in Seq(Frame)
    BY <1>0, <1>a, <2>3 DEF Finishes
  <2> QED
    BY <2>2, <2>3 DEF Bottoms
<1>3. d \o b \in Seq(Frame)
  BY <1>1, <1>2, ConcatProperties
<1> QED
  BY <1>1, <1>2, <1>3, ConcatEmptySeq

\* A frame in front of a stack.
LEMMA Pushed ==
  ASSUME NEW f \in Frame, NEW t \in Seq(Frame)
  PROVE  <<f>> \o t # <<>> /\ Head(<<f>> \o t) = f /\ Tail(<<f>> \o t) = t
<1> DEFINE c == <<f>> \o t
<1>1. <<f>> \in Seq(Frame) /\ Len(<<f>>) = 1 /\ <<f>>[1] = f /\ Len(t) \in Nat
  BY LenProperties
<1> DEFINE g == <<f>>
<1> HIDE DEF g
<1>2. g \in Seq(Frame) /\ Len(g) = 1 /\ g[1] = f /\ c = g \o t
  BY <1>1 DEF g
<1> HIDE DEF c
<1>3. /\ c \in Seq(Frame) /\ Len(c) = Len(g) + Len(t)
      /\ \A i \in 1 .. Len(g) + Len(t) : c[i] = IF i <= Len(g) THEN g[i] ELSE t[i - Len(g)]
  BY <1>2, ConcatProperties
<1>4. /\ Len(c) = 1 + Len(t) /\ c[1] = f
      /\ \A i \in 1 .. Len(t) : c[i + 1] = t[i]
  BY <1>1, <1>2, <1>3
<1>5. c # <<>>
  BY <1>1, <1>4, EmptySeq
<1>6. /\ Head(c) = c[1] /\ Tail(c) \in Seq(Frame) /\ Len(Tail(c)) = Len(c) - 1
      /\ \A i \in 1 .. Len(Tail(c)) : Tail(c)[i] = c[i + 1]
  BY <1>3, <1>5, HeadTailProperties
<1> DEFINE u == Tail(c)
<1>7. u \in Seq(Frame) /\ Len(u) = Len(t) /\ \A i \in 1 .. Len(u) : u[i] = t[i]
  BY <1>1, <1>4, <1>6
<1> HIDE DEF u
<1>8. u = t
  BY <1>7, SeqEqual
<1> QED
  BY <1>4, <1>5, <1>6, <1>8 DEF c, g, u

\* The frame at the top says which layers there are.
TopOf(w, d, b) ==
  /\ agenda = <<>> => w = <<>> /\ d = <<>> /\ b = <<>>
  /\ Doing("write") => w = <<Do("write")>> /\ Tail(agenda) = d \o b
  /\ Doing("data") => /\ w = <<>> /\ d = <<Head(agenda)>> /\ Tail(agenda) = b
                      /\ Head(agenda) \in Frame
  /\ Doing("callback") =>
       /\ w = <<>> /\ d = <<>> /\ agenda = b
       /\ \E r \in Reqs : b \in Finishes(r) /\ Tail(agenda) = <<DoFor("finish", r)>>
  /\ Doing("finish") =>
       /\ w = <<>> /\ d = <<>> /\ agenda = b
       /\ \E r \in Reqs : b \in Finishes(r) /\ Head(agenda).req = r /\ Tail(agenda) = <<>>
  /\ Doing("destroyed") => agenda = <<Do("destroyed")>>
  /\ \A step \in {"scan_out", "scan_wait", "finish_reject", "fail", "hang", "undefined"} : ~Doing(step)

LEMMA StackTop ==
  ASSUME NEW w \in Writes, NEW d \in Trains, NEW b \in Bottoms, StackIs(w, d, b)
  PROVE  TopOf(w, d, b)
<1>0. /\ d \o b \in Seq(Frame) /\ b \in Seq(Frame) /\ Do("write") \in Frame
      /\ <<>> \o b = b /\ <<>> \o (d \o b) = d \o b
  BY Layers, FrameType DEF Steps
<1>1. CASE w = <<Do("write")>>
  <2>1. agenda # <<>> /\ Head(agenda) = Do("write") /\ Tail(agenda) = d \o b
    BY <1>0, <1>1, Pushed DEF StackIs
  <2>2. \A step \in Steps : Doing(step) <=> step = "write"
    BY <2>1 DEF Doing, Do
  <2> QED
    BY <1>1, <2>1, <2>2 DEF Steps, TopOf
<1>2. CASE w = <<>> /\ d # <<>>
  <2>1. PICK f \in Frame : d = <<f>> /\ f.do = "data"
    BY <1>2 DEF Trains
  <2>2. agenda # <<>> /\ Head(agenda) = f /\ Tail(agenda) = b
    BY <1>0, <1>2, <2>1, Pushed DEF StackIs
  <2>3. \A step \in Steps : Doing(step) <=> step = "data"
    BY <2>1, <2>2 DEF Doing
  <2> QED
    BY <1>2, <2>1, <2>2, <2>3 DEF Steps, TopOf
<1>3. CASE w = <<>> /\ d = <<>>
  <2>1. agenda = b
    BY <1>0, <1>3 DEF StackIs
  <2>2. CASE b = <<>>
    BY <1>3, <2>1, <2>2 DEF Doing, TopOf
  <2>3. CASE b = <<Do("destroyed")>>
    <3>1. agenda # <<>> /\ Head(agenda).do = "destroyed"
      BY <2>1, <2>3, Tuples DEF Do
    <3>2. \A step \in Steps : Doing(step) <=> step = "destroyed"
      BY <3>1 DEF Doing
    <3> QED
      BY <2>1, <2>3, <3>1, <3>2 DEF Steps, TopOf
  <2>4. ASSUME NEW r \in Reqs, b = <<DoFor("finish", r)>> PROVE TopOf(w, d, b)
    <3>1. agenda # <<>> /\ Head(agenda) = DoFor("finish", r) /\ Tail(agenda) = <<>>
      BY <2>1, <2>4, Tuples
    <3>2. \A step \in Steps : Doing(step) <=> step = "finish"
      BY <3>1 DEF Doing, DoFor
    <3>3. b \in Finishes(r) /\ Head(agenda).req = r
      BY <2>4, <3>1 DEF Finishes, DoFor
    <3> QED
      BY <1>3, <2>1, <3>1, <3>2, <3>3 DEF Steps, TopOf
  <2>5. ASSUME NEW r \in Reqs, b = <<Do("callback"), DoFor("finish", r)>> PROVE TopOf(w, d, b)
    <3>1. agenda # <<>> /\ Head(agenda) = Do("callback") /\ Tail(agenda) = <<DoFor("finish", r)>>
      BY <2>1, <2>5, Tuples
    <3>2. \A step \in Steps : Doing(step) <=> step = "callback"
      BY <3>1 DEF Doing, Do
    <3>3. b \in Finishes(r)
      BY <2>5 DEF Finishes
    <3> QED
      BY <1>3, <2>1, <3>1, <3>2, <3>3 DEF Steps, TopOf
  <2> QED
    BY <2>2, <2>3, <2>4, <2>5 DEF Bottoms, Finishes
<1> QED
  BY <1>1, <1>2, <1>3 DEF Writes

\* The new stack, layer by layer.
LEMMA BackedNow ==
  ASSUME NEW w \in Writes, NEW d \in Trains, NEW b \in Bottoms, agenda' = w \o (d \o b),
         \A f : d = <<f>> => HasCommand(f.req)',
         \A r \in Reqs : b \in Finishes(r) => r \in Owners(waitpdu')
  PROVE  BackedStack'
<1>1. Backed(d, b)' /\ StackIs(w, d, b)'
  BY DEF Backed, StackIs, Owners
<1> QED
  BY <1>1 DEF BackedStack

LEMMA BottomNow ==
  ASSUME NEW b \in Bottoms, agenda' = b,
         \A r \in Reqs : b \in Finishes(r) => r \in Owners(waitpdu')
  PROVE  BackedStack'
<1>1. <<>> \in Writes /\ <<>> \in Trains
  BY DEF Writes, Trains
<1>2. agenda' = <<>> \o (<<>> \o b)
  BY <1>1, Layers
<1>3. \A f : <<>> # <<f>>
  BY Tuples
<1> QED
  BY <1>1, <1>2, <1>3, BackedNow

LEMMA EmptyNow ==
  ASSUME agenda' \in {<<>>, <<Do("write")>>, <<Do("destroyed")>>}
  PROVE  BackedStack'
<1>1. \A r \in Reqs : <<>> \notin Finishes(r) /\ <<Do("destroyed")>> \notin Finishes(r)
  <2>1. \A r \in Reqs : \A t \in Finishes(r) : t # <<>> /\ Head(t).do \in {"finish", "callback"}
    BY Tuples DEF Finishes, Do, DoFor
  <2>2. Head(<<Do("destroyed")>>).do = "destroyed"
    BY Tuples DEF Do
  <2> QED
    BY <2>1, <2>2
<1>2. <<>> \in Bottoms /\ <<Do("destroyed")>> \in Bottoms /\ <<>> \in Trains /\ <<Do("write")>> \in Writes
  BY DEF Bottoms, Trains, Writes
<1>3. CASE agenda' \in {<<>>, <<Do("destroyed")>>}
  BY <1>1, <1>2, <1>3, BottomNow
<1>4. CASE agenda' = <<Do("write")>>
  <2>1. agenda' = <<Do("write")>> \o (<<>> \o <<>>)
    BY <1>4, Tuples
  <2>2. \A f : <<>> # <<f>>
    BY Tuples
  <2> QED
    BY <1>1, <1>2, <2>1, <2>2, BackedNow
<1> QED
  BY <1>3, <1>4

\* Queueing puts at most a write on top.
LEMMA PushedLayers ==
  ASSUME Timeouts = FALSE, NEW q, NEW p, NEW callers, AddToOutqueue(q, p, callers)
  PROVE  \E w \in Writes : agenda' = w \o callers
<1>1. ServicePollout = <<Do("write")>>
  BY ShallowService, Zenon
<1> QED
  BY <1>1 DEF AddToOutqueue, Writes

\* The command PDU of r is not lost when PDUs are added or moved.
LEMMA CommandKept ==
  ASSUME NEW r, HasCommand(r),
         ToSet(outqueue) \cup ToSet(waitpdu) \subseteq ToSet(outqueue') \cup ToSet(waitpdu')
  PROVE  HasCommand(r)'
BY DEF HasCommand

\* The trains of DATA-OUTs that are sent.
LEMMA SendDataTrain ==
  ASSUME NEW r \in Reqs, NEW dsn \in Nat, NEW n \in Nat
  PROVE  /\ SendData(r, dsn, n) \in Trains
         /\ \A f : SendData(r, dsn, n) = <<f>> =>
              n # 0 /\ f.req = r /\ f.datasn = dsn /\ f.left = n
         /\ n = 0 => SendData(r, dsn, n) = <<>>
<1> DEFINE g == [do |-> "data", req |-> r, datasn |-> dsn, left |-> n]
<1>1. CASE n = 0
  BY <1>1, Tuples DEF SendData, Trains
<1>2. CASE n # 0
  <2>1. SendData(r, dsn, n) = <<g>>
    BY <1>2 DEF SendData
  <2>2. g \in Frame /\ g.do = "data"
    BY <1>2 DEF Frame, Steps
  <2> HIDE DEF g
  <2>3. \A f : <<g>> = <<f>> => f = g
    BY Tuples
  <2>4. <<g>> \in Trains
    BY <2>2 DEF Trains
  <2> QED
    BY <1>2, <2>1, <2>3, <2>4 DEF g
<1> QED
  BY <1>1, <1>2

\* The calls of the application.
LEMMA BackedCalls ==
  ASSUME BackedInv, Timeouts = FALSE, Calls \cap {"cancel_task", "lun_reset"} = {},
         CallbackCalls \cap {"cancel_all", "reset"} = {},
         (\E r \in Reqs : AppCall(r)) \/ CancelAllTasks
  PROVE  BackedStack'
<1>0. /\ outqueue \in Seq(Pdu) /\ cmdsn \in Serial
      /\ \E w \in Writes, d \in Trains, b \in Bottoms : StackIs(w, d, b) /\ Backed(d, b)
  BY DEF BackedInv, KindInv, TypeOK, BackedStack
<1>1. PICK w \in Writes, d \in Trains, b \in Bottoms : StackIs(w, d, b) /\ Backed(d, b)
  BY <1>0
<1>2. TopOf(w, d, b)
  BY <1>1, StackTop
<1>3. ASSUME NEW c, MayCall(c)
      PROVE  agenda = b /\ (agenda = <<>> \/ c \in CallbackCalls)
  BY <1>2, <1>3 DEF MayCall, TopOf
<1>4. ASSUME NEW c, MayCall(c), c \in {"cancel_all", "reset"} PROVE agenda = <<>>
  BY <1>3, <1>4
<1>5. <<>> \in Trains /\ <<>> \o b = b /\ \A f : <<>> # <<f>>
  BY Tuples, Layers DEF Trains
<1>6. ASSUME NEW p, agenda = b, UNCHANGED waitpdu, AddToOutqueue(outqueue, p, agenda)
      PROVE  BackedStack'
  <2>1. PICK v \in Writes : agenda' = v \o (<<>> \o b)
    <3>1. AddToOutqueue(outqueue, p, b)
      BY <1>6
    <3>2. \E v \in Writes : agenda' = v \o b
      BY <3>1, PushedLayers
    <3> QED
      BY <1>5, <3>2
  <2>2. \A r \in Reqs : b \in Finishes(r) => r \in Owners(waitpdu')
    BY <1>1, <1>6 DEF Backed
  <2> QED
    BY <1>5, <2>1, <2>2, BackedNow
<1>7. ASSUME NEW r \in Reqs, NEW kind \in ScsiKinds, NEW lun \in Luns, CommandAsync(r, kind, lun)
      PROVE  BackedStack'
  <2>1. PICK n \in (IF kind = "read" THEN {0} ELSE 0 .. MaxUnsolicited) :
          AddToOutqueue(outqueue, NewPdu("SCSI", r, cmdsn, 0), SendData(r, 0, n) \o agenda)
    BY <1>7 DEF CommandAsync
  <2>2. n \in Nat /\ agenda = b /\ UNCHANGED waitpdu
    BY <1>3, <1>7, ConstantsAssumption DEF CommandAsync
  <2>3. PICK t \in Trains : t = SendData(r, 0, n) /\ \A f : t = <<f>> => f.req = r
    BY <2>2, SendDataTrain
  <2>4. PICK v \in Writes : agenda' = v \o (t \o b)
    <3>1. PICK p : p = NewPdu("SCSI", r, cmdsn, 0)
      OBVIOUS
    <3>2. PICK callers : callers = t \o b
      OBVIOUS
    <3>3. AddToOutqueue(outqueue, p, callers)
      BY <2>1, <2>2, <2>3, <3>1, <3>2
    <3>4. \E v \in Writes : agenda' = v \o callers
      BY <3>3, PushedLayers
    <3> QED
      BY <3>2, <3>4
  <2>5. HasCommand(r)'
    <3>1. PICK p \in Pdu : p = NewPdu("SCSI", r, cmdsn, 0) /\ p.op = "SCSI" /\ p.req = r
      BY <1>0, NewPduType DEF Ops
    <3>2. PICK j \in 1 .. (Len(outqueue) + 1), np \in Pdu :
            /\ np.op = p.op /\ np.req = p.req
            /\ outqueue' \in Seq(Pdu) /\ Inserted(outqueue', outqueue, j, np)
      BY <1>0, <2>1, <3>1, AddPlace
    <3>3. np \in ToSet(outqueue')
      BY <1>0, <3>2, InsertedSet
    <3> QED
      BY <3>1, <3>2, <3>3 DEF HasCommand
  <2>6. \A x \in Reqs : b \in Finishes(x) => x \in Owners(waitpdu')
    BY <1>1, <2>2 DEF Backed
  <2> QED
    BY <2>3, <2>4, <2>5, <2>6, BackedNow
<1>8. ASSUME NEW r \in Reqs, AppCall(r) PROVE BackedStack'
  <2>1. CASE NopOutAsync(r) \/ (\E t \in Reqs : AbortTaskAsync(r, t)) \/ LogoutAsync(r)
    <3>1. agenda = b /\ UNCHANGED waitpdu /\ \E p : AddToOutqueue(outqueue, p, agenda)
      BY <1>3, <2>1 DEF NopOutAsync, AbortTaskAsync, LogoutAsync
    <3> QED
      BY <1>6, <3>1
  <2>2. CASE ResetAsync(r)
    <3>1. agenda = <<>> /\ ((\E q, p : AddToOutqueue(q, p, agenda)) \/ agenda' = agenda)
      BY <1>4, <2>2 DEF ResetAsync
    <3>2. agenda' \in {<<>>, <<Do("write")>>}
      BY <3>1, ShallowService
    <3> QED
      BY <3>2, EmptyNow
  <2>3. ~CancelTask(r) /\ ~\E lun \in Luns : LunResetAsync(r, lun)
    BY DEF CancelTask, LunResetAsync, MayCall
  <2> QED
    BY <1>7, <1>8, <2>1, <2>2, <2>3 DEF AppCall
<1>9. CASE CancelAllTasks
  <2>1. agenda' = <<>>
    BY <1>4, <1>9 DEF CancelAllTasks
  <2> QED
    BY <2>1, EmptyNow
<1> QED
  BY <1>8, <1>9

\* The PDUs of the target.
LEMMA BackedReads ==
  ASSUME BackedInv, Timeouts = FALSE, Rejects = FALSE, NEW r \in Reqs, Read(r)
  PROVE  BackedStack'
<1>1. CASE agenda' = <<>>
  BY <1>1, EmptyNow
<1>2. ~Reject(r) /\ ~MalformedReply(r)
  BY DEF Reject, MalformedReply
<1>3. CASE /\ agenda' = CallbackFrame \o <<DoFor("finish", r)>>
           /\ r \in Owners(waitpdu) /\ UNCHANGED waitpdu
  <2>1. agenda' \in Finishes(r)
    BY <1>3, Tuples DEF CallbackFrame, Finishes
  <2>2. PICK b \in Finishes(r) : agenda' = b
    BY <2>1
  <2>3. b \in Bottoms
    BY DEF Bottoms
  <2>4. \A x \in Reqs : b \in Finishes(x) => x = r
    <3>1. ASSUME NEW x \in Reqs, b \in Finishes(x) PROVE x = r
      <4>1. ASSUME NEW y \in Reqs, b \in Finishes(y)
            PROVE  /\ b # <<>>
                   /\ IF Head(b).do = "callback" THEN Head(Tail(b)).req = y ELSE Head(b).req = y
        <5>1. CASE b = <<DoFor("finish", y)>>
          BY <5>1, Tuples DEF DoFor
        <5>2. CASE b = <<Do("callback"), DoFor("finish", y)>>
          <6>1. b # <<>> /\ Head(b) = Do("callback") /\ Tail(b) = <<DoFor("finish", y)>>
            BY <5>2, Tuples
          <6>2. Head(Tail(b)) = DoFor("finish", y)
            BY <6>1, Tuples
          <6> QED
            BY <6>1, <6>2 DEF Do, DoFor
        <5> QED
          BY <4>1, <5>1, <5>2 DEF Finishes
      <4> QED
        BY <3>1, <4>1
    <3> QED
      BY <3>1
  <2> QED
    BY <1>3, <2>2, <2>3, <2>4, BottomNow
<1>4. CASE Reply(r)
  BY <1>1, <1>3, <1>4 DEF Reply, Unsolicited, ServiceFails
<1>5. CASE DataIn(r)
  BY <1>1, <1>5 DEF DataIn, CanRead, Unsolicited, ServiceFails
<1>6. CASE R2T(r)
  <2>1. PICK n \in 1 .. MaxData :
          \/ r \in Owners(waitpdu) /\ agenda' = SendData(r, 0, n) /\ UNCHANGED initiatorVars
          \/ agenda' = <<>>
    BY <1>6 DEF R2T, Unsolicited, ServiceFails
  <2>2. n \in Nat
    BY ConstantsAssumption
  <2>3. CASE r \in Owners(waitpdu) /\ agenda' = SendData(r, 0, n) /\ UNCHANGED initiatorVars
    <3>1. rq[r].kind \in ScsiKinds
      BY <1>6 DEF R2T, ScsiKinds
    <3>2. HasCommand(r)
      BY <2>3, <3>1, WaitingCommand DEF BackedInv
    <3>3. HasCommand(r)'
      BY <2>3, <3>2 DEF HasCommand, initiatorVars
    <3>4. PICK t \in Trains : t = SendData(r, 0, n) /\ \A f : t = <<f>> => f.req = r
      <4>1. SendData(r, 0, n) \in Trains /\ \A f : SendData(r, 0, n) = <<f>> => f.req = r
        BY <2>2, SendDataTrain
      <4> QED
        BY <4>1
    <3>5. <<>> \in Writes /\ <<>> \in Bottoms /\ \A x \in Reqs : <<>> \notin Finishes(x)
      BY Tuples DEF Writes, Bottoms, Finishes
    <3>6. agenda' = <<>> \o (t \o <<>>)
      BY <2>3, <3>4, <3>5, Layers
    <3> QED
      BY <3>3, <3>4, <3>5, <3>6, BackedNow
  <2> QED
    BY <1>1, <2>1, <2>3
<1> QED
  BY <1>2, <1>4, <1>5, <1>6 DEF Read

\* Nothing fails on such a connection.
LEMMA NothingFails ==
  ASSUME IsFiniteSet(Reqs), Cardinality(Reqs) < Half, LineInv, SocketErrors = FALSE, ~broken
  PROVE  ~WriteStale /\ ~WriteError /\ ~ReadError
<1>1. ASSUME WriteStale PROVE FALSE
  <2>1. outqueue # <<>> /\ Head(outqueue).op # "DATA" /\ SerialCompare(Head(outqueue).cmdsn, expcmdsn) < 0
    BY <1>1 DEF WriteStale, CanPop, HeadIsStale
  <2>2. outqueue \in Seq(Pdu)
    BY DEF LineInv, TypeOK
  <2>3. 1 \in DOMAIN outqueue /\ Head(outqueue) = outqueue[1]
    BY <2>1, <2>2, HeadTailProperties, EmptySeq, LenProperties
  <2>4. SerialCompare(outqueue[1].cmdsn, expcmdsn) >= 0
    BY <2>1, <2>3, LineNeverStale DEF NeverStale
  <2>5. SerialCompare(outqueue[1].cmdsn, expcmdsn) \in Int
    BY DEF SerialCompare
  <2> QED
    BY <2>1, <2>3, <2>4, <2>5
<1> QED
  BY <1>1 DEF WriteError, ReadError

\* The library's own steps.
LEMMA BackedSteps ==
  ASSUME BackedInv, TypeOK', IsFiniteSet(Reqs), Cardinality(Reqs) < Half,
         Timeouts = FALSE, SocketErrors = FALSE,
         \/ DestroyContext \/ CallbackReturns \/ SendDataOut \/ FinishPdu \/ FinishReject \/ FailRead
         \/ PollOut \/ Tick \/ Write \/ ScanOutqueue \/ ScanWaitpdu \/ TargetNopIn \/ TargetPing
         \/ ReadError \/ Destroyed
  PROVE  BackedStack'
<1>0. /\ outqueue \in Seq(Pdu) /\ waitpdu \in Seq(Pdu) /\ TypeOK
      /\ \E w \in Writes, d \in Trains, b \in Bottoms : StackIs(w, d, b) /\ Backed(d, b)
  BY DEF BackedInv, KindInv, TypeOK, BackedStack
<1>1. PICK w \in Writes, d \in Trains, b \in Bottoms : StackIs(w, d, b) /\ Backed(d, b)
  BY <1>0
<1>2. TopOf(w, d, b)
  BY <1>1, StackTop
<1>3. CASE agenda' \in {<<>>, <<Do("write")>>, <<Do("destroyed")>>}
  BY <1>3, EmptyNow
<1>4. \A step \in {"scan_out", "scan_wait", "finish_reject", "fail"} : ~Doing(step)
  BY <1>2 DEF TopOf
<1>5. ~ScanOutqueue /\ ~ScanWaitpdu /\ ~FinishReject /\ ~FailRead
  BY <1>4 DEF ScanOutqueue, ScanWaitpdu, FinishReject, FailRead
<1>6. ~WriteStale /\ ~WriteError /\ ~ReadError
  BY NothingFails DEF BackedInv
<1>7. CASE CallbackReturns
  <2>1. PICK r \in Reqs : b \in Finishes(r) /\ Tail(agenda) = <<DoFor("finish", r)>>
    BY <1>2, <1>7 DEF CallbackReturns, TopOf
  <2>2. PICK t \in Finishes(r) : t = <<DoFor("finish", r)>>
    BY DEF Finishes
  <2>3. agenda' = t /\ UNCHANGED waitpdu
    BY <1>7, <2>1, <2>2 DEF CallbackReturns, initiatorVars
  <2>4. \A x \in Reqs : t \in Finishes(x) => x = r
    <3>1. ASSUME NEW x \in Reqs, t \in Finishes(x) PROVE x = r
      <4>1. Tail(t) = <<>> /\ Head(t).req = r /\ Head(t).do = "finish"
        BY <2>2, Tuples DEF DoFor
      <4>2. CASE t = <<DoFor("finish", x)>>
        <5>1. Head(t).req = x
          BY <4>2, Tuples DEF DoFor
        <5> QED
          BY <4>1, <5>1
      <4>3. CASE t = <<Do("callback"), DoFor("finish", x)>>
        <5>1. Tail(t) # <<>>
          BY <4>3, Tuples
        <5> QED
          BY <4>1, <5>1
      <4> QED
        BY <3>1, <4>2, <4>3 DEF Finishes
    <3> QED
      BY <3>1
  <2>5. t \in Bottoms /\ r \in Owners(waitpdu')
    BY <1>1, <2>1, <2>3 DEF Bottoms, Backed
  <2> QED
    BY <2>3, <2>4, <2>5, BottomNow
<1>8. CASE SendDataOut
  <2> DEFINE f == Head(agenda)
  <2>1. d = <<f>> /\ Tail(agenda) = b /\ f \in Frame /\ f.do = "data"
    BY <1>2, <1>8 DEF SendDataOut, TopOf, Doing
  <2>2. HasCommand(f.req) /\ f.req \in Reqs /\ f.datasn \in Nat /\ f.datasn + 1 \in Nat /\ f.left - 1 \in Nat
    BY <1>1, <2>1 DEF Backed, Frame
  <2>3. PICK g \in Pdu : /\ g.op = "SCSI" /\ g.req = f.req
                         /\ AddToOutqueue(outqueue, NewPdu("DATA", f.req, g.cmdsn, f.datasn),
                               SendData(f.req, f.datasn + 1, f.left - 1) \o b)
    <3>1. {p \in ToSet(outqueue) \cup ToSet(waitpdu) \cup leaked : p.op = "SCSI" /\ p.req = f.req} # {}
      BY <2>2 DEF HasCommand
    <3>2. PICK g \in ToSet(outqueue) \cup ToSet(waitpdu) \cup leaked :
             /\ g.op = "SCSI" /\ g.req = f.req
             /\ AddToOutqueue(outqueue, NewPdu("DATA", f.req, g.cmdsn, f.datasn),
                    SendData(f.req, f.datasn + 1, f.left - 1) \o Tail(agenda))
      BY <1>8, <3>1 DEF SendDataOut
    <3>3. g \in Pdu
      BY <1>0, ListType DEF ToSet, TypeOK
    <3> QED
      BY <2>1, <3>2, <3>3
  <2>4. PICK t \in Trains : /\ t = SendData(f.req, f.datasn + 1, f.left - 1)
                            /\ \A x : t = <<x>> => x.req = f.req
    <3>1. /\ SendData(f.req, f.datasn + 1, f.left - 1) \in Trains
          /\ \A x : SendData(f.req, f.datasn + 1, f.left - 1) = <<x>> => x.req = f.req
      BY <2>2, SendDataTrain
    <3> QED
      BY <3>1
  <2>5. PICK r \in Reqs : r = f.req /\ HasCommand(r)
    BY <2>2
  <2>6. PICK p \in Pdu : p = NewPdu("DATA", f.req, g.cmdsn, f.datasn)
    <3>1. g.cmdsn \in Serial
      BY DEF Pdu
    <3> QED
      BY <2>2, <3>1, NewPduType DEF Ops
  <2>7. PICK callers : callers = t \o b
    OBVIOUS
  <2>8. AddToOutqueue(outqueue, p, callers) /\ UNCHANGED waitpdu
    BY <1>8, <2>3, <2>4, <2>6, <2>7 DEF SendDataOut
  <2>9. PICK v \in Writes : agenda' = v \o (t \o b)
    <3>1. \E v \in Writes : agenda' = v \o callers
      BY <2>8, PushedLayers
    <3> QED
      BY <2>7, <3>1
  <2>10. ToSet(outqueue) \subseteq ToSet(outqueue')
    <3>1. PICK j \in 1 .. (Len(outqueue) + 1), np \in Pdu :
            outqueue' \in Seq(Pdu) /\ Inserted(outqueue', outqueue, j, np)
      BY <1>0, <2>8, AddPlace
    <3> QED
      BY <1>0, <3>1, InsertedSet
  <2>11. HasCommand(r)'
    BY <2>5, <2>8, <2>10, CommandKept
  <2>12. \A x : t = <<x>> => HasCommand(x.req)'
    BY <2>4, <2>5, <2>11
  <2>13. \A x \in Reqs : b \in Finishes(x) => x \in Owners(waitpdu')
    BY <1>1, <2>8 DEF Backed
  <2> QED
    BY <2>9, <2>12, <2>13, BackedNow
<1>9. CASE FinishPdu
  <2>1. PICK r \in Reqs : b \in Finishes(r) /\ Head(agenda).req = r /\ Tail(agenda) = <<>>
    BY <1>2, <1>9 DEF FinishPdu, TopOf
  <2>2. r \in Owners(waitpdu)
    BY <1>1, <2>1 DEF Backed
  <2> QED
    BY <1>3, <1>9, <2>1, <2>2 DEF FinishPdu
<1>10. CASE WriteStops \/ WriteBlocks
  <2>1. agenda' = d \o b /\ UNCHANGED <<outqueue, waitpdu>>
    BY <1>2, <1>10 DEF WriteStops, WriteBlocks, TopOf, initiatorVars
  <2>2. <<>> \in Writes /\ agenda' = <<>> \o (d \o b)
    BY <2>1, Layers DEF Writes
  <2>3. \A f : d = <<f>> => HasCommand(f.req)'
    BY <1>1, <2>1 DEF Backed, HasCommand
  <2>4. \A x \in Reqs : b \in Finishes(x) => x \in Owners(waitpdu')
    BY <1>1, <2>1 DEF Backed
  <2> QED
    BY <2>2, <2>3, <2>4, BackedNow
<1>11. CASE WritePop \/ WriteDone
  <2>1. agenda' = w \o (d \o b)
    BY <1>1, <1>11 DEF WritePop, WriteDone, StackIs
  <2>2. /\ ToSet(outqueue) \cup ToSet(waitpdu) \subseteq ToSet(outqueue') \cup ToSet(waitpdu') \cup
             {p \in Pdu : DeleteWhenSent(p)}
        /\ Owners(waitpdu) \subseteq Owners(waitpdu')
    <3>1. CASE WriteDone
      BY <3>1 DEF WriteDone
    <3>2. CASE WritePop
      <4>1. ToSet(waitpdu) \subseteq ToSet(waitpdu')
        BY <1>0, <3>2, PopSet
      <4>2. \A r \in Owners(waitpdu) : \E p \in ToSet(waitpdu) : ~DeleteWhenSent(p) /\ p.req = r
        BY DEF Owners, ToSet
      <4>3. \A p \in ToSet(waitpdu') : ~DeleteWhenSent(p) => p.req \in Owners(waitpdu')
        BY DEF Owners, ToSet
      <4>4. Owners(waitpdu) \subseteq Owners(waitpdu')
        BY <4>1, <4>2, <4>3
      <4> QED
        BY <1>0, <3>2, <4>4, PopSet
    <3> QED
      BY <1>11, <3>1, <3>2
  <2>3. \A r : HasCommand(r) => HasCommand(r)'
    BY <2>2 DEF HasCommand, DeleteWhenSent
  <2>4. \A f : d = <<f>> => HasCommand(f.req)'
    BY <1>1, <2>3 DEF Backed
  <2>5. \A x \in Reqs : b \in Finishes(x) => x \in Owners(waitpdu')
    BY <1>1, <2>2 DEF Backed
  <2> QED
    BY <2>1, <2>4, <2>5, BackedNow
<1>12. CASE DestroyContext \/ PollOut \/ Tick \/ TargetNopIn
  <2>1. ServicePollout = <<Do("write")>> /\ ServiceTick = <<>>
    BY ShallowService, Zenon
  <2> QED
    BY <1>3, <1>12, <2>1 DEF DestroyContext, PollOut, Tick, TargetNopIn, CanRead
<1>13. CASE TargetPing
  BY <1>3, <1>13, ShallowService DEF TargetPing
<1>14. CASE Destroyed
  BY <1>3, <1>2, <1>14 DEF Destroyed, vars, TopOf
<1> QED
  BY <1>5, <1>6, <1>7, <1>8, <1>9, <1>10, <1>11, <1>12, <1>13, <1>14 DEF Write

LEMMA BackedInvInductive ==
  ASSUME IsFiniteSet(Reqs), Cardinality(Reqs) < Half,
         Timeouts = FALSE, SocketErrors = FALSE, Rejects = FALSE,
         Calls \cap {"cancel_task", "lun_reset"} = {}, CallbackCalls \cap {"cancel_all", "reset"} = {}
  PROVE  /\ Init => BackedInv
         /\ BackedInv /\ [Next]_vars => BackedInv'
<1>1. ASSUME Init PROVE BackedInv
  <2>1. LineInv /\ KindInv /\ ~broken
    BY <1>1, LineInvInductive, KindInvInductive DEF Init
  <2>2. agenda = <<>> \o (<<>> \o <<>>)
    BY <1>1, Tuples DEF Init
  <2>3. /\ <<>> \in Writes /\ <<>> \in Trains /\ <<>> \in Bottoms
        /\ \A f : <<>> # <<f>>
        /\ \A r \in Reqs : <<>> \notin Finishes(r)
    BY Tuples DEF Writes, Trains, Bottoms, Finishes
  <2>4. StackIs(<<>>, <<>>, <<>>) /\ Backed(<<>>, <<>>)
    BY <2>2, <2>3 DEF StackIs, Backed
  <2>5. BackedStack
    BY <2>3, <2>4 DEF BackedStack
  <2> QED
    BY <2>1, <2>5 DEF BackedInv
<1>2. ASSUME BackedInv, [Next]_vars PROVE BackedInv'
  <2>1. LineInv' /\ KindInv' /\ TypeOK'
    BY <1>2, LineInvInductive, KindInvInductive DEF BackedInv, KindInv
  <2>2. CASE UNCHANGED vars
    BY <1>2, <2>1, <2>2
    DEF BackedInv, BackedStack, StackIs, Backed, HasCommand, Owners, vars, initiatorVars
  <2>3. ASSUME Next PROVE BackedStack'
    <3>1. CASE (\E r \in Reqs : AppCall(r)) \/ CancelAllTasks
      BY <1>2, <3>1, BackedCalls
    <3>2. CASE \E r \in Reqs : Read(r)
      BY <1>2, <3>2, BackedReads
    <3> QED
      BY <1>2, <2>1, <2>3, <3>1, <3>2, BackedSteps DEF Next
  <2>4. ASSUME Next PROVE ~broken'
    <3>1. ~WriteStale /\ ~WriteError /\ ~ReadError
      BY <1>2, NothingFails DEF BackedInv
    <3>2. UNCHANGED broken
      <4>1. ASSUME NEW r \in Reqs, AppCall(r) PROVE UNCHANGED broken
        BY <4>1 DEF AppCall, CommandAsync, NopOutAsync, AbortTaskAsync, LogoutAsync, CancelTask,
                    ResetAsync, LunResetAsync
      <4>2. ASSUME NEW r \in Reqs, Read(r) PROVE UNCHANGED broken
        BY <4>2 DEF Read, Reply, Reject, MalformedReply, DataIn, R2T, Unsolicited
      <4>3. ASSUME ~(\E r \in Reqs : AppCall(r) \/ Read(r)) PROVE UNCHANGED broken
        BY <2>4, <3>1, <4>3
        DEF Next, CancelAllTasks, DestroyContext, CallbackReturns, SendDataOut, FinishPdu, FinishReject,
            FailRead, PollOut, Tick, Write, WriteStops, WritePop, WriteBlocks, WriteDone, ScanOutqueue,
            ScanWaitpdu, TargetNopIn, TargetPing, Destroyed, Unsolicited, vars
      <4> QED
        BY <4>1, <4>2, <4>3
    <3> QED
      BY <1>2, <3>2 DEF BackedInv
  <2> QED
    BY <1>2, <2>1, <2>2, <2>3, <2>4 DEF BackedInv
<1> QED
  BY <1>1, <1>2

\* On a connection that does not fail no PDU is used after it was freed,
\* however deeply calls nest: bursts of any length, callbacks that queue
\* requests whose service call runs before iscsi_process_pdu unlinks the PDU
\* the callback was for.  Together with NoUseAfterFreeFailing: it takes both
\* a failure, or a cancellation out of a callback, and a nested call.
THEOREM NoUseAfterFreeHealthy ==
  ASSUME IsFiniteSet(Reqs), Cardinality(Reqs) < Half,
         Timeouts = FALSE, SocketErrors = FALSE, Rejects = FALSE,
         Calls \cap {"cancel_task", "lun_reset"} = {}, CallbackCalls \cap {"cancel_all", "reset"} = {}
  PROVE  Spec => []NoUseAfterFree
<1>1. BackedInv => NoUseAfterFree
  BY StackTop DEF BackedInv, BackedStack, TopOf, NoUseAfterFree
<1> QED
  BY <1>1, BackedInvInductive, PTL DEF Spec

-----------------------------------------------------------------------------
(* The DATA-OUTs of a healthy connection.                                   *)

\* The command of r and its DATA-OUTs, in the order the target wants them.
IsTask(p, r) == HasTask(p) /\ p.req = r

Key(p) == IF p.op = "SCSI" THEN 0 ELSE p.datasn + 1

\* The queue has those from lo to c, in this order.
TaskRow(q, r, lo, c) ==
  /\ \A i \in DOMAIN q : IsTask(q[i], r) => Key(q[i]) \in lo .. c
  /\ \A i, j \in DOMAIN q : i < j /\ IsTask(q[i], r) /\ IsTask(q[j], r) => Key(q[i]) < Key(q[j])
  /\ \A n \in lo .. c : \E i \in DOMAIN q : IsTask(q[i], r) /\ Key(q[i]) = n

\* What the target waits for: the DataSNs from a to e - 1.
Owing(s, a, e) == Len(s) = e - a /\ \A k \in 1 .. Len(s) : s[k] = a + k - 1

\* The target takes the first of what it waits for.
LEMMA OwingMoves ==
  ASSUME NEW s \in Seq(Nat), NEW a \in Nat, NEW e \in Nat, Owing(s, a, e)
  PROVE  /\ a <= e
         /\ s = <<>> <=> a = e
         /\ a < e => s # <<>> /\ Head(s) = a /\ Tail(s) \in Seq(Nat) /\ Owing(Tail(s), a + 1, e)
<1>1. Len(s) \in Nat /\ (s = <<>> <=> Len(s) = 0)
  BY LenProperties, EmptySeq
<1>2. a <= e /\ (s = <<>> <=> a = e)
  BY <1>1 DEF Owing
<1>3. ASSUME a < e
      PROVE  s # <<>> /\ Head(s) = a /\ Tail(s) \in Seq(Nat) /\ Owing(Tail(s), a + 1, e)
  <2> DEFINE t == Tail(s)
  <2>1. s # <<>> /\ Len(s) = e - a /\ 1 \in 1 .. Len(s)
    BY <1>1, <1>3 DEF Owing
  <2>2. /\ Head(s) = s[1] /\ t \in Seq(Nat) /\ Len(t) = Len(s) - 1
        /\ \A k \in 1 .. (Len(s) - 1) : t[k] = s[k + 1]
    BY <2>1, HeadTailProperties
  <2> HIDE DEF t
  <2>3. Head(s) = a
    BY <2>1, <2>2 DEF Owing
  <2>4. \A k \in 1 .. Len(t) : t[k] = (a + 1) + k - 1
    <3>1. ASSUME NEW k \in 1 .. Len(t) PROVE t[k] = (a + 1) + k - 1
      <4>1. t[k] = s[k + 1] /\ k + 1 \in 1 .. Len(s)
        BY <1>1, <2>2
      <4>2. s[k + 1] = a + (k + 1) - 1
        BY <4>1 DEF Owing
      <4> QED
        BY <4>1, <4>2
    <3> QED
      BY <3>1
  <2>5. Owing(t, a + 1, e)
    BY <2>1, <2>2, <2>4 DEF Owing
  <2> QED
    BY <2>1, <2>2, <2>3, <2>5 DEF t
<1> QED
  BY <1>2, <1>3

\* The DataSNs of a burst in these terms.
LEMMA DataSNsOwing ==
  ASSUME NEW n \in Nat
  PROVE  DataSNs(n) \in Seq(Nat) /\ Owing(DataSNs(n), 0, n)
<1> DEFINE s == DataSNs(n)
<1>1. s = [k \in 1 .. n |-> k - 1]
  BY DEF DataSNs
<1>2. s \in Seq(Nat) /\ Len(s) = n
  <2>1. \A k \in 1 .. n : k - 1 \in Nat
    OBVIOUS
  <2> QED
    BY <1>1, <2>1
<1>3. \A k \in 1 .. Len(s) : s[k] = 0 + k - 1
  BY <1>1, <1>2
<1> HIDE DEF s
<1>4. Owing(s, 0, n)
  BY <1>2, <1>3 DEF Owing
<1> QED
  BY <1>2, <1>4 DEF s

\* An insertion moves what is behind it by one.
LEMMA InsertMoves ==
  ASSUME NEW q \in Seq(Pdu), NEW i \in 1 .. (Len(q) + 1), NEW t \in Seq(Pdu), NEW p, Inserted(t, q, i, p)
  PROVE  /\ i \in DOMAIN t /\ t[i] = p
         /\ \A k \in DOMAIN t : k = i \/ (k < i /\ k \in DOMAIN q /\ t[k] = q[k])
                                     \/ (i < k /\ k - 1 \in DOMAIN q /\ t[k] = q[k - 1])
         /\ \A j \in DOMAIN q : \/ j < i /\ j \in DOMAIN t /\ t[j] = q[j]
                                \/ i <= j /\ j + 1 \in DOMAIN t /\ t[j + 1] = q[j]
         /\ DOMAIN t \subseteq Nat /\ DOMAIN q \subseteq Nat /\ i \in Nat
<1>1. DOMAIN t = 1 .. (Len(q) + 1) /\ DOMAIN q = 1 .. Len(q) /\ Len(q) \in Nat
  BY LenProperties DEF Inserted
<1>2. \A k \in 1 .. (Len(q) + 1) : t[k] = IF k < i THEN q[k] ELSE IF k = i THEN p ELSE q[k - 1]
  BY DEF Inserted
<1>3. ASSUME NEW k \in DOMAIN t
      PROVE  k = i \/ (k < i /\ k \in DOMAIN q /\ t[k] = q[k])
                   \/ (i < k /\ k - 1 \in DOMAIN q /\ t[k] = q[k - 1])
  BY <1>1, <1>2
<1>4. ASSUME NEW j \in DOMAIN q
      PROVE  \/ j < i /\ j \in DOMAIN t /\ t[j] = q[j]
             \/ i <= j /\ j + 1 \in DOMAIN t /\ t[j + 1] = q[j]
  <2>1. CASE j < i
    BY <1>1, <1>2, <2>1
  <2>2. CASE i <= j
    <3>1. j + 1 \in 1 .. (Len(q) + 1) /\ ~(j + 1 < i) /\ j + 1 # i /\ (j + 1) - 1 = j
      BY <1>1, <2>2
    <3>2. t[j + 1] = q[(j + 1) - 1]
      BY <1>2, <3>1
    <3> QED
      BY <1>1, <2>2, <3>1, <3>2
  <2> QED
    BY <1>1, <2>1, <2>2
<1>5. i \in DOMAIN t /\ t[i] = p /\ DOMAIN t \subseteq Nat /\ DOMAIN q \subseteq Nat /\ i \in Nat
  BY <1>1, <1>2
<1> QED
  BY <1>3, <1>4, <1>5

\* The PDU of somebody else is inserted.
LEMMA OtherRow ==
  ASSUME NEW q \in Seq(Pdu), NEW i \in 1 .. (Len(q) + 1), NEW t \in Seq(Pdu), NEW p, Inserted(t, q, i, p),
         NEW r, ~IsTask(p, r), NEW lo, NEW c, TaskRow(q, r, lo, c)
  PROVE  TaskRow(t, r, lo, c)
<1>1. /\ i \in DOMAIN t /\ t[i] = p
      /\ \A k \in DOMAIN t : k = i \/ (k < i /\ k \in DOMAIN q /\ t[k] = q[k])
                                  \/ (i < k /\ k - 1 \in DOMAIN q /\ t[k] = q[k - 1])
      /\ \A j \in DOMAIN q : \/ j < i /\ j \in DOMAIN t /\ t[j] = q[j]
                             \/ i <= j /\ j + 1 \in DOMAIN t /\ t[j + 1] = q[j]
      /\ DOMAIN t \subseteq Nat /\ DOMAIN q \subseteq Nat /\ i \in Nat
  BY InsertMoves
<1>2. \A k \in DOMAIN t : IsTask(t[k], r) => Key(t[k]) \in lo .. c
  BY <1>1 DEF TaskRow
<1>3. ASSUME NEW a \in DOMAIN t, NEW b \in DOMAIN t, a < b, IsTask(t[a], r), IsTask(t[b], r)
      PROVE  Key(t[a]) < Key(t[b])
  <2>1. a # i /\ b # i /\ a \in Nat /\ b \in Nat
    BY <1>1, <1>3
  <2>2. CASE b < i
    BY <1>1, <1>3, <2>1, <2>2 DEF TaskRow
  <2>3. CASE i < a
    <3>1. a - 1 \in DOMAIN q /\ b - 1 \in DOMAIN q /\ t[a] = q[a - 1] /\ t[b] = q[b - 1] /\ a - 1 < b - 1
      BY <1>1, <1>3, <2>1, <2>3
    <3> QED
      BY <1>3, <3>1 DEF TaskRow
  <2>4. CASE a < i /\ i < b
    <3>1. a \in DOMAIN q /\ b - 1 \in DOMAIN q /\ t[a] = q[a] /\ t[b] = q[b - 1] /\ a < b - 1
      BY <1>1, <1>3, <2>1, <2>4
    <3> QED
      BY <1>3, <3>1 DEF TaskRow
  <2> QED
    BY <1>1, <1>3, <2>1, <2>2, <2>3, <2>4
<1>4. ASSUME NEW n \in lo .. c PROVE \E k \in DOMAIN t : IsTask(t[k], r) /\ Key(t[k]) = n
  <2>1. PICK j \in DOMAIN q : IsTask(q[j], r) /\ Key(q[j]) = n
    BY DEF TaskRow
  <2> QED
    BY <1>1, <2>1
<1> QED
  BY <1>2, <1>3, <1>4 DEF TaskRow

\* The next of r is inserted, behind those of r that are queued.
LEMMA NextRow ==
  ASSUME NEW q \in Seq(Pdu), NEW i \in 1 .. (Len(q) + 1), NEW t \in Seq(Pdu), NEW p, Inserted(t, q, i, p),
         NEW r, IsTask(p, r), NEW lo \in Nat, NEW c \in Int, lo - 1 <= c, Key(p) = c + 1,
         TaskRow(q, r, lo, c), \A j \in DOMAIN q : IsTask(q[j], r) => j < i
  PROVE  TaskRow(t, r, lo, c + 1)
<1>1. /\ i \in DOMAIN t /\ t[i] = p
      /\ \A k \in DOMAIN t : k = i \/ (k < i /\ k \in DOMAIN q /\ t[k] = q[k])
                                  \/ (i < k /\ k - 1 \in DOMAIN q /\ t[k] = q[k - 1])
      /\ \A j \in DOMAIN q : \/ j < i /\ j \in DOMAIN t /\ t[j] = q[j]
                             \/ i <= j /\ j + 1 \in DOMAIN t /\ t[j + 1] = q[j]
      /\ DOMAIN t \subseteq Nat /\ DOMAIN q \subseteq Nat /\ i \in Nat
  BY InsertMoves
<1>2. ASSUME NEW k \in DOMAIN t, IsTask(t[k], r)
      PROVE  k = i \/ (k < i /\ k \in DOMAIN q /\ t[k] = q[k])
  BY <1>1, <1>2
<1>3. \A k \in DOMAIN t : IsTask(t[k], r) => Key(t[k]) \in lo .. c + 1
  <2>1. ASSUME NEW k \in DOMAIN t, IsTask(t[k], r) PROVE Key(t[k]) \in lo .. c + 1
    <3>1. CASE k = i
      BY <1>1, <3>1
    <3>2. CASE k \in DOMAIN q /\ t[k] = q[k]
      <4>1. Key(t[k]) \in lo .. c
        BY <2>1, <3>2 DEF TaskRow
      <4> QED
        BY <4>1
    <3> QED
      BY <1>2, <2>1, <3>1, <3>2
  <2> QED
    BY <2>1
<1>4. ASSUME NEW a \in DOMAIN t, NEW b \in DOMAIN t, a < b, IsTask(t[a], r), IsTask(t[b], r)
      PROVE  Key(t[a]) < Key(t[b])
  <2>1. (a = i \/ (a < i /\ a \in DOMAIN q /\ t[a] = q[a])) /\ (b = i \/ (b < i /\ b \in DOMAIN q /\ t[b] = q[b]))
    BY <1>2, <1>4
  <2>2. a \in Nat /\ b \in Nat /\ i \in Nat
    BY <1>1
  <2>3. a < i /\ a \in DOMAIN q /\ t[a] = q[a]
    BY <1>4, <2>1, <2>2
  <2>4. CASE b = i
    <3>1. Key(t[a]) \in lo .. c
      BY <1>4, <2>3 DEF TaskRow
    <3> QED
      BY <1>1, <2>4, <3>1
  <2>5. CASE b \in DOMAIN q /\ t[b] = q[b]
    BY <1>4, <2>3, <2>5 DEF TaskRow
  <2> QED
    BY <2>1, <2>4, <2>5
<1>5. ASSUME NEW n \in lo .. c + 1 PROVE \E k \in DOMAIN t : IsTask(t[k], r) /\ Key(t[k]) = n
  <2>1. CASE n = c + 1
    BY <1>1, <2>1
  <2>2. CASE n \in lo .. c
    <3>1. PICK j \in DOMAIN q : IsTask(q[j], r) /\ Key(q[j]) = n
      BY <2>2 DEF TaskRow
    <3> QED
      BY <1>1, <3>1
  <2> QED
    BY <2>1, <2>2
<1> QED
  BY <1>3, <1>4, <1>5 DEF TaskRow

\* The head is taken off.
LEMMA HeadRow ==
  ASSUME NEW q \in Seq(Pdu), q # <<>>, NEW r, NEW lo \in Nat, NEW c \in Int, TaskRow(q, r, lo, c)
  PROVE  /\ IsTask(Head(q), r) => Key(Head(q)) = lo /\ lo <= c /\ TaskRow(Tail(q), r, lo + 1, c)
         /\ ~IsTask(Head(q), r) => TaskRow(Tail(q), r, lo, c)
<1> DEFINE h == Head(q)
           t == Tail(q)
<1>1. /\ h = q[1] /\ 1 \in DOMAIN q /\ DOMAIN q \subseteq Nat
      /\ \A k \in DOMAIN t : k + 1 \in DOMAIN q /\ t[k] = q[k + 1] /\ k \in Nat /\ k >= 1
      /\ \A j \in DOMAIN q : j = 1 \/ (j > 1 /\ j - 1 \in DOMAIN t /\ t[j - 1] = q[j])
  <2>1. /\ Head(q) = q[1] /\ Len(q) \in Nat /\ Len(q) > 0
        /\ Tail(q) \in Seq(Pdu) /\ Len(Tail(q)) = Len(q) - 1
        /\ \A k \in 1 .. (Len(q) - 1) : Tail(q)[k] = q[k + 1]
        /\ DOMAIN q = 1 .. Len(q)
    BY HeadTailProperties, EmptySeq, LenProperties
  <2>2. DOMAIN Tail(q) = 1 .. (Len(q) - 1)
    BY <2>1, LenProperties
  <2>3. ASSUME NEW j \in DOMAIN q, j # 1 PROVE j > 1 /\ j - 1 \in DOMAIN t /\ t[j - 1] = q[j]
    <3>1. j - 1 \in 1 .. (Len(q) - 1) /\ (j - 1) + 1 = j
      BY <2>1, <2>3
    <3> QED
      BY <2>1, <2>2, <2>3, <3>1
  <2>4. ASSUME NEW k \in DOMAIN t PROVE k + 1 \in DOMAIN q /\ t[k] = q[k + 1] /\ k \in Nat /\ k >= 1
    BY <2>1, <2>2
  <2> QED
    BY <2>1, <2>3, <2>4
<1> HIDE DEF h, t
<1>2. \A a, b \in DOMAIN t : a < b /\ IsTask(t[a], r) /\ IsTask(t[b], r) => Key(t[a]) < Key(t[b])
  <2>1. ASSUME NEW a \in DOMAIN t, NEW b \in DOMAIN t, a < b, IsTask(t[a], r), IsTask(t[b], r)
        PROVE  Key(t[a]) < Key(t[b])
    <3>1. a + 1 < b + 1 /\ a + 1 \in DOMAIN q /\ b + 1 \in DOMAIN q /\ t[a] = q[a + 1] /\ t[b] = q[b + 1]
      BY <1>1, <2>1
    <3> QED
      BY <2>1, <3>1 DEF TaskRow
  <2> QED
    BY <2>1
<1>3. CASE IsTask(h, r)
  <2>1. Key(h) \in lo .. c
    BY <1>1, <1>3 DEF TaskRow
  <2>2. lo <= c /\ lo \in lo .. c
    BY <2>1
  <2>3. PICK j \in DOMAIN q : IsTask(q[j], r) /\ Key(q[j]) = lo
    BY <2>2 DEF TaskRow
  <2>4. j = 1
    <3>1. CASE j > 1
      <4>1. Key(h) < lo
        BY <1>1, <1>3, <2>3, <3>1 DEF TaskRow
      <4> QED
        BY <2>1, <4>1
    <3> QED
      BY <1>1, <3>1
  <2>5. Key(h) = lo
    BY <1>1, <2>3, <2>4
  <2>6. ASSUME NEW k \in DOMAIN t, IsTask(t[k], r) PROVE Key(t[k]) \in lo + 1 .. c
    <3>1. k + 1 \in DOMAIN q /\ t[k] = q[k + 1] /\ 1 < k + 1
      BY <1>1
    <3>2. Key(q[k + 1]) \in lo .. c /\ Key(q[1]) < Key(q[k + 1])
      BY <1>1, <1>3, <2>6, <3>1 DEF TaskRow
    <3> QED
      BY <1>1, <2>5, <3>1, <3>2
  <2>7. ASSUME NEW n \in lo + 1 .. c PROVE \E k \in DOMAIN t : IsTask(t[k], r) /\ Key(t[k]) = n
    <3>1. n \in lo .. c /\ n # lo
      OBVIOUS
    <3>2. PICK m \in DOMAIN q : IsTask(q[m], r) /\ Key(q[m]) = n
      BY <3>1 DEF TaskRow
    <3>3. m # 1
      BY <1>1, <2>5, <3>1, <3>2
    <3> QED
      BY <1>1, <3>2, <3>3
  <2> QED
    BY <1>2, <1>3, <2>2, <2>5, <2>6, <2>7 DEF TaskRow, h, t
<1>4. CASE ~IsTask(h, r)
  <2>1. \A k \in DOMAIN t : IsTask(t[k], r) => Key(t[k]) \in lo .. c
    BY <1>1 DEF TaskRow
  <2>2. ASSUME NEW n \in lo .. c PROVE \E k \in DOMAIN t : IsTask(t[k], r) /\ Key(t[k]) = n
    <3>1. PICK j \in DOMAIN q : IsTask(q[j], r) /\ Key(q[j]) = n
      BY DEF TaskRow
    <3> QED
      BY <1>1, <1>4, <3>1
  <2> QED
    BY <1>2, <1>4, <2>1, <2>2 DEF TaskRow, h, t
<1> QED
  BY <1>3, <1>4 DEF h

\* The frames of a stack that do one of these steps.
Part(s, D) == {f \in ToSet(s) : f.do \in D}

\* Two stacks, one frame, and the top frame in these terms.
LEMMA PartOf ==
  ASSUME NEW a \in Seq(Frame), NEW b \in Seq(Frame), NEW D
  PROVE  Part(a \o b, D) = Part(a, D) \cup Part(b, D)
BY StackOf DEF Part

\* The empty stack and a stack of one frame.
LEMMA PartOne ==
  ASSUME NEW D
  PROVE  Part(<<>>, D) = {} /\ \A x : Part(<<x>>, D) = IF x.do \in D THEN {x} ELSE {}
<1>1. Part(<<>>, D) = {}
  BY DEF Part, ToSet
<1>2. \A x : ToSet(<<x>>) = {x}
  BY DEF ToSet
<1> QED
  BY <1>1, <1>2 DEF Part

\* The top frame and those below it.
LEMMA PartHead ==
  ASSUME NEW a \in Seq(Frame), a # <<>>, NEW D
  PROVE  Part(a, D) = (IF Head(a).do \in D THEN {Head(a)} ELSE {}) \cup Part(Tail(a), D)
<1>1. ToSet(a) \subseteq {Head(a)} \cup ToSet(Tail(a))
  <2>1. /\ Len(a) \in Nat /\ Head(a) = a[1] /\ Len(Tail(a)) = Len(a) - 1 /\ Tail(a) \in Seq(Frame)
        /\ \A i \in 1 .. (Len(a) - 1) : Tail(a)[i] = a[i + 1]
        /\ DOMAIN a = 1 .. Len(a)
    BY HeadTailProperties, LenProperties
  <2>2. DOMAIN Tail(a) = 1 .. (Len(a) - 1)
    BY <2>1, LenProperties
  <2>3. ASSUME NEW k \in DOMAIN a, k # 1 PROVE a[k] \in ToSet(Tail(a))
    <3>1. k - 1 \in DOMAIN Tail(a) /\ Tail(a)[k - 1] = a[k]
      BY <2>1, <2>2, <2>3
    <3> QED
      BY <3>1 DEF ToSet
  <2>4. \A k \in DOMAIN a : a[k] \in {Head(a)} \cup ToSet(Tail(a))
    BY <2>1, <2>3
  <2> QED
    BY <2>4 DEF ToSet
<1>2. ToSet(a) = {Head(a)} \cup ToSet(Tail(a))
  BY <1>1, StackOf
<1> DEFINE h == Head(a)
           t == Tail(a)
<1>3. ToSet(a) = {h} \cup ToSet(t)
  BY <1>2
<1> HIDE DEF h, t
<1>4. Part(a, D) = (IF h.do \in D THEN {h} ELSE {}) \cup Part(t, D)
  BY <1>3 DEF Part
<1> QED
  BY <1>4 DEF h, t

\* The bursts begun, and the PDUs to unlink.
Loops == Part(agenda, {"data"})

Ends == Part(agenda, Unlinking)

\* A burst is not begun in the frames below.
LEMMA LayerParts ==
  ASSUME NEW w \in Writes, NEW d \in Trains, NEW b \in Bottoms, NEW D
  PROVE  /\ Part(w \o (d \o b), D) = Part(w, D) \cup Part(d, D) \cup Part(b, D)
         /\ Part(b, {"data"}) = {}
         /\ Part(<<>>, D) = {}
<1>1. w \in Seq(Frame) /\ d \in Seq(Frame) /\ b \in Seq(Frame) /\ d \o b \in Seq(Frame)
  BY Layers
<1>2. Part(w \o (d \o b), D) = Part(w, D) \cup Part(d, D) \cup Part(b, D) /\ Part(<<>>, D) = {}
  <2>1. Part(d \o b, D) = Part(d, D) \cup Part(b, D) /\ Part(<<>>, D) = {}
    BY <1>1, PartOf, PartOne
  <2> DEFINE t == d \o b
  <2> HIDE DEF t
  <2>2. t \in Seq(Frame)
    BY <1>1 DEF t
  <2>3. Part(w \o t, D) = Part(w, D) \cup Part(t, D)
    BY <1>1, <2>2, PartOf
  <2> QED
    BY <2>1, <2>3 DEF t
<1>3. Part(b, {"data"}) = {}
  <2>1. CASE b = <<>>
    BY <2>1, PartOne
  <2>2. CASE b # <<>>
    <3>1. \A x, y : ToSet(<<x>>) = {x} /\ ToSet(<<x, y>>) = {x, y}
      BY DEF ToSet
    <3>2. \A f \in ToSet(b) : f.do \in {"destroyed", "callback", "finish"}
      BY <2>2, <3>1 DEF Bottoms, Finishes, Do, DoFor
    <3> QED
      BY <3>2 DEF Part
  <2> QED
    BY <2>1, <2>2
<1> QED
  BY <1>2, <1>3

\* Where a burst can be: nowhere when the application has its turn, a PDU is
\* unlinked or read, and on top when its loop runs.
LEMMA LoopsNow ==
  ASSUME TypeOK, BackedStack
  PROVE  /\ agenda = <<>> \/ Doing("callback") \/ Doing("finish") => Loops = {}
         /\ Doing("data") =>
              /\ Head(agenda) \in Frame /\ Head(agenda).do = "data"
              /\ Loops = {Head(agenda)} /\ Part(Tail(agenda), {"data"}) = {}
              /\ HasCommand(Head(agenda).req)
         /\ Doing("finish") => Tail(agenda) = <<>> /\ Ends = {Head(agenda)} /\ Head(agenda).req \in Reqs
<1>1. PICK w \in Writes, d \in Trains, b \in Bottoms : StackIs(w, d, b) /\ Backed(d, b)
  BY DEF BackedStack
<1>2. TopOf(w, d, b)
  BY <1>1, StackTop
<1>3. /\ Loops = Part(w, {"data"}) \cup Part(d, {"data"})
      /\ Part(b, {"data"}) = {} /\ Part(<<>>, {"data"}) = {}
  BY <1>1, LayerParts DEF Loops, StackIs
<1>4. \A x, D : Part(<<x>>, D) = IF x.do \in D THEN {x} ELSE {}
  BY PartOne
<1>5. agenda = <<>> \/ Doing("callback") \/ Doing("finish") => Loops = {}
  BY <1>2, <1>3 DEF TopOf
<1>6. Doing("data") =>
        /\ Head(agenda) \in Frame /\ Head(agenda).do = "data"
        /\ Loops = {Head(agenda)} /\ Part(Tail(agenda), {"data"}) = {}
  <2> SUFFICES ASSUME Doing("data")
               PROVE  /\ Head(agenda) \in Frame /\ Head(agenda).do = "data"
                      /\ Loops = {Head(agenda)} /\ Part(Tail(agenda), {"data"}) = {}
    OBVIOUS
  <2>1. /\ w = <<>> /\ d = <<Head(agenda)>> /\ Tail(agenda) = b
        /\ Head(agenda) \in Frame /\ Head(agenda).do = "data"
    BY <1>2 DEF TopOf, Doing
  <2>2. Part(d, {"data"}) = {Head(agenda)}
    BY <1>4, <2>1
  <2> QED
    BY <1>3, <2>1, <2>2
<1>7. ASSUME Doing("finish")
      PROVE  Tail(agenda) = <<>> /\ Ends = {Head(agenda)} /\ Head(agenda).req \in Reqs
  <2>1. Tail(agenda) = <<>> /\ Head(agenda).do = "finish" /\ agenda # <<>> /\ agenda \in Seq(Frame)
        /\ Head(agenda).req \in Reqs
    BY <1>2, <1>7 DEF TopOf, Doing, TypeOK
  <2>2. Ends = {Head(agenda)} \cup Part(Tail(agenda), Unlinking)
    BY <2>1, PartHead DEF Ends, Unlinking
  <2> QED
    BY <2>1, <2>2, PartOne
<1>8. Doing("data") => HasCommand(Head(agenda).req)
  BY <1>1, <1>2 DEF TopOf, Backed
<1> QED
  BY <1>5, <1>6, <1>7, <1>8

\* Queueing begins no burst and ends none.
LEMMA AddParts ==
  ASSUME NEW q, NEW p, NEW callers \in Seq(Frame), AddToOutqueue(q, p, callers), Timeouts = FALSE,
         NEW D, "write" \notin D
  PROVE  Part(agenda', D) = Part(callers, D)
<1>1. PICK w \in Writes : agenda' = w \o callers
  BY PushedLayers
<1>2. w \in Seq(Frame) /\ Part(w, D) = {}
  <2>1. Do("write") \in Frame
    BY FrameType DEF Steps
  <2>2. <<>> \in Seq(Frame) /\ <<Do("write")>> \in Seq(Frame) /\ Do("write").do = "write"
    BY <2>1 DEF Do
  <2>3. Part(<<>>, D) = {} /\ Part(<<Do("write")>>, D) = {}
    BY <2>2, PartOne
  <2> QED
    BY <2>2, <2>3 DEF Writes
<1>3. Part(w \o callers, D) = Part(w, D) \cup Part(callers, D)
  BY <1>2, PartOf
<1> QED
  BY <1>1, <1>2, <1>3

\* A return from a frame that begins and ends nothing.
LEMMA ReturnParts ==
  ASSUME agenda \in Seq(Frame), agenda # <<>>, agenda' = Tail(agenda), NEW D, Head(agenda).do \notin D
  PROVE  Part(agenda', D) = Part(agenda, D)
<1>1. Part(agenda, D) = (IF Head(agenda).do \in D THEN {Head(agenda)} ELSE {}) \cup Part(Tail(agenda), D)
  BY PartHead, Zenon
<1>2. Part(agenda', D) = Part(Tail(agenda), D)
  BY DEF Part
<1> QED
  BY <1>1, <1>2

\* The first DATA-OUT of r the target has not seen, when lo is the first that
\* is still in the queue.
Awaited(r, lo) ==
  (IF lo = 0 THEN 0 ELSE lo - 1) - (IF IsTask(current, r) /\ current.op = "DATA" THEN 1 ELSE 0)

\* The queue has the PDUs of r from lo to c; the one being written is the one
\* before; the target waits for those up to e, and the loop has yet to queue
\* the ones behind c.
FlowAt(r, lo, c, e) ==
  /\ lo - 1 <= c /\ c <= e
  /\ TaskRow(outqueue, r, lo, c)
  /\ IsTask(current, r) => lo > 0 /\ Key(current) = lo - 1
  /\ Owing(owed[r], Awaited(r, lo), e)
  /\ \A f \in Loops : f.req = r => f.datasn = c /\ f.left = e - c
  /\ (\A f \in Loops : f.req # r) => c = e

\* A request that is no command has nothing of the kind.
Idle(r) ==
  /\ TaskRow(outqueue, r, 0, -1)
  /\ ~IsTask(current, r) /\ owed[r] = <<>>
  /\ \A f \in Loops : f.req # r
  /\ rq[r].kind = "unused" => results[r] = <<>>

Flow(r) ==
  IF rq[r].kind \in ScsiKinds THEN \E lo, e \in Nat, c \in Int : FlowAt(r, lo, c, e) ELSE Idle(r)

\* What waits for a reply is being written or with the target.
Waits == SingleOwner(waitpdu) /\ Owners(waitpdu) = Writing \cup Sent

\* A request that has had its callback is over.
Over == \A r \in Reqs : results[r] # <<>> => r \notin OnTheWay \cup atTarget /\ owed[r] = <<>>

\* The PDUs of r have one CmdSN, and no PDU of a later one is ahead of them.
Together(r, s) ==
  /\ \A p \in ToSet(outqueue) \cup ToSet(waitpdu) : IsTask(p, r) => p.cmdsn = s
  /\ \A i \in DOMAIN outqueue : IsTask(outqueue[i], r) =>
       \A j \in DOMAIN outqueue : j <= i => Off(outqueue[j].cmdsn) <= Off(s)

Grouped == \A f \in Loops : \E s \in Serial : Together(f.req, s)

Flowing == Waits /\ Over /\ Grouped /\ \A r \in Reqs : Flow(r)

\* The context is destroyed.
Gone == Doing("destroyed") /\ outqueue = <<>> /\ current = NoPdu

\* The inductive invariant.
FlowInv == BackedInv /\ TornInv /\ LostInv /\ (Gone \/ Flowing)

\* The library and its peer as the theorem has them.
Undisturbed ==
  /\ IsFiniteSet(Reqs) /\ Cardinality(Reqs) < Half
  /\ Timeouts = FALSE /\ SocketErrors = FALSE /\ EarlyStatus = FALSE /\ Rejects = FALSE
  /\ Calls \cap {"cancel_task", "cancel_all", "reset", "lun_reset"} = {}

\* The flow of x is not touched.
SameFlow(x) ==
  /\ \A lo, c : TaskRow(outqueue, x, lo, c) => TaskRow(outqueue', x, lo, c)
  /\ UNCHANGED current \/ (~IsTask(current, x) /\ ~IsTask(current', x))
  /\ owed'[x] = owed[x]
  /\ \A f : f.req = x => (f \in Loops <=> f \in Loops')
  /\ rq'[x].kind \in ScsiKinds <=> rq[x].kind \in ScsiKinds
  /\ rq'[x].kind = "unused" => rq[x].kind = "unused" /\ results'[x] = results[x]

\* Whoever is not touched goes on as before.
LEMMA SameFlows ==
  ASSUME NEW x, Flow(x), SameFlow(x)
  PROVE  Flow(x)'
<1>1. /\ TaskRow(outqueue, x, 0, -1)' <=> TaskRow(outqueue', x, 0, -1)
      /\ \A lo, c : TaskRow(outqueue, x, lo, c)' <=> TaskRow(outqueue', x, lo, c)
      /\ IsTask(current, x)' <=> IsTask(current', x)
      /\ Key(current)' = Key(current')
  BY DEF TaskRow, IsTask, Key, HasTask
<1>2. \A lo : Awaited(x, lo)' = Awaited(x, lo)
  BY <1>1 DEF Awaited, SameFlow
<1>3. IsTask(current, x)' => IsTask(current, x) /\ UNCHANGED current
  BY <1>1 DEF SameFlow
<1>4. ASSUME NEW lo \in Nat, NEW e \in Nat, NEW c \in Int, FlowAt(x, lo, c, e)
      PROVE  FlowAt(x, lo, c, e)'
  <2>1. (/\ lo - 1 <= c /\ c <= e
         /\ TaskRow(outqueue, x, lo, c))'
    BY <1>1, <1>4 DEF FlowAt, SameFlow
  <2>2. (IsTask(current, x) => lo > 0 /\ Key(current) = lo - 1)'
    BY <1>1, <1>3, <1>4 DEF FlowAt
  <2>3. Owing(owed[x], Awaited(x, lo), e)'
    BY <1>2, <1>4 DEF FlowAt, SameFlow, Owing
  <2>4. (/\ \A f \in Loops : f.req = x => f.datasn = c /\ f.left = e - c
         /\ (\A f \in Loops : f.req # x) => c = e)'
    BY <1>4 DEF FlowAt, SameFlow
  <2> QED
    BY <2>1, <2>2, <2>3, <2>4 DEF FlowAt
<1>5. ASSUME rq[x].kind \notin ScsiKinds PROVE Idle(x)'
  BY <1>1, <1>3, <1>5 DEF Flow, Idle, SameFlow
<1> QED
  BY <1>4, <1>5 DEF Flow, SameFlow

\* A row with nothing in it.
LEMMA NoRow ==
  ASSUME NEW q, NEW r
  PROVE  TaskRow(q, r, 0, -1) <=> \A i \in DOMAIN q : ~IsTask(q[i], r)
BY DEF TaskRow

\* Taking the head off moves the rest by one.
LEMMA TailMoves ==
  ASSUME NEW q \in Seq(Pdu), q # <<>>
  PROVE  \A k \in DOMAIN Tail(q) : k \in Nat /\ k + 1 \in DOMAIN q /\ Tail(q)[k] = q[k + 1]
<1>1. /\ Len(q) \in Nat /\ Tail(q) \in Seq(Pdu) /\ Len(Tail(q)) = Len(q) - 1
      /\ \A k \in 1 .. (Len(q) - 1) : Tail(q)[k] = q[k + 1]
      /\ DOMAIN q = 1 .. Len(q)
  BY HeadTailProperties, EmptySeq, LenProperties
<1>2. DOMAIN Tail(q) = 1 .. (Len(q) - 1)
  BY <1>1, LenProperties
<1> QED
  BY <1>1, <1>2

\* A list that gets a PDU at its end.
LEMMA AppendOwners ==
  ASSUME NEW w \in Seq(Pdu), NEW p \in Pdu
  PROVE  /\ Owners(Append(w, p)) = Owners(w) \cup OwnerOf(p)
         /\ SingleOwner(w) /\ OwnerOf(p) \cap Owners(w) = {} => SingleOwner(Append(w, p))
<1> DEFINE t == Append(w, p)
           n == Len(w) + 1
<1>1. /\ DOMAIN w = 1 .. Len(w) /\ Len(w) \in Nat
      /\ DOMAIN t = 1 .. (Len(w) + 1) /\ t[Len(w) + 1] = p
      /\ \A i \in DOMAIN w : t[i] = w[i]
  BY AppendProperties, LenProperties
<1> HIDE DEF t
<1>2. n \in DOMAIN t /\ t[n] = p /\ n \notin DOMAIN w /\ DOMAIN t = DOMAIN w \cup {n}
      /\ \A i \in DOMAIN w : t[i] = w[i]
  BY <1>1
<1> HIDE DEF n
<1>3. Owners(t) = Owners(w) \cup OwnerOf(p)
  BY <1>2 DEF Owners, OwnerOf
<1>4. ASSUME SingleOwner(w), OwnerOf(p) \cap Owners(w) = {} PROVE SingleOwner(t)
  <2>1. \A i \in DOMAIN w : ~DeleteWhenSent(w[i]) /\ ~DeleteWhenSent(p) => w[i].req # p.req
    BY <1>4 DEF Owners, OwnerOf
  <2> QED
    BY <1>2, <1>4, <2>1 DEF SingleOwner
<1> QED
  BY <1>3, <1>4 DEF t

\* A request that waits or owns a queued PDU is not touched by who else is.
LEMMA NobodyWriting ==
  ASSUME TypeOK, current = NoPdu
  PROVE  Writing = {} /\ \A r : ~IsTask(current, r)
BY DEF Writing, IsTask, HasTask, NoPdu, NewPdu

\* The head of the queue is taken off to be written.
LEMMA FlowPop ==
  ASSUME TypeOK, TornInv, Flowing, WritePop
  PROVE  Flowing'
<1> DEFINE h == Head(outqueue)
           o == Tail(outqueue)
<1>0. /\ outqueue \in Seq(Pdu) /\ waitpdu \in Seq(Pdu) /\ outqueue # <<>> /\ h \in Pdu
      /\ outqueue' = o /\ current' = h /\ current = NoPdu
      /\ waitpdu' = IF DeleteWhenSent(h) THEN waitpdu ELSE Append(waitpdu, h)
      /\ UNCHANGED <<rq, results, atTarget, owed, agenda>>
  BY ListType DEF TypeOK, WritePop, CanPop, targetVars
<1>1. Writing = {} /\ (\A r : ~IsTask(current, r)) /\ h # NoPdu
  BY <1>0, NobodyWriting DEF Pdu, Ops, NoPdu, NewPdu
<1>2. /\ SingleOwner(outqueue) /\ Owners(o) \subseteq Owners(outqueue) /\ OwnerOf(h) \subseteq Owners(outqueue)
  BY <1>0, TailOwners DEF TornInv
<1>3. Writing' = OwnerOf(h) /\ Sent' = Sent /\ Loops' = Loops
  BY <1>0, <1>1 DEF Writing, Sent, Stack, Loops, OwnerOf, DeleteWhenSent
<1>4. ToSet(outqueue') \cup ToSet(waitpdu') \subseteq ToSet(outqueue) \cup ToSet(waitpdu)
  BY PopSet
<1>5. \A k \in DOMAIN o : k \in Nat /\ k + 1 \in DOMAIN outqueue /\ o[k] = outqueue[k + 1]
  BY <1>0, TailMoves
<1>6. Waits'
  <2>1. OwnerOf(h) \cap Owners(waitpdu) = {} /\ SingleOwner(waitpdu) /\ Owners(waitpdu) = Sent
    BY <1>1, <1>2 DEF Flowing, Waits, TornInv, OnTheWay
  <2>2. PICK t : t = waitpdu'
    OBVIOUS
  <2>3. Owners(t) = Owners(waitpdu) \cup OwnerOf(h) /\ SingleOwner(t)
    <3>1. CASE DeleteWhenSent(h)
      BY <1>0, <2>1, <2>2, <3>1 DEF OwnerOf
    <3>2. CASE ~DeleteWhenSent(h)
      <4>1. t = Append(waitpdu, h)
        BY <1>0, <2>2, <3>2
      <4> HIDE DEF h
      <4> QED
        BY <1>0, <2>1, <4>1, AppendOwners
    <3> QED
      BY <3>1, <3>2
  <2>4. Owners(waitpdu)' = Owners(t) /\ SingleOwner(waitpdu)' = SingleOwner(t)
    BY <2>2 DEF Owners, SingleOwner
  <2> HIDE DEF h
  <2> QED
    BY <1>3, <2>1, <2>3, <2>4 DEF Waits
<1>7. Over'
  <2>1. OnTheWay' \subseteq OnTheWay
    <3>1. Owners(outqueue)' = Owners(o)
      BY <1>0 DEF Owners
    <3> HIDE DEF h, o
    <3> QED
      BY <1>2, <1>3, <3>1 DEF OnTheWay
  <2> QED
    BY <1>0, <2>1 DEF Flowing, Over
<1>8. Grouped'
  <2> SUFFICES ASSUME NEW f \in Loops PROVE \E s \in Serial : Together(f.req, s)'
    BY <1>3 DEF Grouped
  <2>1. PICK s \in Serial : Together(f.req, s)
    BY DEF Flowing, Grouped
  <2>2. \A p \in ToSet(outqueue') \cup ToSet(waitpdu') : IsTask(p, f.req) => p.cmdsn = s
    BY <1>4, <2>1 DEF Together
  <2>3. ASSUME NEW i \in DOMAIN o, IsTask(o[i], f.req), NEW j \in DOMAIN o, j <= i
        PROVE  Off(o[j].cmdsn) <= Off(s)
    <3>1. /\ i + 1 \in DOMAIN outqueue /\ j + 1 \in DOMAIN outqueue /\ j + 1 <= i + 1
          /\ o[i] = outqueue[i + 1] /\ o[j] = outqueue[j + 1]
      <4> HIDE DEF o
      <4> QED
        BY <1>5, <2>3
    <3> HIDE DEF o
    <3> QED
      BY <2>1, <2>3, <3>1 DEF Together
  <2>4. Together(f.req, s)'
    <3> HIDE DEF o, h
    <3> QED
      BY <1>0, <2>2, <2>3 DEF Together, IsTask, HasTask, Off
  <2> QED
    BY <2>4
<1>9. ASSUME NEW r \in Reqs PROVE Flow(r)'
  <2>1. ASSUME NEW lo \in Nat, NEW c \in Int, TaskRow(outqueue, r, lo, c)
        PROVE  /\ IsTask(h, r) => Key(h) = lo /\ lo <= c /\ TaskRow(o, r, lo + 1, c)
               /\ ~IsTask(h, r) => TaskRow(o, r, lo, c)
    BY <1>0, <2>1, HeadRow
  <2>2. \A lo, c : TaskRow(outqueue, r, lo, c)' <=> TaskRow(o, r, lo, c)
    BY <1>0 DEF TaskRow, IsTask, HasTask, Key
  <2>3. \A lo \in Nat : /\ Awaited(r, lo) = IF lo = 0 THEN 0 ELSE lo - 1
                        /\ Awaited(r, lo)' = (IF lo = 0 THEN 0 ELSE lo - 1) - (IF IsTask(h, r) /\ h.op = "DATA" THEN 1 ELSE 0)
    BY <1>0, <1>1 DEF Awaited, IsTask, HasTask
  <2>4. IsTask(current, r)' = IsTask(h, r) /\ Key(current)' = Key(h)
    BY <1>0 DEF IsTask, HasTask, Key
  <2>5. IsTask(h, r) => \/ h.op = "SCSI" /\ Key(h) = 0
                        \/ h.op = "DATA" /\ Key(h) \in Nat /\ Key(h) > 0
    BY <1>0 DEF IsTask, HasTask, Key, Pdu
  <2> HIDE DEF h, o
  <2>6. CASE rq[r].kind \in ScsiKinds
    <3>1. PICK lo \in Nat, e \in Nat, c \in Int : FlowAt(r, lo, c, e)
      BY <2>6 DEF Flowing, Flow
    <3>2. /\ lo - 1 <= c /\ c <= e
          /\ TaskRow(outqueue, r, lo, c)
          /\ Owing(owed[r], Awaited(r, lo), e)
          /\ \A f \in Loops : f.req = r => f.datasn = c /\ f.left = e - c
          /\ (\A f \in Loops : f.req # r) => c = e
      BY <3>1 DEF FlowAt
    <3>3. CASE IsTask(h, r)
      <4>1. lo + 1 \in Nat /\ Key(h) = lo /\ lo <= c /\ TaskRow(o, r, lo + 1, c)
        BY <2>1, <3>2, <3>3
      <4>2. Awaited(r, lo + 1)' = Awaited(r, lo)
        BY <2>3, <2>5, <3>3, <4>1
      <4>3. Owing(owed[r], Awaited(r, lo + 1), e)'
        BY <1>0, <3>2, <4>2 DEF Owing
      <4>4. FlowAt(r, lo + 1, c, e)'
        BY <1>3, <2>2, <2>4, <3>2, <4>1, <4>3 DEF FlowAt
      <4> QED
        BY <1>0, <2>6, <4>1, <4>4 DEF Flow
    <3>4. CASE ~IsTask(h, r)
      <4>1. TaskRow(o, r, lo, c)
        BY <2>1, <3>2, <3>4
      <4>2. Awaited(r, lo)' = Awaited(r, lo)
        BY <2>3, <3>4
      <4>3. Owing(owed[r], Awaited(r, lo), e)'
        BY <1>0, <3>2, <4>2 DEF Owing
      <4>4. FlowAt(r, lo, c, e)'
        BY <1>3, <2>2, <2>4, <3>2, <3>4, <4>1, <4>3 DEF FlowAt
      <4> QED
        BY <1>0, <2>6, <4>4 DEF Flow
    <3> QED
      BY <3>3, <3>4
  <2>7. CASE rq[r].kind \notin ScsiKinds
    <3>1. Idle(r)
      BY <2>7 DEF Flowing, Flow
    <3>2. ~IsTask(h, r) /\ TaskRow(o, r, 0, -1)
      BY <2>1, <3>1 DEF Idle
    <3>3. Idle(r)'
      BY <1>0, <1>3, <2>2, <2>4, <3>1, <3>2 DEF Idle
    <3> QED
      BY <1>0, <2>7, <3>3 DEF Flow
  <2> QED
    BY <2>6, <2>7
<1> QED
  BY <1>6, <1>7, <1>8, <1>9 DEF Flowing

\* The target takes the PDU that was written: a DATA-OUT is the one it waits
\* for.
LEMMA FlowDone ==
  ASSUME TypeOK, TornInv, Flowing, WriteDone
  PROVE  Flowing'
<1>0. /\ current \in Pdu /\ current # NoPdu /\ current' = NoPdu
      /\ UNCHANGED <<outqueue, waitpdu, rq, results, agenda>>
      /\ atTarget' = IF DeleteWhenSent(current) THEN atTarget ELSE atTarget \cup {current.req}
      /\ owed' = IF current.op = "DATA" /\ owed[current.req] # <<>> /\ Head(owed[current.req]) = current.datasn
                 THEN [owed EXCEPT ![current.req] = Tail(@)] ELSE owed
      /\ owed \in [Reqs -> Seq(Nat)]
  BY DEF TypeOK, WriteDone, TargetReceives
<1>1. /\ Writing = OwnerOf(current) /\ Writing' = {} /\ atTarget' = atTarget \cup OwnerOf(current)
      /\ \A r : ~IsTask(current, r)'
  BY <1>0 DEF Writing, OwnerOf, IsTask, HasTask, NoPdu, NewPdu
<1>2. Sent' = Sent \cup OwnerOf(current) /\ Loops' = Loops
  BY <1>0, <1>1 DEF Sent, Stack, Loops
<1>3. Waits'
  BY <1>0, <1>1, <1>2 DEF Flowing, Waits, SingleOwner, Owners
<1>4. Over'
  <2>1. Owners(outqueue)' = Owners(outqueue)
    BY <1>0 DEF Owners
  <2>2. OnTheWay' \cup atTarget' \subseteq OnTheWay \cup atTarget
    BY <1>1, <2>1 DEF OnTheWay
  <2>3. \A r \in Reqs : owed[r] = <<>> => owed'[r] = <<>>
    BY <1>0
  <2> QED
    BY <1>0, <2>2, <2>3 DEF Flowing, Over
<1>5. Grouped'
  BY <1>0, <1>2 DEF Flowing, Grouped, Together, IsTask, HasTask, Off
<1>6. ASSUME NEW r \in Reqs PROVE Flow(r)'
  <2>1. \A lo, c : TaskRow(outqueue, r, lo, c)' <=> TaskRow(outqueue, r, lo, c)
    BY <1>0 DEF TaskRow, IsTask, HasTask, Key
  <2>2. CASE ~(IsTask(current, r) /\ current.op = "DATA")
    <3>1. owed'[r] = owed[r]
      BY <1>0, <2>2 DEF IsTask, HasTask
    <3>2. ASSUME NEW lo \in Nat, NEW e \in Nat, NEW c \in Int, FlowAt(r, lo, c, e) PROVE FlowAt(r, lo, c, e)'
      <4>1. Awaited(r, lo)' = Awaited(r, lo)
        BY <1>1, <2>2 DEF Awaited
      <4>2. Owing(owed[r], Awaited(r, lo), e)'
        BY <3>1, <3>2, <4>1 DEF FlowAt, Owing
      <4> QED
        BY <1>1, <1>2, <2>1, <3>2, <4>2 DEF FlowAt
    <3>3. Idle(r) => Idle(r)'
      BY <1>0, <1>1, <1>2, <2>1, <3>1 DEF Idle
    <3> QED
      BY <1>0, <3>2, <3>3 DEF Flowing, Flow
  <2>3. CASE IsTask(current, r) /\ current.op = "DATA"
    <3>1. rq[r].kind \in ScsiKinds
      BY <2>3 DEF Flowing, Flow, Idle
    <3>2. PICK lo \in Nat, e \in Nat, c \in Int : FlowAt(r, lo, c, e)
      BY <3>1 DEF Flowing, Flow
    <3>3. /\ lo - 1 <= c /\ c <= e
          /\ lo > 0 /\ Key(current) = lo - 1
          /\ Owing(owed[r], Awaited(r, lo), e)
      BY <2>3, <3>2 DEF FlowAt
    <3>4. Key(current) = current.datasn + 1 /\ current.datasn \in Nat /\ current.req = r
      BY <1>0, <2>3 DEF Key, Pdu, IsTask
    <3>5. Awaited(r, lo) = lo - 2 /\ Awaited(r, lo)' = lo - 1
      BY <1>1, <2>3, <3>3 DEF Awaited
    <3> DEFINE a == current.datasn
    <3>6. a \in Nat /\ a = lo - 2 /\ a < e /\ Awaited(r, lo) = a
      BY <3>3, <3>4, <3>5
    <3>12. Owing(owed[r], a, e) /\ owed[r] \in Seq(Nat)
      BY <1>0, <3>3, <3>6, Zenon
    <3> HIDE DEF a
    <3>7. owed[r] # <<>> /\ Head(owed[r]) = a /\ Owing(Tail(owed[r]), a + 1, e)
      BY <3>6, <3>12, OwingMoves
    <3>8. owed'[r] = Tail(owed[r])
      BY <1>0, <2>3, <3>4, <3>7 DEF a
    <3>9. Awaited(r, lo)' = a + 1
      BY <3>5, <3>6
    <3>10. Owing(owed[r], Awaited(r, lo), e)'
      BY <3>7, <3>8, <3>9 DEF Owing
    <3>11. FlowAt(r, lo, c, e)'
      BY <1>1, <1>2, <2>1, <3>2, <3>10 DEF FlowAt
    <3> QED
      BY <1>0, <3>1, <3>11 DEF Flow
  <2> QED
    BY <2>2, <2>3
<1> QED
  BY <1>3, <1>4, <1>5, <1>6 DEF Flowing

\* A step of which only the stack, and perhaps a list of callbacks, knows.
LEMMA FlowStill ==
  ASSUME Flowing, UNCHANGED <<outqueue, current, waitpdu, rq, results, atTarget, owed>>,
         Loops' = Loops, Ends' = Ends
  PROVE  Flowing'
<1>1. Sent' = Sent /\ Writing' = Writing
  BY DEF Sent, Ends, Part, Stack, Writing, OwnerOf, DeleteWhenSent
<1>2. Waits' /\ Over'
  BY <1>1 DEF Flowing, Waits, SingleOwner, Owners, Over, OnTheWay
<1>3. Grouped'
  BY DEF Flowing, Grouped, Together, IsTask, HasTask, Off
<1>4. ASSUME NEW r \in Reqs PROVE Flow(r)'
  <2>1. SameFlow(r)
    BY DEF SameFlow
  <2> QED
    BY <2>1, SameFlows DEF Flowing
<1> QED
  BY <1>2, <1>3, <1>4 DEF Flowing

\* The reply to r: its callback runs, its PDU is about to be unlinked.
LEMMA FlowReply ==
  ASSUME Undisturbed, TypeOK, TornInv, BackedStack, Flowing, NEW r \in Reqs, Reply(r)
  PROVE  Flowing'
<1>0. agenda = <<>> /\ r \in atTarget /\ owed[r] = <<>> /\ atTarget' = atTarget \ {r} /\ UNCHANGED owed
  BY DEF Undisturbed, Reply, CanRead
<1>1. r \in Sent /\ r \in Owners(waitpdu) /\ r \notin OnTheWay /\ rq[r].kind # "unused"
  BY <1>0 DEF Sent, Flowing, Waits, TornInv
<1>2. /\ UNCHANGED <<outqueue, current, waitpdu, rq>> /\ Complete({r}, "GOOD")
      /\ agenda' = CallbackFrame \o <<DoFor("finish", r)>>
  BY <1>1 DEF Reply
<1>3. \A x \in Reqs \ {r} : results'[x] = results[x]
  BY <1>2, CompleteType DEF Statuses
<1>4. Loops = {} /\ Ends = {} /\ Loops' = {} /\ {f.req : f \in Ends}' = {r}
  <2>1. Loops = {} /\ Ends = {}
    BY <1>0, LoopsNow, PartOne DEF Ends
  <2>2. agenda' \in Finishes(r)
    BY <1>2, Tuples DEF CallbackFrame, Finishes
  <2>3. \A x, y : ToSet(<<x>>) = {x} /\ ToSet(<<x, y>>) = {x, y}
    BY DEF ToSet
  <2>4. ToSet(agenda') \in {{DoFor("finish", r)}, {Do("callback"), DoFor("finish", r)}}
    BY <2>2, <2>3 DEF Finishes
  <2>5. Part(agenda', {"data"}) = {} /\ Part(agenda', Unlinking) = {DoFor("finish", r)}
    BY <2>4 DEF Part, Unlinking, Do, DoFor
  <2>6. Loops' = {} /\ Ends' = {DoFor("finish", r)} /\ DoFor("finish", r).req = r
    BY <2>5 DEF Loops, Ends, DoFor
  <2> QED
    BY <2>1, <2>6
<1>5. Sent = atTarget /\ Sent' = Sent /\ Writing' = Writing
  BY <1>0, <1>2, <1>4 DEF Sent, Ends, Part, Stack, Writing, OwnerOf, DeleteWhenSent
<1>6. Waits'
  BY <1>2, <1>5 DEF Flowing, Waits, SingleOwner, Owners
<1>7. Over'
  <2>1. OnTheWay' = OnTheWay
    BY <1>2, <1>5 DEF OnTheWay, Owners
  <2>2. ASSUME NEW x \in Reqs, results'[x] # <<>> PROVE x \notin OnTheWay' \cup atTarget' /\ owed'[x] = <<>>
    <3>1. CASE x = r
      BY <1>0, <1>1, <2>1, <3>1
    <3>2. CASE x # r
      BY <1>0, <1>3, <2>1, <2>2, <3>2 DEF Flowing, Over
    <3> QED
      BY <3>1, <3>2
  <2> QED
    BY <2>2 DEF Over
<1>8. Grouped'
  BY <1>4 DEF Grouped
<1>9. ASSUME NEW x \in Reqs PROVE Flow(x)'
  <2>1. SameFlow(x)
    BY <1>0, <1>1, <1>2, <1>3, <1>4 DEF SameFlow
  <2> QED
    BY <2>1, SameFlows DEF Flowing
<1> QED
  BY <1>6, <1>7, <1>8, <1>9 DEF Flowing

\* The PDU of a request that has had its callback is unlinked.
LEMMA FlowFinish ==
  ASSUME Undisturbed, TornInv, LostInv, BackedStack, Flowing, FinishPdu
  PROVE  Flowing'
<1> DEFINE r == Head(agenda).req
<1>0. TypeOK /\ waitpdu \in Seq(Pdu) /\ Doing("finish")
  BY DEF TornInv, TypeOK, FinishPdu
<1>1. Tail(agenda) = <<>> /\ Ends = {Head(agenda)} /\ r \in Reqs /\ Loops = {}
  BY <1>0, LoopsNow
<1>2. r \in Sent /\ results[r] # <<>>
  <2>1. Head(agenda) \in Stack /\ Head(agenda).do \in Unlinking
    BY <1>1 DEF Ends, Part, Stack
  <2> QED
    BY <2>1 DEF Sent, LostInv, UnlinkedIsDone
<1>3. r \in Owners(waitpdu) /\ r \notin Writing /\ r \notin atTarget
  BY <1>1, <1>2 DEF Flowing, Waits, Over, TornInv, OnTheWay
<1>4. /\ waitpdu' \in Retain(waitpdu, {i \in DOMAIN waitpdu : waitpdu[i].req # r})
      /\ agenda' = <<>>
      /\ UNCHANGED <<outqueue, rq, results, atTarget, owed>>
  <2>1. waitpdu # <<>>
    BY <1>3 DEF Owners
  <2> QED
    BY <1>1, <1>3, <2>1 DEF FinishPdu, targetVars
<1>5. UNCHANGED current
  BY UnlinkTearsNothing
<1> HIDE DEF r
<1>6. Loops' = {} /\ Sent' = atTarget /\ Sent = atTarget \cup {r} /\ Writing' = Writing
  <2>1. Stack' = {}
    BY <1>4 DEF Stack, ToSet
  <2>2. Sent = atTarget \cup {r}
    BY <1>1 DEF Sent, Ends, Part, Stack, r
  <2> QED
    BY <1>4, <1>5, <2>1, <2>2 DEF Loops, Part, Stack, Sent, Writing, OwnerOf, DeleteWhenSent
<1>7. Waits'
  <2>1. PICK t : t = waitpdu'
    OBVIOUS
  <2> DEFINE I == {i \in DOMAIN waitpdu : waitpdu[i].req # r}
  <2>2. /\ Owners(t) = {waitpdu[i].req : i \in {j \in I : ~DeleteWhenSent(waitpdu[j])}}
        /\ SingleOwner(t)
    <3>1. SingleOwner(waitpdu) /\ I \in SUBSET DOMAIN waitpdu /\ t \in Retain(waitpdu, I)
      BY <1>4, <2>1 DEF Flowing, Waits
    <3> HIDE DEF I
    <3> QED
      BY <1>0, <3>1, RetainOwners
  <2>3. Owners(t) = Owners(waitpdu) \ {r}
    BY <2>2 DEF Owners
  <2>4. Owners(waitpdu)' = Owners(t) /\ SingleOwner(waitpdu)' = SingleOwner(t)
    BY <2>1 DEF Owners, SingleOwner
  <2> HIDE DEF I
  <2> QED
    BY <1>3, <1>6, <2>2, <2>3, <2>4 DEF Flowing, Waits
<1>8. Over'
  <2>1. OnTheWay' = OnTheWay
    BY <1>4, <1>6 DEF OnTheWay, Owners
  <2> QED
    BY <1>4, <2>1 DEF Flowing, Over
<1>9. Grouped'
  BY <1>6 DEF Grouped
<1>10. ASSUME NEW x \in Reqs PROVE Flow(x)'
  <2>1. SameFlow(x)
    BY <1>1, <1>4, <1>5, <1>6 DEF SameFlow
  <2> QED
    BY <2>1, SameFlows DEF Flowing
<1> QED
  BY <1>7, <1>8, <1>9, <1>10 DEF Flowing

\* The target asks for another burst: it has all of the one before, so that
\* nothing of r is left in the queue.
LEMMA FlowR2T ==
  ASSUME Undisturbed, TypeOK, TornInv, KindInv, BackedStack, Flowing, NEW r \in Reqs, R2T(r)
  PROVE  Flowing'
<1>0. /\ agenda = <<>> /\ owed[r] = <<>> /\ rq[r].kind \in ScsiKinds /\ UNCHANGED atTarget
      /\ r \in atTarget \/ (current.op = "SCSI" /\ current.req = r)
      /\ owed \in [Reqs -> Seq(Nat)] /\ waitpdu \in Seq(Pdu) /\ outqueue \in Seq(Pdu)
  BY DEF R2T, CanRead, ScsiKinds, TypeOK
<1>1. r \in Writing \cup Sent
  BY <1>0 DEF Writing, Sent, OwnerOf, DeleteWhenSent, NoPdu, NewPdu
<1>2. r \in Owners(waitpdu) /\ r \notin Owners(outqueue)
  BY <1>1 DEF Flowing, Waits, TornInv, OnTheWay
<1>3. PICK n \in 1 .. MaxData :
        owed' = [owed EXCEPT ![r] = DataSNs(n)] /\ agenda' = SendData(r, 0, n) /\ UNCHANGED initiatorVars
  BY <1>2 DEF R2T
<1>4. UNCHANGED <<outqueue, current, waitpdu, rq, results>> /\ n \in Nat /\ n # 0
  BY <1>3, ConstantsAssumption DEF initiatorVars
<1> DEFINE g == [do |-> "data", req |-> r, datasn |-> 0, left |-> n]
<1>5. Loops = {} /\ Ends = {} /\ Loops' = {g} /\ Ends' = {}
  <2>1. agenda' = <<g>> /\ g.do = "data"
    BY <1>3, <1>4 DEF SendData
  <2> HIDE DEF g
  <2>2. Loops' = {g} /\ Ends' = {}
    BY <2>1, PartOne DEF Loops, Ends, Unlinking
  <2>3. Loops = {} /\ Ends = {}
    BY <1>0, PartOne DEF Loops, Ends
  <2> QED
    BY <2>2, <2>3
<1>6. g.req = r /\ g.datasn = 0 /\ g.left = n
  OBVIOUS
<1> HIDE DEF g
<1>7. Sent' = Sent /\ Writing' = Writing
  BY <1>0, <1>4, <1>5 DEF Sent, Ends, Part, Stack, Writing, OwnerOf, DeleteWhenSent
<1>8. Waits'
  BY <1>4, <1>7 DEF Flowing, Waits, SingleOwner, Owners
<1>9. Over'
  <2>1. OnTheWay' = OnTheWay
    BY <1>4, <1>7 DEF OnTheWay, Owners
  <2>2. results[r] = <<>>
    BY <1>0, <1>1, <1>5 DEF Flowing, Over, OnTheWay, Sent, Ends, Part, Stack
  <2>3. \A x \in Reqs \ {r} : owed'[x] = owed[x]
    BY <1>0, <1>3
  <2> QED
    BY <1>0, <1>4, <2>1, <2>2, <2>3 DEF Flowing, Over
\* Nothing of r is queued.
<1>10. PICK lo \in Nat, e \in Nat, c \in Int : FlowAt(r, lo, c, e)
  BY <1>0 DEF Flowing, Flow
<1>11. c = e /\ lo - 1 <= c /\ e = Awaited(r, lo) /\ TaskRow(outqueue, r, lo, c)
  <2>1. c = e /\ lo - 1 <= c /\ Owing(owed[r], Awaited(r, lo), e) /\ TaskRow(outqueue, r, lo, c)
    BY <1>5, <1>10 DEF FlowAt
  <2>2. Awaited(r, lo) \in Int /\ Len(owed[r]) = 0
    BY <1>0 DEF Awaited
  <2> QED
    BY <2>1, <2>2 DEF Owing
<1>12. lo # 0
  <2> SUFFICES ASSUME lo = 0 PROVE FALSE
    OBVIOUS
  <2>1. e = 0 /\ c = 0
    <3>1. Awaited(r, lo) = 0 - (IF IsTask(current, r) /\ current.op = "DATA" THEN 1 ELSE 0)
      BY DEF Awaited
    <3>2. CASE IsTask(current, r) /\ current.op = "DATA"
      BY <1>11, <3>1, <3>2
    <3>3. CASE ~(IsTask(current, r) /\ current.op = "DATA")
      BY <1>11, <3>1, <3>3
    <3> QED
      BY <3>2, <3>3
  <2>2. PICK i \in DOMAIN outqueue : IsTask(outqueue[i], r) /\ Key(outqueue[i]) = 0
    BY <1>11, <2>1 DEF TaskRow
  <2>3. outqueue[i] \in Pdu
    BY ListType
  <2>4. outqueue[i].op = "SCSI" /\ outqueue[i].req = r
    BY <2>2, <2>3 DEF IsTask, HasTask, Key, Pdu
  <2>5. r \in Owners(outqueue)
    BY <2>4 DEF Owners, DeleteWhenSent
  <2> QED
    BY <1>2, <2>5
<1>13. e = lo - 1 /\ ~(IsTask(current, r) /\ current.op = "DATA")
  BY <1>11, <1>12 DEF Awaited
<1>14. \A i \in DOMAIN outqueue : ~IsTask(outqueue[i], r)
  BY <1>11, <1>13 DEF TaskRow
<1>15. Flow(r)'
  <2>1. TaskRow(outqueue, r, 1, 0)'
    BY <1>4, <1>14 DEF TaskRow, IsTask, HasTask
  <2>2. IsTask(current, r)' => Key(current)' = 0
    <3>1. IsTask(current, r)' = IsTask(current, r) /\ Key(current)' = Key(current)
      BY <1>4 DEF IsTask, HasTask, Key
    <3>2. IsTask(current, r) => current.op = "SCSI"
      BY <1>13 DEF IsTask, HasTask
    <3> QED
      BY <3>1, <3>2 DEF Key
  <2>3. Awaited(r, 1)' = 0
    <3>1. ~(IsTask(current, r) /\ current.op = "DATA")'
      BY <1>4, <1>13 DEF IsTask, HasTask
    <3>2. Awaited(r, 1)' = 0 - (IF (IsTask(current, r) /\ current.op = "DATA")' THEN 1 ELSE 0)
      BY DEF Awaited
    <3> QED
      BY <3>1, <3>2
  <2>4. Owing(owed[r], Awaited(r, 1), n)'
    <3>1. owed'[r] = DataSNs(n)
      BY <1>0, <1>3
    <3> QED
      BY <1>4, <2>3, <3>1, DataSNsOwing DEF Owing
  <2>5. FlowAt(r, 1, 0, n)'
    BY <1>4, <1>5, <1>6, <2>1, <2>2, <2>4 DEF FlowAt
  <2> QED
    BY <1>0, <1>4, <2>5 DEF Flow
<1>16. ASSUME NEW x \in Reqs, x # r PROVE Flow(x)'
  <2>1. owed'[x] = owed[x]
    BY <1>0, <1>3, <1>16
  <2>2. SameFlow(x)
    BY <1>4, <1>5, <1>6, <1>16, <2>1 DEF SameFlow
  <2> QED
    BY <2>2, SameFlows DEF Flowing
<1>17. Grouped'
  <2>1. PICK i \in DOMAIN waitpdu : ~DeleteWhenSent(waitpdu[i]) /\ waitpdu[i].req = r
    BY <1>2 DEF Owners
  <2>2. waitpdu[i].cmdsn \in Serial
    BY <2>1, ListType DEF Pdu
  <2>3. \A k \in DOMAIN waitpdu : waitpdu[k].req = r => k = i
    BY <2>1 DEF Flowing, Waits, SingleOwner, TornInv
  <2>4. \A p \in ToSet(outqueue) \cup ToSet(waitpdu) : IsTask(p, r) => p.cmdsn = waitpdu[i].cmdsn
    BY <1>14, <2>3 DEF ToSet, IsTask
  <2>5. Together(r, waitpdu[i].cmdsn)
    BY <1>14, <2>4 DEF Together
  <2>6. PICK s \in Serial : Together(r, s)
    BY <2>2, <2>5
  <2>7. Together(r, s)'
    BY <1>4, <2>6 DEF Together, IsTask, HasTask, Off
  <2> QED
    BY <1>5, <1>6, <2>7 DEF Grouped
<1> QED
  BY <1>8, <1>9, <1>15, <1>16, <1>17 DEF Flowing

\* The CmdSNs in the lists have not wrapped around the number space.
LEMMA SmallOffs ==
  ASSUME IsFiniteSet(Reqs), Cardinality(Reqs) < Half, LineInv
  PROVE  /\ Off(cmdsn) \in Nat /\ Off(cmdsn) < Half
         /\ \A i \in DOMAIN outqueue : /\ outqueue[i].cmdsn \in Serial
                                       /\ Off(outqueue[i].cmdsn) \in Nat
                                       /\ Off(outqueue[i].cmdsn) <= Off(cmdsn)
         /\ \A p \in ToSet(outqueue) \cup ToSet(waitpdu) :
              p.op = "SCSI" => p.cmdsn \in Serial /\ Off(p.cmdsn) \in Nat /\ Off(p.cmdsn) <= Off(cmdsn)
<1>1. PICK lo : LineAt(lo)
  BY DEF LineInv
<1>2. TypeOK /\ lo \in Nat /\ lo <= Off(cmdsn) /\ Off(cmdsn) \in Nat /\ Off(cmdsn) < Half
  BY <1>1, LineFacts DEF LineInv
<1>3. ASSUME NEW i \in DOMAIN outqueue
      PROVE  /\ outqueue[i].cmdsn \in Serial /\ Off(outqueue[i].cmdsn) \in Nat
             /\ Off(outqueue[i].cmdsn) <= Off(cmdsn)
  <2>1. outqueue[i].cmdsn \in Serial
    BY <1>2, ListType, Sorts
  <2> QED
    BY <1>1, <2>1, OffType DEF LineAt, InLine, Pos
<1>4. ASSUME NEW p \in ToSet(waitpdu), p.op = "SCSI"
      PROVE  p.cmdsn \in Serial /\ Off(p.cmdsn) \in Nat /\ Off(p.cmdsn) <= Off(cmdsn)
  <2>1. p \in Pdu
    BY <1>2, ListType DEF ToSet
  <2>2. p.cmdsn \in Serial
    BY <2>1, Sorts
  <2>3. Off(p.cmdsn) \in Nat /\ Off(p.cmdsn) < lo
    BY <1>1, <1>4, <2>2, OffType DEF LineAt, Numbered
  <2> QED
    BY <1>2, <2>2, <2>3
<1> QED
  BY <1>2, <1>3, <1>4 DEF ToSet

\* A PDU is sorted in behind those of its CmdSN, if no later one is ahead of
\* them, and behind no later one.
LEMMA PlaceBehind ==
  ASSUME NEW q \in Seq(Pdu), NEW p \in Pdu, ~Immediate(p), NEW i \in 1 .. (Len(q) + 1),
         InsertionPoint(q, p, i), Off(p.cmdsn) < Half,
         \A k \in DOMAIN q : Off(q[k].cmdsn) < Half
  PROVE  /\ \A j \in DOMAIN q : j < i => Off(q[j].cmdsn) <= Off(p.cmdsn)
         /\ i \in DOMAIN q => Off(p.cmdsn) < Off(q[i].cmdsn)
<1>1. DOMAIN q = 1 .. Len(q) /\ Len(q) \in Nat /\ i \in Nat
  BY LenProperties
<1>2. p.cmdsn \in Serial /\ \A k \in DOMAIN q : q[k].cmdsn \in Serial
  <2>1. \A k \in DOMAIN q : q[k] \in Pdu
    BY <1>1, ElementOfSeq
  <2> QED
    BY <2>1, Sorts
<1>3. Off(p.cmdsn) \in Nat /\ \A k \in DOMAIN q : Off(q[k].cmdsn) \in Nat
  BY <1>2, OffType
<1>4. \A k \in DOMAIN q : GoesBefore(p, q[k]) <=> Off(p.cmdsn) < Off(q[k].cmdsn)
  BY <1>2, OffCompare DEF GoesBefore
<1>5. ASSUME NEW j \in DOMAIN q, j < i PROVE Off(q[j].cmdsn) <= Off(p.cmdsn)
  <2>1. j \in 1 .. (i - 1)
    BY <1>1, <1>5
  <2>2. ~GoesBefore(p, q[j])
    BY <2>1 DEF InsertionPoint
  <2>3. ~(Off(p.cmdsn) < Off(q[j].cmdsn))
    BY <1>4, <2>2
  <2> QED
    BY <1>3, <2>3
<1>6. i \in DOMAIN q => Off(p.cmdsn) < Off(q[i].cmdsn)
  BY <1>1, <1>4 DEF InsertionPoint
<1> QED
  BY <1>5, <1>6

\* The next DATA-OUT of the burst goes in behind those that are queued.
LEMMA FlowData ==
  ASSUME Undisturbed, LineInv, BackedStack, TornInv, Flowing, SendDataOut
  PROVE  Flowing'
<1>0. /\ TypeOK /\ outqueue \in Seq(Pdu) /\ waitpdu \in Seq(Pdu) /\ Doing("data") /\ agenda \in Seq(Frame)
      /\ UNCHANGED <<current, waitpdu, rq, results, atTarget, owed>> /\ Timeouts = FALSE
  BY DEF LineInv, TypeOK, SendDataOut, targetVars, Undisturbed
<1>1a. PICK f \in Frame : f = Head(agenda)
  BY <1>0, LoopsNow
<1>1b. PICK r : r = f.req
  OBVIOUS
<1> DEFINE callers == SendData(r, f.datasn + 1, f.left - 1) \o Tail(agenda)
<1>1. /\ f \in Frame /\ f.do = "data" /\ Loops = {f} /\ Part(Tail(agenda), {"data"}) = {}
      /\ HasCommand(r) /\ Tail(agenda) \in Seq(Frame) /\ agenda # <<>>
  BY <1>0, <1>1a, <1>1b, LoopsNow, ListType DEF Doing
<1>2. /\ r \in Reqs /\ f.req = r /\ f.datasn \in Nat /\ f.left \in Nat /\ f.left > 0 /\ f.datasn + 1 \in Nat
      /\ f.left - 1 \in Nat
  BY <1>1, <1>1b DEF Frame
<1>3. PICK g \in ToSet(outqueue) \cup ToSet(waitpdu) :
        /\ g.op = "SCSI" /\ g.req = r
        /\ AddToOutqueue(outqueue, NewPdu("DATA", r, g.cmdsn, f.datasn), callers)
  <2>1. leaked = {}
    BY DEF LineInv, NothingDropped
  <2>2. {p \in ToSet(outqueue) \cup ToSet(waitpdu) \cup leaked : p.op = "SCSI" /\ p.req = r} # {}
    BY <1>1 DEF HasCommand
  <2> QED
    BY <1>1a, <1>1b, <2>1, <2>2 DEF SendDataOut
<1>4. PICK s \in Serial : Together(r, s)
  BY <1>1, <1>2 DEF Flowing, Grouped
<1>5. g.cmdsn = s
  BY <1>3, <1>4 DEF Together, IsTask, HasTask
<1>6. Off(s) \in Nat /\ Off(s) < Half /\ \A k \in DOMAIN outqueue : Off(outqueue[k].cmdsn) \in Nat /\ Off(outqueue[k].cmdsn) < Half
  <2>1. Off(s) \in Nat /\ Off(s) <= Off(cmdsn) /\ Off(cmdsn) \in Nat /\ Off(cmdsn) < Half
    BY <1>3, <1>5, SmallOffs DEF Undisturbed
  <2>2. \A k \in DOMAIN outqueue : Off(outqueue[k].cmdsn) \in Nat /\ Off(outqueue[k].cmdsn) <= Off(cmdsn)
    BY SmallOffs DEF Undisturbed
  <2>3. Half \in Nat
    BY HalfAssumption
  <2> QED
    BY <2>1, <2>2, <2>3
<1>7. callers \in Seq(Frame) /\ Part(callers, Unlinking) = Part(Tail(agenda), Unlinking)
      /\ Part(callers, {"data"}) = IF f.left - 1 = 0 THEN {}
                                   ELSE {[do |-> "data", req |-> r, datasn |-> f.datasn + 1, left |-> f.left - 1]}
  <2> DEFINE t == SendData(r, f.datasn + 1, f.left - 1)
             g1 == [do |-> "data", req |-> r, datasn |-> f.datasn + 1, left |-> f.left - 1]
  <2>1. t \in Seq(Frame)
    BY <1>2, FrameType
  <2>2. t = IF f.left - 1 = 0 THEN <<>> ELSE <<g1>>
    BY DEF SendData
  <2>3. g1.do = "data"
    OBVIOUS
  <2>4. callers = t \o Tail(agenda)
    OBVIOUS
  <2> HIDE DEF t, g1, callers
  <2>5. /\ Part(t, Unlinking) = {}
        /\ Part(t, {"data"}) = IF f.left - 1 = 0 THEN {} ELSE {g1}
    BY <2>2, <2>3, PartOne DEF Unlinking
  <2>6. \A D : Part(callers, D) = Part(t, D) \cup Part(Tail(agenda), D)
    BY <1>1, <2>1, <2>4, PartOf
  <2>7. callers \in Seq(Frame)
    BY <1>1, <2>1, <2>4, ConcatProperties
  <2> QED
    BY <1>1, <2>5, <2>6, <2>7 DEF g1
<1>8. PICK p \in Pdu : /\ p = NewPdu("DATA", r, s, f.datasn)
                       /\ p.op = "DATA" /\ p.req = r /\ p.cmdsn = s /\ p.datasn = f.datasn
  <2>1. NewPdu("DATA", r, s, f.datasn) \in Pdu
    BY <1>2, NewPduType DEF Ops
  <2> QED
    BY <2>1 DEF NewPdu
<1> HIDE DEF callers
<1>9. AddToOutqueue(outqueue, p, callers) /\ ~Immediate(p) /\ OwnerOf(p) = {} /\ Key(p) = f.datasn + 1
      /\ \A x : IsTask(p, x) <=> x = r
  BY <1>3, <1>5, <1>8 DEF Immediate, OwnerOf, DeleteWhenSent, Key, IsTask, HasTask
<1>10. PICK i \in 1 .. (Len(outqueue) + 1) :
         InsertionPoint(outqueue, p, i) /\ outqueue' \in Seq(Pdu) /\ Inserted(outqueue', outqueue, i, p)
  BY <1>0, <1>9, AddPlace
<1>11. PICK t \in Seq(Pdu) : t = outqueue' /\ Inserted(t, outqueue, i, p)
  BY <1>10
<1>12. /\ \A j \in DOMAIN outqueue : j < i => Off(outqueue[j].cmdsn) <= Off(s)
       /\ i \in DOMAIN outqueue => Off(s) < Off(outqueue[i].cmdsn)
  BY <1>0, <1>6, <1>8, <1>9, <1>10, PlaceBehind
<1>13. /\ i \in DOMAIN t /\ t[i] = p
       /\ \A k \in DOMAIN t : k = i \/ (k < i /\ k \in DOMAIN outqueue /\ t[k] = outqueue[k])
                                   \/ (i < k /\ k - 1 \in DOMAIN outqueue /\ t[k] = outqueue[k - 1])
       /\ DOMAIN t \subseteq Nat /\ DOMAIN outqueue \subseteq Nat /\ i \in Nat
       /\ DOMAIN outqueue = 1 .. Len(outqueue) /\ Len(outqueue) \in Nat
  BY <1>0, <1>11, InsertMoves, LenProperties
<1>14. \A j \in DOMAIN outqueue : IsTask(outqueue[j], r) => j < i
  <2> SUFFICES ASSUME NEW j \in DOMAIN outqueue, IsTask(outqueue[j], r), ~(j < i) PROVE FALSE
    OBVIOUS
  <2>1. i \in DOMAIN outqueue /\ i <= j
    BY <1>13
  <2>2. Off(outqueue[i].cmdsn) <= Off(s)
    BY <1>4, <2>1 DEF Together
  <2> QED
    BY <1>6, <1>12, <2>1, <2>2
\* The parts of the invariant.
<1>15. Loops' = Part(callers, {"data"}) /\ Ends' = Ends
  <2>1. \A D : "write" \notin D => Part(agenda', D) = Part(callers, D)
    BY <1>0, <1>7, <1>9, AddParts
  <2>2. Part(agenda', {"data"}) = Part(callers, {"data"}) /\ Part(agenda', Unlinking) = Part(callers, Unlinking)
    BY <2>1 DEF Unlinking
  <2>3. Part(agenda, Unlinking) = (IF f.do \in Unlinking THEN {f} ELSE {}) \cup Part(Tail(agenda), Unlinking)
    BY <1>0, <1>1, <1>1a, PartHead
  <2>4. Part(agenda, Unlinking) = Part(Tail(agenda), Unlinking)
    BY <1>1, <2>3 DEF Unlinking
  <2> QED
    BY <1>7, <2>2, <2>4 DEF Loops, Ends
<1>16. Sent' = Sent /\ Writing' = Writing
  BY <1>0, <1>15 DEF Sent, Ends, Part, Stack, Writing, OwnerOf, DeleteWhenSent
<1>17. Waits'
  BY <1>0, <1>16 DEF Flowing, Waits, SingleOwner, Owners
<1>18. Over'
  <2>1. Owners(outqueue') = Owners(outqueue)
    BY <1>0, <1>7, <1>9, AddLemma
  <2>2. OnTheWay' = OnTheWay
    BY <1>16, <2>1 DEF OnTheWay, Owners
  <2> QED
    BY <1>0, <2>2 DEF Flowing, Over
<1>19. \A x \in Loops' : x.req = r /\ x.datasn = f.datasn + 1 /\ x.left = f.left - 1
  BY <1>7, <1>15
<1>20. Together(r, s)'
  <2>1. ToSet(outqueue') = ToSet(outqueue) \cup {p}
    BY <1>0, <1>10, InsertedSet
  <2>2. \A x \in ToSet(outqueue') \cup ToSet(waitpdu') : IsTask(x, r) => x.cmdsn = s
    BY <1>0, <1>4, <1>8, <2>1 DEF Together
  <2>3. ASSUME NEW k \in DOMAIN t, IsTask(t[k], r), NEW j \in DOMAIN t, j <= k
        PROVE  Off(t[j].cmdsn) <= Off(s)
    <3>1. k \in Nat /\ j \in Nat /\ i \in Nat
      BY <1>13
    <3>2. k <= i
      <4>1. ~(i < k /\ k - 1 \in DOMAIN outqueue /\ t[k] = outqueue[k - 1])
        BY <1>13, <1>14, <2>3, <3>1
      <4> QED
        BY <1>13, <3>1, <4>1
    <3>3. CASE j = i
      BY <1>6, <1>8, <1>13, <3>3
    <3>4. CASE j < i
      BY <1>12, <1>13, <3>1, <3>4
    <3> QED
      BY <2>3, <3>1, <3>2, <3>3, <3>4
  <2> QED
    BY <1>11, <2>2, <2>3 DEF Together, IsTask, HasTask, Off
<1>21. Grouped'
  BY <1>19, <1>20 DEF Grouped
<1>22. Flow(r)'
  <2>1. rq[r].kind \in ScsiKinds
    BY <1>1, <1>2 DEF Flowing, Flow, Idle
  <2>2. PICK lo \in Nat, e \in Nat, c \in Int : FlowAt(r, lo, c, e)
    BY <1>2, <2>1 DEF Flowing, Flow
  <2>3. /\ lo - 1 <= c /\ c <= e /\ f.datasn = c /\ f.left = e - c
        /\ TaskRow(outqueue, r, lo, c)
        /\ Owing(owed[r], Awaited(r, lo), e)
        /\ (IsTask(current, r) => lo > 0 /\ Key(current) = lo - 1)
    BY <1>1, <1>2, <2>2 DEF FlowAt
  <2>4. TaskRow(t, r, lo, c + 1)
    <3>1. IsTask(p, r) /\ Key(p) = c + 1
      BY <1>9, <2>3
    <3> QED
      BY <1>0, <1>11, <1>14, <2>3, <3>1, NextRow
  <2>5. c + 1 \in Int /\ lo - 1 <= c + 1 /\ c + 1 <= e
    BY <1>2, <2>3
  <2>6. TaskRow(outqueue, r, lo, c + 1)'
    BY <1>11, <2>4 DEF TaskRow, IsTask, HasTask, Key
  <2>7. Owing(owed[r], Awaited(r, lo), e)'
    <3>1. Awaited(r, lo)' = Awaited(r, lo)
      BY <1>0 DEF Awaited, IsTask, HasTask
    <3> QED
      BY <1>0, <2>3, <3>1 DEF Owing
  <2>8. (IsTask(current, r) => lo > 0 /\ Key(current) = lo - 1)'
    BY <1>0, <2>3 DEF IsTask, HasTask, Key
  <2>9. \A x \in Loops' : x.datasn = c + 1 /\ x.left = e - (c + 1)
    BY <1>2, <1>19, <2>3
  <2>10. (\A x \in Loops' : x.req # r) => c + 1 = e
    <3>1. Loops' # {} \/ f.left - 1 = 0
      BY <1>7, <1>15
    <3> QED
      BY <1>2, <1>19, <2>3, <3>1
  <2>11. FlowAt(r, lo, c + 1, e)'
    BY <2>5, <2>6, <2>7, <2>8, <2>9, <2>10 DEF FlowAt
  <2> QED
    BY <1>0, <2>1, <2>5, <2>11 DEF Flow
<1>23. ASSUME NEW x \in Reqs, x # r PROVE Flow(x)'
  <2>1. \A lo, c : TaskRow(outqueue, x, lo, c) => TaskRow(outqueue', x, lo, c)
    BY <1>0, <1>9, <1>10, <1>23, OtherRow
  <2>2. \A y : y.req = x => (y \in Loops <=> y \in Loops')
    BY <1>1, <1>2, <1>19, <1>23
  <2>3. SameFlow(x)
    BY <1>0, <2>1, <2>2 DEF SameFlow
  <2> QED
    BY <2>3, SameFlows DEF Flowing
<1> QED
  BY <1>17, <1>18, <1>21, <1>22, <1>23 DEF Flowing

\* A PDU is queued that is neither a command nor a DATA-OUT.
LEMMA FlowQueued ==
  ASSUME TypeOK, Flowing, Timeouts = FALSE, Loops = {}, NEW p \in Pdu, ~HasTask(p),
         AddToOutqueue(outqueue, p, agenda), UNCHANGED <<current, waitpdu, results, atTarget, owed>>,
         \A x \in OwnerOf(p) : results[x] = <<>>,
         \A x \in Reqs : /\ rq'[x].kind \in ScsiKinds <=> rq[x].kind \in ScsiKinds
                         /\ rq'[x].kind = "unused" => rq[x].kind = "unused"
  PROVE  Flowing'
<1>0. outqueue \in Seq(Pdu) /\ agenda \in Seq(Frame)
  BY DEF TypeOK
<1>1. PICK i \in 1 .. (Len(outqueue) + 1), np \in Pdu :
        np.op = p.op /\ outqueue' \in Seq(Pdu) /\ Inserted(outqueue', outqueue, i, np)
  BY <1>0, AddPlace
<1>2. \A x : ~IsTask(np, x)
  BY <1>1 DEF IsTask, HasTask
<1>3. Loops' = {} /\ Ends' = Ends
  <2>1. \A D : "write" \notin D => Part(agenda', D) = Part(agenda, D)
    BY <1>0, AddParts
  <2>2. Part(agenda', {"data"}) = Part(agenda, {"data"}) /\ Part(agenda', Unlinking) = Part(agenda, Unlinking)
    BY <2>1 DEF Unlinking
  <2> QED
    BY <2>2 DEF Loops, Ends
<1>4. Sent' = Sent /\ Writing' = Writing
  BY <1>3 DEF Sent, Ends, Part, Stack, Writing, OwnerOf, DeleteWhenSent
<1>5. Waits'
  BY <1>4 DEF Flowing, Waits, SingleOwner, Owners
<1>6. Over'
  <2>1. Owners(outqueue') = Owners(outqueue) \cup OwnerOf(p)
    BY <1>0, AddLemma
  <2>2. OnTheWay' = OnTheWay \cup OwnerOf(p)
    BY <1>4, <2>1 DEF OnTheWay, Owners
  <2> QED
    BY <2>2 DEF Flowing, Over
<1>7. Grouped'
  BY <1>3 DEF Grouped
<1>8. ASSUME NEW x \in Reqs PROVE Flow(x)'
  <2>1. \A lo, c : TaskRow(outqueue, x, lo, c) => TaskRow(outqueue', x, lo, c)
    BY <1>0, <1>1, <1>2, OtherRow
  <2>2. SameFlow(x)
    BY <1>3, <2>1 DEF SameFlow
  <2> QED
    BY <2>2, SameFlows DEF Flowing
<1> QED
  BY <1>5, <1>6, <1>7, <1>8 DEF Flowing

\* Nobody is in the middle of a burst when the application calls.
LEMMA CallsBetween ==
  ASSUME TypeOK, BackedStack, NEW c, MayCall(c)
  PROVE  Loops = {}
BY LoopsNow DEF MayCall

\* The other requests of the application.
LEMMA FlowRequest ==
  ASSUME Undisturbed, TypeOK, BackedStack, Flowing, NEW r \in Reqs,
         NopOutAsync(r) \/ (\E t \in Reqs : AbortTaskAsync(r, t)) \/ LogoutAsync(r)
  PROVE  Flowing'
<1>1. PICK op \in {"NOP", "TMF", "LOGOUT"}, kind \in {"nop", "tmf", "logout"} :
        AddToOutqueue(outqueue, NewPdu(op, r, cmdsn, 0), agenda) /\ rq' = [rq EXCEPT ![r].kind = kind]
  BY DEF NopOutAsync, AbortTaskAsync, LogoutAsync
<1>2. /\ rq[r].kind = "unused" /\ UNCHANGED <<current, waitpdu, results, atTarget, owed>>
      /\ \E c : MayCall(c)
  BY DEF NopOutAsync, AbortTaskAsync, LogoutAsync, targetVars
<1>3. Loops = {}
  BY <1>2, CallsBetween
<1>4. PICK p \in Pdu : p = NewPdu(op, r, cmdsn, 0) /\ p.op = op /\ p.req = r
  <2>1. cmdsn \in Serial
    BY DEF TypeOK
  <2> QED
    BY <1>1, <2>1, NewPduType DEF Ops
<1>5. ~HasTask(p) /\ OwnerOf(p) = {r}
  BY <1>4 DEF HasTask, OwnerOf, DeleteWhenSent
<1>6. results[r] = <<>>
  BY <1>2 DEF Flowing, Flow, Idle, ScsiKinds
<1>7. \A x \in Reqs : rq'[x].kind = IF x = r THEN kind ELSE rq[x].kind
  BY <1>1 DEF TypeOK
<1>8. \A x \in Reqs : /\ rq'[x].kind \in ScsiKinds <=> rq[x].kind \in ScsiKinds
                      /\ rq'[x].kind = "unused" => rq[x].kind = "unused"
  BY <1>2, <1>7 DEF ScsiKinds
<1> QED
  BY <1>1, <1>2, <1>3, <1>4, <1>5, <1>6, <1>8, FlowQueued DEF Undisturbed

\* The answer to the target's NOP-In.
LEMMA FlowPing ==
  ASSUME Undisturbed, TypeOK, BackedStack, Flowing, TargetPing
  PROVE  Flowing'
<1>1. /\ agenda = <<>> /\ UNCHANGED <<current, waitpdu, results, atTarget, owed, rq>>
      /\ AddToOutqueue(outqueue, NewPdu("PONG", NoReq, cmdsn, 0), agenda)
  BY DEF TargetPing, CanRead
<1>2. Loops = {}
  BY <1>1, LoopsNow
<1>3. PICK p \in Pdu : p = NewPdu("PONG", NoReq, cmdsn, 0) /\ p.op = "PONG"
  <2>1. cmdsn \in Serial
    BY DEF TypeOK
  <2> QED
    BY <2>1, NewPduType DEF Ops
<1>4. ~HasTask(p) /\ OwnerOf(p) = {}
  BY <1>3 DEF HasTask, OwnerOf, DeleteWhenSent
<1> QED
  BY <1>1, <1>2, <1>3, <1>4, FlowQueued DEF Undisturbed

\* A command is queued; the DATA-OUTs it may send at once will follow.
LEMMA FlowCommand ==
  ASSUME Undisturbed, LineInv, BackedStack, TornInv, Flowing, NEW r \in Reqs,
         NEW kind \in ScsiKinds, NEW lun \in Luns, CommandAsync(r, kind, lun)
  PROVE  Flowing'
<1>0. /\ TypeOK /\ outqueue \in Seq(Pdu) /\ waitpdu \in Seq(Pdu) /\ agenda \in Seq(Frame) /\ cmdsn \in Serial
      /\ owed \in [Reqs -> Seq(Nat)]
      /\ UNCHANGED <<current, waitpdu, results, atTarget>> /\ Timeouts = FALSE /\ MayCall(kind)
      /\ rq[r].kind = "unused" /\ rq' = [rq EXCEPT ![r] = [kind |-> kind, lun |-> lun]]
  BY DEF LineInv, TypeOK, CommandAsync, Undisturbed
<1>1. PICK n \in Nat : /\ owed' = [owed EXCEPT ![r] = DataSNs(n)]
                       /\ AddToOutqueue(outqueue, NewPdu("SCSI", r, cmdsn, 0), SendData(r, 0, n) \o agenda)
  <2>1. PICK n \in (IF kind = "read" THEN {0} ELSE 0 .. MaxUnsolicited) :
          /\ owed' = [owed EXCEPT ![r] = DataSNs(n)]
          /\ AddToOutqueue(outqueue, NewPdu("SCSI", r, cmdsn, 0), SendData(r, 0, n) \o agenda)
    BY DEF CommandAsync
  <2>2. n \in Nat
    BY <2>1, ConstantsAssumption
  <2> QED
    BY <2>1, <2>2
<1>2. Loops = {}
  BY <1>0, CallsBetween
<1>3. /\ TaskRow(outqueue, r, 0, -1) /\ ~IsTask(current, r) /\ results[r] = <<>>
      /\ r \notin OnTheWay \cup Sent
  BY <1>0 DEF Flowing, Flow, Idle, ScsiKinds, TornInv
<1> DEFINE g == [do |-> "data", req |-> r, datasn |-> 0, left |-> n]
           callers == SendData(r, 0, n) \o agenda
<1>4. callers \in Seq(Frame) /\ Part(callers, Unlinking) = Ends
      /\ Part(callers, {"data"}) = IF n = 0 THEN {} ELSE {g}
  <2> DEFINE t == SendData(r, 0, n)
  <2>1. t \in Seq(Frame)
    BY FrameType
  <2>2. t = IF n = 0 THEN <<>> ELSE <<g>>
    BY DEF SendData
  <2>3. g.do = "data"
    OBVIOUS
  <2>4. callers = t \o agenda
    OBVIOUS
  <2> HIDE DEF t, g, callers
  <2>5. /\ Part(t, Unlinking) = {}
        /\ Part(t, {"data"}) = IF n = 0 THEN {} ELSE {g}
    BY <2>2, <2>3, PartOne DEF Unlinking
  <2>6. \A D : Part(callers, D) = Part(t, D) \cup Part(agenda, D)
    BY <1>0, <2>1, <2>4, PartOf
  <2>7. callers \in Seq(Frame)
    BY <1>0, <2>1, <2>4, ConcatProperties
  <2> QED
    BY <1>2, <2>5, <2>6, <2>7 DEF Loops, Ends
<1>5. g.req = r /\ g.datasn = 0 /\ g.left = n
  OBVIOUS
<1>6. PICK s \in Serial : s = cmdsn
  BY <1>0
<1>7. PICK p \in Pdu : p = NewPdu("SCSI", r, s, 0) /\ p.op = "SCSI" /\ p.req = r /\ p.cmdsn = s
  <2>1. NewPdu("SCSI", r, s, 0) \in Pdu
    BY NewPduType DEF Ops
  <2> QED
    BY <2>1 DEF NewPdu
<1>8. AddToOutqueue(outqueue, p, callers) /\ ~Immediate(p) /\ OwnerOf(p) = {r} /\ Key(p) = 0
      /\ \A x : IsTask(p, x) <=> x = r
  BY <1>1, <1>6, <1>7 DEF Immediate, OwnerOf, DeleteWhenSent, Key, IsTask, HasTask
<1> HIDE DEF callers, g
<1>9. PICK i \in 1 .. (Len(outqueue) + 1) : outqueue' \in Seq(Pdu) /\ Inserted(outqueue', outqueue, i, p)
  BY <1>0, <1>8, AddPlace
<1>10. PICK t \in Seq(Pdu) : t = outqueue' /\ Inserted(t, outqueue, i, p)
  BY <1>9
<1>11. \A j \in DOMAIN outqueue : ~IsTask(outqueue[j], r)
  BY <1>3, NoRow
<1>12. Loops' = (IF n = 0 THEN {} ELSE {g}) /\ Ends' = Ends
  <2>1. \A D : "write" \notin D => Part(agenda', D) = Part(callers, D)
    BY <1>0, <1>4, <1>8, AddParts
  <2>2. Part(agenda', {"data"}) = Part(callers, {"data"}) /\ Part(agenda', Unlinking) = Part(callers, Unlinking)
    BY <2>1 DEF Unlinking
  <2> QED
    BY <1>4, <2>2 DEF Loops, Ends
<1>13. Sent' = Sent /\ Writing' = Writing
  BY <1>0, <1>12 DEF Sent, Ends, Part, Stack, Writing, OwnerOf, DeleteWhenSent
<1>14. Waits'
  BY <1>0, <1>13 DEF Flowing, Waits, SingleOwner, Owners
<1>15. \A x \in Reqs \ {r} : owed'[x] = owed[x] /\ rq'[x] = rq[x]
  BY <1>0, <1>1 DEF TypeOK
<1>16. owed'[r] = DataSNs(n) /\ rq'[r].kind = kind
  BY <1>0, <1>1 DEF TypeOK
<1>17. Over'
  <2>1. Owners(outqueue') = Owners(outqueue) \cup {r}
    BY <1>0, <1>4, <1>8, AddLemma
  <2>2. OnTheWay' = OnTheWay \cup {r}
    BY <1>13, <2>1 DEF OnTheWay, Owners
  <2> QED
    BY <1>0, <1>3, <1>15, <2>2 DEF Flowing, Over
<1>18. Together(r, s)'
  <2>1. ToSet(outqueue') = ToSet(outqueue) \cup {p}
    BY <1>0, <1>9, InsertedSet
  <2>2. \A x \in ToSet(outqueue) : ~IsTask(x, r)
    BY <1>11 DEF ToSet
  <2>3. \A x \in ToSet(waitpdu) : ~IsTask(x, r)
    <3> SUFFICES ASSUME NEW k \in DOMAIN waitpdu, IsTask(waitpdu[k], r) PROVE FALSE
      BY DEF ToSet
    <3>1. r \in Owners(waitpdu)
      BY DEF TornInv, Owners, IsTask
    <3> QED
      BY <1>3, <3>1 DEF Flowing, Waits, OnTheWay
  <2>4. \A x \in ToSet(outqueue') \cup ToSet(waitpdu') : IsTask(x, r) => x.cmdsn = s
    BY <1>0, <1>7, <2>1, <2>2, <2>3
  <2>5. /\ i \in DOMAIN t /\ t[i] = p
        /\ \A k \in DOMAIN t : k = i \/ (k < i /\ k \in DOMAIN outqueue /\ t[k] = outqueue[k])
                                     \/ (i < k /\ k - 1 \in DOMAIN outqueue /\ t[k] = outqueue[k - 1])
        /\ DOMAIN t \subseteq Nat /\ i \in Nat
    BY <1>0, <1>10, InsertMoves
  <2>6. Off(s) \in Nat /\ \A k \in DOMAIN outqueue : Off(outqueue[k].cmdsn) <= Off(s)
    BY <1>6, SmallOffs DEF Undisturbed
  <2>7. \A j \in DOMAIN t : Off(t[j].cmdsn) <= Off(s)
    BY <1>7, <2>5, <2>6
  <2> QED
    BY <1>10, <2>4, <2>7 DEF Together, IsTask, HasTask, Off
<1>19. Grouped'
  BY <1>5, <1>12, <1>18 DEF Grouped
<1>20. Flow(r)'
  <2>1. TaskRow(t, r, 0, 0)
    <3>1. -1 \in Int /\ 0 \in Nat /\ 0 - 1 <= -1 /\ Key(p) = -1 + 1 /\ IsTask(p, r) /\ -1 + 1 = 0
      BY <1>8
    <3>2. TaskRow(t, r, 0, -1 + 1)
      BY <1>0, <1>3, <1>10, <1>11, <3>1, NextRow
    <3> QED
      BY <3>1, <3>2
  <2>2. TaskRow(outqueue, r, 0, 0)'
    BY <1>10, <2>1 DEF TaskRow, IsTask, HasTask, Key
  <2>3. ~IsTask(current, r)'
    BY <1>0, <1>3 DEF IsTask, HasTask
  <2>4. Awaited(r, 0)' = 0
    <3>1. Awaited(r, 0)' = 0 - (IF (IsTask(current, r) /\ current.op = "DATA")' THEN 1 ELSE 0)
      BY DEF Awaited
    <3> QED
      BY <2>3, <3>1
  <2>5. Owing(owed[r], Awaited(r, 0), n)'
    BY <1>16, <2>4, DataSNsOwing DEF Owing
  <2>6. FlowAt(r, 0, 0, n)'
    BY <1>5, <1>12, <2>2, <2>3, <2>5 DEF FlowAt
  <2> QED
    BY <1>16, <2>6 DEF Flow
<1>21. ASSUME NEW x \in Reqs, x # r PROVE Flow(x)'
  <2>1. \A lo, c : TaskRow(outqueue, x, lo, c) => TaskRow(outqueue', x, lo, c)
    BY <1>0, <1>8, <1>9, <1>21, OtherRow
  <2>2. SameFlow(x)
    BY <1>0, <1>2, <1>5, <1>12, <1>15, <1>21, <2>1 DEF SameFlow
  <2> QED
    BY <2>2, SameFlows DEF Flowing
<1> QED
  BY <1>14, <1>17, <1>19, <1>20, <1>21 DEF Flowing

\* The steps that queue, write and receive nothing.
LEMMA FlowQuiet ==
  ASSUME Undisturbed, TypeOK, Flowing,
         \/ PollOut \/ Tick \/ WriteStops \/ WriteBlocks \/ CallbackReturns
         \/ TargetNopIn \/ \E r \in Reqs : DataIn(r)
  PROVE  Flowing'
<1>0. agenda \in Seq(Frame) /\ Timeouts = FALSE
  BY DEF TypeOK, Undisturbed
<1>1. ASSUME agenda # <<>>, agenda' = Tail(agenda), Head(agenda).do \in {"write", "callback"}
      PROVE  Loops' = Loops /\ Ends' = Ends
  <2>1. Head(agenda).do \notin {"data"} /\ Head(agenda).do \notin Unlinking
    BY <1>1 DEF Unlinking
  <2>2. Part(agenda', {"data"}) = Part(agenda, {"data"})
    BY <1>0, <1>1, <2>1, ReturnParts
  <2>3. Part(agenda', Unlinking) = Part(agenda, Unlinking)
    BY <1>0, <1>1, <2>1, ReturnParts
  <2> QED
    BY <2>2, <2>3 DEF Loops, Ends
<1>2. ASSUME PollOut \/ Tick PROVE Loops' = Loops /\ Ends' = Ends
  <2>1. agenda = <<>> /\ agenda' \in {<<>>, <<Do("write")>>}
    <3>1. ServicePollout = <<Do("write")>> /\ ServiceTick = <<>>
      BY <1>0, ShallowService DEF ServiceTick
    <3> QED
      BY <1>2, <3>1 DEF PollOut, Tick
  <2>2. Do("write").do = "write"
    BY DEF Do
  <2>3. \A D : "write" \notin D => Part(<<>>, D) = {} /\ Part(<<Do("write")>>, D) = {}
    BY <2>2, PartOne
  <2>4. Part(agenda, {"data"}) = {} /\ Part(agenda', {"data"}) = {}
    BY <2>1, <2>3
  <2>5. Part(agenda, Unlinking) = {} /\ Part(agenda', Unlinking) = {}
    BY <2>1, <2>3 DEF Unlinking
  <2> QED
    BY <2>4, <2>5 DEF Loops, Ends
<1>3. ASSUME PollOut \/ Tick \/ WriteStops \/ WriteBlocks \/ CallbackReturns PROVE Flowing'
  <2>1. UNCHANGED <<outqueue, current, waitpdu, rq, results, atTarget, owed>>
    BY <1>3 DEF PollOut, Tick, WriteStops, WriteBlocks, CallbackReturns, initiatorVars, targetVars
  <2>2. WriteStops \/ WriteBlocks \/ CallbackReturns => Loops' = Loops /\ Ends' = Ends
    BY <1>1 DEF WriteStops, WriteBlocks, CallbackReturns, Doing
  <2> QED
    BY <1>2, <1>3, <2>1, <2>2, FlowStill
<1>4. ASSUME NEW r \in Reqs, DataIn(r) PROVE r \in Owners(waitpdu)
  BY <1>4 DEF DataIn, Flowing, Waits, Sent
<1>5. ASSUME TargetNopIn \/ \E r \in Reqs : DataIn(r) PROVE Flowing'
  <2>1. UNCHANGED <<outqueue, current, waitpdu, rq, results, atTarget, owed, agenda>>
    BY <1>4, <1>5 DEF TargetNopIn, DataIn, initiatorVars, targetVars
  <2>2. Loops' = Loops /\ Ends' = Ends
    BY <2>1 DEF Loops, Ends, Part
  <2> QED
    BY <2>1, <2>2, FlowStill
<1> QED
  BY <1>3, <1>5

\* Nothing happens to a context that is destroyed.
LEMMA NothingMore ==
  ASSUME Doing("destroyed"), [Next]_vars
  PROVE  UNCHANGED vars
<1>1. agenda # <<>> /\ \A step : Doing(step) => step = "destroyed"
  BY DEF Doing
<1>2. \A c : ~MayCall(c)
  BY <1>1 DEF MayCall
<1>3. ASSUME NEW r \in Reqs, AppCall(r) PROVE FALSE
  BY <1>2, <1>3 DEF AppCall, CommandAsync, NopOutAsync, AbortTaskAsync, LogoutAsync, CancelTask, ResetAsync,
                    LunResetAsync
<1>4. ~CanRead
  BY <1>1 DEF CanRead
<1>5. ASSUME NEW r \in Reqs, Read(r) PROVE FALSE
  BY <1>4, <1>5 DEF Read, Reply, Reject, MalformedReply, DataIn, R2T
<1>6. ~CancelAllTasks /\ ~DestroyContext /\ ~PollOut /\ ~Tick /\ ~TargetNopIn /\ ~TargetPing /\ ~ReadError
  BY <1>1, <1>2, <1>4 DEF CancelAllTasks, DestroyContext, PollOut, Tick, TargetNopIn, TargetPing, ReadError
<1>7. ~CallbackReturns /\ ~SendDataOut /\ ~FinishPdu /\ ~FinishReject /\ ~FailRead /\ ~ScanOutqueue
      /\ ~ScanWaitpdu
  BY <1>1 DEF CallbackReturns, SendDataOut, FinishPdu, FinishReject, FailRead, ScanOutqueue, ScanWaitpdu
<1>8. ~Write
  BY <1>1 DEF Write, WriteStops, WriteStale, WritePop, WriteBlocks, WriteError, WriteDone, CanPop
<1> QED
  BY <1>3, <1>5, <1>6, <1>7, <1>8 DEF Next, Destroyed

\* The calls that are left to the application of the theorem.
LEMMA FlowCalls ==
  ASSUME Undisturbed, LineInv, BackedStack, TornInv, Flowing, NEW r \in Reqs, AppCall(r)
  PROVE  Flowing'
<1>1. ~CancelTask(r) /\ ~ResetAsync(r) /\ \A lun \in Luns : ~LunResetAsync(r, lun)
  BY DEF Undisturbed, CancelTask, ResetAsync, LunResetAsync, MayCall
<1>2. TypeOK
  BY DEF LineInv
<1> QED
  BY <1>1, <1>2, FlowCommand, FlowRequest DEF AppCall

\* The steps of the library and its peer.
LEMMA FlowSteps ==
  ASSUME Undisturbed, FlowInv, Flowing, Next, \A r \in Reqs : ~AppCall(r)
  PROVE  Flowing' \/ Gone'
<1>0. /\ TypeOK /\ TornInv /\ LostInv /\ LineInv /\ KindInv /\ BackedStack /\ ~broken
      /\ Timeouts = FALSE /\ Rejects = FALSE /\ SocketErrors = FALSE
  BY DEF FlowInv, BackedInv, TornInv, Undisturbed
<1>1. ASSUME NEW r \in Reqs, Read(r) PROVE Flowing'
  <2>1. ~Reject(r) /\ ~MalformedReply(r)
    BY <1>0 DEF Reject, MalformedReply
  <2> QED
    BY <1>0, <1>1, <2>1, FlowReply, FlowR2T, FlowQuiet DEF Read
<1>2. ~WriteStale /\ ~WriteError /\ ~ReadError
  BY <1>0, NothingFails DEF Undisturbed
<1>3. \A step \in {"scan_out", "scan_wait", "finish_reject", "fail"} : ~Doing(step)
  BY <1>0, StackTop DEF BackedStack, TopOf
<1>4. ~FinishReject /\ ~FailRead /\ ~ScanOutqueue /\ ~ScanWaitpdu
  BY <1>3 DEF FinishReject, FailRead, ScanOutqueue, ScanWaitpdu
<1>5. ~CancelAllTasks
  BY DEF CancelAllTasks, MayCall, Undisturbed
<1>6. ASSUME DestroyContext PROVE Gone'
  <2>1. outqueue' = <<>> /\ current' = NoPdu /\ agenda' = <<Do("destroyed")>>
    BY <1>6 DEF DestroyContext
  <2>2. agenda' # <<>> /\ Head(agenda').do = "destroyed"
    BY <2>1 DEF Do
  <2> QED
    BY <2>1, <2>2 DEF Gone, Doing, NoPdu, NewPdu
<1>7. ASSUME Write PROVE Flowing'
  BY <1>0, <1>2, <1>7, FlowPop, FlowDone, FlowQuiet DEF Write
<1>8. CallbackReturns \/ PollOut \/ Tick \/ TargetNopIn => Flowing'
  BY <1>0, FlowQuiet
<1>9. (SendDataOut => Flowing') /\ (FinishPdu => Flowing') /\ (TargetPing => Flowing')
  BY <1>0, FlowData, FlowFinish, FlowPing
<1>10. Destroyed => Flowing'
  <2>1. ASSUME Destroyed PROVE Flowing'
    <3>1. UNCHANGED <<outqueue, current, waitpdu, rq, results, atTarget, owed, agenda>>
      BY <2>1 DEF Destroyed, vars, initiatorVars, targetVars
    <3>2. Loops' = Loops /\ Ends' = Ends
      BY <3>1 DEF Loops, Ends, Part
    <3> QED
      BY <3>1, <3>2, FlowStill
  <2> QED
    BY <2>1
<1> QED
  BY <1>1, <1>2, <1>4, <1>5, <1>6, <1>7, <1>8, <1>9, <1>10 DEF Next

\* The inductive step: calls, steps of the library and steps of its peer.
LEMMA FlowInvInductive ==
  ASSUME Undisturbed
  PROVE  /\ Init => FlowInv
         /\ FlowInv /\ [Next]_vars => FlowInv'
<1>0. CallbackCalls \cap {"cancel_all", "reset"} = {} /\ Calls \cap {"cancel_task", "lun_reset"} = {}
      /\ "lun_reset" \notin Calls
  BY ConstantsAssumption DEF Undisturbed
<1>1. ASSUME Init PROVE FlowInv
  <2>1. BackedInv /\ TornInv /\ LostInv
    BY <1>0, <1>1, BackedInvInductive, TornInvInductive, LostInvInductive DEF Undisturbed
  <2>2. /\ outqueue = <<>> /\ waitpdu = <<>> /\ current = NoPdu /\ agenda = <<>> /\ atTarget = {}
        /\ \A r \in Reqs : rq[r].kind = "unused" /\ results[r] = <<>> /\ owed[r] = <<>>
    BY <1>1 DEF Init, Unused
  <2>3. Loops = {} /\ Ends = {}
    BY <2>2, PartOne DEF Loops, Ends
  <2>4. Owners(waitpdu) = {} /\ SingleOwner(waitpdu) /\ Sent = {} /\ Writing = {}
    BY <2>2, <2>3 DEF Owners, SingleOwner, Sent, Ends, Part, Stack, Writing
  <2>5. Waits /\ Over /\ Grouped
    BY <2>2, <2>3, <2>4 DEF Waits, Over, Grouped
  <2>6. \A r : TaskRow(outqueue, r, 0, -1) /\ ~IsTask(current, r)
    BY <2>2, NoRow DEF IsTask, HasTask, NoPdu, NewPdu
  <2>7. \A r \in Reqs : Flow(r)
    BY <2>2, <2>3, <2>6 DEF Flow, Idle, ScsiKinds
  <2> QED
    BY <2>1, <2>5, <2>7 DEF FlowInv, Flowing
<1>2. ASSUME FlowInv, [Next]_vars PROVE FlowInv'
  <2>1. BackedInv' /\ TornInv' /\ LostInv'
    BY <1>0, <1>2, BackedInvInductive, TornInvInductive, LostInvInductive DEF Undisturbed, FlowInv
  <2>2. ASSUME Gone PROVE Gone'
    BY <1>2, <2>2, NothingMore DEF Gone, Doing, vars, initiatorVars
  <2>3. ASSUME Flowing PROVE Flowing' \/ Gone'
    <3>1. CASE UNCHANGED vars
      <4>1. UNCHANGED <<outqueue, current, waitpdu, rq, results, atTarget, owed, agenda>>
        BY <3>1 DEF vars, initiatorVars, targetVars
      <4>2. Loops' = Loops /\ Ends' = Ends
        BY <4>1 DEF Loops, Ends, Part
      <4> QED
        BY <2>3, <4>1, <4>2, FlowStill
    <3>2. CASE \E r \in Reqs : AppCall(r)
      BY <1>2, <2>3, <3>2, FlowCalls DEF FlowInv, BackedInv
    <3>3. CASE Next /\ \A r \in Reqs : ~AppCall(r)
      BY <1>2, <2>3, <3>3, FlowSteps
    <3> QED
      BY <1>2, <3>1, <3>2, <3>3
  <2> QED
    BY <1>2, <2>1, <2>2, <2>3 DEF FlowInv
<1> QED
  BY <1>1, <1>2

\* A request with a DATA-OUT in the queue or being written has not had its
\* callback.
LEMMA DataIsOwed ==
  ASSUME TypeOK, Flowing, NEW p \in Pdu, p.op = "DATA", p \in ToSet(outqueue) \/ p = current
  PROVE  /\ p.req \in Reqs /\ rq[p.req].kind \in ScsiKinds /\ results[p.req] = <<>>
         /\ p = current => owed[p.req] # <<>> /\ Head(owed[p.req]) = p.datasn
         /\ p = current => \A i \in DOMAIN outqueue : IsTask(outqueue[i], p.req) => Key(outqueue[i]) # 0
<1>1. PICK r : r = p.req
  OBVIOUS
<1>2. r \in Reqs /\ IsTask(p, r) /\ Key(p) = p.datasn + 1 /\ p.datasn \in Nat
  BY <1>1 DEF Pdu, IsTask, HasTask, Key
<1>3. p \in ToSet(outqueue) => \E i \in DOMAIN outqueue : outqueue[i] = p
  BY DEF ToSet
<1>4. rq[r].kind \in ScsiKinds
  <2> SUFFICES ASSUME rq[r].kind \notin ScsiKinds PROVE FALSE
    OBVIOUS
  <2>1. ~IsTask(current, r) /\ \A i \in DOMAIN outqueue : ~IsTask(outqueue[i], r)
    BY <1>2, NoRow DEF Flowing, Flow, Idle
  <2> QED
    BY <1>2, <1>3, <2>1
<1>5. PICK lo \in Nat, e \in Nat, c \in Int : FlowAt(r, lo, c, e)
  BY <1>2, <1>4 DEF Flowing, Flow
<1>6. /\ lo - 1 <= c /\ c <= e /\ Owing(owed[r], Awaited(r, lo), e) /\ owed[r] \in Seq(Nat)
      /\ \A i \in DOMAIN outqueue : IsTask(outqueue[i], r) => Key(outqueue[i]) \in lo .. c
      /\ IsTask(current, r) => lo > 0 /\ Key(current) = lo - 1
  BY <1>2, <1>5 DEF FlowAt, TaskRow, TypeOK
<1>7. ASSUME p = current
      PROVE  /\ lo > 0 /\ Awaited(r, lo) = p.datasn /\ p.datasn < e
             /\ owed[r] # <<>> /\ Head(owed[r]) = p.datasn
  <2>1. lo > 0 /\ p.datasn + 1 = lo - 1
    BY <1>2, <1>6, <1>7
  <2>2. Awaited(r, lo) = (lo - 1) - 1
    BY <1>2, <1>7, <2>1 DEF Awaited
  <2>3. Awaited(r, lo) = p.datasn /\ p.datasn < e
    BY <1>2, <1>6, <2>1, <2>2
  <2> QED
    BY <1>2, <1>6, <2>1, <2>3, OwingMoves
<1>8. ASSUME p \in ToSet(outqueue) PROVE owed[r] # <<>>
  <2>1. p.datasn + 1 <= c /\ lo <= p.datasn + 1
    BY <1>2, <1>3, <1>6, <1>8
  <2>2. Awaited(r, lo) \in Int /\ Awaited(r, lo) < e
    <3> DEFINE busy == IsTask(current, r) /\ current.op = "DATA"
    <3>1. Awaited(r, lo) = (IF lo = 0 THEN 0 ELSE lo - 1) - (IF busy THEN 1 ELSE 0)
      BY DEF Awaited
    <3> HIDE DEF busy
    <3>2. CASE lo = 0
      BY <1>2, <1>6, <2>1, <3>1, <3>2
    <3>3. CASE lo # 0
      BY <1>2, <1>6, <2>1, <3>1, <3>3
    <3> QED
      BY <3>2, <3>3
  <2>3. Len(owed[r]) = e - Awaited(r, lo)
    BY <1>6 DEF Owing
  <2>4. Len(<<>>) = 0
    OBVIOUS
  <2> QED
    BY <2>2, <2>3, <2>4
<1>9. owed[r] # <<>>
  BY <1>7, <1>8
<1>10. results[r] = <<>>
  BY <1>2, <1>9 DEF Flowing, Over
<1>11. p = current => \A i \in DOMAIN outqueue : IsTask(outqueue[i], r) => Key(outqueue[i]) # 0
  BY <1>6, <1>7
<1> QED
  BY <1>1, <1>2, <1>4, <1>7, <1>10, <1>11

\* The invariant says more than DataInOrder.
LEMMA FlowInvInOrder ==
  ASSUME FlowInv
  PROVE  DataInOrder
<1>0. TypeOK /\ TornInv /\ NoneLost /\ UnlinkedIsDone /\ KindInv
  BY DEF FlowInv, TornInv, LostInv, BackedInv
<1>1. CASE Gone
  BY <1>1 DEF Gone, DataInOrder, NoPdu, NewPdu, ToSet
<1>2. CASE Flowing
  <2>1. ASSUME NEW p \in ToSet(outqueue) \cup {current}, p.op = "DATA" PROVE p \in Pdu
    BY <1>0, <2>1, ListType DEF ToSet, TypeOK, NoPdu, NewPdu
  <2>2. \A p \in ToSet(outqueue) \cup {current} : p.op = "DATA" => results[p.req] = <<>>
    BY <1>0, <1>2, <2>1, DataIsOwed
  <2>3. ASSUME current.op = "DATA"
        PROVE  /\ current.req \in atTarget
               /\ owed[current.req] # <<>> /\ Head(owed[current.req]) = current.datasn
    <3>1. current \in Pdu
      BY <2>1, <2>3
    <3> DEFINE r == current.req
    <3>2. /\ r \in Reqs /\ rq[r].kind \in ScsiKinds /\ results[r] = <<>>
          /\ owed[r] # <<>> /\ Head(owed[r]) = current.datasn
          /\ \A i \in DOMAIN outqueue : IsTask(outqueue[i], r) => Key(outqueue[i]) # 0
      BY <1>0, <1>2, <2>3, <3>1, DataIsOwed
    <3> HIDE DEF r
    <3>3. r \notin Owners(outqueue)
      <4> SUFFICES ASSUME NEW i \in DOMAIN outqueue, ~DeleteWhenSent(outqueue[i]), outqueue[i].req = r
                   PROVE  FALSE
        BY DEF Owners
      <4>1. Fits(outqueue[i])
        BY <1>0 DEF KindInv, ToSet
      <4>2. outqueue[i].op = "SCSI"
        BY <3>2, <4>1 DEF Fits, ScsiKinds
      <4>3. IsTask(outqueue[i], r) /\ Key(outqueue[i]) = 0
        BY <4>2 DEF IsTask, HasTask, Key
      <4> QED
        BY <3>2, <4>3
    <3>4. r \in Owners(waitpdu)
      BY <1>0, <3>2, <3>3 DEF NoneLost, ScsiKinds
    <3>5. r \in Sent
      BY <1>2, <2>3, <3>4 DEF Flowing, Waits, Writing, OwnerOf, DeleteWhenSent
    <3>6. \A f \in Stack : f.do \in Unlinking => f.req # r
      BY <1>0, <3>2 DEF UnlinkedIsDone
    <3>7. r \in atTarget
      BY <3>5, <3>6 DEF Sent
    <3> QED
      BY <3>2, <3>7 DEF r
  <2> QED
    BY <2>2, <2>3 DEF DataInOrder
<1> QED
  BY <1>1, <1>2 DEF FlowInv

\* DATA-OUTs are written in the order of their DataSN and behind their
\* command, and none is queued or written for a task that has had its
\* callback: for bursts of any length, solicited or not, whatever other
\* requests the application queues between their PDUs or in callbacks, on a
\* connection that works, for a target that answers a command when it has its
\* data and an application that cancels nothing.  (A cancellation completes
\* the task whose DATA-OUT is being written: DataInOrder does not hold then.)
THEOREM DataInOrderCorrect ==
  ASSUME IsFiniteSet(Reqs), Cardinality(Reqs) < Half,
         Timeouts = FALSE, SocketErrors = FALSE, EarlyStatus = FALSE, Rejects = FALSE,
         Calls \cap {"cancel_task", "cancel_all", "reset", "lun_reset"} = {}
  PROVE  Spec => []DataInOrder
<1>1. Undisturbed
  BY DEF Undisturbed
<1> QED
  BY <1>1, FlowInvInductive, FlowInvInOrder, PTL DEF Spec

=============================================================================
