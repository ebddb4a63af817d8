---------------------------- MODULE ListsProofs -----------------------------
(***************************************************************************)
(* Lemmas about lists and about numbers that the proofs of PduQueue and of *)
(* Threads share.                                                          *)
(***************************************************************************)
EXTENDS Lists, SequencesExt, SequenceTheorems, FiniteSetTheorems,
        WellFoundedInduction, TLAPS

\* A set of natural numbers has a smallest element.
LEMMA Smallest ==
  ASSUME NEW T \in SUBSET Nat, T # {}
  PROVE  \E m \in T : \A k \in T : m <= k
<1> DEFINE R == OpToRel(<, Nat)
<1>1. IsWellFoundedOn(R, Nat)
  BY NatLessThanWellFounded
<1> HIDE DEF R
<1>2. PICK m \in T : \A k \in T : ~(<<k, m>> \in R)
  BY <1>1, WFMin
<1>3. \A k \in T : k < m => <<k, m>> \in R
  BY DEF R, OpToRel
<1>4. \A k \in T : ~(k < m) /\ k \in Nat /\ m \in Nat
  BY <1>2, <1>3
<1>5. \A k \in T : m <= k
  BY <1>4
<1> QED
  BY <1>5

\* What is left when only the elements at the indices I are retained: they
\* keep their order, and each is there once.
LEMMA RetainOrder ==
  ASSUME NEW S, NEW s \in Seq(S), NEW I \in SUBSET DOMAIN s, NEW q \in Retain(s, I)
  PROVE  /\ q \in Seq(S)
         /\ \E f \in [DOMAIN q -> I] :
              /\ \A k \in DOMAIN q : q[k] = s[f[k]]
              /\ \A a, b \in DOMAIN q : a < b => f[a] < f[b]
              /\ \A i \in I : \E a \in DOMAIN q : f[a] = i
<1>1. PICK n \in 0 .. Len(s) : \E f \in [1 .. n -> I] :
         /\ q = [k \in 1 .. n |-> s[f[k]]]
         /\ \A a, b \in 1 .. n : a < b => f[a] < f[b]
         /\ \A i \in I : \E a \in 1 .. n : f[a] = i
  BY DEF Retain
<1>2. PICK f \in [1 .. n -> I] :
         /\ q = [k \in 1 .. n |-> s[f[k]]]
         /\ \A a, b \in 1 .. n : a < b => f[a] < f[b]
         /\ \A i \in I : \E a \in 1 .. n : f[a] = i
  BY <1>1
<1>3. n \in Nat /\ I \subseteq Nat
  BY LenProperties
<1>4. \A k \in 1 .. n : s[f[k]] \in S
  BY ElementOfSeq, LenProperties
<1>5. q \in Seq(S)
  BY <1>2, <1>3, <1>4, IsASeq
<1>6. DOMAIN q = 1 .. n /\ \A k \in DOMAIN q : q[k] = s[f[k]]
  BY <1>2
<1> QED
  BY <1>2, <1>5, <1>6

LEMMA RetainType ==
  ASSUME NEW S, NEW s \in Seq(S), NEW I \in SUBSET DOMAIN s, NEW q \in Retain(s, I)
  PROVE  /\ q \in Seq(S)
         /\ \A i \in I : \E k \in DOMAIN q : q[k] = s[i]
         /\ \A a \in DOMAIN q : \E i \in I : q[a] = s[i]
         /\ \A a, b \in DOMAIN q : \E i, j \in I :
              q[a] = s[i] /\ q[b] = s[j] /\ (i = j => a = b)
<1>2. /\ q \in Seq(S)
      /\ \E f \in [DOMAIN q -> I] :
           /\ \A k \in DOMAIN q : q[k] = s[f[k]]
           /\ \A a, b \in DOMAIN q : a < b => f[a] < f[b]
           /\ \A i \in I : \E a \in DOMAIN q : f[a] = i
  BY RetainOrder
<1>1. PICK f \in [DOMAIN q -> I] :
           /\ \A k \in DOMAIN q : q[k] = s[f[k]]
           /\ \A a, b \in DOMAIN q : a < b => f[a] < f[b]
           /\ \A i \in I : \E a \in DOMAIN q : f[a] = i
  BY <1>2
<1>3. DOMAIN q \subseteq Nat /\ I \subseteq Nat
  BY <1>2, LenProperties
<1>4. ASSUME NEW a \in DOMAIN q, NEW b \in DOMAIN q, f[a] = f[b]
      PROVE  a = b
  BY <1>1, <1>3, <1>4
<1>5. \A a \in DOMAIN q : f[a] \in I /\ q[a] = s[f[a]]
  BY <1>1
<1>6. \A i \in I : \E k \in DOMAIN q : q[k] = s[i]
  BY <1>1
<1>7. ASSUME NEW a \in DOMAIN q, NEW b \in DOMAIN q
      PROVE  \E i, j \in I : q[a] = s[i] /\ q[b] = s[j] /\ (i = j => a = b)
  BY <1>4, <1>5, <1>7
<1> QED
  BY <1>2, <1>5, <1>6, <1>7

\* Inserting an element moves those behind it back by one.
LEMMA InsertType ==
  ASSUME NEW S, NEW s \in Seq(S), NEW i \in 1 .. (Len(s) + 1), NEW p \in S
  PROVE  /\ InsertAt(s, i, p) \in Seq(S)
         /\ Len(InsertAt(s, i, p)) = Len(s) + 1
         /\ \A k \in 1 .. (Len(s) + 1) :
              InsertAt(s, i, p)[k] = IF k < i THEN s[k] ELSE IF k = i THEN p ELSE s[k - 1]
<1> DEFINE a == SubSeq(s, 1, i - 1)
           b == SubSeq(s, i, Len(s))
<1>0. Len(s) \in Nat /\ i \in Int
  BY LenProperties
<1>1. a \in Seq(S) /\ Len(a) = i - 1 /\ \A k \in 1 .. (i - 1) : a[k] = s[k]
  <2>1. \A k \in 1 .. (i - 1) : s[k] \in S
    BY <1>0, ElementOfSeq
  <2> QED
    BY <1>0, <2>1, SubSeqProperties
<1>2. b \in Seq(S) /\ Len(b) = Len(s) + 1 - i /\ \A k \in 1 .. (Len(s) + 1 - i) : b[k] = s[i + k - 1]
  <2>1. \A k \in i .. Len(s) : s[k] \in S
    BY <1>0, ElementOfSeq
  <2> QED
    BY <1>0, <2>1, SubSeqProperties
<1>3. <<p>> \in Seq(S) /\ Len(<<p>>) = 1 /\ <<p>>[1] = p
  OBVIOUS
<1>4. /\ a \o <<p>> \in Seq(S) /\ Len(a \o <<p>>) = i
      /\ \A k \in 1 .. i : (a \o <<p>>)[k] = IF k < i THEN a[k] ELSE p
  <2>1. \A k \in 1 .. (Len(a) + Len(<<p>>)) :
          (a \o <<p>>)[k] = IF k <= Len(a) THEN a[k] ELSE <<p>>[k - Len(a)]
    BY <1>1, <1>3, ConcatProperties
  <2>2. a \o <<p>> \in Seq(S) /\ Len(a \o <<p>>) = Len(a) + Len(<<p>>)
    BY <1>1, <1>3, ConcatProperties
  <2>3. ASSUME NEW k \in 1 .. i
        PROVE  (a \o <<p>>)[k] = IF k < i THEN a[k] ELSE p
    <3>1. CASE k < i
      BY <3>1, <1>0, <1>1, <1>3, <2>1
    <3>2. CASE k = i
      BY <3>2, <1>0, <1>1, <1>3, <2>1
    <3> QED
      BY <3>1, <3>2, <1>0
  <2>4. Len(a) + Len(<<p>>) = i
    BY <1>0, <1>1, <1>3
  <2> QED
    BY <2>2, <2>3, <2>4
<1> DEFINE c == a \o <<p>>
<1> HIDE DEF c
<1>5. c \in Seq(S) /\ Len(c) = i /\ \A k \in 1 .. i : c[k] = IF k < i THEN a[k] ELSE p
  BY <1>4 DEF c
<1>6. /\ c \o b \in Seq(S) /\ Len(c \o b) = Len(s) + 1
      /\ \A k \in 1 .. (Len(s) + 1) : (c \o b)[k] = IF k <= i THEN c[k] ELSE b[k - i]
  <2>1. \A k \in 1 .. (Len(c) + Len(b)) :
          (c \o b)[k] = IF k <= Len(c) THEN c[k] ELSE b[k - Len(c)]
    BY <1>2, <1>5, ConcatProperties
  <2>2. c \o b \in Seq(S) /\ Len(c \o b) = Len(c) + Len(b)
    BY <1>2, <1>5, ConcatProperties
  <2> QED
    BY <1>0, <1>2, <1>5, <2>1, <2>2
<1>7. InsertAt(s, i, p) = c \o b
  BY DEF InsertAt, c
<1>8. ASSUME NEW k \in 1 .. (Len(s) + 1)
      PROVE  (c \o b)[k] = IF k < i THEN s[k] ELSE IF k = i THEN p ELSE s[k - 1]
  <2>1. CASE k <= i
    BY <2>1, <1>0, <1>1, <1>5, <1>6
  <2>2. CASE ~(k <= i)
    <3>1. k - i \in 1 .. (Len(s) + 1 - i) /\ i + (k - i) - 1 = k - 1
      BY <2>2, <1>0
    <3>2. (c \o b)[k] = b[k - i]
      BY <2>2, <1>0, <1>6
    <3> QED
      BY <2>2, <3>1, <3>2, <1>0, <1>2
  <2> QED
    BY <2>1, <2>2
<1> QED
  BY <1>6, <1>7, <1>8

\* The list t is s with p at the place i.
Inserted(t, s, i, p) ==
  /\ Len(t) = Len(s) + 1
  /\ \A k \in 1 .. (Len(s) + 1) :
       t[k] = IF k < i THEN s[k] ELSE IF k = i THEN p ELSE s[k - 1]

\* InsertType in these terms.
LEMMA InsertShape ==
  ASSUME NEW S, NEW s \in Seq(S), NEW i \in 1 .. (Len(s) + 1), NEW p \in S
  PROVE  InsertAt(s, i, p) \in Seq(S) /\ Inserted(InsertAt(s, i, p), s, i, p)
BY InsertType DEF Inserted

=============================================================================
