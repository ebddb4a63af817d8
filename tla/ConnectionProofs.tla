-------------------------- MODULE ConnectionProofs --------------------------
(***************************************************************************)
(* Two invariants of Connection.                                           *)
(*                                                                         *)
(* LoginInv, and the theorems about the login that rest on it: with mutual *)
(* CHAP there is no session with a target that has not proved itself, and  *)
(* what a session runs with is what both ends have settled.  At most one   *)
(* login request is under way, it is written as soon as it is queued, and  *)
(* nothing can be logged in, blocked or corked while it is.  Every other   *)
(* step is shown to leave that alone by a frame: Kept says which fields a  *)
(* callback never touches and that it only appends to waitpdu, so that the *)
(* callbacks, which queue further requests, call each other and run in a   *)
(* loop when everything is cancelled, are dealt with once, innermost       *)
(* first.                                                                  *)
(*                                                                         *)
(* The books: who holds the connect_task of the application and the one of *)
(* a reconnect, where each request is, and in which order the commands lie *)
(* in the queues.  They are kept over every function of the library,       *)
(* innermost first; in the middle of one, PDUs are in hand, taken off a    *)
(* queue for their callback to be run, so that the books are stated with a *)
(* list of those.  This module goes as far as reconnect() and the service  *)
(* loop; ConnectionStepsProofs takes the books over the login and the      *)
(* steps, and draws the conclusions.                                       *)
(*                                                                         *)
(* Facts about the loops over a queue (OfKind, CancelPdus) are shown by    *)
(* way of the least position at which they fail.                           *)
(***************************************************************************)
EXTENDS Connection, ListsProofs, FunctionTheorems

\* The fields of a PDU.
FrameFields == {"kind", "id", "sn", "ct"}

\* A list of PDUs of these kinds.
Queue(s, kinds) ==
  \E S : s \in Seq(S) /\ \A p \in S : DOMAIN p = FrameFields /\ p.kind \in kinds

\* What a queue is, element by element.
LEMMA QueueIs ==
  ASSUME NEW s, NEW kinds, Queue(s, kinds)
  PROVE  /\ Len(s) \in Nat
         /\ DOMAIN s = 1 .. Len(s)
         /\ \A i \in DOMAIN s : DOMAIN s[i] = FrameFields /\ s[i].kind \in kinds
         /\ s \in Seq(Range(s))
<1>1. PICK S : s \in Seq(S) /\ \A p \in S : DOMAIN p = FrameFields /\ p.kind \in kinds
  BY DEF Queue
<1>2. Len(s) \in Nat /\ DOMAIN s = 1 .. Len(s) /\ s \in [1 .. Len(s) -> S]
  BY <1>1, LenProperties
<1>3. \A i \in 1 .. Len(s) : s[i] \in S
  BY <1>1, ElementOfSeq
<1>4. s \in [1 .. Len(s) -> Range(s)]
  BY <1>2 DEF Range
<1>5. s \in Seq(Range(s))
  BY <1>2, <1>4, SeqDef
<1> QED
  BY <1>1, <1>2, <1>3, <1>5

\* Conversely, a sequence of PDUs of these kinds is a queue of them.
LEMMA IsQueue ==
  ASSUME NEW S, NEW s \in Seq(S), NEW kinds,
         \A i \in 1 .. Len(s) : DOMAIN s[i] = FrameFields /\ s[i].kind \in kinds
  PROVE  Queue(s, kinds)
<1>1. Len(s) \in Nat /\ DOMAIN s = 1 .. Len(s) /\ s \in [1 .. Len(s) -> S]
  BY LenProperties
<1>2. s \in [1 .. Len(s) -> Range(s)]
  BY <1>1 DEF Range
<1>3. s \in Seq(Range(s))
  BY <1>1, <1>2, SeqDef
<1>4. \A p \in Range(s) : DOMAIN p = FrameFields /\ p.kind \in kinds
  BY <1>1 DEF Range
<1> QED
  BY <1>3, <1>4 DEF Queue

LEMMA QueueEmpty == ASSUME NEW kinds PROVE Queue(<< >>, kinds)
<1> DEFINE e == << >>
<1>1. e \in Seq({}) /\ Len(e) = 0
  OBVIOUS
<1> HIDE DEF e
<1>2. \A i \in 1 .. Len(e) : DOMAIN e[i] = FrameFields /\ e[i].kind \in kinds
  BY <1>1
<1>3. Queue(e, kinds)
  BY <1>1, <1>2, IsQueue
<1> QED
  BY <1>3 DEF e

\* Lists of PDUs are closed under what the code does to them.
LEMMA QueueConcat ==
  ASSUME NEW s, NEW t, NEW kinds, Queue(s, kinds), Queue(t, kinds)
  PROVE  Queue(s \o t, kinds)
<1>1. PICK S : s \in Seq(S) /\ \A p \in S : DOMAIN p = FrameFields /\ p.kind \in kinds
  BY DEF Queue
<1>2. PICK T : t \in Seq(T) /\ \A p \in T : DOMAIN p = FrameFields /\ p.kind \in kinds
  BY DEF Queue
<1>3. s \in Seq(S \cup T) /\ t \in Seq(S \cup T)
  BY <1>1, <1>2, SeqMonotonic
<1>4. s \o t \in Seq(S \cup T)
  BY <1>3, ConcatProperties
<1>5. \A p \in S \cup T : DOMAIN p = FrameFields /\ p.kind \in kinds
  BY <1>1, <1>2
<1> QED
  BY <1>4, <1>5 DEF Queue

LEMMA QueueSub ==
  ASSUME NEW s, NEW kinds, Queue(s, kinds), NEW m \in Int, NEW n \in Int, 1 <= m, n <= Len(s)
  PROVE  Queue(SubSeq(s, m, n), kinds)
<1>1. PICK S : s \in Seq(S) /\ \A p \in S : DOMAIN p = FrameFields /\ p.kind \in kinds
  BY DEF Queue
<1>2. \A i \in m .. n : s[i] \in S
  BY <1>1, ElementOfSeq, LenProperties
<1>3. SubSeq(s, m, n) \in Seq(S)
  BY <1>2, SubSeqProperties
<1> QED
  BY <1>1, <1>3 DEF Queue

LEMMA QueueOne ==
  ASSUME NEW p, NEW kinds, DOMAIN p = FrameFields, p.kind \in kinds
  PROVE  Queue(<<p>>, kinds)
<1>1. <<p>> \in [1 .. 1 -> {p}]
  OBVIOUS
<1> DEFINE s == <<p>>
<1>2. s \in Seq({p})
  BY <1>1, SeqDef
<1>3. Len(s) = 1 /\ s[1] = p
  OBVIOUS
<1> HIDE DEF s
<1>4. \A i \in 1 .. Len(s) : DOMAIN s[i] = FrameFields /\ s[i].kind \in kinds
  BY <1>3
<1>5. Queue(s, kinds)
  BY <1>2, <1>4, IsQueue
<1> QED
  BY <1>5 DEF s

LEMMA QueueAppend ==
  ASSUME NEW s, NEW p, NEW kinds, Queue(s, kinds), DOMAIN p = FrameFields, p.kind \in kinds
  PROVE  Queue(Append(s, p), kinds)
<1>1. PICK S : s \in Seq(S) /\ \A q \in S : DOMAIN q = FrameFields /\ q.kind \in kinds
  BY DEF Queue
<1>2. s \in Seq(S \cup {p})
  BY <1>1, SeqMonotonic
<1>3. Append(s, p) \in Seq(S \cup {p})
  BY <1>2
<1> QED
  BY <1>1, <1>3 DEF Queue

\* The lists between the steps of OfKind.
Picking(s, kinds, f) ==
  f = [i \in 0 .. Len(s) |->
         IF i = 0 THEN << >>
         ELSE IF s[i].kind \in kinds THEN Append(f[i - 1], s[i]) ELSE f[i - 1]]

\* The recursive function of OfKind exists, so OfKind is its last value.
LEMMA OfKindSteps ==
  ASSUME NEW s, NEW kinds, Len(s) \in Nat
  PROVE  \E f : Picking(s, kinds, f) /\ OfKind(s, kinds) = f[Len(s)]
<1> DEFINE Step(y, i) == IF s[i].kind \in kinds THEN Append(y, s[i]) ELSE y
           Good(n, f) == f = [i \in 0 .. n |-> IF i = 0 THEN << >> ELSE Step(f[i - 1], i)]
           T == {n \in Nat : ~ \E f : Good(n, f)}
<1>1. \A f : Good(Len(s), f) <=> Picking(s, kinds, f)
  BY DEF Picking
<1>2. OfKind(s, kinds) = (CHOOSE f : Good(Len(s), f))[Len(s)]
  BY DEF OfKind
<1> HIDE DEF Step
<1>3. Good(0, [i \in 0 .. 0 |-> << >>])
  OBVIOUS
<1>4. ASSUME NEW m \in Nat, m # 0, NEW f, Good(m - 1, f)
      PROVE  \E g : Good(m, g)
  <2> DEFINE g == [i \in 0 .. m |-> IF i = m THEN Step(f[m - 1], m) ELSE f[i]]
  <2>1. \A i \in 0 .. (m - 1) : f[i] = IF i = 0 THEN << >> ELSE Step(f[i - 1], i)
    BY <1>4
  <2>2. /\ \A i \in 0 .. (m - 1) : g[i] = f[i]
        /\ g[m] = Step(f[m - 1], m)
    BY <1>4
  <2> HIDE DEF Good
  <2>3. ASSUME NEW i \in 0 .. m
        PROVE  g[i] = IF i = 0 THEN << >> ELSE Step(g[i - 1], i)
    <3>1. i = m \/ i \in 0 .. (m - 1)
      OBVIOUS
    <3>2. i # 0 => g[i - 1] = f[i - 1]
      BY <2>2
    <3> HIDE DEF g
    <3> QED
      BY <3>1, <3>2, <2>1, <2>2, <1>4
  <2>4. g = [i \in 0 .. m |-> IF i = 0 THEN << >> ELSE Step(g[i - 1], i)]
    <3>1. g = [i \in 0 .. m |-> g[i]]
      OBVIOUS
    <3> HIDE DEF g
    <3> QED
      BY <3>1, <2>3
  <2> QED
    BY <2>4 DEF Good
<1> HIDE DEF Good
<1>5. T = {}
  <2>1. ASSUME T # {} PROVE FALSE
    <3>1. PICK m \in T : \A k \in T : m <= k
      BY <2>1, Smallest
    <3>2. m \in Nat /\ m # 0
      BY <3>1, <1>3
    <3>3. m - 1 \in Nat /\ m - 1 \notin T
      BY <3>1, <3>2
    <3>4. \E f : Good(m - 1, f)
      BY <3>3
    <3> QED
      BY <3>1, <3>2, <3>4, <1>4
  <2> QED
    BY <2>1
<1>6. \E f : Good(Len(s), f)
  BY <1>5
<1>7. Good(Len(s), CHOOSE f : Good(Len(s), f))
  BY <1>6
<1> QED
  BY <1>1, <1>2, <1>7

\* OfKind picks PDUs of the given kinds only.
LEMMA QueueOfKind ==
  ASSUME NEW s, NEW kinds, NEW all, Queue(s, all)
  PROVE  Queue(OfKind(s, kinds), all \cap kinds)
<1>1. /\ Len(s) \in Nat
      /\ \A i \in 1 .. Len(s) : DOMAIN s[i] = FrameFields /\ s[i].kind \in all
  BY QueueIs
<1>2. PICK f : Picking(s, kinds, f) /\ OfKind(s, kinds) = f[Len(s)]
  BY <1>1, OfKindSteps
<1> DEFINE T == {n \in 0 .. Len(s) : ~Queue(f[n], all \cap kinds)}
<1>3. \A i \in 0 .. Len(s) :
        f[i] = IF i = 0 THEN << >>
               ELSE IF s[i].kind \in kinds THEN Append(f[i - 1], s[i]) ELSE f[i - 1]
  BY <1>2 DEF Picking
<1>4. ASSUME T # {} PROVE FALSE
  <2>1. T \in SUBSET Nat
    BY <1>1
  <2>2. PICK m \in T : \A k \in T : m <= k
    <3> HIDE DEF T
    <3> QED
      BY <1>4, <2>1, Smallest
  <2>3. m # 0 /\ m \in 0 .. Len(s)
    BY <2>2, <1>3, QueueEmpty
  <2>4. m - 1 \in 0 .. Len(s) /\ m \in 1 .. Len(s)
    BY <2>3, <1>1
  <2>5. Queue(f[m - 1], all \cap kinds)
    <3>1. m - 1 \notin T
      <4> HIDE DEF T
      <4> QED
        BY <2>2, <2>4
    <3> QED
      BY <3>1, <2>4
  <2>6. CASE s[m].kind \in kinds
    <3>1. f[m] = Append(f[m - 1], s[m])
      BY <2>3, <2>6, <1>3
    <3>2. DOMAIN s[m] = FrameFields /\ s[m].kind \in all \cap kinds
      BY <2>4, <2>6, <1>1
    <3>3. Queue(f[m], all \cap kinds)
      BY <2>5, <3>1, <3>2, QueueAppend
    <3> QED
      BY <2>2, <3>3
  <2>7. CASE s[m].kind \notin kinds
    BY <2>2, <2>3, <2>5, <2>7, <1>3
  <2> QED
    BY <2>6, <2>7
<1>5. Len(s) \in 0 .. Len(s)
  BY <1>1
<1> QED
  BY <1>2, <1>4, <1>5

\* A list written as a function of its positions.
LEMMA QueueFunction ==
  ASSUME NEW n \in Nat, NEW t, NEW kinds, t = [k \in 1 .. n |-> t[k]],
         \A k \in 1 .. n : DOMAIN t[k] = FrameFields /\ t[k].kind \in kinds
  PROVE  Queue(t, kinds) /\ Len(t) = n
<1> DEFINE S == {t[k] : k \in 1 .. n}
<1>1. t \in [1 .. n -> S]
  OBVIOUS
<1>2. \A p \in S : DOMAIN p = FrameFields /\ p.kind \in kinds
  OBVIOUS
<1> HIDE DEF S
<1>3. t \in Seq(S)
  BY <1>1, SeqDef
<1>4. Queue(t, kinds)
  BY <1>2, <1>3 DEF Queue
<1>5. Len(t) \in Nat /\ DOMAIN t = 1 .. Len(t) /\ DOMAIN t = 1 .. n
  BY <1>1, <1>3, LenProperties
<1> QED
  BY <1>4, <1>5

LEMMA QueueMonotonic ==
  ASSUME NEW s, NEW kinds, NEW more, Queue(s, kinds), kinds \subseteq more
  PROVE  Queue(s, more)
BY DEF Queue

\* Min of a set of naturals that is not empty.
LEMMA MinIsLeast ==
  ASSUME NEW I \in SUBSET Nat, I # {}
  PROVE  Min(I) \in I /\ \A k \in I : Min(I) <= k
BY Smallest DEF Min

LEMMA QueueInsert ==
  ASSUME NEW s, NEW kinds, Queue(s, kinds), NEW i \in 1 .. Len(s), NEW p,
         DOMAIN p = FrameFields, p.kind \in kinds
  PROVE  Queue(InsertAt(s, i, p), kinds)
<1>1. Len(s) \in Nat
  BY QueueIs
<1>2. Queue(SubSeq(s, 1, i - 1), kinds)
  BY <1>1, QueueSub
<1>3. Queue(SubSeq(s, i, Len(s)), kinds)
  BY <1>1, QueueSub
<1>4. Queue(<<p>>, kinds)
  BY QueueOne
<1> QED
  BY <1>2, <1>3, <1>4, QueueConcat DEF InsertAt

LEMMA QueueRemove ==
  ASSUME NEW s, NEW kinds, Queue(s, kinds), NEW i \in 1 .. Len(s)
  PROVE  Queue(RemoveAt(s, i), kinds)
<1>1. Len(s) \in Nat
  BY QueueIs
<1>2. Queue(SubSeq(s, 1, i - 1), kinds)
  BY <1>1, QueueSub
<1>3. Queue(SubSeq(s, i + 1, Len(s)), kinds)
  BY <1>1, QueueSub
<1> QED
  BY <1>2, <1>3, QueueConcat DEF RemoveAt

\* Where iscsi_add_to_outqueue puts a PDU.
LEMMA SortedIs ==
  ASSUME NEW s, NEW all, Queue(s, all), NEW p, DOMAIN p = FrameFields
  PROVE  \E q, i : /\ DOMAIN q = FrameFields /\ q.kind = p.kind
                   /\ \/ Sorted(s, p) = Append(s, q)
                      \/ i \in 1 .. Len(s) /\ Sorted(s, p) = InsertAt(s, i, q)
<1> DEFINE q == IF Immediate(p) /\ s # << >> THEN [p EXCEPT !.sn = Head(s).sn] ELSE p
           I == {k \in 1 .. Len(s) : \/ q.sn < s[k].sn
                                     \/ Immediate(q) /\ ~Immediate(s[k])}
           i == IF I # {} THEN Min(I) ELSE 0
<1>1. Sorted(s, p) = IF i = 0 THEN Append(s, q) ELSE InsertAt(s, i, q)
  BY DEF Sorted, SelectInSeq
<1>2. DOMAIN q = FrameFields /\ q.kind = p.kind
  BY DEF FrameFields
<1>3. Len(s) \in Nat
  BY QueueIs
<1>4. I \in SUBSET Nat
  BY <1>3
<1> HIDE DEF q
<1>5. I # {} => Min(I) \in 1 .. Len(s)
  <2>1. I # {} => Min(I) \in I
    <3> HIDE DEF I
    <3> QED
      BY <1>4, MinIsLeast
  <2> QED
    BY <2>1
<1> HIDE DEF I
<1>6. i = 0 \/ i \in 1 .. Len(s)
  BY <1>5
<1> HIDE DEF i
<1> QED
  BY <1>1, <1>2, <1>6

LEMMA QueueSorted ==
  ASSUME NEW s, NEW kinds, Queue(s, kinds), NEW p,
         DOMAIN p = FrameFields, p.kind \in kinds
  PROVE  Queue(Sorted(s, p), kinds)
<1>1. PICK q, i : /\ DOMAIN q = FrameFields /\ q.kind = p.kind
                  /\ \/ Sorted(s, p) = Append(s, q)
                     \/ i \in 1 .. Len(s) /\ Sorted(s, p) = InsertAt(s, i, q)
  BY SortedIs
<1>2. Queue(Append(s, q), kinds)
  BY <1>1, QueueAppend
<1>3. i \in 1 .. Len(s) => Queue(InsertAt(s, i, q), kinds)
  BY <1>1, QueueInsert
<1> QED
  BY <1>1, <1>2, <1>3

\* Once a PDU is queued the queue is not empty.
LEMMA SortedSome ==
  ASSUME NEW s, NEW all, Queue(s, all), NEW p, DOMAIN p = FrameFields
  PROVE  Sorted(s, p) # << >>
<1>1. PICK q, i : \/ Sorted(s, p) = Append(s, q)
                  \/ i \in 1 .. Len(s) /\ Sorted(s, p) = InsertAt(s, i, q)
  BY SortedIs
<1>2. Len(s) \in Nat /\ s \in Seq(Range(s))
  BY QueueIs
<1> DEFINE R == Range(s) \cup {q}
<1>3. s \in Seq(R) /\ q \in R
  BY <1>2, SeqMonotonic
<1> HIDE DEF R
<1>4. Append(s, q) # << >>
  BY <1>3
<1>5. ASSUME i \in 1 .. Len(s) PROVE InsertAt(s, i, q) # << >>
  <2>1. i \in 1 .. (Len(s) + 1)
    BY <1>2, <1>5
  <2>2. Len(InsertAt(s, i, q)) = Len(s) + 1
    BY <1>3, <2>1, InsertType
  <2> QED
    BY <1>2, <2>2
<1> QED
  BY <1>1, <1>4, <1>5

-----------------------------------------------------------------------------
(* What a callback may change. *)

\* The fields of a context that a callback leaves alone, unless a redirect
\* opens another connection.
Steady == {"fd", "status_cb", "current_phase", "secneg_phase", "is_loggedin",
           "login_attempts", "chap_c", "proven", "skewed", "imm", "digest", "deferred", "noauto",
           "late", "want", "tries", "forced", "room"}

Fields == Steady \cup {"is_corked", "pending", "early", "out", "wait", "cmdsn", "usn",
                       "old", "tgt", "app"}

SteadyTgt == {"digest", "imm", "sent", "drawn", "mixed"}

SteadyApp == {"started", "asked", "during"}

\* Sets of kinds that hold at least what a callback may queue.
Admits(kinds) == Kinds \ {"login", "logout"} \subseteq kinds /\ kinds \subseteq Kinds

\* The queues hold PDUs, the one to be sent only of these kinds.
Shape(x, kinds) ==
  /\ DOMAIN x = Fields
  /\ DOMAIN x.tgt = SteadyTgt \cup {"expect", "strange"}
  /\ DOMAIN x.app = SteadyApp \cup {"conn", "done", "astray"}
  /\ Queue(x.out, kinds) /\ Queue(x.wait, Kinds)
  /\ {"out", "wait", "retry"} \subseteq DOMAIN x.old
  /\ Queue(x.old.out, Kinds) /\ Queue(x.old.wait, Kinds)

\* The list v is w with PDUs of these kinds behind it.
Grown(w, v, kinds) == \E t : Queue(t, kinds) /\ v = w \o t

\* y is what a callback may make of x: the steady fields are the same, waitpdu
\* has only grown, and the connection is corked only if a Logout may be queued.
Kept(x, y, kinds) ==
  /\ Shape(y, kinds)
  /\ \A f \in Steady : y[f] = x[f]
  /\ \A f \in SteadyTgt : y.tgt[f] = x.tgt[f]
  /\ \A f \in SteadyApp : y.app[f] = x.app[f]
  /\ Grown(x.wait, y.wait, kinds)
  /\ "logout" \notin kinds /\ ~x.is_corked => ~y.is_corked

\* Nothing appended.
LEMMA GrownSame ==
  ASSUME NEW w, NEW kinds, NEW all, Queue(w, all)
  PROVE  Grown(w, w, kinds)
<1>1. PICK S : w \in Seq(S)
  BY DEF Queue
<1>2. w = w \o << >>
  BY <1>1, ConcatEmptySeq
<1> QED
  BY <1>2, QueueEmpty DEF Grown

\* One callback after another.
LEMMA KeptTransitive ==
  ASSUME NEW x, NEW y, NEW z, NEW kinds, kinds \subseteq Kinds, Queue(x.wait, Kinds),
         Kept(x, y, kinds), Kept(y, z, kinds)
  PROVE  Kept(x, z, kinds)
<1>1. PICK t : Queue(t, kinds) /\ y.wait = x.wait \o t
  BY DEF Kept, Grown
<1>2. PICK u : Queue(u, kinds) /\ z.wait = y.wait \o u
  BY DEF Kept, Grown
<1>3. PICK S : x.wait \in Seq(S)
  BY DEF Queue
<1>4. PICK T : t \in Seq(T)
  BY <1>1 DEF Queue
<1>5. PICK U : u \in Seq(U)
  BY <1>2 DEF Queue
<1> DEFINE R == S \cup T \cup U
<1>6. x.wait \in Seq(R) /\ t \in Seq(R) /\ u \in Seq(R)
  BY <1>3, <1>4, <1>5, SeqMonotonic
<1> HIDE DEF R
<1>7. (x.wait \o t) \o u = x.wait \o (t \o u)
  <2> DEFINE w == x.wait
  <2>1. w \in Seq(R)
    BY <1>6
  <2> HIDE DEF w
  <2>2. (w \o t) \o u = w \o (t \o u)
    BY <1>6, <2>1, ConcatAssociative
  <2> QED
    BY <2>2 DEF w
<1>8. Queue(t \o u, kinds)
  BY <1>1, <1>2, QueueConcat
<1>9. Grown(x.wait, z.wait, kinds)
  BY <1>1, <1>2, <1>7, <1>8 DEF Grown
<1> QED
  BY <1>9 DEF Kept

LEMMA KeptSame ==
  ASSUME NEW x, NEW kinds, Shape(x, kinds)
  PROVE  Kept(x, x, kinds)
<1>1. Grown(x.wait, x.wait, kinds)
  BY GrownSame DEF Shape
<1> QED
  BY <1>1 DEF Kept

\* Changing what is neither steady nor a queue.
LEMMA KeptOther ==
  ASSUME NEW x, NEW kinds, Shape(x, kinds), NEW y, DOMAIN y = Fields,
         \A f \in Steady \cup {"is_corked", "out", "wait", "old", "tgt", "app"} : y[f] = x[f]
  PROVE  Kept(x, y, kinds)
<1>1. y.wait = x.wait /\ y.out = x.out /\ y.old = x.old /\ y.tgt = x.tgt /\ y.app = x.app
      /\ y.is_corked = x.is_corked
  OBVIOUS
<1>2. Kept(x, x, kinds)
  BY KeptSame
<1> QED
  BY <1>1, <1>2 DEF Kept, Shape

\* The operators of the model, innermost first: each of them keeps the frame.
LEMMA ArriveKeeps ==
  ASSUME NEW t, NEW s, NEW b, DOMAIN t = SteadyTgt \cup {"expect", "strange"}
  PROVE  /\ DOMAIN Arrive(t, s, b) = DOMAIN t
         /\ \A f \in SteadyTgt : Arrive(t, s, b)[f] = t[f]
BY DEF Arrive, SteadyTgt

LEMMA DrainKeeps ==
  ASSUME NEW x, NEW kinds, Admits(kinds), Shape(x, kinds)
  PROVE  Kept(x, Drain(x), kinds)
<1> DEFINE I == {i \in 1 .. Len(x.out) : x.out[i].kind = "logout"}
           n == IF I # {} THEN Min(I) ELSE 0
           k == IF n = 0 THEN Len(x.out) ELSE n
           s == SubSeq(x.out, 1, k)
           o == SubSeq(x.out, k + 1, Len(x.out))
           u == OfKind(s, Kinds \ {"pong"})
           w == x.wait \o u
           t == Arrive(x.tgt, s, x.is_loggedin)
           b == n # 0
           y == [x EXCEPT !.out = o, !.wait = w, !.tgt = t, !.is_corked = b]
<1>1. Drain(x) = x \/ Drain(x) = y
  BY Zenon DEF Drain, SelectInSeq
<1>2. /\ DOMAIN t = DOMAIN x.tgt
      /\ \A f \in SteadyTgt : t[f] = x.tgt[f]
  <2> HIDE DEF s
  <2> QED
    BY ArriveKeeps DEF Shape
<1>3. /\ Queue(x.out, kinds) /\ Len(x.out) \in Nat /\ kinds \subseteq Kinds
      /\ \A i \in 1 .. Len(x.out) : x.out[i].kind \in kinds
  BY QueueIs DEF Shape, Admits
<1>4. I \in SUBSET Nat
  BY <1>3
<1>5. I # {} => Min(I) \in I
  <2> HIDE DEF I
  <2> QED
    BY <1>4, MinIsLeast
<1>6. n \in 0 .. Len(x.out)
  BY <1>3, <1>5
<1>7. "logout" \notin kinds => ~b
  BY <1>3
<1> HIDE DEF n
<1>8. k \in 0 .. Len(x.out)
  BY <1>3, <1>6
<1> HIDE DEF k
<1>9. Queue(s, kinds) /\ Queue(o, kinds)
  BY <1>3, <1>8, QueueSub
<1> HIDE DEF s, o, b
<1>10. Queue(u, kinds)
  <2>1. Queue(u, kinds \cap (Kinds \ {"pong"}))
    BY <1>9, QueueOfKind
  <2> QED
    BY <2>1, QueueMonotonic
<1> HIDE DEF u
<1>11. Queue(w, Kinds) /\ Grown(x.wait, w, kinds)
  BY <1>3, <1>10, QueueMonotonic, QueueConcat DEF Shape, Grown
<1> HIDE DEF w, t
<1>12. /\ DOMAIN y = Fields
       /\ \A f \in Steady : y[f] = x[f]
       /\ y.tgt = t /\ y.app = x.app /\ y.out = o /\ y.wait = w /\ y.old = x.old
       /\ y.is_corked = b
  BY DEF Shape, Steady, Fields
<1> HIDE DEF y
<1>13. Kept(x, y, kinds)
  BY <1>2, <1>7, <1>9, <1>11, <1>12 DEF Kept, Shape
<1> QED
  BY <1>1, <1>13, KeptSame

LEMMA EnqueueKeeps ==
  ASSUME NEW x, NEW kinds, Admits(kinds), Shape(x, kinds),
         NEW p, DOMAIN p = FrameFields, p.kind \in kinds
  PROVE  Kept(x, Enqueue(x, p), kinds)
<1> DEFINE q == Sorted(x.out, p)
           y == [x EXCEPT !.out = q]
<1>1. Enqueue(x, p) = Drain(y)
  BY DEF Enqueue
<1>2. Queue(q, kinds)
  BY QueueSorted DEF Shape
<1> HIDE DEF q
<1>3. /\ DOMAIN y = Fields /\ y.out = q
      /\ \A f \in Fields \ {"out"} : y[f] = x[f]
  BY DEF Shape, Steady, Fields
<1> HIDE DEF y
<1>4. /\ \A f \in Steady : y[f] = x[f]
      /\ y.tgt = x.tgt /\ y.app = x.app /\ y.wait = x.wait /\ y.old = x.old
      /\ y.is_corked = x.is_corked
  BY <1>3 DEF Fields, Steady
<1>5. Kept(x, y, kinds)
  BY <1>2, <1>3, <1>4, KeptSame DEF Kept, Shape
<1>6. Kept(y, Drain(y), kinds)
  BY <1>5, DrainKeeps DEF Kept
<1> QED
  BY <1>1, <1>5, <1>6, KeptTransitive DEF Shape, Admits

\* Commands picks no immediate PDU.
LEMMA CommandsQueue ==
  ASSUME NEW s, Queue(s, Kinds)
  PROVE  Queue(Commands(s), Kinds \ Immediates)
<1>1. Queue(Commands(s), Kinds \cap (Kinds \ Immediates))
  BY QueueOfKind DEF Commands
<1> QED
  BY <1>1, QueueMonotonic

LEMMA ReissueKeeps ==
  ASSUME NEW x, NEW kinds, Admits(kinds), Shape(x, kinds), NEW s, Queue(s, Kinds)
  PROVE  Kept(x, Reissue(x, s), kinds)
<1> DEFINE cmds == Commands(s)
           dropped == {p.id : p \in {q \in Range(s) : q.kind = "tmf"}}
           anew == [i \in DOMAIN cmds |-> [cmds[i] EXCEPT !.sn = x.cmdsn + i - 1]]
           o == x.out \o anew
           sn == x.cmdsn + Len(cmds)
           done == [r \in Reqs |-> IF r \in dropped
                                   THEN Append(x.app.done[r], "CANCELLED") ELSE x.app.done[r]]
           lost == x.app.astray \/ Interrupted(x, s)
           a == [x.app EXCEPT !.astray = lost, !.done = done]
           y == [x EXCEPT !.out = o, !.cmdsn = sn, !.app = a]
<1>0. DOMAIN x = Fields /\ DOMAIN x.app = SteadyApp \cup {"conn", "done", "astray"}
  BY DEF Shape
<1>1. Reissue(x, s) = Drain(y)
  <2> DEFINE z == [x EXCEPT !.out = o, !.cmdsn = sn, !.app.astray = lost, !.app.done = done]
  <2>1. z = y
    <3> HIDE DEF o, sn, lost, done
    <3> QED
      BY <1>0 DEF Fields, SteadyApp
  <2>2. Reissue(x, s) = Drain(z)
    BY <1>0 DEF Reissue, Fields, SteadyApp
  <2> HIDE DEF y, z
  <2> QED
    BY <2>1, <2>2
<1>2. Queue(cmds, Kinds \ Immediates)
  BY CommandsQueue
<1> HIDE DEF cmds
<1>3. /\ Len(cmds) \in Nat /\ DOMAIN cmds = 1 .. Len(cmds)
      /\ \A i \in 1 .. Len(cmds) : DOMAIN cmds[i] = FrameFields /\ cmds[i].kind \in Kinds \ Immediates
  BY <1>2, QueueIs
<1>4. Queue(anew, Kinds \ Immediates)
  <2>1. anew = [k \in 1 .. Len(cmds) |-> anew[k]]
    BY <1>3
  <2>2. \A k \in 1 .. Len(cmds) :
          DOMAIN anew[k] = FrameFields /\ anew[k].kind \in Kinds \ Immediates
    BY <1>3 DEF FrameFields
  <2> HIDE DEF anew
  <2> QED
    BY <1>3, <2>1, <2>2, QueueFunction
<1> HIDE DEF anew
<1>5. Queue(o, kinds)
  <2>1. Queue(anew, kinds)
    BY <1>4, QueueMonotonic DEF Admits, Immediates
  <2> QED
    BY <2>1, QueueConcat DEF Shape
<1> HIDE DEF o, sn, done, lost
<1>6. /\ DOMAIN y = Fields /\ y.out = o
      /\ \A f \in Steady \cup {"is_corked", "wait", "old", "tgt"} : y[f] = x[f]
      /\ DOMAIN y.app = DOMAIN x.app
      /\ \A f \in SteadyApp : y.app[f] = x.app[f]
  BY DEF Shape, Steady, Fields, SteadyApp
<1> HIDE DEF y
<1>7. Kept(x, y, kinds)
  <2>1. y.tgt = x.tgt /\ y.wait = x.wait /\ y.old = x.old /\ y.is_corked = x.is_corked
    BY <1>6
  <2> QED
    BY <1>5, <1>6, <2>1, KeptSame DEF Kept, Shape
<1>8. Kept(y, Drain(y), kinds)
  BY <1>7, DrainKeeps DEF Kept
<1> QED
  BY <1>1, <1>7, <1>8, KeptTransitive DEF Shape, Admits

LEMMA ReconnectCbKeeps ==
  ASSUME NEW x, NEW kinds, Admits(kinds), Shape(x, kinds), NEW st
  PROVE  Kept(x, iscsi_reconnect_cb(x, st), kinds)
<1>1. CASE st # "GOOD"
  <2> DEFINE n == x.old.retry + 1
             e == ~Exceeded(n) /\ Backoff(n, 0) > 0
             y == [x EXCEPT !.old.retry = n, !.early = e, !.pending = TRUE]
  <2>1. iscsi_reconnect_cb(x, st) = y
    BY <1>1 DEF iscsi_reconnect_cb
  <2> HIDE DEF n, e
  <2>2. /\ DOMAIN y = Fields
        /\ \A f \in Steady \cup {"is_corked", "out", "wait", "tgt", "app"} : y[f] = x[f]
        /\ DOMAIN y.old = DOMAIN x.old
        /\ y.old.out = x.old.out /\ y.old.wait = x.old.wait
    BY DEF Shape, Steady, Fields
  <2> HIDE DEF y
  <2>3. /\ y.wait = x.wait /\ y.out = x.out /\ y.tgt = x.tgt /\ y.app = x.app
        /\ y.is_corked = x.is_corked
    BY <2>2
  <2>4. Kept(x, y, kinds)
    BY <2>2, <2>3, KeptSame DEF Kept, Shape
  <2> QED
    BY <2>1, <2>4
<1>2. CASE st = "GOOD"
  <2> DEFINE y == [x EXCEPT !.old = NoOld]
             z == Reissue(y, Carried(x.old))
             u == [z EXCEPT !.early = TRUE, !.pending = FALSE]
  <2>1. iscsi_reconnect_cb(x, st) = u
    BY <1>2 DEF iscsi_reconnect_cb
  <2>2. /\ DOMAIN y = Fields
        /\ \A f \in Steady \cup {"is_corked", "out", "wait", "tgt", "app"} : y[f] = x[f]
        /\ y.old = NoOld
    BY DEF Shape, Steady, Fields
  <2> HIDE DEF y
  <2>3. /\ y.wait = x.wait /\ y.out = x.out /\ y.tgt = x.tgt /\ y.app = x.app
        /\ y.is_corked = x.is_corked
    BY <2>2
  <2>4. /\ {"out", "wait", "retry"} \subseteq DOMAIN NoOld
        /\ Queue(NoOld.out, Kinds) /\ Queue(NoOld.wait, Kinds)
    BY QueueEmpty DEF NoOld
  <2>5. Kept(x, y, kinds)
    BY <2>2, <2>3, <2>4, KeptSame DEF Kept, Shape
  <2>6. Queue(Carried(x.old), Kinds)
    BY QueueConcat DEF Carried, Shape
  <2>7. Kept(y, z, kinds)
    BY <2>5, <2>6, ReissueKeeps DEF Kept
  <2> HIDE DEF z
  <2>8. /\ DOMAIN u = Fields
        /\ \A f \in Steady \cup {"is_corked", "out", "wait", "old", "tgt", "app"} : u[f] = z[f]
    BY <2>7 DEF Kept, Shape, Steady, Fields
  <2> HIDE DEF u
  <2>9. Kept(z, u, kinds)
    BY <2>7, <2>8, KeptOther DEF Kept
  <2>10. Kept(x, z, kinds)
    BY <2>5, <2>7, KeptTransitive DEF Admits, Shape
  <2> QED
    BY <2>1, <2>9, <2>10, KeptTransitive DEF Admits, Shape
<1> QED
  BY <1>1, <1>2

LEMMA CtCbKeeps ==
  ASSUME NEW x, NEW kinds, Admits(kinds), Shape(x, kinds), NEW ct, NEW st
  PROVE  Kept(x, CtCb(x, ct, st), kinds)
<1> DEFINE y == [x EXCEPT !.app.conn = Append(@, st)]
<1>1. /\ DOMAIN y = Fields
      /\ \A f \in Steady \cup {"is_corked", "out", "wait", "old", "tgt"} : y[f] = x[f]
      /\ DOMAIN y.app = DOMAIN x.app
      /\ \A f \in SteadyApp : y.app[f] = x.app[f]
  BY DEF Shape, Steady, Fields, SteadyApp
<1>2. CtCb(x, ct, st) \in {y, iscsi_reconnect_cb(x, st)}
  BY DEF CtCb
<1> HIDE DEF y
<1>3. /\ y.wait = x.wait /\ y.out = x.out /\ y.tgt = x.tgt /\ y.old = x.old
      /\ y.is_corked = x.is_corked
  BY <1>1
<1>4. Kept(x, y, kinds)
  BY <1>1, <1>3, KeptSame DEF Kept, Shape
<1> QED
  BY <1>2, <1>4, ReconnectCbKeeps

\* Pdu builds a PDU.
LEMMA PduIsFrame ==
  ASSUME NEW kind, NEW id, NEW sn, NEW ct
  PROVE  /\ DOMAIN Pdu(kind, id, sn, ct) = FrameFields
         /\ Pdu(kind, id, sn, ct).kind = kind
BY DEF Pdu, FrameFields

\* A context is marked as lost.
LEMMA AstrayKeeps ==
  ASSUME NEW x, NEW kinds, Shape(x, kinds)
  PROVE  Kept(x, Astray(x), kinds)
<1> DEFINE y == Astray(x)
<1>1. /\ DOMAIN y = Fields
      /\ \A f \in Steady \cup {"is_corked", "out", "wait", "old", "tgt"} : y[f] = x[f]
      /\ DOMAIN y.app = DOMAIN x.app
      /\ \A f \in SteadyApp : y.app[f] = x.app[f]
  BY DEF Astray, Shape, Steady, Fields, SteadyApp
<1> HIDE DEF y
<1>2. /\ y.wait = x.wait /\ y.out = x.out /\ y.tgt = x.tgt /\ y.old = x.old
      /\ y.is_corked = x.is_corked
  BY <1>1
<1>3. Kept(x, y, kinds)
  BY <1>1, <1>2, KeptSame DEF Kept, Shape
<1> QED
  BY <1>3 DEF y

LEMMA AskKeeps ==
  ASSUME NEW x, NEW kinds, Admits(kinds), Shape(x, kinds), NEW kind \in Internal, NEW ct
  PROVE  Kept(x, Ask(x, kind, ct), kinds)
<1> DEFINE y == [x EXCEPT !.cmdsn = @ + 1]
           p == Pdu(kind, 0, x.cmdsn, ct)
           e == Enqueue(y, p)
           w == [e EXCEPT !.pending = TRUE]
<1>1. Ask(x, kind, ct) \in {e, w, Astray(e), CtCb(x, ct, "ERROR")}
  BY DEF Ask, ScsiCommand
<1>2. /\ DOMAIN y = Fields
      /\ \A f \in Steady \cup {"is_corked", "out", "wait", "old", "tgt", "app"} : y[f] = x[f]
  BY DEF Shape, Steady, Fields
<1> HIDE DEF y
<1>3. Kept(x, y, kinds)
  BY <1>2, KeptOther
<1>4. DOMAIN p = FrameFields /\ p.kind \in kinds
  BY PduIsFrame DEF Admits, Internal, Kinds
<1> HIDE DEF p
<1>5. Kept(y, e, kinds)
  BY <1>3, <1>4, EnqueueKeeps DEF Kept
<1>6. Kept(x, e, kinds)
  BY <1>3, <1>5, KeptTransitive DEF Admits, Shape
<1> HIDE DEF e
<1>7. /\ DOMAIN w = Fields
      /\ \A f \in Steady \cup {"is_corked", "out", "wait", "old", "tgt", "app"} : w[f] = e[f]
  BY <1>6 DEF Kept, Shape, Steady, Fields
<1> HIDE DEF w
<1>8. Kept(e, w, kinds)
  BY <1>6, <1>7, KeptOther DEF Kept
<1>9. Kept(e, Astray(e), kinds)
  BY <1>6, AstrayKeeps DEF Kept
<1>10. Kept(x, w, kinds) /\ Kept(x, Astray(e), kinds)
  BY <1>6, <1>8, <1>9, KeptTransitive DEF Admits, Shape
<1> QED
  BY <1>1, <1>6, <1>10, CtCbKeeps

LEMMA ProbeKeeps ==
  ASSUME NEW x, NEW kinds, Admits(kinds), Shape(x, kinds), NEW ct, NEW w
  PROVE  /\ Kept(x, iscsi_testunitready_cb(x, ct, w), kinds)
         /\ Kept(x, iscsi_inquiry_page_0x0_cb(x, ct, w), kinds)
         /\ Kept(x, iscsi_inquiry_page_0x80_cb(x, ct, w), kinds)
<1>0. {"tur", "inq", "usn"} = Internal
  BY DEF Internal
<1>1. Kept(x, iscsi_testunitready_cb(x, ct, w), kinds)
  <2> DEFINE t == [ct EXCEPT !.uas = @ + 1]
  <2>1. iscsi_testunitready_cb(x, ct, w) \in
          {CtCb(x, t, "ERROR"), Ask(x, "tur", t), Ask(x, "inq", ct), CtCb(x, ct, "ERROR")}
    BY DEF iscsi_testunitready_cb
  <2> HIDE DEF t
  <2> QED
    BY <1>0, <2>1, CtCbKeeps, AskKeeps
<1>2. Kept(x, iscsi_inquiry_page_0x0_cb(x, ct, w), kinds)
  <2>1. iscsi_inquiry_page_0x0_cb(x, ct, w) \in
          {CtCb(x, ct, "ERROR"), Ask(x, "usn", ct), CtCb(x, ct, "GOOD")}
    BY DEF iscsi_inquiry_page_0x0_cb
  <2> QED
    BY <1>0, <2>1, CtCbKeeps, AskKeeps
<1>3. Kept(x, iscsi_inquiry_page_0x80_cb(x, ct, w), kinds)
  <2> DEFINE y == [x EXCEPT !.usn = w]
  <2>1. iscsi_inquiry_page_0x80_cb(x, ct, w) \in {CtCb(x, ct, "ERROR"), CtCb(y, ct, "GOOD")}
    BY DEF iscsi_inquiry_page_0x80_cb
  <2>2. /\ DOMAIN y = Fields
        /\ \A f \in Steady \cup {"is_corked", "out", "wait", "old", "tgt", "app"} : y[f] = x[f]
    BY DEF Shape, Steady, Fields
  <2> HIDE DEF y
  <2>3. Kept(x, y, kinds)
    BY <2>2, KeptOther
  <2>4. Kept(y, CtCb(y, ct, "GOOD"), kinds)
    BY <2>3, CtCbKeeps DEF Kept
  <2>5. Kept(x, CtCb(y, ct, "GOOD"), kinds)
    BY <2>3, <2>4, KeptTransitive DEF Admits, Shape
  <2> QED
    BY <2>1, <2>5, CtCbKeeps
<1> QED
  BY <1>1, <1>2, <1>3

LEMMA LoginCbKeeps ==
  ASSUME NEW x, NEW kinds, Admits(kinds), Shape(x, kinds),
         NEW ct, NEW st, st # "REDIRECT", NEW ok
  PROVE  Kept(x, iscsi_login_cb(x, ct, st, ok), kinds)
<1>1. iscsi_login_cb(x, ct, st, ok) \in
        {CtCb(x, ct, "ERROR"), Ask(x, "tur", ct), Ask(x, "inq", ct), CtCb(x, ct, "GOOD")}
  BY DEF iscsi_login_cb
<1>2. "tur" \in Internal /\ "inq" \in Internal
  BY DEF Internal
<1> QED
  BY <1>1, <1>2, CtCbKeeps, AskKeeps

LEMMA PduCbKeeps ==
  ASSUME NEW x, NEW kinds, Admits(kinds), Shape(x, kinds),
         NEW p, p.kind \in Kinds, NEW st \in {"CANCELLED", "TIMEOUT"}
  PROVE  Kept(x, PduCb(x, p, st), kinds)
<1> DEFINE y == Deliver(x, p.id, st)
           z == [x EXCEPT !.pending = TRUE]
<1>1. PduCb(x, p, st) \in
        {x, y, z, iscsi_login_cb(x, p.ct, st, TRUE), iscsi_testunitready_cb(x, p.ct, st),
         iscsi_inquiry_page_0x0_cb(x, p.ct, "none"), iscsi_inquiry_page_0x80_cb(x, p.ct, "none")}
  BY DEF PduCb, Kinds, Internal, Immediates
<1>2. /\ DOMAIN y = Fields
      /\ \A f \in Steady \cup {"is_corked", "out", "wait", "old", "tgt"} : y[f] = x[f]
      /\ DOMAIN y.app = DOMAIN x.app
      /\ \A f \in SteadyApp : y.app[f] = x.app[f]
  BY DEF Deliver, Shape, Steady, Fields, SteadyApp
<1>3. /\ DOMAIN z = Fields
      /\ \A f \in Steady \cup {"is_corked", "out", "wait", "old", "tgt", "app"} : z[f] = x[f]
  BY DEF Shape, Steady, Fields
<1> HIDE DEF y, z
<1>4. Kept(x, y, kinds)
  <2>1. /\ y.wait = x.wait /\ y.out = x.out /\ y.tgt = x.tgt /\ y.old = x.old
        /\ y.is_corked = x.is_corked
    BY <1>2
  <2> QED
    BY <1>2, <2>1, KeptSame DEF Kept, Shape
<1>5. Kept(x, z, kinds)
  BY <1>3, KeptOther
<1> QED
  BY <1>1, <1>4, <1>5, KeptSame, LoginCbKeeps, ProbeKeeps

\* The contexts between the callbacks of iscsi_cancel_pdus.
Cancelling(x, s, f) ==
  f = [i \in 0 .. Len(s) |->
         IF i = 0
         THEN [x EXCEPT !.out = << >>, !.wait = << >>, !.cmdsn = @ - Len(Commands(x.out))]
         ELSE PduCb(f[i - 1], s[i], "CANCELLED")]

\* The recursive function of CancelPdus exists, as for OfKind.
LEMMA CancelSteps ==
  ASSUME NEW x, Len(x.out \o x.wait) \in Nat
  PROVE  LET s == x.out \o x.wait
         IN  \E f : Cancelling(x, s, f) /\ CancelPdus(x) = f[Len(s)]
<1> DEFINE s == x.out \o x.wait
           base == [x EXCEPT !.out = << >>, !.wait = << >>, !.cmdsn = @ - Len(Commands(x.out))]
           Step(y, i) == PduCb(y, s[i], "CANCELLED")
           Good(n, f) == f = [i \in 0 .. n |-> IF i = 0 THEN base ELSE Step(f[i - 1], i)]
           T == {n \in Nat : ~ \E f : Good(n, f)}
<1>1. \A f : Good(Len(s), f) <=> Cancelling(x, s, f)
  BY DEF Cancelling
<1>2. CancelPdus(x) = (CHOOSE f : Good(Len(s), f))[Len(s)]
  BY DEF CancelPdus
<1>3. Len(s) \in Nat
  OBVIOUS
<1> HIDE DEF base, Step, s
<1>4. Good(0, [i \in 0 .. 0 |-> base])
  OBVIOUS
<1>5. ASSUME NEW m \in Nat, m # 0, NEW f, Good(m - 1, f)
      PROVE  \E g : Good(m, g)
  <2> DEFINE g == [i \in 0 .. m |-> IF i = m THEN Step(f[m - 1], m) ELSE f[i]]
  <2>1. \A i \in 0 .. (m - 1) : f[i] = IF i = 0 THEN base ELSE Step(f[i - 1], i)
    BY <1>5
  <2>2. /\ \A i \in 0 .. (m - 1) : g[i] = f[i]
        /\ g[m] = Step(f[m - 1], m)
    BY <1>5
  <2> HIDE DEF Good
  <2>3. ASSUME NEW i \in 0 .. m
        PROVE  g[i] = IF i = 0 THEN base ELSE Step(g[i - 1], i)
    <3>1. i = m \/ i \in 0 .. (m - 1)
      OBVIOUS
    <3>2. i # 0 => g[i - 1] = f[i - 1]
      BY <2>2
    <3> HIDE DEF g
    <3> QED
      BY <3>1, <3>2, <2>1, <2>2, <1>5
  <2>4. g = [i \in 0 .. m |-> IF i = 0 THEN base ELSE Step(g[i - 1], i)]
    <3>1. g = [i \in 0 .. m |-> g[i]]
      OBVIOUS
    <3> HIDE DEF g
    <3> QED
      BY <3>1, <2>3
  <2> QED
    BY <2>4 DEF Good
<1> HIDE DEF Good
<1>6. T = {}
  <2>1. ASSUME T # {} PROVE FALSE
    <3>1. PICK m \in T : \A k \in T : m <= k
      BY <2>1, Smallest
    <3>2. m \in Nat /\ m # 0
      BY <3>1, <1>4
    <3>3. m - 1 \in Nat /\ m - 1 \notin T
      BY <3>1, <3>2
    <3>4. \E f : Good(m - 1, f)
      BY <3>3
    <3> QED
      BY <3>1, <3>2, <3>4, <1>5
  <2> QED
    BY <2>1
<1>7. \E f : Good(Len(s), f)
  BY <1>3, <1>6
<1>8. Good(Len(s), CHOOSE f : Good(Len(s), f))
  BY <1>7
<1> QED
  BY <1>1, <1>2, <1>8 DEF s

\* iscsi_cancel_pdus empties the queues before it runs the callbacks.
Emptied(x) ==
  [x EXCEPT !.out = << >>, !.wait = << >>, !.cmdsn = @ - Len(Commands(x.out))]

\* iscsi_cancel_pdus empties both queues before it calls anybody back.
LEMMA EmptiedShape ==
  ASSUME NEW x, NEW kinds, NEW more, Shape(x, more)
  PROVE  /\ Shape(Emptied(x), kinds)
         /\ Emptied(x).out = << >> /\ Emptied(x).wait = << >>
         /\ \A f \in Fields \ {"out", "wait", "cmdsn"} : Emptied(x)[f] = x[f]
<1> DEFINE sn == x.cmdsn - Len(Commands(x.out))
           y == [x EXCEPT !.out = << >>, !.wait = << >>, !.cmdsn = sn]
<1>1. Emptied(x) = y
  BY DEF Emptied
<1> HIDE DEF sn
<1>2. /\ DOMAIN y = Fields /\ y.out = << >> /\ y.wait = << >>
      /\ \A f \in Fields \ {"out", "wait", "cmdsn"} : y[f] = x[f]
  BY DEF Shape, Steady, Fields
<1> HIDE DEF y
<1>3. y.tgt = x.tgt /\ y.app = x.app /\ y.old = x.old
  BY <1>2 DEF Fields
<1>4. Shape(y, kinds)
  BY <1>2, <1>3, QueueEmpty DEF Shape
<1> QED
  BY <1>1, <1>2, <1>4

\* All the callbacks of iscsi_cancel_pdus together are one.
LEMMA CancelKeeps ==
  ASSUME NEW x, NEW kinds, Admits(kinds), NEW more, more \subseteq Kinds, Shape(x, more)
  PROVE  Kept(Emptied(x), CancelPdus(x), kinds)
<1> DEFINE s == x.out \o x.wait
           y == Emptied(x)
<1>2. Shape(y, kinds)
  BY EmptiedShape
<1>3. Queue(s, Kinds)
  BY QueueConcat, QueueMonotonic DEF Shape
<1>4. Len(s) \in Nat /\ \A i \in 1 .. Len(s) : s[i].kind \in Kinds
  BY <1>3, QueueIs
<1>5. PICK f : Cancelling(x, s, f) /\ CancelPdus(x) = f[Len(s)]
  BY <1>4, CancelSteps
<1>6. \A i \in 0 .. Len(s) :
        f[i] = IF i = 0 THEN y ELSE PduCb(f[i - 1], s[i], "CANCELLED")
  BY <1>5 DEF Cancelling, Emptied
<1> HIDE DEF s, y
<1> DEFINE T == {n \in 0 .. Len(s) : ~Kept(y, f[n], kinds)}
<1>7. ASSUME T # {} PROVE FALSE
  <2>1. T \in SUBSET Nat
    BY <1>4
  <2>2. PICK m \in T : \A k \in T : m <= k
    <3> HIDE DEF T
    <3> QED
      BY <1>7, <2>1, Smallest
  <2>3. m # 0 /\ m \in 0 .. Len(s)
    <3>1. 0 \in 0 .. Len(s) /\ f[0] = y
      BY <1>4, <1>6
    <3>2. Kept(y, f[0], kinds)
      BY <1>2, <3>1, KeptSame
    <3> QED
      BY <2>2, <3>2
  <2>4. m - 1 \in 0 .. Len(s) /\ m \in 1 .. Len(s)
    BY <1>4, <2>3
  <2>5. Kept(y, f[m - 1], kinds)
    <3>1. m - 1 \notin T
      <4> HIDE DEF T
      <4> QED
        BY <2>2, <2>4
    <3> QED
      BY <3>1, <2>4
  <2>6. f[m] = PduCb(f[m - 1], s[m], "CANCELLED")
    BY <1>6, <2>3
  <2>7. Kept(f[m - 1], f[m], kinds)
    <3>1. Shape(f[m - 1], kinds) /\ s[m].kind \in Kinds
      BY <1>4, <2>4, <2>5 DEF Kept
    <3>2. Kept(f[m - 1], PduCb(f[m - 1], s[m], "CANCELLED"), kinds)
      BY <3>1, PduCbKeeps
    <3> QED
      BY <2>6, <3>2
  <2>8. Kept(y, f[m], kinds)
    BY <1>2, <2>5, <2>7, KeptTransitive DEF Admits, Shape
  <2> QED
    BY <2>2, <2>8
<1>8. Kept(y, CancelPdus(x), kinds)
  BY <1>4, <1>5, <1>7
<1> QED
  BY <1>8 DEF y

-----------------------------------------------------------------------------
(* The invariant of the login. *)

NoLogins == Kinds \ {"login"}

NoLogouts == Kinds \ {"login", "logout"}

\* A login request in a queue, and that there is at most one.
HasLogin(s) == \E i \in DOMAIN s : s[i].kind = "login"

Once(s) == \A i, j \in DOMAIN s : s[i].kind = "login" /\ s[j].kind = "login" => i = j

\* A connection is being made or a login request waits for its response.
Entering(x) == x.fd = "connecting" \/ HasLogin(x.wait)

Named == {"InitiatorName", "TargetName", "SessionType"}

\* One login request at a time: it is written at once, and waits alone.
OneRequest(x) ==
  /\ Once(x.wait)
  /\ x.fd = "connecting" => ~HasLogin(x.wait)
  /\ Entering(x) => /\ x.room /\ ~x.is_corked /\ Queue(x.out, NoLogouts)
                    /\ ~x.is_loggedin /\ x.current_phase # "FF"

\* What holds of the phases, the keys and what they settle.
Settled(x) ==
  /\ x.current_phase \in Stages /\ x.want \subseteq Digests
  /\ x.is_loggedin => x.current_phase # "SECNEG"
  /\ User /\ TargetUser /\ x.current_phase # "SECNEG" =>
       x.late \/ x.skewed \/ (x.proven /\ x.secneg_phase # "OFFER_CHAP")
  /\ x.current_phase # "FF" => x.digest = "None"
  /\ x.is_loggedin /\ ~x.skewed => x.digest = x.tgt.digest /\ (x.imm => x.tgt.imm)

\* What the target has been sent on its connection.
Told(x) ==
  /\ x.fd = "connecting" /\ ~x.late => x.secneg_phase = "OFFER_CHAP"
  /\ HasLogin(x.wait) /\ ~x.late => Named \subseteq x.tgt.sent
  /\ HasLogin(x.wait) /\ x.current_phase = "OPNEG" => OperationalKeys \subseteq x.tgt.sent
  /\ x.is_loggedin /\ ~x.late /\ ~x.skewed => OperationalKeys \cup Named \subseteq x.tgt.sent

\* From iscsi_full_connect_async on.
Core(x) == x.app.started /\ Shape(x, NoLogins) /\ OneRequest(x) /\ Settled(x) /\ Told(x)

\* Before iscsi_full_connect_async nothing has happened.
Idle(x) ==
  /\ ~x.app.started /\ ~x.app.astray
  /\ Shape(x, NoLogins) /\ Settled(x)
  /\ x.fd = "none" /\ x.old = NoOld /\ x.out = << >> /\ x.wait = << >>
  /\ x.room /\ ~x.is_loggedin /\ ~x.pending /\ ~x.early /\ ~x.deferred
  /\ ~x.is_corked /\ ~x.late /\ x.current_phase = "SECNEG" /\ x.secneg_phase = "OFFER_CHAP"

\* The inductive invariant.
LoginInv == Core(c) \/ Idle(c)

\* The fields Core looks at beyond these may change only as this allows.
Harmless(x, y) ==
  /\ Shape(y, NoLogins)
  /\ \A f \in {"current_phase", "secneg_phase", "proven", "skewed", "digest", "imm", "late", "want"} :
       y[f] = x[f]
  /\ \A f \in {"digest", "imm", "sent"} : y.tgt[f] = x.tgt[f]
  /\ y.app.started = x.app.started
  /\ y.is_loggedin => x.is_loggedin
  /\ y.fd = "connecting" => x.fd = "connecting"
  /\ HasLogin(y.wait) => HasLogin(x.wait)
  /\ Once(x.wait) => Once(y.wait)
  /\ Entering(x) => y.room /\ ~y.is_corked /\ Queue(y.out, NoLogouts)

\* Such a change keeps the invariant.
LEMMA HarmlessCore ==
  ASSUME NEW x, NEW y, Core(x), Harmless(x, y)
  PROVE  Core(y)
<1>1. /\ y.current_phase = x.current_phase /\ y.secneg_phase = x.secneg_phase
      /\ y.proven = x.proven /\ y.skewed = x.skewed /\ y.digest = x.digest /\ y.imm = x.imm
      /\ y.late = x.late /\ y.want = x.want
      /\ y.tgt.digest = x.tgt.digest /\ y.tgt.imm = x.tgt.imm /\ y.tgt.sent = x.tgt.sent
      /\ y.app.started = x.app.started
      /\ y.is_loggedin => x.is_loggedin
      /\ y.fd = "connecting" => x.fd = "connecting"
      /\ HasLogin(y.wait) => HasLogin(x.wait)
      /\ Shape(y, NoLogins)
  BY DEF Harmless
<1>2. Entering(y) => Entering(x)
  BY <1>1 DEF Entering
<1>3. OneRequest(y)
  BY <1>1, <1>2 DEF OneRequest, Core, Harmless
<1>4. Settled(y)
  BY <1>1 DEF Settled, Core
<1>5. Told(y)
  BY <1>1 DEF Told, Core
<1> QED
  BY <1>1, <1>3, <1>4, <1>5 DEF Core

\* Appending PDUs that are no login requests adds none.
LEMMA GrownLogins ==
  ASSUME NEW w, NEW v, NEW all, Queue(w, all), Grown(w, v, NoLogins)
  PROVE  (HasLogin(v) => HasLogin(w)) /\ (Once(w) => Once(v))
<1>1. PICK t : Queue(t, NoLogins) /\ v = w \o t
  BY DEF Grown
<1>2. PICK S : w \in Seq(S)
  BY DEF Queue
<1>3. PICK T : t \in Seq(T)
  BY <1>1 DEF Queue
<1>4. w \in Seq(S \cup T) /\ t \in Seq(S \cup T)
  BY <1>2, <1>3, SeqMonotonic
<1>5. /\ Len(w) \in Nat /\ DOMAIN w = 1 .. Len(w)
      /\ Len(t) \in Nat /\ DOMAIN t = 1 .. Len(t)
      /\ \A i \in 1 .. Len(t) : t[i].kind # "login"
  BY <1>1, QueueIs DEF NoLogins
<1>6. v \in Seq(S \cup T) /\ Len(v) = Len(w) + Len(t)
  BY <1>1, <1>4, ConcatProperties
<1>7. \A i \in 1 .. Len(w) + Len(t) : v[i] = IF i <= Len(w) THEN w[i] ELSE t[i - Len(w)]
  BY <1>1, <1>4, ConcatProperties
<1>8. DOMAIN v = 1 .. Len(w) + Len(t)
  BY <1>6, LenProperties
<1>9. \A i \in DOMAIN v : v[i].kind = "login" => i \in DOMAIN w /\ v[i] = w[i]
  <2> TAKE i \in DOMAIN v
  <2>1. CASE i <= Len(w)
    BY <2>1, <1>5, <1>7, <1>8
  <2>2. CASE ~(i <= Len(w))
    <3>1. i - Len(w) \in 1 .. Len(t) /\ v[i] = t[i - Len(w)]
      BY <2>2, <1>5, <1>7, <1>8
    <3> QED
      BY <3>1, <1>5
  <2> QED
    BY <2>1, <2>2
<1> QED
  BY <1>9 DEF HasLogin, Once

\* The two sets of kinds used below hold what a callback may queue.
LEMMA KindsAdmitted == Admits(NoLogins) /\ Admits(NoLogouts) /\ NoLogouts \subseteq NoLogins
BY DEF Admits, NoLogins, NoLogouts

\* A callback keeps the invariant.
LEMMA KeptCore ==
  ASSUME NEW x, NEW y, Core(x), Kept(x, y, NoLogins),
         Shape(x, NoLogouts) => Kept(x, y, NoLogouts)
  PROVE  Core(y)
<1>1. /\ y.current_phase = x.current_phase /\ y.secneg_phase = x.secneg_phase
      /\ y.proven = x.proven /\ y.skewed = x.skewed /\ y.digest = x.digest /\ y.imm = x.imm
      /\ y.late = x.late /\ y.want = x.want /\ y.is_loggedin = x.is_loggedin
      /\ y.fd = x.fd /\ y.room = x.room
      /\ y.app.started = x.app.started
      /\ \A f \in {"digest", "imm", "sent"} : y.tgt[f] = x.tgt[f]
  BY DEF Kept, Steady, SteadyTgt, SteadyApp
<1>2. (HasLogin(y.wait) => HasLogin(x.wait)) /\ (Once(x.wait) => Once(y.wait))
  BY GrownLogins DEF Kept, Core, Shape
<1>3. Entering(x) => y.room /\ ~y.is_corked /\ Queue(y.out, NoLogouts)
  <2>1. Entering(x) => Shape(x, NoLogouts) /\ x.room /\ ~x.is_corked
    BY DEF Core, OneRequest, Shape
  <2>2. "logout" \notin NoLogouts
    BY DEF NoLogouts
  <2> QED
    BY <1>1, <2>1, <2>2 DEF Kept, Shape
<1>4. Harmless(x, y)
  BY <1>1, <1>2, <1>3 DEF Harmless, Kept
<1> QED
  BY <1>4, HarmlessCore

\* The callbacks and the queueing of requests, by the frame.
LEMMA DrainCore == ASSUME NEW x, Core(x) PROVE Core(Drain(x))
BY KindsAdmitted, DrainKeeps, KeptCore DEF Core

LEMMA EnqueueCore ==
  ASSUME NEW x, Core(x), NEW p, DOMAIN p = FrameFields, p.kind \in NoLogouts
  PROVE  Core(Enqueue(x, p))
BY KindsAdmitted, EnqueueKeeps, KeptCore DEF Core

LEMMA CtCbCore == ASSUME NEW x, Core(x), NEW ct, NEW st PROVE Core(CtCb(x, ct, st))
BY KindsAdmitted, CtCbKeeps, KeptCore DEF Core

LEMMA ReconnectCbCore == ASSUME NEW x, Core(x), NEW st PROVE Core(iscsi_reconnect_cb(x, st))
BY KindsAdmitted, ReconnectCbKeeps, KeptCore DEF Core

LEMMA ProbeCore ==
  ASSUME NEW x, Core(x), NEW ct, NEW w
  PROVE  /\ Core(iscsi_testunitready_cb(x, ct, w))
         /\ Core(iscsi_inquiry_page_0x0_cb(x, ct, w))
         /\ Core(iscsi_inquiry_page_0x80_cb(x, ct, w))
BY KindsAdmitted, ProbeKeeps, KeptCore DEF Core

LEMMA LoginCbCore ==
  ASSUME NEW x, Core(x), NEW ct, NEW st, st # "REDIRECT", NEW ok
  PROVE  Core(iscsi_login_cb(x, ct, st, ok))
BY KindsAdmitted, LoginCbKeeps, KeptCore DEF Core

LEMMA PduCbCore ==
  ASSUME NEW x, Core(x), NEW p, p.kind \in Kinds, NEW st \in {"CANCELLED", "TIMEOUT"}
  PROVE  Core(PduCb(x, p, st))
BY KindsAdmitted, PduCbKeeps, KeptCore DEF Core

\* Changing what the invariant does not speak of.
LEMMA OtherCore ==
  ASSUME NEW x, NEW y, Core(x), DOMAIN y = Fields,
         \A f \in {"current_phase", "secneg_phase", "proven", "skewed", "digest", "imm", "late", "want",
                   "is_loggedin", "room", "is_corked", "wait"} : y[f] = x[f],
         y.fd = "connecting" => x.fd = "connecting",
         DOMAIN y.tgt = DOMAIN x.tgt,
         \A f \in {"digest", "imm", "sent"} : y.tgt[f] = x.tgt[f],
         DOMAIN y.app = DOMAIN x.app, y.app.started = x.app.started,
         Queue(y.out, NoLogins), Queue(x.out, NoLogouts) => Queue(y.out, NoLogouts),
         {"out", "wait", "retry"} \subseteq DOMAIN y.old,
         Queue(y.old.out, Kinds), Queue(y.old.wait, Kinds)
  PROVE  Core(y)
<1>1. /\ y.wait = x.wait /\ y.is_loggedin = x.is_loggedin
      /\ y.room = x.room /\ y.is_corked = x.is_corked
      /\ \A f \in {"current_phase", "secneg_phase", "proven", "skewed", "digest", "imm", "late", "want"} :
           y[f] = x[f]
  OBVIOUS
<1>2. Shape(y, NoLogins)
  BY <1>1 DEF Core, Shape
<1>3. Harmless(x, y)
  BY <1>1, <1>2 DEF Harmless, Core, OneRequest
<1> QED
  BY <1>3, HarmlessCore

\* The fields of which the invariant says nothing at all.
Minor == {"status_cb", "login_attempts", "chap_c", "deferred", "noauto", "tries", "forced",
          "pending", "early", "cmdsn", "usn"}

\* Changing only these keeps the invariant.
LEMMA MinorCore ==
  ASSUME NEW x, NEW y, Core(x), DOMAIN y = Fields,
         \A f \in Fields \ Minor : y[f] = x[f]
  PROVE  Core(y)
<1>1. /\ y.fd = x.fd /\ y.tgt = x.tgt /\ y.app = x.app /\ y.out = x.out /\ y.old = x.old
      /\ \A f \in {"current_phase", "secneg_phase", "proven", "skewed", "digest", "imm", "late", "want",
                   "is_loggedin", "room", "is_corked", "wait"} : y[f] = x[f]
  BY DEF Fields, Steady, Minor
<1> QED
  BY <1>1, OtherCore DEF Core, Shape

\* iscsi_cancel_pdus and the deferred reconnect.
LEMMA CancelCore == ASSUME NEW x, Core(x) PROVE Core(CancelPdus(x))
<1> DEFINE y == Emptied(x)
<1>1. /\ Shape(y, NoLogins) /\ Shape(y, NoLogouts)
      /\ y.out = << >> /\ y.wait = << >>
      /\ \A f \in Fields \ {"out", "wait", "cmdsn"} : y[f] = x[f]
  BY EmptiedShape DEF Core
<1> HIDE DEF y
<1>2. ~HasLogin(y.wait) /\ Once(y.wait)
  BY <1>1 DEF HasLogin, Once
<1>3. Harmless(x, y)
  BY <1>1, <1>2 DEF Harmless, Core, OneRequest, Shape, Fields, Steady
<1>4. Core(y)
  BY <1>3, HarmlessCore
<1>5. Kept(y, CancelPdus(x), NoLogins) /\ Kept(y, CancelPdus(x), NoLogouts)
  <2>1. NoLogins \subseteq Kinds
    BY DEF NoLogins
  <2> QED
    BY <2>1, CancelKeeps, KindsAdmitted DEF y, Core
<1> QED
  BY <1>4, <1>5, KeptCore

LEMMA DeferCore == ASSUME NEW x, Core(x) PROVE Core(iscsi_defer_reconnect(x))
<1> DEFINE y == [x EXCEPT !.deferred = TRUE]
<1>1. DOMAIN y = Fields /\ \A f \in Fields \ Minor : y[f] = x[f]
  BY DEF Core, Shape, Fields, Steady, Minor
<1>2. iscsi_defer_reconnect(x) = CancelPdus(y)
  BY DEF iscsi_defer_reconnect
<1> HIDE DEF y
<1> QED
  BY <1>1, <1>2, MinorCore, CancelCore

\* A new connection.
LEMMA ConnectCore ==
  ASSUME NEW x, x.app.started, Shape(x, NoLogouts), Settled(x), ~x.is_loggedin,
         x.current_phase # "FF", ~x.is_corked, ~HasLogin(x.wait),
         ~x.late => x.secneg_phase = "OFFER_CHAP", NEW ct, NEW ok
  PROVE  Core(iscsi_connect_async(x, ct, ok))
<1> DEFINE d == IF ok THEN "connecting" ELSE "none"
           s == IF ok THEN ct ELSE NoCt
           t == [expect |-> -1, digest |-> "None", imm |-> TRUE,
                 sent |-> {}, drawn |-> 0, strange |-> {}, mixed |-> FALSE]
           y == [x EXCEPT !.fd = d, !.status_cb = s, !.tgt = t, !.room = TRUE]
<1>1. iscsi_connect_async(x, ct, ok) = y
  BY DEF iscsi_connect_async
<1>2. DOMAIN t = SteadyTgt \cup {"expect", "strange"}
  BY DEF SteadyTgt
<1> HIDE DEF d, s, t
<1>3. /\ DOMAIN y = Fields /\ y.tgt = t /\ y.room = TRUE
      /\ \A f \in Fields \ {"fd", "status_cb", "tgt", "room"} : y[f] = x[f]
  BY DEF Shape, Fields, Steady
<1> HIDE DEF y
<1>4. /\ y.out = x.out /\ y.wait = x.wait /\ y.old = x.old /\ y.app = x.app
      /\ y.is_corked = x.is_corked /\ y.is_loggedin = x.is_loggedin
      /\ y.current_phase = x.current_phase /\ y.secneg_phase = x.secneg_phase
      /\ y.proven = x.proven /\ y.skewed = x.skewed /\ y.digest = x.digest /\ y.late = x.late /\ y.want = x.want
  BY <1>3 DEF Fields, Steady
<1>5. Shape(y, NoLogouts) /\ Shape(y, NoLogins)
  BY <1>2, <1>3, <1>4, KindsAdmitted, QueueMonotonic DEF Shape
<1>6. OneRequest(y)
  BY <1>3, <1>4 DEF OneRequest, HasLogin, Once, Shape
<1>7. Settled(y)
  BY <1>4 DEF Settled
<1>8. Told(y)
  BY <1>4 DEF Told
<1> QED
  BY <1>1, <1>4, <1>5, <1>6, <1>7, <1>8 DEF Core

\* reconnect() starts over on a fresh context, with what is left put aside.
LEMMA ReconnectCore ==
  ASSUME NEW x, Core(x), NEW force, NEW ok
  PROVE  Core(reconnect(x, force, ok))
<1> DEFINE o == IF x.old = NoOld THEN Aside(x) ELSE x.old
           n == IF x.old = NoOld THEN 1 ELSE x.tries + 1
           m == IF x.old = NoOld THEN 0 ELSE x.forced
           y == Fresh(x)
           z == [y EXCEPT !.old = o, !.tries = n, !.forced = m]
           w == [x EXCEPT !.pending = TRUE]
           ct == [cb |-> "reconnect", uas |-> 0]
<1>1. /\ DOMAIN y = Fields /\ y.out = << >> /\ y.wait = << >> /\ y.want = x.want
      /\ y.current_phase = "SECNEG" /\ y.secneg_phase = "OFFER_CHAP" /\ y.digest = "None"
      /\ y.is_loggedin = FALSE /\ y.is_corked = FALSE /\ y.late = FALSE
      /\ y.tgt = x.tgt /\ y.app = x.app /\ y.old = x.old
      /\ y.tries = x.tries /\ y.forced = x.forced
  BY DEF Fresh, Core, Shape, Fields, Steady
<1>2. reconnect(x, force, ok) \in
        {x, iscsi_defer_reconnect(x), w, iscsi_connect_async(z, ct, ok)}
  <2>1. z = [Fresh(x) EXCEPT !.old = IF x.old = NoOld THEN Aside(x) ELSE @,
                             !.tries = IF x.old = NoOld THEN 1 ELSE @ + 1,
                             !.forced = IF x.old = NoOld THEN 0 ELSE @]
    BY <1>1 DEF Fields, Steady
  <2> HIDE DEF z
  <2> QED
    BY <2>1 DEF reconnect, iscsi_full_connect_async
<1>3. /\ {"out", "wait", "retry"} \subseteq DOMAIN o
      /\ Queue(o.out, Kinds) /\ Queue(o.wait, Kinds)
  <2>1. Queue(x.out, Kinds)
    BY QueueMonotonic DEF Core, Shape, NoLogins
  <2>2. /\ {"out", "wait", "retry"} \subseteq DOMAIN Aside(x)
        /\ Aside(x).out = x.out /\ Aside(x).wait = x.wait
    BY DEF Aside
  <2> QED
    BY <2>1, <2>2 DEF Core, Shape
<1> HIDE DEF o, n, m, y
<1>4. /\ DOMAIN z = Fields /\ z.out = << >> /\ z.wait = << >> /\ z.want = x.want
      /\ z.current_phase = "SECNEG" /\ z.secneg_phase = "OFFER_CHAP" /\ z.digest = "None"
      /\ z.is_loggedin = FALSE /\ z.is_corked = FALSE /\ z.late = FALSE
      /\ z.tgt = x.tgt /\ z.app = x.app /\ z.old = o
  BY <1>1 DEF Fields, Steady
<1>5. DOMAIN w = Fields /\ \A f \in Fields \ Minor : w[f] = x[f]
  BY DEF Core, Shape, Fields, Steady, Minor
<1> HIDE DEF z, w
<1>6. Shape(z, NoLogouts)
  BY <1>3, <1>4, QueueEmpty DEF Core, Shape
<1>7. Settled(z)
  BY <1>4 DEF Settled, Stages, Core
<1>8. ~HasLogin(z.wait)
  BY <1>4 DEF HasLogin
<1>9. Core(iscsi_connect_async(z, ct, ok))
  BY <1>4, <1>6, <1>7, <1>8, ConnectCore DEF Core
<1>10. Core(w)
  BY <1>5, MinorCore
<1> QED
  BY <1>2, <1>9, <1>10, DeferCore

\* The service of a connection that has failed.
LEMMA ServiceCore ==
  ASSUME NEW x, Core(x), NEW ok
  PROVE  Core(iscsi_service_reconnect_if_loggedin(x, ok))
<1> DEFINE y == IF x.is_loggedin THEN reconnect(x, FALSE, ok) ELSE x
<1>1. Core(y)
  BY ReconnectCore
<1>2. iscsi_service_reconnect_if_loggedin(x, ok) \in {y, iscsi_reconnect_cb(y, "ERROR")}
  BY DEF iscsi_service_reconnect_if_loggedin, ReportFailure
<1> HIDE DEF y
<1> QED
  BY <1>1, <1>2, ReconnectCbCore

\* The service called from iscsi_add_to_outqueue.
LEMMA KickCore == ASSUME NEW x, Core(x), NEW ok PROVE Core(Kick(x, ok))
<1>1. Kick(x, ok) \in {x, reconnect(x, FALSE, ok), Drain(x),
                       iscsi_service_reconnect_if_loggedin(x, ok)}
  BY DEF Kick
<1> QED
  BY <1>1, ReconnectCore, DrainCore, ServiceCore

-----------------------------------------------------------------------------
(* One login request. *)

\* The operations on queues that keep a login request the only one.
LEMMA AppendOnce ==
  ASSUME NEW s, NEW all, Queue(s, all), NEW q
  PROVE  /\ HasLogin(Append(s, q)) => HasLogin(s) \/ q.kind = "login"
         /\ Once(s) /\ (q.kind = "login" => ~HasLogin(s)) => Once(Append(s, q))
<1> DEFINE t == Append(s, q)
<1>1. Len(s) \in Nat /\ DOMAIN s = 1 .. Len(s) /\ s \in Seq(Range(s))
  BY QueueIs
<1>2. s \in Seq(Range(s) \cup {q})
  BY <1>1, SeqMonotonic
<1>3. /\ DOMAIN t = 1 .. (Len(s) + 1)
      /\ \A i \in 1 .. (Len(s) + 1) : t[i] = IF i <= Len(s) THEN s[i] ELSE q
  BY <1>1, <1>2
<1> HIDE DEF t
<1>4. \A i \in DOMAIN t : (i \in DOMAIN s /\ t[i] = s[i]) \/ (i = Len(s) + 1 /\ t[i] = q)
  BY <1>1, <1>3
<1>5. (HasLogin(t) => HasLogin(s) \/ q.kind = "login")
      /\ (Once(s) /\ (q.kind = "login" => ~HasLogin(s)) => Once(t))
  BY <1>4 DEF HasLogin, Once
<1> QED
  BY <1>5 DEF t

LEMMA OfKindOnce ==
  ASSUME NEW s, NEW kinds, NEW all, Queue(s, all), Once(s)
  PROVE  Once(OfKind(s, kinds))
<1>1. /\ Len(s) \in Nat /\ DOMAIN s = 1 .. Len(s)
      /\ \A i \in 1 .. Len(s) : DOMAIN s[i] = FrameFields
  BY QueueIs
<1>2. PICK f : Picking(s, kinds, f) /\ OfKind(s, kinds) = f[Len(s)]
  BY <1>1, OfKindSteps
<1>3. \A i \in 0 .. Len(s) :
        f[i] = IF i = 0 THEN << >>
               ELSE IF s[i].kind \in kinds THEN Append(f[i - 1], s[i]) ELSE f[i - 1]
  BY <1>2 DEF Picking
<1> DEFINE any == {s[i].kind : i \in 1 .. Len(s)}
           P(n) == /\ Queue(f[n], any) /\ Once(f[n])
                   /\ HasLogin(f[n]) => \E i \in 1 .. n : s[i].kind = "login"
           T == {n \in 0 .. Len(s) : ~P(n)}
<1>4. P(0)
  <2>1. f[0] = << >>
    BY <1>1, <1>3
  <2> QED
    BY <2>1, QueueEmpty DEF HasLogin, Once
<1>5. ASSUME NEW m \in 1 .. Len(s), P(m - 1) PROVE P(m)
  <2>0. m \in 0 .. Len(s) /\ m # 0
    BY <1>1
  <2>1. CASE s[m].kind \in kinds
    <3>1. f[m] = Append(f[m - 1], s[m])
      BY <1>3, <2>0, <2>1
    <3>2. DOMAIN s[m] = FrameFields /\ s[m].kind \in any
      BY <1>1
    <3>3. s[m].kind = "login" => ~HasLogin(f[m - 1])
      <4>1. \A i \in 1 .. (m - 1) : i \in DOMAIN s /\ m \in DOMAIN s /\ i # m
        BY <1>1
      <4> QED
        BY <1>5, <4>1 DEF Once
    <3> HIDE DEF any
    <3>4. Queue(f[m], any)
      BY <1>5, <3>1, <3>2, QueueAppend
    <3>5. Once(f[m]) /\ (HasLogin(f[m]) => HasLogin(f[m - 1]) \/ s[m].kind = "login")
      BY <1>5, <3>1, <3>3, AppendOnce
    <3>6. HasLogin(f[m]) => \E i \in 1 .. m : s[i].kind = "login"
      BY <1>1, <1>5, <3>5
    <3> QED
      BY <3>4, <3>5, <3>6
  <2>2. CASE s[m].kind \notin kinds
    <3>1. f[m] = f[m - 1]
      BY <1>3, <2>0, <2>2
    <3> HIDE DEF any
    <3> QED
      BY <1>1, <1>5, <3>1
  <2> QED
    BY <2>1, <2>2
<1> HIDE DEF P
<1>6. ASSUME T # {} PROVE FALSE
  <2>1. T \in SUBSET Nat
    BY <1>1
  <2>2. PICK m \in T : \A k \in T : m <= k
    <3> HIDE DEF T
    <3> QED
      BY <1>6, <2>1, Smallest
  <2>3. m \in 1 .. Len(s) /\ m - 1 \in 0 .. Len(s)
    BY <1>1, <1>4, <2>2
  <2>4. m - 1 \notin T
    <3> HIDE DEF T
    <3> QED
      BY <2>2, <2>3
  <2>5. P(m - 1)
    BY <2>3, <2>4
  <2> QED
    BY <1>5, <2>2, <2>3, <2>5
<1>7. P(Len(s))
  BY <1>1, <1>6
<1> QED
  BY <1>2, <1>7 DEF P

LEMMA ConcatOnce ==
  ASSUME NEW w, NEW u, NEW all, Queue(w, all), Queue(u, all), ~HasLogin(w), Once(u)
  PROVE  Once(w \o u)
<1> DEFINE R == Range(w) \cup Range(u)
           v == w \o u
<1>1. /\ Len(w) \in Nat /\ DOMAIN w = 1 .. Len(w) /\ w \in Seq(Range(w))
      /\ Len(u) \in Nat /\ DOMAIN u = 1 .. Len(u) /\ u \in Seq(Range(u))
  BY QueueIs
<1>2. w \in Seq(R) /\ u \in Seq(R)
  BY <1>1, SeqMonotonic
<1> HIDE DEF R
<1>3. /\ v \in Seq(R) /\ Len(v) = Len(w) + Len(u)
      /\ \A i \in 1 .. Len(w) + Len(u) : v[i] = IF i <= Len(w) THEN w[i] ELSE u[i - Len(w)]
  BY <1>2, ConcatProperties
<1>4. DOMAIN v = 1 .. Len(w) + Len(u)
  BY <1>3, LenProperties
<1> HIDE DEF v
<1>5. \A i \in DOMAIN v : v[i].kind = "login" =>
        i - Len(w) \in DOMAIN u /\ v[i] = u[i - Len(w)]
  <2> TAKE i \in DOMAIN v
  <2>1. CASE i <= Len(w)
    BY <2>1, <1>1, <1>3, <1>4 DEF HasLogin
  <2>2. CASE ~(i <= Len(w))
    BY <2>2, <1>1, <1>3, <1>4
  <2> QED
    BY <2>1, <2>2
<1>6. \A i, j \in DOMAIN v : v[i].kind = "login" /\ v[j].kind = "login" =>
        i - Len(w) = j - Len(w) /\ i \in Int /\ j \in Int
  BY <1>1, <1>4, <1>5 DEF Once
<1>7. Once(v)
  BY <1>1, <1>6 DEF Once
<1> QED
  BY <1>7 DEF v

LEMMA SortedOnce ==
  ASSUME NEW s, Queue(s, NoLogins), NEW p, DOMAIN p = FrameFields
  PROVE  Once(Sorted(s, p))
<1>1. PICK q, i : \/ Sorted(s, p) = Append(s, q)
                  \/ i \in 1 .. Len(s) /\ Sorted(s, p) = InsertAt(s, i, q)
  BY SortedIs
<1>2. /\ Len(s) \in Nat /\ DOMAIN s = 1 .. Len(s) /\ s \in Seq(Range(s))
      /\ \A k \in DOMAIN s : s[k].kind # "login"
  BY QueueIs DEF NoLogins
<1>3. ~HasLogin(s) /\ Once(s)
  BY <1>2 DEF HasLogin, Once
<1>4. Once(Append(s, q))
  BY <1>3, AppendOnce
<1>5. ASSUME i \in 1 .. Len(s) PROVE Once(InsertAt(s, i, q))
  <2> DEFINE R == Range(s) \cup {q}
             t == InsertAt(s, i, q)
  <2>1. s \in Seq(R) /\ i \in 1 .. (Len(s) + 1) /\ q \in R
    BY <1>2, <1>5, SeqMonotonic
  <2> HIDE DEF R
  <2>2. t \in Seq(R) /\ Inserted(t, s, i, q)
    BY <2>1, InsertShape
  <2> HIDE DEF t
  <2>3. DOMAIN t = 1 .. (Len(s) + 1)
    BY <2>2, LenProperties DEF Inserted
  <2>4. \A k \in DOMAIN t : t[k].kind = "login" => k = i
    BY <1>2, <1>5, <2>2, <2>3 DEF Inserted
  <2>5. Once(t)
    BY <2>4 DEF Once
  <2> QED
    BY <2>5 DEF t
<1> QED
  BY <1>1, <1>4, <1>5

-----------------------------------------------------------------------------
(* The steps of the login. *)

\* A context with a connection on which no login request waits.
Ready(x) ==
  /\ x.app.started /\ Shape(x, NoLogouts) /\ Settled(x)
  /\ x.fd \in {"up", "dead"} /\ x.room /\ ~x.is_corked /\ ~HasLogin(x.wait)
  /\ ~x.is_loggedin /\ x.current_phase # "FF"

\* Such a context satisfies the invariant.
LEMMA ReadyCore == ASSUME NEW x, Ready(x) PROVE Core(x)
<1>1. Shape(x, NoLogins)
  BY KindsAdmitted, QueueMonotonic DEF Ready, Shape
<1>2. OneRequest(x)
  BY DEF Ready, OneRequest, Entering, HasLogin, Once
<1>3. Told(x)
  BY DEF Ready, Told
<1> QED
  BY <1>1, <1>2, <1>3 DEF Ready, Core

\* A login request is written at once and waits as the only one.
LEMMA LoginEnqueue ==
  ASSUME NEW x, Ready(x), x.fd = "up", NEW p, DOMAIN p = FrameFields, p.kind = "login"
  PROVE  LET e == Enqueue(x, p) IN
         /\ Shape(e, NoLogouts) /\ Once(e.wait) /\ ~e.is_corked
         /\ \A f \in Steady : e[f] = x[f]
         /\ \A f \in SteadyTgt : e.tgt[f] = x.tgt[f]
         /\ \A f \in SteadyApp : e.app[f] = x.app[f]
<1> DEFINE K == Kinds \ {"logout"}
           q == Sorted(x.out, p)
           y == [x EXCEPT !.out = q]
           e == Enqueue(x, p)
<1>1. Admits(K) /\ "login" \in K /\ "logout" \notin K /\ NoLogouts \subseteq K /\ K \subseteq Kinds
  BY DEF Admits, NoLogouts, Kinds, Immediates
<1> HIDE DEF K
<1>2. Shape(x, K)
  BY <1>1, QueueMonotonic DEF Ready, Shape
<1>3. Kept(x, e, K)
  BY <1>1, <1>2, EnqueueKeeps
<1>4. Queue(x.out, NoLogouts) /\ Queue(x.out, NoLogins) /\ Queue(x.wait, Kinds)
  BY KindsAdmitted, QueueMonotonic DEF Ready, Shape
<1>5. Queue(q, K)
  BY <1>1, <1>2, QueueSorted DEF Shape
<1>6. Once(q) /\ q # << >>
  BY <1>4, SortedOnce, SortedSome
<1>7. /\ Len(q) \in Nat /\ q \in Seq(Range(q))
      /\ \A i \in 1 .. Len(q) : q[i].kind # "logout"
  BY <1>1, <1>5, QueueIs
<1> HIDE DEF q
<1>8. /\ y.out = q /\ y.wait = x.wait /\ y.fd = "up" /\ y.room /\ ~y.is_corked
      /\ y.tgt = x.tgt /\ y.is_loggedin = x.is_loggedin /\ DOMAIN y = Fields
  BY DEF Ready, Shape, Fields, Steady
<1> HIDE DEF y
<1> DEFINE I == {i \in 1 .. Len(y.out) : y.out[i].kind = "logout"}
           n == IF I # {} THEN Min(I) ELSE 0
           k == IF n = 0 THEN Len(y.out) ELSE n
           s == SubSeq(y.out, 1, k)
           o == SubSeq(y.out, k + 1, Len(y.out))
           u == OfKind(s, Kinds \ {"pong"})
           w == y.wait \o u
           t == Arrive(y.tgt, s, y.is_loggedin)
           b == n # 0
<1>9. Drain(y) = [y EXCEPT !.out = o, !.wait = w, !.tgt = t, !.is_corked = b]
  BY <1>6, <1>8, Zenon DEF Drain, SelectInSeq
<1>10. n = 0
  BY <1>7, <1>8
<1> HIDE DEF n
<1>11. k = Len(q)
  BY <1>8, <1>10
<1> HIDE DEF k
<1>12. s = q
  BY <1>7, <1>8, <1>11, SubSeqFull
<1>13. o = << >>
  BY <1>7, <1>8, <1>11, SubSeqEmpty
<1>14. Once(u) /\ Queue(u, Kinds)
  <2>1. Queue(u, K \cap (Kinds \ {"pong"}))
    BY <1>5, <1>12, QueueOfKind
  <2> QED
    BY <1>5, <1>6, <1>12, <2>1, OfKindOnce, QueueMonotonic
<1> HIDE DEF s, o, u
<1>15. Once(w)
  BY <1>4, <1>8, <1>14, ConcatOnce DEF Ready
<1> HIDE DEF w, t, b
<1>16. Drain(y).out = << >> /\ Drain(y).wait = w
  BY <1>8, <1>9, <1>13 DEF Fields, Steady
<1>17. e = Drain(y)
  BY DEF Enqueue, y, q
<1> HIDE DEF e
<1>18. Shape(e, NoLogouts)
  BY <1>3, <1>16, <1>17, QueueEmpty DEF Kept, Shape
<1>19. ~e.is_corked
  BY <1>1, <1>3 DEF Kept, Ready
<1>20. Once(e.wait)
  BY <1>15, <1>16, <1>17
<1> QED
  BY <1>3, <1>18, <1>19, <1>20 DEF Kept, e

\* The first request of a login names the initiator, the one of OPNEG offers every key.
LEMMA KeysSent ==
  ASSUME NEW y
  PROVE  /\ y.secneg_phase = "OFFER_CHAP" => Named \subseteq LoginKeys(y)
         /\ y.current_phase = "OPNEG" => OperationalKeys \subseteq LoginKeys(y)
BY DEF LoginKeys, NamingKeys, Named

\* iscsi_login_async, refused or not.
LEMMA LoginAsyncCore ==
  ASSUME NEW x, Ready(x), x.fd = "up", NEW ct,
         ~x.late => x.secneg_phase = "OFFER_CHAP" \/ Named \subseteq x.tgt.sent
  PROVE  Core(iscsi_login_async(x, ct))
<1> DEFINE z == Randomize(x)
           y == [z EXCEPT !.login_attempts = @ + 1,
                          !.current_phase = IF User THEN @ ELSE "OPNEG"]
           p == Pdu("login", 0, y.cmdsn, ct)
           e == Enqueue(y, p)
           keys == LoginKeys(y)
           r == [e EXCEPT !.tgt.sent = @ \cup keys]
           a == [x EXCEPT !.login_attempts = @ + 1]
<1>1. iscsi_login_async(x, ct) \in {a, r}
  BY DEF iscsi_login_async
<1>2. /\ DOMAIN z = Fields /\ \A f \in Fields \ {"cmdsn", "tgt"} : z[f] = x[f]
      /\ DOMAIN z.tgt = DOMAIN x.tgt
      /\ \A f \in {"digest", "imm", "sent"} : z.tgt[f] = x.tgt[f]
  BY DEF Randomize, Ready, Shape, Fields, Steady, SteadyTgt
<1>3. Core(a)
  <2>1. DOMAIN a = Fields /\ \A f \in Fields \ Minor : a[f] = x[f]
    BY DEF Ready, Shape, Fields, Steady, Minor
  <2> HIDE DEF a
  <2> QED
    BY <2>1, ReadyCore, MinorCore
<1> HIDE DEF z
<1>4. /\ DOMAIN y = Fields
      /\ \A f \in Fields \ {"cmdsn", "tgt", "login_attempts", "current_phase"} : y[f] = x[f]
      /\ y.tgt = z.tgt
      /\ y.current_phase = IF User THEN x.current_phase ELSE "OPNEG"
  BY <1>2 DEF Fields, Steady
<1> HIDE DEF y
<1>5. /\ y.out = x.out /\ y.wait = x.wait /\ y.old = x.old /\ y.app = x.app /\ y.fd = x.fd
      /\ y.room = x.room /\ y.is_corked = x.is_corked /\ y.is_loggedin = x.is_loggedin
      /\ y.secneg_phase = x.secneg_phase /\ y.late = x.late /\ y.want = x.want
      /\ y.proven = x.proven /\ y.skewed = x.skewed /\ y.digest = x.digest /\ y.imm = x.imm
  BY <1>4 DEF Fields, Steady
<1>6. Ready(y)
  <2>1. Shape(y, NoLogouts)
    BY <1>2, <1>4, <1>5 DEF Ready, Shape
  <2>2. Settled(y) /\ y.current_phase # "FF"
    BY <1>4, <1>5 DEF Ready, Settled, Stages
  <2> QED
    BY <1>5, <2>1, <2>2 DEF Ready
<1>7. DOMAIN p = FrameFields /\ p.kind = "login"
  BY PduIsFrame
<1> HIDE DEF p
<1>8. /\ Shape(e, NoLogouts) /\ Once(e.wait) /\ ~e.is_corked
      /\ \A f \in Steady : e[f] = y[f]
      /\ \A f \in SteadyTgt : e.tgt[f] = y.tgt[f]
      /\ \A f \in SteadyApp : e.app[f] = y.app[f]
  BY <1>5, <1>6, <1>7, LoginEnqueue
<1> HIDE DEF e
<1>9. /\ DOMAIN r = Fields /\ \A f \in Fields \ {"tgt"} : r[f] = e[f]
      /\ DOMAIN r.tgt = DOMAIN e.tgt
      /\ r.tgt.sent = x.tgt.sent \cup keys
      /\ r.tgt.digest = e.tgt.digest /\ r.tgt.imm = e.tgt.imm
  <2>1. e.tgt.sent = x.tgt.sent
    BY <1>2, <1>4, <1>8 DEF SteadyTgt
  <2> HIDE DEF keys
  <2> QED
    BY <1>8, <2>1 DEF Shape, Fields, Steady, SteadyTgt
<1> HIDE DEF r
<1>10. /\ r.out = e.out /\ r.wait = e.wait /\ r.old = e.old /\ r.app = e.app
       /\ r.is_corked = e.is_corked
       /\ r.fd = "up" /\ r.room /\ ~r.is_loggedin
       /\ r.current_phase = y.current_phase /\ r.secneg_phase = x.secneg_phase
       /\ r.late = x.late /\ r.want = x.want /\ r.proven = x.proven /\ r.skewed = x.skewed
       /\ r.digest = x.digest
       /\ r.app.started
  <2>1. /\ r.out = e.out /\ r.wait = e.wait /\ r.old = e.old /\ r.app = e.app
        /\ r.is_corked = e.is_corked
    BY <1>9 DEF Fields, Steady
  <2>2. \A f \in Steady : r[f] = y[f]
    BY <1>8, <1>9 DEF Fields, Steady
  <2>3. /\ r.fd = y.fd /\ r.room = y.room /\ r.is_loggedin = y.is_loggedin
        /\ r.current_phase = y.current_phase /\ r.secneg_phase = y.secneg_phase
        /\ r.late = y.late /\ r.want = y.want /\ r.proven = y.proven /\ r.skewed = y.skewed
        /\ r.digest = y.digest
    BY <2>2 DEF Steady
  <2>4. r.app.started = y.app.started
    BY <1>8, <2>1 DEF SteadyApp
  <2> QED
    BY <1>5, <2>1, <2>3, <2>4 DEF Ready
<1>11. Shape(r, NoLogins)
  BY <1>8, <1>9, <1>10, KindsAdmitted, QueueMonotonic DEF Shape
<1>12. OneRequest(r)
  BY <1>6, <1>8, <1>10 DEF OneRequest, Ready, Shape
<1>13. Settled(r)
  BY <1>5, <1>6, <1>10 DEF Settled, Ready
<1>14. Told(r)
  BY <1>5, <1>9, <1>10, KeysSent DEF Told
<1> QED
  BY <1>1, <1>3, <1>10, <1>11, <1>12, <1>13, <1>14 DEF Core

\* Taking a PDU off waitpdu; without the login request there is none left.
LEMMA RemoveLogins ==
  ASSUME NEW s, NEW all, Queue(s, all), NEW i \in 1 .. Len(s)
  PROVE  /\ HasLogin(RemoveAt(s, i)) => HasLogin(s)
         /\ Once(s) => Once(RemoveAt(s, i))
         /\ Once(s) /\ s[i].kind = "login" => ~HasLogin(RemoveAt(s, i))
<1> DEFINE a == SubSeq(s, 1, i - 1)
           b == SubSeq(s, i + 1, Len(s))
           t == a \o b
           R == Range(s)
<1>1. Len(s) \in Nat /\ DOMAIN s = 1 .. Len(s) /\ s \in Seq(R)
  BY QueueIs
<1>2. \A k \in 1 .. Len(s) : s[k] \in R
  BY <1>1, ElementOfSeq
<1> HIDE DEF R
<1>3. /\ a \in Seq(R) /\ Len(a) = i - 1
      /\ \A k \in 1 .. (i - 1) : a[k] = s[k]
  BY <1>1, <1>2, SubSeqProperties
<1>4. /\ b \in Seq(R) /\ Len(b) = Len(s) - i
      /\ \A k \in 1 .. (Len(s) - i) : b[k] = s[i + k]
  <2>1. i + 1 \in Int /\ Len(s) \in Int /\ \A k \in (i + 1) .. Len(s) : s[k] \in R
    BY <1>1, <1>2
  <2>2. /\ b \in Seq(R) /\ Len(b) = IF i + 1 <= Len(s) THEN Len(s) - (i + 1) + 1 ELSE 0
        /\ \A k \in 1 .. Len(s) - (i + 1) + 1 : b[k] = s[(i + 1) + k - 1]
    <3> DEFINE m == i + 1
               n == Len(s)
    <3>1. m \in Int /\ n \in Int /\ \A k \in m .. n : s[k] \in R
      BY <2>1
    <3> HIDE DEF m, n
    <3>2. /\ SubSeq(s, m, n) \in Seq(R)
          /\ Len(SubSeq(s, m, n)) = IF m <= n THEN n - m + 1 ELSE 0
          /\ \A k \in 1 .. n - m + 1 : SubSeq(s, m, n)[k] = s[m + k - 1]
      BY <3>1, SubSeqProperties
    <3> QED
      BY <3>2 DEF m, n
  <2> HIDE DEF b
  <2>3. Len(b) = Len(s) - i
    <3> DEFINE n == Len(s)
               m == Len(b)
    <3>1. n \in Nat /\ i \in 1 .. n /\ m = IF i + 1 <= n THEN n - (i + 1) + 1 ELSE 0
      BY <1>1, <2>2
    <3> HIDE DEF n, m
    <3>2. m = n - i
      BY <3>1
    <3> QED
      BY <3>2 DEF m, n
  <2>4. ASSUME NEW k \in 1 .. (Len(s) - i) PROVE b[k] = s[i + k]
    <3>1. k \in 1 .. Len(s) - (i + 1) + 1 /\ (i + 1) + k - 1 = i + k
      BY <1>1
    <3> QED
      BY <2>2, <3>1
  <2> QED
    BY <2>2, <2>3, <2>4
<1>5. RemoveAt(s, i) = t
  BY DEF RemoveAt
<1> HIDE DEF a, b
<1>6. /\ t \in Seq(R) /\ Len(t) = Len(s) - 1
      /\ \A k \in 1 .. Len(s) - 1 : t[k] = IF k <= i - 1 THEN a[k] ELSE b[k - (i - 1)]
  <2>1. /\ t \in Seq(R) /\ Len(t) = Len(a) + Len(b)
        /\ \A k \in 1 .. Len(a) + Len(b) : t[k] = IF k <= Len(a) THEN a[k] ELSE b[k - Len(a)]
    BY <1>3, <1>4, ConcatProperties
  <2>2. Len(a) + Len(b) = Len(s) - 1
    BY <1>1, <1>3, <1>4
  <2> HIDE DEF t
  <2> QED
    BY <1>3, <2>1, <2>2
<1>7. DOMAIN t = 1 .. (Len(s) - 1)
  BY <1>6, LenProperties
<1> HIDE DEF t
<1>8. \A k \in 1 .. (Len(s) - 1) : t[k] = IF k < i THEN s[k] ELSE s[k + 1]
  <2> TAKE k \in 1 .. (Len(s) - 1)
  <2>1. CASE k < i
    BY <2>1, <1>1, <1>3, <1>4, <1>6
  <2>2. CASE ~(k < i)
    <3>1. k - (i - 1) \in 1 .. (Len(s) - i) /\ i + (k - (i - 1)) = k + 1
      BY <2>2, <1>1
    <3>2. t[k] = b[k - (i - 1)]
      BY <2>2, <1>1, <1>3, <1>4, <1>6
    <3> QED
      BY <2>2, <3>1, <3>2, <1>4
  <2> QED
    BY <2>1, <2>2
<1> DEFINE from(k) == IF k < i THEN k ELSE k + 1
<1>9. \A k \in DOMAIN t : from(k) \in DOMAIN s /\ from(k) # i /\ t[k] = s[from(k)]
  BY <1>1, <1>7, <1>8
<1>10. \A k, l \in DOMAIN t : from(k) = from(l) => k = l
  BY <1>1, <1>7
<1> HIDE DEF from
<1>11. HasLogin(t) => HasLogin(s)
  BY <1>9 DEF HasLogin
<1>12. Once(s) => Once(t)
  BY <1>9, <1>10 DEF Once
<1>13. Once(s) /\ s[i].kind = "login" => ~HasLogin(t)
  BY <1>1, <1>9 DEF Once, HasLogin
<1> QED
  BY <1>5, <1>11, <1>12, <1>13

\* What holds when the response to the login request is looked at.
Answered(x) ==
  /\ Ready(x)
  /\ ~x.late => Named \subseteq x.tgt.sent
  /\ x.current_phase = "OPNEG" => OperationalKeys \subseteq x.tgt.sent

\* A response that ends OPNEG the way it was asked to settles the digest; a
\* proof comes with the last step of CHAP only.
LEMMA ReplyKeys ==
  ASSUME NEW x, x.current_phase \in {"SECNEG", "OPNEG"}, x.want \subseteq Digests,
         NEW r \in GoodReplies(x) \cup OddReplies(x)
  PROVE  /\ r.digest = "no" \/ r.digest \in Digests
         /\ x.current_phase = "OPNEG" /\ r.transit => r.digest \in Digests \/ Skewed(x, r)
         /\ r.proof = "right" => x.secneg_phase # "OFFER_CHAP"
         /\ r.nsg \in Stages
         /\ x.current_phase = "OPNEG" /\ r \in GoodReplies(x) => r.transit /\ r.nsg = "FF"
<1> DEFINE Choice(d) == [Plain(x, TRUE) EXCEPT !.digest = d, !.imm = d = "None"]
           Early(d) == [Plain(x, FALSE) EXCEPT !.digest = d]
           Failed(v) == [Plain(x, FALSE) EXCEPT !.status = v]
           Auth(v) == [Plain(x, FALSE) EXCEPT !.auth = v]
           Chap(v) == [Plain(x, FALSE) EXCEPT !.chap = v]
           Proof(v) == [Plain(x, TRUE) EXCEPT !.proof = v]
           Turned(v, t) == [Plain(x, TRUE) EXCEPT !.csg = v, !.nsg = t]
           Bare(v) == Plain(x, v)
           right == IF TargetUser THEN "right" ELSE "no"
           next == NextStage(x)
<1>1. \A v : /\ Choice(v).digest = v /\ Early(v).digest = v /\ Early(v).transit = FALSE
             /\ Failed(v).digest = "no" /\ Failed(v).transit = FALSE
             /\ Auth(v).digest = "no" /\ Chap(v).digest = "no"
             /\ Proof(v).digest = "no" /\ Bare(v).digest = "no"
             /\ \A t : Turned(v, t).digest = "no"
  BY DEF Plain
<1>2. GoodReplies(x) =
        CASE x.current_phase = "OPNEG" -> {Choice(d) : d \in x.want}
          [] x.current_phase = "SECNEG" /\ x.secneg_phase = "OFFER_CHAP" -> {Auth("CHAP")}
          [] x.current_phase = "SECNEG" /\ x.secneg_phase = "SELECT_ALGORITHM" -> {Chap("full")}
          [] OTHER -> {Proof(right)}
  BY DEF GoodReplies
<1>3. OddReplies(x) =
        {Failed(s) : s \in {"moved", "error", "garbled"}}
        \cup SkewedReplies(x)
        \cup CASE x.current_phase = "OPNEG" -> {Early(d) : d \in x.want}
               [] x.current_phase = "SECNEG" /\ x.secneg_phase = "OFFER_CHAP" ->
                    {Bare(TRUE), Bare(FALSE)}
               [] x.current_phase = "SECNEG" /\ x.secneg_phase = "SELECT_ALGORITHM" ->
                    {Chap("part")}
               [] OTHER -> {Proof(p) : p \in {"no", "wrong"}}
  BY DEF OddReplies
<1>10. SkewedReplies(x) = { a \in { Turned(v, t) : v \in Stages \ {"FF"}, t \in Stages \ {"SECNEG"} } :
                             Skewed(x, a) }
  BY DEF SkewedReplies
<1>4. \A v : /\ Choice(v).proof = "no" /\ Early(v).proof = "no" /\ Failed(v).proof = "no"
             /\ Auth(v).proof = "no" /\ Chap(v).proof = "no" /\ Bare(v).proof = "no"
             /\ \A t : Turned(v, t).proof = "no"
  BY DEF Plain
<1>5. \A v : /\ Choice(v).nsg = next /\ Early(v).nsg = next /\ Failed(v).nsg = next
             /\ Auth(v).nsg = next /\ Chap(v).nsg = next /\ Bare(v).nsg = next
             /\ Proof(v).nsg = next /\ Choice(v).transit = TRUE
             /\ \A t : Turned(v, t).nsg = t
  BY DEF Plain
<1>6. next \in Stages /\ (x.current_phase = "OPNEG" => next = "FF")
  BY DEF NextStage, Stages
<1> HIDE DEF Choice, Early, Failed, Auth, Chap, Proof, Turned, Bare, right, next
<1>9. \A a \in SkewedReplies(x) : \E v, t \in Stages : a = Turned(v, t) /\ Skewed(x, a)
  BY <1>10
<1>7. CASE \E v, t \in Stages : r = Turned(v, t) /\ Skewed(x, r)
  <2>1. x.current_phase = "OPNEG" => r \in OddReplies(x) \/ \E d \in x.want : r = Choice(d)
    BY <1>2
  <2>2. x.current_phase = "OPNEG" /\ r \in GoodReplies(x) => r.transit /\ r.nsg = "FF"
    BY <1>2, <1>5, <1>6
  <2> QED
    BY <1>1, <1>4, <1>5, <1>7, <2>2
<1>8. CASE ~\E v, t \in Stages : r = Turned(v, t) /\ Skewed(x, r)
  <2>1. CASE x.current_phase = "OPNEG"
    <3>1. \/ \E d \in x.want : r = Choice(d) \/ r = Early(d)
          \/ \E v : r = Failed(v)
      BY <1>2, <1>3, <1>8, <1>9, <2>1
    <3>2. r \in GoodReplies(x) => r.transit /\ r.nsg = "FF"
      BY <1>2, <1>5, <1>6, <2>1
    <3> QED
      BY <1>1, <1>4, <1>5, <1>6, <3>1, <3>2
  <2>2. CASE x.current_phase = "SECNEG"
    <3>1. \/ \E v : r \in {Failed(v), Auth(v), Chap(v), Bare(v)}
          \/ x.secneg_phase # "OFFER_CHAP" /\ \E v : r = Proof(v)
      <4>1. CASE x.secneg_phase = "OFFER_CHAP"
        BY <1>2, <1>3, <1>8, <1>9, <2>2, <4>1
      <4>2. CASE x.secneg_phase = "SELECT_ALGORITHM"
        BY <1>2, <1>3, <1>8, <1>9, <2>2, <4>2
      <4>3. CASE x.secneg_phase \notin {"OFFER_CHAP", "SELECT_ALGORITHM"}
        BY <1>2, <1>3, <1>8, <1>9, <2>2, <4>3
      <4> QED
        BY <4>1, <4>2, <4>3
    <3> QED
      BY <1>1, <1>4, <1>5, <1>6, <2>2, <3>1
  <2> QED
    BY <2>1, <2>2
<1> QED
  BY <1>7, <1>8

\* The loop over the keys of a response.
LEMMA ParseReady ==
  ASSUME NEW x, Answered(x), NEW r, r.digest = "no" \/ r.digest \in Digests
  PROVE  LET y == ParseKeys(x, r) IN
         /\ Answered(y)
         /\ y.current_phase = x.current_phase /\ y.skewed = x.skewed /\ y.late = x.late
         /\ y.fd = x.fd
         /\ x.secneg_phase # "OFFER_CHAP" => y.secneg_phase # "OFFER_CHAP"
         /\ r.proof = "right" => y.proven
         /\ r.digest # "no" => y.want = {r.digest}
         /\ y.imm => r.imm
<1> DEFINE want == IF r.digest = "no" THEN x.want ELSE {r.digest}
           imm == x.imm /\ r.imm
           chap == x.chap_c \/ r.chap = "full"
           proven == x.proven \/ r.proof = "right"
           phase == IF r.chap # "no" THEN "SEND_RESPONSE"
                    ELSE IF r.auth = "CHAP" THEN "SELECT_ALGORITHM" ELSE x.secneg_phase
           y == [x EXCEPT !.want = want, !.imm = imm, !.chap_c = chap,
                          !.proven = proven, !.secneg_phase = phase]
<1>1. ParseKeys(x, r) = y
  BY DEF ParseKeys
<1>2. /\ want \subseteq Digests /\ (r.digest # "no" => want = {r.digest})
      /\ (imm => r.imm) /\ (x.proven => proven) /\ (r.proof = "right" => proven)
      /\ (x.secneg_phase # "OFFER_CHAP" => phase # "OFFER_CHAP")
  BY DEF Answered, Ready, Settled
<1> HIDE DEF want, imm, chap, proven, phase
<1>3. /\ DOMAIN y = Fields /\ y.want = want /\ y.imm = imm /\ y.proven = proven
      /\ y.secneg_phase = phase
      /\ \A f \in Fields \ {"want", "imm", "chap_c", "proven", "secneg_phase"} : y[f] = x[f]
  BY DEF Answered, Ready, Shape, Fields, Steady
<1> HIDE DEF y
<1>4. /\ y.out = x.out /\ y.wait = x.wait /\ y.old = x.old /\ y.app = x.app /\ y.tgt = x.tgt
      /\ y.fd = x.fd /\ y.room = x.room /\ y.is_corked = x.is_corked
      /\ y.is_loggedin = x.is_loggedin /\ y.current_phase = x.current_phase
      /\ y.late = x.late /\ y.digest = x.digest /\ y.skewed = x.skewed
  BY <1>3 DEF Fields, Steady
<1>5. Shape(y, NoLogouts)
  BY <1>3, <1>4 DEF Answered, Ready, Shape
<1>6. Settled(y)
  BY <1>2, <1>3, <1>4 DEF Answered, Ready, Settled
<1>7. Answered(y)
  BY <1>4, <1>5, <1>6 DEF Answered, Ready
<1> QED
  BY <1>1, <1>2, <1>3, <1>4, <1>7

\* A redirect.
LEMMA RedirectCore ==
  ASSUME NEW x, Answered(x), NEW ct, NEW ok
  PROVE  Core(iscsi_login_cb(x, ct, "REDIRECT", ok))
<1> DEFINE l == x.late \/ x.secneg_phase # "OFFER_CHAP"
           y == [x EXCEPT !.is_corked = FALSE, !.proven = FALSE, !.late = l]
<1>1. iscsi_login_cb(x, ct, "REDIRECT", ok) = iscsi_connect_async(y, ct, ok)
  BY DEF iscsi_login_cb
<1>2. (~l => x.secneg_phase = "OFFER_CHAP") /\ (x.late => l)
  OBVIOUS
<1> HIDE DEF l
<1>3. /\ DOMAIN y = Fields /\ y.is_corked = FALSE /\ y.late = l
      /\ \A f \in Fields \ {"is_corked", "proven", "late"} : y[f] = x[f]
  BY DEF Answered, Ready, Shape, Fields, Steady
<1> HIDE DEF y
<1>4. /\ y.out = x.out /\ y.wait = x.wait /\ y.old = x.old /\ y.app = x.app /\ y.tgt = x.tgt
      /\ y.is_loggedin = x.is_loggedin /\ y.current_phase = x.current_phase
      /\ y.secneg_phase = x.secneg_phase /\ y.want = x.want /\ y.skewed = x.skewed
      /\ y.digest = x.digest /\ y.imm = x.imm
  BY <1>3 DEF Fields, Steady
<1>5. Shape(y, NoLogouts)
  BY <1>3, <1>4 DEF Answered, Ready, Shape
<1>6. Settled(y)
  BY <1>2, <1>3, <1>4 DEF Answered, Ready, Settled
<1>7. Core(iscsi_connect_async(y, ct, ok))
  BY <1>2, <1>3, <1>4, <1>5, <1>6, ConnectCore DEF Answered, Ready
<1> QED
  BY <1>1, <1>7

\* The response that ends the login.
LEMMA EndCore ==
  ASSUME NEW y, Answered(y), NEW r,
         NEW w, DOMAIN w = Fields, w.current_phase = "FF", w.is_loggedin = TRUE,
         w.digest = (CHOOSE d \in y.want : TRUE),
         \/ w.skewed
         \/ /\ y.current_phase = "OPNEG" /\ y.want = {r.digest} /\ (y.imm => r.imm)
            /\ w.skewed <=> y.skewed,
         \A f \in Fields \ {"current_phase", "skewed", "is_loggedin", "digest", "tgt"} :
           w[f] = y[f],
         DOMAIN w.tgt = DOMAIN y.tgt, w.tgt.digest = r.digest, w.tgt.imm = r.imm,
         w.tgt.sent = y.tgt.sent
  PROVE  Core(w)
<1>1. /\ w.out = y.out /\ w.wait = y.wait /\ w.old = y.old /\ w.app = y.app
      /\ w.fd = y.fd /\ w.room = y.room /\ w.is_corked = y.is_corked
      /\ w.late = y.late /\ w.want = y.want /\ w.imm = y.imm /\ w.proven = y.proven
      /\ w.secneg_phase = y.secneg_phase
  BY DEF Fields, Steady
<1>2. Shape(w, NoLogins)
  BY <1>1, KindsAdmitted, QueueMonotonic DEF Answered, Ready, Shape
<1>3. OneRequest(w)
  BY <1>1 DEF Answered, Ready, OneRequest, Entering, HasLogin, Once
<1>4. ~w.skewed => w.digest = r.digest
  OBVIOUS
<1>5. Settled(w)
  BY <1>1, <1>4 DEF Answered, Ready, Settled, Stages
<1>6. Told(w)
  BY <1>1 DEF Answered, Ready, Told
<1> QED
  BY <1>1, <1>2, <1>3, <1>5, <1>6 DEF Answered, Ready, Core

\* iscsi_process_login_reply, for every response a target may give.
LEMMA ReplyCore ==
  ASSUME NEW x, Answered(x), NEW p, NEW r \in GoodReplies(x) \cup OddReplies(x), NEW ok,
         x.fd = "up" \/ (x.current_phase = "OPNEG" /\ r \in GoodReplies(x))
  PROVE  Core(iscsi_process_login_reply(x, p, r, ok))
<1> DEFINE v == Verdict(x, r)
           y == IF r.status = "garbled" THEN x ELSE ParseKeys(x, r)
           stage == IF r.transit THEN r.nsg ELSE y.current_phase
           skewed == y.skewed \/ Skewed(x, r)
           z == [y EXCEPT !.current_phase = stage, !.skewed = skewed]
           d == CHOOSE e \in z.want : TRUE
           w == [z EXCEPT !.is_loggedin = TRUE, !.digest = d,
                          !.tgt.digest = r.digest, !.tgt.imm = r.imm]
<1>1. x.current_phase \in {"SECNEG", "OPNEG"} /\ x.want \subseteq Digests
  BY DEF Answered, Ready, Settled, Stages
<1>2. /\ r.digest = "no" \/ r.digest \in Digests
      /\ x.current_phase = "OPNEG" /\ r.transit => r.digest \in Digests \/ Skewed(x, r)
      /\ r.proof = "right" => x.secneg_phase # "OFFER_CHAP"
      /\ r.nsg \in Stages
      /\ x.current_phase = "OPNEG" /\ r \in GoodReplies(x) => r.transit /\ r.nsg = "FF"
  BY <1>1, ReplyKeys
<1>3. /\ Answered(y) /\ y.current_phase = x.current_phase /\ y.skewed = x.skewed
      /\ y.late = x.late /\ y.fd = x.fd
      /\ x.secneg_phase # "OFFER_CHAP" => y.secneg_phase # "OFFER_CHAP"
      /\ r.status # "garbled" /\ r.proof = "right" => y.proven
      /\ r.status # "garbled" /\ r.digest # "no" => y.want = {r.digest}
      /\ r.status # "garbled" /\ y.imm => r.imm
  BY <1>2, ParseReady
<1>4. iscsi_process_login_reply(x, p, r, ok) =
        CASE v # "go on" -> iscsi_login_cb(y, p.ct, v, ok)
          [] v = "go on" /\ r.transit /\ z.current_phase = "FF" ->
               iscsi_login_cb(w, p.ct, "GOOD", ok)
          [] v = "go on" /\ ~(r.transit /\ z.current_phase = "FF") ->
               IF LoginRefused(z)
               THEN iscsi_login_cb(iscsi_login_async(z, p.ct), p.ct, "ERROR", ok)
               ELSE iscsi_login_async(z, p.ct)
  BY Zenon DEF iscsi_process_login_reply
<1>5. v = "go on" => /\ r.status # "garbled"
                     /\ MustProve(x, r) => r.proof = "right"
  BY DEF Verdict
<1> HIDE DEF v, y
<1>6. /\ stage = IF r.transit THEN r.nsg ELSE x.current_phase
      /\ skewed <=> x.skewed \/ Skewed(x, r)
      /\ r.transit /\ ~Skewed(x, r) =>
           /\ r.csg = x.current_phase
           /\ stage = IF x.current_phase = "SECNEG" THEN "OPNEG" ELSE "FF"
  BY <1>3 DEF NextStage, Skewed
<1> HIDE DEF stage, skewed
<1>7. /\ DOMAIN z = Fields /\ z.current_phase = stage /\ z.skewed = skewed
      /\ \A f \in Fields \ {"current_phase", "skewed"} : z[f] = y[f]
  BY <1>3 DEF Answered, Ready, Shape, Fields, Steady
<1> HIDE DEF z
<1>8. CASE v # "go on"
  <2>1. CASE v = "REDIRECT"
    BY <1>3, <1>4, <2>1, RedirectCore
  <2>2. CASE v # "REDIRECT"
    <3>1. Core(y)
      BY <1>3, ReadyCore DEF Answered
    <3>2. Core(iscsi_login_cb(y, p.ct, v, ok))
      BY <2>2, <3>1, LoginCbCore
    <3> QED
      BY <1>4, <1>8, <3>2
  <2> QED
    BY <2>1, <2>2
<1>9. CASE v = "go on" /\ r.transit /\ z.current_phase = "FF"
  <2>1. ~Skewed(x, r) => y.current_phase = "OPNEG" /\ r.digest # "no"
    BY <1>1, <1>2, <1>3, <1>6, <1>7, <1>9 DEF Digests
  <2>2. ~Skewed(x, r) => y.want = {r.digest} /\ (y.imm => r.imm)
    BY <1>3, <1>5, <1>9, <2>1
  <2>3. z.want = y.want /\ z.tgt = y.tgt /\ DOMAIN y.tgt = SteadyTgt \cup {"expect", "strange"}
    BY <1>3, <1>7 DEF Fields, Steady, Answered, Ready, Shape
  <2>4. d = CHOOSE e \in y.want : TRUE
    BY <2>3
  <2> HIDE DEF d
  <2>5. /\ DOMAIN w = Fields /\ w.is_loggedin = TRUE /\ w.digest = d
        /\ \A f \in Fields \ {"is_loggedin", "digest", "tgt"} : w[f] = z[f]
        /\ DOMAIN w.tgt = DOMAIN z.tgt /\ w.tgt.digest = r.digest /\ w.tgt.imm = r.imm
        /\ w.tgt.sent = z.tgt.sent
    BY <1>7, <2>3 DEF Fields, Steady, SteadyTgt
  <2> HIDE DEF w
  <2>6. /\ w.current_phase = "FF"
        /\ \A f \in Fields \ {"current_phase", "skewed", "is_loggedin", "digest", "tgt"} :
             w[f] = y[f]
        /\ w.skewed = skewed
    BY <1>7, <1>9, <2>5 DEF Fields, Steady
  <2>7. \/ w.skewed
        \/ /\ y.current_phase = "OPNEG" /\ y.want = {r.digest} /\ (y.imm => r.imm)
           /\ w.skewed <=> y.skewed
    <3>1. CASE Skewed(x, r)
      BY <1>6, <2>6, <3>1
    <3>2. CASE ~Skewed(x, r)
      <4>1. skewed <=> y.skewed
        BY <1>3, <1>6, <3>2
      <4> QED
        BY <2>1, <2>2, <2>6, <3>2, <4>1
    <3> QED
      BY <3>1, <3>2
  <2>8. /\ DOMAIN w.tgt = DOMAIN y.tgt /\ w.tgt.sent = y.tgt.sent
        /\ w.digest = (CHOOSE e \in y.want : TRUE)
    BY <2>3, <2>4, <2>5
  <2>9. Core(w)
    BY ZenonT(40), <1>3, <2>5, <2>6, <2>7, <2>8, EndCore
  <2> QED
    BY <1>4, <1>9, <2>9, LoginCbCore
<1>10. CASE v = "go on" /\ ~(r.transit /\ z.current_phase = "FF")
  <2>1. /\ z.out = y.out /\ z.wait = y.wait /\ z.old = y.old /\ z.app = y.app /\ z.tgt = y.tgt
        /\ z.fd = y.fd /\ z.room = y.room /\ z.is_corked = y.is_corked
        /\ z.is_loggedin = y.is_loggedin
        /\ z.late = y.late /\ z.want = y.want /\ z.imm = y.imm /\ z.proven = y.proven
        /\ z.digest = y.digest /\ z.secneg_phase = y.secneg_phase
    BY <1>7 DEF Fields, Steady
  <2>2. z.current_phase \in {"SECNEG", "OPNEG"}
    BY <1>1, <1>2, <1>6, <1>7, <1>10 DEF Stages
  <2>3. TargetUser /\ z.current_phase # "SECNEG" /\ x.current_phase = "SECNEG" =>
          z.skewed \/ (z.proven /\ z.secneg_phase # "OFFER_CHAP")
    BY <1>2, <1>3, <1>5, <1>6, <1>7, <1>10, <2>1 DEF MustProve
  <2>4. Shape(z, NoLogouts)
    BY <1>3, <1>7, <2>1 DEF Answered, Ready, Shape
  <2>5. Settled(z)
    BY <1>1, <1>3, <1>6, <1>7, <2>1, <2>2, <2>3 DEF Answered, Ready, Settled, Stages
  <2>6. Ready(z) /\ (~z.late => Named \subseteq z.tgt.sent)
    BY <1>3, <2>1, <2>2, <2>4, <2>5 DEF Answered, Ready
  <2>7. Core(iscsi_login_async(z, p.ct))
    <3>1. z.fd = "up"
      BY <1>2, <1>3, <1>6, <1>7, <1>10, <2>1
    <3> QED
      BY <2>6, <3>1, LoginAsyncCore
  <2> QED
    BY <1>4, <1>10, <2>7, LoginCbCore
<1> QED
  BY <1>8, <1>9, <1>10

-----------------------------------------------------------------------------
(* The other steps. *)

\* A PDU is taken off waitpdu.
LEMMA WaitCore ==
  ASSUME NEW x, NEW y, Core(x), DOMAIN y = Fields, \A f \in Fields \ {"wait"} : y[f] = x[f],
         Queue(y.wait, Kinds), HasLogin(y.wait) => HasLogin(x.wait),
         Once(x.wait) => Once(y.wait)
  PROVE  Core(y)
<1>1. /\ y.out = x.out /\ y.old = x.old /\ y.app = x.app /\ y.tgt = x.tgt
      /\ y.fd = x.fd /\ y.room = x.room /\ y.is_corked = x.is_corked
      /\ y.is_loggedin = x.is_loggedin
      /\ \A f \in {"current_phase", "secneg_phase", "proven", "skewed", "digest", "imm", "late", "want"} :
           y[f] = x[f]
  BY DEF Fields, Steady
<1>2. Shape(y, NoLogins)
  BY <1>1 DEF Core, Shape
<1>3. Harmless(x, y)
  BY <1>1, <1>2 DEF Harmless, Core, OneRequest
<1> QED
  BY <1>3, HarmlessCore

\* The PDU that a response answers is taken off waitpdu.
LEMMA WithoutIs ==
  ASSUME Core(c), NEW i \in DOMAIN c.wait
  PROVE  /\ DOMAIN Without(i) = Fields /\ Without(i).wait = RemoveAt(c.wait, i)
         /\ \A f \in Fields \ {"wait"} : Without(i)[f] = c[f]
         /\ Queue(c.wait, Kinds) /\ i \in 1 .. Len(c.wait)
         /\ Queue(RemoveAt(c.wait, i), Kinds)
<1>1. Queue(c.wait, Kinds) /\ i \in 1 .. Len(c.wait) /\ DOMAIN c = Fields
  BY QueueIs DEF Core, Shape
<1>2. Queue(RemoveAt(c.wait, i), Kinds)
  BY <1>1, QueueRemove
<1>3. /\ DOMAIN Without(i) = Fields /\ Without(i).wait = RemoveAt(c.wait, i)
      /\ \A f \in Fields \ {"wait"} : Without(i)[f] = c[f]
  BY <1>1 DEF Without, Fields, Steady
<1> QED
  BY <1>1, <1>2, <1>3

LEMMA WithoutCore ==
  ASSUME Core(c), NEW i \in DOMAIN c.wait
  PROVE  Core(Without(i))
BY WithoutIs, RemoveLogins, WaitCore

\* What a target may answer depends on three fields.
LEMMA SameReplies ==
  ASSUME NEW x, NEW y, y.current_phase = x.current_phase, y.secneg_phase = x.secneg_phase,
         y.want = x.want
  PROVE  GoodReplies(y) = GoodReplies(x) /\ OddReplies(y) = OddReplies(x)
<1>1. NextStage(y) = NextStage(x)
  BY DEF NextStage
<1>2. \A t : Plain(y, t) = Plain(x, t)
  BY <1>1, Zenon DEF Plain
<1>3. \A r : Skewed(y, r) <=> Skewed(x, r)
  BY <1>1, Zenon DEF Skewed
<1>4. Plain(y, TRUE) = Plain(x, TRUE) /\ Plain(y, FALSE) = Plain(x, FALSE)
  BY <1>2
<1>5. GoodReplies(y) = GoodReplies(x)
  BY <1>4, Zenon DEF GoodReplies
<1> DEFINE turned(q) == { [q EXCEPT !.csg = v, !.nsg = t] :
                            v \in Stages \ {"FF"}, t \in Stages \ {"SECNEG"} }
<1>8. SkewedReplies(y) = { r \in turned(Plain(y, TRUE)) : Skewed(y, r) }
  BY DEF SkewedReplies
<1>9. SkewedReplies(x) = { r \in turned(Plain(x, TRUE)) : Skewed(x, r) }
  BY DEF SkewedReplies
<1> HIDE DEF turned
<1>6. SkewedReplies(y) = SkewedReplies(x)
  BY <1>3, <1>4, <1>8, <1>9
<1>7. OddReplies(y) = OddReplies(x)
  BY <1>4, <1>6, Zenon DEF OddReplies
<1> QED
  BY <1>5, <1>7

\* If it is the login request, the response meets the context it was sent for.
LEMMA WithoutAnswered ==
  ASSUME Core(c), c.fd = "up", NEW i \in DOMAIN c.wait, c.wait[i].kind = "login"
  PROVE  /\ Answered(Without(i))
         /\ GoodReplies(Without(i)) = GoodReplies(c) /\ OddReplies(Without(i)) = OddReplies(c)
<1> DEFINE y == Without(i)
<1>1. /\ DOMAIN y = Fields /\ y.wait = RemoveAt(c.wait, i)
      /\ \A f \in Fields \ {"wait"} : y[f] = c[f]
      /\ Queue(c.wait, Kinds) /\ i \in 1 .. Len(c.wait)
      /\ Queue(RemoveAt(c.wait, i), Kinds)
  BY WithoutIs
<1> HIDE DEF y
<1>2. /\ y.out = c.out /\ y.old = c.old /\ y.app = c.app /\ y.tgt = c.tgt
      /\ y.fd = c.fd /\ y.room = c.room /\ y.is_corked = c.is_corked
      /\ y.is_loggedin = c.is_loggedin /\ y.current_phase = c.current_phase
      /\ y.secneg_phase = c.secneg_phase /\ y.proven = c.proven /\ y.skewed = c.skewed /\ y.digest = c.digest
      /\ y.imm = c.imm /\ y.late = c.late /\ y.want = c.want
  BY <1>1 DEF Fields, Steady
<1>3. HasLogin(c.wait) /\ Once(c.wait) /\ Entering(c)
  BY DEF HasLogin, Entering, Core, OneRequest
<1>4. ~HasLogin(y.wait)
  BY <1>1, <1>3, RemoveLogins
<1>5. Shape(y, NoLogouts)
  BY <1>1, <1>2, <1>3 DEF Core, OneRequest, Shape
<1>6. Settled(y)
  BY <1>2 DEF Core, Settled
<1>7. Ready(y)
  BY <1>2, <1>3, <1>4, <1>5, <1>6 DEF Ready, Core, OneRequest
<1>8. Answered(y)
  BY <1>2, <1>3, <1>7 DEF Answered, Core, Told
<1>9. GoodReplies(y) = GoodReplies(c) /\ OddReplies(y) = OddReplies(c)
  BY <1>2, SameReplies
<1> QED
  BY <1>8, <1>9 DEF y

\* The connection breaks.
LEMMA DeadCore == ASSUME NEW x, Core(x) PROVE Core([x EXCEPT !.fd = "dead"])
<1> DEFINE y == [x EXCEPT !.fd = "dead"]
<1>1. /\ DOMAIN y = Fields /\ y.fd = "dead"
      /\ \A f \in Fields \ {"fd"} : y[f] = x[f]
  BY DEF Core, Shape, Fields, Steady
<1> HIDE DEF y
<1>2. /\ y.out = x.out /\ y.old = x.old /\ y.app = x.app /\ y.tgt = x.tgt
      /\ \A f \in {"current_phase", "secneg_phase", "proven", "skewed", "digest", "imm", "late", "want",
                   "is_loggedin", "room", "is_corked", "wait"} : y[f] = x[f]
  BY <1>1 DEF Fields, Steady
<1>3. Core(y)
  BY <1>1, <1>2, OtherCore DEF Core, Shape
<1> QED
  BY <1>3 DEF y

\* A response that takes the login on, and any other.
LEMMA LoginReplyStep == ASSUME Core(c), LoginReply PROVE Core(c')
<1>1. PICK i \in DOMAIN c.wait :
        /\ c.wait[i].kind = "login"
        /\ \E r \in GoodReplies(c) :
             c' = iscsi_process_login_reply(Without(i), c.wait[i], r, TRUE)
  BY DEF LoginReply
<1>2. c.fd = "up"
  BY DEF LoginReply, Readable
<1>3. Without(i).fd = "up"
  BY <1>2, WithoutIs DEF Fields, Steady
<1> QED
  BY <1>1, <1>2, <1>3, WithoutAnswered, ReplyCore

LEMMA LoginSurpriseStep == ASSUME Core(c), LoginSurprise PROVE Core(c')
<1>1. PICK i \in DOMAIN c.wait, r \in OddReplies(c), ok \in BOOLEAN :
        /\ c.wait[i].kind = "login"
        /\ LET y == iscsi_process_login_reply(Without(i), c.wait[i], r, ok)
           IN  c' \in {y, iscsi_service_reconnect_if_loggedin([y EXCEPT !.fd = "dead"], TRUE)}
  BY DEF LoginSurprise
<1>2. c.fd = "up"
  BY DEF LoginSurprise, Readable
<1> DEFINE y == iscsi_process_login_reply(Without(i), c.wait[i], r, ok)
<1>5. Without(i).fd = "up"
  BY <1>2, WithoutIs DEF Fields, Steady
<1>3. Core(y)
  BY <1>1, <1>2, <1>5, WithoutAnswered, ReplyCore
<1> HIDE DEF y
<1>4. Core(iscsi_service_reconnect_if_loggedin([y EXCEPT !.fd = "dead"], TRUE))
  BY <1>3, DeadCore, ServiceCore
<1> QED
  BY <1>1, <1>3, <1>4 DEF y

\* The responses to the commands of the connect sequence.
LEMMA ProbeStep == ASSUME Core(c), ProbeReply \/ ProbeSurprise PROVE Core(c')
<1>1. PICK i \in DOMAIN c.wait :
        /\ c.wait[i].kind \in Internal
        /\ \E st, dev, usn : c' = ProbeCb(Without(i), c.wait[i], st, dev, usn)
  BY ZenonT(20) DEF ProbeReply, ProbeSurprise
<1>2. \E w : c' \in {iscsi_testunitready_cb(Without(i), c.wait[i].ct, w),
                     iscsi_inquiry_page_0x0_cb(Without(i), c.wait[i].ct, w),
                     iscsi_inquiry_page_0x80_cb(Without(i), c.wait[i].ct, w)}
  BY <1>1 DEF ProbeCb, Internal
<1>3. Core(Without(i))
  BY WithoutCore
<1> QED
  BY <1>2, <1>3, ProbeCore

\* The response to the last login request, read from a connection that has broken.
LEMMA HungUpAnswered ==
  ASSUME Core(c), c.fd = "up", NEW i \in DOMAIN c.wait, c.wait[i].kind = "login"
  PROVE  LET x == [Without(i) EXCEPT !.fd = "dead"]
         IN  Answered(x) /\ GoodReplies(x) = GoodReplies(c) /\ x.current_phase = c.current_phase
<1> DEFINE w == Without(i)
           x == [w EXCEPT !.fd = "dead"]
<1>1. Answered(w) /\ GoodReplies(w) = GoodReplies(c) /\ w.current_phase = c.current_phase
  BY WithoutAnswered, WithoutIs DEF Fields, Steady
<1> HIDE DEF w
<1>2. /\ DOMAIN x = Fields /\ x.fd = "dead"
      /\ \A f \in Fields \ {"fd"} : x[f] = w[f]
  BY <1>1 DEF Answered, Ready, Shape, Fields, Steady
<1> HIDE DEF x
<1>3. /\ x.wait = w.wait /\ x.out = w.out /\ x.old = w.old /\ x.app = w.app /\ x.tgt = w.tgt
      /\ x.room = w.room /\ x.is_corked = w.is_corked
      /\ x.is_loggedin = w.is_loggedin /\ x.current_phase = w.current_phase
      /\ x.secneg_phase = w.secneg_phase /\ x.proven = w.proven /\ x.skewed = w.skewed
      /\ x.digest = w.digest /\ x.imm = w.imm /\ x.late = w.late /\ x.want = w.want
  BY <1>2 DEF Fields, Steady
<1>4. Shape(x, NoLogouts) /\ Settled(x)
  BY <1>1, <1>2, <1>3 DEF Answered, Ready, Shape, Settled
<1>5. Answered(x)
  BY <1>1, <1>2, <1>3, <1>4 DEF Answered, Ready
<1>6. GoodReplies(x) = GoodReplies(c) /\ x.current_phase = c.current_phase
  BY <1>1, <1>3, SameReplies
<1> QED
  BY <1>5, <1>6 DEF x, w

\* The same when the connection breaks before the callback can send anything.
LEMMA ResetReplyStep == ASSUME Core(c), ResetReply PROVE Core(c')
<1>1. c.fd = "up"
  BY DEF ResetReply, Readable
<1>2. PICK i \in DOMAIN c.wait :
        LET p == c.wait[i]
            x == [Without(i) EXCEPT !.fd = "dead"]
        IN  \/ /\ p.kind = "login" /\ c.current_phase = "OPNEG"
               /\ \E r \in GoodReplies(c) : c' = iscsi_process_login_reply(x, p, r, TRUE)
            \/ p.kind \in Internal /\ \E st, dev : c' = ProbeCb(x, p, st, dev, "A")
  BY DEF ResetReply
<1> DEFINE p == c.wait[i]
           w == Without(i)
           x == [w EXCEPT !.fd = "dead"]
<1>3. Core(x)
  BY WithoutCore, DeadCore
<1>4. CASE p.kind = "login" /\ c.current_phase = "OPNEG"
            /\ \E r \in GoodReplies(c) : c' = iscsi_process_login_reply(x, p, r, TRUE)
  <2>1. Answered(x) /\ GoodReplies(x) = GoodReplies(c) /\ x.current_phase = "OPNEG"
    BY <1>1, <1>4, HungUpAnswered
  <2> HIDE DEF x, p
  <2> QED
    BY <1>4, <2>1, ReplyCore
<1>5. CASE p.kind \in Internal /\ \E st, dev : c' = ProbeCb(x, p, st, dev, "A")
  <2>1. \E v : c' \in {iscsi_testunitready_cb(x, p.ct, v), iscsi_inquiry_page_0x0_cb(x, p.ct, v),
                       iscsi_inquiry_page_0x80_cb(x, p.ct, v)}
    <3> HIDE DEF x, p
    <3> QED
      BY <1>5 DEF ProbeCb, Internal
  <2> QED
    BY <1>3, <2>1, ProbeCore
<1> QED
  BY <1>2, <1>4, <1>5

\* A change of what the application and the target remember otherwise.
LEMMA MemoryCore ==
  ASSUME NEW x, NEW y, Core(x), DOMAIN y = Fields,
         \A f \in Fields \ (Minor \cup {"app", "tgt", "out", "old"}) : y[f] = x[f],
         DOMAIN y.tgt = DOMAIN x.tgt,
         \A f \in {"digest", "imm", "sent"} : y.tgt[f] = x.tgt[f],
         DOMAIN y.app = DOMAIN x.app, y.app.started = x.app.started,
         Queue(y.out, NoLogins), Queue(x.out, NoLogouts) => Queue(y.out, NoLogouts),
         {"out", "wait", "retry"} \subseteq DOMAIN y.old,
         Queue(y.old.out, Kinds), Queue(y.old.wait, Kinds)
  PROVE  Core(y)
<1>1. /\ y.fd = x.fd
      /\ \A f \in {"current_phase", "secneg_phase", "proven", "skewed", "digest", "imm", "late", "want",
                   "is_loggedin", "room", "is_corked", "wait"} : y[f] = x[f]
  BY DEF Fields, Steady, Minor
<1> QED
  BY <1>1, OtherCore

\* A request of the application is called back.
LEMMA DeliverCore == ASSUME NEW x, Core(x), NEW id, NEW st PROVE Core(Deliver(x, id, st))
<1> DEFINE y == Deliver(x, id, st)
<1>1. /\ DOMAIN y = Fields /\ \A f \in Fields \ {"app"} : y[f] = x[f]
      /\ DOMAIN y.app = DOMAIN x.app /\ y.app.started = x.app.started
  BY DEF Deliver, Core, Shape, Fields, Steady, SteadyApp
<1> HIDE DEF y
<1>2. y.tgt = x.tgt /\ y.out = x.out /\ y.old = x.old
  BY <1>1 DEF Fields
<1>3. Core(y)
  BY ZenonT(40), <1>1, <1>2, MemoryCore DEF Core, Shape
<1> QED
  BY <1>3 DEF y

\* The response to a request of the application, or to a Logout.
LEMMA RequestReplyStep == ASSUME Core(c), RequestReply PROVE Core(c')
<1>1. PICK i \in DOMAIN c.wait :
        \/ c' = Deliver(Without(i), c.wait[i].id, "GOOD")
        \/ c' = [Without(i) EXCEPT !.is_loggedin = FALSE, !.pending = TRUE]
  BY DEF RequestReply
<1> DEFINE x == Without(i)
           y == [x EXCEPT !.is_loggedin = FALSE, !.pending = TRUE]
<1>2. Core(x)
  BY WithoutCore
<1> HIDE DEF x
<1>3. /\ DOMAIN y = Fields /\ y.is_loggedin = FALSE
      /\ \A f \in Fields \ {"is_loggedin", "pending"} : y[f] = x[f]
  BY <1>2 DEF Core, Shape, Fields, Steady
<1> HIDE DEF y
<1>4. /\ y.wait = x.wait /\ y.out = x.out /\ y.old = x.old /\ y.app = x.app /\ y.tgt = x.tgt
      /\ y.fd = x.fd /\ y.room = x.room /\ y.is_corked = x.is_corked
      /\ \A f \in {"current_phase", "secneg_phase", "proven", "skewed", "digest", "imm", "late", "want"} :
           y[f] = x[f]
  BY <1>3 DEF Fields, Steady
<1>5. Shape(y, NoLogins)
  BY <1>2, <1>3, <1>4 DEF Core, Shape
<1>6. Harmless(x, y)
  BY <1>2, <1>3, <1>4, <1>5 DEF Harmless, Core, OneRequest
<1>7. Core(y)
  BY <1>2, <1>6, HarmlessCore
<1> QED
  BY <1>1, <1>2, <1>7, DeliverCore DEF x, y

\* Once there is a session, what is queued may be a Logout too.
LEMMA SessionCore ==
  ASSUME NEW x, NEW y, Core(x), x.is_loggedin, Kept(x, y, NoLogins)
  PROVE  Core(y)
<1>1. /\ y.current_phase = x.current_phase /\ y.secneg_phase = x.secneg_phase
      /\ y.proven = x.proven /\ y.skewed = x.skewed /\ y.digest = x.digest /\ y.imm = x.imm
      /\ y.late = x.late /\ y.want = x.want /\ y.is_loggedin = x.is_loggedin
      /\ y.fd = x.fd
      /\ y.app.started = x.app.started
      /\ \A f \in {"digest", "imm", "sent"} : y.tgt[f] = x.tgt[f]
  BY DEF Kept, Steady, SteadyTgt, SteadyApp
<1>2. (HasLogin(y.wait) => HasLogin(x.wait)) /\ (Once(x.wait) => Once(y.wait))
  BY GrownLogins DEF Kept, Core, Shape
<1>3. ~Entering(x)
  BY DEF Core, OneRequest
<1>4. Harmless(x, y)
  BY <1>1, <1>2, <1>3 DEF Harmless, Kept
<1> QED
  BY <1>4, HarmlessCore

\* The target asks for a logout, or announces that the connection goes away.
LEMMA AsyncMessageStep == ASSUME Core(c), AsyncMessage PROVE Core(c')
<1> DEFINE x == [c EXCEPT !.login_attempts = 0]
           y == [c EXCEPT !.early = TRUE]
           p == Pdu("logout", 0, c.cmdsn, NoCt)
<1>1. c.is_loggedin /\ c' \in {x, Enqueue(x, p), y}
  BY DEF AsyncMessage, iscsi_logout_async
<1>2. DOMAIN x = Fields /\ \A f \in Fields \ Minor : x[f] = c[f]
  BY DEF Core, Shape, Fields, Steady, Minor
<1>3. DOMAIN y = Fields /\ \A f \in Fields \ Minor : y[f] = c[f]
  BY DEF Core, Shape, Fields, Steady, Minor
<1>4. DOMAIN p = FrameFields /\ p.kind \in NoLogins
  BY PduIsFrame DEF NoLogins, Kinds, Immediates
<1> HIDE DEF x, y, p
<1>5. Core(x) /\ Core(y)
  BY <1>2, <1>3, MinorCore
<1>6. x.is_loggedin
  BY <1>1, <1>2 DEF Fields, Steady, Minor
<1>7. Kept(x, Enqueue(x, p), NoLogins)
  BY <1>4, <1>5, KindsAdmitted, EnqueueKeeps DEF Core
<1>8. Core(Enqueue(x, p))
  BY <1>5, <1>6, <1>7, SessionCore
<1> QED
  BY <1>1, <1>5, <1>8

\* A NOP-In is answered.
LEMMA PingStep == ASSUME Core(c), Ping PROVE Core(c')
<1> DEFINE p == Pdu("pong", 0, c.cmdsn, NoCt)
<1>1. c' = Enqueue(c, p)
  BY DEF Ping
<1>2. DOMAIN p = FrameFields /\ p.kind \in NoLogouts
  BY PduIsFrame DEF NoLogouts, Kinds, Immediates
<1> HIDE DEF p
<1> QED
  BY <1>1, <1>2, EnqueueCore

\* The socket is connected.
LEMMA EstablishStep == ASSUME Core(c), Establish PROVE Core(c')
<1> DEFINE x == [c EXCEPT !.fd = "up", !.status_cb = NoCt]
           ct == c.status_cb
           y == iscsi_login_async(x, ct)
<1>1. c.fd = "connecting" /\ c' \in {CtCb(y, ct, "ERROR"), y}
  BY DEF Establish, iscsi_connect_cb
<1>2. /\ DOMAIN x = Fields /\ x.fd = "up"
      /\ \A f \in Fields \ {"fd", "status_cb"} : x[f] = c[f]
  BY DEF Core, Shape, Fields, Steady
<1> HIDE DEF x, ct
<1>3. /\ x.wait = c.wait /\ x.out = c.out /\ x.old = c.old /\ x.app = c.app /\ x.tgt = c.tgt
      /\ x.room = c.room /\ x.is_corked = c.is_corked
      /\ x.is_loggedin = c.is_loggedin /\ x.current_phase = c.current_phase
      /\ x.secneg_phase = c.secneg_phase /\ x.proven = c.proven /\ x.skewed = c.skewed /\ x.digest = c.digest
      /\ x.imm = c.imm /\ x.late = c.late /\ x.want = c.want
  BY <1>2 DEF Fields, Steady
<1>4. Shape(x, NoLogouts)
  BY <1>1, <1>2, <1>3 DEF Core, OneRequest, Entering, Shape
<1>5. Settled(x)
  BY <1>3 DEF Core, Settled
<1>6. Ready(x)
  BY <1>1, <1>2, <1>3, <1>4, <1>5 DEF Ready, Core, OneRequest, Entering
<1>7. ~x.late => x.secneg_phase = "OFFER_CHAP"
  BY <1>1, <1>3 DEF Core, Told
<1>8. Core(y)
  BY <1>2, <1>6, <1>7, LoginAsyncCore
<1> HIDE DEF y
<1> QED
  BY <1>1, <1>8, CtCbCore

\* The connection is refused.
LEMMA RefuseStep == ASSUME Core(c), Refuse PROVE Core(c')
<1> DEFINE y == [c EXCEPT !.fd = "dead"]
           x == [c EXCEPT !.fd = "dead", !.status_cb = NoCt]
<1>1. PICK ok \in BOOLEAN :
        c' = iscsi_service_reconnect_if_loggedin(CtCb(x, c.status_cb, "ERROR"), ok)
  BY DEF Refuse, iscsi_connect_cb
<1>2. Core(y)
  BY DeadCore
<1>3. DOMAIN x = Fields /\ \A f \in Fields \ Minor : x[f] = y[f]
  BY DEF Core, Shape, Fields, Steady, Minor
<1> HIDE DEF x, y
<1>4. Core(x)
  BY <1>2, <1>3, MinorCore
<1> QED
  BY <1>1, <1>4, CtCbCore, ServiceCore

\* iscsi_timeout_scan takes a PDU out of one of the two queues of a context.
LEMMA ExpireIs ==
  ASSUME NEW x, {"out", "wait"} \subseteq DOMAIN x, NEW kinds, kinds \subseteq Kinds,
         Queue(x.out, kinds), Queue(x.wait, Kinds), NEW e \in Expired(x)
  PROVE  /\ DOMAIN e[2] = DOMAIN x
         /\ \A f \in DOMAIN x \ {"out", "wait", "cmdsn"} : e[2][f] = x[f]
         /\ Queue(e[2].out, kinds) /\ Queue(e[2].wait, Kinds)
         /\ HasLogin(e[2].wait) => HasLogin(x.wait)
         /\ Once(x.wait) => Once(e[2].wait)
         /\ e[1].kind \in Kinds
<1>1. /\ Len(x.out) \in Nat /\ DOMAIN x.out = 1 .. Len(x.out)
      /\ \A k \in 1 .. Len(x.out) : DOMAIN x.out[k] = FrameFields /\ x.out[k].kind \in kinds
      /\ Len(x.wait) \in Nat /\ DOMAIN x.wait = 1 .. Len(x.wait)
      /\ \A k \in 1 .. Len(x.wait) : DOMAIN x.wait[k] = FrameFields /\ x.wait[k].kind \in Kinds
  BY QueueIs
<1>2. \/ \E i \in 1 .. Len(x.out) : e = <<x.out[i], ExpireOut(x, i)>>
      \/ \E i \in 1 .. Len(x.wait) :
           e = <<x.wait[i], [x EXCEPT !.wait = RemoveAt(x.wait, i)]>>
  BY <1>1 DEF Expired
<1>3. ASSUME NEW i \in 1 .. Len(x.wait),
             e = <<x.wait[i], [x EXCEPT !.wait = RemoveAt(x.wait, i)]>>
      PROVE  e[1].kind \in Kinds /\
             \E v : /\ e[2] = [x EXCEPT !.wait = v] /\ Queue(v, Kinds)
                    /\ HasLogin(v) => HasLogin(x.wait)
                    /\ Once(x.wait) => Once(v)
  <2>1. /\ Queue(RemoveAt(x.wait, i), Kinds)
        /\ HasLogin(RemoveAt(x.wait, i)) => HasLogin(x.wait)
        /\ Once(x.wait) => Once(RemoveAt(x.wait, i))
    BY QueueRemove, RemoveLogins
  <2> QED
    BY <1>1, <1>3, <2>1
<1>4. ASSUME NEW i \in 1 .. Len(x.out), e = <<x.out[i], ExpireOut(x, i)>>
      PROVE  e[1].kind \in Kinds /\
             \E u, m : e[2] = [x EXCEPT !.out = u, !.cmdsn = m] /\ Queue(u, kinds)
  <2> DEFINE n == Len(x.out) - 1
             q(k) == [x.out[k + 1] EXCEPT !.sn = x.out[k + 1].sn - 1]
             u == [k \in 1 .. n |-> IF k < i THEN x.out[k] ELSE q(k)]
             m == x.cmdsn - 1
  <2>1. e[2] = [x EXCEPT !.out = u, !.cmdsn = m]
    BY <1>4 DEF ExpireOut
  <2>2. \A k \in 1 .. n : DOMAIN q(k) = FrameFields /\ q(k).kind \in kinds
    <3> TAKE k \in 1 .. n
    <3> DEFINE p == x.out[k + 1]
    <3>1. k + 1 \in 1 .. Len(x.out)
      BY <1>1
    <3>2. DOMAIN p = FrameFields /\ p.kind \in kinds
      BY <1>1, <3>1
    <3> HIDE DEF p
    <3>3. /\ DOMAIN [p EXCEPT !.sn = p.sn - 1] = FrameFields
          /\ [p EXCEPT !.sn = p.sn - 1].kind \in kinds
      BY <3>2 DEF FrameFields
    <3> QED
      BY <3>3 DEF p
  <2>3. n \in Nat
    BY <1>1
  <2> HIDE DEF q
  <2>4. \A k \in 1 .. n : DOMAIN u[k] = FrameFields /\ u[k].kind \in kinds
    BY <1>1, <2>2
  <2>5. u = [k \in 1 .. n |-> u[k]]
    OBVIOUS
  <2> HIDE DEF u, n, m
  <2>6. Queue(u, kinds)
    BY <2>3, <2>4, <2>5, QueueFunction
  <2>7. e[1].kind \in Kinds
    BY <1>1, <1>4
  <2> QED
    BY <2>1, <2>6, <2>7
<1>5. CASE \E v : /\ e[2] = [x EXCEPT !.wait = v] /\ Queue(v, Kinds)
                  /\ HasLogin(v) => HasLogin(x.wait)
                  /\ Once(x.wait) => Once(v)
  <2>1. PICK v : /\ e[2] = [x EXCEPT !.wait = v] /\ Queue(v, Kinds)
                 /\ HasLogin(v) => HasLogin(x.wait)
                 /\ Once(x.wait) => Once(v)
    BY <1>5
  <2>2. /\ DOMAIN e[2] = DOMAIN x /\ e[2].wait = v /\ e[2].out = x.out
        /\ \A f \in DOMAIN x \ {"wait"} : e[2][f] = x[f]
    BY <2>1
  <2> QED
    BY <1>2, <1>3, <1>4, <2>1, <2>2
<1>6. CASE \E u, m : e[2] = [x EXCEPT !.out = u, !.cmdsn = m] /\ Queue(u, kinds)
  <2>1. PICK u, m : e[2] = [x EXCEPT !.out = u, !.cmdsn = m] /\ Queue(u, kinds)
    BY <1>6
  <2>2. /\ DOMAIN e[2] = DOMAIN x /\ e[2].wait = x.wait /\ e[2].out = u
        /\ \A f \in DOMAIN x \ {"out", "cmdsn"} : e[2][f] = x[f]
    BY <2>1
  <2> QED
    BY <1>2, <1>3, <1>4, <2>1, <2>2
<1> QED
  BY <1>2, <1>3, <1>4, <1>5, <1>6

\* A PDU of the context times out.
LEMMA ExpireCore == ASSUME Core(c), NEW e \in Expired(c) PROVE Core(e[2]) /\ e[1].kind \in Kinds
<1> DEFINE y == e[2]
<1>1. /\ {"out", "wait"} \subseteq DOMAIN c /\ DOMAIN c = Fields
      /\ Queue(c.out, NoLogins) /\ Queue(c.wait, Kinds)
      /\ NoLogins \subseteq Kinds /\ NoLogouts \subseteq Kinds
  BY DEF Core, Shape, Fields, NoLogins, NoLogouts
<1>2. /\ DOMAIN y = DOMAIN c
      /\ \A f \in DOMAIN c \ {"out", "wait", "cmdsn"} : y[f] = c[f]
      /\ Queue(y.out, NoLogins) /\ Queue(y.wait, Kinds)
      /\ HasLogin(y.wait) => HasLogin(c.wait)
      /\ Once(c.wait) => Once(y.wait)
      /\ e[1].kind \in Kinds
  BY <1>1, ExpireIs
<1>3. Queue(c.out, NoLogouts) => Queue(y.out, NoLogouts)
  BY <1>1, ExpireIs
<1> HIDE DEF y
<1>4. /\ y.old = c.old /\ y.app = c.app /\ y.tgt = c.tgt
      /\ y.fd = c.fd /\ y.room = c.room /\ y.is_corked = c.is_corked
      /\ y.is_loggedin = c.is_loggedin
      /\ \A f \in {"current_phase", "secneg_phase", "proven", "skewed", "digest", "imm", "late", "want"} :
           y[f] = c[f]
  BY <1>1, <1>2 DEF Fields, Steady
<1>5. Shape(y, NoLogins)
  BY <1>1, <1>2, <1>4 DEF Core, Shape
<1>6. Harmless(c, y)
  BY <1>2, <1>3, <1>4, <1>5 DEF Harmless, Core, OneRequest
<1> QED
  BY <1>2, <1>6, HarmlessCore DEF y

\* A change of old_iscsi alone.
LEMMA OldCore ==
  ASSUME NEW x, Core(x), NEW o, {"out", "wait", "retry"} \subseteq DOMAIN o,
         Queue(o.out, Kinds), Queue(o.wait, Kinds)
  PROVE  Core([x EXCEPT !.old = o]) /\ [x EXCEPT !.old = o].old = o
<1> DEFINE y == [x EXCEPT !.old = o]
<1>1. DOMAIN y = Fields /\ y.old = o /\ \A f \in Fields \ {"old"} : y[f] = x[f]
  BY DEF Core, Shape, Fields
<1> HIDE DEF y
<1>2. y.tgt = x.tgt /\ y.out = x.out /\ y.app = x.app
  BY <1>1 DEF Fields
<1>3. Core(y)
  BY <1>1, <1>2, MemoryCore DEF Core, Shape
<1> QED
  BY <1>1, <1>3 DEF y

\* Timeouts, of the context and of old_iscsi.
LEMMA TimeoutStep == ASSUME Core(c), Timeout PROVE Core(c')
<1>1. \/ \E e \in Expired(c) : c' = PduCb(e[2], e[1], "TIMEOUT")
      \/ \E e \in Expired(c.old) :
           c' \in {[c EXCEPT !.old = [e[2] EXCEPT !.pending = TRUE]],
                   PduCb([c EXCEPT !.old = e[2]], e[1], "TIMEOUT")}
  BY DEF Timeout
<1>2. ASSUME NEW e \in Expired(c), c' = PduCb(e[2], e[1], "TIMEOUT")
      PROVE  Core(c')
  <2>1. Core(e[2]) /\ e[1].kind \in Kinds
    BY ExpireCore
  <2> QED
    BY <1>2, <2>1, PduCbCore
<1>3. ASSUME NEW e \in Expired(c.old)
      PROVE  /\ Core([c EXCEPT !.old = [e[2] EXCEPT !.pending = TRUE]])
             /\ Core(PduCb([c EXCEPT !.old = e[2]], e[1], "TIMEOUT"))
  <2> DEFINE x == c.old
             o == e[2]
             q == [o EXCEPT !.pending = TRUE]
  <2>1. /\ {"out", "wait"} \subseteq DOMAIN x /\ {"out", "wait", "retry"} \subseteq DOMAIN x
        /\ Queue(x.out, Kinds) /\ Queue(x.wait, Kinds) /\ e \in Expired(x)
    BY DEF Core, Shape
  <2> HIDE DEF x
  <2>2. DOMAIN o = DOMAIN x /\ Queue(o.out, Kinds) /\ Queue(o.wait, Kinds) /\ e[1].kind \in Kinds
    BY <2>1, ExpireIs
  <2> HIDE DEF o
  <2>3. DOMAIN q = DOMAIN o /\ q.out = o.out /\ q.wait = o.wait
    BY <2>1, <2>2
  <2> HIDE DEF q
  <2>4. Core([c EXCEPT !.old = o]) /\ Core([c EXCEPT !.old = q])
    BY <2>1, <2>2, <2>3, OldCore
  <2>5. Core(PduCb([c EXCEPT !.old = o], e[1], "TIMEOUT"))
    BY <2>2, <2>4, PduCbCore
  <2> QED
    BY <2>4, <2>5 DEF q, o
<1> QED
  BY <1>1, <1>2, <1>3

\* The first PDU of a queue, and the rest.
LEMMA QueueTail ==
  ASSUME NEW s, NEW kinds, Queue(s, kinds), s # << >>
  PROVE  /\ Queue(Tail(s), kinds)
         /\ DOMAIN Head(s) = FrameFields /\ Head(s).kind \in kinds
<1>1. PICK S : s \in Seq(S) /\ \A p \in S : DOMAIN p = FrameFields /\ p.kind \in kinds
  BY DEF Queue
<1>2. Head(s) \in S /\ Tail(s) \in Seq(S)
  BY <1>1, HeadTailProperties
<1> QED
  BY <1>1, <1>2 DEF Queue

\* A command is queued on old_iscsi, whose descriptor is the one of the new
\* connection.
LEMMA KickOldCore ==
  ASSUME NEW x, Core(x), x.old.out # << >>
  PROVE  Core(KickOld(x))
<1> DEFINE s == x.old.out
           p == Head(s)
           o == [x.old EXCEPT !.out = Tail(s), !.wait = Append(x.old.wait, p)]
           t == [x.tgt EXCEPT !.mixed = TRUE]
           a == [x.app EXCEPT !.astray = TRUE]
           moved == [x EXCEPT !.old = o, !.tgt = t]
           r == Arrive(t, <<p>>, x.is_loggedin)
<1>1. KickOld(x) \in {[x EXCEPT !.app = a], x, [moved EXCEPT !.app = a],
                      [moved EXCEPT !.tgt = r], moved}
  <2>1. DOMAIN x = Fields
    BY DEF Core, Shape
  <2>2. moved = [x EXCEPT !.old.out = Tail(@), !.old.wait = Append(@, p), !.tgt.mixed = TRUE]
    BY <2>1 DEF Fields
  <2>3. moved.tgt = t /\ moved.app = x.app
    BY <2>1 DEF Fields
  <2>4. /\ [x EXCEPT !.app = a] = [x EXCEPT !.app.astray = TRUE]
        /\ [moved EXCEPT !.app = a] = [moved EXCEPT !.app.astray = TRUE]
    <3> HIDE DEF moved
    <3> QED
      BY <2>3
  <2>5. [moved EXCEPT !.tgt = r] = [moved EXCEPT !.tgt = Arrive(@, <<p>>, x.is_loggedin)]
    <3> HIDE DEF moved
    <3> QED
      BY <2>3
  <2> HIDE DEF moved, a, r, t
  <2> QED
    BY <2>2, <2>4, <2>5 DEF KickOld, Astray
<1>2. /\ {"out", "wait", "retry"} \subseteq DOMAIN x.old
      /\ Queue(s, Kinds) /\ Queue(x.old.wait, Kinds)
  BY DEF Core, Shape
<1>3. Queue(Tail(s), Kinds) /\ DOMAIN p = FrameFields /\ p.kind \in Kinds
  BY <1>2, QueueTail
<1>4. Queue(Append(x.old.wait, p), Kinds)
  BY <1>2, <1>3, QueueAppend
<1>5. /\ {"out", "wait", "retry"} \subseteq DOMAIN o
      /\ Queue(o.out, Kinds) /\ Queue(o.wait, Kinds)
  BY <1>2, <1>3, <1>4
<1>6. /\ DOMAIN t = DOMAIN x.tgt /\ DOMAIN x.tgt = SteadyTgt \cup {"expect", "strange"}
      /\ \A f \in {"digest", "imm", "sent"} : t[f] = x.tgt[f]
  BY DEF Core, Shape, SteadyTgt
<1>7. /\ DOMAIN r = DOMAIN x.tgt
      /\ \A f \in {"digest", "imm", "sent"} : r[f] = x.tgt[f]
  <2> HIDE DEF t
  <2> QED
    BY <1>6, ArriveKeeps DEF SteadyTgt
<1>8. DOMAIN a = DOMAIN x.app /\ a.started = x.app.started
  BY DEF Core, Shape, SteadyApp
<1> HIDE DEF p, o, t, a, r
<1>9. ASSUME NEW y, DOMAIN y = Fields, \A f \in Fields \ {"old", "tgt", "app"} : y[f] = x[f],
             y.old \in {x.old, o}, y.tgt \in {x.tgt, t, r}, y.app \in {x.app, a}
      PROVE  Core(y)
  <2>1. /\ DOMAIN y.tgt = DOMAIN x.tgt
        /\ \A f \in {"digest", "imm", "sent"} : y.tgt[f] = x.tgt[f]
    BY <1>6, <1>7, <1>9
  <2>2. DOMAIN y.app = DOMAIN x.app /\ y.app.started = x.app.started
    BY <1>8, <1>9
  <2>3. /\ {"out", "wait", "retry"} \subseteq DOMAIN y.old
        /\ Queue(y.old.out, Kinds) /\ Queue(y.old.wait, Kinds)
    BY <1>2, <1>5, <1>9
  <2>4. y.out = x.out
    BY <1>9 DEF Fields
  <2> QED
    BY <1>9, <2>1, <2>2, <2>3, <2>4, MemoryCore DEF Core, Shape
<1>10. DOMAIN x = Fields
  BY DEF Core, Shape
<1>11. Core([x EXCEPT !.app = a])
  <2> DEFINE y == [x EXCEPT !.app = a]
  <2>1. /\ DOMAIN y = Fields /\ \A f \in Fields \ {"old", "tgt", "app"} : y[f] = x[f]
        /\ y.old = x.old /\ y.tgt = x.tgt /\ y.app = a
    BY <1>10 DEF Fields
  <2> HIDE DEF y
  <2>2. Core(y)
    BY <1>9, <2>1
  <2> QED
    BY <2>2 DEF y
<1>12. /\ DOMAIN moved = Fields /\ \A f \in Fields \ {"old", "tgt", "app"} : moved[f] = x[f]
       /\ moved.old = o /\ moved.tgt = t /\ moved.app = x.app
  BY <1>10 DEF Fields
<1> HIDE DEF moved
<1>13. Core(moved)
  BY <1>9, <1>12
<1>14. Core([moved EXCEPT !.app = a])
  <2> DEFINE y == [moved EXCEPT !.app = a]
  <2>1. /\ DOMAIN y = Fields /\ \A f \in Fields \ {"old", "tgt", "app"} : y[f] = x[f]
        /\ y.old = o /\ y.tgt = t /\ y.app = a
    BY <1>12 DEF Fields
  <2> HIDE DEF y
  <2>2. Core(y)
    BY <1>9, <2>1
  <2> QED
    BY <2>2 DEF y
<1>15. Core([moved EXCEPT !.tgt = r])
  <2> DEFINE y == [moved EXCEPT !.tgt = r]
  <2>1. /\ DOMAIN y = Fields /\ \A f \in Fields \ {"old", "tgt", "app"} : y[f] = x[f]
        /\ y.old = o /\ y.tgt = r /\ y.app = x.app
    BY <1>12 DEF Fields
  <2> HIDE DEF y
  <2>2. Core(y)
    BY <1>9, <2>1
  <2> QED
    BY <2>2 DEF y
<1> QED
  BY <1>1, <1>11, <1>13, <1>14, <1>15

\* A request of the application is queued on the context.
LEMMA QueuedCore ==
  ASSUME NEW x, Core(x), NEW y, DOMAIN y = Fields,
         \A f \in Fields \ (Minor \cup {"app", "out"}) : y[f] = x[f],
         DOMAIN y.app = DOMAIN x.app, y.app.started = x.app.started,
         NEW p, DOMAIN p = FrameFields, p.kind \in NoLogouts, y.out = Sorted(x.out, p)
  PROVE  Core(y)
<1>1. y.tgt = x.tgt /\ y.old = x.old
  BY DEF Fields, Steady, Minor
<1>2. p.kind \in NoLogins
  BY KindsAdmitted
<1>3. Queue(y.out, NoLogins) /\ (Queue(x.out, NoLogouts) => Queue(y.out, NoLogouts))
  BY <1>2, QueueSorted DEF Core, Shape
<1> QED
  BY <1>1, <1>3, MemoryCore DEF Core, Shape

\* iscsi_scsi_command_async, on the context or on old_iscsi.
LEMMA CommandCore ==
  ASSUME NEW x, Core(x), NEW id, NEW ok
  PROVE  Core(iscsi_scsi_command_async(x, id, ok))
<1> DEFINE asked == x.app.asked \cup {id}
           during == IF x.old = NoOld THEN x.app.during ELSE x.app.during \cup {id}
           a == [x.app EXCEPT !.asked = asked, !.during = during]
           y == [x EXCEPT !.app = a]
           po == Pdu("scsi", id, x.old.cmdsn, NoCt)
           o == [x.old EXCEPT !.cmdsn = x.old.cmdsn + 1, !.out = Sorted(x.old.out, po)]
           zo == [y EXCEPT !.old = o]
           p == Pdu("scsi", id, x.cmdsn, NoCt)
           z == [y EXCEPT !.cmdsn = x.cmdsn + 1, !.out = Sorted(x.out, p)]
           y1 == [x EXCEPT !.app.asked = @ \cup {id},
                           !.app.during = IF x.old = NoOld THEN @ ELSE @ \cup {id}]
           zo1 == [y1 EXCEPT !.old.cmdsn = @ + 1, !.old.out = Sorted(@, po)]
           z1 == [y1 EXCEPT !.cmdsn = @ + 1, !.out = Sorted(@, p)]
<1>0. iscsi_scsi_command_async(x, id, ok) =
        IF x.old # NoOld THEN IF Head(zo1.old.out) = po THEN KickOld(zo1) ELSE zo1
        ELSE IF Head(z1.out) = p THEN Kick(z1, ok) ELSE z1
  BY Zenon DEF iscsi_scsi_command_async
<1>1. /\ DOMAIN x = Fields /\ {"out", "wait", "retry"} \subseteq DOMAIN x.old
      /\ Queue(x.old.out, Kinds) /\ Queue(x.old.wait, Kinds)
  BY DEF Core, Shape
<1>2. /\ DOMAIN y = Fields /\ y.app = a /\ \A f \in Fields \ {"app"} : y[f] = x[f]
      /\ y.old = x.old /\ y.cmdsn = x.cmdsn /\ y.out = x.out /\ y.tgt = x.tgt
  BY <1>1 DEF Fields
<1>3. y1 = y /\ zo1 = zo /\ z1 = z
  <2>1. y1 = y
    BY <1>1 DEF Fields
  <2> HIDE DEF y1, y
  <2> QED
    BY <1>2, <2>1 DEF Fields
<1>4. DOMAIN a = DOMAIN x.app /\ a.started = x.app.started
  BY DEF Core, Shape, SteadyApp
<1>5. /\ DOMAIN p = FrameFields /\ p.kind \in NoLogouts
      /\ DOMAIN po = FrameFields /\ po.kind \in Kinds
  BY PduIsFrame DEF NoLogouts, Kinds
<1> HIDE DEF a, y, y1, p, po, z, z1, zo, zo1
<1>6. iscsi_scsi_command_async(x, id, ok) \in
        IF x.old # NoOld THEN {KickOld(zo), zo} ELSE {Kick(z, ok), z}
  BY <1>0, <1>3
<1>7. CASE x.old # NoOld
  <2>1. Core(y)
    BY ZenonT(40), <1>2, <1>4, MemoryCore DEF Core, Shape
  <2>2. Queue(Sorted(x.old.out, po), Kinds) /\ Sorted(x.old.out, po) # << >>
    BY <1>1, <1>5, QueueSorted, SortedSome
  <2>3. /\ {"out", "wait", "retry"} \subseteq DOMAIN o
        /\ o.out = Sorted(x.old.out, po) /\ o.wait = x.old.wait
    BY <1>1
  <2> HIDE DEF o
  <2>4. Core(zo) /\ zo.old = o
    BY <1>1, <2>1, <2>2, <2>3, OldCore DEF zo
  <2> QED
    BY <1>6, <1>7, <2>2, <2>3, <2>4, KickOldCore
<1>8. CASE ~(x.old # NoOld)
  <2>1. /\ DOMAIN z = Fields /\ z.out = Sorted(x.out, p)
        /\ \A f \in Fields \ (Minor \cup {"app", "out"}) : z[f] = x[f]
        /\ z.app = a
    BY <1>2 DEF z, Fields, Steady, Minor
  <2>2. Core(z)
    BY <1>4, <1>5, <2>1, QueuedCore
  <2> QED
    BY <1>6, <1>8, <2>2, KickCore
<1> QED
  BY <1>7, <1>8

\* iscsi_task_mgmt_async.
LEMMA TaskMgmtCore ==
  ASSUME NEW x, Core(x), NEW id, NEW ok
  PROVE  Core(iscsi_task_mgmt_async(x, id, ok))
<1> DEFINE asked == x.app.asked \cup {id}
           during == IF x.old = NoOld THEN x.app.during ELSE x.app.during \cup {id}
           a == [x.app EXCEPT !.asked = asked, !.during = during]
           p == Pdu("tmf", id, x.cmdsn, NoCt)
           y == [x EXCEPT !.app = a, !.out = Sorted(x.out, p)]
<1>1. DOMAIN x = Fields
  BY DEF Core, Shape
<1>2. y = [x EXCEPT !.app.asked = @ \cup {id}, !.out = Sorted(@, p),
                    !.app.during = IF x.old = NoOld THEN @ ELSE @ \cup {id}]
  BY <1>1 DEF Fields
<1>3. DOMAIN a = DOMAIN x.app /\ a.started = x.app.started
  BY DEF Core, Shape, SteadyApp
<1>4. DOMAIN p = FrameFields /\ p.kind \in NoLogouts
  BY PduIsFrame DEF NoLogouts, Kinds, Immediates
<1>5. /\ DOMAIN y = Fields /\ y.app = a /\ y.out = Sorted(x.out, p)
      /\ \A f \in Fields \ (Minor \cup {"app", "out"}) : y[f] = x[f]
  BY <1>1 DEF Fields, Steady, Minor
<1> HIDE DEF a, y
<1>6. iscsi_task_mgmt_async(x, id, ok) \in {Kick(y, ok), y}
  BY <1>2, Zenon DEF iscsi_task_mgmt_async, p
<1> HIDE DEF p
<1>7. Core(y)
  BY <1>3, <1>4, <1>5, QueuedCore
<1> QED
  BY <1>6, <1>7, KickCore

\* The steps that change a field or two, and those that run one operator.
LEMMA PlainStep ==
  ASSUME Core(c),
         \/ Submit \/ TaskMgmt \/ SetNoAutoReconnect \/ ForceReconnect \/ ResetNextReconnect
         \/ ServiceError \/ ServicePending \/ Write \/ Drop \/ Tick
  PROVE  Core(c')
<1>0. DOMAIN c = Fields
  BY DEF Core, Shape
<1>1. CASE Submit
  <2>1. PICK id \in Cmds, ok \in BOOLEAN : c' = iscsi_scsi_command_async(c, id, ok)
    BY <1>1 DEF Submit
  <2> QED
    BY <2>1, CommandCore
<1>2. CASE TaskMgmt
  <2>1. PICK id \in Tmfs, ok \in BOOLEAN : c' = iscsi_task_mgmt_async(c, id, ok)
    BY <1>2 DEF TaskMgmt
  <2> QED
    BY <2>1, TaskMgmtCore
<1>3. CASE SetNoAutoReconnect
  <2>1. PICK state \in BOOLEAN, ok \in BOOLEAN :
          LET y == [c EXCEPT !.noauto = state]
          IN  c' \in {reconnect([y EXCEPT !.deferred = FALSE], FALSE, ok), y}
    BY <1>3 DEF SetNoAutoReconnect
  <2> DEFINE y == [c EXCEPT !.noauto = state]
             z == [y EXCEPT !.deferred = FALSE]
  <2>2. DOMAIN y = Fields /\ \A f \in Fields \ Minor : y[f] = c[f]
    BY <1>0 DEF Fields, Steady, Minor
  <2>3. DOMAIN z = Fields /\ \A f \in Fields \ Minor : z[f] = c[f]
    BY <1>0 DEF Fields, Steady, Minor
  <2>4. c' \in {reconnect(z, FALSE, ok), y}
    BY <2>1
  <2> HIDE DEF y, z
  <2>5. Core(y) /\ Core(z)
    BY <2>2, <2>3, MinorCore
  <2> QED
    BY <2>4, <2>5, ReconnectCore
<1>4. CASE ForceReconnect
  <2> DEFINE y == [c EXCEPT !.forced = @ + 1]
  <2>1. PICK ok \in BOOLEAN : c' = reconnect(y, TRUE, ok)
    BY <1>4 DEF ForceReconnect
  <2>2. DOMAIN y = Fields /\ \A f \in Fields \ Minor : y[f] = c[f]
    BY <1>0 DEF Fields, Steady, Minor
  <2> HIDE DEF y
  <2> QED
    BY <2>1, <2>2, MinorCore, ReconnectCore
<1>5. CASE ResetNextReconnect \/ Tick
  <2> DEFINE y == [c EXCEPT !.early = FALSE]
  <2>1. c' = y
    BY <1>5 DEF ResetNextReconnect, Tick
  <2>2. DOMAIN y = Fields /\ \A f \in Fields \ Minor : y[f] = c[f]
    BY <1>0 DEF Fields, Steady, Minor
  <2> HIDE DEF y
  <2> QED
    BY <2>1, <2>2, MinorCore
<1>6. CASE ServiceError
  BY <1>6, ServiceCore DEF ServiceError
<1>7. CASE ServicePending
  BY <1>7, ReconnectCore DEF ServicePending
<1>8. CASE Write
  BY <1>8, DrainCore DEF Write
<1>9. CASE Drop
  BY <1>9, DeadCore DEF Drop
<1> QED
  BY <1>1, <1>2, <1>3, <1>4, <1>5, <1>6, <1>7, <1>8, <1>9

\* While a login is under way the socket is not blocked.
LEMMA RoomStep == ASSUME Core(c), Block \/ Unblock PROVE Core(c')
<1>1. PICK b \in BOOLEAN : c' = [c EXCEPT !.room = b] /\ (Entering(c) => b)
  <2>1. CASE Block
    BY <2>1 DEF Block, Core, OneRequest
  <2>2. CASE Unblock
    BY <2>2 DEF Unblock
  <2> QED
    BY <2>1, <2>2
<1> DEFINE y == [c EXCEPT !.room = b]
<1>2. DOMAIN y = Fields /\ y.room = b /\ \A f \in Fields \ {"room"} : y[f] = c[f]
  BY DEF Core, Shape, Fields, Steady
<1> HIDE DEF y
<1>3. /\ y.wait = c.wait /\ y.out = c.out /\ y.old = c.old /\ y.app = c.app /\ y.tgt = c.tgt
      /\ y.fd = c.fd /\ y.is_corked = c.is_corked /\ y.is_loggedin = c.is_loggedin
      /\ \A f \in {"current_phase", "secneg_phase", "proven", "skewed", "digest", "imm", "late", "want"} :
           y[f] = c[f]
  BY <1>2 DEF Fields, Steady
<1>4. Shape(y, NoLogins)
  BY <1>2, <1>3 DEF Core, Shape
<1>5. Harmless(c, y)
  BY <1>1, <1>2, <1>3, <1>4 DEF Harmless, Core, OneRequest
<1> QED
  BY <1>1, <1>5, HarmlessCore DEF y

\* Every step keeps the invariant.
LEMMA CoreStep == ASSUME Core(c), Next PROVE Core(c')
<1>1. ~Connect
  BY DEF Connect, Core
<1> QED
  BY <1>1, PlainStep, EstablishStep, RefuseStep, LoginReplyStep, LoginSurpriseStep, ProbeStep,
     ResetReplyStep, RequestReplyStep, AsyncMessageStep, PingStep, TimeoutStep, RoomStep DEF Next

\* Before iscsi_full_connect_async only it and iscsi_set_noautoreconnect can
\* be called, and nothing arrives.
LEMMA IdleStep == ASSUME Idle(c), Next PROVE Core(c') \/ Idle(c')
<1>1. Connect \/ SetNoAutoReconnect
  BY DEF Idle, Next, Submit, TaskMgmt, ForceReconnect, ResetNextReconnect, Establish, Refuse,
         ServiceError, ServicePending, Write, LoginReply, LoginSurprise, ProbeReply,
         ProbeSurprise, ResetReply, RequestReply, AsyncMessage, Ping, Timeout, Drop, Block, Unblock, Tick,
         Readable, Serviced, PendingDue, Reconnecting, CanCommand
<1>2. DOMAIN c = Fields
  BY DEF Idle, Shape
<1>3. CASE SetNoAutoReconnect
  <2>1. PICK state \in BOOLEAN : c' = [c EXCEPT !.noauto = state]
    BY <1>3 DEF SetNoAutoReconnect, Idle
  <2> DEFINE y == [c EXCEPT !.noauto = state]
  <2>2. DOMAIN y = Fields /\ \A f \in Fields \ {"noauto"} : y[f] = c[f]
    BY <1>2 DEF Fields, Steady
  <2> HIDE DEF y
  <2>3. /\ y.wait = c.wait /\ y.out = c.out /\ y.old = c.old /\ y.app = c.app /\ y.tgt = c.tgt
        /\ y.fd = c.fd /\ y.room = c.room /\ y.is_corked = c.is_corked
        /\ y.is_loggedin = c.is_loggedin /\ y.pending = c.pending /\ y.early = c.early
        /\ y.deferred = c.deferred /\ y.current_phase = c.current_phase
        /\ y.secneg_phase = c.secneg_phase /\ y.proven = c.proven /\ y.skewed = c.skewed /\ y.digest = c.digest
        /\ y.imm = c.imm /\ y.late = c.late /\ y.want = c.want
    BY <2>2 DEF Fields, Steady
  <2>4. Shape(y, NoLogins)
    BY <2>2, <2>3 DEF Idle, Shape
  <2>5. Settled(y)
    BY <2>3 DEF Idle, Settled
  <2>6. Idle(y)
    BY <2>3, <2>4, <2>5 DEF Idle
  <2> QED
    BY <2>1, <2>6 DEF y
<1>4. CASE Connect
  <2> DEFINE a == [c.app EXCEPT !.started = TRUE]
             e == [c.app EXCEPT !.started = TRUE, !.conn = <<"refused">>]
             x == [c EXCEPT !.app = a]
             y == [c EXCEPT !.app = e]
             ct == [cb |-> "user", uas |-> 0]
  <2>1. c' \in {iscsi_connect_async(x, ct, TRUE), y}
    <3>1. /\ x = [c EXCEPT !.app.started = TRUE]
          /\ y = [c EXCEPT !.app.started = TRUE, !.app.conn = <<"refused">>]
      BY <1>2 DEF Fields
    <3> HIDE DEF x, y
    <3> QED
      BY <1>4, <3>1 DEF Connect, iscsi_full_connect_async
  <2>2. /\ DOMAIN a = DOMAIN c.app /\ a.started = TRUE
        /\ DOMAIN e = DOMAIN c.app /\ e.started = TRUE
    BY DEF Idle, Shape, SteadyApp
  <2> HIDE DEF a, e
  <2>3. ASSUME NEW b, DOMAIN b = DOMAIN c.app, b.started = TRUE, NEW z, DOMAIN z = Fields,
               z.app = b, \A f \in Fields \ {"app"} : z[f] = c[f]
        PROVE  /\ z.app.started /\ Shape(z, NoLogouts) /\ Shape(z, NoLogins) /\ Settled(z)
               /\ ~z.is_loggedin /\ z.current_phase # "FF" /\ ~z.is_corked
               /\ ~HasLogin(z.wait) /\ Once(z.wait) /\ z.secneg_phase = "OFFER_CHAP"
               /\ z.fd = "none"
    <3>1. /\ z.wait = c.wait /\ z.out = c.out /\ z.old = c.old /\ z.tgt = c.tgt
          /\ z.fd = c.fd /\ z.is_corked = c.is_corked
          /\ z.is_loggedin = c.is_loggedin /\ z.current_phase = c.current_phase
          /\ z.secneg_phase = c.secneg_phase /\ z.proven = c.proven /\ z.skewed = c.skewed /\ z.digest = c.digest
          /\ z.imm = c.imm /\ z.want = c.want
      BY <2>3 DEF Fields, Steady
    <3>2. Shape(z, NoLogouts) /\ Shape(z, NoLogins)
      BY <2>3, <3>1, QueueEmpty DEF Idle, Shape
    <3>3. Settled(z)
      BY <3>1 DEF Idle, Settled
    <3>4. ~HasLogin(z.wait) /\ Once(z.wait)
      BY <3>1 DEF Idle, HasLogin, Once
    <3> QED
      BY <2>3, <3>1, <3>2, <3>3, <3>4 DEF Idle
  <2>4. /\ DOMAIN x = Fields /\ x.app = a /\ \A f \in Fields \ {"app"} : x[f] = c[f]
        /\ DOMAIN y = Fields /\ y.app = e /\ \A f \in Fields \ {"app"} : y[f] = c[f]
    BY <1>2 DEF Fields
  <2> HIDE DEF x, y, ct
  <2>5. Core(iscsi_connect_async(x, ct, TRUE))
    BY <2>2, <2>3, <2>4, ConnectCore
  <2>6. Core(y)
    BY <2>2, <2>3, <2>4 DEF Core, OneRequest, Entering, Told
  <2> QED
    BY <2>1, <2>5, <2>6
<1> QED
  BY <1>1, <1>3, <1>4

\* The two facts that make LoginInv inductive.
LEMMA LoginInvInit == Init => LoginInv
<1> SUFFICES ASSUME Init PROVE Idle(c)
  BY DEF LoginInv
<1>1. HeaderDigest \subseteq Digests
  BY LoginAssumption
<1>2. /\ DOMAIN c = Fields
      /\ DOMAIN c.tgt = SteadyTgt \cup {"expect", "strange"}
      /\ DOMAIN c.app = SteadyApp \cup {"conn", "done", "astray"}
      /\ c.out = << >> /\ c.wait = << >> /\ c.old = NoOld
  BY DEF Init, Fields, Steady, SteadyTgt, SteadyApp
<1>3. /\ c.app.started = FALSE /\ c.app.astray = FALSE
      /\ c.fd = "none" /\ c.room = TRUE /\ c.is_loggedin = FALSE /\ c.pending = FALSE
      /\ c.early = FALSE /\ c.deferred = FALSE /\ c.is_corked = FALSE /\ c.late = FALSE
      /\ c.current_phase = "SECNEG" /\ c.secneg_phase = "OFFER_CHAP"
      /\ c.want = HeaderDigest /\ c.digest = "None"
  BY DEF Init
<1>4. /\ {"out", "wait", "retry"} \subseteq DOMAIN NoOld
      /\ NoOld.out = << >> /\ NoOld.wait = << >>
  BY DEF NoOld
<1>5. Shape(c, NoLogins)
  BY <1>2, <1>4, QueueEmpty DEF Shape
<1>6. Settled(c)
  BY <1>1, <1>3 DEF Settled, Stages
<1> QED
  BY <1>2, <1>3, <1>5, <1>6 DEF Idle

LEMMA LoginInvStep == LoginInv /\ [Next]_vars => LoginInv'
<1> SUFFICES ASSUME LoginInv, [Next]_vars PROVE LoginInv'
  OBVIOUS
<1>1. CASE Next
  <2>1. Core(c') \/ Idle(c')
    BY <1>1, CoreStep, IdleStep DEF LoginInv
  <2> QED
    BY <2>1 DEF LoginInv
<1>2. CASE UNCHANGED vars
  <2>1. c' = c
    BY <1>2 DEF vars
  <2>2. Core(c') \/ Idle(c')
    BY <2>1 DEF LoginInv
  <2> QED
    BY <2>2 DEF LoginInv
<1> QED
  BY <1>1, <1>2

\* At most one login request is under way, and phases, keys and digests agree
\* with how far it has got, on every path through the connect sequence, its
\* failures, redirects, timeouts and reconnects.
THEOREM OneLoginCorrect == Spec => []LoginInv
<1> QED
  BY LoginInvInit, LoginInvStep, PTL DEF Spec

\* With mutual CHAP configured there is no session on a connection on which the
\* target has not proved its name and secret, as long as its responses keep to
\* the stages asked for and it does not redirect in the middle of the security
\* negotiation, whatever else it answers and in which order.
THEOREM MutualAuthenticationCorrect == Spec => []MutualAuthentication
<1>1. LoginInv => MutualAuthentication
  BY DEF LoginInv, Core, Idle, Settled, MutualAuthentication
<1> QED
  BY <1>1, OneLoginCorrect, PTL

\* With a target that keeps to the stages asked for, a session uses the digest
\* it chose in the response that ended the login, sends immediate data only to
\* a target that takes it, and runs on a connection on which every key has been
\* sent; before, digests are off.
THEOREM NegotiatedAgreeCorrect == Spec => []NegotiatedAgree
<1>1. LoginInv => NegotiatedAgree
  <2> SUFFICES ASSUME LoginInv PROVE NegotiatedAgree
    OBVIOUS
  <2>1. CASE Core(c)
    BY <2>1 DEF Core, Settled, Told, Named, NegotiatedAgree
  <2>2. CASE Idle(c)
    BY <2>2 DEF Idle, Settled, NegotiatedAgree
  <2> QED
    BY <2>1, <2>2 DEF LoginInv
<1> QED
  BY <1>1, OneLoginCorrect, PTL

-----------------------------------------------------------------------------
(* Counting. *)

\* How many elements of s are in S.
Count(s, S) == Cardinality({i \in DOMAIN s : s[i] \in S})

\* A count is a number, and zero if there is no such element.
LEMMA CountType ==
  ASSUME NEW T, NEW s \in Seq(T), NEW S
  PROVE  /\ Count(s, S) \in Nat
         /\ IsFiniteSet({i \in DOMAIN s : s[i] \in S})
         /\ Count(s, S) = 0 <=> \A i \in DOMAIN s : s[i] \notin S
<1> DEFINE I == {i \in DOMAIN s : s[i] \in S}
<1>1. IsFiniteSet(1 .. Len(s)) /\ DOMAIN s = 1 .. Len(s)
  BY LenProperties, FS_Interval
<1>2. IsFiniteSet(I)
  BY <1>1, FS_Subset
<1>3. Cardinality(I) \in Nat /\ (Cardinality(I) = 0 <=> I = {})
  BY <1>2, FS_CardinalityType, FS_EmptySet
<1> QED
  BY <1>2, <1>3 DEF Count

\* Counts of lists built from smaller ones: the empty list,
LEMMA CountEmpty == ASSUME NEW S PROVE Count(<< >>, S) = 0
<1>1. {i \in DOMAIN << >> : << >>[i] \in S} = {}
  OBVIOUS
<1> QED
  BY <1>1, FS_EmptySet DEF Count

\* a list of one,
LEMMA CountOne ==
  ASSUME NEW p, NEW S
  PROVE  Count(<<p>>, S) = IF p \in S THEN 1 ELSE 0
<1>1. {i \in DOMAIN <<p>> : <<p>>[i] \in S} = IF p \in S THEN {1} ELSE {}
  OBVIOUS
<1> QED
  BY <1>1, FS_EmptySet, FS_Singleton DEF Count

\* two lists put together,
LEMMA CountConcat ==
  ASSUME NEW T, NEW s \in Seq(T), NEW t \in Seq(T), NEW S
  PROVE  Count(s \o t, S) = Count(s, S) + Count(t, S)
<1> DEFINE m == Len(s)
           n == Len(t)
           I == {i \in 1 .. m : s[i] \in S}
           J == {i \in 1 .. n : t[i] \in S}
           K == {m + j : j \in J}
           f == [j \in J |-> m + j]
           v == s \o t
<1>1. m \in Nat /\ DOMAIN s = 1 .. m /\ n \in Nat /\ DOMAIN t = 1 .. n
  BY LenProperties
<1>2. /\ DOMAIN v = 1 .. m + n
      /\ \A i \in 1 .. m + n : v[i] = IF i <= m THEN s[i] ELSE t[i - m]
  <2>1. v \in Seq(T) /\ Len(v) = m + n
    BY ConcatProperties
  <2>2. \A i \in 1 .. m + n : v[i] = IF i <= m THEN s[i] ELSE t[i - m]
    BY ConcatProperties
  <2> QED
    BY <2>1, <2>2, LenProperties
<1>3. IsFiniteSet(I) /\ IsFiniteSet(J)
  BY <1>1, CountType
<1>4. IsFiniteSet(K) /\ Cardinality(K) = Cardinality(J)
  <2>1. f \in Bijection(J, K)
    <3>1. f \in [J -> K] /\ \A a, b \in J : f[a] = f[b] => a = b
      BY <1>1
    <3>2. \A k \in K : \E j \in J : f[j] = k
      OBVIOUS
    <3> QED
      BY <3>1, <3>2, Fun_IsBij
  <2> QED
    BY <1>3, <2>1, FS_Bijection DEF ExistsBijection
<1>5. I \cap K = {}
  BY <1>1
<1>6. {i \in DOMAIN v : v[i] \in S} = I \cup K
  <2>1. ASSUME NEW i \in DOMAIN v, v[i] \in S PROVE i \in I \cup K
    <3>1. CASE i <= m
      BY <1>1, <1>2, <2>1, <3>1
    <3>2. CASE ~(i <= m)
      <4>1. i - m \in J /\ i = m + (i - m)
        BY <1>1, <1>2, <2>1, <3>2
      <4> QED
        BY <4>1
    <3> QED
      BY <3>1, <3>2
  <2>2. ASSUME NEW i \in I PROVE i \in DOMAIN v /\ v[i] \in S
    BY <1>1, <1>2
  <2>3. ASSUME NEW j \in J PROVE m + j \in DOMAIN v /\ v[m + j] \in S
    <3>1. m + j \in 1 .. m + n /\ ~(m + j <= m) /\ (m + j) - m = j
      BY <1>1
    <3> QED
      BY <1>2, <3>1
  <2> HIDE DEF I, J
  <2> QED
    BY <2>1, <2>2, <2>3
<1>7. Cardinality(I \cup K) = Cardinality(I) + Cardinality(K) - Cardinality(I \cap K)
  <2> HIDE DEF I, K
  <2> QED
    BY <1>3, <1>4, FS_Union
<1>8. Cardinality(I) \in Nat /\ Cardinality(J) \in Nat /\ Cardinality(I \cap K) = 0
  BY <1>3, <1>5, FS_EmptySet, FS_CardinalityType
<1>9. Count(s, S) = Cardinality(I) /\ Count(t, S) = Cardinality(J)
  BY <1>1 DEF Count
<1>10. Count(v, S) = Cardinality(I \cup K)
  BY <1>6 DEF Count
<1> HIDE DEF I, J, K, v
<1>11. Count(v, S) = Count(s, S) + Count(t, S)
  BY <1>4, <1>7, <1>8, <1>9, <1>10
<1> QED
  BY <1>11 DEF v

\* A list is what comes up to a place and what comes behind it.
LEMMA SplitAt ==
  ASSUME NEW T, NEW s \in Seq(T), NEW k \in 0 .. Len(s)
  PROVE  /\ SubSeq(s, 1, k) \in Seq(T) /\ SubSeq(s, k + 1, Len(s)) \in Seq(T)
         /\ Len(SubSeq(s, 1, k)) = k /\ Len(SubSeq(s, k + 1, Len(s))) = Len(s) - k
         /\ \A i \in 1 .. k : SubSeq(s, 1, k)[i] = s[i]
         /\ \A i \in 1 .. Len(s) - k : SubSeq(s, k + 1, Len(s))[i] = s[k + i]
         /\ s = SubSeq(s, 1, k) \o SubSeq(s, k + 1, Len(s))
<1> DEFINE n == Len(s)
           a == SubSeq(s, 1, k)
           b == SubSeq(s, k + 1, n)
<1>1. n \in Nat /\ k \in Nat /\ \A i \in 1 .. n : s[i] \in T
  BY LenProperties, ElementOfSeq
<1>2. a \in Seq(T) /\ Len(a) = k /\ \A i \in 1 .. k : a[i] = s[i]
  <2>1. \A i \in 1 .. k : s[i] \in T
    BY <1>1
  <2> QED
    BY <1>1, <2>1, SubSeqProperties
<1>3. b \in Seq(T) /\ Len(b) = n - k /\ \A i \in 1 .. n - k : b[i] = s[k + i]
  <2>1. \A i \in k + 1 .. n : s[i] \in T
    BY <1>1
  <2>2. /\ b \in Seq(T)
        /\ Len(b) = IF k + 1 <= n THEN n - (k + 1) + 1 ELSE 0
        /\ \A i \in 1 .. n - (k + 1) + 1 : b[i] = s[(k + 1) + i - 1]
    BY <1>1, <2>1, SubSeqProperties
  <2>3. \A i \in 1 .. n - k : i \in 1 .. n - (k + 1) + 1 /\ (k + 1) + i - 1 = k + i
    BY <1>1
  <2> QED
    BY <1>1, <2>2, <2>3
<1> HIDE DEF n, a, b
<1>4. s = a \o b
  <2>0. /\ a \o b \in Seq(T) /\ Len(a \o b) = Len(a) + Len(b)
        /\ \A i \in 1 .. Len(a) + Len(b) :
             (a \o b)[i] = IF i <= Len(a) THEN a[i] ELSE b[i - Len(a)]
    BY <1>2, <1>3, ConcatProperties
  <2>2. Len(a) + Len(b) = n
    BY <1>1, <1>2, <1>3
  <2>1. /\ a \o b \in Seq(T) /\ Len(a \o b) = n
        /\ \A i \in 1 .. n : (a \o b)[i] = IF i <= k THEN a[i] ELSE b[i - k]
    BY <1>2, <2>0, <2>2
  <2>3. ASSUME NEW i \in 1 .. n PROVE s[i] = (a \o b)[i]
    <3>1. CASE i <= k
      BY <1>1, <1>2, <2>1, <2>2, <3>1
    <3>2. CASE ~(i <= k)
      <4>1. i - k \in 1 .. n - k /\ k + (i - k) = i
        BY <1>1, <3>2
      <4> QED
        BY <1>3, <2>1, <2>2, <3>2, <4>1
    <3> QED
      BY <3>1, <3>2
  <2> QED
    BY <2>1, <2>2, <2>3, SeqEqual DEF n
<1> QED
  BY <1>2, <1>3, <1>4 DEF n, a, b

\* a list cut in two,
LEMMA CountSplit ==
  ASSUME NEW T, NEW s \in Seq(T), NEW k \in 0 .. Len(s), NEW S
  PROVE  Count(s, S) = Count(SubSeq(s, 1, k), S) + Count(SubSeq(s, k + 1, Len(s)), S)
<1> DEFINE a == SubSeq(s, 1, k)
           b == SubSeq(s, k + 1, Len(s))
<1>1. a \in Seq(T) /\ b \in Seq(T) /\ s = a \o b
  BY SplitAt
<1> HIDE DEF a, b
<1>2. Count(s, S) = Count(a, S) + Count(b, S)
  BY <1>1, CountConcat
<1> QED
  BY <1>2 DEF a, b

\* a list with one more at its end,
LEMMA CountAppend ==
  ASSUME NEW T, NEW s \in Seq(T), NEW p \in T, NEW S
  PROVE  Append(s, p) \in Seq(T)
         /\ Count(Append(s, p), S) = Count(s, S) + (IF p \in S THEN 1 ELSE 0)
<1> DEFINE u == <<p>>
<1>1. Append(s, p) = s \o u /\ Append(s, p) \in Seq(T)
  BY AppendIsConcat, AppendProperties
<1>2. u \in Seq(T) /\ Count(u, S) = IF p \in S THEN 1 ELSE 0
  BY CountOne
<1> HIDE DEF u
<1>3. Count(s \o u, S) = Count(s, S) + Count(u, S)
  BY <1>2, CountConcat
<1> QED
  BY <1>1, <1>2, <1>3

\* a list with one more anywhere,
LEMMA CountInsert ==
  ASSUME NEW T, NEW s \in Seq(T), NEW i \in 1 .. Len(s), NEW p \in T, NEW S
  PROVE  InsertAt(s, i, p) \in Seq(T)
         /\ Count(InsertAt(s, i, p), S) = Count(s, S) + (IF p \in S THEN 1 ELSE 0)
<1> DEFINE a == SubSeq(s, 1, i - 1)
           b == SubSeq(s, i, Len(s))
           u == <<p>>
<1>1. i - 1 \in 0 .. Len(s) /\ (i - 1) + 1 = i
  BY LenProperties
<1>2. /\ a \in Seq(T) /\ b \in Seq(T) /\ s = a \o b
      /\ Count(s, S) = Count(a, S) + Count(b, S)
  BY SMTT(20), <1>1, SplitAt, CountSplit
<1>3. u \in Seq(T) /\ Count(u, S) = IF p \in S THEN 1 ELSE 0
  BY CountOne
<1>4. InsertAt(s, i, p) = (a \o u) \o b
  BY DEF InsertAt
<1> HIDE DEF a, b, u
<1>5. a \o u \in Seq(T) /\ Count(a \o u, S) = Count(a, S) + Count(u, S)
  BY <1>2, <1>3, CountConcat, ConcatProperties
<1> DEFINE v == a \o u
<1> HIDE DEF v
<1>8. v \in Seq(T)
  BY <1>5 DEF v
<1>6. v \o b \in Seq(T) /\ Count(v \o b, S) = Count(v, S) + Count(b, S)
  BY <1>2, <1>8, CountConcat, ConcatProperties
<1>7. Count(a, S) \in Nat /\ Count(b, S) \in Nat /\ Count(u, S) \in Nat
  BY <1>2, <1>3, CountType
<1> QED
  BY <1>2, <1>3, <1>4, <1>5, <1>6, <1>7 DEF v

\* and a list without one of its elements.
LEMMA CountRemove ==
  ASSUME NEW T, NEW s \in Seq(T), NEW i \in 1 .. Len(s), NEW S
  PROVE  /\ RemoveAt(s, i) \in Seq(T)
         /\ Count(s, S) = Count(RemoveAt(s, i), S) + (IF s[i] \in S THEN 1 ELSE 0)
<1> DEFINE a == SubSeq(s, 1, i - 1)
           b == SubSeq(s, i, Len(s))
           d == SubSeq(s, i + 1, Len(s))
           u == <<s[i]>>
<1>1. i - 1 \in 0 .. Len(s) /\ (i - 1) + 1 = i /\ i \in 0 .. Len(s)
  BY LenProperties
<1>2. /\ a \in Seq(T) /\ b \in Seq(T) /\ s = a \o b
      /\ Len(b) = Len(s) - (i - 1)
      /\ \A k \in 1 .. Len(s) - (i - 1) : b[k] = s[(i - 1) + k]
      /\ Count(s, S) = Count(a, S) + Count(b, S)
  BY SMTT(20), <1>1, SplitAt, CountSplit
<1>3. /\ d \in Seq(T) /\ Len(d) = Len(s) - i
      /\ \A k \in 1 .. Len(s) - i : d[k] = s[i + k]
  BY <1>1, SplitAt
<1>4. u \in Seq(T) /\ Count(u, S) = (IF s[i] \in S THEN 1 ELSE 0) /\ Len(u) = 1 /\ u[1] = s[i]
  BY ElementOfSeq, CountOne
<1>5. Len(s) \in Nat
  BY LenProperties
<1>6. RemoveAt(s, i) = a \o d
  BY DEF RemoveAt
<1> HIDE DEF a, b, d, u
<1>7. b = u \o d
  <2>0. /\ u \o d \in Seq(T) /\ Len(u \o d) = Len(u) + Len(d)
        /\ \A k \in 1 .. Len(u) + Len(d) :
             (u \o d)[k] = IF k <= Len(u) THEN u[k] ELSE d[k - Len(u)]
    BY <1>3, <1>4, ConcatProperties
  <2>1. /\ u \o d \in Seq(T) /\ Len(u \o d) = 1 + (Len(s) - i)
        /\ \A k \in 1 .. 1 + (Len(s) - i) : (u \o d)[k] = IF k <= 1 THEN u[k] ELSE d[k - 1]
    BY <1>3, <1>4, <2>0
  <2>2. Len(b) = 1 + (Len(s) - i)
    BY <1>2, <1>5
  <2>3. ASSUME NEW k \in 1 .. Len(b) PROVE b[k] = (u \o d)[k]
    <3>0. b[k] = s[(i - 1) + k]
      BY <1>2, <2>2
    <3>1. CASE k <= 1
      <4>1. k = 1 /\ (i - 1) + k = i
        BY <1>5, <2>2, <3>1
      <4> QED
        BY <1>4, <2>1, <2>2, <3>0, <4>1
    <3>2. CASE ~(k <= 1)
      <4>1. k - 1 \in 1 .. Len(s) - i /\ i + (k - 1) = (i - 1) + k
        BY <1>5, <2>2, <3>2
      <4>2. d[k - 1] = s[i + (k - 1)]
        BY <1>3, <4>1
      <4>3. (u \o d)[k] = d[k - 1]
        BY <2>1, <2>2, <3>2
      <4> QED
        BY <3>0, <4>1, <4>2, <4>3
    <3> QED
      BY <3>1, <3>2
  <2> QED
    BY <1>2, <2>1, <2>2, <2>3, SeqEqual
<1>8. Count(b, S) = Count(u, S) + Count(d, S)
  BY <1>3, <1>4, <1>7, CountConcat
<1>9. a \o d \in Seq(T) /\ Count(a \o d, S) = Count(a, S) + Count(d, S)
  BY <1>2, <1>3, CountConcat, ConcatProperties
<1>10. Count(a, S) \in Nat /\ Count(d, S) \in Nat /\ Count(u, S) \in Nat
  BY <1>2, <1>3, <1>4, CountType
<1> QED
  BY <1>2, <1>4, <1>6, <1>8, <1>9, <1>10

\* Two lists with such elements at the same places.
LEMMA CountSame ==
  ASSUME NEW s, NEW t, NEW S, NEW R, DOMAIN s = DOMAIN t,
         \A i \in DOMAIN s : s[i] \in S <=> t[i] \in R
  PROVE  Count(s, S) = Count(t, R)
<1>1. {i \in DOMAIN s : s[i] \in S} = {i \in DOMAIN t : t[i] \in R}
  OBVIOUS
<1> QED
  BY <1>1 DEF Count

-----------------------------------------------------------------------------
(* The PDUs of a context and what is counted of them. *)

\* The PDUs that hold a connect_task.
Carriers == {"login"} \cup Internal

\* The PDUs the model makes: only commands and task management requests belong
\* to the application, and only those of the connect sequence hold a
\* connect_task.
Frame ==
  {p \in [kind : Kinds, id : Reqs \cup {0}, sn : Int,
          ct : [cb : {"none", "user", "reconnect"}, uas : Nat]] :
     /\ p.kind = "scsi" => p.id \in Cmds
     /\ p.kind = "tmf" => p.id \in Tmfs
     /\ p.kind \notin {"scsi", "tmf"} => p.id = 0
     /\ p.ct.cb # "none" <=> p.kind \in Carriers}

\* The PDUs that hold a connect_task with this callback, those of a request
\* of the application, and those of some kinds.
Holding(cb) == {p \in Frame : p.ct.cb = cb}

For(id) == {p \in Frame : p.id = id}

Being(kinds) == {p \in Frame : p.kind \in kinds}

\* Sets of PDUs that a new CmdSN does not take a PDU out of, or put it into.
Blind(S) == \A p \in Frame, n \in Int : [p EXCEPT !.sn = n] \in S <=> p \in S

\* A PDU with another CmdSN.
LEMMA Renumber ==
  ASSUME NEW p \in Frame, NEW n \in Int
  PROVE  LET q == [p EXCEPT !.sn = n] IN
         /\ q \in Frame /\ q.sn = n /\ q.kind = p.kind /\ q.id = p.id /\ q.ct = p.ct
<1>1. p \in [kind : Kinds, id : Reqs \cup {0}, sn : Int,
             ct : [cb : {"none", "user", "reconnect"}, uas : Nat]]
  BY DEF Frame
<1> DEFINE q == [p EXCEPT !.sn = n]
<1>2. /\ q.sn = n /\ q.kind = p.kind /\ q.id = p.id /\ q.ct = p.ct
      /\ q \in [kind : Kinds, id : Reqs \cup {0}, sn : Int,
                ct : [cb : {"none", "user", "reconnect"}, uas : Nat]]
  BY <1>1
<1> HIDE DEF q
<1>3. q \in Frame
  BY <1>2 DEF Frame
<1> QED
  BY <1>2, <1>3 DEF q

\* None of the sets that are counted looks at the CmdSN.
LEMMA BlindSets ==
  /\ \A cb : Blind(Holding(cb))
  /\ \A id : Blind(For(id))
  /\ \A kinds : Blind(Being(kinds))
BY Renumber DEF Blind, Holding, For, Being

\* What a PDU is.
LEMMA FrameIs ==
  ASSUME NEW p \in Frame
  PROVE  /\ DOMAIN p = FrameFields
         /\ p.kind \in Kinds /\ p.id \in Reqs \cup {0} /\ p.sn \in Int
         /\ p.ct.cb \in {"none", "user", "reconnect"} /\ p.ct.uas \in Nat
         /\ p.kind = "scsi" => p.id \in Cmds
         /\ p.kind = "tmf" => p.id \in Tmfs
         /\ p.kind \notin {"scsi", "tmf"} => p.id = 0
         /\ p.ct.cb # "none" <=> p.kind \in Carriers
BY DEF Frame, FrameFields

\* A list of PDUs in the sense of Queue.
LEMMA FramesQueue == ASSUME NEW s \in Seq(Frame) PROVE Queue(s, Kinds)
BY FrameIs DEF Queue

\* iscsi_add_to_outqueue gives p the number n and puts it at the place i, or
\* at the end if i is 0.
Placed(s, p, n, i) ==
  /\ [p EXCEPT !.sn = n] \in Frame
  /\ n = IF Immediate(p) /\ s # << >> THEN s[1].sn ELSE p.sn
  /\ Sorted(s, p) = IF i = 0 THEN Append(s, [p EXCEPT !.sn = n])
                    ELSE InsertAt(s, i, [p EXCEPT !.sn = n])
  /\ \A k \in 1 .. Len(s) :
       i = 0 \/ k < i => ~(n < s[k].sn \/ (Immediate(p) /\ ~Immediate(s[k])))
  /\ i # 0 => (n < s[i].sn \/ (Immediate(p) /\ ~Immediate(s[i])))

\* iscsi_add_to_outqueue places the PDU and gives it a number that is an integer.
LEMMA SortedFrame ==
  ASSUME NEW s \in Seq(Frame), NEW p \in Frame
  PROVE  \E n \in Int, i \in 0 .. Len(s) : Placed(s, p, n, i)
<1> DEFINE b == Immediate(p) /\ s # << >>
           n == IF b THEN s[1].sn ELSE p.sn
           q == [p EXCEPT !.sn = n]
           r == IF b THEN [p EXCEPT !.sn = Head(s).sn] ELSE p
           I == {k \in 1 .. Len(s) : \/ r.sn < s[k].sn
                                     \/ Immediate(r) /\ ~Immediate(s[k])}
           i == IF I # {} THEN Min(I) ELSE 0
<1>0. Len(s) \in Nat /\ \A k \in 1 .. Len(s) : s[k] \in Frame /\ s[k].sn \in Int
  BY LenProperties, ElementOfSeq, FrameIs
<1>1. Sorted(s, p) = IF i = 0 THEN Append(s, r) ELSE InsertAt(s, i, r)
  BY DEF Sorted, SelectInSeq
<1>2. n \in Int /\ (s # << >> => Head(s).sn = s[1].sn)
  <2>1. s # << >> => 1 \in 1 .. Len(s) /\ Head(s) = s[1]
    BY <1>0
  <2>2. p.sn \in Int
    BY FrameIs
  <2> QED
    BY <1>0, <2>1, <2>2
<1>3. r = q
  <2>1. p = [p EXCEPT !.sn = p.sn]
    BY DEF Frame
  <2> QED
    BY <1>2, <2>1
<1>4. q \in Frame /\ q.sn = n /\ q.kind = p.kind
  <2> HIDE DEF n
  <2> QED
    BY <1>2, Renumber
<1>5. Immediate(q) = Immediate(p)
  <2> HIDE DEF q
  <2> QED
    BY <1>4 DEF Immediate
<1> HIDE DEF r, q, n, b
<1>6. I \in SUBSET Nat /\ I \subseteq 1 .. Len(s)
  BY <1>0
<1>7. (I # {} => i \in I /\ \A k \in I : i <= k) /\ (I = {} => i = 0)
  <2> HIDE DEF I
  <2> QED
    BY <1>6, MinIsLeast
<1>8. i \in 0 .. Len(s) /\ (i = 0 <=> I = {})
  <2> HIDE DEF I, i
  <2>1. CASE I = {}
    BY <1>0, <1>7, <2>1
  <2>2. CASE I # {}
    <3>1. i \in 1 .. Len(s)
      BY <1>6, <1>7, <2>2
    <3> QED
      BY <1>0, <2>2, <3>1
  <2> QED
    BY <2>1, <2>2
<1>9. \A k \in 1 .. Len(s) :
                i = 0 \/ k < i => ~(n < s[k].sn \/ (Immediate(p) /\ ~Immediate(s[k])))
  <2> TAKE k \in 1 .. Len(s)
  <2> HAVE i = 0 \/ k < i
  <2>1. k \notin I
    <3> HIDE DEF I, i
    <3> QED
      BY <1>6, <1>7, <1>8
  <2> HIDE DEF i
  <2> QED
    BY <1>3, <1>4, <1>5, <2>1
<1>10. i # 0 => (n < s[i].sn \/ (Immediate(p) /\ ~Immediate(s[i])))
  <2>1. i # 0 => i \in I
    <3> HIDE DEF I, i
    <3> QED
      BY <1>7, <1>8
  <2>2. \A k \in I : n < s[k].sn \/ (Immediate(p) /\ ~Immediate(s[k]))
    BY <1>3, <1>4, <1>5
  <2> HIDE DEF i, I
  <2> QED
    BY <2>1, <2>2
<1> HIDE DEF i, I
<1>11. n = IF Immediate(p) /\ s # << >> THEN s[1].sn ELSE p.sn
  BY DEF n, b
<1>12. q = [p EXCEPT !.sn = n]
  BY DEF q
<1> QED
  BY <1>1, <1>2, <1>3, <1>4, <1>8, <1>9, <1>10, <1>11, <1>12 DEF Placed

\* Queueing a PDU adds that PDU, with some number, and nothing else.
LEMMA CountSorted ==
  ASSUME NEW s \in Seq(Frame), NEW p \in Frame
  PROVE  /\ Sorted(s, p) \in Seq(Frame)
         /\ \A S : Blind(S) => Count(Sorted(s, p), S) = Count(s, S) + (IF p \in S THEN 1 ELSE 0)
<1>1. PICK n \in Int, i \in 0 .. Len(s) : Placed(s, p, n, i)
  BY SortedFrame
<1> DEFINE q == [p EXCEPT !.sn = n]
<1>2. \A S : Blind(S) => (q \in S <=> p \in S)
  BY DEF Blind
<1>3. q \in Frame /\ Sorted(s, p) = IF i = 0 THEN Append(s, q) ELSE InsertAt(s, i, q)
  BY <1>1 DEF Placed
<1> HIDE DEF q
<1>4. i # 0 => i \in 1 .. Len(s)
  OBVIOUS
<1> QED
  BY <1>2, <1>3, <1>4, CountAppend, CountInsert

\* OfKind reads the list along the increasing enumeration of the places that
\* hold a PDU of these kinds.
Enumerates(g, q, s, kinds) ==
  /\ g \in [1 .. Len(q) -> 1 .. Len(s)]
  /\ \A k \in 1 .. Len(q) : q[k] = s[g[k]] /\ s[g[k]].kind \in kinds
  /\ \A a, b \in 1 .. Len(q) : a < b => g[a] < g[b]
  /\ \A i \in 1 .. Len(s) : s[i].kind \in kinds => \E k \in 1 .. Len(q) : g[k] = i

\* OfKind picks the PDUs of the given kinds in the order of the queue.
LEMMA OfKindOrder ==
  ASSUME NEW T, NEW s \in Seq(T), NEW kinds
  PROVE  OfKind(s, kinds) \in Seq(T) /\ \E g : Enumerates(g, OfKind(s, kinds), s, kinds)
<1>1. Len(s) \in Nat /\ \A i \in 1 .. Len(s) : s[i] \in T
  BY LenProperties, ElementOfSeq
<1>2. PICK f : Picking(s, kinds, f) /\ OfKind(s, kinds) = f[Len(s)]
  BY <1>1, OfKindSteps
<1>3. \A i \in 0 .. Len(s) :
        f[i] = IF i = 0 THEN << >>
               ELSE IF s[i].kind \in kinds THEN Append(f[i - 1], s[i]) ELSE f[i - 1]
  BY <1>2 DEF Picking
<1> DEFINE G(g, n) ==
             /\ g \in [1 .. Len(f[n]) -> 1 .. n]
             /\ \A k \in 1 .. Len(f[n]) : f[n][k] = s[g[k]] /\ s[g[k]].kind \in kinds
             /\ \A a, b \in 1 .. Len(f[n]) : a < b => g[a] < g[b]
             /\ \A i \in 1 .. n : s[i].kind \in kinds => \E k \in 1 .. Len(f[n]) : g[k] = i
           P(n) == f[n] \in Seq(T) /\ \E g : G(g, n)
           R == {n \in 0 .. Len(s) : ~P(n)}
<1>4. P(0)
  <2>1. f[0] = << >>
    BY <1>1, <1>3
  <2>2. Len(f[0]) = 0 /\ f[0] \in Seq(T)
    BY <2>1
  <2>3. G([k \in 1 .. 0 |-> 0], 0)
    BY <2>2
  <2> QED
    BY <2>2, <2>3
<1>5. ASSUME NEW m \in 1 .. Len(s), P(m - 1) PROVE P(m)
  <2>0. m \in 0 .. Len(s) /\ m # 0 /\ m \in Nat /\ s[m] \in T
    BY <1>1
  <2>1. PICK g : G(g, m - 1)
    BY <1>5
  <2> DEFINE e == f[m - 1]
             l == Len(e)
  <2>2. e \in Seq(T) /\ l \in Nat
    BY <1>5, LenProperties
  <2>3. CASE s[m].kind \in kinds
    <3> DEFINE h == [k \in 1 .. l + 1 |-> IF k = l + 1 THEN m ELSE g[k]]
    <3>1. f[m] = Append(e, s[m])
      BY <1>3, <2>0, <2>3
    <3>2. /\ f[m] \in Seq(T) /\ Len(f[m]) = l + 1
          /\ \A k \in 1 .. l : f[m][k] = e[k]
          /\ f[m][l + 1] = s[m]
      BY <2>0, <2>2, <3>1, AppendProperties
    <3>3. /\ \A k \in 1 .. l : g[k] \in 1 .. m - 1 /\ e[k] = s[g[k]] /\ s[g[k]].kind \in kinds
          /\ \A a, b \in 1 .. l : a < b => g[a] < g[b]
          /\ \A i \in 1 .. m - 1 : s[i].kind \in kinds => \E k \in 1 .. l : g[k] = i
      BY <2>1
    <3>4. \A k \in 1 .. l + 1 : k \in 1 .. l \/ k = l + 1
      BY <2>2
    <3>5. (\A k \in 1 .. l : k # l + 1 /\ h[k] = g[k]) /\ h[l + 1] = m
      BY <2>2
    <3>6. h \in [1 .. l + 1 -> 1 .. m]
      <4>1. \A k \in 1 .. l + 1 : h[k] \in 1 .. m
        BY <2>0, <3>3, <3>4, <3>5
      <4> QED
        BY <4>1
    <3> HIDE DEF h
    <3>7. \A k \in 1 .. l + 1 : f[m][k] = s[h[k]] /\ s[h[k]].kind \in kinds
      BY <2>3, <3>2, <3>3, <3>4, <3>5
    <3>8. ASSUME NEW a \in 1 .. l + 1, NEW b \in 1 .. l + 1, a < b PROVE h[a] < h[b]
      <4>1. a \in 1 .. l
        BY <2>2, <3>8
      <4>2. CASE b \in 1 .. l
        BY <3>3, <3>5, <3>8, <4>1, <4>2
      <4>3. CASE b = l + 1
        <5>1. h[a] \in 1 .. m - 1
          BY <3>3, <3>5, <4>1
        <5>2. h[b] = m
          BY <3>5, <4>3
        <5> HIDE DEF l
        <5> QED
          BY <2>0, <5>1, <5>2
      <4> QED
        BY <3>4, <4>2, <4>3
    <3>9. ASSUME NEW i \in 1 .. m, s[i].kind \in kinds PROVE \E k \in 1 .. l + 1 : h[k] = i
      <4>1. CASE i = m
        BY <2>2, <3>5, <4>1
      <4>2. CASE i # m
        <5>1. i \in 1 .. m - 1
          BY <2>0, <4>2
        <5>2. PICK k \in 1 .. l : g[k] = i
          BY <3>3, <3>9, <5>1
        <5> QED
          BY <2>2, <3>5, <5>2
      <4> QED
        BY <4>1, <4>2
    <3>10. G(h, m)
      BY <3>2, <3>6, <3>7, <3>8, <3>9
    <3> QED
      BY <3>2, <3>10
  <2>4. CASE s[m].kind \notin kinds
    <3>1. f[m] = e
      BY <1>3, <2>0, <2>4
    <3>2. \A i \in 1 .. m : i \in 1 .. m - 1 \/ i = m
      BY <2>0
    <3>3. 1 .. m - 1 \subseteq 1 .. m
      BY <2>0
    <3>4. G(g, m)
      BY <2>1, <2>4, <3>1, <3>2, <3>3
    <3> QED
      BY <2>2, <3>1, <3>4
  <2> QED
    BY <2>3, <2>4
<1> HIDE DEF P
<1>6. ASSUME R # {} PROVE FALSE
  <2>1. R \in SUBSET Nat
    BY <1>1
  <2>2. PICK m \in R : \A k \in R : m <= k
    <3> HIDE DEF R
    <3> QED
      BY <1>6, <2>1, Smallest
  <2>3. m \in 1 .. Len(s) /\ m - 1 \in 0 .. Len(s)
    BY <1>1, <1>4, <2>2
  <2>4. m - 1 \notin R
    <3> HIDE DEF R
    <3> QED
      BY <2>2, <2>3
  <2>5. P(m - 1)
    BY <2>3, <2>4
  <2> QED
    BY <1>5, <2>2, <2>3, <2>5
<1>7. P(Len(s))
  BY <1>1, <1>6
<1> QED
  BY <1>2, <1>7 DEF P, Enumerates

\* Picking the PDUs of some kinds counts those of these kinds.
LEMMA CountOfKind ==
  ASSUME NEW s \in Seq(Frame), NEW kinds
  PROVE  /\ OfKind(s, kinds) \in Seq(Frame)
         /\ \A S : Count(OfKind(s, kinds), S) = Count(s, S \cap Being(kinds))
<1> DEFINE q == OfKind(s, kinds)
<1>1. q \in Seq(Frame) /\ \E g : Enumerates(g, q, s, kinds)
  BY OfKindOrder
<1>2. PICK g : Enumerates(g, q, s, kinds)
  BY <1>1
<1> HIDE DEF q
<1>3. /\ Len(q) \in Nat /\ DOMAIN q = 1 .. Len(q)
      /\ Len(s) \in Nat /\ DOMAIN s = 1 .. Len(s) /\ \A i \in 1 .. Len(s) : s[i] \in Frame
  BY <1>1, LenProperties, ElementOfSeq
<1>4. ASSUME NEW S PROVE Count(q, S) = Count(s, S \cap Being(kinds))
  <2> DEFINE I == {k \in DOMAIN q : q[k] \in S}
             J == {i \in DOMAIN s : s[i] \in S \cap Being(kinds)}
             h == [k \in I |-> g[k]]
  <2>1. \A k \in I : h[k] \in J
    BY <1>2, <1>3 DEF Enumerates, Being
  <2>2. \A a, b \in I : h[a] = h[b] => a = b
    BY <1>2, <1>3 DEF Enumerates
  <2>3. \A i \in J : \E k \in I : h[k] = i
    <3> TAKE i \in J
    <3>1. i \in 1 .. Len(s) /\ s[i].kind \in kinds /\ s[i] \in S
      BY <1>3 DEF Being
    <3>2. PICK k \in 1 .. Len(q) : g[k] = i
      BY <1>2, <3>1 DEF Enumerates
    <3>3. q[k] = s[i]
      BY <1>2, <3>2 DEF Enumerates
    <3> QED
      BY <1>3, <3>1, <3>2, <3>3
  <2>4. h \in [I -> J]
    BY <2>1
  <2>5. IsFiniteSet(I)
    BY <1>1, CountType
  <2> HIDE DEF I, J, h
  <2>6. h \in Bijection(I, J)
    BY <2>2, <2>3, <2>4, Fun_IsBij
  <2>7. Cardinality(J) = Cardinality(I)
    BY <2>5, <2>6, FS_Bijection DEF ExistsBijection
  <2> QED
    BY <2>7 DEF Count, I, J
<1> QED
  BY <1>1, <1>4 DEF q

-----------------------------------------------------------------------------
(* The order of the commands and their CmdSNs. *)

\* No command of t has a smaller number than one of s.
Under(s, t) ==
  \A i \in DOMAIN s, j \in DOMAIN t :
    s[i].kind = "scsi" /\ t[j].kind = "scsi" => s[i].id < t[j].id

\* Both lists are in order, and everything in the first comes before
\* everything in the second.
LEMMA InOrderConcat ==
  ASSUME NEW s \in Seq(Frame), NEW t \in Seq(Frame)
  PROVE  InOrder(s \o t) <=> InOrder(s) /\ InOrder(t) /\ Under(s, t)
<1> DEFINE v == s \o t
           m == Len(s)
           n == Len(t)
<1>1. m \in Nat /\ DOMAIN s = 1 .. m /\ n \in Nat /\ DOMAIN t = 1 .. n
  BY LenProperties
<1>2. /\ DOMAIN v = 1 .. m + n
      /\ \A i \in 1 .. m + n : v[i] = IF i <= m THEN s[i] ELSE t[i - m]
  <2>1. v \in Seq(Frame) /\ Len(v) = m + n
    BY ConcatProperties
  <2>2. \A i \in 1 .. m + n : v[i] = IF i <= m THEN s[i] ELSE t[i - m]
    BY ConcatProperties
  <2> QED
    BY <2>1, <2>2, LenProperties
<1> HIDE DEF v, m, n
<1>3. \A i \in 1 .. m : i \in DOMAIN v /\ v[i] = s[i]
  BY <1>1, <1>2
<1>4. \A j \in 1 .. n : m + j \in DOMAIN v /\ v[m + j] = t[j]
  <2> TAKE j \in 1 .. n
  <2>1. m + j \in 1 .. m + n /\ ~(m + j <= m) /\ (m + j) - m = j
    BY <1>1
  <2> QED
    BY <1>2, <2>1
<1>5. \A i \in DOMAIN v : i \in 1 .. m \/ \E j \in 1 .. n : i = m + j
  <2> TAKE i \in DOMAIN v
  <2>1. i \in 1 .. m \/ (i - m \in 1 .. n /\ i = m + (i - m))
    BY <1>1, <1>2
  <2> QED
    BY <2>1
<1>6. ASSUME InOrder(v) PROVE InOrder(s) /\ InOrder(t) /\ Under(s, t)
  <2>1. InOrder(s)
    BY <1>1, <1>3, <1>6 DEF InOrder
  <2>2. InOrder(t)
    <3>1. ASSUME NEW i \in 1 .. n, NEW j \in 1 .. n, i < j, {t[i].kind, t[j].kind} = {"scsi"}
          PROVE  t[i].id < t[j].id
      <4>1. m + i < m + j
        BY <1>1, <3>1
      <4> QED
        BY <1>4, <1>6, <3>1, <4>1 DEF InOrder
    <3> QED
      BY <1>1, <3>1 DEF InOrder
  <2>3. Under(s, t)
    <3>1. ASSUME NEW i \in 1 .. m, NEW j \in 1 .. n, s[i].kind = "scsi", t[j].kind = "scsi"
          PROVE  s[i].id < t[j].id
      <4>1. i < m + j
        BY <1>1
      <4>2. {v[i].kind, v[m + j].kind} = {"scsi"}
        BY <1>3, <1>4, <3>1
      <4> QED
        BY <1>3, <1>4, <1>6, <4>1, <4>2 DEF InOrder
    <3> QED
      BY <1>1, <3>1 DEF Under
  <2> QED
    BY <2>1, <2>2, <2>3
<1>7. ASSUME InOrder(s), InOrder(t), Under(s, t) PROVE InOrder(v)
  <2>1. ASSUME NEW a \in DOMAIN v, NEW b \in DOMAIN v, a < b, v[a].kind = "scsi", v[b].kind = "scsi"
        PROVE  v[a].id < v[b].id
    <3>1. CASE a \in 1 .. m /\ b \in 1 .. m
      <4>1. {s[a].kind, s[b].kind} = {"scsi"}
        BY <1>3, <2>1, <3>1
      <4> QED
        BY <1>1, <1>3, <1>7, <2>1, <3>1, <4>1 DEF InOrder
    <3>2. CASE a \in 1 .. m /\ \E j \in 1 .. n : b = m + j
      <4>1. PICK j \in 1 .. n : b = m + j
        BY <3>2
      <4>2. a \in DOMAIN s /\ j \in DOMAIN t /\ v[a] = s[a] /\ v[b] = t[j]
        BY <1>1, <1>3, <1>4, <3>2, <4>1
      <4> QED
        BY <1>7, <2>1, <4>2 DEF Under
    <3>3. CASE (\E i \in 1 .. n : a = m + i) /\ b \in 1 .. m
      BY <1>1, <2>1, <3>3
    <3>4. CASE (\E i \in 1 .. n : a = m + i) /\ \E j \in 1 .. n : b = m + j
      <4>1. PICK i \in 1 .. n, j \in 1 .. n : a = m + i /\ b = m + j
        BY <3>4
      <4>2. i < j /\ {t[i].kind, t[j].kind} = {"scsi"}
        BY <1>1, <1>4, <2>1, <4>1
      <4> QED
        BY <1>1, <1>4, <1>7, <4>1, <4>2 DEF InOrder
    <3> QED
      BY <1>5, <3>1, <3>2, <3>3, <3>4
  <2> QED
    BY <2>1 DEF InOrder
<1> QED
  BY <1>6, <1>7 DEF v

\* The PDUs of t are PDUs of s, but for their numbers, in the same order.
Thinned(t, s) ==
  \E g : /\ g \in [1 .. Len(t) -> 1 .. Len(s)]
         /\ \A k \in 1 .. Len(t) : t[k].kind = s[g[k]].kind /\ t[k].id = s[g[k]].id
         /\ \A a, b \in 1 .. Len(t) : a < b => g[a] < g[b]

\* A list with fewer PDUs is in order as well.
LEMMA ThinnedOrder ==
  ASSUME NEW s \in Seq(Frame), NEW t \in Seq(Frame), Thinned(t, s)
  PROVE  /\ InOrder(s) => InOrder(t)
         /\ \A u : Under(s, u) => Under(t, u)
         /\ \A u : Under(u, s) => Under(u, t)
<1>1. Len(s) \in Nat /\ DOMAIN s = 1 .. Len(s) /\ Len(t) \in Nat /\ DOMAIN t = 1 .. Len(t)
  BY LenProperties
<1>2. PICK g : /\ g \in [1 .. Len(t) -> 1 .. Len(s)]
               /\ \A k \in 1 .. Len(t) : t[k].kind = s[g[k]].kind /\ t[k].id = s[g[k]].id
               /\ \A a, b \in 1 .. Len(t) : a < b => g[a] < g[b]
  BY DEF Thinned
<1>3. \A k \in DOMAIN t : g[k] \in DOMAIN s /\ t[k].kind = s[g[k]].kind /\ t[k].id = s[g[k]].id
  BY <1>1, <1>2
<1>4. \A a, b \in DOMAIN t : a < b => g[a] < g[b]
  BY <1>1, <1>2
<1>5. InOrder(s) => InOrder(t)
  BY <1>3, <1>4 DEF InOrder
<1>6. ASSUME NEW u PROVE (Under(s, u) => Under(t, u)) /\ (Under(u, s) => Under(u, t))
  BY <1>3 DEF Under
<1> QED
  BY <1>5, <1>6

\* OfKind leaves elements out and keeps the order of the others.
LEMMA ThinnedOfKind ==
  ASSUME NEW s \in Seq(Frame), NEW kinds
  PROVE  Thinned(OfKind(s, kinds), s)
<1> DEFINE t == OfKind(s, kinds)
<1>1. PICK g : Enumerates(g, t, s, kinds)
  BY OfKindOrder
<1> HIDE DEF t
<1>2. /\ g \in [1 .. Len(t) -> 1 .. Len(s)]
      /\ \A k \in 1 .. Len(t) : t[k] = s[g[k]]
      /\ \A a, b \in 1 .. Len(t) : a < b => g[a] < g[b]
  BY <1>1 DEF Enumerates
<1>3. \A k \in 1 .. Len(t) : t[k].kind = s[g[k]].kind /\ t[k].id = s[g[k]].id
  BY <1>2
<1>4. Thinned(t, s)
  BY <1>2, <1>3 DEF Thinned
<1> QED
  BY <1>4 DEF t

\* One PDU less.
LEMMA ThinnedRemove ==
  ASSUME NEW s \in Seq(Frame), NEW i \in 1 .. Len(s), NEW t \in Seq(Frame),
         Len(t) = Len(s) - 1,
         \A k \in 1 .. Len(s) - 1 : LET e == IF k < i THEN s[k] ELSE s[k + 1]
                                    IN  t[k].kind = e.kind /\ t[k].id = e.id
  PROVE  Thinned(t, s)
<1>1. Len(s) \in Nat
  BY LenProperties
<1> DEFINE g == [k \in 1 .. Len(t) |-> IF k < i THEN k ELSE k + 1]
<1>2. g \in [1 .. Len(t) -> 1 .. Len(s)]
  BY <1>1
<1>3. \A a, b \in 1 .. Len(t) : a < b => g[a] < g[b]
  BY <1>1
<1>4. \A k \in 1 .. Len(t) : s[g[k]] = IF k < i THEN s[k] ELSE s[k + 1]
  OBVIOUS
<1>5. \A k \in 1 .. Len(t) : t[k].kind = s[g[k]].kind /\ t[k].id = s[g[k]].id
  <2> TAKE k \in 1 .. Len(t)
  <2>1. k \in 1 .. Len(s) - 1
    OBVIOUS
  <2> HIDE DEF g
  <2> QED
    BY <1>4, <2>1
<1> HIDE DEF g
<1> QED
  BY <1>2, <1>3, <1>5 DEF Thinned

\* RemoveAt, by its elements.
LEMMA RemoveIs ==
  ASSUME NEW T, NEW s \in Seq(T), NEW i \in 1 .. Len(s)
  PROVE  /\ RemoveAt(s, i) \in Seq(T) /\ Len(RemoveAt(s, i)) = Len(s) - 1
         /\ \A k \in 1 .. Len(s) - 1 : RemoveAt(s, i)[k] = IF k < i THEN s[k] ELSE s[k + 1]
<1> DEFINE a == SubSeq(s, 1, i - 1)
           b == SubSeq(s, i + 1, Len(s))
           v == a \o b
<1>1. Len(s) \in Nat /\ i - 1 \in 0 .. Len(s) /\ (i - 1) + 1 = i /\ i \in 0 .. Len(s)
  BY LenProperties
<1>2. a \in Seq(T) /\ Len(a) = i - 1 /\ \A k \in 1 .. i - 1 : a[k] = s[k]
  BY <1>1, SplitAt
<1>3. b \in Seq(T) /\ Len(b) = Len(s) - i /\ \A k \in 1 .. Len(s) - i : b[k] = s[i + k]
  BY <1>1, SplitAt
<1>4. RemoveAt(s, i) = v
  BY DEF RemoveAt
<1> HIDE DEF a, b
<1>5. /\ v \in Seq(T) /\ Len(v) = Len(a) + Len(b)
      /\ \A k \in 1 .. Len(a) + Len(b) : v[k] = IF k <= Len(a) THEN a[k] ELSE b[k - Len(a)]
  BY <1>2, <1>3, ConcatProperties
<1> HIDE DEF v
<1>6. Len(a) + Len(b) = Len(s) - 1
  BY <1>1, <1>2, <1>3
<1>7. ASSUME NEW k \in 1 .. Len(s) - 1 PROVE v[k] = IF k < i THEN s[k] ELSE s[k + 1]
  <2>1. v[k] = IF k <= i - 1 THEN a[k] ELSE b[k - (i - 1)]
    BY <1>2, <1>5, <1>6
  <2>2. CASE k < i
    BY <1>1, <1>2, <2>1, <2>2
  <2>3. CASE ~(k < i)
    <3>1. k - (i - 1) \in 1 .. Len(s) - i /\ i + (k - (i - 1)) = k + 1 /\ ~(k <= i - 1)
      BY <1>1, <2>3
    <3> QED
      BY <1>3, <2>1, <2>3, <3>1
  <2> QED
    BY <2>2, <2>3
<1> QED
  BY <1>4, <1>5, <1>6, <1>7

\* The elements of a queue with one more.
LEMMA InsertElements ==
  ASSUME NEW s \in Seq(Frame), NEW i \in 1 .. (Len(s) + 1), NEW p \in Frame
  PROVE  /\ InsertAt(s, i, p) \in Seq(Frame) /\ Len(InsertAt(s, i, p)) = Len(s) + 1
         /\ \A k \in 1 .. (Len(s) + 1) :
              InsertAt(s, i, p)[k] = IF k < i THEN s[k] ELSE IF k = i THEN p ELSE s[k - 1]
<1> DEFINE t == InsertAt(s, i, p)
<1>1. /\ t \in Seq(Frame) /\ Len(t) = Len(s) + 1
      /\ \A k \in 1 .. (Len(s) + 1) : t[k] = IF k < i THEN s[k] ELSE IF k = i THEN p ELSE s[k - 1]
  <2> HIDE DEF t
  <2> QED
    BY InsertType DEF t
<1> QED
  BY <1>1

\* Inserting a PDU that is no command, or appending one with a larger number.
LEMMA InsertOrder ==
  ASSUME NEW s \in Seq(Frame), NEW i \in 1 .. (Len(s) + 1), NEW p \in Frame, p.kind # "scsi"
  PROVE  /\ InOrder(s) => InOrder(InsertAt(s, i, p))
         /\ \A w \in Seq(Frame) : Under(w, s) => Under(w, InsertAt(s, i, p))
<1> DEFINE t == InsertAt(s, i, p)
<1>1. Len(s) \in Nat /\ DOMAIN s = 1 .. Len(s)
  BY LenProperties
<1>2. /\ t \in Seq(Frame) /\ Len(t) = Len(s) + 1
      /\ \A k \in 1 .. (Len(s) + 1) : t[k] = IF k < i THEN s[k] ELSE IF k = i THEN p ELSE s[k - 1]
  BY InsertElements
<1> HIDE DEF t
<1>3. DOMAIN t = 1 .. (Len(s) + 1)
  BY <1>2, LenProperties
<1> DEFINE g(k) == IF k < i THEN k ELSE k - 1
<1>4. \A k \in DOMAIN t : t[k].kind = "scsi" => g(k) \in DOMAIN s /\ t[k] = s[g(k)] /\ k # i
  BY <1>1, <1>2, <1>3
<1>5. \A a, b \in DOMAIN t : a < b /\ a # i /\ b # i => g(a) < g(b)
  BY <1>1, <1>3
<1> HIDE DEF g
<1>6. InOrder(s) => InOrder(t)
  <2>1. ASSUME InOrder(s), NEW a \in DOMAIN t, NEW b \in DOMAIN t, a < b,
               t[a].kind = "scsi", t[b].kind = "scsi"
        PROVE  t[a].id < t[b].id
    <3>1. g(a) < g(b) /\ {s[g(a)].kind, s[g(b)].kind} = {"scsi"}
      BY <1>4, <1>5, <2>1
    <3> QED
      BY <1>4, <2>1, <3>1 DEF InOrder
  <2> QED
    BY <2>1 DEF InOrder
<1>7. ASSUME NEW w \in Seq(Frame), Under(w, s) PROVE Under(w, t)
  BY <1>4, <1>7 DEF Under
<1> QED
  BY <1>6, <1>7 DEF t

\* The queue of a context whose next CmdSN is n: immediate PDUs first, then
\* the commands with the numbers that end before n.
Numbered(s, n) ==
  /\ \A i, j \in DOMAIN s : i < j /\ Immediate(s[j]) => Immediate(s[i])
  /\ \A j \in DOMAIN s : ~Immediate(s[j]) => s[j].sn = n - 1 - (Len(s) - j)
  /\ \A i, j \in DOMAIN s : Immediate(s[i]) /\ ~Immediate(s[j]) => s[i].sn <= s[j].sn
  /\ \A i \in DOMAIN s : s[i].sn <= n

\* An empty queue is numbered.
LEMMA NumberedEmpty == ASSUME NEW n PROVE Numbered(<< >>, n)
BY DEF Numbered

\* A command goes to the end.
LEMMA SortedCommand ==
  ASSUME NEW s \in Seq(Frame), NEW n \in Int, Numbered(s, n), NEW p \in Frame, p.sn = n,
         ~Immediate(p)
  PROVE  Sorted(s, p) = Append(s, p) /\ Numbered(Append(s, p), n + 1)
<1>1. PICK m \in Int, i \in 0 .. Len(s) : Placed(s, p, m, i)
  BY SortedFrame
<1>2. Len(s) \in Nat /\ DOMAIN s = 1 .. Len(s) /\ \A k \in 1 .. Len(s) : s[k].sn \in Int
  BY LenProperties, ElementOfSeq, FrameIs
<1>3. m = n /\ [p EXCEPT !.sn = m] = p
  <2>1. m = n
    BY <1>1 DEF Placed
  <2>2. p = [p EXCEPT !.sn = p.sn]
    BY DEF Frame
  <2> QED
    BY <2>1, <2>2
<1>4. i = 0
  <2>1. ASSUME i # 0 PROVE FALSE
    <3>1. i \in 1 .. Len(s) /\ n < s[i].sn
      BY <1>1, <1>2, <1>3, <2>1 DEF Placed
    <3>2. s[i].sn <= n /\ s[i].sn \in Int
      BY <1>2, <3>1 DEF Numbered
    <3> QED
      BY <3>1, <3>2
  <2> QED
    BY <2>1
<1>5. Sorted(s, p) = Append(s, p)
  BY <1>1, <1>3, <1>4 DEF Placed
<1> DEFINE t == Append(s, p)
<1>6. /\ t \in Seq(Frame) /\ Len(t) = Len(s) + 1
      /\ \A k \in 1 .. Len(s) : t[k] = s[k]
      /\ t[Len(s) + 1] = p
  BY AppendProperties
<1> HIDE DEF t
<1>7. /\ DOMAIN t = 1 .. Len(s) + 1
      /\ \A k \in DOMAIN t : k \in 1 .. Len(s) \/ k = Len(s) + 1
      /\ Len(s) + 1 \notin 1 .. Len(s)
  BY <1>2, <1>6, LenProperties
<1>8. /\ \A i1, j \in 1 .. Len(s) : i1 < j /\ Immediate(s[j]) => Immediate(s[i1])
      /\ \A j \in 1 .. Len(s) : ~Immediate(s[j]) => s[j].sn = n - 1 - (Len(s) - j)
      /\ \A i1, j \in 1 .. Len(s) : Immediate(s[i1]) /\ ~Immediate(s[j]) => s[i1].sn <= s[j].sn
      /\ \A i1 \in 1 .. Len(s) : s[i1].sn <= n
  BY <1>2 DEF Numbered
<1>9. ASSUME NEW a \in DOMAIN t, NEW b \in DOMAIN t, a < b, Immediate(t[b])
      PROVE  Immediate(t[a])
  <2>1. b \in 1 .. Len(s)
    BY <1>6, <1>7, <1>9
  <2>2. a \in 1 .. Len(s)
    BY <1>2, <1>7, <1>9, <2>1
  <2> QED
    BY <1>6, <1>8, <1>9, <2>1, <2>2
<1>10. ASSUME NEW b \in DOMAIN t, ~Immediate(t[b])
       PROVE  t[b].sn = (n + 1) - 1 - (Len(t) - b)
  <2>1. CASE b \in 1 .. Len(s)
    <3>1. t[b].sn = n - 1 - (Len(s) - b)
      BY <1>6, <1>8, <1>10, <2>1
    <3> QED
      BY <1>2, <1>6, <2>1, <3>1
  <2>2. CASE b = Len(s) + 1
    BY <1>2, <1>6, <2>2
  <2> QED
    BY <1>7, <2>1, <2>2
<1>11. ASSUME NEW a \in DOMAIN t, NEW b \in DOMAIN t, Immediate(t[a]), ~Immediate(t[b])
       PROVE  t[a].sn <= t[b].sn
  <2>1. a \in 1 .. Len(s)
    BY <1>6, <1>7, <1>11
  <2>2. CASE b \in 1 .. Len(s)
    BY <1>6, <1>8, <1>11, <2>1, <2>2
  <2>3. CASE b = Len(s) + 1
    <3>1. s[a].sn <= n
      BY <1>8, <2>1
    <3> QED
      BY <1>6, <2>1, <2>3, <3>1
  <2> QED
    BY <1>7, <2>2, <2>3
<1>12. ASSUME NEW a \in DOMAIN t PROVE t[a].sn <= n + 1
  <2>1. CASE a \in 1 .. Len(s)
    <3>1. s[a].sn <= n /\ s[a].sn \in Int
      BY <1>2, <1>8, <2>1
    <3> QED
      BY <1>6, <2>1, <3>1
  <2>2. CASE a = Len(s) + 1
    BY <1>6, <2>2
  <2> QED
    BY <1>7, <2>1, <2>2
<1>13. Numbered(t, n + 1)
  BY <1>9, <1>10, <1>11, <1>12 DEF Numbered
<1> QED
  BY <1>5, <1>13 DEF t

\* An immediate PDU goes in front of the commands.
LEMMA InsertNumbered ==
  ASSUME NEW s \in Seq(Frame), NEW n \in Int, Numbered(s, n), NEW q \in Frame, Immediate(q),
         NEW i \in 1 .. (Len(s) + 1), q.sn <= n,
         \A k \in 1 .. Len(s) : ~Immediate(s[k]) => i <= k /\ q.sn <= s[k].sn
  PROVE  Numbered(InsertAt(s, i, q), n)
<1> DEFINE t == InsertAt(s, i, q)
           g(k) == IF k < i THEN k ELSE k - 1
<1>1. Len(s) \in Nat /\ DOMAIN s = 1 .. Len(s) /\ \A k \in 1 .. Len(s) : s[k].sn \in Int
  BY LenProperties, ElementOfSeq, FrameIs
<1> HIDE DEF t, g
<1>2. /\ t \in Seq(Frame) /\ Len(t) = Len(s) + 1
      /\ \A k \in 1 .. (Len(s) + 1) : t[k] = IF k < i THEN s[k] ELSE IF k = i THEN q ELSE s[k - 1]
  <2>1. /\ InsertAt(s, i, q) \in Seq(Frame) /\ Len(InsertAt(s, i, q)) = Len(s) + 1
        /\ \A k \in 1 .. (Len(s) + 1) :
             InsertAt(s, i, q)[k] = IF k < i THEN s[k] ELSE IF k = i THEN q ELSE s[k - 1]
    BY ONLY InsertElements, s \in Seq(Frame), i \in 1 .. (Len(s) + 1), q \in Frame
  <2> QED
    BY <2>1 DEF t
<1> USE DEF g
<1>3. DOMAIN t = 1 .. (Len(s) + 1)
  BY <1>2, LenProperties
<1>4. \A k \in DOMAIN t : k # i => g(k) \in 1 .. Len(s) /\ t[k] = s[g(k)]
  BY <1>1, <1>2, <1>3
<1>5. t[i] = q
  BY <1>1, <1>2
<1>6. /\ \A a, b \in 1 .. Len(s) : a < b /\ Immediate(s[b]) => Immediate(s[a])
      /\ \A j \in 1 .. Len(s) : ~Immediate(s[j]) => s[j].sn = n - 1 - (Len(s) - j)
      /\ \A a, b \in 1 .. Len(s) : Immediate(s[a]) /\ ~Immediate(s[b]) => s[a].sn <= s[b].sn
      /\ \A a \in 1 .. Len(s) : s[a].sn <= n
  BY <1>1 DEF Numbered
<1>7. \A k \in DOMAIN t : ~Immediate(t[k]) => i < k /\ g(k) = k - 1
  <2> TAKE k \in DOMAIN t
  <2> HAVE ~Immediate(t[k])
  <2>1. k # i /\ g(k) \in 1 .. Len(s) /\ ~Immediate(s[g(k)])
    BY <1>4, <1>5
  <2>2. i <= g(k)
    <3> HIDE DEF g
    <3> QED
      BY <2>1
  <2> QED
    BY <1>1, <1>3, <2>1, <2>2
<1>8. \A a, b \in DOMAIN t : a < b /\ a # i /\ b # i => g(a) < g(b)
  BY <1>1, <1>3
<1>9. ASSUME NEW a \in DOMAIN t, NEW b \in DOMAIN t, a < b, Immediate(t[b])
      PROVE  Immediate(t[a])
  <2>1. CASE a = i
    BY <1>5, <2>1
  <2>2. CASE a # i /\ b = i
    <3>1. ~(i < a)
      BY <1>3, <1>9, <2>2
    <3> QED
      BY <1>7, <3>1
  <2>3. CASE a # i /\ b # i
    <3> HIDE DEF g
    <3> QED
      BY <1>4, <1>6, <1>8, <1>9, <2>3
  <2> QED
    BY <2>1, <2>2, <2>3
<1>10. ASSUME NEW b \in DOMAIN t, ~Immediate(t[b])
       PROVE  t[b].sn = n - 1 - (Len(t) - b)
  <2>1. b # i /\ g(b) = b - 1
    BY <1>3, <1>7, <1>10
  <2>2. b - 1 \in 1 .. Len(s) /\ t[b] = s[b - 1]
    <3> HIDE DEF g
    <3> QED
      BY <1>4, <2>1
  <2>3. s[b - 1].sn = n - 1 - (Len(s) - (b - 1))
    BY <1>6, <1>10, <2>2
  <2> QED
    BY <1>1, <1>2, <1>3, <2>2, <2>3
<1> HIDE DEF g
<1>11. ASSUME NEW a \in DOMAIN t, NEW b \in DOMAIN t, Immediate(t[a]), ~Immediate(t[b])
       PROVE  t[a].sn <= t[b].sn
  <2>1. b # i /\ g(b) \in 1 .. Len(s) /\ t[b] = s[g(b)]
    BY <1>4, <1>5, <1>11
  <2>2. CASE a = i
    BY <1>5, <1>11, <2>1, <2>2
  <2>3. CASE a # i
    BY <1>4, <1>6, <1>11, <2>1, <2>3
  <2> QED
    BY <2>2, <2>3
<1>12. \A a \in DOMAIN t : t[a].sn <= n
  BY <1>4, <1>5, <1>6
<1>13. Numbered(t, n)
  BY <1>9, <1>10, <1>11, <1>12 DEF Numbered
<1> QED
  BY <1>13 DEF t

\* An immediate PDU leaves the commands numbered.
LEMMA SortedImmediate ==
  ASSUME NEW s \in Seq(Frame), NEW n \in Int, Numbered(s, n), NEW p \in Frame, p.sn = n,
         Immediate(p)
  PROVE  /\ Numbered(Sorted(s, p), n)
         /\ \E q \in Frame, i \in 1 .. (Len(s) + 1) :
              Sorted(s, p) = InsertAt(s, i, q) /\ q.kind = p.kind
<1>1. PICK m \in Int, i \in 0 .. Len(s) : Placed(s, p, m, i)
  BY SortedFrame
<1> DEFINE q == [p EXCEPT !.sn = m]
           j == IF i = 0 THEN Len(s) + 1 ELSE i
<1>2. /\ Len(s) \in Nat /\ DOMAIN s = 1 .. Len(s)
      /\ \A k \in 1 .. Len(s) : s[k].sn \in Int
  BY LenProperties, ElementOfSeq, FrameIs
<1>3. q \in Frame /\ q.sn = m /\ q.kind = p.kind
  BY <1>1, Renumber
<1>4. Sorted(s, p) = IF i = 0 THEN Append(s, q) ELSE InsertAt(s, i, q)
  BY <1>1 DEF Placed
<1>5. m = IF s # << >> THEN s[1].sn ELSE n
  BY <1>1 DEF Placed
<1>6. Immediate(q)
  BY <1>3 DEF Immediate
<1> HIDE DEF q
<1>7. Sorted(s, p) = InsertAt(s, j, q)
  <2>1. CASE i = 0
    <3> DEFINE a == SubSeq(s, 1, (Len(s) + 1) - 1)
               b == SubSeq(s, Len(s) + 1, Len(s))
    <3>1. InsertAt(s, Len(s) + 1, q) = (a \o <<q>>) \o b
      BY DEF InsertAt
    <3>2. (Len(s) + 1) - 1 = Len(s) /\ Len(s) \in 0 .. Len(s)
      BY <1>2
    <3>3. SubSeq(s, 1, Len(s)) = s
      BY SubSeqFull
    <3>4. b \in Seq(Frame) /\ Len(b) = Len(s) - Len(s)
      BY <3>2, SplitAt
    <3>5. a = s
      BY <3>2, <3>3
    <3>6. Append(s, q) \in Seq(Frame) /\ Append(s, q) = s \o <<q>>
      BY <1>3, AppendIsConcat, AppendProperties
    <3> HIDE DEF a, b
    <3>7. b = << >>
      BY <1>2, <3>4, EmptySeq
    <3> DEFINE v == Append(s, q)
    <3>8. v \in Seq(Frame)
      BY <3>6
    <3> HIDE DEF v
    <3>9. v \o << >> = v
      BY <3>8, ConcatEmptySeq
    <3> QED
      BY <1>4, <2>1, <3>1, <3>5, <3>6, <3>7, <3>9 DEF v
  <2>2. CASE i # 0
    BY <1>4, <2>2
  <2> QED
    BY <2>1, <2>2
<1>8. j \in 1 .. (Len(s) + 1)
  BY <1>2
<1>9. s # << >> => 1 \in 1 .. Len(s)
  BY <1>2
<1>10. m <= n
  BY <1>2, <1>5, <1>9 DEF Numbered
<1>11. ASSUME NEW k \in 1 .. Len(s), ~Immediate(s[k]) PROVE j <= k /\ m <= s[k].sn
  <2>1. i # 0 /\ ~(k < i)
    BY <1>1, <1>11 DEF Placed
  <2>2. j <= k
    BY <1>2, <2>1
  <2>3. s # << >> /\ m = s[1].sn /\ 1 \in 1 .. Len(s)
    BY <1>2, <1>5
  <2>4. m <= s[k].sn
    <3>1. CASE Immediate(s[1])
      BY <1>2, <1>11, <2>3, <3>1 DEF Numbered
    <3>2. CASE ~Immediate(s[1])
      <4>1. s[1].sn = n - 1 - (Len(s) - 1) /\ s[k].sn = n - 1 - (Len(s) - k)
        BY <1>2, <1>11, <2>3, <3>2 DEF Numbered
      <4> QED
        BY <1>2, <2>3, <4>1
    <3> QED
      BY <3>1, <3>2
  <2> QED
    BY <2>2, <2>4
<1> HIDE DEF j
<1>12. Numbered(InsertAt(s, j, q), n)
  BY <1>3, <1>6, <1>8, <1>10, <1>11, InsertNumbered
<1> QED
  BY <1>3, <1>7, <1>8, <1>12

\* What iscsi_add_to_outqueue makes of the order and the numbers.
LEMMA SortedOrder ==
  ASSUME NEW s \in Seq(Frame), NEW n \in Int, Numbered(s, n), NEW p \in Frame, p.sn = n
  PROVE  /\ Numbered(Sorted(s, p), IF Immediate(p) THEN n ELSE n + 1)
         /\ InOrder(s) /\ Under(s, <<p>>) => InOrder(Sorted(s, p))
         /\ \A w \in Seq(Frame) : Under(w, s) /\ Under(w, <<p>>) => Under(w, Sorted(s, p))
<1>1. CASE Immediate(p)
  <2>1. PICK q \in Frame, i \in 1 .. (Len(s) + 1) :
          Sorted(s, p) = InsertAt(s, i, q) /\ q.kind = p.kind
    BY <1>1, SortedImmediate
  <2>2. q.kind # "scsi"
    BY <1>1, <2>1 DEF Immediate, Immediates
  <2> QED
    BY <1>1, <2>1, <2>2, SortedImmediate, InsertOrder
<1>2. CASE ~Immediate(p)
  <2> DEFINE u == <<p>>
  <2>1. Sorted(s, p) = Append(s, p) /\ Numbered(Append(s, p), n + 1)
    BY <1>2, SortedCommand
  <2>2. Append(s, p) = s \o u /\ u \in Seq(Frame) /\ InOrder(u)
    BY AppendIsConcat DEF InOrder
  <2> HIDE DEF u
  <2>3. InOrder(s) /\ Under(s, u) => InOrder(s \o u)
    BY <2>2, InOrderConcat
  <2>4. ASSUME NEW w \in Seq(Frame), Under(w, s), Under(w, u) PROVE Under(w, s \o u)
    <3>1. /\ s \o u \in Seq(Frame) /\ Len(s \o u) = Len(s) + Len(u)
          /\ \A i \in 1 .. Len(s) + Len(u) : (s \o u)[i] = IF i <= Len(s) THEN s[i] ELSE u[i - Len(s)]
      BY <2>2, ConcatProperties
    <3>2. /\ Len(s) \in Nat /\ Len(u) \in Nat /\ DOMAIN s = 1 .. Len(s) /\ DOMAIN u = 1 .. Len(u)
          /\ DOMAIN (s \o u) = 1 .. Len(s) + Len(u)
      BY <2>2, <3>1, LenProperties
    <3>3. ASSUME NEW i \in DOMAIN w, NEW j \in DOMAIN (s \o u), w[i].kind = "scsi",
                 (s \o u)[j].kind = "scsi"
          PROVE  w[i].id < (s \o u)[j].id
      <4>1. CASE j <= Len(s)
        <5>1. j \in DOMAIN s /\ (s \o u)[j] = s[j]
          BY <3>1, <3>2, <4>1
        <5> QED
          BY <2>4, <3>3, <5>1 DEF Under
      <4>2. CASE ~(j <= Len(s))
        <5>1. j - Len(s) \in DOMAIN u /\ (s \o u)[j] = u[j - Len(s)]
          BY <3>1, <3>2, <4>2
        <5> QED
          BY <2>4, <3>3, <5>1 DEF Under
      <4> QED
        BY <4>1, <4>2
    <3> QED
      BY <3>3 DEF Under
  <2> QED
    BY <1>2, <2>1, <2>2, <2>3, <2>4 DEF u
<1> QED
  BY <1>1, <1>2

\* What is left of the queue when its head is written.
LEMMA NumberedSuffix ==
  ASSUME NEW s \in Seq(Frame), NEW n \in Int, Numbered(s, n), NEW k \in 0 .. Len(s)
  PROVE  Numbered(SubSeq(s, k + 1, Len(s)), n)
<1> DEFINE t == SubSeq(s, k + 1, Len(s))
<1>1. Len(s) \in Nat /\ DOMAIN s = 1 .. Len(s)
  BY LenProperties
<1>2. t \in Seq(Frame) /\ Len(t) = Len(s) - k /\ \A i \in 1 .. Len(s) - k : t[i] = s[k + i]
  BY SplitAt
<1> HIDE DEF t
<1>3. DOMAIN t = 1 .. Len(s) - k
  BY <1>2, LenProperties
<1>4. \A i \in DOMAIN t : k + i \in DOMAIN s /\ t[i] = s[k + i]
  BY <1>1, <1>2, <1>3
<1>5. \A i, j \in DOMAIN t : i < j => k + i < k + j
  BY <1>3
<1>6. \A j \in DOMAIN t : n - 1 - (Len(s) - (k + j)) = n - 1 - (Len(t) - j)
  BY <1>1, <1>2, <1>3
<1>7. /\ \A i, j \in DOMAIN s : i < j /\ Immediate(s[j]) => Immediate(s[i])
      /\ \A j \in DOMAIN s : ~Immediate(s[j]) => s[j].sn = n - 1 - (Len(s) - j)
      /\ \A i, j \in DOMAIN s : Immediate(s[i]) /\ ~Immediate(s[j]) => s[i].sn <= s[j].sn
      /\ \A i \in DOMAIN s : s[i].sn <= n
  BY DEF Numbered
<1>8. \A i, j \in DOMAIN t : i < j /\ Immediate(t[j]) => Immediate(t[i])
  BY <1>4, <1>5, <1>7
<1>9. \A j \in DOMAIN t : ~Immediate(t[j]) => t[j].sn = n - 1 - (Len(t) - j)
  BY <1>4, <1>6, <1>7
<1>10. Numbered(t, n)
  BY SMTT(20), <1>4, <1>7, <1>8, <1>9 DEF Numbered
<1> QED
  BY <1>10 DEF t

\* Commands with the next numbers behind it.
LEMMA NumberedConcat ==
  ASSUME NEW s \in Seq(Frame), NEW n \in Int, Numbered(s, n), NEW t \in Seq(Frame),
         \A i \in 1 .. Len(t) : ~Immediate(t[i]) /\ t[i].sn = n + i - 1
  PROVE  Numbered(s \o t, n + Len(t))
<1> DEFINE v == s \o t
           l == Len(s)
           m == Len(t)
<1>1. /\ l \in Nat /\ DOMAIN s = 1 .. l /\ m \in Nat
      /\ \A i \in 1 .. l : s[i].sn \in Int
  BY LenProperties, ElementOfSeq, FrameIs
<1>2. /\ DOMAIN v = 1 .. l + m /\ Len(v) = l + m
      /\ \A i \in 1 .. l + m : v[i] = IF i <= l THEN s[i] ELSE t[i - l]
  <2>1. v \in Seq(Frame) /\ Len(v) = l + m
    BY ConcatProperties
  <2>2. \A i \in 1 .. l + m : v[i] = IF i <= l THEN s[i] ELSE t[i - l]
    BY ConcatProperties
  <2> QED
    BY <2>1, <2>2, LenProperties
<1>3. \A i \in 1 .. m : ~Immediate(t[i]) /\ t[i].sn = n + i - 1
  OBVIOUS
<1> HIDE DEF v, l, m
<1>4. \A i \in DOMAIN v : IF i <= l THEN i \in 1 .. l /\ v[i] = s[i]
                          ELSE ~Immediate(v[i]) /\ v[i].sn = n + (i - l) - 1
  <2> TAKE i \in DOMAIN v
  <2>1. CASE i <= l
    BY <1>1, <1>2, <2>1
  <2>2. CASE ~(i <= l)
    <3>1. i - l \in 1 .. m /\ v[i] = t[i - l]
      BY <1>1, <1>2, <2>2
    <3> QED
      BY <1>3, <2>2, <3>1
  <2> QED
    BY <2>1, <2>2
<1>5. /\ \A i, j \in 1 .. l : i < j /\ Immediate(s[j]) => Immediate(s[i])
      /\ \A j \in 1 .. l : ~Immediate(s[j]) => s[j].sn = n - 1 - (l - j)
      /\ \A i, j \in 1 .. l : Immediate(s[i]) /\ ~Immediate(s[j]) => s[i].sn <= s[j].sn
      /\ \A i \in 1 .. l : s[i].sn <= n
  BY <1>1 DEF Numbered, l
<1>6. ASSUME NEW a \in DOMAIN v, NEW b \in DOMAIN v, a < b, Immediate(v[b])
      PROVE  Immediate(v[a])
  <2>1. b <= l /\ b \in 1 .. l /\ v[b] = s[b]
    BY <1>4, <1>6
  <2>2. a <= l
    BY <1>1, <1>2, <1>6, <2>1
  <2> QED
    BY <1>4, <1>5, <1>6, <2>1, <2>2
<1>7. ASSUME NEW b \in DOMAIN v, ~Immediate(v[b])
      PROVE  v[b].sn = (n + m) - 1 - (Len(v) - b)
  <2>1. CASE b <= l
    <3>1. v[b].sn = n - 1 - (l - b)
      BY <1>4, <1>5, <1>7, <2>1
    <3> QED
      BY <1>1, <1>2, <3>1
  <2>2. CASE ~(b <= l)
    <3>1. v[b].sn = n + (b - l) - 1
      BY <1>4, <2>2
    <3> QED
      BY <1>1, <1>2, <3>1
  <2> QED
    BY <2>1, <2>2
<1>8. ASSUME NEW a \in DOMAIN v, NEW b \in DOMAIN v, Immediate(v[a]), ~Immediate(v[b])
      PROVE  v[a].sn <= v[b].sn
  <2>1. a \in 1 .. l /\ v[a] = s[a]
    BY <1>4, <1>8
  <2>2. CASE b <= l
    BY <1>4, <1>5, <1>8, <2>1, <2>2
  <2>3. CASE ~(b <= l)
    <3>1. v[b].sn = n + (b - l) - 1 /\ s[a].sn <= n /\ s[a].sn \in Int
      BY <1>1, <1>4, <1>5, <2>1, <2>3
    <3> QED
      BY <1>1, <1>2, <2>1, <2>3, <3>1
  <2> QED
    BY <2>2, <2>3
<1>9. ASSUME NEW a \in DOMAIN v PROVE v[a].sn <= n + m
  <2>1. CASE a <= l
    <3>1. v[a].sn \in Int /\ v[a].sn <= n
      BY <1>1, <1>4, <1>5, <2>1
    <3> QED
      BY <1>1, <3>1
  <2>2. CASE ~(a <= l)
    <3>1. v[a].sn = n + (a - l) - 1
      BY <1>4, <2>2
    <3> QED
      BY <1>1, <1>2, <2>2, <3>1
  <2> QED
    BY <2>1, <2>2
<1>10. Numbered(v, n + m)
  BY <1>6, <1>7, <1>8, <1>9 DEF Numbered
<1> QED
  BY <1>10 DEF v, m

\* A command less, the numbers behind it moved up.
LEMMA NumberedExpire ==
  ASSUME NEW s \in Seq(Frame), NEW n \in Int, Numbered(s, n), NEW i \in 1 .. Len(s),
         ~Immediate(s[i]), NEW t \in Seq(Frame), Len(t) = Len(s) - 1,
         \A k \in 1 .. Len(s) - 1 : t[k] = IF k < i THEN s[k] ELSE [s[k + 1] EXCEPT !.sn = @ - 1]
  PROVE  Numbered(t, n - 1)
<1>1. /\ Len(s) \in Nat /\ DOMAIN s = 1 .. Len(s) /\ DOMAIN t = 1 .. Len(s) - 1
      /\ \A k \in 1 .. Len(s) : s[k] \in Frame /\ s[k].sn \in Int
  BY LenProperties, ElementOfSeq, FrameIs
<1>2. \A k \in 1 .. Len(s) : k < Len(s) => k + 1 \in 1 .. Len(s)
  BY <1>1
<1>3. \A k \in DOMAIN t : IF k < i THEN k \in 1 .. Len(s) /\ t[k] = s[k]
                          ELSE k + 1 \in 1 .. Len(s) /\ t[k].sn = s[k + 1].sn - 1
                               /\ t[k].kind = s[k + 1].kind
  <2> TAKE k \in DOMAIN t
  <2>1. k \in 1 .. Len(s) /\ k + 1 \in 1 .. Len(s)
    BY <1>1
  <2>2. CASE k < i
    BY <1>1, <2>1, <2>2
  <2>3. CASE ~(k < i)
    <3> DEFINE m == s[k + 1].sn - 1
    <3>1. t[k] = [s[k + 1] EXCEPT !.sn = m]
      BY <1>1, <2>3
    <3>2. s[k + 1] \in Frame /\ m \in Int
      BY <1>1, <2>1
    <3> HIDE DEF m
    <3>3. t[k].sn = m /\ t[k].kind = s[k + 1].kind
      BY <3>1, <3>2, Renumber
    <3> QED
      BY <2>1, <2>3, <3>3 DEF m
  <2> QED
    BY <2>2, <2>3
<1>4. /\ \A a, b \in 1 .. Len(s) : a < b /\ Immediate(s[b]) => Immediate(s[a])
      /\ \A j \in 1 .. Len(s) : ~Immediate(s[j]) => s[j].sn = n - 1 - (Len(s) - j)
      /\ \A a, b \in 1 .. Len(s) : Immediate(s[a]) /\ ~Immediate(s[b]) => s[a].sn <= s[b].sn
  BY <1>1 DEF Numbered
<1>5. \A k \in DOMAIN t : ~(k < i) => ~Immediate(t[k]) /\ ~Immediate(s[k + 1])
  <2> TAKE k \in DOMAIN t
  <2> HAVE ~(k < i)
  <2>1. i < k + 1 /\ k + 1 \in 1 .. Len(s)
    BY <1>1, <1>3
  <2>2. ~Immediate(s[k + 1])
    BY <1>4, <2>1
  <2> QED
    BY <1>3, <2>2 DEF Immediate
<1>6. ASSUME NEW a \in DOMAIN t, NEW b \in DOMAIN t, a < b, Immediate(t[b])
      PROVE  Immediate(t[a])
  <2>1. b < i
    BY <1>5, <1>6
  <2>2. a < i
    BY <1>1, <1>6, <2>1
  <2> QED
    BY <1>3, <1>4, <1>6, <2>1, <2>2
<1>7. ASSUME NEW b \in DOMAIN t, ~Immediate(t[b])
      PROVE  t[b].sn = (n - 1) - 1 - (Len(t) - b)
  <2>1. CASE b < i
    <3>1. t[b].sn = n - 1 - (Len(s) - b)
      BY <1>3, <1>4, <1>7, <2>1
    <3> QED
      BY <1>1, <3>1
  <2>2. CASE ~(b < i)
    <3>1. s[b + 1].sn = n - 1 - (Len(s) - (b + 1)) /\ t[b].sn = s[b + 1].sn - 1
      BY <1>3, <1>4, <1>5, <2>2
    <3> QED
      BY <1>1, <3>1
  <2> QED
    BY <2>1, <2>2
<1>8. ASSUME NEW a \in DOMAIN t, NEW b \in DOMAIN t, Immediate(t[a]), ~Immediate(t[b])
      PROVE  t[a].sn <= t[b].sn
  <2>1. a < i /\ a \in 1 .. Len(s) /\ t[a] = s[a]
    BY <1>3, <1>5, <1>8
  <2>2. CASE b < i
    BY <1>3, <1>4, <1>8, <2>1, <2>2
  <2>3. CASE ~(b < i)
    <3>1. s[a].sn <= s[i].sn /\ s[i].sn = n - 1 - (Len(s) - i) /\ s[a].sn \in Int
      BY <1>1, <1>4, <1>8, <2>1
    <3>2. t[b].sn = (n - 1) - 1 - (Len(t) - b)
      BY <1>7, <1>8
    <3> QED
      BY SMTT(20), <1>1, <2>1, <2>3, <3>1, <3>2
  <2> QED
    BY <2>2, <2>3
<1>9. ASSUME NEW a \in DOMAIN t PROVE t[a].sn <= n - 1
  <2>1. CASE Immediate(t[a])
    <3>1. a \in 1 .. Len(s) /\ t[a] = s[a]
      BY <1>3, <1>5, <2>1
    <3>2. s[a].sn <= s[i].sn /\ s[i].sn = n - 1 - (Len(s) - i) /\ s[a].sn \in Int
      BY <1>1, <1>4, <2>1, <3>1
    <3> QED
      BY <1>1, <3>1, <3>2
  <2>2. CASE ~Immediate(t[a])
    <3>1. t[a].sn = (n - 1) - 1 - (Len(t) - a)
      BY <1>7, <2>2
    <3> QED
      BY <1>1, <3>1
  <2> QED
    BY <2>1, <2>2
<1> QED
  BY <1>6, <1>7, <1>8, <1>9 DEF Numbered

\* Lists put together, and parts of a list.
LEMMA UnderConcat ==
  ASSUME NEW s \in Seq(Frame), NEW t \in Seq(Frame), NEW u
  PROVE  /\ Under(s \o t, u) <=> Under(s, u) /\ Under(t, u)
         /\ Under(u, s \o t) <=> Under(u, s) /\ Under(u, t)
<1> DEFINE v == s \o t
           m == Len(s)
           n == Len(t)
<1>1. m \in Nat /\ DOMAIN s = 1 .. m /\ n \in Nat /\ DOMAIN t = 1 .. n
  BY LenProperties
<1>2. /\ DOMAIN v = 1 .. m + n
      /\ \A i \in 1 .. m + n : v[i] = IF i <= m THEN s[i] ELSE t[i - m]
  <2>1. v \in Seq(Frame) /\ Len(v) = m + n
    BY ConcatProperties
  <2>2. \A i \in 1 .. m + n : v[i] = IF i <= m THEN s[i] ELSE t[i - m]
    BY ConcatProperties
  <2> QED
    BY <2>1, <2>2, LenProperties
<1> HIDE DEF v, m, n
<1>3. \A i \in DOMAIN s : i \in DOMAIN v /\ v[i] = s[i]
  BY <1>1, <1>2
<1>4. \A j \in DOMAIN t : m + j \in DOMAIN v /\ v[m + j] = t[j]
  <2> TAKE j \in DOMAIN t
  <2>1. m + j \in 1 .. m + n /\ ~(m + j <= m) /\ (m + j) - m = j
    BY <1>1
  <2> QED
    BY <1>2, <2>1
<1>5. \A i \in DOMAIN v : \/ i \in DOMAIN s /\ v[i] = s[i]
                          \/ \E j \in DOMAIN t : v[i] = t[j]
  <2> TAKE i \in DOMAIN v
  <2>1. CASE i <= m
    BY <1>1, <1>2, <2>1
  <2>2. CASE ~(i <= m)
    <3>1. i - m \in DOMAIN t /\ v[i] = t[i - m]
      BY <1>1, <1>2, <2>2
    <3> QED
      BY <3>1
  <2> QED
    BY <2>1, <2>2
<1>6. Under(v, u) <=> Under(s, u) /\ Under(t, u)
  BY <1>3, <1>4, <1>5 DEF Under
<1>7. Under(u, v) <=> Under(u, s) /\ Under(u, t)
  BY <1>3, <1>4, <1>5 DEF Under
<1> QED
  BY <1>6, <1>7 DEF v

\* The books of a context: the PDUs h are in hand, taken off a queue for their
\* callback to be run.

Here(x, S) == Count(x.out, S) + Count(x.wait, S)

PutAside(x, S) == Count(x.old.out, S) + Count(x.old.wait, S)

Held(x, cb) == Here(x, Holding(cb)) + (IF x.status_cb.cb = cb THEN 1 ELSE 0)

Logins == Being({"login"})

Others == Being(Kinds \ {"login"})

Results == {"GOOD", "ERROR", "refused", "CANCELLED", "TIMEOUT"}

Tasks == [cb : {"none", "user", "reconnect"}, uas : Nat]

OldFields == {"out", "wait", "cmdsn", "retry", "is_loggedin", "pending", "is_corked"}

Typed(x) ==
  /\ DOMAIN x = Fields /\ DOMAIN x.app = SteadyApp \cup {"conn", "done", "astray"}
  /\ x.out \in Seq(Frame) /\ x.wait \in Seq(Frame) /\ x.cmdsn \in Int
  /\ x.old.out \in Seq(Frame) /\ x.old.wait \in Seq(Frame)
  /\ x.old # NoOld => DOMAIN x.old = OldFields /\ x.old.cmdsn \in Int /\ x.old.retry \in Nat
  /\ x.status_cb \in Tasks /\ (x.status_cb.cb # "none" <=> x.fd = "connecting")
  /\ x.app.conn \in Seq(Results) /\ x.app.done \in [Reqs -> Seq(Results)]
  /\ x.app.asked \subseteq Reqs /\ x.tries \in Nat
  /\ "drawn" \in DOMAIN x.tgt /\ x.tgt.drawn \in Nat

\* What may change without a second look.
LEMMA Retyped ==
  ASSUME NEW x, Typed(x), NEW y, DOMAIN y = Fields,
         y.out \in Seq(Frame), y.wait \in Seq(Frame), y.cmdsn \in Int, y.old = x.old,
         y.status_cb = x.status_cb, y.fd = x.fd, y.app = x.app, y.tries = x.tries,
         DOMAIN y.tgt = DOMAIN x.tgt, y.tgt.drawn = x.tgt.drawn
  PROVE  Typed(y)
<1>1. y.old.out \in Seq(Frame) /\ y.old.wait \in Seq(Frame)
  BY DEF Typed
<1>2. y.old # NoOld => DOMAIN y.old = OldFields /\ y.old.cmdsn \in Int /\ y.old.retry \in Nat
  BY DEF Typed
<1>3. y.status_cb \in Tasks /\ (y.status_cb.cb # "none" <=> y.fd = "connecting")
  BY DEF Typed
<1>4. /\ DOMAIN y.app = SteadyApp \cup {"conn", "done", "astray"}
      /\ y.app.conn \in Seq(Results) /\ y.app.done \in [Reqs -> Seq(Results)]
      /\ y.app.asked \subseteq Reqs /\ y.tries \in Nat
  BY DEF Typed
<1>5. "drawn" \in DOMAIN y.tgt /\ y.tgt.drawn \in Nat
  BY DEF Typed
<1> QED
  BY <1>1, <1>2, <1>3, <1>4, <1>5, Zenon DEF Typed

\* A redirect whose connect(2) failed at once, on the way to the first session.
Stranded(x) ==
  /\ x.fd = "none" /\ x.old = NoOld /\ ~x.is_loggedin /\ ~x.pending /\ ~x.deferred
  /\ x.app.conn = << >>

\* Who holds a connect_task.
Owned(x, h) ==
  LET mine == Held(x, "user") + Count(h, Holding("user"))
      its == Held(x, "reconnect") + Count(h, Holding("reconnect"))
      all == Len(x.app.conn) + mine + PutAside(x, Holding("user"))
  IN  /\ PutAside(x, Holding("reconnect")) = 0
      /\ its <= (IF x.old = NoOld THEN 0 ELSE 1)
      /\ x.old # NoOld => mine = 0
      /\ all = 1 \/ (all = 0 /\ Stranded(x))

\* The one of the application is somewhere.
Accounted(x, h) ==
  Len(x.app.conn) + (Held(x, "user") + Count(h, Holding("user"))) + PutAside(x, Holding("user")) = 1

\* Where the requests of the application are.  A task management request
\* queued while a reconnect is under way may be lost.
Excused(x, id) == id \in Tmfs /\ id \in x.app.during

Requests(x, h) ==
  \A id \in Reqs :
    LET all == Here(x, For(id)) + PutAside(x, For(id)) + Count(h, For(id)) + Len(x.app.done[id])
    IN  /\ all <= 1
        /\ id \notin x.app.asked => all = 0
        /\ id \in x.app.asked /\ ~Excused(x, id) => all = 1
        /\ x.old # NoOld /\ ~Excused(x, id) => Here(x, For(id)) = 0

\* A connection is made or a login is under way: nothing else is queued then,
\* and on the first connection no reconnect can be asked for.
EnteringIn(x, h) ==
  x.fd = "connecting" \/ Count(x.wait, Logins) # 0 \/ Count(h, Logins) # 0

Alone(x, h) ==
  /\ Count(x.out, Logins) = 0 /\ PutAside(x, Logins) = 0
  /\ EnteringIn(x, h) =>
       /\ x.out = << >> /\ Count(x.wait, Others) = 0 /\ Count(h, Others) = 0
       /\ x.old = NoOld => ~x.pending /\ ~x.deferred

\* The commands of the application are in order, those that wait before those
\* in the queue.
InLine(w, o) == InOrder(w) /\ InOrder(o) /\ Under(w, o)

Ranked(x) ==
  /\ Numbered(x.out, x.cmdsn)
  /\ x.old # NoOld => Numbered(x.old.out, x.old.cmdsn)
  /\ InLine(x.wait, x.out) /\ InLine(x.old.wait, x.old.out)
  /\ \A i \in x.app.asked \cap Cmds, k \in Cmds : k < i => k \in x.app.asked

Books(x, h) ==
  h \in Seq(Frame) /\ Typed(x) /\ Owned(x, h) /\ Requests(x, h) /\ Alone(x, h) /\ Ranked(x)

\* Counts are numbers.
LEMMA Tallies ==
  ASSUME NEW x, Typed(x), NEW S
  PROVE  /\ Count(x.out, S) \in Nat /\ Count(x.wait, S) \in Nat /\ Here(x, S) \in Nat
         /\ Count(x.old.out, S) \in Nat /\ Count(x.old.wait, S) \in Nat /\ PutAside(x, S) \in Nat
<1>1. /\ Count(x.out, S) \in Nat /\ Count(x.wait, S) \in Nat
      /\ Count(x.old.out, S) \in Nat /\ Count(x.old.wait, S) \in Nat
  BY CountType DEF Typed
<1> QED
  BY <1>1 DEF Here, PutAside

\* How many hold a connect_task is a number.
LEMMA HeldType == ASSUME NEW x, Typed(x), NEW cb PROVE Held(x, cb) \in Nat
BY Tallies DEF Held

\* So is how often a callback has run.
LEMMA DoneType ==
  ASSUME NEW x, Typed(x)
  PROVE  Len(x.app.conn) \in Nat /\ \A id \in Reqs : Len(x.app.done[id]) \in Nat
BY LenProperties DEF Typed

\* A sum of which one part grows by what another loses.
LEMMA Balance ==
  ASSUME NEW a \in Nat, NEW b \in Nat, NEW g \in Nat, NEW h \in Nat, a + g = b + h,
         NEW p \in Nat, NEW l \in Nat
  PROVE  a + p + g + l = b + p + h + l
OBVIOUS

\* PDUs move between the queues, status_cb and the hand.
LEMMA MovedBooks ==
  ASSUME NEW x, NEW h, Books(x, h), NEW y, Typed(y), NEW g \in Seq(Frame),
         y.old = x.old, y.app = x.app,
         \A cb \in {"user", "reconnect"} :
           Held(y, cb) + Count(g, Holding(cb)) = Held(x, cb) + Count(h, Holding(cb)),
         \A id \in Reqs :
           /\ Here(y, For(id)) + Count(g, For(id)) = Here(x, For(id)) + Count(h, For(id))
           /\ x.old # NoOld /\ ~Excused(x, id) => Here(y, For(id)) = 0,
         (Stranded(x) => Stranded(y)) \/ Accounted(x, h), Alone(y, g), Ranked(y)
  PROVE  Books(y, g)
<1>1. \A S : PutAside(y, S) = PutAside(x, S)
  BY DEF PutAside
<1>2. Owned(y, g)
  <2>1. /\ Held(x, "user") \in Nat /\ Held(x, "reconnect") \in Nat
        /\ Held(y, "user") \in Nat /\ Held(y, "reconnect") \in Nat
        /\ Len(x.app.conn) \in Nat
        /\ PutAside(x, Holding("user")) \in Nat
    BY HeldType, Tallies, DoneType DEF Books
  <2>2. \A S : Count(g, S) \in Nat /\ Count(h, S) \in Nat
    BY CountType DEF Books
  <2>3. /\ Held(y, "user") + Count(g, Holding("user")) = Held(x, "user") + Count(h, Holding("user"))
        /\ Held(y, "reconnect") + Count(g, Holding("reconnect"))
             = Held(x, "reconnect") + Count(h, Holding("reconnect"))
    OBVIOUS
  <2>4. Owned(x, h)
    BY DEF Books
  <2>5. /\ Len(y.app.conn) + (Held(y, "user") + Count(g, Holding("user"))) + PutAside(y, Holding("user"))
             = Len(x.app.conn) + (Held(x, "user") + Count(h, Holding("user"))) + PutAside(x, Holding("user"))
    BY <1>1, <2>1, <2>2, <2>3
  <2> QED
    BY <1>1, <2>3, <2>4, <2>5 DEF Owned, Accounted
<1>3. Requests(y, g)
  <2>1. ASSUME NEW id \in Reqs
        PROVE  /\ Here(y, For(id)) + PutAside(y, For(id)) + Count(g, For(id)) + Len(y.app.done[id])
                    = Here(x, For(id)) + PutAside(x, For(id)) + Count(h, For(id)) + Len(x.app.done[id])
               /\ Excused(y, id) <=> Excused(x, id)
    <3>1. /\ Here(x, For(id)) \in Nat /\ Here(y, For(id)) \in Nat /\ PutAside(x, For(id)) \in Nat
          /\ Count(g, For(id)) \in Nat /\ Count(h, For(id)) \in Nat /\ Len(x.app.done[id]) \in Nat
      BY Tallies, DoneType, CountType DEF Books
    <3>2. Here(y, For(id)) + Count(g, For(id)) = Here(x, For(id)) + Count(h, For(id))
      OBVIOUS
    <3>3. y.app.done = x.app.done /\ PutAside(y, For(id)) = PutAside(x, For(id))
      BY <1>1
    <3>4. Excused(y, id) <=> Excused(x, id)
      BY DEF Excused
    <3>5. Here(y, For(id)) + PutAside(x, For(id)) + Count(g, For(id)) + Len(x.app.done[id])
            = Here(x, For(id)) + PutAside(x, For(id)) + Count(h, For(id)) + Len(x.app.done[id])
      BY SMTT(20), <3>1, <3>2, Balance
    <3> QED
      BY <3>3, <3>4, <3>5
  <2>2. Requests(x, h)
    BY DEF Books
  <2> QED
    BY <2>1, <2>2 DEF Requests
<1> QED
  BY <1>2, <1>3 DEF Books

\* Nothing that is counted changes.
LEMMA SameBooks ==
  ASSUME NEW x, NEW h, Books(x, h), NEW y, DOMAIN y = Fields,
         \A f \in {"status_cb", "out", "wait", "old", "cmdsn", "app"} : y[f] = x[f],
         y.tries \in Nat, y.fd = "connecting" <=> x.fd = "connecting",
         DOMAIN y.tgt = DOMAIN x.tgt, y.tgt.drawn = x.tgt.drawn,
         (Stranded(x) => Stranded(y)) \/ Accounted(x, h),
         EnteringIn(x, h) /\ x.old = NoOld => ~y.pending /\ ~y.deferred
  PROVE  Books(y, h)
<1>1. /\ y.status_cb = x.status_cb /\ y.out = x.out /\ y.wait = x.wait /\ y.old = x.old
      /\ y.cmdsn = x.cmdsn /\ y.app = x.app
  OBVIOUS
<1>2. Typed(y)
  BY SMTT(20), <1>1 DEF Books, Typed
<1>3. Ranked(y)
  BY <1>1 DEF Books, Ranked
<1>4. EnteringIn(y, h) <=> EnteringIn(x, h)
  BY <1>1 DEF EnteringIn
<1>5. Alone(y, h)
  BY <1>1, <1>4 DEF Books, Alone, PutAside
<1>6. \A cb : Held(y, cb) = Held(x, cb)
  BY <1>1 DEF Held, Here
<1>7. \A id : Here(y, For(id)) = Here(x, For(id))
  BY <1>1 DEF Here
<1>8. \A id \in Reqs : x.old # NoOld /\ ~Excused(x, id) => Here(y, For(id)) = 0
  BY <1>7 DEF Books, Requests
<1>9. h \in Seq(Frame)
  BY DEF Books
<1> QED
  BY <1>1, <1>2, <1>3, <1>5, <1>6, <1>7, <1>8, <1>9, MovedBooks

\* What iscsi_write_to_socket leaves when it has written k PDUs.
Written(x, k, y) ==
  /\ DOMAIN y = Fields
  /\ \A f \in Fields \ {"out", "wait", "tgt", "is_corked"} : y[f] = x[f]
  /\ DOMAIN y.tgt = DOMAIN x.tgt /\ y.tgt.drawn = x.tgt.drawn
  /\ y.out = SubSeq(x.out, k + 1, Len(x.out))
  /\ y.wait = x.wait \o OfKind(SubSeq(x.out, 1, k), Kinds \ {"pong"})

\* iscsi_write_to_socket sends nothing, or the first PDUs of the queue.
LEMMA DrainIs ==
  ASSUME NEW x, DOMAIN x = Fields, x.out \in Seq(Frame), "drawn" \in DOMAIN x.tgt
  PROVE  \/ Drain(x) = x
         \/ x.out # << >> /\ \E k \in 0 .. Len(x.out) : Written(x, k, Drain(x))
<1> DEFINE I == {i \in 1 .. Len(x.out) : x.out[i].kind = "logout"}
           n == IF I # {} THEN Min(I) ELSE 0
           k == IF n = 0 THEN Len(x.out) ELSE n
           o == SubSeq(x.out, k + 1, Len(x.out))
           w == x.wait \o OfKind(SubSeq(x.out, 1, k), Kinds \ {"pong"})
           t == Arrive(x.tgt, SubSeq(x.out, 1, k), x.is_loggedin)
           b == n # 0
           y == [x EXCEPT !.out = o, !.wait = w, !.tgt = t, !.is_corked = b]
<1>1. Drain(x) = x \/ (x.out # << >> /\ Drain(x) = y)
  BY Zenon DEF Drain, SelectInSeq
<1>2. Len(x.out) \in Nat
  BY LenProperties
<1>3. I \in SUBSET Nat
  BY <1>2
<1>4. I # {} => Min(I) \in I
  <2> HIDE DEF I
  <2> QED
    BY <1>3, MinIsLeast
<1>5. n \in 0 .. Len(x.out)
  BY <1>2, <1>4
<1> HIDE DEF n
<1>6. k \in 0 .. Len(x.out)
  BY <1>2, <1>5
<1> HIDE DEF k
<1>9. DOMAIN t = DOMAIN x.tgt /\ t.drawn = x.tgt.drawn
  <2> DEFINE s == SubSeq(x.out, 1, k)
  <2> HIDE DEF s
  <2>1. DOMAIN Arrive(x.tgt, s, x.is_loggedin) = DOMAIN x.tgt
        /\ Arrive(x.tgt, s, x.is_loggedin).drawn = x.tgt.drawn
    BY DEF Arrive
  <2> QED
    BY <2>1 DEF s
<1>7. y.out = o /\ y.wait = w /\ y.tgt = t /\ DOMAIN y = Fields
      /\ \A f \in Fields \ {"out", "wait", "tgt", "is_corked"} : y[f] = x[f]
  <2> HIDE DEF o, w, t, b
  <2> QED
    BY DEF Fields, Steady
<1>8. Written(x, k, y)
  <2> HIDE DEF y, o, w, t
  <2> QED
    BY <1>7, <1>9 DEF Written, o, w
<1> QED
  BY <1>1, <1>6, <1>8

\* The PDUs that are counted are those that wait for an answer.
LEMMA CountedWait ==
  /\ \A cb \in {"user", "reconnect"} : Holding(cb) \cap Being(Kinds \ {"pong"}) = Holding(cb)
  /\ \A id \in Reqs : For(id) \cap Being(Kinds \ {"pong"}) = For(id)
  /\ Logins \cap Being(Kinds \ {"pong"}) = Logins
<1>1. 0 \notin Reqs
  BY ConnectionAssumption DEF Reqs
<1>2. \A p \in Frame : p.kind = "pong" => p.id = 0 /\ p.ct.cb = "none"
  BY FrameIs DEF Carriers, Internal
<1>3. \A p \in Frame : p.kind \in Kinds
  BY FrameIs
<1> QED
  BY <1>1, <1>2, <1>3 DEF Holding, For, Logins, Being

\* Writing to the socket moves PDUs from one list to the other.
LEMMA DrainBooks ==
  ASSUME NEW x, NEW h, Books(x, h)
  PROVE  Books(Drain(x), h)
<1>1. CASE Drain(x) = x
  BY <1>1
<1>2. ASSUME x.out # << >>, NEW k \in 0 .. Len(x.out), Written(x, k, Drain(x))
      PROVE  Books(Drain(x), h)
  <2> DEFINE y == Drain(x)
             o == x.out
             w == x.wait
             s == SubSeq(x.out, 1, k)
             r == SubSeq(x.out, k + 1, Len(x.out))
             t == OfKind(s, Kinds \ {"pong"})
  <2>1. /\ DOMAIN y = Fields /\ y.out = r /\ y.wait = w \o t
        /\ y.fd = x.fd /\ y.status_cb = x.status_cb /\ y.old = x.old /\ y.app = x.app
        /\ y.cmdsn = x.cmdsn /\ y.tries = x.tries /\ DOMAIN y.tgt = DOMAIN x.tgt
        /\ y.tgt.drawn = x.tgt.drawn /\ y.pending = x.pending
        /\ y.deferred = x.deferred /\ y.is_loggedin = x.is_loggedin
    BY <1>2 DEF Written, Fields, Steady
  <2>2. Typed(x) /\ o \in Seq(Frame) /\ w \in Seq(Frame) /\ h \in Seq(Frame) /\ x.cmdsn \in Int
    BY DEF Books, Typed
  <2>3. s \in Seq(Frame) /\ r \in Seq(Frame) /\ o = s \o r
    BY <2>2, SplitAt
  <2>4. \A S : Count(o, S) = Count(s, S) + Count(r, S)
    BY <2>2, CountSplit
  <2>5. Numbered(r, x.cmdsn)
    <3>1. Numbered(o, x.cmdsn)
      BY DEF Books, Ranked
    <3> QED
      BY <2>2, <3>1, NumberedSuffix
  <2> HIDE DEF s, r, y
  <2>6. t \in Seq(Frame) /\ Thinned(t, s) /\ \A S : Count(t, S) = Count(s, S \cap Being(Kinds \ {"pong"}))
    BY <2>3, CountOfKind, ThinnedOfKind
  <2> HIDE DEF t
  <2>7. w \o t \in Seq(Frame) /\ \A S : Count(w \o t, S) = Count(w, S) + Count(t, S)
    <3> HIDE DEF w
    <3> QED
      BY <2>2, <2>6, CountConcat, ConcatProperties
  <2>8. Typed(y)
    BY <2>1, <2>2, <2>3, <2>7, Retyped
  <2>9. \A S : S \cap Being(Kinds \ {"pong"}) = S =>
          Count(y.out, S) + Count(y.wait, S) = Count(x.out, S) + Count(x.wait, S)
    <3> TAKE S
    <3> HAVE S \cap Being(Kinds \ {"pong"}) = S
    <3>1. Count(r, S) \in Nat /\ Count(s, S) \in Nat /\ Count(w, S) \in Nat
      BY <2>2, <2>3, CountType
    <3>2. Count(t, S) = Count(s, S)
      BY <2>6
    <3> QED
      BY <2>1, <2>4, <2>7, <3>1, <3>2
  <2>10. \A cb \in {"user", "reconnect"} : Held(y, cb) = Held(x, cb)
    BY <2>1, <2>9, CountedWait DEF Held, Here
  <2>11. \A id \in Reqs : Here(y, For(id)) = Here(x, For(id))
    BY <2>9, CountedWait DEF Here
  <2>12. Ranked(y)
    <3>1. InOrder(w) /\ InOrder(o) /\ Under(w, o)
      BY DEF Books, Ranked, InLine
    <3>2. InOrder(s) /\ InOrder(r) /\ Under(s, r)
      BY <2>3, <3>1, InOrderConcat
    <3>3. Under(w, s) /\ Under(w, r)
      BY <2>3, <3>1, UnderConcat
    <3>4. InOrder(t) /\ Under(t, r) /\ Under(w, t)
      BY <2>3, <2>6, <3>2, <3>3, ThinnedOrder
    <3> DEFINE v == w \o t
    <3>5. InOrder(v) /\ Under(v, r)
      <4> HIDE DEF w
      <4> QED
        BY <2>2, <2>6, <3>1, <3>3, <3>4, InOrderConcat, UnderConcat
    <3> HIDE DEF v
    <3>6. InLine(v, r)
      BY <3>2, <3>5 DEF InLine
    <3>7. y.wait = v
      BY <2>1 DEF v
    <3> QED
      BY <2>1, <2>5, <3>6, <3>7 DEF Books, Ranked
  <2>13. Alone(y, h)
    <3>1. Alone(x, h)
      BY DEF Books
    <3>2. ~EnteringIn(x, h)
      BY <1>2, <3>1 DEF Alone
    <3>3. Count(o, Logins) = 0
      BY <3>1 DEF Alone
    <3>4. Count(s, Logins) \in Nat /\ Count(r, Logins) \in Nat /\ Count(w, Logins) \in Nat
      BY <2>2, <2>3, CountType
    <3>5. Count(s, Logins) = 0 /\ Count(r, Logins) = 0
      BY <2>4, <3>3, <3>4
    <3>6. Count(t, Logins) = 0
      BY <2>6, <3>5, CountedWait
    <3>7. Count(y.wait, Logins) = Count(x.wait, Logins)
      BY <2>1, <2>7, <3>4, <3>6
    <3>8. ~EnteringIn(y, h)
      BY <2>1, <3>2, <3>7 DEF EnteringIn
    <3>9. PutAside(y, Logins) = PutAside(x, Logins)
      BY <2>1 DEF PutAside
    <3> QED
      BY <2>1, <3>1, <3>5, <3>8, <3>9 DEF Alone
  <2>14. Stranded(x) => Stranded(y)
    BY <2>1 DEF Stranded
  <2>15. \A id \in Reqs : x.old # NoOld /\ ~Excused(x, id) => Here(y, For(id)) = 0
    BY <2>11 DEF Books, Requests
  <2>16. Books(y, h)
    BY <2>1, <2>2, <2>8, <2>10, <2>11, <2>12, <2>13, <2>14, <2>15, MovedBooks
  <2> QED
    BY <2>16 DEF y
<1>3. DOMAIN x = Fields /\ x.out \in Seq(Frame) /\ "drawn" \in DOMAIN x.tgt
  BY DEF Books, Typed
<1> QED
  BY <1>1, <1>2, <1>3, DrainIs

\* A PDU in hand, and the others.
Ahead(h, p, t) ==
  /\ h \in Seq(Frame) /\ t \in Seq(Frame) /\ p \in Frame
  /\ \A S : Count(h, S) = Count(t, S) + (IF p \in S THEN 1 ELSE 0)

\* A list of one PDU has that PDU ahead of nothing.
LEMMA AheadOne == ASSUME NEW p \in Frame PROVE Ahead(<<p>>, p, << >>)
BY CountOne, CountEmpty DEF Ahead

\* What a PDU counts as.
LEMMA CountsAs ==
  ASSUME NEW p \in Frame
  PROVE  /\ \A cb : p \in Holding(cb) <=> p.ct.cb = cb
         /\ \A id : p \in For(id) <=> p.id = id
         /\ \A kinds : p \in Being(kinds) <=> p.kind \in kinds
         /\ p \in Logins <=> p.kind = "login"
         /\ p \in Others <=> p.kind # "login"
BY FrameIs DEF Holding, For, Being, Logins, Others

\* The PDU in hand is queued.
LEMMA QueueBooks ==
  ASSUME NEW x, NEW p \in Frame, Books(x, <<p>>), p.kind # "login", p.sn = x.cmdsn,
         Under(x.wait, <<p>>), Under(x.out, <<p>>),
         x.old # NoOld /\ p.id \in Reqs => Excused(x, p.id),
         NEW y, DOMAIN y = Fields, \A f \in Fields \ {"out", "cmdsn"} : y[f] = x[f],
         y.out = Sorted(x.out, p), y.cmdsn = IF Immediate(p) THEN x.cmdsn ELSE x.cmdsn + 1
  PROVE  Books(y, << >>)
<1> DEFINE h == <<p>>
           o == x.out
           w == x.wait
           q == Sorted(o, p)
<1>1. /\ y.fd = x.fd /\ y.status_cb = x.status_cb /\ y.old = x.old /\ y.app = x.app
      /\ y.wait = w /\ y.tries = x.tries /\ y.tgt = x.tgt /\ y.pending = x.pending
      /\ y.deferred = x.deferred /\ y.is_loggedin = x.is_loggedin
  BY DEF Fields, Steady
<1>2. Typed(x) /\ o \in Seq(Frame) /\ w \in Seq(Frame) /\ x.cmdsn \in Int /\ Numbered(o, x.cmdsn)
      /\ InLine(w, o) /\ Alone(x, h)
  BY DEF Books, Typed, Ranked
<1>3. /\ q \in Seq(Frame)
      /\ \A S : Blind(S) => Count(q, S) = Count(o, S) + (IF p \in S THEN 1 ELSE 0)
  BY <1>2, CountSorted
<1>4. \A S : Count(h, S) = IF p \in S THEN 1 ELSE 0
  BY CountOne
<1>5. /\ Numbered(q, y.cmdsn) /\ y.cmdsn \in Int
      /\ InOrder(q) /\ Under(w, q)
  BY <1>2, SortedOrder DEF InLine
<1> HIDE DEF h, q
<1>6. Typed(y)
  BY <1>1, <1>2, <1>3, <1>5 DEF q, Typed
<1>7. Ranked(y)
  <2>1. y.out = q
    BY DEF q
  <2> QED
    BY <1>1, <1>2, <1>5, <2>1 DEF Books, Ranked, InLine
<1>8. \A S : Blind(S) => Here(y, S) = Here(x, S) + Count(h, S)
  <2> TAKE S
  <2> HAVE Blind(S)
  <2>1. Count(o, S) \in Nat /\ Count(w, S) \in Nat
    BY <1>2, CountType
  <2>2. Count(y.out, S) = Count(o, S) + (IF p \in S THEN 1 ELSE 0) /\ y.wait = w
    BY <1>1, <1>3 DEF q
  <2> QED
    BY <1>4, <2>1, <2>2 DEF Here
<1>9. \A S : Count(<< >>, S) = 0
  BY CountEmpty
<1>10. \A cb \in {"user", "reconnect"} :
         Held(y, cb) + Count(<< >>, Holding(cb)) = Held(x, cb) + Count(h, Holding(cb))
  <2> TAKE cb \in {"user", "reconnect"}
  <2>1. Here(y, Holding(cb)) = Here(x, Holding(cb)) + Count(h, Holding(cb))
    BY <1>8, BlindSets
  <2>2. Here(x, Holding(cb)) \in Nat /\ Count(h, Holding(cb)) \in Nat
    BY <1>2, <1>4, Tallies
  <2> QED
    BY <1>1, <1>9, <2>1, <2>2 DEF Held
<1>11. \A id \in Reqs :
         /\ Here(y, For(id)) + Count(<< >>, For(id)) = Here(x, For(id)) + Count(h, For(id))
         /\ x.old # NoOld /\ ~Excused(x, id) => Here(y, For(id)) = 0
  <2> TAKE id \in Reqs
  <2>1. Here(y, For(id)) = Here(x, For(id)) + Count(h, For(id))
    BY <1>8, BlindSets
  <2>2. Here(x, For(id)) \in Nat /\ Count(h, For(id)) \in Nat
    BY <1>2, <1>4, Tallies
  <2>3. x.old # NoOld /\ ~Excused(x, id) => Here(x, For(id)) = 0 /\ Count(h, For(id)) = 0
    <3>1. Requests(x, h)
      BY DEF Books, h
    <3> QED
      BY <1>4, <3>1, CountsAs DEF Requests
  <2> QED
    BY <1>9, <2>1, <2>2, <2>3
<1>12. Alone(y, << >>)
  <2>1. Count(h, Others) = 1 /\ Count(h, Logins) = 0
    BY <1>4, CountsAs
  <2>2. ~EnteringIn(x, h)
    BY <1>2, <2>1 DEF Alone
  <2>3. ~EnteringIn(y, << >>)
    BY <1>1, <1>9, <2>2 DEF EnteringIn
  <2>4. PutAside(y, Logins) = PutAside(x, Logins)
    BY <1>1 DEF PutAside
  <2>5. Count(q, Logins) = 0
    <3>1. Count(q, Logins) = Count(o, Logins) + (IF p \in Logins THEN 1 ELSE 0)
      BY <1>3, BlindSets DEF Logins
    <3> QED
      BY <1>2, <3>1, CountsAs DEF Alone
  <2> QED
    BY <1>2, <2>3, <2>4, <2>5 DEF Alone, q
<1>13. Stranded(x) => Stranded(y)
  BY <1>1 DEF Stranded
<1>14. Books(x, h) /\ << >> \in Seq(Frame)
  BY DEF h
<1> QED
  BY <1>1, <1>6, <1>7, <1>10, <1>11, <1>12, <1>13, <1>14, MovedBooks

\* A PDU of the connect sequence hands its connect_task to another.
LEMMA SwapBooks ==
  ASSUME NEW x, NEW p \in Frame, Books(x, <<p>>), NEW q \in Frame, q.ct.cb = p.ct.cb,
         q.id = p.id, q.kind # "login", x.fd # "connecting", Count(x.wait, Logins) = 0
  PROVE  Books(x, <<q>>)
<1> DEFINE h == <<p>>
           g == <<q>>
<1>1. \A S : Count(h, S) = (IF p \in S THEN 1 ELSE 0) /\ Count(g, S) = (IF q \in S THEN 1 ELSE 0)
  BY CountOne
<1>2. Books(x, h) /\ g \in Seq(Frame)
  OBVIOUS
<1> HIDE DEF h, g
<1>3. /\ \A cb : Count(h, Holding(cb)) = Count(g, Holding(cb))
      /\ \A id : Count(h, For(id)) = Count(g, For(id))
      /\ Count(g, Logins) = 0
  BY <1>1, CountsAs
<1>4. Alone(x, g)
  BY <1>2, <1>3 DEF Books, Alone, EnteringIn
<1>5. Typed(x) /\ Ranked(x)
  BY <1>2 DEF Books
<1>6. \A id \in Reqs : x.old # NoOld /\ ~Excused(x, id) => Here(x, For(id)) = 0
  BY <1>2 DEF Books, Requests
<1>7. Books(x, g)
  BY <1>2, <1>3, <1>4, <1>5, <1>6, MovedBooks
<1> QED
  BY <1>7 DEF g

\* A sum in which two parts change places.
LEMMA Payment ==
  ASSUME NEW a \in Nat, NEW b \in Nat, NEW d \in Nat, NEW l \in Nat, NEW e \in Nat
  PROVE  a + b + d + (l + e) = a + b + (d + e) + l
OBVIOUS

\* y is what x becomes when the callback of p says so to whom it belongs.
Paying(x, p, y) ==
  /\ \A f \in {"fd", "status_cb", "out", "wait", "cmdsn", "deferred"} : y[f] = x[f]
  /\ y.app.asked = x.app.asked /\ y.app.during = x.app.during
  /\ Len(y.app.conn) = Len(x.app.conn) + (IF p.ct.cb = "user" THEN 1 ELSE 0)
  /\ \A id \in Reqs : Len(y.app.done[id]) = Len(x.app.done[id]) + (IF p.id = id THEN 1 ELSE 0)

\* The callback of the PDU in hand is run.
LEMMA PaidBooks ==
  ASSUME NEW x, NEW h, NEW p, NEW t, Books(x, h), Ahead(h, p, t), NEW y, Typed(y),
         Paying(x, p, y), y.old = x.old,
         p.ct.cb = "user" \/ (Stranded(x) => Stranded(y)),
         EnteringIn(x, h) /\ x.old = NoOld => ~y.pending
  PROVE  Books(y, t)
<1>1. /\ y.fd = x.fd /\ y.status_cb = x.status_cb /\ y.out = x.out /\ y.wait = x.wait
      /\ y.cmdsn = x.cmdsn /\ y.deferred = x.deferred
  BY DEF Paying
<1>2. /\ h \in Seq(Frame) /\ t \in Seq(Frame) /\ p \in Frame
      /\ \A S : Count(h, S) = Count(t, S) + (IF p \in S THEN 1 ELSE 0)
      /\ \A S : Count(h, S) \in Nat /\ Count(t, S) \in Nat
  BY CountType DEF Ahead
<1>3. Typed(x) /\ Owned(x, h) /\ Requests(x, h) /\ Alone(x, h) /\ Ranked(x)
  BY DEF Books
<1>4. /\ \A S : PutAside(y, S) = PutAside(x, S) /\ Here(y, S) = Here(x, S)
      /\ \A cb : Held(y, cb) = Held(x, cb)
  BY <1>1 DEF PutAside, Here, Held
<1>5. Owned(y, t)
  <2>1. /\ Held(x, "user") \in Nat /\ Held(x, "reconnect") \in Nat
        /\ Len(x.app.conn) \in Nat /\ PutAside(x, Holding("user")) \in Nat
    BY <1>3, HeldType, Tallies, DoneType
  <2>10. Len(y.app.conn) = Len(x.app.conn) + (IF p.ct.cb = "user" THEN 1 ELSE 0)
    BY DEF Paying
  <2>2. /\ Count(h, Holding("user")) = Count(t, Holding("user")) + (IF p.ct.cb = "user" THEN 1 ELSE 0)
        /\ Count(h, Holding("reconnect"))
             = Count(t, Holding("reconnect")) + (IF p.ct.cb = "reconnect" THEN 1 ELSE 0)
        /\ Count(t, Holding("user")) \in Nat /\ Count(t, Holding("reconnect")) \in Nat
    BY <1>2, CountsAs
  <2>3. /\ PutAside(x, Holding("reconnect")) = 0
        /\ Held(x, "reconnect") + Count(h, Holding("reconnect")) <= (IF x.old = NoOld THEN 0 ELSE 1)
        /\ x.old # NoOld => Held(x, "user") + Count(h, Holding("user")) = 0
        /\ \/ Len(x.app.conn) + (Held(x, "user") + Count(h, Holding("user"))) + PutAside(x, Holding("user")) = 1
           \/ Len(x.app.conn) + (Held(x, "user") + Count(h, Holding("user"))) + PutAside(x, Holding("user")) = 0
              /\ Stranded(x)
    BY <1>3 DEF Owned
  <2>4. Held(x, "reconnect") + Count(t, Holding("reconnect")) <= (IF y.old = NoOld THEN 0 ELSE 1)
    <3>1. Count(t, Holding("reconnect")) <= Count(h, Holding("reconnect"))
      BY <2>2
    <3>2. Count(h, Holding("reconnect")) \in Nat
      BY <1>2
    <3> DEFINE n == IF y.old = NoOld THEN 0 ELSE 1
               a == Held(x, "reconnect")
               d == Count(h, Holding("reconnect"))
               e == Count(t, Holding("reconnect"))
    <3>3. a + d <= n
      BY <2>3
    <3>4. a \in Nat /\ d \in Nat /\ e \in Nat /\ e <= d /\ n \in Nat
      BY <2>1, <2>2, <3>1, <3>2
    <3> HIDE DEF n, a, d, e
    <3>5. a + e <= n
      BY <3>3, <3>4
    <3> QED
      BY <3>5 DEF n, a, e
  <2>5. y.old # NoOld => Held(x, "user") + Count(t, Holding("user")) = 0
    <3> DEFINE a == Held(x, "user")
               d == Count(h, Holding("user"))
               e == Count(t, Holding("user"))
    <3>1. y.old # NoOld => a + d = 0
      BY <2>3
    <3>2. a \in Nat /\ d \in Nat /\ e \in Nat /\ e <= d
      BY <1>2, <2>1, <2>2
    <3> HIDE DEF a, d, e
    <3>3. a + d = 0 => a + e = 0
      BY <3>2
    <3> QED
      BY <3>1, <3>3 DEF a, e
  <2> DEFINE l == Len(x.app.conn)
             a == Held(x, "user")
             d == Count(t, Holding("user"))
             b == PutAside(x, Holding("user"))
             e == IF p.ct.cb = "user" THEN 1 ELSE 0
  <2>8. /\ l \in Nat /\ a \in Nat /\ d \in Nat /\ b \in Nat /\ e \in Nat
        /\ Count(h, Holding("user")) = d + e /\ Len(y.app.conn) = l + e
        /\ p.ct.cb = "user" => e = 1
    BY <2>1, <2>2, <2>10
  <2> HIDE DEF l, a, d, b, e
  <2>9. /\ (l + e) + (a + d) + b = l + (a + (d + e)) + b
        /\ e = 1 => l + (a + (d + e)) + b # 0
    BY <2>8
  <2>6. Len(y.app.conn) + (Held(x, "user") + Count(t, Holding("user"))) + PutAside(x, Holding("user"))
          = Len(x.app.conn) + (Held(x, "user") + Count(h, Holding("user"))) + PutAside(x, Holding("user"))
    BY <2>8, <2>9 DEF l, a, d, b
  <2>7. p.ct.cb = "user" =>
          Len(x.app.conn) + (Held(x, "user") + Count(h, Holding("user"))) + PutAside(x, Holding("user")) # 0
    BY <2>8, <2>9 DEF l, a, b
  <2> QED
    BY <1>4, <2>3, <2>4, <2>5, <2>6, <2>7 DEF Owned
<1>6. Requests(y, t)
  <2>1. ASSUME NEW id \in Reqs
        PROVE  /\ Here(y, For(id)) + PutAside(y, For(id)) + Count(t, For(id)) + Len(y.app.done[id])
                    = Here(x, For(id)) + PutAside(x, For(id)) + Count(h, For(id)) + Len(x.app.done[id])
               /\ Excused(y, id) <=> Excused(x, id)
    <3>1. /\ Here(x, For(id)) \in Nat /\ PutAside(x, For(id)) \in Nat
          /\ Count(t, For(id)) \in Nat /\ Len(x.app.done[id]) \in Nat
      BY <1>2, <1>3, Tallies, DoneType
    <3>2. Count(h, For(id)) = Count(t, For(id)) + (IF p.id = id THEN 1 ELSE 0)
      BY <1>2, CountsAs
    <3>3. Len(y.app.done[id]) = Len(x.app.done[id]) + (IF p.id = id THEN 1 ELSE 0)
      BY DEF Paying
    <3>4. Excused(y, id) <=> Excused(x, id)
      BY DEF Excused, Paying
    <3> DEFINE e == IF p.id = id THEN 1 ELSE 0
    <3>6. e \in Nat /\ Count(h, For(id)) = Count(t, For(id)) + e
          /\ Len(y.app.done[id]) = Len(x.app.done[id]) + e
      BY <3>2, <3>3
    <3> HIDE DEF e
    <3>5. Here(x, For(id)) + PutAside(x, For(id)) + Count(t, For(id)) + Len(y.app.done[id])
            = Here(x, For(id)) + PutAside(x, For(id)) + Count(h, For(id)) + Len(x.app.done[id])
      BY <3>1, <3>6, Payment
    <3> QED
      BY <1>4, <3>4, <3>5
  <2> QED
    BY <1>3, <1>4, <2>1 DEF Requests, Paying
<1>7. Alone(y, t)
  <2>1. EnteringIn(y, t) => EnteringIn(x, h)
    BY <1>1, <1>2 DEF EnteringIn
  <2>2. Count(h, Others) = 0 => Count(t, Others) = 0
    BY <1>2
  <2> QED
    BY <1>1, <1>3, <1>4, <2>1, <2>2 DEF Alone
<1>8. Ranked(y)
  BY <1>1, <1>3 DEF Ranked, Paying
<1> QED
  BY <1>2, <1>5, <1>6, <1>7, <1>8 DEF Books

\* Two lists whose elements agree but for their CmdSN count the same.
LEMMA CountAlike ==
  ASSUME NEW s, NEW S, NEW R, \A i \in DOMAIN s : s[i] \in S <=> s[i] \in R
  PROVE  Count(s, S) = Count(s, R)
<1>1. {i \in DOMAIN s : s[i] \in S} = {i \in DOMAIN s : s[i] \in R}
  OBVIOUS
<1> QED
  BY <1>1 DEF Count

\* The commands among the PDUs s, numbered from n on.
Anew(s, n) ==
  LET cmds == Commands(s) IN [i \in DOMAIN cmds |-> [cmds[i] EXCEPT !.sn = n + i - 1]]

\* iscsi_reconnect_cb gives the commands it re-issues new numbers, and nothing else.
LEMMA AnewIs ==
  ASSUME NEW s \in Seq(Frame), NEW n \in Int
  PROVE  /\ Anew(s, n) \in Seq(Frame) /\ Len(Anew(s, n)) = Len(Commands(s))
         /\ Len(Commands(s)) \in Nat
         /\ \A i \in 1 .. Len(Anew(s, n)) : ~Immediate(Anew(s, n)[i]) /\ Anew(s, n)[i].sn = n + i - 1
         /\ Thinned(Anew(s, n), s)
         /\ \A S : Blind(S) => Count(Anew(s, n), S) = Count(s, S \cap Being(Kinds \ Immediates))
<1> DEFINE kinds == Kinds \ Immediates
           cmds == Commands(s)
           a == Anew(s, n)
<1>1. cmds \in Seq(Frame) /\ \A S : Count(cmds, S) = Count(s, S \cap Being(kinds))
  BY CountOfKind DEF Commands
<1>2. PICK g : Enumerates(g, cmds, s, kinds)
  BY OfKindOrder DEF Commands
<1> HIDE DEF cmds
<1>3. a = [i \in 1 .. Len(cmds) |-> [cmds[i] EXCEPT !.sn = n + i - 1]] /\ Len(cmds) \in Nat
      /\ DOMAIN cmds = 1 .. Len(cmds) /\ \A i \in 1 .. Len(cmds) : cmds[i] \in Frame
  BY <1>1, LenProperties, ElementOfSeq DEF Anew, cmds
<1> HIDE DEF a
<1>4. ASSUME NEW i \in 1 .. Len(cmds)
      PROVE  /\ a[i] \in Frame /\ a[i].sn = n + i - 1 /\ a[i].kind = cmds[i].kind
             /\ a[i].id = cmds[i].id /\ a[i] = [cmds[i] EXCEPT !.sn = n + i - 1]
  <2> DEFINE m == n + i - 1
  <2>1. m \in Int /\ cmds[i] \in Frame /\ a[i] = [cmds[i] EXCEPT !.sn = m]
    BY <1>3
  <2> HIDE DEF m
  <2>2. LET q == [cmds[i] EXCEPT !.sn = m]
        IN  q \in Frame /\ q.sn = m /\ q.kind = cmds[i].kind /\ q.id = cmds[i].id /\ q.ct = cmds[i].ct
    BY <2>1, Renumber
  <2> QED
    BY <2>1, <2>2 DEF m
<1>5. a = [i \in 1 .. Len(cmds) |-> a[i]]
  BY <1>3
<1>6. a \in Seq(Frame) /\ Len(a) = Len(cmds) /\ DOMAIN a = 1 .. Len(cmds)
  <2>1. DOMAIN a = 1 .. Len(cmds)
    BY <1>3
  <2>2. a \in [1 .. Len(cmds) -> Frame]
    BY <1>4, <1>5
  <2>3. a \in Seq(Frame)
    BY <1>3, <2>2 
  <2> QED
    BY <1>3, <2>1, <2>3, LenProperties
<1>7. ASSUME NEW i \in 1 .. Len(a) PROVE ~Immediate(a[i]) /\ a[i].sn = n + i - 1
  <2>1. cmds[i].kind \in kinds
    BY <1>2, <1>6 DEF Enumerates
  <2> QED
    BY <1>4, <1>6, <2>1 DEF Immediate
<1>8. Thinned(a, s)
  <2>1. /\ g \in [1 .. Len(a) -> 1 .. Len(s)]
        /\ \A k \in 1 .. Len(a) : a[k].kind = s[g[k]].kind /\ a[k].id = s[g[k]].id
        /\ \A k1, k2 \in 1 .. Len(a) : k1 < k2 => g[k1] < g[k2]
    BY <1>2, <1>4, <1>6 DEF Enumerates
  <2> QED
    BY <2>1 DEF Thinned
<1>9. ASSUME NEW S, Blind(S) PROVE Count(a, S) = Count(cmds, S)
  <2>1. \A i \in 1 .. Len(cmds) : a[i] \in S <=> cmds[i] \in S
    <3> TAKE i \in 1 .. Len(cmds)
    <3> DEFINE m == n + i - 1
    <3>1. m \in Int /\ cmds[i] \in Frame /\ a[i] = [cmds[i] EXCEPT !.sn = m]
      BY <1>3
    <3> HIDE DEF m
    <3> QED
      BY <1>9, <3>1 DEF Blind
  <2> QED
    BY <1>3, <1>6, <2>1, CountSame
<1> QED
  BY <1>1, <1>3, <1>6, <1>7, <1>8, <1>9 DEF a, cmds

\* The task management requests of the old context are answered, one answer
\* for each.
Dropped(s) == {p.id : p \in {q \in Range(s) : q.kind = "tmf"}}

\* The task management requests iscsi_reconnect_cb does not re-issue.
LEMMA DroppedIs ==
  ASSUME NEW s \in Seq(Frame), NEW id \in Reqs
  PROVE  id \in Dropped(s) <=> id \in Tmfs /\ Count(s, For(id)) # 0
<1>1. /\ DOMAIN s = 1 .. Len(s) /\ \A i \in DOMAIN s : s[i] \in Frame
  BY LenProperties, ElementOfSeq
<1>2. Range(s) = {s[i] : i \in DOMAIN s}
  BY DEF Range
<1>3. Count(s, For(id)) # 0 <=> \E i \in DOMAIN s : s[i].id = id
  <2>1. Count(s, For(id)) = 0 <=> \A i \in DOMAIN s : s[i] \notin For(id)
    BY CountType
  <2> QED
    BY <1>1, <2>1, CountsAs
<1>4. \A i \in DOMAIN s : s[i].id = id => (s[i].kind = "tmf" <=> id \in Tmfs)
  <2> TAKE i \in DOMAIN s
  <2>1. s[i] \in Frame
    BY <1>1
  <2>2. id # 0 /\ Cmds \cap Tmfs = {}
    BY ConnectionAssumption DEF Reqs
  <2> QED
    BY <2>1, <2>2, FrameIs
<1> QED
  BY <1>2, <1>3, <1>4 DEF Dropped

\* What is counted of the PDUs of the old context and of the commands of them
\* that are issued again.
LEMMA AnewCounts ==
  ASSUME NEW s \in Seq(Frame), NEW n \in Int, Count(s, Logins) = 0
  PROVE  /\ \A cb \in {"user", "reconnect"} : Count(Anew(s, n), Holding(cb)) = Count(s, Holding(cb))
         /\ \A id \in Cmds : Count(Anew(s, n), For(id)) = Count(s, For(id))
         /\ \A id \in Tmfs : Count(Anew(s, n), For(id)) = 0
         /\ Count(Anew(s, n), Logins) = 0
<1> DEFINE B == Being(Kinds \ Immediates)
<1>1. \A i \in DOMAIN s : s[i] \in Frame /\ s[i] \notin Logins
  <2>1. \A i \in DOMAIN s : s[i] \in Frame
    BY LenProperties, ElementOfSeq
  <2>2. \A i \in DOMAIN s : s[i] \notin Logins
    BY CountType
  <2> QED
    BY <2>1, <2>2
<1>2. \A S : Blind(S) => Count(Anew(s, n), S) = Count(s, S \cap B)
  BY AnewIs
<1>3. \A p \in Frame : p \in B <=> p.kind \notin Immediates
  BY CountsAs, FrameIs
<1>4. ASSUME NEW cb \in {"user", "reconnect"}
      PROVE  Count(Anew(s, n), Holding(cb)) = Count(s, Holding(cb))
  <2>1. \A i \in DOMAIN s : s[i] \in Holding(cb) <=> s[i] \in Holding(cb) \cap B
    <3> TAKE i \in DOMAIN s
    <3>1. s[i] \in Frame /\ s[i].kind # "login"
      BY <1>1, CountsAs
    <3>2. s[i].ct.cb = cb => s[i].kind \notin Immediates
      BY <3>1, FrameIs DEF Carriers, Internal, Immediates
    <3> QED
      BY <1>3, <3>1, <3>2, CountsAs
  <2>2. Count(s, Holding(cb)) = Count(s, Holding(cb) \cap B)
    BY <2>1, CountAlike
  <2> QED
    BY <1>2, <2>2, BlindSets
<1>5. ASSUME NEW id \in Cmds
      PROVE  Count(Anew(s, n), For(id)) = Count(s, For(id))
  <2>0. id # 0 /\ id \notin Tmfs
    BY ConnectionAssumption
  <2>1. \A i \in DOMAIN s : s[i] \in For(id) <=> s[i] \in For(id) \cap B
    <3> TAKE i \in DOMAIN s
    <3>1. s[i] \in Frame
      BY <1>1
    <3>2. s[i].id = id => s[i].kind \notin Immediates
      BY <2>0, <3>1, FrameIs DEF Immediates
    <3> QED
      BY <1>3, <3>1, <3>2, CountsAs
  <2>2. Count(s, For(id)) = Count(s, For(id) \cap B)
    BY <2>1, CountAlike
  <2> QED
    BY <1>2, <2>2, BlindSets
<1>6. ASSUME NEW id \in Tmfs
      PROVE  Count(Anew(s, n), For(id)) = 0
  <2>0. id # 0 /\ id \notin Cmds
    BY ConnectionAssumption
  <2>1. \A i \in DOMAIN s : s[i] \notin For(id) \cap B
    <3> TAKE i \in DOMAIN s
    <3>1. s[i] \in Frame
      BY <1>1
    <3>2. s[i].id = id => s[i].kind \in Immediates
      BY <2>0, <3>1, FrameIs DEF Immediates
    <3> QED
      BY <1>3, <3>1, <3>2, CountsAs
  <2>2. Count(s, For(id) \cap B) = 0
    BY <2>1, CountType
  <2> QED
    BY <1>2, <2>2, BlindSets
<1>7. Count(Anew(s, n), Logins) = 0
  <2>1. \A i \in DOMAIN s : s[i] \notin Logins \cap B
    BY <1>1
  <2>2. Count(s, Logins \cap B) = 0
    BY <2>1, CountType
  <2> QED
    BY <1>2, <2>2, BlindSets DEF Logins
<1> QED
  BY <1>4, <1>5, <1>6, <1>7

\* iscsi_reconnect_cb(GOOD): the context that is written from.
Resumed(x) ==
  LET s == Carried(x.old)
      a == Anew(s, x.cmdsn)
      done == [r \in Reqs |-> IF r \in Dropped(s) THEN Append(x.app.done[r], "CANCELLED")
                              ELSE x.app.done[r]]
      lost == x.app.astray \/ Interrupted([x EXCEPT !.old = NoOld], s)
  IN  [x EXCEPT !.old = NoOld, !.out = @ \o a, !.cmdsn = @ + Len(Commands(s)),
                !.app.astray = lost, !.app.done = done]

\* The context after iscsi_reconnect_cb has moved the old queues to it.
LEMMA ResumedIs ==
  ASSUME NEW x, DOMAIN x = Fields, DOMAIN x.app = SteadyApp \cup {"conn", "done", "astray"}
  PROVE  iscsi_reconnect_cb(x, "GOOD") = [Drain(Resumed(x)) EXCEPT !.early = TRUE, !.pending = FALSE]
<1> DEFINE s == Carried(x.old)
           a == Anew(s, x.cmdsn)
           o == x.out \o a
           n == x.cmdsn + Len(Commands(s))
           done == [r \in Reqs |-> IF r \in Dropped(s) THEN Append(x.app.done[r], "CANCELLED")
                                   ELSE x.app.done[r]]
           z == [x EXCEPT !.old = NoOld]
           lost == x.app.astray \/ Interrupted(z, s)
           u == [z EXCEPT !.out = @ \o Anew(s, z.cmdsn), !.cmdsn = @ + Len(Commands(s)),
                          !.app.astray = @ \/ Interrupted(z, s),
                          !.app.done = [r \in Reqs |-> IF r \in Dropped(s)
                                                       THEN Append(@[r], "CANCELLED") ELSE @[r]]]
           v == [x EXCEPT !.old = NoOld, !.out = o, !.cmdsn = n, !.app.astray = lost, !.app.done = done]
<1>1. iscsi_reconnect_cb(x, "GOOD") = [Drain(u) EXCEPT !.early = TRUE, !.pending = FALSE]
  BY DEF iscsi_reconnect_cb, Reissue, Anew, Dropped
<1>2. z.out = x.out /\ z.cmdsn = x.cmdsn /\ z.app = x.app
  BY DEF Fields, Steady
<1>3. u = [z EXCEPT !.out = o, !.cmdsn = n, !.app.astray = lost, !.app.done = done]
  BY <1>2 DEF SteadyApp
<1>4. Resumed(x) = v
  BY DEF Resumed
<1> HIDE DEF o, n, done, u, lost
<1>5. [z EXCEPT !.out = o, !.cmdsn = n, !.app.astray = lost, !.app.done = done] = v
  BY DEF Fields, Steady
<1> QED
  BY <1>1, <1>3, <1>4, <1>5

\* The reconnect ends: the context takes the requests of the old one over.
LEMMA ResumedBooks ==
  ASSUME NEW x, NEW p \in Frame, Books(x, <<p>>), p.ct.cb = "reconnect",
         x.fd # "connecting", Count(x.wait, Logins) = 0
  PROVE  Books(Resumed(x), << >>)
<1> DEFINE h == <<p>>
           s == Carried(x.old)
           a == Anew(s, x.cmdsn)
           o == x.out \o a
           n == x.cmdsn + Len(Commands(s))
           done == [r \in Reqs |-> IF r \in Dropped(s) THEN Append(x.app.done[r], "CANCELLED")
                                   ELSE x.app.done[r]]
           lost == x.app.astray \/ Interrupted([x EXCEPT !.old = NoOld], s)
           y == [x EXCEPT !.old = NoOld, !.out = o, !.cmdsn = n, !.app.astray = lost, !.app.done = done]
<1>1. Resumed(x) = y
  BY DEF Resumed
<1> HIDE DEF lost
<1>2. Books(x, h) /\ \A S : Count(h, S) = IF p \in S THEN 1 ELSE 0
  BY CountOne
<1> HIDE DEF h
<1>3. Typed(x) /\ Owned(x, h) /\ Requests(x, h) /\ Alone(x, h) /\ Ranked(x)
  BY <1>2 DEF Books
<1>4. /\ x.out \in Seq(Frame) /\ x.wait \in Seq(Frame) /\ x.cmdsn \in Int
      /\ x.old.out \in Seq(Frame) /\ x.old.wait \in Seq(Frame)
  BY <1>3 DEF Typed
<1>5. s \in Seq(Frame) /\ \A S : Count(s, S) = PutAside(x, S)
  <2> DEFINE i == x.old.wait
             j == x.old.out
  <2>1. i \in Seq(Frame) /\ j \in Seq(Frame) /\ s = i \o j
    BY <1>4 DEF Carried
  <2> HIDE DEF i, j
  <2>2. i \o j \in Seq(Frame) /\ \A S : Count(i \o j, S) = Count(i, S) + Count(j, S)
    BY <2>1, CountConcat, ConcatProperties
  <2>3. \A S : Count(i, S) \in Nat /\ Count(j, S) \in Nat
    BY <2>1, CountType
  <2> QED
    BY <2>1, <2>2, <2>3 DEF PutAside, i, j
<1>6. InOrder(s)
  <2>1. InLine(x.old.wait, x.old.out)
    BY <1>3 DEF Ranked
  <2> QED
    BY <1>4, <2>1, InOrderConcat DEF InLine, Carried
<1> HIDE DEF s
<1>7. /\ a \in Seq(Frame) /\ Len(a) = Len(Commands(s)) /\ Len(Commands(s)) \in Nat
      /\ \A i \in 1 .. Len(a) : ~Immediate(a[i]) /\ a[i].sn = x.cmdsn + i - 1
      /\ Thinned(a, s)
  BY <1>4, <1>5, AnewIs
<1>8. Count(s, Logins) = 0
  BY <1>3, <1>5 DEF Alone
<1>9. /\ \A cb \in {"user", "reconnect"} : Count(a, Holding(cb)) = PutAside(x, Holding(cb))
      /\ \A id \in Cmds : Count(a, For(id)) = PutAside(x, For(id))
      /\ \A id \in Tmfs : Count(a, For(id)) = 0
      /\ Count(a, Logins) = 0
  BY <1>4, <1>5, <1>8, AnewCounts
<1> HIDE DEF a
<1>10. o \in Seq(Frame) /\ \A S : Count(o, S) = Count(x.out, S) + Count(a, S)
  <2> DEFINE i == x.out
  <2>1. i \in Seq(Frame)
    BY <1>4
  <2> HIDE DEF i
  <2>2. i \o a \in Seq(Frame) /\ \A S : Count(i \o a, S) = Count(i, S) + Count(a, S)
    BY <1>7, <2>1, CountConcat, ConcatProperties
  <2> QED
    BY <2>2 DEF i
<1>11. Numbered(o, n)
  <2>1. Numbered(x.out, x.cmdsn)
    BY <1>3 DEF Ranked
  <2>2. n = x.cmdsn + Len(a)
    BY <1>7
  <2> HIDE DEF n
  <2> QED
    BY <1>4, <1>7, <2>1, <2>2, NumberedConcat
<1>12. n \in Int
  BY <1>4, <1>7
<1>13. done \in [Reqs -> Seq(Results)] /\
       \A r \in Reqs : Len(done[r]) = Len(x.app.done[r])
                                        + (IF r \in Dropped(s) THEN 1 ELSE 0)
  <2>1. "CANCELLED" \in Results
    BY DEF Results
  <2>2. ASSUME NEW r \in Reqs
        PROVE  /\ done[r] \in Seq(Results)
               /\ Len(done[r]) = Len(x.app.done[r]) + (IF r \in Dropped(s) THEN 1 ELSE 0)
    <3> DEFINE e == x.app.done[r]
    <3>1. e \in Seq(Results)
      BY <1>3 DEF Typed
    <3>2. done[r] = IF r \in Dropped(s) THEN Append(e, "CANCELLED") ELSE e
      OBVIOUS
    <3> HIDE DEF e, done
    <3>3. Append(e, "CANCELLED") \in Seq(Results) /\ Len(Append(e, "CANCELLED")) = Len(e) + 1
          /\ Len(e) \in Nat
      BY <2>1, <3>1, AppendProperties, LenProperties
    <3>4. done[r] \in Seq(Results) /\ Len(done[r]) = Len(e) + (IF r \in Dropped(s) THEN 1 ELSE 0)
      BY <3>1, <3>2, <3>3
    <3> QED
      BY <3>4 DEF e
  <2> QED
    BY <2>2
<1> HIDE DEF o, n, done
<1>14. /\ DOMAIN y = Fields /\ y.out = o /\ y.cmdsn = n /\ y.old = NoOld
       /\ y.wait = x.wait /\ y.fd = x.fd /\ y.status_cb = x.status_cb
       /\ y.pending = x.pending /\ y.deferred = x.deferred /\ y.tries = x.tries /\ y.tgt = x.tgt
       /\ DOMAIN y.app = SteadyApp \cup {"conn", "done", "astray"} /\ y.app.done = done
       /\ y.app.conn = x.app.conn /\ y.app.asked = x.app.asked /\ y.app.during = x.app.during
  BY <1>3 DEF Typed, Fields, Steady, SteadyApp
<1> HIDE DEF y
<1>15. NoOld.out = << >> /\ NoOld.wait = << >>
  BY DEF NoOld
<1>16. \A S : PutAside(y, S) = 0
  BY <1>14, <1>15, CountEmpty DEF PutAside
<1>17. Typed(y)
  <2>1. << >> \in Seq(Frame) /\ {"out", "wait", "retry"} \subseteq DOMAIN NoOld
    BY DEF NoOld
  <2> QED
    BY <1>3, <1>10, <1>12, <1>13, <1>14, <1>15, <2>1 DEF Typed
<1>18. \A S : Here(y, S) = Here(x, S) + Count(a, S)
  <2> TAKE S
  <2>1. Count(x.out, S) \in Nat /\ Count(x.wait, S) \in Nat /\ Count(a, S) \in Nat
    BY <1>4, <1>7, CountType
  <2> QED
    BY <1>10, <1>14, <2>1 DEF Here
<1>19. \A S : Count(<< >>, S) = 0
  BY CountEmpty
<1>20. x.old # NoOld
  <2>1. Held(x, "reconnect") \in Nat /\ Count(h, Holding("reconnect")) = 1
    BY <1>2, <1>3, CountsAs, HeldType
  <2> QED
    BY <1>3, <2>1 DEF Owned
<1>21. \A cb \in {"user", "reconnect"} : Held(y, cb) = Held(x, cb) + PutAside(x, Holding(cb))
  <2> TAKE cb \in {"user", "reconnect"}
  <2>1. Here(x, Holding(cb)) \in Nat /\ PutAside(x, Holding(cb)) \in Nat
    BY <1>3, Tallies
  <2>2. Here(y, Holding(cb)) = Here(x, Holding(cb)) + PutAside(x, Holding(cb))
    BY <1>9, <1>18
  <2> QED
    BY <1>14, <2>1, <2>2 DEF Held
<1>22. Owned(y, << >>)
  <2>1. Held(y, "reconnect") = 0
    <3>1. /\ Held(x, "reconnect") \in Nat /\ Count(h, Holding("reconnect")) = 1
          /\ PutAside(x, Holding("reconnect")) = 0
      BY <1>2, <1>3, CountsAs, HeldType DEF Owned
    <3>2. Held(x, "reconnect") + 1 <= 1
      BY <1>3, <1>20, <3>1 DEF Owned
    <3>3. Held(x, "reconnect") = 0
      BY <3>1, <3>2
    <3> QED
      BY <1>21, <3>1, <3>3
  <2>2. Len(x.app.conn) + PutAside(x, Holding("user")) = 1 /\ Held(x, "user") = 0
    <3>1. /\ Held(x, "user") \in Nat /\ Count(h, Holding("user")) = 0
          /\ PutAside(x, Holding("user")) \in Nat /\ Len(x.app.conn) \in Nat
      BY <1>2, <1>3, CountsAs, HeldType, Tallies, DoneType
    <3>2. Held(x, "user") + Count(h, Holding("user")) = 0
      BY <1>3, <1>20 DEF Owned
    <3>3. Held(x, "user") = 0
      BY <3>1, <3>2
    <3>4. Len(x.app.conn) + (Held(x, "user") + Count(h, Holding("user"))) + PutAside(x, Holding("user")) = 1
      BY <1>3, <1>20 DEF Owned, Stranded
    <3> DEFINE l == Len(x.app.conn)
               k == Held(x, "user")
               d == Count(h, Holding("user"))
               b == PutAside(x, Holding("user"))
    <3>5. l \in Nat /\ b \in Nat /\ k = 0 /\ d = 0 /\ l + (k + d) + b = 1
      BY <3>1, <3>3, <3>4
    <3> HIDE DEF l, k, d, b
    <3>6. l + b = 1
      BY <3>5
    <3> QED
      BY <3>3, <3>6 DEF l, b
  <2>3. Held(y, "user") = PutAside(x, Holding("user")) /\ PutAside(x, Holding("user")) \in Nat
        /\ Len(x.app.conn) \in Nat
    BY <1>3, <1>21, <2>2, Tallies, DoneType
  <2>4. Len(y.app.conn) + (Held(y, "user") + Count(<< >>, Holding("user"))) + PutAside(y, Holding("user")) = 1
    BY <1>14, <1>16, <1>19, <2>2, <2>3
  <2> QED
    BY <1>14, <1>16, <1>19, <2>1, <2>4 DEF Owned
<1>23. Requests(y, << >>)
  <2>1. ASSUME NEW id \in Reqs
        PROVE  /\ Here(y, For(id)) + PutAside(y, For(id)) + Count(<< >>, For(id)) + Len(y.app.done[id])
                    = Here(x, For(id)) + PutAside(x, For(id)) + Count(h, For(id)) + Len(x.app.done[id])
               /\ Excused(y, id) <=> Excused(x, id)
    <3> DEFINE m == Here(x, For(id))
               b == PutAside(x, For(id))
               l == Len(x.app.done[id])
    <3>1. m \in Nat /\ b \in Nat /\ l \in Nat
      BY <1>3, Tallies, DoneType
    <3>2. Count(h, For(id)) = 0
      <4>1. id # 0
        BY ConnectionAssumption DEF Reqs
      <4>2. p.id = 0
        BY FrameIs DEF Carriers, Internal
      <4> QED
        BY <1>2, <4>1, <4>2, CountsAs
    <3>3. m + b + Count(h, For(id)) + l <= 1
      BY <1>3 DEF Requests
    <3> DEFINE e == IF id \in Dropped(s) THEN 1 ELSE 0
               k == Count(a, For(id))
    <3>4. k + e = b
      <4>1. CASE id \in Cmds
        <5>1. id \notin Dropped(s)
          BY <1>5, <4>1, DroppedIs, ConnectionAssumption
        <5> QED
          BY <1>9, <3>1, <4>1, <5>1
      <4>2. CASE id \in Tmfs
        <5>1. k = 0 /\ Count(s, For(id)) = b
          BY <1>5, <1>9, <4>2
        <5>2. id \in Dropped(s) <=> b # 0
          BY <1>5, <4>2, <5>1, DroppedIs
        <5>3. b <= 1
          <6> HIDE DEF m, b, l
          <6> QED
            BY <3>1, <3>2, <3>3
        <5>4. e = IF b # 0 THEN 1 ELSE 0
          BY <5>2
        <5> HIDE DEF m, b, l, e, k
        <5> QED
          BY <3>1, <5>1, <5>3, <5>4
      <4> QED
        BY <4>1, <4>2 DEF Reqs
    <3>5. Len(y.app.done[id]) = l + e /\ Here(y, For(id)) = m + k /\ k \in Nat /\ e \in Nat
      BY <1>7, <1>13, <1>14, <1>18, CountType
    <3>6. PutAside(y, For(id)) = 0 /\ Count(<< >>, For(id)) = 0
      BY <1>16, <1>19
    <3> HIDE DEF m, b, l, e, k
    <3>7. (m + k) + 0 + 0 + (l + e) = m + b + 0 + l
      BY <3>1, <3>4, <3>5
    <3>8. Here(y, For(id)) + PutAside(y, For(id)) + Count(<< >>, For(id)) + Len(y.app.done[id])
                    = m + b + Count(h, For(id)) + l
      BY <3>2, <3>5, <3>6, <3>7
    <3> QED
      BY <1>14, <3>8 DEF Excused, m, b, l
  <2> QED
    BY <1>3, <1>14, <2>1 DEF Requests
<1>24. Alone(y, << >>)
  <2>1. ~EnteringIn(y, << >>)
    BY <1>14, <1>19 DEF EnteringIn
  <2>2. Count(y.out, Logins) = 0
    BY <1>3, <1>9, <1>10, <1>14 DEF Alone
  <2> QED
    BY <1>16, <2>1, <2>2 DEF Alone
<1>25. Ranked(y)
  <2>1. \A i \in DOMAIN x.out : x.out[i].kind # "scsi"
    <3> TAKE i \in DOMAIN x.out
    <3>1. x.out[i] \in Frame
      BY <1>4, LenProperties, ElementOfSeq
    <3>2. ASSUME x.out[i].kind = "scsi" PROVE FALSE
      <4> DEFINE id == x.out[i].id
      <4>1. id \in Cmds /\ id \in Reqs /\ ~Excused(x, id)
        BY <3>1, <3>2, FrameIs, ConnectionAssumption DEF Reqs, Excused
      <4>2. Here(x, For(id)) = 0
        BY <1>3, <1>20, <4>1 DEF Requests
      <4>3. Count(x.out, For(id)) = 0
        BY <1>3, <4>2, Tallies DEF Here
      <4>4. x.out[i] \notin For(id)
        BY <1>4, <4>3, CountType
      <4> QED
        BY <3>1, <4>4, CountsAs
    <3> QED
      BY <3>2
  <2>2. \A i \in DOMAIN x.wait : x.wait[i].kind # "scsi"
    <3> TAKE i \in DOMAIN x.wait
    <3>1. x.wait[i] \in Frame
      BY <1>4, LenProperties, ElementOfSeq
    <3>2. ASSUME x.wait[i].kind = "scsi" PROVE FALSE
      <4> DEFINE id == x.wait[i].id
      <4>1. id \in Cmds /\ id \in Reqs /\ ~Excused(x, id)
        BY <3>1, <3>2, FrameIs, ConnectionAssumption DEF Reqs, Excused
      <4>2. Here(x, For(id)) = 0
        BY <1>3, <1>20, <4>1 DEF Requests
      <4>3. Count(x.wait, For(id)) = 0
        BY <1>3, <4>2, Tallies DEF Here
      <4>4. x.wait[i] \notin For(id)
        BY <1>4, <4>3, CountType
      <4> QED
        BY <3>1, <4>4, CountsAs
    <3> QED
      BY <3>2
  <2>3. InOrder(a)
    BY <1>5, <1>6, <1>7, ThinnedOrder
  <2>4. Under(x.out, a) /\ Under(x.wait, a) /\ InOrder(x.wait) /\ InOrder(x.out) /\ Under(x.wait, x.out)
    BY <1>3, <2>1, <2>2 DEF Under, Ranked, InLine
  <2>5. InOrder(o)
    BY <1>4, <1>7, <2>3, <2>4, InOrderConcat DEF o
  <2>6. Under(x.wait, o)
    BY <1>4, <1>7, <2>4, UnderConcat DEF o
  <2>7. InLine(<< >>, << >>)
    BY DEF InLine, InOrder, Under
  <2> QED
    BY <1>3, <1>11, <1>14, <1>15, <2>4, <2>5, <2>6, <2>7 DEF Ranked, InLine
<1>26. << >> \in Seq(Frame)
  OBVIOUS
<1> QED
  BY <1>1, <1>17, <1>22, <1>23, <1>24, <1>25, <1>26 DEF Books

\* A PDU without a request answers none.
LEMMA Unpaid ==
  ASSUME NEW x, Typed(x), NEW p, p.id \notin Reqs
  PROVE  \A id \in Reqs : Len(x.app.done[id]) = Len(x.app.done[id]) + (IF p.id = id THEN 1 ELSE 0)
<1> TAKE id \in Reqs
<1> DEFINE l == Len(x.app.done[id])
<1>1. l \in Nat
  BY DoneType
<1> HIDE DEF l
<1>2. l = l + 0
  BY <1>1
<1>3. (IF p.id = id THEN 1 ELSE 0) = 0
  OBVIOUS
<1> QED
  BY <1>2, <1>3 DEF l

\* A PDU nobody waits for is freed.
LEMMA DropBooks ==
  ASSUME NEW x, NEW h, NEW p, NEW t, Books(x, h), Ahead(h, p, t),
         p.ct.cb # "user", p.id \notin Reqs
  PROVE  Books(x, t)
<1>1. Typed(x) /\ (EnteringIn(x, h) /\ x.old = NoOld => ~x.pending)
  BY DEF Books, Alone
<1>2. Len(x.app.conn) = Len(x.app.conn) + (IF p.ct.cb = "user" THEN 1 ELSE 0)
  <2> DEFINE l == Len(x.app.conn)
  <2>1. l \in Nat
    BY <1>1, DoneType
  <2> HIDE DEF l
  <2>2. l = l + 0
    BY <2>1
  <2>3. (IF p.ct.cb = "user" THEN 1 ELSE 0) = 0
    OBVIOUS
  <2> QED
    BY <2>2, <2>3 DEF l
<1>3. \A id \in Reqs : Len(x.app.done[id]) = Len(x.app.done[id]) + (IF p.id = id THEN 1 ELSE 0)
  BY <1>1, Unpaid
<1>4. Paying(x, p, x)
  BY <1>2, <1>3 DEF Paying
<1> QED
  BY <1>1, <1>4, PaidBooks

\* A failure of the attempt to reconnect is counted.
LEMMA FailedBooks ==
  ASSUME NEW x, NEW h, Books(x, h), x.old # NoOld, NEW st, st # "GOOD"
  PROVE  Books(iscsi_reconnect_cb(x, st), h)
<1> DEFINE n == x.old.retry + 1
           e == ~Exceeded(n) /\ Backoff(n, 0) > 0
           y == [x EXCEPT !.old.retry = n, !.early = e, !.pending = TRUE]
<1>1. iscsi_reconnect_cb(x, st) = y
  BY DEF iscsi_reconnect_cb
<1>2. Typed(x) /\ h \in Seq(Frame)
  BY DEF Books
<1>3. DOMAIN x.old = OldFields /\ n \in Nat
  BY <1>2 DEF Typed
<1> HIDE DEF n, e
<1>4. /\ DOMAIN y = Fields /\ \A f \in Fields \ {"old", "early", "pending"} : y[f] = x[f]
      /\ DOMAIN y.old = OldFields /\ y.old.retry = n
      /\ \A f \in OldFields \ {"retry"} : y.old[f] = x.old[f]
  BY <1>2, <1>3 DEF Typed, Fields, Steady, OldFields
<1> HIDE DEF y
<1>5. /\ y.old.out = x.old.out /\ y.old.wait = x.old.wait /\ y.old.cmdsn = x.old.cmdsn
      /\ y.out = x.out /\ y.wait = x.wait /\ y.cmdsn = x.cmdsn /\ y.fd = x.fd
      /\ y.status_cb = x.status_cb /\ y.app = x.app /\ y.tries = x.tries /\ y.tgt = x.tgt
  BY <1>4 DEF Fields, Steady, OldFields
<1>6. y.old # NoOld
  <2>1. "cmdsn" \in DOMAIN y.old /\ "cmdsn" \notin DOMAIN NoOld
    BY <1>4 DEF OldFields, NoOld
  <2> QED
    BY <2>1
<1>7. Typed(y)
  BY <1>2, <1>3, <1>4, <1>5 DEF Typed
<1>8. /\ \A S : PutAside(y, S) = PutAside(x, S) /\ Here(y, S) = Here(x, S)
      /\ \A cb : Held(y, cb) = Held(x, cb)
  BY <1>5 DEF PutAside, Here, Held
<1>9. Owned(y, h)
  BY <1>5, <1>6, <1>8 DEF Books, Owned, Stranded
<1>10. Requests(y, h)
  BY <1>5, <1>6, <1>8 DEF Books, Requests, Excused
<1>11. Alone(y, h)
  BY <1>5, <1>6, <1>8 DEF Books, Alone, EnteringIn
<1>12. Ranked(y)
  BY <1>5, <1>6 DEF Books, Ranked
<1> QED
  BY <1>1, <1>2, <1>7, <1>9, <1>10, <1>11, <1>12 DEF Books

\* Who is waited for by the attempt to reconnect.
LEMMA ReconnectInHand ==
  ASSUME NEW x, NEW h, NEW p, NEW t, Books(x, h), Ahead(h, p, t), p.ct.cb = "reconnect"
  PROVE  x.old # NoOld
<1>1. /\ Held(x, "reconnect") \in Nat /\ Count(t, Holding("reconnect")) \in Nat
      /\ Count(h, Holding("reconnect")) = Count(t, Holding("reconnect")) + 1
  BY HeldType, CountType, CountsAs DEF Ahead, Books
<1> QED
  BY <1>1 DEF Books, Owned

\* Those who carry a connect_task have no request of the application.
LEMMA CarrierIs ==
  ASSUME NEW p \in Frame, p.ct.cb \in {"user", "reconnect"}
  PROVE  p.id = 0 /\ p.id \notin Reqs /\ p.kind \in Carriers
BY FrameIs, ConnectionAssumption DEF Reqs, Carriers, Internal

\* The connect_task tells the application how it went.
LEMMA ToldBooks ==
  ASSUME NEW x, NEW h, NEW p, NEW t, Books(x, h), Ahead(h, p, t), p.ct.cb = "user",
         NEW st \in Results
  PROVE  Books([x EXCEPT !.app.conn = Append(@, st)], t)
<1> DEFINE m == Append(x.app.conn, st)
           y == [x EXCEPT !.app.conn = m]
<1>1. Typed(x) /\ p \in Frame /\ (EnteringIn(x, h) /\ x.old = NoOld => ~x.pending)
  BY DEF Books, Ahead, Alone
<1>2. x.app.conn \in Seq(Results)
  BY <1>1 DEF Typed
<1>3. m \in Seq(Results) /\ Len(m) = Len(x.app.conn) + 1
  <2> DEFINE s == x.app.conn
  <2>1. s \in Seq(Results)
    BY <1>2
  <2> HIDE DEF s
  <2>2. Append(s, st) \in Seq(Results) /\ Len(Append(s, st)) = Len(s) + 1
    BY <2>1, AppendProperties
  <2> QED
    BY <2>2 DEF s
<1> HIDE DEF m
<1>4. /\ DOMAIN y = Fields /\ \A f \in Fields \ {"app"} : y[f] = x[f]
      /\ DOMAIN y.app = DOMAIN x.app /\ y.app.conn = m
      /\ \A f \in DOMAIN x.app \ {"conn"} : y.app[f] = x.app[f]
  BY <1>1 DEF Typed, Fields, Steady, SteadyApp
<1> HIDE DEF y
<1>5. /\ y.app.done = x.app.done /\ y.app.asked = x.app.asked /\ y.app.during = x.app.during
      /\ y.old = x.old /\ y.out = x.out /\ y.wait = x.wait /\ y.cmdsn = x.cmdsn /\ y.fd = x.fd
      /\ y.status_cb = x.status_cb /\ y.tries = x.tries /\ y.tgt = x.tgt /\ y.pending = x.pending
      /\ y.deferred = x.deferred
  BY <1>1, <1>4 DEF Typed, Fields, Steady, SteadyApp
<1>6. Typed(y)
  BY <1>1, <1>3, <1>4, <1>5 DEF Typed
<1>7. \A id \in Reqs : Len(y.app.done[id]) = Len(x.app.done[id]) + (IF p.id = id THEN 1 ELSE 0)
  <2>1. p.id \notin Reqs
    BY <1>1, CarrierIs
  <2>2. \A id \in Reqs : Len(x.app.done[id]) = Len(x.app.done[id]) + (IF p.id = id THEN 1 ELSE 0)
    BY <1>1, <2>1, Unpaid
  <2>3. y.app.done = x.app.done
    BY <1>5
  <2> QED
    BY <2>2, <2>3
<1>8. Len(y.app.conn) = Len(x.app.conn) + (IF p.ct.cb = "user" THEN 1 ELSE 0)
  BY <1>3, <1>4
<1>9. \A f \in {"fd", "status_cb", "out", "wait", "cmdsn", "deferred"} : y[f] = x[f]
  BY <1>5
<1>10. Paying(x, p, y)
  BY <1>5, <1>7, <1>8, <1>9 DEF Paying
<1>11. Books(y, t)
  BY <1>1, <1>5, <1>6, <1>10, PaidBooks
<1> QED
  BY <1>3, <1>11 DEF y, m

\* ct->cb with a failure.
LEMMA CtErrorBooks ==
  ASSUME NEW x, NEW h, NEW p, NEW t, Books(x, h), Ahead(h, p, t), NEW ct, ct.cb = p.ct.cb,
         p.ct.cb \in {"user", "reconnect"}, NEW st \in Results \ {"GOOD"}
  PROVE  Books(CtCb(x, ct, st), t)
<1>1. CASE p.ct.cb = "user"
  BY <1>1, ToldBooks DEF CtCb
<1>2. CASE p.ct.cb = "reconnect"
  <2>1. x.old # NoOld
    BY <1>2, ReconnectInHand
  <2>2. Books(iscsi_reconnect_cb(x, st), h)
    BY <2>1, FailedBooks
  <2>3. p.id \notin Reqs
    BY CarrierIs DEF Ahead
  <2>4. Books(iscsi_reconnect_cb(x, st), t)
    BY <1>2, <2>2, <2>3, DropBooks
  <2> QED
    BY <1>2, <2>4 DEF CtCb
<1> QED
  BY <1>1, <1>2

\* ct->cb with success, of the only PDU in hand.
LEMMA CtGoodBooks ==
  ASSUME NEW x, NEW p \in Frame, Books(x, <<p>>), NEW ct, ct.cb = p.ct.cb,
         p.ct.cb \in {"user", "reconnect"}, x.fd # "connecting", Count(x.wait, Logins) = 0
  PROVE  Books(CtCb(x, ct, "GOOD"), << >>)
<1>1. CASE p.ct.cb = "user"
  BY <1>1, ToldBooks, AheadOne DEF CtCb, Results
<1>2. CASE p.ct.cb = "reconnect"
  <2> DEFINE y == Resumed(x)
             z == Drain(y)
             w == [z EXCEPT !.early = TRUE, !.pending = FALSE]
  <2>1. Books(y, << >>)
    BY <1>2, ResumedBooks
  <2>2. Books(z, << >>)
    BY <2>1, DrainBooks
  <2>3. iscsi_reconnect_cb(x, "GOOD") = w
    <3>1. Typed(x)
      BY DEF Books
    <3>2. DOMAIN x = Fields /\ DOMAIN x.app = SteadyApp \cup {"conn", "done", "astray"}
      BY <3>1 DEF Typed
    <3> QED
      BY <3>2, ResumedIs, Zenon
  <2> HIDE DEF y, z
  <2>4. Typed(z)
    BY <2>2 DEF Books
  <2>5. /\ DOMAIN w = Fields /\ w.pending = FALSE /\ w.tries = z.tries /\ w.tgt = z.tgt /\ w.fd = z.fd
        /\ \A f \in {"status_cb", "out", "wait", "old", "cmdsn", "app"} : w[f] = z[f]
        /\ w.is_loggedin = z.is_loggedin /\ w.deferred = z.deferred
        /\ w.old = z.old /\ w.app = z.app
    BY <2>4 DEF Typed, Fields, Steady
  <2> HIDE DEF w
  <2>6. Stranded(z) => Stranded(w)
    BY <2>5 DEF Stranded
  <2>7. EnteringIn(z, << >>) /\ z.old = NoOld => ~z.deferred
    BY <2>2 DEF Books, Alone
  <2>8. Books(w, << >>)
    BY <2>2, <2>4, <2>5, <2>6, <2>7, SameBooks DEF Typed
  <2> QED
    BY <1>2, <2>3, <2>8 DEF CtCb
<1> QED
  BY <1>1, <1>2

\* A PDU of the connect sequence.
LEMMA ProbeFrame ==
  ASSUME NEW kind \in {"login"} \cup Internal, NEW ct \in Tasks, ct.cb # "none", NEW n \in Int
  PROVE  /\ Pdu(kind, 0, n, ct) \in Frame
         /\ Pdu(kind, 0, n, ct).ct = ct /\ Pdu(kind, 0, n, ct).id = 0
         /\ Pdu(kind, 0, n, ct).kind = kind /\ Pdu(kind, 0, n, ct).sn = n
BY DEF Pdu, Frame, Tasks, Carriers, Internal, Kinds, Immediates

\* Nothing of the application follows a PDU that is not one of its commands.
LEMMA UnderOther ==
  ASSUME NEW s, NEW p, p.kind # "scsi"
  PROVE  Under(s, <<p>>)
BY DEF Under

\* The books do not look at whether a context has gone astray.
LEMMA AstrayBooks ==
  ASSUME NEW x, NEW h, Books(x, h)
  PROVE  Books(Astray(x), h)
<1> DEFINE y == Astray(x)
<1>1. Typed(x) /\ h \in Seq(Frame)
  BY DEF Books
<1>2. /\ DOMAIN y = Fields /\ \A f \in Fields \ {"app"} : y[f] = x[f]
      /\ DOMAIN y.app = DOMAIN x.app
      /\ \A f \in DOMAIN x.app \ {"astray"} : y.app[f] = x.app[f]
  BY <1>1 DEF Astray, Typed, Fields, Steady, SteadyApp
<1> HIDE DEF y
<1>3. /\ y.app.conn = x.app.conn /\ y.app.done = x.app.done
      /\ y.app.asked = x.app.asked /\ y.app.during = x.app.during
      /\ y.old = x.old /\ y.out = x.out /\ y.wait = x.wait /\ y.cmdsn = x.cmdsn /\ y.fd = x.fd
      /\ y.status_cb = x.status_cb /\ y.tries = x.tries /\ y.tgt = x.tgt /\ y.pending = x.pending
      /\ y.deferred = x.deferred /\ y.is_loggedin = x.is_loggedin
  BY <1>1, <1>2 DEF Typed, Fields, Steady, SteadyApp
<1>4. Typed(y)
  BY <1>1, <1>2, <1>3 DEF Typed
<1>5. /\ \A S : PutAside(y, S) = PutAside(x, S) /\ Here(y, S) = Here(x, S)
      /\ \A cb : Held(y, cb) = Held(x, cb)
  BY <1>3 DEF PutAside, Here, Held
<1>6. Owned(y, h)
  BY <1>3, <1>5 DEF Books, Owned, Stranded
<1>7. Requests(y, h)
  BY <1>3, <1>5 DEF Books, Requests, Excused
<1>8. Alone(y, h)
  BY <1>3, <1>5 DEF Books, Alone, EnteringIn
<1>9. Ranked(y)
  BY <1>3 DEF Books, Ranked
<1> QED
  BY <1>1, <1>4, <1>6, <1>7, <1>8, <1>9 DEF Books, y

\* Nor at whether another attempt has been asked for, once there is a session.
LEMMA PendingBooks ==
  ASSUME NEW x, NEW h, Books(x, h), x.is_loggedin
  PROVE  x.fd # "connecting" /\ Count(x.wait, Logins) = 0 /\ Count(h, Logins) = 0
           => Books([x EXCEPT !.pending = TRUE], h)
<1> SUFFICES ASSUME ~EnteringIn(x, h) PROVE Books([x EXCEPT !.pending = TRUE], h)
  BY DEF EnteringIn
<1> DEFINE y == [x EXCEPT !.pending = TRUE]
<1>1. Typed(x) /\ ~Stranded(x)
  BY DEF Books, Stranded
<1>2. /\ DOMAIN y = Fields /\ \A f \in Fields \ {"pending"} : y[f] = x[f]
  BY <1>1 DEF Typed, Fields, Steady
<1> HIDE DEF y
<1>3. /\ \A f \in {"status_cb", "out", "wait", "old", "cmdsn", "app"} : y[f] = x[f]
      /\ y.tries = x.tries /\ y.fd = x.fd /\ y.tgt = x.tgt /\ x.tries \in Nat
  BY <1>1, <1>2 DEF Typed, Fields, Steady
<1>4. Accounted(x, h)
  BY <1>1 DEF Books, Owned, Accounted
<1> QED
  BY <1>2, <1>3, <1>4, SameBooks DEF y

\* The next command of the connect sequence.
LEMMA AskBooks ==
  ASSUME NEW x, NEW p \in Frame, Books(x, <<p>>), NEW ct \in Tasks, ct.cb = p.ct.cb,
         p.ct.cb \in {"user", "reconnect"}, x.fd # "connecting", Count(x.wait, Logins) = 0,
         NEW kind \in Internal
  PROVE  Books(Ask(x, kind, ct), << >>)
<1>1. CASE ~CanCommand(x)
  BY <1>1, CtErrorBooks, AheadOne DEF Ask, Results
<1>2. CASE CanCommand(x)
  <2> DEFINE q == Pdu(kind, 0, x.cmdsn, ct)
             n == x.cmdsn + 1
             o == Sorted(x.out, q)
             z == [x EXCEPT !.cmdsn = n]
             y == [x EXCEPT !.cmdsn = n, !.out = o]
  <2>1. Typed(x)
    BY DEF Books
  <2>2. q \in Frame /\ q.ct.cb = p.ct.cb /\ q.id = p.id /\ q.kind = kind /\ q.sn = x.cmdsn
    <3>1. x.cmdsn \in Int /\ ct.cb # "none"
      BY <2>1 DEF Typed
    <3>2. q \in Frame /\ q.ct = ct /\ q.id = 0 /\ q.kind = kind /\ q.sn = x.cmdsn
      BY <3>1, ProbeFrame DEF Internal
    <3>3. p.id = 0
      BY CarrierIs
    <3> HIDE DEF q
    <3> QED
      BY <3>2, <3>3
  <2>3. kind # "login" /\ ~Immediate(q) /\ kind # "scsi"
    BY <2>2 DEF Internal, Immediate, Immediates
  <2> HIDE DEF q
  <2>4. Books(x, <<q>>)
    BY <2>2, <2>3, SwapBooks
  <2>5. Under(x.wait, <<q>>) /\ Under(x.out, <<q>>)
    BY <2>2, <2>3, UnderOther
  <2>6. x.old # NoOld /\ q.id \in Reqs => Excused(x, q.id)
    BY <2>2, CarrierIs
  <2> HIDE DEF n, o
  <2>7. DOMAIN y = Fields /\ y.out = o /\ y.cmdsn = n
        /\ \A f \in Fields \ {"out", "cmdsn"} : y[f] = x[f]
    BY <2>1 DEF Typed, Fields, Steady
  <2>8. z.out = x.out
    BY <2>1 DEF Typed, Fields, Steady
  <2>9. [z EXCEPT !.out = Sorted(z.out, q)] = y
    BY <2>1, <2>8 DEF Typed, o
  <2> DEFINE e == Drain(y)
             w == [y EXCEPT !.pending = TRUE]
  <2>12. /\ y.fd = x.fd /\ y.wait = x.wait /\ y.is_loggedin = x.is_loggedin
    BY <2>7 DEF Fields, Steady
  <2>10. \/ Ask(x, kind, ct) \in {e, Astray(e)}
         \/ Ask(x, kind, ct) = w /\ x.is_loggedin
    <3>1. Ask(x, kind, ct) = ScsiCommand(x, kind, 0, ct)
      BY <1>2 DEF Ask
    <3>2. Enqueue([x EXCEPT !.cmdsn = @ + 1], q) = e
      BY <2>9 DEF Enqueue, n
    <3>3. x.fd = "dead" => e = y
      BY <2>12 DEF Drain
    <3> HIDE DEF e, y
    <3>4. ScsiCommand(x, kind, 0, ct) =
            CASE ~WriteFails(x) \/ x.deferred                          -> e
              [] WriteFails(x) /\ ~x.deferred /\ x.early /\ ~x.noauto  -> [e EXCEPT !.pending = TRUE]
              [] WriteFails(x) /\ ~x.deferred /\ (x.noauto \/ ~x.early) -> Astray(e)
      BY <3>2, Zenon DEF ScsiCommand, q
    <3>5. \/ ScsiCommand(x, kind, 0, ct) \in {e, Astray(e)}
          \/ ScsiCommand(x, kind, 0, ct) = [e EXCEPT !.pending = TRUE] /\ WriteFails(x)
      BY <3>4
    <3> QED
      BY <3>1, <3>3, <3>5 DEF WriteFails
  <2> HIDE DEF y, e
  <2>11. Books(y, << >>)
    BY <2>2, <2>3, <2>4, <2>5, <2>6, <2>7, QueueBooks DEF n, o
  <2>13. Books(e, << >>) /\ Books(Astray(e), << >>)
    BY <2>11, DrainBooks, AstrayBooks DEF e
  <2>14. x.is_loggedin => Books(w, << >>)
    BY <2>11, <2>12, PendingBooks, CountEmpty
  <2> QED
    BY <2>10, <2>13, <2>14
<1> QED
  BY <1>1, <1>2

\* A PDU is taken off waitpdu.
LEMMA TakenBooks ==
  ASSUME NEW x, Books(x, << >>), NEW i \in DOMAIN x.wait, NEW y, DOMAIN y = Fields,
         y.wait = RemoveAt(x.wait, i), \A f \in Fields \ {"wait"} : y[f] = x[f]
  PROVE  /\ Books(y, <<x.wait[i]>>) /\ x.wait[i] \in Frame
         /\ x.wait[i].kind = "login" \/ Count(x.wait, Logins) = Count(y.wait, Logins)
<1> DEFINE w == x.wait
           p == w[i]
           g == <<p>>
           r == RemoveAt(w, i)
<1>1. /\ y.fd = x.fd /\ y.status_cb = x.status_cb /\ y.old = x.old /\ y.app = x.app
      /\ y.out = x.out /\ y.tries = x.tries /\ y.tgt = x.tgt /\ y.pending = x.pending /\ y.cmdsn = x.cmdsn
      /\ y.deferred = x.deferred /\ y.is_loggedin = x.is_loggedin
  BY DEF Fields, Steady
<1>2. Typed(x) /\ Alone(x, << >>) /\ Ranked(x) /\ Requests(x, << >>) /\ w \in Seq(Frame)
      /\ x.out \in Seq(Frame)
  BY DEF Books, Typed
<1>3. i \in 1 .. Len(w)
  BY <1>2, LenProperties
<1>4. p \in Frame /\ g \in Seq(Frame)
  BY <1>2, <1>3, ElementOfSeq
<1>5. /\ r \in Seq(Frame) /\ Len(r) = Len(w) - 1
      /\ \A k \in 1 .. Len(w) - 1 : r[k] = IF k < i THEN w[k] ELSE w[k + 1]
      /\ \A S : Count(w, S) = Count(r, S) + (IF p \in S THEN 1 ELSE 0)
  <2> HIDE DEF w
  <2>1. /\ r \in Seq(Frame) /\ Len(r) = Len(w) - 1
        /\ \A k \in 1 .. Len(w) - 1 : r[k] = IF k < i THEN w[k] ELSE w[k + 1]
    BY <1>2, <1>3, RemoveIs
  <2>2. \A S : Count(w, S) = Count(r, S) + (IF p \in S THEN 1 ELSE 0)
    BY <1>2, <1>3, CountRemove
  <2> QED
    BY <2>1, <2>2
<1>6. Thinned(r, w)
  BY <1>2, <1>3, <1>5, ThinnedRemove
<1>7. \A S : Count(g, S) = (IF p \in S THEN 1 ELSE 0) /\ Count(<< >>, S) = 0
  BY CountOne, CountEmpty
<1>8. \A S : /\ Count(x.out, S) \in Nat /\ Count(r, S) \in Nat /\ Count(w, S) \in Nat
             /\ Count(g, S) \in Nat
  <2> HIDE DEF w, r, g
  <2> QED
    BY <1>2, <1>4, <1>5, CountType
<1> HIDE DEF w, r, g, p
<1>9. y.wait = r /\ x.wait = w
  BY DEF w, r
<1>10. Typed(y)
  BY <1>1, <1>2, <1>5, <1>9 DEF Typed
<1>11. \A S : Here(y, S) + Count(g, S) = Here(x, S) + Count(<< >>, S)
  <2> TAKE S
  <2>1. Here(y, S) = Count(x.out, S) + Count(r, S) /\ Here(x, S) = Count(x.out, S) + Count(w, S)
    BY <1>1, <1>9 DEF Here
  <2>2. Count(w, S) = Count(r, S) + Count(g, S) /\ Count(<< >>, S) = 0
    BY <1>5, <1>7
  <2> QED
    BY <1>8, <2>1, <2>2
<1>12. \A cb \in {"user", "reconnect"} :
         Held(y, cb) + Count(g, Holding(cb)) = Held(x, cb) + Count(<< >>, Holding(cb))
  <2> TAKE cb \in {"user", "reconnect"}
  <2>1. Here(y, Holding(cb)) + Count(g, Holding(cb)) = Here(x, Holding(cb)) + Count(<< >>, Holding(cb))
    BY <1>11
  <2>2. Here(y, Holding(cb)) \in Nat /\ Here(x, Holding(cb)) \in Nat /\ Count(g, Holding(cb)) \in Nat
        /\ Count(<< >>, Holding(cb)) \in Nat
    BY <1>2, <1>7, <1>8, <1>10, Tallies
  <2> QED
    BY <1>1, <2>1, <2>2 DEF Held
<1>13. \A id \in Reqs :
         /\ Here(y, For(id)) + Count(g, For(id)) = Here(x, For(id)) + Count(<< >>, For(id))
         /\ x.old # NoOld /\ ~Excused(x, id) => Here(y, For(id)) = 0
  <2> TAKE id \in Reqs
  <2>1. Here(y, For(id)) + Count(g, For(id)) = Here(x, For(id))
    <3>1. Here(x, For(id)) \in Nat
      BY <1>2, Tallies
    <3> QED
      BY <1>7, <1>11, <3>1
  <2>2. x.old # NoOld /\ ~Excused(x, id) => Here(x, For(id)) = 0
    BY <1>2 DEF Requests
  <2>3. Here(y, For(id)) \in Nat /\ Count(g, For(id)) \in Nat
    BY <1>8, <1>10, Tallies
  <2> QED
    BY <1>11, <2>1, <2>2, <2>3
<1>14. Alone(y, g)
  <2>1. /\ Count(w, Logins) = Count(r, Logins) + Count(g, Logins)
        /\ Count(w, Others) = Count(r, Others) + Count(g, Others)
    BY <1>5, <1>7
  <2>2. EnteringIn(y, g) => EnteringIn(x, << >>)
    BY <1>1, <1>8, <1>9, <2>1 DEF EnteringIn
  <2>3. Count(w, Others) = 0 => Count(r, Others) = 0 /\ Count(g, Others) = 0
    BY <1>8, <2>1
  <2>4. PutAside(y, Logins) = PutAside(x, Logins)
    BY <1>1 DEF PutAside
  <2> QED
    BY <1>1, <1>2, <1>9, <2>2, <2>3, <2>4 DEF Alone
<1>15. Ranked(y)
  <2>1. InOrder(w) /\ InOrder(x.out) /\ Under(w, x.out)
    BY <1>2, <1>9 DEF Ranked, InLine
  <2>2. InOrder(r) /\ Under(r, x.out)
    BY <1>5, <1>6, <2>1, <1>2, <1>9, ThinnedOrder
  <2> QED
    BY <1>1, <1>2, <1>9, <2>1, <2>2 DEF Ranked, InLine
<1>16. Stranded(x) => Stranded(y)
  BY <1>1 DEF Stranded
<1>17. Books(y, g)
  BY <1>1, <1>4, <1>10, <1>12, <1>13, <1>14, <1>15, <1>16, MovedBooks
<1>18. p.kind = "login" \/ Count(x.wait, Logins) = Count(y.wait, Logins)
  BY <1>4, <1>5, <1>8, <1>9, CountsAs
<1> QED
  BY <1>4, <1>17, <1>18 DEF p, g, w

\* A PDU that belongs to nobody is taken in hand.
LEMMA HandBooks ==
  ASSUME NEW x, Books(x, << >>), NEW p \in Frame, p.ct.cb = "none", p.id \notin Reqs,
         ~EnteringIn(x, << >>)
  PROVE  Books(x, <<p>>)
<1> DEFINE g == <<p>>
<1>1. \A S : Count(g, S) = (IF p \in S THEN 1 ELSE 0) /\ Count(<< >>, S) = 0
  BY CountOne, CountEmpty
<1>2. Books(x, << >>) /\ g \in Seq(Frame) /\ Typed(x) /\ Ranked(x) /\ Alone(x, << >>)
  BY DEF Books
<1>3. p.kind # "login"
  BY FrameIs DEF Carriers
<1> HIDE DEF g
<1>4. /\ \A cb \in {"user", "reconnect"} : Count(g, Holding(cb)) = Count(<< >>, Holding(cb))
      /\ \A id \in Reqs : Count(g, For(id)) = Count(<< >>, For(id))
      /\ Count(g, Logins) = 0
  BY <1>1, <1>3, CountsAs
<1>5. Alone(x, g)
  BY <1>1, <1>2, <1>4 DEF Alone, EnteringIn
<1>6. \A id \in Reqs : x.old # NoOld /\ ~Excused(x, id) => Here(x, For(id)) = 0
  BY <1>2 DEF Books, Requests
<1>7. Books(x, g)
  BY <1>2, <1>4, <1>5, <1>6, MovedBooks
<1> QED
  BY <1>7 DEF g

\* The callback of a request of the application is run.
LEMMA DeliverBooks ==
  ASSUME NEW x, NEW h, NEW p, NEW t, Books(x, h), Ahead(h, p, t), p.kind \in {"scsi", "tmf"},
         NEW st \in Results
  PROVE  Books(Deliver(x, p.id, st), t)
<1> DEFINE id == p.id
           m == Append(x.app.done[id], st)
           y == [x EXCEPT !.app.done[id] = m]
<1>1. Typed(x) /\ p \in Frame /\ (EnteringIn(x, h) /\ x.old = NoOld => ~x.pending)
  BY DEF Books, Ahead, Alone
<1>2. id \in Reqs /\ p.ct.cb = "none"
  BY <1>1, FrameIs DEF Reqs, Carriers, Internal
<1>3. Deliver(x, p.id, st) = y
  BY DEF Deliver
<1>4. m \in Seq(Results) /\ Len(m) = Len(x.app.done[id]) + 1
  <2> DEFINE s == x.app.done[id]
  <2>1. s \in Seq(Results)
    BY <1>1, <1>2 DEF Typed
  <2> HIDE DEF s
  <2>2. Append(s, st) \in Seq(Results) /\ Len(Append(s, st)) = Len(s) + 1
    BY <2>1, AppendProperties
  <2> QED
    BY <2>2 DEF s
<1> HIDE DEF m, id
<1>5. /\ DOMAIN y = Fields /\ \A f \in Fields \ {"app"} : y[f] = x[f]
      /\ DOMAIN y.app = DOMAIN x.app
      /\ \A f \in DOMAIN x.app \ {"done"} : y.app[f] = x.app[f]
      /\ y.app.done = [x.app.done EXCEPT ![id] = m]
  BY <1>1 DEF Typed, Fields, Steady, SteadyApp
<1> HIDE DEF y
<1>6. /\ y.app.conn = x.app.conn /\ y.app.asked = x.app.asked /\ y.app.during = x.app.during
      /\ y.old = x.old /\ y.out = x.out /\ y.wait = x.wait /\ y.cmdsn = x.cmdsn /\ y.fd = x.fd
      /\ y.status_cb = x.status_cb /\ y.tries = x.tries /\ y.tgt = x.tgt /\ y.pending = x.pending
      /\ y.deferred = x.deferred /\ y.is_loggedin = x.is_loggedin
  BY <1>1, <1>5 DEF Typed, Fields, Steady, SteadyApp
<1>7. y.app.done \in [Reqs -> Seq(Results)] /\ x.app.done \in [Reqs -> Seq(Results)]
  BY <1>1, <1>2, <1>4, <1>5 DEF Typed
<1>8. Typed(y)
  BY <1>1, <1>5, <1>6, <1>7 DEF Typed
<1>9. \A r \in Reqs : Len(y.app.done[r]) = Len(x.app.done[r]) + (IF id = r THEN 1 ELSE 0)
  <2> TAKE r \in Reqs
  <2> DEFINE l == Len(x.app.done[r])
  <2>1. l \in Nat
    BY <1>1, DoneType
  <2>2. y.app.done[r] = IF r = id THEN m ELSE x.app.done[r]
    BY <1>5, <1>7
  <2> HIDE DEF l
  <2>3. CASE r = id
    <3>1. Len(y.app.done[r]) = l + 1 /\ (IF id = r THEN 1 ELSE 0) = 1
      BY <1>4, <2>2, <2>3 DEF l
    <3> QED
      BY <3>1 DEF l
  <2>4. CASE r # id
    <3>1. Len(y.app.done[r]) = l /\ (IF id = r THEN 1 ELSE 0) = 0 /\ l = l + 0
      BY <2>1, <2>2, <2>4 DEF l
    <3> QED
      BY <3>1 DEF l
  <2> QED
    BY <2>3, <2>4
<1>10. Len(y.app.conn) = Len(x.app.conn) + (IF p.ct.cb = "user" THEN 1 ELSE 0)
  <2> DEFINE l == Len(x.app.conn)
  <2>1. l \in Nat
    BY <1>1, DoneType
  <2> HIDE DEF l
  <2>2. l = l + 0 /\ (IF p.ct.cb = "user" THEN 1 ELSE 0) = 0
    BY <1>2, <2>1
  <2> QED
    BY <1>6, <2>2 DEF l
<1>11. Paying(x, p, y)
  BY <1>6, <1>9, <1>10 DEF Paying, id
<1>12. Stranded(x) => Stranded(y)
  BY <1>6 DEF Stranded
<1>13. Books(y, t)
  BY <1>1, <1>6, <1>8, <1>11, <1>12, PaidBooks
<1> QED
  BY <1>3, <1>13

\* The answer to a Logout asks for a reconnect.
LEMMA LogoutBooks ==
  ASSUME NEW x, NEW h, NEW p, NEW t, Books(x, h), Ahead(h, p, t), p.kind = "logout",
         ~Stranded(x), NEW y, DOMAIN y = Fields,
         \A f \in Fields \ {"pending", "is_loggedin"} : y[f] = x[f]
  PROVE  Books(y, t)
<1>1. Typed(x) /\ Alone(x, h) /\ p \in Frame
  BY DEF Books, Ahead
<1>2. p.ct.cb = "none" /\ p.id \notin Reqs
  BY <1>1, FrameIs, ConnectionAssumption DEF Carriers, Internal, Reqs
<1>3. Books(x, t)
  BY <1>2, DropBooks
<1>4. ~EnteringIn(x, t)
  <2>1. /\ Count(h, Others) = Count(t, Others) + 1 /\ Count(h, Logins) = Count(t, Logins)
        /\ Count(t, Others) \in Nat /\ Count(t, Logins) \in Nat
    <3>1. \A S : Count(h, S) = Count(t, S) + (IF p \in S THEN 1 ELSE 0)
      BY DEF Ahead
    <3>2. p \in Others /\ p \notin Logins
      BY <1>1, CountsAs
    <3>3. \A S : Count(t, S) \in Nat
      BY CountType DEF Ahead
    <3> QED
      BY <3>1, <3>2, <3>3
  <2>2. ~EnteringIn(x, h)
    BY <1>1, <2>1 DEF Alone
  <2> QED
    BY <2>1, <2>2 DEF EnteringIn
<1>5. /\ \A f \in {"status_cb", "out", "wait", "old", "cmdsn", "app"} : y[f] = x[f]
      /\ y.tries = x.tries /\ y.tgt = x.tgt /\ y.fd = x.fd
  BY DEF Fields, Steady
<1> QED
  BY <1>1, <1>3, <1>4, <1>5, SameBooks DEF Typed

\* A PDU is cancelled or times out.
LEMMA PduCbBooks ==
  ASSUME NEW x, NEW h, NEW p, NEW t, Books(x, h), Ahead(h, p, t), NEW st \in {"CANCELLED", "TIMEOUT"},
         ~Stranded(x)
  PROVE  Books(PduCb(x, p, st), t) /\ PduCb(x, p, st).deferred = x.deferred
<1>1. Typed(x) /\ p \in Frame /\ p.kind \in Kinds /\ st \in Results \ {"GOOD"} /\ DOMAIN x = Fields
  BY FrameIs DEF Books, Ahead, Results, Typed
<1>2. \A z, ct, s : DOMAIN z = Fields /\ s # "GOOD" => CtCb(z, ct, s).deferred = z.deferred
  BY DEF CtCb, iscsi_reconnect_cb, Fields, Steady
<1>3. CASE p.kind = "pong"
  BY <1>1, <1>3, DropBooks, FrameIs, ConnectionAssumption DEF PduCb, Carriers, Internal, Reqs
<1>4. CASE p.kind \in {"scsi", "tmf"}
  <2>1. PduCb(x, p, st) = Deliver(x, p.id, st)
    BY <1>4 DEF PduCb
  <2>2. Deliver(x, p.id, st).deferred = x.deferred
    BY <1>1 DEF Deliver, Fields, Steady
  <2> QED
    BY <1>1, <1>4, <2>1, <2>2, DeliverBooks
<1>5. CASE p.kind = "logout"
  <2> DEFINE y == [x EXCEPT !.pending = TRUE]
  <2>1. PduCb(x, p, st) = y
    BY <1>5 DEF PduCb
  <2>2. DOMAIN y = Fields /\ \A f \in Fields \ {"pending"} : y[f] = x[f]
    BY <1>1 DEF Fields, Steady
  <2> HIDE DEF y
  <2>3. y.deferred = x.deferred
    BY <2>2 DEF Fields, Steady
  <2> QED
    BY <1>5, <2>1, <2>2, <2>3, LogoutBooks
<1>6. CASE p.kind \in Carriers
  <2>1. p.ct.cb \in {"user", "reconnect"}
    BY <1>1, <1>6, FrameIs
  <2>2. PICK s \in Results \ {"GOOD"} : PduCb(x, p, st) = CtCb(x, p.ct, s)
    <3>1. st \in Results \ {"GOOD"} /\ "ERROR" \in Results \ {"GOOD"}
      BY <1>1 DEF Results
    <3>2. CASE p.kind = "login"
      BY <3>2, <3>1 DEF PduCb, iscsi_login_cb, Results
    <3>3. CASE p.kind = "tur"
      BY <3>3, <3>1 DEF PduCb, iscsi_testunitready_cb, Results
    <3>4. CASE p.kind = "inq"
      BY <3>4, <3>1 DEF PduCb, iscsi_inquiry_page_0x0_cb
    <3>5. CASE p.kind = "usn"
      BY <3>5, <3>1 DEF PduCb, iscsi_inquiry_page_0x80_cb
    <3> QED
      BY <1>6, <3>2, <3>3, <3>4, <3>5 DEF Carriers, Internal
  <2>3. Books(CtCb(x, p.ct, s), t)
    BY <2>1, CtErrorBooks
  <2> QED
    BY <1>1, <1>2, <2>2, <2>3
<1> QED
  BY <1>1, <1>3, <1>4, <1>5, <1>6 DEF Kinds, Immediates, Carriers

\* What is left of a list when its first k PDUs have been dealt with.
Rest(s, k) == SubSeq(s, k + 1, Len(s))

\* The first of the PDUs in hand, and the rest.
LEMMA RestAhead ==
  ASSUME NEW s \in Seq(Frame), NEW k \in 1 .. Len(s)
  PROVE  Ahead(Rest(s, k - 1), s[k], Rest(s, k))
<1> DEFINE n == Len(s)
           h == SubSeq(s, k, n)
           t == SubSeq(s, k + 1, n)
<1>1. n \in Nat /\ k - 1 \in 0 .. n /\ k \in 0 .. n /\ (k - 1) + 1 = k /\ s[k] \in Frame
  BY LenProperties, ElementOfSeq
<1>2. h \in Seq(Frame) /\ t \in Seq(Frame) /\ Len(h) = n - (k - 1)
      /\ \A i \in 1 .. n - (k - 1) : h[i] = s[(k - 1) + i]
  BY <1>1, SplitAt
<1>3. \A S : Count(h, S) = Count(t, S) + (IF s[k] \in S THEN 1 ELSE 0)
  <2> TAKE S
  <2> DEFINE a == SubSeq(s, 1, k - 1)
             b == SubSeq(s, 1, k)
             r == RemoveAt(s, k)
             u == <<s[k]>>
  <2>1. Count(s, S) = Count(a, S) + Count(h, S) /\ Count(s, S) = Count(b, S) + Count(t, S)
    BY <1>1, CountSplit
  <2>2. b = Append(a, s[k])
    <3>1. /\ a \in Seq(Frame) /\ Len(a) = k - 1 /\ \A i \in 1 .. k - 1 : a[i] = s[i]
          /\ b \in Seq(Frame) /\ Len(b) = k /\ \A i \in 1 .. k : b[i] = s[i]
      BY <1>1, SplitAt
    <3> DEFINE d == Append(a, s[k])
    <3>2. d \in Seq(Frame) /\ Len(d) = k /\ \A i \in 1 .. k : d[i] = IF i = k THEN s[k] ELSE a[i]
      BY <1>1, <3>1, AppendProperties
    <3> HIDE DEF a, b, d
    <3>3. b \in [1 .. k -> Frame] /\ d \in [1 .. k -> Frame]
      BY <3>1, <3>2, LenProperties
    <3>4. \A i \in 1 .. k : b[i] = d[i]
      BY <1>1, <3>1, <3>2
    <3> QED
      BY <3>3, <3>4 DEF d
  <2>3. a \in Seq(Frame) /\ h \in Seq(Frame) /\ t \in Seq(Frame)
    BY <1>1, <1>2, SplitAt
  <2> HIDE DEF a, b, h, t
  <2>4. Count(b, S) = Count(a, S) + (IF s[k] \in S THEN 1 ELSE 0)
    BY <1>1, <2>2, <2>3, CountAppend
  <2>5. Count(a, S) \in Nat /\ Count(h, S) \in Nat /\ Count(t, S) \in Nat
    BY <2>3, CountType
  <2> QED
    BY <2>1, <2>4, <2>5
<1> HIDE DEF h, t
<1>4. Ahead(h, s[k], t)
  BY <1>1, <1>2, <1>3 DEF Ahead
<1> QED
  BY <1>1, <1>4 DEF Rest, h, t

\* iscsi_cancel_pdus takes all the PDUs in hand.
LEMMA EmptiedBooks ==
  ASSUME NEW x, Books(x, << >>)
  PROVE  Books(Emptied(x), x.out \o x.wait) /\ Emptied(x).deferred = x.deferred
         /\ x.out \o x.wait \in Seq(Frame)
<1> DEFINE o == x.out
           w == x.wait
           s == o \o w
           n == x.cmdsn - Len(Commands(o))
           y == [x EXCEPT !.out = << >>, !.wait = << >>, !.cmdsn = n]
<1>1. Typed(x) /\ Alone(x, << >>) /\ Ranked(x) /\ o \in Seq(Frame) /\ w \in Seq(Frame)
      /\ x.cmdsn \in Int
  BY DEF Books, Typed
<1>2. Len(Commands(o)) \in Nat
  BY <1>1, AnewIs
<1>3. n \in Int
  BY <1>1, <1>2
<1>4. Emptied(x) = y
  BY DEF Emptied
<1> HIDE DEF n
<1>5. /\ DOMAIN y = Fields /\ y.out = << >> /\ y.wait = << >> /\ y.cmdsn = n
      /\ \A f \in Fields \ {"out", "wait", "cmdsn"} : y[f] = x[f]
  BY <1>1 DEF Typed, Fields, Steady
<1> HIDE DEF y
<1>6. /\ y.fd = x.fd /\ y.status_cb = x.status_cb /\ y.old = x.old /\ y.app = x.app
      /\ y.tries = x.tries /\ y.tgt = x.tgt /\ y.pending = x.pending /\ y.deferred = x.deferred
      /\ y.is_loggedin = x.is_loggedin
  BY <1>5 DEF Fields, Steady
<1>7. s \in Seq(Frame) /\ \A S : Count(s, S) = Count(o, S) + Count(w, S)
  <2> HIDE DEF o, w
  <2> QED
    BY <1>1, CountConcat, ConcatProperties
<1> HIDE DEF s
<1>8. \A S : Count(<< >>, S) = 0 /\ Count(o, S) \in Nat /\ Count(w, S) \in Nat
  BY <1>1, CountType, CountEmpty
<1>9. \A S : Here(y, S) = 0 /\ Here(x, S) = Count(s, S) /\ Count(s, S) \in Nat
  BY <1>5, <1>7, <1>8 DEF Here
<1>10. Typed(y)
  BY <1>1, <1>3, <1>5, <1>6 DEF Typed
<1>11. Ranked(y)
  <2>1. InLine(<< >>, << >>)
    BY DEF InLine, InOrder, Under
  <2> QED
    BY <1>1, <1>5, <1>6, <2>1, NumberedEmpty DEF Ranked
<1>12. Alone(y, s)
  <2>1. /\ Count(o, Logins) = 0 /\ (EnteringIn(x, << >>) => o = << >> /\ Count(w, Others) = 0)
    BY <1>1 DEF Alone
  <2>2. EnteringIn(y, s) => EnteringIn(x, << >>)
    BY <1>5, <1>6, <1>7, <1>8, <2>1 DEF EnteringIn
  <2>3. EnteringIn(x, << >>) => Count(s, Others) = 0
    BY <1>7, <1>8, <2>1
  <2>4. PutAside(y, Logins) = PutAside(x, Logins)
    BY <1>6 DEF PutAside
  <2> QED
    BY <1>1, <1>5, <1>6, <1>8, <2>2, <2>3, <2>4 DEF Alone
<1>13. \A cb \in {"user", "reconnect"} :
         Held(y, cb) + Count(s, Holding(cb)) = Held(x, cb) + Count(<< >>, Holding(cb))
  BY <1>6, <1>8, <1>9 DEF Held
<1>14. \A id \in Reqs :
         /\ Here(y, For(id)) + Count(s, For(id)) = Here(x, For(id)) + Count(<< >>, For(id))
         /\ x.old # NoOld /\ ~Excused(x, id) => Here(y, For(id)) = 0
  BY <1>8, <1>9
<1>15. Stranded(x) => Stranded(y)
  BY <1>6 DEF Stranded
<1>16. Books(y, s)
  BY <1>6, <1>7, <1>10, <1>11, <1>12, <1>13, <1>14, <1>15, MovedBooks
<1> QED
  BY <1>4, <1>6, <1>7, <1>16 DEF s

\* iscsi_cancel_pdus, on a context that has been given up.
LEMMA CancelBooks ==
  ASSUME NEW x, Books(x, << >>), x.deferred
  PROVE  Books(CancelPdus(x), << >>)
<1> DEFINE s == x.out \o x.wait
           y == Emptied(x)
           n == Len(s)
<1>1. Books(y, s) /\ y.deferred /\ s \in Seq(Frame)
  BY EmptiedBooks
<1>2. n \in Nat
  BY <1>1, LenProperties
<1>3. PICK f : Cancelling(x, s, f) /\ CancelPdus(x) = f[n]
  BY <1>2, CancelSteps
<1>4. \A i \in 0 .. n : f[i] = IF i = 0 THEN y ELSE PduCb(f[i - 1], s[i], "CANCELLED")
  BY <1>3 DEF Cancelling, Emptied
<1> HIDE DEF s, y
<1> DEFINE Fine(i) == Books(f[i], Rest(s, i)) /\ f[i].deferred
           T == {i \in 0 .. n : ~Fine(i)}
<1>5. ASSUME T # {} PROVE FALSE
  <2>1. T \in SUBSET Nat
    BY <1>2
  <2>2. PICK m \in T : \A k \in T : m <= k
    <3> HIDE DEF T
    <3> QED
      BY <1>5, <2>1, Smallest
  <2>3. Rest(s, 0) = s
    BY <1>1, SubSeqFull DEF Rest
  <2>4. m # 0
    <3>1. f[0] = y
      BY <1>2, <1>4
    <3>2. Fine(0)
      BY <1>1, <2>3, <3>1
    <3> QED
      BY <2>2, <3>2
  <2>5. m \in 1 .. n /\ m - 1 \in 0 .. n
    BY <1>2, <2>2, <2>4
  <2>6. Fine(m - 1)
    <3>1. m - 1 \notin T
      <4> HIDE DEF T
      <4> QED
        BY <1>2, <2>2, <2>5
    <3> QED
      BY <2>5, <3>1
  <2>7. f[m] = PduCb(f[m - 1], s[m], "CANCELLED")
    BY <1>4, <2>4, <2>5
  <2>8. Ahead(Rest(s, m - 1), s[m], Rest(s, m))
    BY <1>1, <2>5, RestAhead
  <2>9. ~Stranded(f[m - 1])
    BY <2>6 DEF Stranded
  <2>10. Fine(m)
    <3>1. Books(f[m - 1], Rest(s, m - 1)) /\ f[m - 1].deferred
      BY <2>6
    <3> HIDE DEF Fine
    <3>2. Books(f[m], Rest(s, m)) /\ f[m].deferred
      BY <2>7, <2>8, <2>9, <3>1, PduCbBooks
    <3> QED
      BY <3>2 DEF Fine
  <2> QED
    BY <2>2, <2>10
<1>6. Fine(n)
  BY <1>2, <1>5
<1>7. Rest(s, n) = << >>
  BY <1>1, <1>2, SubSeqEmpty DEF Rest
<1> QED
  BY <1>3, <1>6, <1>7

\* A context may be left alone, or given up, between two connections.
Between(x) == Books(x, << >>) /\ Accounted(x, << >>) /\ (x.old = NoOld => ~EnteringIn(x, << >>))

\* That depends on the fields the books are about only.
LEMMA BetweenBooks ==
  ASSUME NEW x, Between(x), NEW y, DOMAIN y = Fields,
         \A f \in {"fd", "status_cb", "out", "wait", "old", "cmdsn", "app", "tries", "tgt"} : y[f] = x[f]
  PROVE  Between(y)
<1>1. Typed(x)
  BY DEF Between, Books
<1>2. y.fd = x.fd /\ y.tries = x.tries /\ y.tgt = x.tgt /\ y.old = x.old /\ y.out = x.out /\ y.wait = x.wait
      /\ y.status_cb = x.status_cb /\ y.app = x.app
  OBVIOUS
<1>3. Books(y, << >>)
  BY <1>1, <1>2, SameBooks DEF Between, Typed
<1>4. Accounted(y, << >>) /\ (y.old = NoOld => ~EnteringIn(y, << >>))
  BY <1>2 DEF Between, Accounted, EnteringIn, Held, Here, PutAside
<1> QED
  BY <1>3, <1>4 DEF Between

\* Deferring a reconnect cancels every request of the context.
LEMMA DeferBooks ==
  ASSUME NEW x, Between(x)
  PROVE  Books(iscsi_defer_reconnect(x), << >>)
<1> DEFINE y == [x EXCEPT !.deferred = TRUE]
<1>1. DOMAIN y = Fields /\ y.deferred
      /\ \A f \in {"fd", "status_cb", "out", "wait", "old", "cmdsn", "app", "tries", "tgt"} : y[f] = x[f]
  BY DEF Between, Books, Typed, Fields, Steady
<1>2. iscsi_defer_reconnect(x) = CancelPdus(y)
  BY DEF iscsi_defer_reconnect
<1> HIDE DEF y
<1>3. Books(y, << >>)
  BY <1>1, BetweenBooks DEF Between
<1> QED
  BY <1>1, <1>2, <1>3, CancelBooks

\* A fresh context on its way to a new connection, with the old one put aside.
Renewed(x, y) ==
  /\ DOMAIN y = Fields
  /\ y.out = << >> /\ y.wait = << >> /\ y.cmdsn = x.cmdsn /\ y.app = x.app
  /\ y.old = IF x.old = NoOld THEN Aside(x) ELSE x.old
  /\ y.tries \in Nat /\ "drawn" \in DOMAIN y.tgt /\ y.tgt.drawn \in Nat
  /\ \/ y.fd = "connecting" /\ y.status_cb = [cb |-> "reconnect", uas |-> 0]
     \/ y.fd = "none" /\ y.status_cb = NoCt

\* The context iscsi_reconnect starts from, and what it keeps in old_iscsi.
LEMMA StartIs ==
  ASSUME NEW x, Typed(x), NEW force, NEW ok, Starts(x, force)
  PROVE  Renewed(x, reconnect(x, force, ok))
<1> DEFINE old == IF x.old = NoOld THEN Aside(x) ELSE x.old
           n == IF x.old = NoOld THEN 1 ELSE x.tries + 1
           u == Fresh(x)
           v == [u EXCEPT !.old = IF x.old = NoOld THEN Aside(x) ELSE @,
                          !.tries = IF x.old = NoOld THEN 1 ELSE @ + 1,
                          !.forced = IF x.old = NoOld THEN 0 ELSE @]
           y == iscsi_connect_async(v, [cb |-> "reconnect", uas |-> 0], ok)
<1>1. reconnect(x, force, ok) = y
  BY DEF reconnect, Starts, iscsi_full_connect_async
<1>2. n \in Nat
  BY DEF Typed
<1>7. DOMAIN x = Fields
  BY DEF Typed
<1>8. DOMAIN u = Fields
  BY <1>7, Zenon DEF Fresh
<1>9. u.out = << >> /\ u.wait = << >> /\ u.cmdsn = x.cmdsn
  BY <1>7 DEF Fresh, Fields, Steady
<1>10. u.app = x.app /\ u.old = x.old /\ u.tries = x.tries
  BY <1>7 DEF Fresh, Fields, Steady
<1>3. /\ DOMAIN u = Fields /\ u.out = << >> /\ u.wait = << >> /\ u.cmdsn = x.cmdsn
      /\ u.app = x.app /\ u.old = x.old /\ u.tries = x.tries
  BY <1>8, <1>9, <1>10
<1> HIDE DEF u
<1>4. /\ DOMAIN v = Fields /\ v.out = << >> /\ v.wait = << >> /\ v.cmdsn = x.cmdsn
      /\ v.app = x.app /\ v.old = old /\ v.tries = n
  BY <1>3 DEF Fields, Steady
<1> HIDE DEF v, old, n
<1>5. /\ DOMAIN y = Fields /\ y.out = v.out /\ y.wait = v.wait /\ y.cmdsn = v.cmdsn
      /\ y.app = v.app /\ y.old = v.old /\ y.tries = v.tries
      /\ y.fd = (IF ok THEN "connecting" ELSE "none")
      /\ y.status_cb = (IF ok THEN [cb |-> "reconnect", uas |-> 0] ELSE NoCt)
      /\ "drawn" \in DOMAIN y.tgt /\ y.tgt.drawn = 0
  BY <1>4 DEF iscsi_connect_async, Fields, Steady
<1> HIDE DEF y
<1>6. \/ y.fd = "connecting" /\ y.status_cb = [cb |-> "reconnect", uas |-> 0]
      \/ y.fd = "none" /\ y.status_cb = NoCt
  BY <1>5
<1> QED
  BY <1>1, <1>2, <1>4, <1>5, <1>6 DEF Renewed, old

\* What is put aside keeps its books.
LEMMA StartBooks ==
  ASSUME NEW x, Between(x), NEW y, Renewed(x, y)
  PROVE  Books(y, << >>)
<1>1. /\ Typed(x) /\ Owned(x, << >>) /\ Requests(x, << >>) /\ Alone(x, << >>) /\ Ranked(x)
      /\ Accounted(x, << >>) /\ (x.old = NoOld => ~EnteringIn(x, << >>))
  BY DEF Between, Books
<1>2. /\ DOMAIN y = Fields /\ y.out = << >> /\ y.wait = << >> /\ y.cmdsn = x.cmdsn /\ y.app = x.app
      /\ y.tries \in Nat /\ "drawn" \in DOMAIN y.tgt /\ y.tgt.drawn \in Nat
      /\ \/ y.fd = "connecting" /\ y.status_cb = [cb |-> "reconnect", uas |-> 0]
         \/ y.fd = "none" /\ y.status_cb = NoCt
      /\ x.old # NoOld => y.old = x.old
      /\ x.old = NoOld => y.old = Aside(x)
  BY DEF Renewed
<1>3. x.old = NoOld => /\ y.old.out = x.out /\ y.old.wait = x.wait /\ y.old.cmdsn = x.cmdsn
                       /\ DOMAIN y.old = OldFields /\ y.old.retry \in Nat
  BY <1>2 DEF Aside, OldFields
<1>4. y.old # NoOld
  <2>1. x.old = NoOld => "cmdsn" \in DOMAIN y.old /\ "cmdsn" \notin DOMAIN NoOld
    BY <1>3 DEF OldFields, NoOld
  <2> QED
    BY <1>2, <2>1
<1>5. \A S : Count(<< >>, S) = 0
  BY CountEmpty
<1>6. \A S : Here(y, S) = 0
  BY <1>2, <1>5 DEF Here
<1>7. /\ \A S : x.old # NoOld => PutAside(y, S) = PutAside(x, S)
      /\ \A S : x.old = NoOld => PutAside(y, S) = Here(x, S) /\ PutAside(x, S) = 0
  BY <1>2, <1>3, <1>5 DEF PutAside, Here, NoOld
<1>8. Typed(y)
  <2>1. y.old.out \in Seq(Frame) /\ y.old.wait \in Seq(Frame)
    BY <1>1, <1>2, <1>3 DEF Typed
  <2>2. DOMAIN y.old = OldFields /\ y.old.cmdsn \in Int /\ y.old.retry \in Nat
    BY <1>1, <1>2, <1>3 DEF Typed
  <2>3. y.status_cb \in Tasks /\ (y.status_cb.cb # "none" <=> y.fd = "connecting")
    BY <1>2 DEF Tasks, NoCt
  <2> QED
    BY SMTT(20), <1>1, <1>2, <2>1, <2>2, <2>3 DEF Typed
<1>9. /\ Held(y, "user") = 0 /\ Held(y, "reconnect") \in {0, 1}
  BY <1>2, <1>6 DEF Held, NoCt
<1>10. /\ Held(x, "user") \in Nat /\ Held(x, "reconnect") \in Nat
       /\ Here(x, Holding("user")) \in Nat /\ Here(x, Holding("reconnect")) \in Nat
       /\ PutAside(x, Holding("user")) \in Nat /\ Len(x.app.conn) \in Nat
  BY <1>1, HeldType, Tallies, DoneType
<1>11. /\ PutAside(y, Holding("reconnect")) = 0
       /\ PutAside(y, Holding("user")) = Held(x, "user") + PutAside(x, Holding("user"))
  <2>1. CASE x.old = NoOld
    <3>1. x.fd # "connecting" /\ x.status_cb.cb = "none"
      BY <1>1, <2>1 DEF EnteringIn, Typed
    <3>2. Held(x, "user") = Here(x, Holding("user")) /\ Held(x, "reconnect") = Here(x, Holding("reconnect"))
      BY <1>10, <3>1 DEF Held
    <3>3. Held(x, "reconnect") = 0
      BY <1>1, <1>5, <1>10, <2>1 DEF Owned
    <3> QED
      BY <1>7, <1>10, <2>1, <3>2, <3>3
  <2>2. CASE x.old # NoOld
    <3>1. Held(x, "user") = 0 /\ PutAside(x, Holding("reconnect")) = 0
      BY <1>1, <1>5, <1>10, <2>2 DEF Owned
    <3> QED
      BY <1>7, <1>10, <2>2, <3>1
  <2> QED
    BY <2>1, <2>2
<1>12. Owned(y, << >>)
  <2> DEFINE l == Len(x.app.conn)
             a == Held(x, "user")
             b == PutAside(x, Holding("user"))
  <2>1. l + (a + 0) + b = 1 /\ l \in Nat /\ a \in Nat /\ b \in Nat
    BY <1>1, <1>5, <1>10 DEF Accounted
  <2> HIDE DEF l, a, b
  <2>2. l + (0 + 0) + (a + b) = 1
    BY <2>1
  <2>3. Len(y.app.conn) + (Held(y, "user") + Count(<< >>, Holding("user"))) + PutAside(y, Holding("user")) = 1
    BY <1>2, <1>5, <1>9, <1>11, <2>2 DEF l, a, b
  <2> QED
    BY <1>4, <1>5, <1>9, <1>11, <2>3 DEF Owned
<1>13. Requests(y, << >>)
  <2>1. ASSUME NEW id \in Reqs
        PROVE  LET m == Here(y, For(id)) + PutAside(y, For(id)) + Count(<< >>, For(id)) + Len(y.app.done[id])
                   n == Here(x, For(id)) + PutAside(x, For(id)) + Count(<< >>, For(id)) + Len(x.app.done[id])
               IN  m \in Nat /\ m <= n /\ (~Excused(x, id) => m = n)
    <3> DEFINE a == Here(x, For(id))
               b == PutAside(x, For(id))
               d == PutAside(y, For(id))
               l == Len(x.app.done[id])
    <3>1. a \in Nat /\ b \in Nat /\ d \in Nat /\ l \in Nat
      BY <1>1, <1>8, Tallies, DoneType
    <3>2. \/ d = a /\ b = 0
          \/ d = b /\ (~Excused(x, id) => a = 0)
      BY <1>1, <1>7 DEF Requests
    <3> HIDE DEF a, b, d, l
    <3>3. 0 + d + 0 + l \in Nat /\ 0 + d + 0 + l <= a + b + 0 + l
          /\ (~Excused(x, id) => 0 + d + 0 + l = a + b + 0 + l)
      BY <3>1, <3>2
    <3> QED
      BY <1>2, <1>5, <1>6, <3>3 DEF a, b, d, l
  <2>2. ASSUME NEW id \in Reqs, NEW m \in Nat, NEW n, m <= n, ~Excused(x, id) => m = n,
               n <= 1, id \notin x.app.asked => n = 0, id \in x.app.asked /\ ~Excused(x, id) => n = 1,
               n \in Nat
        PROVE  m <= 1 /\ (id \notin x.app.asked => m = 0) /\ (id \in x.app.asked /\ ~Excused(x, id) => m = 1)
    BY <2>2
  <2>3. ASSUME NEW id \in Reqs
        PROVE  Here(x, For(id)) + PutAside(x, For(id)) + Count(<< >>, For(id)) + Len(x.app.done[id]) \in Nat
    <3>1. /\ Here(x, For(id)) \in Nat /\ PutAside(x, For(id)) \in Nat /\ Count(<< >>, For(id)) \in Nat
          /\ Len(x.app.done[id]) \in Nat
      BY <1>1, <1>5, Tallies, DoneType
    <3> QED
      BY <3>1
  <2>4. ASSUME NEW id \in Reqs
        PROVE  LET n == Here(x, For(id)) + PutAside(x, For(id)) + Count(<< >>, For(id)) + Len(x.app.done[id])
               IN  n <= 1 /\ (id \notin x.app.asked => n = 0) /\ (id \in x.app.asked /\ ~Excused(x, id) => n = 1)
    BY <1>1 DEF Requests
  <2>5. ASSUME NEW id \in Reqs
        PROVE  LET m == Here(y, For(id)) + PutAside(y, For(id)) + Count(<< >>, For(id)) + Len(y.app.done[id])
               IN  m <= 1 /\ (id \notin x.app.asked => m = 0) /\ (id \in x.app.asked /\ ~Excused(x, id) => m = 1)
    <3> DEFINE m == Here(y, For(id)) + PutAside(y, For(id)) + Count(<< >>, For(id)) + Len(y.app.done[id])
               n == Here(x, For(id)) + PutAside(x, For(id)) + Count(<< >>, For(id)) + Len(x.app.done[id])
    <3>1. m \in Nat /\ n \in Nat /\ m <= n /\ (~Excused(x, id) => m = n)
      BY <2>1, <2>3
    <3>2. n <= 1 /\ (id \notin x.app.asked => n = 0) /\ (id \in x.app.asked /\ ~Excused(x, id) => n = 1)
      BY <2>4
    <3> HIDE DEF m, n
    <3>3. m <= 1 /\ (id \notin x.app.asked => m = 0) /\ (id \in x.app.asked /\ ~Excused(x, id) => m = 1)
      BY <2>2, <3>1, <3>2
    <3> QED
      BY <3>3 DEF m
  <2> QED
    BY <1>2, <1>6, <2>5 DEF Requests, Excused
<1>14. Alone(y, << >>)
  <2>1. x.old = NoOld => Here(x, Logins) = 0
    BY <1>1 DEF Alone, EnteringIn, Here
  <2>2. PutAside(y, Logins) = 0
    BY <1>1, <1>7, <2>1 DEF Alone
  <2> QED
    BY <1>2, <1>4, <1>5, <2>2 DEF Alone
<1>15. Ranked(y)
  <2>1. InLine(<< >>, << >>)
    BY DEF InLine, InOrder, Under
  <2>2. Numbered(y.old.out, y.old.cmdsn) /\ InLine(y.old.wait, y.old.out)
    BY <1>1, <1>2, <1>3 DEF Ranked
  <2> QED
    BY <1>1, <1>2, <2>1, <2>2, NumberedEmpty DEF Ranked
<1>16. << >> \in Seq(Frame)
  OBVIOUS
<1> QED
  BY <1>8, <1>12, <1>13, <1>14, <1>15, <1>16 DEF Books

\* reconnect(), wherever it gets to.
LEMMA ReconnectBooks ==
  ASSUME NEW x, Between(x), NEW force, NEW ok
  PROVE  Books(reconnect(x, force, ok), << >>)
<1> DEFINE y == [x EXCEPT !.pending = TRUE]
<1>1. reconnect(x, force, ok) \in {x, iscsi_defer_reconnect(x), y} \/ Starts(x, force)
  BY DEF reconnect
<1>2. Books(y, << >>)
  <2>1. DOMAIN y = Fields
        /\ \A f \in {"fd", "status_cb", "out", "wait", "old", "cmdsn", "app", "tries", "tgt"} : y[f] = x[f]
    BY DEF Between, Books, Typed, Fields, Steady
  <2> HIDE DEF y
  <2> QED
    BY <2>1, BetweenBooks DEF Between
<1> HIDE DEF y
<1>3. CASE Starts(x, force)
  BY <1>3, StartIs, StartBooks DEF Between, Books
<1>4. CASE reconnect(x, force, ok) \in {x, iscsi_defer_reconnect(x), y}
  BY <1>2, <1>4, DeferBooks DEF Between
<1> QED
  BY <1>1, <1>3, <1>4

\* Whether a login is under way depends on fd and waitpdu only.
LEMMA EnteringSame ==
  ASSUME NEW x, Typed(x)
  PROVE  EnteringIn(x, << >>) <=> Entering(x)
<1>1. Count(x.wait, Logins) = 0 <=> \A i \in DOMAIN x.wait : x.wait[i] \notin Logins
  BY CountType DEF Typed
<1>2. \A i \in DOMAIN x.wait : x.wait[i] \in Frame
  BY LenProperties, ElementOfSeq DEF Typed
<1>3. \A i \in DOMAIN x.wait : x.wait[i] \in Logins <=> x.wait[i].kind = "login"
  BY <1>2, CountsAs
<1>4. Count(<< >>, Logins) = 0
  BY CountEmpty
<1> QED
  BY <1>1, <1>3, <1>4 DEF EnteringIn, Entering, HasLogin

\* When a context is between two connections.
LEMMA BetweenIs ==
  ASSUME NEW x, Books(x, << >>), x.pending \/ x.deferred \/ x.old # NoOld \/ (x.is_loggedin /\ Core(x))
  PROVE  Between(x)
<1>1. ~Stranded(x)
  BY DEF Stranded
<1>2. Accounted(x, << >>)
  BY <1>1 DEF Books, Owned, Accounted
<1>3. x.is_loggedin /\ Core(x) => ~EnteringIn(x, << >>)
  BY EnteringSame DEF Books, Core, OneRequest
<1>4. x.old = NoOld => ~EnteringIn(x, << >>)
  BY <1>3 DEF Books, Alone
<1> QED
  BY <1>2, <1>4 DEF Between

\* A connection that was lost is made again, if there was a session.
LEMMA ServiceBooks ==
  ASSUME NEW x, Core(x), Books(x, << >>), NEW ok
  PROVE  Books(iscsi_service_reconnect_if_loggedin(x, ok), << >>)
<1> DEFINE z == IF x.is_loggedin THEN reconnect(x, FALSE, ok) ELSE x
           d == x.is_loggedin /\ ReconnectOk(x, FALSE, ok)
<1>1. Books(z, << >>)
  BY BetweenIs, ReconnectBooks
<1>2. iscsi_service_reconnect_if_loggedin(x, ok) = ReportFailure(z, d)
  BY DEF iscsi_service_reconnect_if_loggedin
<1> HIDE DEF z, d
<1> QED
  BY <1>1, <1>2, FailedBooks DEF ReportFailure

\* The four things iscsi_service may do when a PDU is queued.
LEMMA KickIs ==
  ASSUME NEW x, NEW ok
  PROVE  \/ x.pending /\ Kick(x, ok) = reconnect(x, FALSE, ok)
         \/ Serviced(x) /\ Kick(x, ok) = iscsi_service_reconnect_if_loggedin(x, ok)
         \/ Kick(x, ok) = Drain(x)
         \/ Kick(x, ok) = x
<1>1. CASE PendingDue(x)
  <2>1. x.pending /\ ~Serviced(x)
    BY <1>1 DEF PendingDue, Serviced
  <2>2. Kick(x, ok) = reconnect(x, FALSE, ok)
    BY <1>1, <2>1, Zenon DEF Kick
  <2> QED
    BY <2>1, <2>2
<1>2. CASE ~PendingDue(x) /\ Serviced(x) /\ x.fd = "dead" /\ ~x.is_corked
  BY <1>2, SMT DEF Kick
<1>3. CASE ~PendingDue(x) /\ Serviced(x) /\ x.fd # "dead"
  BY <1>3, SMT DEF Kick
<1>4. CASE ~PendingDue(x) /\ ~(Serviced(x) /\ x.fd = "dead" /\ ~x.is_corked) /\ ~(Serviced(x) /\ x.fd # "dead")
  <2>1. Kick(x, ok) = x
    BY <1>4, SMT DEF Kick
  <2> QED
    BY <2>1
<1> QED
  BY <1>1, <1>2, <1>3, <1>4

\* What iscsi_service does with a connection that has something to do.
LEMMA KickBooks ==
  ASSUME NEW x, Core(x), Books(x, << >>), NEW ok
  PROVE  Books(Kick(x, ok), << >>)
<1>1. x.pending => Books(reconnect(x, FALSE, ok), << >>)
  BY BetweenIs, ReconnectBooks
<1> QED
  BY <1>1, KickIs, ServiceBooks, DrainBooks

=============================================================================
