--------------------------- MODULE TransferProofs ---------------------------
(***************************************************************************)
(* The bytes of a command, for buffers of any lengths, sessions with any   *)
(* limits, PDUs that the socket takes and gives in parts of any sizes, and *)
(* any number of lost connections.                                         *)
(***************************************************************************)
EXTENDS Transfer, ListsProofs

-----------------------------------------------------------------------------
(* Sums of lengths *)

\* f is what the recursive function in Sums stands for.
Adds(iov, f) ==
  f = [k \in 0 .. Len(iov) |-> IF k = 0 THEN 0 ELSE f[k - 1] + iov[k]]

\* Adding up is possible up to every m.
LEMMA PartialSums ==
  ASSUME NEW iov \in Seq(Nat), NEW m \in 0 .. Len(iov)
  PROVE  \E f \in [0 .. m -> Nat] :
            f[0] = 0 /\ \A k \in 1 .. m : f[k] = f[k - 1] + iov[k]
<1> DEFINE Good(n) == \E f \in [0 .. n -> Nat] :
                         f[0] = 0 /\ \A k \in 1 .. n : f[k] = f[k - 1] + iov[k]
           Bad == {n \in 0 .. Len(iov) : ~Good(n)}
<1>1. Len(iov) \in Nat /\ \A k \in 1 .. Len(iov) : iov[k] \in Nat
  BY LenProperties, ElementOfSeq
<1>2. Good(0)
  <2> DEFINE z == [k \in 0 .. 0 |-> 0]
  <2>1. z \in [0 .. 0 -> Nat] /\ z[0] = 0
    OBVIOUS
  <2>2. \A k \in 1 .. 0 : z[k] = z[k - 1] + iov[k]
    OBVIOUS
  <2> HIDE DEF z
  <2> QED
    BY <2>1, <2>2
<1>3. ASSUME NEW n \in Nat, n + 1 <= Len(iov), Good(n)
      PROVE  Good(n + 1)
  <2>1. PICK f \in [0 .. n -> Nat] :
           f[0] = 0 /\ \A k \in 1 .. n : f[k] = f[k - 1] + iov[k]
    BY <1>3
  <2> DEFINE g == [k \in 0 .. (n + 1) |-> IF k <= n THEN f[k] ELSE f[n] + iov[n + 1]]
  <2>2. g \in [0 .. (n + 1) -> Nat]
    BY SMTT(20), <1>1, <1>3
  <2>3. g[0] = 0 /\ \A k \in 1 .. (n + 1) : g[k] = g[k - 1] + iov[k]
    BY SMTT(20), <2>1
  <2> QED
    BY <2>2, <2>3
<1> HIDE DEF Good
<1>4. Bad = {}
  <2>1. SUFFICES ASSUME Bad # {} PROVE FALSE
    OBVIOUS
  <2>2. Bad \in SUBSET Nat
    BY <1>1
  <2>3. PICK n \in Bad : \A k \in Bad : n <= k
    BY <2>1, <2>2, Smallest
  <2>4. n # 0 /\ n \in 0 .. Len(iov)
    BY <1>2, <2>3
  <2>5. n - 1 \in 0 .. Len(iov) /\ n - 1 \notin Bad
    BY <1>1, <2>2, <2>3, <2>4
  <2>6. Good(n - 1)
    BY <2>5
  <2>7. n - 1 \in Nat /\ (n - 1) + 1 = n /\ n <= Len(iov)
    BY <1>1, <2>4
  <2>8. Good((n - 1) + 1)
    BY <1>3, <2>6, <2>7
  <2>9. Good(n)
    BY <2>7, <2>8
  <2> QED
    BY <2>3, <2>9
<1>5. m \notin Bad
  BY <1>4
<1>6. Good(m)
  BY <1>5
<1> QED
  BY <1>6 DEF Good

\* The defining equation of Sums, and its type.
LEMMA SumsFacts ==
  ASSUME NEW iov \in Seq(Nat)
  PROVE  /\ Sums(iov) \in [0 .. Len(iov) -> Nat]
         /\ Sums(iov)[0] = 0
         /\ \A k \in 1 .. Len(iov) : Sums(iov)[k] = Sums(iov)[k - 1] + iov[k]
<1>1. Len(iov) \in Nat /\ \A k \in 1 .. Len(iov) : iov[k] \in Nat
  BY LenProperties, ElementOfSeq
<1>2. PICK f \in [0 .. Len(iov) -> Nat] :
         f[0] = 0 /\ \A k \in 1 .. Len(iov) : f[k] = f[k - 1] + iov[k]
  <2>1. Len(iov) \in 0 .. Len(iov)
    BY <1>1
  <2> QED
    BY <2>1, PartialSums
<1>3. f = [k \in 0 .. Len(iov) |-> IF k = 0 THEN 0 ELSE f[k - 1] + iov[k]]
  BY <1>1, <1>2
<1>4. Adds(iov, f)
  BY <1>3 DEF Adds
<1>5. Adds(iov, Sums(iov))
  BY <1>4 DEF Sums, Adds
<1> DEFINE S == Sums(iov)
<1> HIDE DEF S
<1>6. S = [k \in 0 .. Len(iov) |-> IF k = 0 THEN 0 ELSE S[k - 1] + iov[k]]
  BY <1>5 DEF Adds, S
<1>7. S[0] = 0 /\ \A k \in 1 .. Len(iov) : S[k] = S[k - 1] + iov[k]
  BY SMTT(20), <1>1, <1>6
<1> DEFINE Off == {k \in 0 .. Len(iov) : S[k] # f[k]}
<1>8. Off = {}
  <2>1. SUFFICES ASSUME Off # {} PROVE FALSE
    OBVIOUS
  <2>2. Off \in SUBSET Nat
    BY <1>1
  <2>3. PICK n \in Off : \A k \in Off : n <= k
    BY <2>1, <2>2, Smallest
  <2>4. n # 0 /\ n \in 0 .. Len(iov)
    BY <1>2, <1>7, <2>3
  <2>5. n - 1 \in 0 .. Len(iov) /\ n - 1 \notin Off /\ n \in 1 .. Len(iov)
    BY <1>1, <2>2, <2>3, <2>4
  <2>6. S[n - 1] = f[n - 1]
    BY <2>5
  <2>7. S[n] = f[n]
    BY <1>2, <1>7, <2>5, <2>6
  <2> QED
    BY <2>3, <2>7
<1>9. \A k \in 0 .. Len(iov) : S[k] = f[k]
  BY <1>8
<1>10. S \in [0 .. Len(iov) -> Nat]
  BY <1>1, <1>2, <1>6, <1>9
<1> QED
  BY <1>7, <1>10 DEF S

\* Whatever adds up the same lengths from 0 up to n is the sum up to n.
LEMMA SumsUnique ==
  ASSUME NEW iov \in Seq(Nat), NEW n \in 0 .. Len(iov), NEW f, f[0] = 0,
         \A k \in 1 .. n : f[k] = f[k - 1] + iov[k]
  PROVE  \A k \in 0 .. n : f[k] = Sums(iov)[k]
<1> DEFINE S == Sums(iov)
           Off == {k \in 0 .. n : f[k] # S[k]}
<1>1. Len(iov) \in Nat
  BY LenProperties
<1>2. S[0] = 0 /\ \A k \in 1 .. Len(iov) : S[k] = S[k - 1] + iov[k]
  BY SumsFacts
<1> HIDE DEF S
<1>3. Off = {}
  <2>1. SUFFICES ASSUME Off # {} PROVE FALSE
    OBVIOUS
  <2>2. Off \in SUBSET Nat
    BY <1>1
  <2>3. PICK m \in Off : \A k \in Off : m <= k
    BY <2>1, <2>2, Smallest
  <2>4. m # 0 /\ m \in 0 .. n
    BY <1>2, <2>3
  <2>5. m - 1 \in 0 .. n /\ m - 1 \notin Off /\ m \in 1 .. n /\ m \in 1 .. Len(iov)
    BY <1>1, <2>2, <2>3, <2>4
  <2>6. f[m - 1] = S[m - 1]
    BY <2>5
  <2>7. f[m] = S[m]
    BY <1>2, <2>5, <2>6
  <2> QED
    BY <2>3, <2>7
<1> QED
  BY <1>3 DEF S

\* The sums do not depend on what comes later.
LEMMA SumsPrefix ==
  ASSUME NEW a \in Seq(Nat), NEW b \in Seq(Nat), Len(a) <= Len(b),
         \A i \in 1 .. Len(a) : a[i] = b[i]
  PROVE  \A k \in 0 .. Len(a) : Sums(a)[k] = Sums(b)[k]
<1> DEFINE S == Sums(a)
<1>1. Len(a) \in Nat /\ Len(b) \in Nat
  BY LenProperties
<1>2. S[0] = 0 /\ \A k \in 1 .. Len(a) : S[k] = S[k - 1] + a[k]
  BY SumsFacts
<1> HIDE DEF S
<1>3. \A k \in 1 .. Len(a) : S[k] = S[k - 1] + b[k]
  BY <1>2
<1>4. Len(a) \in 0 .. Len(b)
  BY <1>1
<1>5. \A k \in 0 .. Len(a) : S[k] = Sums(b)[k]
  BY <1>2, <1>3, <1>4, SumsUnique
<1> QED
  BY <1>5 DEF S

\* Longer sums are not smaller.
LEMMA SumsGrow ==
  ASSUME NEW iov \in Seq(Nat), NEW i \in 0 .. Len(iov), NEW j \in i .. Len(iov)
  PROVE  Sums(iov)[i] <= Sums(iov)[j]
<1> DEFINE S == Sums(iov)
           Off == {k \in i .. Len(iov) : ~(S[i] <= S[k])}
<1>1. /\ Len(iov) \in Nat /\ i \in Nat
      /\ \A k \in 1 .. Len(iov) : iov[k] \in Nat
  BY LenProperties, ElementOfSeq
<1>2. /\ S \in [0 .. Len(iov) -> Nat]
      /\ \A k \in 1 .. Len(iov) : S[k] = S[k - 1] + iov[k]
  BY SumsFacts
<1> HIDE DEF S
<1>3. Off = {}
  <2>1. SUFFICES ASSUME Off # {} PROVE FALSE
    OBVIOUS
  <2>2. Off \in SUBSET Nat
    BY <1>1
  <2>3. PICK m \in Off : \A k \in Off : m <= k
    BY <2>1, <2>2, Smallest
  <2>4. m # i /\ m \in i .. Len(iov)
    <3>1. S[i] \in Nat
      BY <1>1, <1>2
    <3> QED
      BY <2>3, <3>1
  <2>5. m - 1 \in i .. Len(iov) /\ m - 1 \notin Off /\ m \in 1 .. Len(iov)
    BY <1>1, <2>2, <2>3, <2>4
  <2>6. S[i] <= S[m - 1]
    BY <2>5
  <2>7. S[m] = S[m - 1] + iov[m] /\ iov[m] \in Nat /\ S[m - 1] \in Nat /\ S[i] \in Nat
    <3>1. m - 1 \in 0 .. Len(iov) /\ i \in 0 .. Len(iov)
      BY <1>1, <2>5
    <3> QED
      BY <1>1, <1>2, <2>5, <3>1
  <2>8. S[i] <= S[m]
    BY <2>6, <2>7
  <2> QED
    BY <2>3, <2>8
<1> QED
  BY <1>3 DEF S

\* The total of a sequence with one more element.
LEMMA TotalAppend ==
  ASSUME NEW a \in Seq(Nat), NEW x \in Nat
  PROVE  Total(Append(a, x)) = Total(a) + x
<1> DEFINE b == Append(a, x)
<1>1. b \in Seq(Nat) /\ Len(b) = Len(a) + 1
  BY AppendProperties
<1>2. \A i \in 1 .. Len(a) : a[i] = b[i]
  BY AppendProperties
<1>3. b[Len(a) + 1] = x /\ Len(a) \in Nat
  BY AppendProperties, LenProperties
<1> HIDE DEF b
<1>4. \A k \in 0 .. Len(a) : Sums(a)[k] = Sums(b)[k]
  BY SMTT(20), <1>1, <1>2, <1>3, SumsPrefix
<1>5. Sums(b)[Len(a) + 1] = Sums(b)[Len(a)] + x
  <2>1. \A k \in 1 .. Len(b) : Sums(b)[k] = Sums(b)[k - 1] + b[k]
    BY <1>1, SumsFacts
  <2>2. Len(a) + 1 \in 1 .. Len(b) /\ (Len(a) + 1) - 1 = Len(a)
    BY <1>1, <1>3
  <2> QED
    BY <1>3, <2>1, <2>2
<1>6. Total(b) = Sums(b)[Len(a) + 1] /\ Total(a) = Sums(a)[Len(a)]
  BY <1>1 DEF Total
<1>7. Len(a) \in 0 .. Len(a)
  BY <1>3
<1>8. Total(b) = Total(a) + x
  BY <1>4, <1>5, <1>6, <1>7
<1> QED
  BY <1>8 DEF b

-----------------------------------------------------------------------------
(* Finding the buffers *)

\* An iovector is where the elements it has consumed end.
Fits(iov, v) ==
  /\ v \in [offset : Nat, consumed : Nat]
  /\ v.consumed <= Len(iov)
  /\ v.offset = Sums(iov)[v.consumed]

\* iscsi_iovector_readv_writev keeps that, and when it does not fail it finds
\* the bytes at the position it was asked for, all inside the buffers.
LEMMA IovFinds ==
  ASSUME NEW iov \in Seq(Nat), NEW v, Fits(iov, v), NEW pos \in Nat,
         NEW count \in Nat
  PROVE  LET w == iscsi_iovector_readv_writev(iov, v, pos, count)
         IN  /\ Fits(iov, w.vec)
             /\ w.ok \in BOOLEAN
             /\ w.ok => /\ w.bytes = [i \in 1 .. count |-> pos + i - 1]
                        /\ pos + count <= Total(iov)
<1> DEFINE upto == Sums(iov)
           skipped == upto[v.consumed]
           heads == {k \in v.consumed .. (Len(iov) - 1) :
                       pos - v.offset < upto[k + 1] - skipped}
           head == IF heads = {} THEN Len(iov) ELSE Min(heads)
           w == [offset |-> v.offset + upto[head] - skipped, consumed |-> head]
           start == pos - w.offset
           tails == {k \in (head + 1) .. Len(iov) :
                       start + count <= upto[k] - upto[head]}
           EINVAL(x) == [ok |-> FALSE, vec |-> x, bytes |-> << >>]
           r == iscsi_iovector_readv_writev(iov, v, pos, count)
<1>1. Len(iov) \in Nat /\ upto \in [0 .. Len(iov) -> Nat]
  BY LenProperties, SumsFacts
<1>2. v.consumed \in Nat /\ v.consumed <= Len(iov) /\ v.offset = upto[v.consumed]
      /\ v.offset \in Nat
  BY DEF Fits
<1>3. head \in 0 .. Len(iov)
  <2>1. CASE heads = {}
    BY <1>1, <2>1
  <2>2. CASE heads # {}
    <3>1. heads \in SUBSET Nat
      BY <1>1, <1>2
    <3>2. \E x \in heads : \A y \in heads : x <= y
      BY <2>2, <3>1, Smallest
    <3>3. Min(heads) \in heads
      BY <3>2 DEF Min
    <3> QED
      BY <1>1, <1>2, <2>2, <3>3
  <2> QED
    BY <2>1, <2>2
<1> HIDE DEF head
<1>4. upto[head] \in Nat /\ w.offset = upto[head] /\ w.consumed = head
  BY <1>1, <1>2, <1>3
<1>5. Fits(iov, w)
  BY <1>1, <1>3, <1>4 DEF Fits
<1>6. r = CASE iov = << >> \/ pos < v.offset \/ v.consumed >= Len(iov) -> EINVAL(v)
            [] iov # << >> /\ pos >= v.offset /\ v.consumed < Len(iov)
               /\ (heads = {} \/ tails = {}) -> EINVAL(w)
            [] OTHER ->
                 [ ok |-> TRUE, vec |-> w,
                   bytes |-> [i \in 1 .. count |-> upto[head] + start + i - 1] ]
  BY DEF iscsi_iovector_readv_writev, head
<1> HIDE DEF r, w, heads, tails, upto
<1>7. CASE iov = << >> \/ pos < v.offset \/ v.consumed >= Len(iov)
  <2>1. r = EINVAL(v)
    BY <1>6, <1>7, <1>1, <1>2
  <2> QED
    BY <2>1 DEF r
<1>8. CASE iov # << >> /\ pos >= v.offset /\ v.consumed < Len(iov)
           /\ (heads = {} \/ tails = {})
  <2>1. r = EINVAL(w)
    BY <1>6, <1>8, <1>1, <1>2
  <2> QED
    BY <2>1, <1>5 DEF r
<1>9. CASE iov # << >> /\ pos >= v.offset /\ v.consumed < Len(iov)
           /\ heads # {} /\ tails # {}
  <2>1. r = [ ok |-> TRUE, vec |-> w,
              bytes |-> [i \in 1 .. count |-> upto[head] + start + i - 1] ]
    BY <1>6, <1>9, <1>1, <1>2
  <2>2. start = pos - upto[head]
    BY <1>4
  <2>3. \A i \in 1 .. count : upto[head] + start + i - 1 = pos + i - 1
    BY <1>4, <2>2
  <2>4. PICK k \in (head + 1) .. Len(iov) : start + count <= upto[k] - upto[head]
    BY <1>9 DEF tails
  <2>5. upto[k] \in Nat /\ k \in 0 .. Len(iov) /\ Len(iov) \in k .. Len(iov)
    BY <1>1, <1>3, <2>4
  <2>6. upto[k] <= upto[Len(iov)]
    BY <2>5, SumsGrow DEF upto
  <2>7. pos + count <= upto[Len(iov)]
    <3>1. upto[Len(iov)] \in Nat
      BY <1>1
    <3>2. (pos - upto[head]) + count <= upto[k] - upto[head]
      BY <2>2, <2>4
    <3> QED
      BY <1>4, <2>5, <2>6, <3>1, <3>2
  <2>8. w.offset \in Nat
    BY <1>4
  <2> QED
    BY <1>5, <2>1, <2>3, <2>7 DEF r, upto, Total
<1> QED
  BY <1>7, <1>8, <1>9, <1>1, <1>2

-----------------------------------------------------------------------------
(* The inductive invariant *)

\* A request, as far as its data goes.
IsTask(r) ==
  /\ r.xfer_dir \in {"read", "write", "none"}
  /\ r.expxferlen \in Nat
  /\ r.iov_in \in Seq(Nat)
  /\ r.iov_out \in Seq(Nat)

Headers ==
  { p \in [ kind : {"command", "data", "ping"}, ttt : {"none", "r2t"},
            datasn : Nat, payload_offset : Nat, payload_len : Nat,
            inline : Nat, final : BOOLEAN ] :
      /\ p.kind = "ping" => p.payload_len = 0
      /\ p.kind # "ping" => p.inline = 0 }

\* Pieces of digests.
Trailers == [of : Seq(Int), byte : Nat]

Writing ==
  [ kind : {"writing"}, pdu : Headers, payload_written : Nat,
    digest : Seq(Int), wire : Seq(Int), trailer : Seq(Trailers) ]

Frames ==
  [ kind : {"command", "data", "ping"}, ttt : {"none", "r2t"},
    datasn : Nat, payload_offset : Nat, payload_len : Nat, inline : Nat,
    final : BOOLEAN, wire : Seq(Int), trailer : Seq(Trailers) ]

Reading ==
  [ kind : {"data-in"}, offset : Nat, len : Nat, data_pos : Nat,
    data : Seq(Int), digest : Seq(Int) ]

TypeOK ==
  /\ s \in Sessions
  /\ status \in {"idle", "active", "done", "failed"}
  /\ status # "idle" => IsTask(req)
  /\ vec \in [offset : Nat, consumed : Nat]
  /\ outq \in Seq(Headers)
  /\ cur \in Writing \union {None}
  /\ got \in Seq(Frames)
  /\ incoming \in Reading \union {None}
  /\ indata \in Seq(Int)
  /\ answered \in Nat
  /\ incoming # None => incoming.data_pos <= InSize
  /\ status = "idle" => /\ vec = Rewound(vec)
                        /\ outq = << >> /\ cur = None /\ got = << >>
                        /\ incoming = None /\ indata = << >> /\ answered = 0

\* The bytes of p that are on the wire when n bytes after its inline data are.
Frame(p, n) ==
  IF p.inline > 0
  THEN [k \in 1 .. (p.inline + Padding(p.inline)) |->
          IF k <= p.inline THEN k - 1 ELSE Pad]
  ELSE [k \in 1 .. n |->
          IF k <= p.payload_len THEN p.payload_offset + k - 1 ELSE Pad]

\* The first n bytes of the digest of p.
Trailer(p, n) == [i \in 1 .. n |-> [of |-> Frame(p, Padded(p)), byte |-> i]]

Digested(p) == s.data_digest /\ (p.inline > 0 \/ p.payload_len > 0)

\* What was written of the current PDU is the beginning of its frame.
CurOK ==
  cur # None =>
    LET p == cur.pdu
        n == cur.payload_written
    IN  /\ n <= Padded(p) + (IF Digested(p) THEN 4 ELSE 0)
        /\ cur.wire = Frame(p, Least(n, Padded(p)))
        /\ cur.digest = IF s.data_digest THEN cur.wire ELSE << >>
        /\ cur.trailer = Trailer(p, IF n <= Padded(p) THEN 0 ELSE n - Padded(p))

GotOK ==
  \A i \in DOMAIN got :
    /\ got[i].kind = "ping" => got[i].payload_len = 0
    /\ got[i].kind # "ping" => got[i].inline = 0
    /\ got[i].wire = Frame(got[i], Padded(got[i]))
    /\ got[i].trailer = IF Digested(got[i]) THEN Trailer(got[i], 4) ELSE << >>

\* All PDUs of this connection, received, being written or queued, without
\* their bytes.
Header(p) ==
  [ kind |-> p.kind, ttt |-> p.ttt, datasn |-> p.datasn,
    payload_offset |-> p.payload_offset, payload_len |-> p.payload_len,
    inline |-> p.inline, final |-> p.final ]
Current == IF cur = None THEN << >> ELSE <<cur.pdu>>
Stack(g, c, o) == [i \in DOMAIN g |-> Header(g[i])] \o c \o o
Pdus == Stack(got, Current, outq)

\* Every PDU goes on where the one before it ended.
Tiled(q) ==
  \A i \in DOMAIN q :
    q[i].payload_len > 0 => q[i].payload_offset = Sums(Lengths(q))[i - 1]

\* The iovector of a direction is only moved by data in that direction, and
\* only a write sends data.
VecOK ==
  status # "idle" =>
    /\ req.xfer_dir = "write" => Fits(req.iov_out, vec)
    /\ req.xfer_dir = "read" => Fits(req.iov_in, vec)
    /\ incoming # None =>
         /\ req.xfer_dir = "read"
         /\ req.iov_in = << >> => Len(incoming.data) = incoming.data_pos
    /\ cur # None /\ cur.pdu.payload_len > 0 => req.xfer_dir = "write"
    /\ \A i \in DOMAIN outq : outq[i].payload_len > 0 => req.xfer_dir = "write"
    /\ \A k \in DOMAIN mem : k \in Int

TilesOK ==
  status # "idle" =>
    /\ Tiled(Pdus)
    /\ Total(Lengths(Pdus)) <= (IF req.xfer_dir = "write" THEN req.expxferlen ELSE 0)

\* What a session allows the PDUs q of a command.
WithinLimits(n, q) ==
  LET unasked == {i \in DOMAIN q : Unasked(q[i])}
  IN  /\ \A i \in DOMAIN q :
           /\ q[i].payload_len <= n.target_max_recv_data_segment_length
           /\ q[i].kind = "command" <=> i = 1
           /\ q[i].kind = "command" => q[i].ttt = "none"
      /\ Total(UnaskedLengths(q)) <= n.first_burst_length
      /\ ~n.use_immediate_data =>
           \A i \in DOMAIN q : q[i].kind = "command" => q[i].payload_len = 0
      /\ n.use_initial_r2t => \A i \in unasked : i = 1
      /\ \A i, j \in unasked : q[i].final => j <= i
      /\ \E i \in unasked : q[i].final

BurstOK == status # "idle" => WithinLimits(s, Pdus)

\* Nothing is on its way when the response is there.
Settled == status = "done" => cur = None /\ outq = << >> /\ incoming = None

\* How much of the PDU that is being read is data that was read.
Here == IF incoming = None THEN 0 ELSE Least(incoming.data_pos, incoming.len)

\* What came in is where it belongs: in pdu->indata and task->datain, or in the
\* buffers.
ReadOK ==
  status # "idle" =>
    /\ incoming # None => incoming.offset = answered
    /\ incoming # None /\ req.iov_in = << >> =>
         \A i \in 1 .. incoming.data_pos :
           incoming.data[i] = IF i <= incoming.len THEN incoming.offset + i - 1 ELSE Pad
    /\ req.iov_in = << >> =>
         /\ Len(indata) = answered
         /\ \A i \in 1 .. answered : indata[i] = i - 1
    /\ DOMAIN mem = 1 .. Total(req.iov_in)
    /\ req.iov_in # << >> =>
         /\ answered + Here <= Total(req.iov_in)
         /\ \A k \in 1 .. (answered + Here) : mem[k] = k - 1

-----------------------------------------------------------------------------
(* The requests and their PDUs *)

\* A function on 1 .. n is a sequence.
LEMMA FunctionIsSeq ==
  ASSUME NEW S, NEW n \in Nat, NEW f \in [1 .. n -> S]
  PROVE  f \in Seq(S) /\ Len(f) = n
OBVIOUS

\* What a merge has: the fields of both, the first one first.
LEMMA MergedDomain ==
  ASSUME NEW f, NEW g
  PROVE  DOMAIN Merged(f, g) = DOMAIN f \union DOMAIN g
BY DEF Merged

LEMMA MergedLeft ==
  ASSUME NEW f, NEW g, NEW x \in DOMAIN f
  PROVE  Merged(f, g)[x] = f[x]
BY DEF Merged

LEMMA MergedRight ==
  ASSUME NEW f, NEW g, NEW x \in DOMAIN g, x \notin DOMAIN f
  PROVE  Merged(f, g)[x] = g[x]
BY DEF Merged

\* What scsi_create_task returns gets its iovecs in iscsi_scsi_command_async.
LEMMA CommandType ==
  ASSUME NEW n, NEW lun, NEW size, NEW bytes, NEW dir \in {"read", "write", "none"},
         NEW len \in Nat, NEW field \in {"iov_in", "iov_out"},
         NEW iov \in Seq(Nat), NEW d \in Seq(Nat),
         NEW r, r # NULL,
         r = iscsi_scsi_command_async(n, lun,
               SetIov(scsi_create_task(size, bytes, dir, len), field, iov), d)
  PROVE  IsTask(r)
<1> DEFINE t == scsi_create_task(size, bytes, dir, len)
           u == SetIov(t, field, iov)
           v == SetIov(u, "iov_out", d)
           z == [lun |-> lun, iov_in |-> << >>, iov_out |-> << >>]
<1>1. /\ DOMAIN t = {"cdb", "cdb_size", "xfer_dir", "expxferlen"}
      /\ t.xfer_dir = dir /\ t.expxferlen = len
  BY DEF scsi_create_task
<1> HIDE DEF t
<1>2. /\ {"xfer_dir", "expxferlen"} \subseteq DOMAIN u
      /\ u.xfer_dir = dir /\ u.expxferlen = len
      /\ "iov_in" \in DOMAIN u => u.iov_in \in Seq(Nat)
      /\ "iov_out" \in DOMAIN u => u.iov_out \in Seq(Nat)
  <2>1. CASE u = t
    BY <1>1, <2>1
  <2>2. CASE u = Merged([x \in {field} |-> iov], t)
    <3> DEFINE o == [x \in {field} |-> iov]
    <3>a. DOMAIN o = {field} /\ o[field] = iov
      OBVIOUS
    <3> HIDE DEF o, u
    <3>b. u = Merged(o, t)
      BY <2>2 DEF o
    <3>c. DOMAIN u = {field} \union DOMAIN t
      BY <3>a, <3>b, MergedDomain
    <3>d. u[field] = iov
      BY <3>a, <3>b, MergedLeft
    <3>e. ASSUME NEW x \in DOMAIN t, x \notin {field} PROVE u[x] = t[x]
      BY <3>a, <3>b, <3>e, MergedRight
    <3>1. /\ DOMAIN u = {field} \union DOMAIN t
          /\ u[field] = iov
          /\ \A x \in DOMAIN t \ {field} : u[x] = t[x]
      BY <3>c, <3>d, <3>e
    <3> HIDE DEF u
    <3> QED
      BY <1>1, <3>1
  <2> QED
    BY <2>1, <2>2 DEF SetIov
<1> HIDE DEF u
<1>3. /\ {"xfer_dir", "expxferlen"} \subseteq DOMAIN v
      /\ v.xfer_dir = dir /\ v.expxferlen = len
      /\ "iov_in" \in DOMAIN v => v.iov_in \in Seq(Nat)
      /\ "iov_out" \in DOMAIN v => v.iov_out \in Seq(Nat)
  <2>1. CASE v = u
    BY <1>2, <2>1
  <2>2. CASE v = Merged([x \in {"iov_out"} |-> d], u)
    <3> DEFINE o == [x \in {"iov_out"} |-> d]
    <3>a. DOMAIN o = {"iov_out"} /\ o["iov_out"] = d
      OBVIOUS
    <3> HIDE DEF o, v
    <3>b. v = Merged(o, u)
      BY <2>2 DEF o
    <3>c. DOMAIN v = {"iov_out"} \union DOMAIN u
      BY <3>a, <3>b, MergedDomain
    <3>d. v["iov_out"] = d
      BY <3>a, <3>b, MergedLeft
    <3>e. ASSUME NEW x \in DOMAIN u, x \notin {"iov_out"} PROVE v[x] = u[x]
      BY <3>a, <3>b, <3>e, MergedRight
    <3>1. /\ DOMAIN v = {"iov_out"} \union DOMAIN u
          /\ v["iov_out"] = d
          /\ \A x \in DOMAIN u \ {"iov_out"} : v[x] = u[x]
      BY <3>c, <3>d, <3>e
    <3> HIDE DEF v
    <3> QED
      BY <1>2, <3>1
  <2> QED
    BY <2>1, <2>2 DEF SetIov
<1> HIDE DEF v
<1>4. DOMAIN z = {"lun", "iov_in", "iov_out"} /\ z.iov_in = << >> /\ z.iov_out = << >>
  OBVIOUS
<1> HIDE DEF z
<1>5. r = Merged(v, z)
  BY DEF iscsi_scsi_command_async, t, u, v, z
<1>6. /\ \A x \in DOMAIN v : r[x] = v[x]
      /\ \A x \in DOMAIN z \ DOMAIN v : r[x] = z[x]
  BY <1>5, MergedDomain, MergedLeft, MergedRight
<1>7. r.xfer_dir = dir /\ r.expxferlen = len
  BY <1>3, <1>6
<1>8. << >> \in Seq(Nat)
  BY EmptySeq
<1>9. r.iov_in \in Seq(Nat)
  BY <1>3, <1>4, <1>6, <1>8
<1>10. r.iov_out \in Seq(Nat)
  BY <1>3, <1>4, <1>6, <1>8
<1> QED
  BY <1>7, <1>9, <1>10 DEF IsTask

\* Every call either fails or makes a request with sensible lengths.
LEMMA RequestType ==
  ASSUME NEW c \in Calls, Request(c) # NULL
  PROVE  IsTask(Request(c))
<1> DEFINE n == [session_type |-> "normal", is_loggedin |-> TRUE,
                 pending_reconnect |-> FALSE]
           a == c.args
           r == Request(c)
<1>1. /\ c.name \in {"read16", "write16", "verify16", "writesame16", "unmap"}
      /\ a.iov \in Seq(Nat) /\ a.data \in Seq(Nat)
      /\ a.xferlen \in Nat /\ a.datalen \in Nat /\ Len(a.list) \in Nat
  BY TransferAssumption
<1>2. << >> \in Seq(Nat)
  BY EmptySeq
<1> HIDE DEF n, a
<1>3. CASE c.name = "read16"
  <2>1. r = iscsi_read16_task(n, a)
    BY <1>3 DEF Request, n, a
  <2>2. r = iscsi_scsi_command_async(n, a.lun,
              SetIov(scsi_create_task(16, Layout16(Opcode.read16, RwFlags(a), a),
                       Reads(a.xferlen), a.xferlen), "iov_in", a.iov), << >>)
    BY <2>1 DEF iscsi_read16_task, ReadCall, BlockCall, scsi_cdb_read16
  <2>3. Reads(a.xferlen) \in {"read", "write", "none"}
    BY DEF Reads
  <2> HIDE DEF r
  <2>4. IsTask(r)
    BY ZenonT(40), <1>1, <1>2, <2>2, <2>3, CommandType DEF r
  <2> QED
    BY <2>4 DEF r
<1>4. CASE c.name = "write16"
  <2>1. r = iscsi_write16_task(n, a)
    BY <1>4 DEF Request, n, a
  <2>2. r = iscsi_scsi_command_async(n, a.lun,
              SetIov(scsi_create_task(16, Layout16(Opcode.write16, RwFlags(a), a),
                       Writes(a.xferlen), a.xferlen), "iov_out", a.iov), a.data)
    BY <2>1 DEF iscsi_write16_task, WriteCall, BlockCall, scsi_cdb_write16
  <2>3. Writes(a.xferlen) \in {"read", "write", "none"}
    BY DEF Writes
  <2> QED
    BY ZenonT(40), <1>1, <2>2, <2>3, CommandType
<1>5. CASE c.name = "verify16"
  <2>1. r = iscsi_verify16_task(n, a)
    BY <1>5 DEF Request, n, a
  <2>2. r = iscsi_scsi_command_async(n, a.lun,
              SetIov(scsi_create_task(16,
                       Layout16(Opcode.verify16, VerifyFlags(a), [a EXCEPT !.group = 0]),
                       Writes(VerifyLen(a)), VerifyLen(a)), "iov_out", a.iov), a.data)
    BY <2>1 DEF iscsi_verify16_task, WriteCall, BlockCall, scsi_cdb_verify16
  <2>3. Writes(VerifyLen(a)) \in {"read", "write", "none"} /\ VerifyLen(a) \in Nat
    BY <1>1 DEF Writes, VerifyLen
  <2> QED
    BY ZenonT(40), <1>1, <2>2, <2>3, CommandType
<1>6. CASE c.name = "writesame16"
  <2> DEFINE bytes == At(0, <<Opcode.writesame16, WriteSameFlags(a) + Bit(a.datalen = 0, 1)>>
                            \o scsi_set_uint64(a.lba) \o scsi_set_uint32(a.blocks)
                            \o <<a.group % 32>>)
             task == scsi_create_task(16, bytes, "write", a.datalen)
             t == IF a.data # << >> THEN [task EXCEPT !.expxferlen = a.datalen]
                  ELSE [task EXCEPT !.expxferlen = 0, !.xfer_dir = "none"]
  <2>1. r = iscsi_writesame16_task(n, a)
    BY <1>6 DEF Request, n, a
  <2>2. r = iscsi_scsi_command_async(n, a.lun, SetIov(t, "iov_out", a.iov), a.data)
    BY <2>1 DEF iscsi_writesame16_task, WriteSameCall, scsi_cdb_writesame16
  <2> HIDE DEF bytes
  <2>3. CASE a.data # << >>
    <3>1. t = scsi_create_task(16, bytes, "write", a.datalen)
      BY <2>3 DEF scsi_create_task
    <3> HIDE DEF t
    <3> QED
      BY <1>1, <2>2, <3>1, CommandType
  <2>4. CASE a.data = << >>
    <3>1. t = scsi_create_task(16, bytes, "none", 0)
      BY <2>4 DEF scsi_create_task
    <3> HIDE DEF t
    <3> QED
      BY <1>1, <2>2, <3>1, CommandType
  <2> QED
    BY <2>3, <2>4
<1>7. CASE c.name = "unmap"
  <2> DEFINE m == Len(UnmapParameters(a.list))
             bytes == At(0, <<Opcode.unmap, Bit(a.anchor, 1)>>) @@ At(6, <<a.group % 32>>)
                      @@ At(7, scsi_set_uint16(m))
  <2>1. r = iscsi_unmap_task(n, a)
    BY <1>7 DEF Request, n, a
  <2>2. m \in Nat
    BY <1>1 DEF UnmapParameters
  <2>3. r = iscsi_scsi_command_async(n, a.lun,
              SetIov(scsi_create_task(10, bytes, Writes(m), m), "iov_out", <<m>>), << >>)
    BY <2>1 DEF iscsi_unmap_task, Call, scsi_cdb_unmap
  <2>4. Writes(m) \in {"read", "write", "none"}
    BY DEF Writes
  <2> HIDE DEF m, bytes
  <2>5. <<m>> \in Seq(Nat)
    BY <2>2
  <2> QED
    BY <1>2, <2>2, <2>3, <2>4, <2>5, CommandType
<1> QED
  BY <1>1, <1>3, <1>4, <1>5, <1>6, <1>7

\* Padding fills up to a multiple of four.
LEMMA PaddingType ==
  ASSUME NEW n \in Nat
  PROVE  Padding(n) \in 0 .. 3 /\ (n = 0 => Padding(n) = 0)
BY DEF Padding

LEMMA PadsType ==
  ASSUME NEW n \in Nat
  PROVE  /\ Pads(n) \in Seq(Int)
         /\ Len(Pads(n)) = n
         /\ \A i \in 1 .. n : Pads(n)[i] = Pad
BY DEF Pads, Pad

\* The sums over two sequences of lengths, one after the other.
LEMMA SumsConcat ==
  ASSUME NEW a \in Seq(Nat), NEW b \in Seq(Nat)
  PROVE  /\ \A k \in 0 .. Len(a) : Sums(a \o b)[k] = Sums(a)[k]
         /\ \A k \in 0 .. Len(b) : Sums(a \o b)[Len(a) + k] = Total(a) + Sums(b)[k]
         /\ Total(a \o b) = Total(a) + Total(b)
<1> DEFINE c == a \o b
           A == Sums(a)
           B == Sums(b)
           la == Len(a)
           lb == Len(b)
           f == [k \in 0 .. (la + lb) |-> IF k <= la THEN A[k] ELSE A[la] + B[k - la]]
<1>1. la \in Nat /\ lb \in Nat
  BY LenProperties
<1>2. /\ c \in Seq(Nat) /\ Len(c) = la + lb
      /\ \A i \in 1 .. (la + lb) : c[i] = IF i <= la THEN a[i] ELSE b[i - la]
  BY ConcatProperties
<1>3. A \in [0 .. la -> Nat] /\ A[0] = 0 /\ \A k \in 1 .. la : A[k] = A[k - 1] + a[k]
  BY SumsFacts
<1>4. B \in [0 .. lb -> Nat] /\ B[0] = 0 /\ \A k \in 1 .. lb : B[k] = B[k - 1] + b[k]
  BY SumsFacts
<1>5. \A i \in 1 .. lb : b[i] \in Nat
  BY ElementOfSeq
<1> HIDE DEF c, A, B, la, lb
<1>6. f[0] = 0
  BY <1>1, <1>3
<1>7. ASSUME NEW k \in 1 .. (la + lb)
      PROVE  f[k] = f[k - 1] + c[k]
  <2>0. k \in 0 .. (la + lb) /\ k - 1 \in 0 .. (la + lb)
    BY <1>1
  <2>1. CASE k <= la
    <3>1. k \in 1 .. la /\ k - 1 <= la
      BY <1>1, <2>1
    <3>2. f[k] = A[k] /\ f[k - 1] = A[k - 1] /\ c[k] = a[k]
      BY <1>2, <2>0, <2>1, <3>1
    <3> QED
      BY <1>3, <3>1, <3>2
  <2>2. CASE k = la + 1
    <3>1. 1 \in 1 .. lb /\ 1 - 1 = 0 /\ k - la = 1 /\ ~(k <= la) /\ k - 1 = la
      BY <1>1, <2>2
    <3>2. f[k] = A[la] + B[1] /\ f[k - 1] = A[la] /\ c[k] = b[1]
      BY <1>1, <1>2, <2>0, <3>1
    <3>3. B[1] = b[1]
      BY <1>4, <1>5, <3>1
    <3> QED
      BY <3>2, <3>3
  <2>3. CASE k > la + 1
    <3>1. k - la \in 1 .. lb /\ (k - la) - 1 = (k - 1) - la /\ ~(k <= la) /\ ~(k - 1 <= la)
      BY <1>1, <2>3
    <3>2. f[k] = A[la] + B[k - la] /\ f[k - 1] = A[la] + B[(k - 1) - la]
          /\ c[k] = b[k - la]
      BY <1>1, <1>2, <2>0, <3>1
    <3>3. B[k - la] = B[(k - 1) - la] + b[k - la]
      BY <1>4, <3>1
    <3>4. A[la] \in Nat /\ B[(k - 1) - la] \in Nat /\ b[k - la] \in Nat
      <4>1. (k - 1) - la \in 0 .. lb
        BY <1>1, <3>1
      <4> QED
        BY <1>1, <1>3, <1>4, <1>5, <3>1, <4>1
    <3> QED
      BY <3>2, <3>3, <3>4
  <2> QED
    BY <1>1, <2>1, <2>2, <2>3
<1>8. \A k \in 0 .. (la + lb) : f[k] = Sums(c)[k]
  <2>1. la + lb \in 0 .. Len(c)
    BY <1>1, <1>2
  <2> HIDE DEF f
  <2> QED
    BY <1>2, <1>6, <1>7, <2>1, SumsUnique
<1>9. \A k \in 0 .. la : Sums(c)[k] = A[k]
  BY <1>1, <1>8
<1>10. ASSUME NEW k \in 0 .. lb
       PROVE  Sums(c)[la + k] = A[la] + B[k]
  <2>0. la + k \in 0 .. (la + lb)
    BY <1>1
  <2>1. CASE k = 0
    <3>1. la + k = la /\ B[k] = 0 /\ A[la] \in Nat
      BY <1>1, <1>3, <1>4, <2>1
    <3> QED
      BY <1>8, <2>0, <3>1
  <2>2. CASE k # 0
    <3>1. ~(la + k <= la) /\ (la + k) - la = k
      BY <1>1, <2>2
    <3> QED
      BY <1>8, <2>0, <3>1
  <2> QED
    BY <2>1, <2>2
<1>11. Total(c) = Sums(c)[la + lb] /\ Total(a) = A[la] /\ Total(b) = B[lb]
  BY <1>2 DEF Total, A, B, la, lb
<1>12. Total(c) = Total(a) + Total(b)
  BY <1>1, <1>10, <1>11
<1> QED
  BY <1>9, <1>10, <1>11, <1>12 DEF A, B, la, lb, c

\* Where nothing is added, nothing adds up.
LEMMA TotalZero ==
  ASSUME NEW a \in Seq(Nat), \A i \in DOMAIN a : a[i] = 0
  PROVE  Total(a) = 0
<1> DEFINE f == [k \in 0 .. Len(a) |-> 0]
<1>1. Len(a) \in Nat /\ DOMAIN a = 1 .. Len(a)
  BY LenProperties
<1>2. f[0] = 0 /\ \A k \in 1 .. Len(a) : f[k] = f[k - 1] + a[k]
  BY <1>1
<1>3. f[Len(a)] = 0 /\ Len(a) \in 0 .. Len(a)
  BY <1>1
<1> HIDE DEF f
<1>4. f[Len(a)] = Sums(a)[Len(a)]
  BY <1>2, <1>3, SumsUnique
<1> QED
  BY <1>3, <1>4 DEF Total

\* The total of one length.
LEMMA TotalOne ==
  ASSUME NEW x \in Nat
  PROVE  /\ <<x>> \in Seq(Nat)
         /\ Total(<<x>>) = x
         /\ Sums(<<x>>)[0] = 0
<1>1. <<x>> \in Seq(Nat) /\ Len(<<x>>) = 1 /\ <<x>>[1] = x
  OBVIOUS
<1>2. Sums(<<x>>)[0] = 0 /\ \A k \in 1 .. Len(<<x>>) : Sums(<<x>>)[k] = Sums(<<x>>)[k - 1] + <<x>>[k]
  BY <1>1, SumsFacts
<1>3. Sums(<<x>>)[1] = Sums(<<x>>)[1 - 1] + <<x>>[1]
  BY <1>1, <1>2
<1>4. Sums(<<x>>)[1] = x
  BY <1>1, <1>2, <1>3
<1> QED
  BY <1>1, <1>2, <1>4 DEF Total

\* The lengths of two sequences of PDUs, one after the other.
LEMMA LengthsConcat ==
  ASSUME NEW a \in Seq(Headers), NEW b \in Seq(Headers)
  PROVE  /\ Lengths(a) \in Seq(Nat) /\ Len(Lengths(a)) = Len(a)
         /\ UnaskedLengths(a) \in Seq(Nat) /\ Len(UnaskedLengths(a)) = Len(a)
         /\ Lengths(a \o b) = Lengths(a) \o Lengths(b)
         /\ UnaskedLengths(a \o b) = UnaskedLengths(a) \o UnaskedLengths(b)
<1> DEFINE L(p) == p.payload_len
           U(p) == IF Unasked(p) THEN p.payload_len ELSE 0
<1>1. \A p \in Headers : L(p) \in Nat /\ U(p) \in Nat
  BY DEF Headers
<1> HIDE DEF L, U
<1>2. ASSUME NEW q \in Seq(Headers)
      PROVE  /\ Lengths(q) = [i \in 1 .. Len(q) |-> L(q[i])]
             /\ UnaskedLengths(q) = [i \in 1 .. Len(q) |-> U(q[i])]
             /\ Lengths(q) \in Seq(Nat) /\ Len(Lengths(q)) = Len(q)
             /\ UnaskedLengths(q) \in Seq(Nat) /\ Len(UnaskedLengths(q)) = Len(q)
  <2>1. Len(q) \in Nat /\ DOMAIN q = 1 .. Len(q) /\ \A i \in 1 .. Len(q) : q[i] \in Headers
    BY LenProperties, ElementOfSeq
  <2>2. /\ Lengths(q) = [i \in 1 .. Len(q) |-> L(q[i])]
        /\ UnaskedLengths(q) = [i \in 1 .. Len(q) |-> U(q[i])]
    BY <2>1 DEF Lengths, UnaskedLengths, L, U
  <2>3. /\ Lengths(q) \in [1 .. Len(q) -> Nat]
        /\ UnaskedLengths(q) \in [1 .. Len(q) -> Nat]
    BY <1>1, <2>1, <2>2
  <2> QED
    BY <2>1, <2>2, <2>3, FunctionIsSeq
<1>3. /\ a \o b \in Seq(Headers) /\ Len(a \o b) = Len(a) + Len(b)
      /\ \A i \in 1 .. (Len(a) + Len(b)) : (a \o b)[i] = IF i <= Len(a) THEN a[i] ELSE b[i - Len(a)]
      /\ Len(a) \in Nat /\ Len(b) \in Nat
  BY ConcatProperties, LenProperties
<1> DEFINE c == a \o b
<1> HIDE DEF c
<1>4. /\ Lengths(c) \in Seq(Nat) /\ Len(Lengths(c)) = Len(a) + Len(b)
      /\ UnaskedLengths(c) \in Seq(Nat) /\ Len(UnaskedLengths(c)) = Len(a) + Len(b)
  BY <1>2, <1>3 DEF c
<1>5. ASSUME NEW p \in Seq(Nat), NEW q \in Seq(Nat), NEW r \in Seq(Nat),
             Len(r) = Len(p) + Len(q), Len(p) = Len(a), Len(q) = Len(b),
             \A i \in 1 .. (Len(a) + Len(b)) : r[i] = IF i <= Len(a) THEN p[i] ELSE q[i - Len(a)]
      PROVE  r = p \o q
  <2>1. /\ p \o q \in Seq(Nat) /\ Len(p \o q) = Len(p) + Len(q)
        /\ \A i \in 1 .. (Len(p) + Len(q)) : (p \o q)[i] = IF i <= Len(p) THEN p[i] ELSE q[i - Len(p)]
    BY ConcatProperties
  <2> QED
    BY <1>5, <2>1, SeqEqual
<1>6. \A i \in 1 .. (Len(a) + Len(b)) :
        /\ Lengths(c)[i] = IF i <= Len(a) THEN Lengths(a)[i] ELSE Lengths(b)[i - Len(a)]
        /\ UnaskedLengths(c)[i] = IF i <= Len(a) THEN UnaskedLengths(a)[i]
                                  ELSE UnaskedLengths(b)[i - Len(a)]
  <2> TAKE i \in 1 .. (Len(a) + Len(b))
  <2>1. Lengths(c)[i] = L(c[i]) /\ UnaskedLengths(c)[i] = U(c[i])
    BY <1>2, <1>3 DEF c
  <2>2. CASE i <= Len(a)
    <3>1. i \in 1 .. Len(a)
      BY <1>3, <2>2
    <3>2. Lengths(a)[i] = L(a[i]) /\ UnaskedLengths(a)[i] = U(a[i])
      BY <1>2, <3>1
    <3> QED
      BY <1>3, <2>1, <2>2, <3>2 DEF c
  <2>3. CASE ~(i <= Len(a))
    <3>1. i - Len(a) \in 1 .. Len(b)
      BY <1>3, <2>3
    <3>2. Lengths(b)[i - Len(a)] = L(b[i - Len(a)])
          /\ UnaskedLengths(b)[i - Len(a)] = U(b[i - Len(a)])
      BY <1>2, <3>1
    <3> QED
      BY <1>3, <2>1, <2>3, <3>2 DEF c
  <2> QED
    BY <2>2, <2>3
<1>7. Lengths(c) = Lengths(a) \o Lengths(b)
  <2> DEFINE p == Lengths(a)
             q == Lengths(b)
             r == Lengths(c)
  <2>1. /\ p \in Seq(Nat) /\ q \in Seq(Nat) /\ Len(p) = Len(a) /\ Len(q) = Len(b)
        /\ r \in Seq(Nat) /\ Len(r) = Len(p) + Len(q)
    BY <1>2, <1>4
  <2>2. \A i \in 1 .. (Len(a) + Len(b)) : r[i] = IF i <= Len(a) THEN p[i] ELSE q[i - Len(a)]
    BY <1>6
  <2> HIDE DEF p, q, r
  <2>3. r = p \o q
    BY <1>5, <2>1, <2>2
  <2> QED
    BY <2>3 DEF p, q, r
<1>8. UnaskedLengths(c) = UnaskedLengths(a) \o UnaskedLengths(b)
  <2> DEFINE p == UnaskedLengths(a)
             q == UnaskedLengths(b)
             r == UnaskedLengths(c)
  <2>1. /\ p \in Seq(Nat) /\ q \in Seq(Nat) /\ Len(p) = Len(a) /\ Len(q) = Len(b)
        /\ r \in Seq(Nat) /\ Len(r) = Len(p) + Len(q)
    BY <1>2, <1>4
  <2>2. \A i \in 1 .. (Len(a) + Len(b)) : r[i] = IF i <= Len(a) THEN p[i] ELSE q[i - Len(a)]
    BY <1>6
  <2> HIDE DEF p, q, r
  <2>3. r = p \o q
    BY <1>5, <2>1, <2>2
  <2> QED
    BY <2>3 DEF p, q, r
<1> QED
  BY <1>2, <1>7, <1>8 DEF c

\* iscsi_send_data_out cuts the bytes it is asked to send, and no others,
\* into Data-Outs that are not too long.
LEMMA DataOutFacts ==
  ASSUME NEW n \in Sessions, NEW ttt \in {"none", "r2t"}, NEW offset \in Nat,
         NEW tot \in Nat
  PROVE  LET q == iscsi_send_data_out(n, ttt, offset, tot)
         IN  /\ q \in Seq(Headers)
             /\ \A i \in 1 .. Len(q) :
                  /\ q[i].kind = "data" /\ q[i].ttt = ttt
                  /\ q[i].payload_len <= n.target_max_recv_data_segment_length
                  /\ q[i].final <=> i = Len(q)
                  /\ q[i].payload_offset = offset + Sums(Lengths(q))[i - 1]
             /\ Total(Lengths(q)) = tot
             /\ tot > 0 => Len(q) > 0
<1> DEFINE z == n.target_max_recv_data_segment_length
           k == (tot + z - 1) \div z
           q == iscsi_send_data_out(n, ttt, offset, tot)
           f == [i \in 0 .. k |-> Least(i * z, tot)]
<1>1. z \in Nat /\ z > 0
  BY TransferAssumption
<1> HIDE DEF z
<1>2. k \in Nat /\ (tot > 0 => k > 0 /\ (k - 1) * z < tot) /\ tot <= k * z
      /\ (tot = 0 => k = 0)
  BY <1>1
<1>3. q = [i \in 1 .. k |->
             [ kind |-> "data", ttt |-> ttt, datasn |-> i - 1,
               payload_offset |-> offset + (i - 1) * z,
               payload_len |-> Least(z, tot - (i - 1) * z),
               inline |-> 0, final |-> i = k ]]
  BY DEF iscsi_send_data_out, z
<1> HIDE DEF k, q
<1>4. ASSUME NEW i \in 1 .. k
      PROVE  /\ (i - 1) * z \in Nat /\ (i - 1) * z < tot
             /\ i * z = (i - 1) * z + z
             /\ i # k => i * z < tot
  <2>1. (i - 1) * z <= (k - 1) * z
    <3>1. i - 1 <= k - 1 /\ i - 1 \in Nat /\ k - 1 \in Nat
      BY <1>2
    <3> QED
      BY <1>1, <3>1
  <2>2. i * z = (i - 1) * z + z /\ (i - 1) * z \in Nat
    <3>1. i - 1 \in Nat /\ i = (i - 1) + 1
      BY <1>2
    <3> DEFINE j == i - 1
    <3>2. j \in Nat /\ i = j + 1
      BY <3>1
    <3> HIDE DEF j
    <3>3. (j + 1) * z = j * z + z /\ j * z \in Nat
      BY <1>1, <3>2
    <3>4. i * z = j * z + z /\ j * z \in Nat
      BY <3>2, <3>3
    <3> QED
      BY <3>4 DEF j
  <2>3. tot > 0 /\ (k - 1) * z < tot /\ (k - 1) * z \in Nat
    <3>1. k > 0 /\ k - 1 \in Nat
      BY <1>2
    <3> QED
      BY <1>1, <1>2, <3>1
  <2>4. i # k => i * z <= (k - 1) * z
    <3>1. SUFFICES ASSUME i # k PROVE i * z <= (k - 1) * z
      OBVIOUS
    <3>2. i <= k - 1 /\ i \in Nat /\ k - 1 \in Nat
      BY <1>2, <3>1
    <3> QED
      BY <1>1, <3>2
  <2>5. i * z \in Nat
    BY <1>1, <2>2
  <2> QED
    BY <1>1, <2>1, <2>2, <2>3, <2>4, <2>5
<1>5. ASSUME NEW i \in 1 .. k
      PROVE  [ kind |-> "data", ttt |-> ttt, datasn |-> i - 1,
               payload_offset |-> offset + (i - 1) * z,
               payload_len |-> Least(z, tot - (i - 1) * z),
               inline |-> 0, final |-> i = k ] \in Headers
  <2>1. offset + (i - 1) * z \in Nat /\ tot - (i - 1) * z \in Nat /\ i - 1 \in Nat
    <3> DEFINE y == (i - 1) * z
    <3>1. y \in Nat /\ y < tot
      BY <1>4
    <3> HIDE DEF y
    <3>2. offset + y \in Nat /\ tot - y \in Nat
      BY <3>1
    <3>3. i - 1 \in Nat
      BY <1>2
    <3> QED
      BY <3>2, <3>3 DEF y
  <2>2. Least(z, tot - (i - 1) * z) \in Nat
    BY <1>1, <2>1 DEF Least
  <2>3. (i = k) \in BOOLEAN
    OBVIOUS
  <2> QED
    BY <2>1, <2>2, <2>3 DEF Headers
<1>6. q \in [1 .. k -> Headers]
  BY <1>3, <1>5
<1>7. q \in Seq(Headers) /\ Len(q) = k
  BY <1>2, <1>6, FunctionIsSeq
<1>8. \A i \in 1 .. k :
        /\ q[i].kind = "data" /\ q[i].ttt = ttt
        /\ q[i].payload_offset = offset + (i - 1) * z
        /\ q[i].payload_len = Least(z, tot - (i - 1) * z)
        /\ q[i].final <=> i = k
  BY <1>3
<1>9. Lengths(q) \in Seq(Nat) /\ Len(Lengths(q)) = k
      /\ \A i \in 1 .. k : Lengths(q)[i] = q[i].payload_len
  <2>1. DOMAIN q = 1 .. k
    BY <1>6
  <2> QED
    BY <1>7, <2>1, LengthsConcat DEF Lengths
<1>10. f[0] = 0 /\ f[k] = tot
  <2>1. 0 * z = 0 /\ k * z \in Nat
    BY <1>1, <1>2
  <2> QED
    BY <1>2, <2>1 DEF Least
<1>11. ASSUME NEW i \in 1 .. k
       PROVE  /\ f[i - 1] = (i - 1) * z
              /\ f[i] = f[i - 1] + Lengths(q)[i]
  <2>1. i - 1 \in 0 .. k /\ i \in 0 .. k
    BY <1>2
  <2>2. f[i - 1] = Least((i - 1) * z, tot) /\ f[i] = Least(i * z, tot)
    BY <2>1
  <2>3. Lengths(q)[i] = Least(z, tot - (i - 1) * z)
    BY <1>8, <1>9
  <2> HIDE DEF f
  <2>4. f[i - 1] = (i - 1) * z
    BY <1>4, <2>2 DEF Least
  <2> DEFINE y == (i - 1) * z
  <2>5. y \in Nat /\ y < tot /\ i * z = y + z /\ f[i - 1] = y
        /\ Lengths(q)[i] = Least(z, tot - y)
    BY <1>4, <2>3, <2>4
  <2> HIDE DEF y
  <2>6. f[i] = Least(y + z, tot)
    BY <2>2, <2>5
  <2>7. f[i] = f[i - 1] + Lengths(q)[i]
    BY <1>1, <2>5, <2>6 DEF Least
  <2> QED
    BY <2>4, <2>7
<1>12. \A i \in 0 .. k : f[i] = Sums(Lengths(q))[i]
  <2>1. k \in 0 .. Len(Lengths(q))
    BY <1>2, <1>9
  <2>2. \A i \in 1 .. k : f[i] = f[i - 1] + Lengths(q)[i]
    BY <1>11
  <2> HIDE DEF f
  <2> QED
    BY <1>9, <1>10, <2>1, <2>2, SumsUnique
<1>13. Total(Lengths(q)) = tot
  <2>1. k \in 0 .. k
    BY <1>2
  <2> QED
    BY <1>9, <1>10, <1>12, <2>1 DEF Total
<1>14. ASSUME NEW i \in 1 .. k
       PROVE  q[i].payload_offset = offset + Sums(Lengths(q))[i - 1]
  <2>1. i - 1 \in 0 .. k
    BY <1>2
  <2>2. Sums(Lengths(q))[i - 1] = (i - 1) * z
    BY <1>11, <1>12, <2>1
  <2> QED
    BY <1>8, <2>2
<1>15. ASSUME NEW i \in 1 .. k
       PROVE  q[i].payload_len <= z
  <2>1. tot - (i - 1) * z \in Nat
    BY <1>4
  <2> QED
    BY <1>1, <1>8, <2>1 DEF Least
<1> QED
  BY <1>2, <1>7, <1>8, <1>13, <1>14, <1>15 DEF q, z

\* More PDUs after the last one, where the last one ended.
LEMMA TiledConcat ==
  ASSUME NEW a \in Seq(Headers), NEW b \in Seq(Headers), Tiled(a),
         \A i \in 1 .. Len(b) :
           b[i].payload_len > 0 =>
             b[i].payload_offset = Total(Lengths(a)) + Sums(Lengths(b))[i - 1]
  PROVE  /\ Tiled(a \o b)
         /\ Total(Lengths(a \o b)) = Total(Lengths(a)) + Total(Lengths(b))
<1> DEFINE c == a \o b
           A == Lengths(a)
           B == Lengths(b)
<1>1. /\ A \in Seq(Nat) /\ Len(A) = Len(a) /\ B \in Seq(Nat) /\ Len(B) = Len(b)
      /\ Lengths(c) = A \o B
  BY LengthsConcat
<1>2. /\ Len(a) \in Nat /\ Len(b) \in Nat /\ DOMAIN a = 1 .. Len(a)
      /\ DOMAIN c = 1 .. (Len(a) + Len(b))
      /\ \A i \in 1 .. (Len(a) + Len(b)) : c[i] = IF i <= Len(a) THEN a[i] ELSE b[i - Len(a)]
  BY ConcatProperties, LenProperties
<1> HIDE DEF A, B, c
<1>3. /\ \A k \in 0 .. Len(a) : Sums(A \o B)[k] = Sums(A)[k]
      /\ \A k \in 0 .. Len(b) : Sums(A \o B)[Len(a) + k] = Total(A) + Sums(B)[k]
      /\ Total(A \o B) = Total(A) + Total(B)
  <2>1. /\ \A k \in 0 .. Len(A) : Sums(A \o B)[k] = Sums(A)[k]
        /\ \A k \in 0 .. Len(B) : Sums(A \o B)[Len(A) + k] = Total(A) + Sums(B)[k]
        /\ Total(A \o B) = Total(A) + Total(B)
    BY <1>1, SumsConcat
  <2> QED
    BY <1>1, <2>1
<1>4. ASSUME NEW i \in 1 .. (Len(a) + Len(b)), c[i].payload_len > 0
      PROVE  c[i].payload_offset = Sums(A \o B)[i - 1]
  <2>1. CASE i <= Len(a)
    <3>1. i \in 1 .. Len(a) /\ i - 1 \in 0 .. Len(a)
      BY <1>2, <2>1
    <3>2. c[i] = a[i]
      BY <1>2, <2>1
    <3>3. a[i].payload_offset = Sums(A)[i - 1]
      BY <1>2, <1>4, <3>1, <3>2 DEF Tiled, A
    <3> QED
      BY <1>3, <3>1, <3>2, <3>3
  <2>2. CASE ~(i <= Len(a))
    <3> DEFINE j == i - Len(a)
    <3>1. j \in 1 .. Len(b) /\ i - 1 = Len(a) + (j - 1) /\ j - 1 \in 0 .. Len(b)
      BY <1>2, <2>2
    <3>2. c[i] = b[j]
      BY <1>2, <2>2
    <3> HIDE DEF j
    <3>3. b[j].payload_offset = Total(A) + Sums(B)[j - 1]
      BY <1>4, <3>1, <3>2 DEF A, B
    <3> QED
      BY <1>3, <3>1, <3>2, <3>3
  <2> QED
    BY <2>1, <2>2
<1>5. Tiled(c)
  BY <1>1, <1>2, <1>4 DEF Tiled
<1> QED
  BY <1>1, <1>3, <1>5 DEF c, A, B

\* PDUs the target did ask for break no limit on those it did not.
LEMMA WithinConcat ==
  ASSUME NEW n \in Sessions, NEW a \in Seq(Headers), NEW b \in Seq(Headers),
         WithinLimits(n, a),
         \A i \in 1 .. Len(b) :
           /\ ~Unasked(b[i])
           /\ b[i].kind # "command"
           /\ b[i].payload_len <= n.target_max_recv_data_segment_length
  PROVE  WithinLimits(n, a \o b)
<1> DEFINE c == a \o b
           ua == {i \in DOMAIN a : Unasked(a[i])}
           uc == {i \in DOMAIN c : Unasked(c[i])}
<1>1. /\ Len(a) \in Nat /\ Len(b) \in Nat /\ DOMAIN a = 1 .. Len(a)
      /\ DOMAIN b = 1 .. Len(b) /\ DOMAIN c = 1 .. (Len(a) + Len(b))
      /\ \A i \in 1 .. (Len(a) + Len(b)) : c[i] = IF i <= Len(a) THEN a[i] ELSE b[i - Len(a)]
  BY ConcatProperties, LenProperties
<1> HIDE DEF c
<1>2. \A i \in DOMAIN c :
        \/ i \in DOMAIN a /\ c[i] = a[i]
        \/ i \notin DOMAIN a /\ i # 1 /\ \E j \in 1 .. Len(b) : c[i] = b[j]
  <2>1. PICK h \in DOMAIN a : TRUE
    BY DEF WithinLimits
  <2>2. 1 \in DOMAIN a
    BY <1>1, <2>1
  <2> TAKE i \in DOMAIN c
  <2>3. CASE i <= Len(a)
    BY <1>1, <2>3
  <2>4. CASE ~(i <= Len(a))
    <3>1. i - Len(a) \in 1 .. Len(b) /\ c[i] = b[i - Len(a)]
      BY <1>1, <2>4
    <3> QED
      BY <1>1, <2>2, <2>4, <3>1
  <2> QED
    BY <2>3, <2>4
<1>3. \A i \in DOMAIN a : i \in DOMAIN c /\ c[i] = a[i]
  BY <1>1
<1>4. uc = ua /\ \A i \in ua : c[i] = a[i]
  BY <1>2, <1>3
<1>5. Total(UnaskedLengths(c)) = Total(UnaskedLengths(a))
  <2>1. /\ UnaskedLengths(a) \in Seq(Nat) /\ UnaskedLengths(b) \in Seq(Nat)
        /\ UnaskedLengths(c) = UnaskedLengths(a) \o UnaskedLengths(b)
    BY LengthsConcat DEF c
  <2>2. \A i \in DOMAIN UnaskedLengths(b) : UnaskedLengths(b)[i] = 0
    BY <1>1 DEF UnaskedLengths
  <2>3. Total(UnaskedLengths(b)) = 0
    BY <2>1, <2>2, TotalZero
  <2>4. Total(UnaskedLengths(c)) = Total(UnaskedLengths(a)) + 0
    BY <2>1, <2>3, SumsConcat
  <2>5. Total(UnaskedLengths(a)) \in Nat
    <3>1. Len(UnaskedLengths(a)) \in Nat
      BY <2>1, LenProperties
    <3>2. Sums(UnaskedLengths(a)) \in [0 .. Len(UnaskedLengths(a)) -> Nat]
      BY <2>1, SumsFacts
    <3> QED
      BY <3>1, <3>2 DEF Total
  <2> QED
    BY <2>4, <2>5
<1>6. \A i \in DOMAIN c :
        /\ c[i].payload_len <= n.target_max_recv_data_segment_length
        /\ c[i].kind = "command" <=> i = 1
        /\ c[i].kind = "command" => c[i].ttt = "none" /\ i \in DOMAIN a
  BY <1>2 DEF WithinLimits
<1>7. Total(UnaskedLengths(c)) <= n.first_burst_length
  BY <1>5 DEF WithinLimits
<1>8. ~n.use_immediate_data =>
        \A i \in DOMAIN c : c[i].kind = "command" => c[i].payload_len = 0
  BY <1>3, <1>6 DEF WithinLimits
<1>9. /\ n.use_initial_r2t => \A i \in uc : i = 1
      /\ \A i, j \in uc : c[i].final => j <= i
      /\ \E i \in uc : c[i].final
  BY <1>4 DEF WithinLimits
<1> QED
  BY <1>6, <1>7, <1>8, <1>9 DEF WithinLimits, c

\* The same, of a sequence that is known to be those Data-Outs.
LEMMA DataOutsAre ==
  ASSUME NEW n \in Sessions, NEW ttt \in {"none", "r2t"}, NEW offset \in Nat,
         NEW tot \in Nat, NEW z, z = n.target_max_recv_data_segment_length,
         NEW b, b = iscsi_send_data_out(n, ttt, offset, tot)
  PROVE  /\ b \in Seq(Headers)
         /\ \A i \in 1 .. Len(b) :
              /\ b[i].kind = "data" /\ b[i].ttt = ttt
              /\ b[i].payload_len <= z
              /\ b[i].final <=> i = Len(b)
              /\ b[i].payload_offset = offset + Sums(Lengths(b))[i - 1]
         /\ Total(Lengths(b)) = tot
         /\ tot > 0 => Len(b) > 0
<1>1. b \in Seq(Headers) /\ Total(Lengths(b)) = tot /\ (tot > 0 => Len(b) > 0)
  BY DataOutFacts
<1>2. ASSUME NEW i \in 1 .. Len(b)
      PROVE  /\ b[i].kind = "data" /\ b[i].ttt = ttt
             /\ b[i].payload_len <= z
             /\ b[i].final <=> i = Len(b)
             /\ b[i].payload_offset = offset + Sums(Lengths(b))[i - 1]
  <2>1. i \in DOMAIN b
    BY <1>1, <1>2
  <2> QED
    BY <1>2, <2>1, DataOutFacts
<1> QED
  BY <1>1, <1>2

\* iscsi_scsi_command_async sends no more, and nothing else, than the session
\* allows and the command has.
LEMMA CommandFacts ==
  ASSUME NEW n \in Sessions, NEW r, IsTask(r)
  PROVE  LET q == CommandPdus(n, r)
         IN  /\ q \in Seq(Headers)
             /\ Tiled(q)
             /\ Total(Lengths(q)) <= (IF r.xfer_dir = "write" THEN r.expxferlen ELSE 0)
             /\ \A i \in DOMAIN q : q[i].payload_len > 0 => r.xfer_dir = "write"
             /\ WithinLimits(n, q)
<1> DEFINE z == n.target_max_recv_data_segment_length
           first == n.first_burst_length
           write == r.xfer_dir = "write"
           burst == FirstBurst(n, r)
           len == IF write /\ n.use_immediate_data THEN Least(burst, z) ELSE 0
           more == /\ write
                   /\ ~n.use_initial_r2t
                   /\ len < r.expxferlen
                   /\ len < first
           cmd == [ kind |-> "command", ttt |-> "none", datasn |-> 0,
                    payload_offset |-> 0, payload_len |-> len, inline |-> 0,
                    final |-> ~more ]
           a == <<cmd>>
           b == IF more THEN iscsi_send_data_out(n, "none", len, burst - len)
                ELSE << >>
           q == CommandPdus(n, r)
<1>1. z \in Nat /\ z > 0 /\ first \in Nat /\ r.expxferlen \in Nat
      /\ n.use_initial_r2t \in BOOLEAN /\ n.use_immediate_data \in BOOLEAN
  BY TransferAssumption DEF IsTask
<1>2. burst = Least(r.expxferlen, first)
  BY DEF FirstBurst
<1>3. burst \in Nat /\ burst <= r.expxferlen /\ burst <= first
  BY <1>1, <1>2 DEF Least
<1>4. /\ len \in Nat /\ len <= z /\ len <= burst
      /\ ~write => len = 0
      /\ ~n.use_immediate_data => len = 0
  BY <1>1, <1>3 DEF Least
<1>5. more => len < burst /\ write /\ ~n.use_initial_r2t
  BY <1>1, <1>2 DEF Least
<1>6. q = a \o b
  BY DEF CommandPdus
<1>7. more \in BOOLEAN
  BY <1>1
<1> HIDE DEF z, first, burst, len, more, q
<1>8. cmd \in Headers
  BY <1>4, <1>7 DEF Headers
<1>9. a \in Seq(Headers) /\ Len(a) = 1 /\ a[1] = cmd
  BY <1>8
<1>10. Lengths(a) = <<len>>
  BY <1>9 DEF Lengths
<1>11. Total(Lengths(a)) = len /\ Sums(Lengths(a))[0] = 0
  BY <1>4, <1>10, TotalOne
<1>12. Tiled(a)
  <2>1. DOMAIN a = 1 .. 1 /\ a[1].payload_offset = 0 /\ 1 - 1 = 0
    OBVIOUS
  <2> HIDE DEF a
  <2> QED
    BY <1>11, <2>1 DEF Tiled
<1>13. /\ b \in Seq(Headers)
       /\ \A i \in 1 .. Len(b) :
            /\ b[i].kind = "data" /\ b[i].ttt = "none"
            /\ b[i].payload_len <= z
            /\ b[i].final <=> i = Len(b)
            /\ b[i].payload_offset = len + Sums(Lengths(b))[i - 1]
       /\ Total(Lengths(b)) = IF more THEN burst - len ELSE 0
       /\ more <=> Len(b) > 0
       /\ ~more => Len(b) = 0
  <2>1. CASE more
    <3>1. b = iscsi_send_data_out(n, "none", len, burst - len)
      BY <2>1
    <3>2. burst - len \in Nat /\ burst - len > 0
      BY <1>3, <1>4, <1>5, <2>1
    <3>4. z = n.target_max_recv_data_segment_length
      BY DEF z
    <3> HIDE DEF b
    <3>3. /\ b \in Seq(Headers)
          /\ \A i \in 1 .. Len(b) :
               /\ b[i].kind = "data" /\ b[i].ttt = "none"
               /\ b[i].payload_len <= z
               /\ b[i].final <=> i = Len(b)
               /\ b[i].payload_offset = len + Sums(Lengths(b))[i - 1]
          /\ Total(Lengths(b)) = burst - len
          /\ Len(b) > 0
      BY <1>4, <3>1, <3>2, <3>4, DataOutsAre
    <3> QED
      BY <2>1, <3>3
  <2>2. CASE ~more
    <3>1. b = << >>
      BY <2>2
    <3>2. << >> \in Seq(Headers) /\ Len(<< >>) = 0
      BY EmptySeq
    <3>3. Lengths(<< >>) = << >>
      BY DEF Lengths
    <3>4. << >> \in Seq(Nat) /\ \A i \in DOMAIN << >> : << >>[i] = 0
      OBVIOUS
    <3>5. Total(<< >>) = 0
      BY <3>4, TotalZero
    <3> HIDE DEF b
    <3> QED
      BY <2>2, <3>1, <3>2, <3>3, <3>5
  <2> QED
    BY <2>1, <2>2
<1> HIDE DEF a, b
<1>14. Tiled(q) /\ Total(Lengths(q)) = len + Total(Lengths(b))
  <2>1. \A i \in 1 .. Len(b) : b[i].payload_len > 0 =>
          b[i].payload_offset = Total(Lengths(a)) + Sums(Lengths(b))[i - 1]
    BY <1>11, <1>13
  <2> QED
    BY <1>6, <1>9, <1>11, <1>12, <1>13, <2>1, TiledConcat
<1>15. Total(Lengths(q)) = (IF more THEN burst ELSE len)
  BY <1>3, <1>4, <1>13, <1>14
<1>16. /\ q \in Seq(Headers) /\ DOMAIN q = 1 .. (1 + Len(b)) /\ Len(b) \in Nat
       /\ q[1] = cmd
       /\ \A i \in 1 .. (1 + Len(b)) : i # 1 => q[i] = b[i - 1] /\ i - 1 \in 1 .. Len(b)
  <2>1. /\ a \o b \in Seq(Headers) /\ Len(a \o b) = Len(a) + Len(b)
        /\ \A i \in 1 .. (Len(a) + Len(b)) : (a \o b)[i] = IF i <= Len(a) THEN a[i] ELSE b[i - Len(a)]
    <3>1. a \in Seq(Headers) /\ b \in Seq(Headers)
      BY <1>9, <1>13
    <3> QED
      BY <3>1, ConcatProperties
  <2>2. Len(b) \in Nat
    BY <1>13, LenProperties
  <2>3. DOMAIN q = 1 .. (1 + Len(b))
    BY <1>6, <1>9, <2>1, LenProperties
  <2> HIDE DEF cmd
  <2>4. \A i \in 1 .. (1 + Len(b)) : q[i] = IF i <= 1 THEN a[i] ELSE b[i - 1]
    BY <1>6, <1>9, <2>1
  <2> QED
    BY <1>6, <1>9, <2>1, <2>2, <2>3, <2>4
<1>17. \A i \in DOMAIN q : Unasked(q[i])
  <2> TAKE i \in DOMAIN q
  <2>1. CASE i = 1
    BY <1>16, <2>1 DEF Unasked
  <2>2. CASE i # 1
    <3>1. q[i] = b[i - 1] /\ i - 1 \in 1 .. Len(b)
      BY <1>16, <2>2
    <3> QED
      BY <1>13, <3>1 DEF Unasked
  <2> QED
    BY <2>1, <2>2
<1>18. UnaskedLengths(q) = Lengths(q)
  BY <1>17 DEF UnaskedLengths, Lengths
<1>19. Total(Lengths(q)) <= (IF r.xfer_dir = "write" THEN r.expxferlen ELSE 0)
  BY <1>1, <1>3, <1>4, <1>5, <1>15
<1>20. Total(UnaskedLengths(q)) <= first
  BY <1>1, <1>3, <1>4, <1>15, <1>18
<1>21. \A i \in DOMAIN q :
         /\ q[i].payload_len <= z
         /\ q[i].kind = "command" <=> i = 1
         /\ q[i].kind = "command" => q[i].ttt = "none"
         /\ i = 1 => q[i].payload_len = len
  <2> TAKE i \in DOMAIN q
  <2>1. CASE i = 1
    BY <1>4, <1>16, <2>1
  <2>2. CASE i # 1
    <3>1. q[i] = b[i - 1] /\ i - 1 \in 1 .. Len(b)
      BY <1>16, <2>2
    <3> QED
      BY <1>13, <2>2, <3>1
  <2> QED
    BY <2>1, <2>2
<1>22. \A i \in DOMAIN q : q[i].final <=> i = 1 + Len(b)
  <2> TAKE i \in DOMAIN q
  <2>1. CASE i = 1
    <3>1. q[i].final <=> ~more
      <4>1. cmd.final <=> ~more
        OBVIOUS
      <4>2. q[1] = cmd
        BY <1>16
      <4> HIDE DEF cmd
      <4> QED
        BY <2>1, <4>1, <4>2
    <3>2. ~more <=> i = 1 + Len(b)
      BY <1>7, <1>13, <1>16, <2>1
    <3> QED
      BY <3>1, <3>2
  <2>2. CASE i # 1
    <3>1. q[i] = b[i - 1] /\ i - 1 \in 1 .. Len(b)
      BY <1>16, <2>2
    <3> QED
      BY <1>13, <1>16, <3>1
  <2> QED
    BY <2>1, <2>2
<1>23. n.use_initial_r2t => \A i \in DOMAIN q : i = 1
  BY <1>5, <1>13, <1>16
<1>24. ~n.use_immediate_data => \A i \in DOMAIN q : q[i].kind = "command" => q[i].payload_len = 0
  BY <1>4, <1>21
<1>25. 1 + Len(b) \in DOMAIN q
  BY <1>16
<1>26. \A i, j \in DOMAIN q : q[i].final => j <= i
  BY <1>16, <1>22
<1>27. WithinLimits(n, q)
  BY <1>17, <1>20, <1>21, <1>22, <1>23, <1>24, <1>25, <1>26 DEF WithinLimits, z, first
<1>28. \A i \in DOMAIN q : q[i].payload_len > 0 => r.xfer_dir = "write"
  BY <1>4, <1>5, <1>13, <1>16, <1>21
<1> QED
  BY <1>14, <1>16, <1>19, <1>27, <1>28 DEF q

-----------------------------------------------------------------------------
(* Types *)

TypeInv == TypeOK /\ VecOK

\* A PDU that is with the target has the header it was queued with.
LEMMA FrameType ==
  ASSUME NEW p \in Headers, NEW x \in Seq(Int), NEW y \in Seq(Trailers)
  PROVE  LET m == Merged(p, [wire |-> x, trailer |-> y])
         IN  /\ m \in Frames
             /\ Header(m) = p
             /\ m.wire = x /\ m.trailer = y
             /\ m.kind = p.kind /\ m.inline = p.inline /\ m.ttt = p.ttt
             /\ m.payload_len = p.payload_len
             /\ m.payload_offset = p.payload_offset
<1> DEFINE z == [wire |-> x, trailer |-> y]
           m == Merged(p, z)
           names == {"kind", "ttt", "datasn", "payload_offset", "payload_len",
                     "inline", "final"}
<1>1. DOMAIN p = names /\ Header(p) = p
  BY DEF Headers, Header
<1>2. DOMAIN z = {"wire", "trailer"} /\ z.wire = x /\ z.trailer = y
  OBVIOUS
<1> HIDE DEF z
<1>3. DOMAIN m = DOMAIN p \union DOMAIN z
  BY MergedDomain
<1>4. \A f \in names : m[f] = p[f]
  BY <1>1, MergedLeft
<1>5. "wire" \notin DOMAIN p /\ "trailer" \notin DOMAIN p
  BY <1>1
<1>6. m.wire = x /\ m.trailer = y
  BY <1>2, <1>5, MergedRight
<1>7. m = [f \in names \union {"wire", "trailer"} |-> m[f]]
  BY <1>1, <1>2 DEF Merged
<1> HIDE DEF m
<1>8. /\ m.kind = p.kind /\ m.ttt = p.ttt /\ m.datasn = p.datasn
      /\ m.payload_offset = p.payload_offset /\ m.payload_len = p.payload_len
      /\ m.inline = p.inline /\ m.final = p.final
  BY <1>4
<1>9. Header(m) = p
  BY <1>1, <1>8 DEF Header
<1>10. m = [ kind |-> m.kind, ttt |-> m.ttt, datasn |-> m.datasn,
             payload_offset |-> m.payload_offset, payload_len |-> m.payload_len,
             inline |-> m.inline, final |-> m.final, wire |-> m.wire,
             trailer |-> m.trailer ]
  BY <1>7
<1>11. m \in Frames
  <2>1. /\ p.kind \in {"command", "data", "ping"} /\ p.ttt \in {"none", "r2t"}
        /\ p.datasn \in Nat /\ p.payload_offset \in Nat /\ p.payload_len \in Nat
        /\ p.inline \in Nat /\ p.final \in BOOLEAN
    BY DEF Headers
  <2> QED
    BY <1>6, <1>8, <1>10, <2>1 DEF Frames
<1> QED
  BY <1>6, <1>8, <1>9, <1>11 DEF m, z

\* The bytes of a DATA-IN PDU that are still to come.
LEMMA StreamFacts ==
  ASSUME incoming \in Reading, incoming.data_pos <= InSize
  PROVE  /\ InSize \in Nat
         /\ Stream \in Seq(Int)
         /\ Len(Stream) = InSize - incoming.data_pos
         /\ \A j \in 1 .. Len(Stream) :
              Stream[j] = IF incoming.data_pos + j <= incoming.len
                          THEN incoming.offset + incoming.data_pos + j - 1 ELSE Pad
<1> DEFINE len == incoming.len
           off == incoming.offset
           pos == incoming.data_pos
           a == [i \in 1 .. len |-> off + i - 1]
           b == Pads(Padding(len))
           all == a \o b
<1>1. len \in Nat /\ off \in Nat /\ pos \in Nat
  BY DEF Reading
<1> HIDE DEF len, off, pos
<1>2. Padding(len) \in Nat /\ InSize = len + Padding(len)
  BY <1>1, PaddingType DEF InSize, len
<1>3. a \in Seq(Int) /\ Len(a) = len /\ \A i \in 1 .. len : a[i] = off + i - 1
  <2>1. a \in [1 .. len -> Int]
    BY <1>1
  <2> QED
    BY <1>1, <2>1, FunctionIsSeq
<1>4. /\ b \in Seq(Int) /\ Len(b) = Padding(len)
      /\ \A i \in 1 .. Padding(len) : b[i] = Pad
  BY <1>2, PadsType
<1> HIDE DEF a, b
<1>5. /\ all \in Seq(Int) /\ Len(all) = InSize
      /\ \A i \in 1 .. InSize : all[i] = IF i <= len THEN off + i - 1 ELSE Pad
  <2>1. /\ a \o b \in Seq(Int) /\ Len(a \o b) = Len(a) + Len(b)
        /\ \A i \in 1 .. (Len(a) + Len(b)) : (a \o b)[i] = IF i <= Len(a) THEN a[i] ELSE b[i - Len(a)]
    BY <1>3, <1>4, ConcatProperties
  <2>2. Len(all) = InSize
    BY <1>2, <1>3, <1>4, <2>1
  <2>3. ASSUME NEW i \in 1 .. InSize
        PROVE  all[i] = IF i <= len THEN off + i - 1 ELSE Pad
    <3>1. CASE i <= len
      BY <1>1, <1>2, <1>3, <1>4, <2>1, <3>1
    <3>2. CASE ~(i <= len)
      <4>1. i - len \in 1 .. Padding(len)
        BY <1>1, <1>2, <3>2
      <4>2. (a \o b)[i] = b[i - len]
        BY <1>1, <1>2, <1>3, <1>4, <2>1, <3>2
      <4> QED
        BY <1>4, <3>2, <4>1, <4>2
    <3> QED
      BY <3>1, <3>2
  <2> QED
    BY <2>1, <2>2, <2>3
<1> HIDE DEF all
<1>6. Stream = SubSeq(all, pos + 1, InSize)
  BY <1>5 DEF Stream, all, a, b, len, off, pos
<1>7. InSize \in Nat /\ pos <= InSize
  BY <1>1, <1>2 DEF pos
<1>8. \A i \in (pos + 1) .. InSize : all[i] \in Int
  <2>1. Pad \in Int
    BY DEF Pad
  <2> QED
    BY <1>1, <1>5, <1>7, <2>1
<1>9. /\ SubSeq(all, pos + 1, InSize) \in Seq(Int)
      /\ Len(SubSeq(all, pos + 1, InSize)) = IF pos + 1 <= InSize THEN InSize - (pos + 1) + 1 ELSE 0
      /\ \A i \in 1 .. (InSize - (pos + 1) + 1) :
           SubSeq(all, pos + 1, InSize)[i] = all[pos + 1 + i - 1]
  <2>1. pos + 1 \in Int /\ InSize \in Int
    BY <1>1, <1>7
  <2> QED
    BY <1>8, <2>1, SubSeqProperties
<1>10. Len(Stream) = InSize - pos
  BY <1>1, <1>6, <1>7, <1>9
<1>11. ASSUME NEW j \in 1 .. (InSize - pos)
       PROVE  Stream[j] = IF pos + j <= len THEN off + pos + j - 1 ELSE Pad
  <2>1. pos + 1 + j - 1 = pos + j /\ pos + j \in 1 .. InSize
        /\ j \in 1 .. (InSize - (pos + 1) + 1)
    BY <1>1, <1>7
  <2>2. Stream[j] = all[pos + j]
    BY <1>6, <1>9, <2>1
  <2> QED
    BY <1>1, <1>5, <2>1, <2>2
<1> QED
  BY <1>6, <1>7, <1>9, <1>10, <1>11 DEF len, off, pos

\* What the next read makes of the PDU.
LEMMA TookFacts ==
  ASSUME incoming \in Reading, incoming.data_pos <= InSize,
         NEW n \in 1 .. (InSize - incoming.data_pos)
  PROVE  /\ Took(n) \in Reading
         /\ Took(n).offset = incoming.offset
         /\ Took(n).len = incoming.len
         /\ Took(n).data_pos = incoming.data_pos + n
         /\ Took(n).data = incoming.data
         /\ Took(n).data_pos <= InSize
         /\ Took(n) # None
         /\ SubSeq(Stream, 1, n) \in Seq(Int)
         /\ Len(SubSeq(Stream, 1, n)) = n
         /\ \A j \in 1 .. n : SubSeq(Stream, 1, n)[j] = Stream[j]
<1>1. /\ incoming.len \in Nat /\ incoming.offset \in Nat /\ incoming.data_pos \in Nat
      /\ incoming.data \in Seq(Int) /\ incoming.digest \in Seq(Int)
      /\ incoming.kind = "data-in"
  BY DEF Reading
<1>2. /\ InSize \in Nat /\ Stream \in Seq(Int) /\ Len(Stream) = InSize - incoming.data_pos
      /\ n \in Nat /\ n <= Len(Stream)
  BY <1>1, StreamFacts
<1>3. \A i \in 1 .. n : Stream[i] \in Int
  BY <1>2, ElementOfSeq
<1>4. /\ SubSeq(Stream, 1, n) \in Seq(Int)
      /\ Len(SubSeq(Stream, 1, n)) = n
      /\ \A j \in 1 .. n : SubSeq(Stream, 1, n)[j] = Stream[j]
  <2>1. /\ SubSeq(Stream, 1, n) \in Seq(Int)
        /\ Len(SubSeq(Stream, 1, n)) = IF 1 <= n THEN n - 1 + 1 ELSE 0
        /\ \A i \in 1 .. (n - 1 + 1) : SubSeq(Stream, 1, n)[i] = Stream[1 + i - 1]
    BY <1>2, <1>3, SubSeqProperties
  <2> QED
    BY <1>2, <2>1
<1> DEFINE part == SubSeq(Stream, 1, n)
           d == IF s.data_digest THEN incoming.digest \o part ELSE incoming.digest
<1>5. d \in Seq(Int)
  <2>1. incoming.digest \o part \in Seq(Int)
    BY <1>1, <1>4, ConcatProperties
  <2> QED
    BY <1>1, <2>1
<1>6. Took(n) = [incoming EXCEPT !.data_pos = @ + n, !.digest = d]
  BY DEF Took
<1> HIDE DEF d, part
<1>7. Took(n) = [ kind |-> "data-in", offset |-> incoming.offset, len |-> incoming.len,
                  data_pos |-> incoming.data_pos + n, data |-> incoming.data,
                  digest |-> d ]
  BY <1>6 DEF Reading
<1>8. incoming.data_pos + n \in Nat /\ incoming.data_pos + n <= InSize
  BY SMTT(20), <1>1, <1>2
<1> HIDE DEF Took
<1>9. Took(n) \in Reading /\ Took(n).kind # None.kind
  BY <1>1, <1>5, <1>7, <1>8 DEF Reading, None
<1>10. Took(n) # None
  BY <1>9
<1> QED
  BY <1>4, <1>7, <1>8, <1>9, <1>10 DEF part

LEMMA NoneIsNoRecord ==
  /\ \A c \in Writing : c # None
  /\ \A c \in Reading : c # None
<1>1. ASSUME NEW c \in Writing PROVE c # None
  <2>1. c.kind = "writing" /\ None.kind = "none"
    BY DEF Writing, None
  <2> QED
    BY <2>1
<1>2. ASSUME NEW c \in Reading PROVE c # None
  <2>1. c.kind = "data-in" /\ None.kind = "none"
    BY DEF Reading, None
  <2> QED
    BY <2>1
<1> QED
  BY <1>1, <1>2

\* Nothing is queued and nothing consumed before the call.
LEMMA TypeInit == Init => TypeInv
<1> SUFFICES ASSUME Init PROVE TypeInv
  OBVIOUS
<1>1. /\ << >> \in Seq(Headers) /\ << >> \in Seq(Frames) /\ << >> \in Seq(Int)
  BY EmptySeq
<1>2. TypeOK
  BY <1>1 DEF Init, TypeOK, Rewound
<1>3. VecOK
  BY DEF Init, VecOK
<1> QED
  BY <1>2, <1>3 DEF TypeInv

\* An iovector that starts again fits.
LEMMA RewoundFits ==
  ASSUME NEW iov \in Seq(Nat), NEW v
  PROVE  Fits(iov, Rewound(v))
<1>1. Len(iov) \in Nat /\ Sums(iov)[0] = 0
  BY LenProperties, SumsFacts
<1> QED
  BY <1>1 DEF Fits, Rewound

LEMMA TypeCommand == TypeInv /\ Command => TypeInv'
<1> SUFFICES ASSUME TypeInv, Command PROVE TypeInv'
  OBVIOUS
<1>1. PICK c \in Calls :
        /\ Request(c) # NULL
        /\ req' = Request(c)
        /\ outq' = CommandPdus(s, Request(c))
  BY DEF Command
<1> DEFINE r == Request(c)
<1>2. IsTask(r)
  BY <1>1, RequestType
<1> HIDE DEF r
<1>3. /\ outq' \in Seq(Headers)
      /\ \A i \in DOMAIN outq' : outq'[i].payload_len > 0 => r.xfer_dir = "write"
  BY <1>1, <1>2, CommandFacts DEF TypeInv, TypeOK, r
<1>4. /\ status = "idle" /\ status' = "active" /\ req' = r
      /\ UNCHANGED <<s, vec, cur, got, incoming, indata, answered, pings, reconnects>>
  BY <1>1 DEF Command, r
<1>5. TypeOK'
  BY <1>2, <1>3, <1>4 DEF TypeInv, TypeOK
<1>6. vec = Rewound(vec) /\ cur = None /\ incoming = None
  BY <1>4 DEF TypeInv, TypeOK
<1>7. Fits(r.iov_in, vec) /\ Fits(r.iov_out, vec)
  BY <1>2, <1>6, RewoundFits DEF IsTask
<1>8. \A k \in DOMAIN mem' : k \in Int
  BY DEF Command
<1>9. VecOK'
  BY <1>3, <1>4, <1>6, <1>7, <1>8 DEF VecOK
<1> QED
  BY <1>5, <1>9 DEF TypeInv

LEMMA TypePing ==
  ASSUME TypeInv, NEW len \in Pings, Ping(len)
  PROVE  TypeInv'
<1> DEFINE p == [ kind |-> "ping", ttt |-> "none", datasn |-> 0,
                  payload_offset |-> 0, payload_len |-> 0,
                  inline |-> len, final |-> TRUE ]
<1>1. len \in Nat
  BY TransferAssumption
<1>2. p \in Headers /\ p.payload_len = 0
  BY <1>1 DEF Headers
<1>3. /\ status = "active" /\ outq' = Append(outq, p)
      /\ UNCHANGED <<s, req, status, vec, cur, got, incoming, indata, mem, answered,
                     reconnects>>
  BY DEF Ping
<1> HIDE DEF p
<1>4. /\ outq \in Seq(Headers)
      /\ \A i \in DOMAIN outq : outq[i].payload_len > 0 => req.xfer_dir = "write"
  BY <1>3 DEF TypeInv, TypeOK, VecOK
<1>5. /\ outq' \in Seq(Headers)
      /\ Len(outq') = Len(outq) + 1
      /\ \A i \in 1 .. Len(outq) : outq'[i] = outq[i]
      /\ outq'[Len(outq) + 1] = p
  BY <1>2, <1>3, <1>4, AppendProperties
<1>6. DOMAIN outq' = 1 .. (Len(outq) + 1) /\ DOMAIN outq = 1 .. Len(outq)
      /\ Len(outq) \in Nat
  BY <1>4, <1>5, LenProperties
<1>7. \A i \in DOMAIN outq' : outq'[i].payload_len > 0 => req.xfer_dir = "write"
  BY <1>2, <1>4, <1>5, <1>6
<1>8. TypeOK'
  BY <1>3, <1>5 DEF TypeInv, TypeOK, InSize
<1>9. VecOK'
  BY <1>3, <1>7 DEF TypeInv, VecOK
<1> QED
  BY <1>8, <1>9 DEF TypeInv

\* The head of the queue becomes the current PDU, and its inline data is on
\* the wire.
LEMMA HeaderFacts ==
  ASSUME TypeInv, WriteHeader
  PROVE  /\ Head(outq) \in Headers
         /\ Head(outq) = outq[1] /\ 1 \in DOMAIN outq
         /\ cur' \in Writing
         /\ cur'.pdu = Head(outq)
         /\ cur'.payload_written = 0
         /\ cur'.wire = Frame(Head(outq), 0)
         /\ cur'.digest = IF s.data_digest THEN cur'.wire ELSE << >>
         /\ cur'.trailer = << >>
<1> DEFINE p == Head(outq)
           a == [i \in 1 .. p.inline |-> i - 1]
           b == Pads(Padding(p.inline))
           inline == a \o b
<1>1. outq \in Seq(Headers) /\ outq # << >>
  BY DEF WriteHeader, TypeInv, TypeOK
<1>2. p \in Headers /\ p = outq[1] /\ 1 \in DOMAIN outq
  BY <1>1, HeadTailProperties, EmptySeq, LenProperties
<1>3. cur' = [ kind |-> "writing", pdu |-> p, payload_written |-> 0,
               digest |-> IF s.data_digest THEN inline ELSE << >>,
               wire |-> inline, trailer |-> << >> ]
  BY DEF WriteHeader
<1> HIDE DEF p
<1>4. p.inline \in Nat
  BY <1>2 DEF Headers
<1>5. Padding(p.inline) \in Nat /\ (p.inline = 0 => Padding(p.inline) = 0)
  BY <1>4, PaddingType
<1>6. a \in Seq(Int) /\ Len(a) = p.inline /\ \A i \in 1 .. p.inline : a[i] = i - 1
  <2>1. a \in [1 .. p.inline -> Int]
    BY <1>4
  <2> QED
    BY <1>4, <2>1, FunctionIsSeq
<1>7. /\ b \in Seq(Int) /\ Len(b) = Padding(p.inline)
      /\ \A i \in 1 .. Padding(p.inline) : b[i] = Pad
  BY <1>5, PadsType
<1> HIDE DEF a, b
<1>8. /\ inline \in Seq(Int) /\ Len(inline) = p.inline + Padding(p.inline)
      /\ \A i \in 1 .. (p.inline + Padding(p.inline)) :
           inline[i] = IF i <= p.inline THEN i - 1 ELSE Pad
  <2>1. /\ a \o b \in Seq(Int) /\ Len(a \o b) = Len(a) + Len(b)
        /\ \A i \in 1 .. (Len(a) + Len(b)) : (a \o b)[i] = IF i <= Len(a) THEN a[i] ELSE b[i - Len(a)]
    BY <1>6, <1>7, ConcatProperties
  <2>2. ASSUME NEW i \in 1 .. (p.inline + Padding(p.inline))
        PROVE  (a \o b)[i] = IF i <= p.inline THEN i - 1 ELSE Pad
    <3>1. CASE i <= p.inline
      BY <1>4, <1>5, <1>6, <1>7, <2>1, <3>1
    <3>2. CASE ~(i <= p.inline)
      <4>1. i - p.inline \in 1 .. Padding(p.inline)
        BY <1>4, <1>5, <3>2
      <4>2. (a \o b)[i] = b[i - p.inline]
        BY <1>6, <1>7, <2>1, <3>2
      <4> QED
        BY <1>7, <3>2, <4>1, <4>2
    <3> QED
      BY <3>1, <3>2
  <2> QED
    BY <1>6, <1>7, <2>1, <2>2
<1> HIDE DEF inline
<1>9. inline = Frame(p, 0)
  <2>1. DOMAIN inline = 1 .. (p.inline + Padding(p.inline))
        /\ inline = [i \in DOMAIN inline |-> inline[i]]
    BY <1>8, LenProperties
  <2>2. inline = [k \in 1 .. (p.inline + Padding(p.inline)) |->
                    IF k <= p.inline THEN k - 1 ELSE Pad]
    BY <1>8, <2>1
  <2>3. CASE p.inline > 0
    BY <2>2, <2>3 DEF Frame
  <2>4. CASE p.inline = 0
    <3>1. 1 .. (p.inline + Padding(p.inline)) = {} /\ 1 .. 0 = {} /\ ~(p.inline > 0)
      BY <1>5, <2>4
    <3>2. inline = << >>
      BY <1>5, <1>8, <2>4, EmptySeq
    <3>3. Frame(p, 0) = << >>
      BY <3>1 DEF Frame
    <3> QED
      BY <3>2, <3>3
  <2> QED
    BY <1>4, <2>3, <2>4
<1>10. << >> \in Seq(Int) /\ << >> \in Seq(Trailers)
  BY EmptySeq
<1>11. cur' \in Writing
  BY <1>2, <1>3, <1>8, <1>10 DEF Writing
<1> QED
  BY <1>2, <1>3, <1>9, <1>11 DEF p

LEMMA TypeWriteHeader == TypeInv /\ WriteHeader => TypeInv'
<1> SUFFICES ASSUME TypeInv, WriteHeader PROVE TypeInv'
  OBVIOUS
<1>1. /\ status = "active" /\ cur = None /\ outq # << >> /\ outq' = Tail(outq)
      /\ UNCHANGED <<s, req, status, vec, got, incoming, indata, mem, answered,
                     pings, reconnects>>
  BY DEF WriteHeader
<1>2. outq \in Seq(Headers)
  BY DEF TypeInv, TypeOK
<1>3. /\ outq' \in Seq(Headers) /\ Len(outq') = Len(outq) - 1
      /\ \A i \in 1 .. Len(outq') : outq'[i] = outq[i + 1]
  BY <1>1, <1>2, HeadTailProperties
<1>4. DOMAIN outq = 1 .. Len(outq) /\ DOMAIN outq' = 1 .. Len(outq') /\ Len(outq) \in Nat
  BY <1>2, <1>3, LenProperties
<1>5. \A i \in DOMAIN outq : outq[i].payload_len > 0 => req.xfer_dir = "write"
  BY <1>1 DEF TypeInv, VecOK
<1>6. \A i \in DOMAIN outq' : outq'[i].payload_len > 0 => req.xfer_dir = "write"
  <2> TAKE i \in DOMAIN outq'
  <2>1. i + 1 \in DOMAIN outq /\ outq'[i] = outq[i + 1]
    BY <1>3, <1>4
  <2> QED
    BY <1>5, <2>1
<1>7. cur' \in Writing /\ (cur'.pdu.payload_len > 0 => req.xfer_dir = "write")
  BY <1>5, HeaderFacts
<1>8. TypeOK'
  BY <1>1, <1>3, <1>7 DEF TypeInv, TypeOK, InSize
<1>9. VecOK'
  BY <1>1, <1>6, <1>7 DEF TypeInv, VecOK
<1> QED
  BY <1>8, <1>9 DEF TypeInv

\* The socket takes n of the bytes it was given.
LEMMA WroteFacts ==
  ASSUME cur \in Writing, s.data_digest \in BOOLEAN, NEW bytes \in Seq(Int),
         NEW n \in 1 .. Len(bytes), NEW v, Wrote(bytes, n, v)
  PROVE  /\ cur' \in Writing
         /\ cur'.pdu = cur.pdu
         /\ cur'.payload_written = cur.payload_written + n
         /\ cur'.wire = cur.wire \o SubSeq(bytes, 1, n)
         /\ cur'.digest = IF s.data_digest THEN cur.digest \o SubSeq(bytes, 1, n)
                          ELSE cur.digest
         /\ cur'.trailer = cur.trailer
         /\ SubSeq(bytes, 1, n) \in Seq(Int)
         /\ Len(SubSeq(bytes, 1, n)) = n
         /\ \A j \in 1 .. n : SubSeq(bytes, 1, n)[j] = bytes[j]
<1>1. /\ cur.pdu \in Headers /\ cur.payload_written \in Nat /\ cur.digest \in Seq(Int)
      /\ cur.wire \in Seq(Int) /\ cur.trailer \in Seq(Trailers)
      /\ cur.kind = "writing"
  BY DEF Writing
<1>2. Len(bytes) \in Nat /\ n \in Nat /\ n <= Len(bytes) /\ \A i \in 1 .. n : bytes[i] \in Int
  BY LenProperties, ElementOfSeq
<1> DEFINE part == SubSeq(bytes, 1, n)
<1>3. /\ part \in Seq(Int) /\ Len(part) = n
      /\ \A j \in 1 .. n : part[j] = bytes[j]
  <2>1. /\ SubSeq(bytes, 1, n) \in Seq(Int)
        /\ Len(SubSeq(bytes, 1, n)) = IF 1 <= n THEN n - 1 + 1 ELSE 0
        /\ \A i \in 1 .. (n - 1 + 1) : SubSeq(bytes, 1, n)[i] = bytes[1 + i - 1]
    BY <1>2, SubSeqProperties
  <2> QED
    BY <1>2, <2>1
<1> DEFINE w == cur.wire \o part
           d == IF s.data_digest THEN cur.digest \o part ELSE cur.digest
<1>4. w \in Seq(Int) /\ d \in Seq(Int)
  <2>1. cur.wire \o part \in Seq(Int) /\ cur.digest \o part \in Seq(Int)
    BY <1>1, <1>3, ConcatProperties
  <2> QED
    BY <1>1, <2>1
<1>5. cur' = [cur EXCEPT !.payload_written = @ + n, !.wire = w, !.digest = d]
  BY DEF Wrote
<1> HIDE DEF w, d, part
<1>6. cur' = [ kind |-> "writing", pdu |-> cur.pdu,
               payload_written |-> cur.payload_written + n, digest |-> d,
               wire |-> w, trailer |-> cur.trailer ]
  BY <1>5 DEF Writing
<1>7. cur.payload_written + n \in Nat
  BY <1>1, <1>2
<1>8. cur' \in Writing
  BY <1>1, <1>4, <1>6, <1>7 DEF Writing
<1> QED
  BY <1>3, <1>6, <1>8 DEF w, d, part

\* WritePayload writes the bytes of the buffers at the position it has
\* reached, or fails.
LEMMA PayloadFacts ==
  ASSUME TypeInv, WritePayload
  PROVE  LET pos == cur.pdu.payload_offset + cur.payload_written
             count == cur.pdu.payload_len - cur.payload_written
             bytes == [i \in 1 .. count |-> pos + i - 1]
         IN  /\ pos \in Nat /\ count \in Nat
             /\ bytes \in Seq(Int) /\ Len(bytes) = count
             /\ req.xfer_dir = "write"
             /\ Fits(req.iov_out, vec')
             /\ \/ \E n \in 1 .. count : Wrote(bytes, n, vec')
                \/ /\ status' = "failed"
                   /\ UNCHANGED <<s, req, outq, cur, got, incoming, indata, mem,
                                  answered, pings, reconnects>>
<1> DEFINE pos == cur.pdu.payload_offset + cur.payload_written
           count == cur.pdu.payload_len - cur.payload_written
           bytes == [i \in 1 .. count |-> pos + i - 1]
           w == iscsi_iovector_readv_writev(req.iov_out, vec, pos, count)
<1>1. cur # None /\ status = "active" /\ cur.payload_written < cur.pdu.payload_len
  BY DEF WritePayload
<1>2. cur \in Writing /\ IsTask(req)
  BY <1>1 DEF TypeInv, TypeOK
<1>3. /\ cur.pdu.payload_offset \in Nat /\ cur.pdu.payload_len \in Nat
      /\ cur.payload_written \in Nat
  BY <1>2 DEF Writing, Headers
<1>4. pos \in Nat /\ count \in Nat /\ cur.pdu.payload_len > 0
  BY <1>1, <1>3
<1>5. req.xfer_dir = "write" /\ req.iov_out \in Seq(Nat) /\ Fits(req.iov_out, vec)
  BY <1>1, <1>2, <1>4 DEF TypeInv, VecOK, IsTask
<1>6. \/ w.ok /\ \E n \in 1 .. Len(w.bytes) : Wrote(w.bytes, n, w.vec)
      \/ /\ ~w.ok /\ status' = "failed" /\ vec' = w.vec
         /\ UNCHANGED <<s, req, outq, cur, got, incoming, indata, mem,
                        answered, pings, reconnects>>
  BY DEF WritePayload
<1> HIDE DEF pos, count, w
<1>7. bytes \in Seq(Int) /\ Len(bytes) = count
  <2>1. bytes \in [1 .. count -> Int]
    BY <1>4
  <2> QED
    BY <1>4, <2>1, FunctionIsSeq
<1>8. Fits(req.iov_out, w.vec) /\ (w.ok => w.bytes = bytes)
  BY <1>4, <1>5, IovFinds DEF w
<1>9. vec' = w.vec
  BY <1>6 DEF Wrote
<1>10. \/ \E n \in 1 .. count : Wrote(bytes, n, vec')
       \/ /\ status' = "failed"
          /\ UNCHANGED <<s, req, outq, cur, got, incoming, indata, mem,
                         answered, pings, reconnects>>
  <2> HIDE DEF bytes
  <2>1. CASE w.ok
    <3>1. PICK n \in 1 .. Len(w.bytes) : Wrote(w.bytes, n, w.vec)
      BY <1>6, <2>1
    <3>2. w.bytes = bytes
      BY <1>8, <2>1
    <3>3. n \in 1 .. count /\ Wrote(bytes, n, vec')
      BY <1>7, <1>9, <3>1, <3>2
    <3> QED
      BY <3>3
  <2>2. CASE ~w.ok
    BY <1>6, <2>2
  <2> QED
    BY <2>1, <2>2
<1>11. Fits(req.iov_out, vec')
  BY <1>8, <1>9
<1> QED
  BY <1>4, <1>5, <1>7, <1>10, <1>11 DEF pos, count

LEMMA TypeWritePayload == TypeInv /\ WritePayload => TypeInv'
<1> SUFFICES ASSUME TypeInv, WritePayload PROVE TypeInv'
  OBVIOUS
<1> DEFINE pos == cur.pdu.payload_offset + cur.payload_written
           count == cur.pdu.payload_len - cur.payload_written
           bytes == [i \in 1 .. count |-> pos + i - 1]
<1>1. /\ bytes \in Seq(Int) /\ Len(bytes) = count
      /\ req.xfer_dir = "write"
      /\ Fits(req.iov_out, vec')
      /\ \/ \E n \in 1 .. count : Wrote(bytes, n, vec')
         \/ /\ status' = "failed"
            /\ UNCHANGED <<s, req, outq, cur, got, incoming, indata, mem,
                           answered, pings, reconnects>>
  BY PayloadFacts
<1> HIDE DEF bytes
<1>2. cur # None /\ status = "active" /\ cur \in Writing /\ s \in Sessions
  BY DEF WritePayload, TypeInv, TypeOK
<1>3. s.data_digest \in BOOLEAN /\ vec' \in [offset : Nat, consumed : Nat]
  BY <1>1, <1>2, TransferAssumption DEF Fits
<1>4. ASSUME NEW n \in 1 .. count, Wrote(bytes, n, vec')
      PROVE  TypeInv'
  <2>1. cur' \in Writing /\ cur'.pdu = cur.pdu
    BY <1>1, <1>2, <1>3, <1>4, WroteFacts
  <2>2. UNCHANGED <<s, req, status, outq, got, incoming, indata, mem, answered,
                    pings, reconnects>>
    BY <1>4 DEF Wrote
  <2>3. TypeOK'
    BY <1>2, <1>3, <2>1, <2>2 DEF TypeInv, TypeOK, InSize
  <2>4. VecOK'
    BY <1>1, <1>2, <2>1, <2>2 DEF TypeInv, VecOK
  <2> QED
    BY <2>3, <2>4 DEF TypeInv
<1>5. ASSUME status' = "failed",
             UNCHANGED <<s, req, outq, cur, got, incoming, indata, mem,
                         answered, pings, reconnects>>
      PROVE  TypeInv'
  <2>1. TypeOK'
    BY <1>2, <1>3, <1>5 DEF TypeInv, TypeOK, InSize
  <2>2. VecOK'
    BY <1>1, <1>2, <1>5 DEF TypeInv, VecOK
  <2> QED
    BY <2>1, <2>2 DEF TypeInv
<1> QED
  BY <1>1, <1>4, <1>5

LEMMA PaddedType ==
  ASSUME NEW p \in Headers
  PROVE  /\ Padded(p) \in Nat /\ p.payload_len \in Nat /\ p.payload_len <= Padded(p)
         /\ p.payload_len = 0 => Padded(p) = 0
<1>1. p.payload_len \in Nat
  BY DEF Headers
<1>2. Padding(p.payload_len) \in 0 .. 3
      /\ (p.payload_len = 0 => Padding(p.payload_len) = 0)
  BY <1>1, PaddingType
<1> QED
  BY <1>1, <1>2 DEF Padded

\* WritePadding writes zeros up to the next multiple of four.
LEMMA PaddingFacts ==
  ASSUME TypeInv, WritePadding
  PROVE  LET left == Padded(cur.pdu) - cur.payload_written
         IN  /\ left \in Nat /\ Pads(left) \in Seq(Int) /\ Len(Pads(left)) = left
             /\ cur.payload_written >= cur.pdu.payload_len
             /\ cur \in Writing
             /\ \E n \in 1 .. left : Wrote(Pads(left), n, vec)
<1>1. cur \in Writing
  BY DEF WritePadding, TypeInv, TypeOK
<1>2. cur.pdu \in Headers /\ cur.payload_written \in Nat
  BY <1>1 DEF Writing
<1>3. Padded(cur.pdu) \in Nat /\ cur.pdu.payload_len \in Nat
  BY <1>2, PaddedType
<1> DEFINE left == Padded(cur.pdu) - cur.payload_written
<1>4. left \in Nat /\ cur.payload_written >= cur.pdu.payload_len
      /\ \E n \in 1 .. left : Wrote(Pads(left), n, vec)
  BY <1>2, <1>3 DEF WritePadding
<1> HIDE DEF left
<1>5. Pads(left) \in Seq(Int) /\ Len(Pads(left)) = left
  BY <1>4, PadsType
<1> QED
  BY <1>1, <1>4, <1>5 DEF left

LEMMA TypeWritePadding == TypeInv /\ WritePadding => TypeInv'
<1> SUFFICES ASSUME TypeInv, WritePadding PROVE TypeInv'
  OBVIOUS
<1> DEFINE left == Padded(cur.pdu) - cur.payload_written
           bytes == Pads(left)
<1>1. bytes \in Seq(Int) /\ Len(bytes) = left /\ cur \in Writing
  BY PaddingFacts
<1>2. PICK n \in 1 .. left : Wrote(bytes, n, vec)
  BY PaddingFacts
<1> HIDE DEF bytes, left
<1>3. s.data_digest \in BOOLEAN /\ cur # None
  BY TransferAssumption DEF TypeInv, TypeOK, WritePadding
<1>4. cur' \in Writing /\ cur'.pdu = cur.pdu
  BY <1>1, <1>2, <1>3, WroteFacts
<1>5. UNCHANGED <<s, req, status, vec, outq, got, incoming, indata, mem, answered,
                  pings, reconnects>>
  BY <1>2 DEF Wrote
<1>6. status = "active"
  BY DEF WritePadding
<1>7. TypeOK'
  BY <1>4, <1>5, <1>6 DEF TypeInv, TypeOK, InSize
<1>8. VecOK'
  BY <1>3, <1>4, <1>5 DEF TypeInv, VecOK
<1> QED
  BY <1>7, <1>8 DEF TypeInv

\* WriteDigest writes the next bytes of the digest.
LEMMA DigestFacts ==
  ASSUME TypeInv, WriteDigest
  PROVE  LET left == Padded(cur.pdu) + 4 - cur.payload_written
         IN  /\ cur \in Writing /\ cur' \in Writing
             /\ left \in 1 .. 4 /\ HasDigest
             /\ \E n \in 1 .. left :
                  LET piece == [i \in 1 .. n |-> [of |-> cur.digest, byte |-> 4 - left + i]]
                  IN  /\ piece \in Seq(Trailers) /\ Len(piece) = n
                      /\ cur'.pdu = cur.pdu
                      /\ cur'.payload_written = cur.payload_written + n
                      /\ cur'.wire = cur.wire
                      /\ cur'.digest = cur.digest
                      /\ cur'.trailer = cur.trailer \o piece
<1> DEFINE left == Padded(cur.pdu) + 4 - cur.payload_written
<1>1. cur \in Writing
  BY DEF WriteDigest, TypeInv, TypeOK
<1>2. /\ cur.pdu \in Headers /\ cur.payload_written \in Nat /\ cur.digest \in Seq(Int)
      /\ cur.wire \in Seq(Int) /\ cur.trailer \in Seq(Trailers) /\ cur.kind = "writing"
  BY <1>1 DEF Writing
<1>3. Padded(cur.pdu) \in Nat
  BY <1>2, PaddedType
<1>4. left \in 1 .. 4 /\ HasDigest
  BY SMTT(20), <1>2, <1>3 DEF WriteDigest
<1>5. PICK n \in 1 .. left :
        cur' = [cur EXCEPT
                  !.payload_written = @ + n,
                  !.trailer = @ \o [i \in 1 .. n |->
                                      [of |-> cur.digest, byte |-> 4 - left + i]]]
  BY DEF WriteDigest
<1> HIDE DEF left
<1> DEFINE piece == [i \in 1 .. n |-> [of |-> cur.digest, byte |-> 4 - left + i]]
<1>6. piece \in Seq(Trailers) /\ Len(piece) = n
  <2>1. \A i \in 1 .. n : 4 - left + i \in Nat
    BY <1>4
  <2>2. piece \in [1 .. n -> Trailers]
    BY <1>2, <2>1 DEF Trailers
  <2>3. n \in Nat
    BY <1>4
  <2> QED
    BY <2>2, <2>3, FunctionIsSeq
<1>7. cur' = [cur EXCEPT !.payload_written = @ + n, !.trailer = @ \o piece]
  BY <1>5
<1> HIDE DEF piece
<1>8. cur.trailer \o piece \in Seq(Trailers)
  BY <1>2, <1>6, ConcatProperties
<1>9. cur' = [ kind |-> "writing", pdu |-> cur.pdu,
               payload_written |-> cur.payload_written + n,
               digest |-> cur.digest, wire |-> cur.wire,
               trailer |-> cur.trailer \o piece ]
  BY <1>7, <1>1 DEF Writing
<1>10. cur.payload_written + n \in Nat
  BY <1>2, <1>4
<1>11. cur' \in Writing
  BY <1>2, <1>8, <1>9, <1>10 DEF Writing
<1>12. /\ cur'.pdu = cur.pdu
       /\ cur'.payload_written = cur.payload_written + n
       /\ cur'.wire = cur.wire
       /\ cur'.digest = cur.digest
       /\ cur'.trailer = cur.trailer \o piece
  BY <1>9
<1> QED
  BY <1>1, <1>4, <1>6, <1>11, <1>12 DEF left, piece

LEMMA TypeWriteDigest == TypeInv /\ WriteDigest => TypeInv'
<1> SUFFICES ASSUME TypeInv, WriteDigest PROVE TypeInv'
  OBVIOUS
<1>1. cur' \in Writing /\ cur'.pdu = cur.pdu
  BY DigestFacts
<1>2. /\ cur # None /\ status = "active"
      /\ UNCHANGED <<s, req, status, vec, outq, got, incoming, indata, mem,
                     answered, pings, reconnects>>
  BY DEF WriteDigest
<1>3. TypeOK'
  BY <1>1, <1>2 DEF TypeInv, TypeOK, InSize
<1>4. VecOK'
  BY <1>1, <1>2 DEF TypeInv, VecOK
<1> QED
  BY <1>3, <1>4 DEF TypeInv

\* The PDU that was written is the last one the target got.
LEMMA DoneFacts ==
  ASSUME TypeInv, WriteDone
  PROVE  LET m == Merged(cur.pdu, [wire |-> cur.wire, trailer |-> cur.trailer])
         IN  /\ cur \in Writing
             /\ m \in Frames
             /\ Header(m) = cur.pdu
             /\ m.wire = cur.wire /\ m.trailer = cur.trailer
             /\ m.kind = cur.pdu.kind /\ m.inline = cur.pdu.inline
             /\ m.payload_len = cur.pdu.payload_len
             /\ m.payload_offset = cur.pdu.payload_offset
             /\ got' = Append(got, m) /\ got' \in Seq(Frames)
             /\ Len(got') = Len(got) + 1
             /\ DOMAIN got = 1 .. Len(got) /\ DOMAIN got' = 1 .. (Len(got) + 1)
             /\ Len(got) \in Nat
             /\ \A i \in 1 .. Len(got) : got'[i] = got[i]
             /\ got'[Len(got) + 1] = m
<1> DEFINE m == Merged(cur.pdu, [wire |-> cur.wire, trailer |-> cur.trailer])
<1>1. cur \in Writing /\ got \in Seq(Frames)
  BY DEF WriteDone, TypeInv, TypeOK
<1>2. cur.pdu \in Headers /\ cur.wire \in Seq(Int) /\ cur.trailer \in Seq(Trailers)
  BY <1>1 DEF Writing
<1>3. /\ m \in Frames
      /\ Header(m) = cur.pdu
      /\ m.wire = cur.wire /\ m.trailer = cur.trailer
      /\ m.kind = cur.pdu.kind /\ m.inline = cur.pdu.inline
      /\ m.payload_len = cur.pdu.payload_len
      /\ m.payload_offset = cur.pdu.payload_offset
  BY <1>2, FrameType
<1>4. got' = Append(got, m)
  BY DEF WriteDone
<1> HIDE DEF m
<1>5. /\ got' \in Seq(Frames) /\ Len(got') = Len(got) + 1
      /\ \A i \in 1 .. Len(got) : got'[i] = got[i]
      /\ got'[Len(got) + 1] = m
  BY <1>1, <1>3, <1>4, AppendProperties
<1>6. DOMAIN got = 1 .. Len(got) /\ DOMAIN got' = 1 .. (Len(got) + 1) /\ Len(got) \in Nat
  BY <1>1, <1>5, LenProperties
<1> QED
  BY <1>1, <1>3, <1>4, <1>5, <1>6 DEF m

LEMMA TypeWriteDone == TypeInv /\ WriteDone => TypeInv'
<1> SUFFICES ASSUME TypeInv, WriteDone PROVE TypeInv'
  OBVIOUS
<1>1. got' \in Seq(Frames)
  BY DoneFacts
<1>2. /\ cur # None /\ status = "active" /\ cur' = None
      /\ UNCHANGED <<s, req, status, vec, outq, incoming, indata, mem, answered,
                     pings, reconnects>>
  BY DEF WriteDone
<1>3. TypeOK'
  BY <1>1, <1>2 DEF TypeInv, TypeOK, InSize
<1>4. VecOK'
  BY <1>1, <1>2 DEF TypeInv, VecOK
<1> QED
  BY <1>3, <1>4 DEF TypeInv

LEMMA ReceivedType ==
  ASSUME TypeInv
  PROVE  /\ Lengths(got) \in Seq(Nat) /\ Len(Lengths(got)) = Len(got)
         /\ Received \in Nat
<1>1. got \in Seq(Frames)
  BY DEF TypeInv, TypeOK
<1>2. Len(got) \in Nat /\ DOMAIN got = 1 .. Len(got)
      /\ \A i \in 1 .. Len(got) : got[i].payload_len \in Nat
  <2>1. \A i \in 1 .. Len(got) : got[i] \in Frames
    BY <1>1, ElementOfSeq
  <2>2. \A m \in Frames : m.payload_len \in Nat
    BY DEF Frames
  <2> QED
    BY <1>1, <2>1, <2>2, LenProperties
<1>3. Lengths(got) \in [1 .. Len(got) -> Nat]
  BY <1>2 DEF Lengths
<1>4. Lengths(got) \in Seq(Nat) /\ Len(Lengths(got)) = Len(got)
  BY <1>2, <1>3, FunctionIsSeq
<1>5. Sums(Lengths(got)) \in [0 .. Len(got) -> Nat]
  BY <1>4, SumsFacts
<1>6. Received = Sums(Lengths(got))[Len(got)]
  BY <1>4 DEF Received, Total
<1> QED
  BY <1>2, <1>4, <1>5, <1>6

\* The target asks for bytes of the transfer that it does not have.
LEMMA R2TFacts ==
  ASSUME TypeInv, R2T
  PROVE  \E len \in Nat :
           /\ Received + len <= req.expxferlen
           /\ outq' = iscsi_send_data_out(s, "r2t", Received, len)
           /\ outq' \in Seq(Headers)
           /\ \A i \in 1 .. Len(outq') :
                /\ outq'[i].kind = "data" /\ outq'[i].ttt = "r2t"
                /\ outq'[i].payload_len <= s.target_max_recv_data_segment_length
                /\ outq'[i].payload_offset = Received + Sums(Lengths(outq'))[i - 1]
           /\ Total(Lengths(outq')) = len
<1>1. s \in Sessions /\ IsTask(req)
  BY DEF R2T, Quiet, TypeInv, TypeOK
<1>2. req.expxferlen \in Nat /\ Received \in Nat /\ s.max_burst_length \in Nat
  BY <1>1, ReceivedType, TransferAssumption DEF IsTask
<1>3. PICK len \in 1 .. Least(s.max_burst_length, req.expxferlen - Received) :
        outq' = iscsi_send_data_out(s, "r2t", Received, len)
  BY DEF R2T
<1>4. len \in Nat /\ Received + len <= req.expxferlen
  BY <1>2 DEF Least
<1>5. LET q == iscsi_send_data_out(s, "r2t", Received, len)
      IN  /\ q \in Seq(Headers)
          /\ \A i \in 1 .. Len(q) :
               /\ q[i].kind = "data" /\ q[i].ttt = "r2t"
               /\ q[i].payload_len <= s.target_max_recv_data_segment_length
               /\ q[i].payload_offset = Received + Sums(Lengths(q))[i - 1]
          /\ Total(Lengths(q)) = len
  BY <1>1, <1>2, <1>4, DataOutFacts
<1> QED
  BY <1>3, <1>4, <1>5

LEMMA TypeR2T == TypeInv /\ R2T => TypeInv'
<1> SUFFICES ASSUME TypeInv, R2T PROVE TypeInv'
  OBVIOUS
<1>1. outq' \in Seq(Headers)
  BY R2TFacts
<1>2. /\ status = "active" /\ req.xfer_dir = "write"
      /\ UNCHANGED <<s, req, status, vec, cur, got, incoming, indata, mem, answered,
                     pings, reconnects>>
  BY DEF R2T, Quiet
<1>3. TypeOK'
  BY <1>1, <1>2 DEF TypeInv, TypeOK, InSize
<1>4. VecOK'
  BY <1>1, <1>2 DEF TypeInv, VecOK
<1> QED
  BY <1>3, <1>4 DEF TypeInv

LEMMA TypeDataIn == TypeInv /\ DataIn => TypeInv'
<1> SUFFICES ASSUME TypeInv, DataIn PROVE TypeInv'
  OBVIOUS
<1>1. /\ status = "active" /\ req.xfer_dir = "read"
      /\ UNCHANGED <<s, req, status, vec, outq, cur, got, indata, mem, answered,
                     pings, reconnects>>
  BY DEF DataIn, Quiet
<1>2. s \in Sessions /\ IsTask(req) /\ answered \in Nat
  BY <1>1 DEF TypeInv, TypeOK
<1>3. req.expxferlen \in Nat /\ s.initiator_max_recv_data_segment_length \in Nat
  BY <1>2, TransferAssumption DEF IsTask
<1>4. PICK len \in 1 .. Least(s.initiator_max_recv_data_segment_length,
                              req.expxferlen - answered) :
        incoming' = [ kind |-> "data-in", offset |-> answered, len |-> len,
                      data_pos |-> 0, data |-> << >>, digest |-> << >> ]
  BY DEF DataIn
<1>5. len \in Nat
  BY <1>2, <1>3 DEF Least
<1>6. << >> \in Seq(Int)
  BY EmptySeq
<1>7. /\ incoming' \in Reading /\ incoming'.len = len /\ incoming'.data_pos = 0
      /\ Len(incoming'.data) = 0
  BY <1>2, <1>4, <1>5, <1>6 DEF Reading
<1>8. incoming'.data_pos <= InSize'
  <2>1. Padding(len) \in Nat
    BY <1>5, PaddingType
  <2>2. InSize' = incoming'.len + Padding(incoming'.len)
    BY DEF InSize
  <2> QED
    BY <1>5, <1>7, <2>1, <2>2
<1>9. TypeOK'
  BY <1>1, <1>7, <1>8 DEF TypeInv, TypeOK
<1>10. VecOK'
  BY <1>1, <1>7 DEF TypeInv, VecOK
<1> QED
  BY <1>9, <1>10 DEF TypeInv

LEMMA TypeStatus == TypeInv /\ Status => TypeInv'
<1> SUFFICES ASSUME TypeInv, Status PROVE TypeInv'
  OBVIOUS
<1>1. /\ status = "active" /\ status' = "done"
      /\ UNCHANGED <<s, req, vec, outq, cur, got, incoming, indata, mem, answered,
                     pings, reconnects>>
  BY DEF Status, Quiet
<1>2. TypeOK'
  BY <1>1 DEF TypeInv, TypeOK, InSize
<1>3. VecOK'
  BY <1>1 DEF TypeInv, VecOK
<1> QED
  BY <1>2, <1>3 DEF TypeInv

\* ReadVector puts the next bytes where they belong, or fails.
LEMMA VectorFacts ==
  ASSUME TypeInv, ReadVector
  PROVE  LET pos == InPosition
             count == incoming.len - incoming.data_pos
         IN  /\ incoming \in Reading /\ incoming.data_pos <= InSize
             /\ pos = incoming.offset + incoming.data_pos /\ pos \in Nat
             /\ count \in Nat
             /\ req.xfer_dir = "read" /\ req.iov_in # << >> /\ req.iov_in \in Seq(Nat)
             /\ Fits(req.iov_in, vec')
             /\ \/ /\ pos + count <= Total(req.iov_in)
                   /\ \E n \in 1 .. count :
                        /\ n \in 1 .. (InSize - incoming.data_pos)
                        /\ incoming' = Took(n)
                        /\ mem' = [k \in DOMAIN mem |->
                                     IF k \in (pos + 1) .. (pos + n)
                                     THEN Stream[k - pos] ELSE mem[k]]
                        /\ status' = status
                \/ status' = "failed" /\ UNCHANGED <<incoming, mem>>
<1> DEFINE pos == InPosition
           count == incoming.len - incoming.data_pos
           all == InSize - incoming.data_pos - Padding(incoming.len)
           w == iscsi_iovector_readv_writev(req.iov_in, vec, pos, all)
<1>1. incoming # None /\ status = "active" /\ req.iov_in # << >>
      /\ InSize - incoming.data_pos > Padding(incoming.len)
  BY DEF ReadVector
<1>2. incoming \in Reading /\ IsTask(req) /\ incoming.data_pos <= InSize
  BY <1>1 DEF TypeInv, TypeOK
<1>3. /\ incoming.offset \in Nat /\ incoming.len \in Nat /\ incoming.data_pos \in Nat
      /\ Padding(incoming.len) \in Nat
      /\ InSize = incoming.len + Padding(incoming.len)
  BY <1>2, PaddingType DEF Reading, InSize
<1>4. pos = incoming.offset + incoming.data_pos /\ pos \in Nat
      /\ all = count /\ count \in Nat /\ count <= InSize - incoming.data_pos
  BY <1>1, <1>3 DEF InPosition
<1>5. req.xfer_dir = "read" /\ req.iov_in \in Seq(Nat) /\ Fits(req.iov_in, vec)
  BY <1>1, <1>2 DEF TypeInv, VecOK, IsTask
<1>6. /\ vec' = w.vec
      /\ \/ /\ w.ok
            /\ \E n \in 1 .. Len(w.bytes) :
                 /\ incoming' = Took(n)
                 /\ mem' = [k \in DOMAIN mem |->
                              IF \E i \in 1 .. n : w.bytes[i] = k - 1
                              THEN Stream[CHOOSE i \in 1 .. n : w.bytes[i] = k - 1]
                              ELSE mem[k]]
            /\ UNCHANGED status
         \/ ~w.ok /\ status' = "failed" /\ UNCHANGED <<incoming, mem>>
  BY DEF ReadVector
<1>7. all \in Nat
  BY <1>4
<1> HIDE DEF pos, all, w
<1>8. /\ Fits(req.iov_in, w.vec)
      /\ w.ok => /\ w.bytes = [i \in 1 .. count |-> pos + i - 1]
                 /\ pos + count <= Total(req.iov_in)
  <2>1. /\ Fits(req.iov_in, w.vec)
        /\ w.ok => /\ w.bytes = [i \in 1 .. all |-> pos + i - 1]
                   /\ pos + all <= Total(req.iov_in)
    BY <1>4, <1>5, <1>7, IovFinds DEF w
  <2> QED
    BY <1>4, <2>1
<1>9. \/ /\ pos + count <= Total(req.iov_in)
         /\ \E n \in 1 .. count :
              /\ n \in 1 .. (InSize - incoming.data_pos)
              /\ incoming' = Took(n)
              /\ mem' = [k \in DOMAIN mem |->
                           IF k \in (pos + 1) .. (pos + n)
                           THEN Stream[k - pos] ELSE mem[k]]
              /\ status' = status
      \/ status' = "failed" /\ UNCHANGED <<incoming, mem>>
  <2>1. CASE ~w.ok
    BY <1>6, <2>1
  <2>2. CASE w.ok
    <3>1. w.bytes = [i \in 1 .. count |-> pos + i - 1] /\ pos + count <= Total(req.iov_in)
      BY <1>8, <2>2
    <3>2. Len(w.bytes) = count
      <4>1. [i \in 1 .. count |-> pos + i - 1] \in [1 .. count -> Int]
        BY <1>4
      <4> QED
        BY <1>4, <3>1, <4>1, FunctionIsSeq
    <3>3. PICK n \in 1 .. count :
             /\ incoming' = Took(n)
             /\ mem' = [k \in DOMAIN mem |->
                          IF \E i \in 1 .. n : w.bytes[i] = k - 1
                          THEN Stream[CHOOSE i \in 1 .. n : w.bytes[i] = k - 1]
                          ELSE mem[k]]
             /\ status' = status
      BY <1>6, <2>2, <3>2
    <3>4. n \in 1 .. (InSize - incoming.data_pos) /\ n \in Nat /\ n <= count
      BY <1>3, <1>4, <3>3
    <3>5. \A i \in 1 .. n : w.bytes[i] = pos + i - 1
      BY <1>4, <3>1, <3>4
    <3> DEFINE new(k) == IF \E i \in 1 .. n : w.bytes[i] = k - 1
                         THEN Stream[CHOOSE i \in 1 .. n : w.bytes[i] = k - 1]
                         ELSE mem[k]
               kept(k) == IF k \in (pos + 1) .. (pos + n)
                          THEN Stream[k - pos] ELSE mem[k]
    <3>6. ASSUME NEW k \in DOMAIN mem, k \in Int
          PROVE  new(k) = kept(k)
      <4>1. CASE k \in (pos + 1) .. (pos + n)
        <5>1. k - pos \in 1 .. n /\ w.bytes[k - pos] = k - 1
          BY <1>4, <3>4, <3>5, <4>1
        <5>2. \A i \in 1 .. n : w.bytes[i] = k - 1 => i = k - pos
          BY <1>4, <3>5, <3>6
        <5>3. (CHOOSE i \in 1 .. n : w.bytes[i] = k - 1) = k - pos
          BY <5>1, <5>2
        <5> QED
          BY <4>1, <5>1, <5>3
      <4>2. CASE k \notin (pos + 1) .. (pos + n)
        <5>1. ~\E i \in 1 .. n : w.bytes[i] = k - 1
          BY <1>4, <3>4, <3>5, <3>6, <4>2
        <5> QED
          BY <4>2, <5>1
      <4> QED
        BY <4>1, <4>2
    <3>7. \A k \in DOMAIN mem : k \in Int
      BY <1>1 DEF TypeInv, VecOK
    <3>8. mem' = [k \in DOMAIN mem |-> new(k)]
      BY <3>3
    <3>9. \A k \in DOMAIN mem : new(k) = kept(k)
      BY <3>6, <3>7
    <3>10. mem' = [k \in DOMAIN mem |-> kept(k)]
      <4> HIDE DEF new, kept
      <4> QED
        BY <3>8, <3>9
    <3> QED
      BY <3>1, <3>3, <3>4, <3>10
  <2> QED
    BY <2>1, <2>2
<1> QED
  BY <1>1, <1>2, <1>4, <1>5, <1>6, <1>8, <1>9 DEF pos

LEMMA TypeReadVector == TypeInv /\ ReadVector => TypeInv'
<1> SUFFICES ASSUME TypeInv, ReadVector PROVE TypeInv'
  OBVIOUS
<1>1. /\ incoming # None /\ status = "active" /\ req.iov_in # << >>
      /\ UNCHANGED <<s, req, outq, cur, got, indata, answered, pings, reconnects>>
  BY DEF ReadVector
<1>2. /\ incoming \in Reading /\ incoming.data_pos <= InSize
      /\ req.xfer_dir = "read" /\ Fits(req.iov_in, vec')
  BY VectorFacts
<1>3. /\ \A k \in DOMAIN mem : k \in Int
      /\ DOMAIN mem' = DOMAIN mem
  <2>1. \A k \in DOMAIN mem : k \in Int
    BY <1>1 DEF TypeInv, VecOK
  <2>2. DOMAIN mem' = DOMAIN mem
    BY VectorFacts
  <2> QED
    BY <2>1, <2>2
<1>4. /\ status' \in {"active", "failed"}
      /\ incoming' \in Reading /\ incoming'.data_pos <= InSize'
  <2>1. CASE status' = "failed" /\ UNCHANGED <<incoming, mem>>
    BY <1>2, <2>1 DEF InSize
  <2>2. ASSUME NEW n \in 1 .. (InSize - incoming.data_pos),
               incoming' = Took(n), status' = status
        PROVE  /\ status' \in {"active", "failed"}
               /\ incoming' \in Reading /\ incoming'.data_pos <= InSize'
    <3>1. /\ Took(n) \in Reading /\ Took(n).data_pos <= InSize
          /\ Took(n).len = incoming.len
      BY <1>2, TookFacts
    <3> HIDE DEF Took
    <3>2. InSize' = InSize
      BY <2>2, <3>1 DEF InSize
    <3> QED
      BY <1>1, <2>2, <3>1, <3>2
  <2> QED
    BY <2>1, <2>2, VectorFacts
<1>5. vec' \in [offset : Nat, consumed : Nat]
  BY <1>2 DEF Fits
<1>6. TypeOK'
  BY <1>1, <1>4, <1>5 DEF TypeInv, TypeOK
<1>7. VecOK'
  BY <1>1, <1>2, <1>3 DEF TypeInv, VecOK
<1> QED
  BY <1>6, <1>7 DEF TypeInv

\* ReadPlain reads the next bytes into pdu->indata, or the padding into nowhere.
LEMMA PlainFacts ==
  ASSUME TypeInv, ReadPlain
  PROVE  /\ incoming \in Reading /\ incoming' \in Reading
         /\ incoming.data_pos <= InSize
         /\ \E n \in 1 .. (InSize - incoming.data_pos) :
              /\ incoming'.offset = incoming.offset
              /\ incoming'.len = incoming.len
              /\ incoming'.data_pos = incoming.data_pos + n
              /\ incoming'.data_pos <= InSize
              /\ incoming'.data = IF req.iov_in = << >>
                                  THEN incoming.data \o SubSeq(Stream, 1, n)
                                  ELSE incoming.data
              /\ req.iov_in = << >> =>
                   Len(incoming'.data) = Len(incoming.data) + n
<1>1. incoming \in Reading /\ incoming.data_pos <= InSize
  BY DEF ReadPlain, TypeInv, TypeOK
<1>2. PICK n \in 1 .. (InSize - incoming.data_pos) :
        incoming' = [Took(n) EXCEPT !.data = IF req.iov_in = << >>
                                             THEN @ \o SubSeq(Stream, 1, n)
                                             ELSE @]
  BY DEF ReadPlain
<1> DEFINE part == SubSeq(Stream, 1, n)
           t == Took(n)
           d == IF req.iov_in = << >> THEN t.data \o part ELSE t.data
<1>3. /\ t \in Reading /\ t.offset = incoming.offset /\ t.len = incoming.len
      /\ t.data_pos = incoming.data_pos + n /\ t.data = incoming.data
      /\ t.data_pos <= InSize /\ part \in Seq(Int)
  BY <1>1, TookFacts
<1>4. incoming' = [t EXCEPT !.data = d]
  BY <1>2
<1> HIDE DEF t, part
<1>5. incoming.data \in Seq(Int)
  BY <1>1 DEF Reading
<1>6. d \in Seq(Int)
  <2>1. incoming.data \o part \in Seq(Int)
    BY <1>3, <1>5, ConcatProperties
  <2> QED
    BY <1>3, <1>5, <2>1
<1>7. /\ d = IF req.iov_in = << >> THEN incoming.data \o part ELSE incoming.data
      /\ req.iov_in = << >> => Len(d) = Len(incoming.data) + n
  <2>1. Len(incoming.data \o part) = Len(incoming.data) + Len(part)
    BY <1>3, <1>5, ConcatProperties
  <2>2. Len(part) = n
    BY <1>1, TookFacts DEF part
  <2> QED
    BY <1>3, <2>1, <2>2
<1> HIDE DEF d
<1>8. incoming' = [ kind |-> "data-in", offset |-> t.offset, len |-> t.len,
                    data_pos |-> t.data_pos, data |-> d, digest |-> t.digest ]
  BY <1>3, <1>4 DEF Reading
<1>9. incoming' \in Reading
  BY <1>3, <1>6, <1>8 DEF Reading
<1> QED
  BY <1>1, <1>3, <1>7, <1>8, <1>9 DEF part

LEMMA TypeReadPlain == TypeInv /\ ReadPlain => TypeInv'
<1> SUFFICES ASSUME TypeInv, ReadPlain PROVE TypeInv'
  OBVIOUS
<1>1. /\ incoming # None /\ status = "active"
      /\ UNCHANGED <<s, req, status, vec, outq, cur, got, indata, mem, answered,
                     pings, reconnects>>
  BY DEF ReadPlain
<1>2. incoming' \in Reading /\ incoming'.data_pos <= InSize /\ incoming'.len = incoming.len
  BY PlainFacts
<1>3. /\ InSize' = InSize
      /\ req.iov_in = << >> => Len(incoming'.data) = incoming'.data_pos
  <2>1. req.iov_in = << >> => Len(incoming.data) = incoming.data_pos
    BY <1>1 DEF TypeInv, VecOK
  <2> QED
    BY <1>2, <2>1, PlainFacts DEF InSize
<1>4. TypeOK'
  BY <1>1, <1>2, <1>3 DEF TypeInv, TypeOK
<1>5. VecOK'
  BY <1>1, <1>3 DEF TypeInv, VecOK
<1> QED
  BY <1>4, <1>5 DEF TypeInv

\* Data without buffers is kept in task->datain.
LEMMA TypeReadDone ==
  ASSUME TypeInv, ReadDone
  PROVE  TypeInv'
<1>1. /\ incoming # None /\ status = "active" /\ incoming.data_pos = InSize
      /\ incoming' = None
      /\ UNCHANGED <<s, req, vec, outq, cur, got, mem, pings, reconnects>>
      /\ \/ status' = "failed" /\ UNCHANGED <<indata, answered>>
         \/ /\ indata' = IF req.iov_in = << >>
                         THEN indata \o SubSeq(incoming.data, 1, incoming.len)
                         ELSE indata
            /\ answered' = answered + incoming.len
            /\ UNCHANGED status
  BY DEF ReadDone
<1>2. /\ incoming \in Reading /\ indata \in Seq(Int) /\ answered \in Nat
  BY <1>1 DEF TypeInv, TypeOK
<1>3. incoming.len \in Nat /\ incoming.data \in Seq(Int)
  BY <1>2 DEF Reading
<1>4. /\ incoming.len <= incoming.data_pos
      /\ req.iov_in = << >> => Len(incoming.data) = incoming.data_pos
  <2>1. Padding(incoming.len) \in Nat
    BY <1>3, PaddingType
  <2>2. incoming.len <= incoming.data_pos
    BY <1>1, <1>3, <2>1 DEF InSize
  <2>3. req.iov_in = << >> => Len(incoming.data) = incoming.data_pos
    BY <1>1 DEF TypeInv, VecOK
  <2> QED
    BY <2>2, <2>3
<1>5. indata' \in Seq(Int) /\ answered' \in Nat
  <2> DEFINE part == SubSeq(incoming.data, 1, incoming.len)
  <2>1. req.iov_in = << >> => indata \o part \in Seq(Int)
    <3>1. SUFFICES ASSUME req.iov_in = << >> PROVE indata \o part \in Seq(Int)
      OBVIOUS
    <3>2. \A i \in 1 .. incoming.len : incoming.data[i] \in Int
      <4>1. Len(incoming.data) \in Nat /\ incoming.len <= Len(incoming.data)
        BY <1>3, <1>4, <3>1, LenProperties
      <4>2. \A i \in 1 .. Len(incoming.data) : incoming.data[i] \in Int
        BY <1>3, ElementOfSeq
      <4> QED
        BY <1>3, <4>1, <4>2
    <3>3. 1 \in Int /\ incoming.len \in Int
      BY <1>3
    <3>4. part \in Seq(Int)
      BY <3>2, <3>3, SubSeqProperties
    <3> QED
      BY <1>2, <3>4, ConcatProperties
  <2> HIDE DEF part
  <2>2. \/ indata' = indata /\ answered' = answered
        \/ /\ indata' = IF req.iov_in = << >> THEN indata \o part ELSE indata
           /\ answered' = answered + incoming.len
    BY <1>1 DEF part
  <2>3. indata' \in Seq(Int)
    BY <1>2, <2>1, <2>2
  <2>4. answered' \in Nat
    BY <1>2, <1>3, <2>2
  <2> QED
    BY <2>3, <2>4
<1>6. TypeOK'
  BY <1>1, <1>5 DEF TypeInv, TypeOK
<1>7. VecOK'
  BY <1>1 DEF TypeInv, VecOK
<1> QED
  BY <1>6, <1>7 DEF TypeInv

\* Everything starts again, with what the command sends in the new session.
LEMMA TypeReconnect == TypeInv /\ Reconnect => TypeInv'
<1> SUFFICES ASSUME TypeInv, Reconnect PROVE TypeInv'
  OBVIOUS
<1>1. /\ status \in {"active", "failed"} /\ s' \in Sessions /\ status' = "active"
      /\ vec' = Rewound(vec) /\ outq' = CommandPdus(s', req)
      /\ cur' = None /\ got' = << >> /\ incoming' = None /\ indata' = << >>
      /\ answered' = 0 /\ UNCHANGED <<req, mem, pings>>
  BY DEF Reconnect
<1>2. IsTask(req)
  BY <1>1 DEF TypeInv, TypeOK
<1>3. /\ outq' \in Seq(Headers)
      /\ \A i \in DOMAIN outq' : outq'[i].payload_len > 0 => req.xfer_dir = "write"
  BY <1>1, <1>2, CommandFacts
<1>4. << >> \in Seq(Frames) /\ << >> \in Seq(Int)
  BY EmptySeq
<1>5. vec' \in [offset : Nat, consumed : Nat]
  BY <1>1 DEF Rewound
<1>6. Fits(req.iov_in, vec') /\ Fits(req.iov_out, vec')
  BY <1>1, <1>2, RewoundFits DEF IsTask
<1>7. TypeOK'
  BY <1>1, <1>2, <1>3, <1>4, <1>5 DEF TypeOK
<1>8. VecOK'
  BY <1>1, <1>3, <1>6 DEF TypeInv, VecOK
<1> QED
  BY <1>7, <1>8 DEF TypeInv

LEMMA TypeNext == TypeInv /\ [Next]_vars => TypeInv'
<1> SUFFICES ASSUME TypeInv, [Next]_vars PROVE TypeInv'
  OBVIOUS
<1>1. ASSUME UNCHANGED vars PROVE TypeInv'
  BY <1>1 DEF TypeInv, TypeOK, VecOK, InSize, vars
<1>2. ASSUME NEW len \in Pings, Ping(len) PROVE TypeInv'
  BY <1>2, TypePing
<1>3. ASSUME ReadDone PROVE TypeInv'
  BY <1>3, TypeReadDone
<1> QED
  BY <1>1, <1>2, <1>3, TypeCommand, TypeWriteHeader, TypeWritePayload,
     TypeWritePadding, TypeWriteDigest, TypeWriteDone, TypeR2T, TypeDataIn,
     TypeStatus, TypeReadVector, TypeReadPlain, TypeReconnect DEF Next, Finished

\* Every variable of Transfer keeps its type, the iovector stays at the end of
\* the buffers it has consumed, and the task has data in one direction.
THEOREM TransferTypeCorrect == Spec => []TypeInv
<1>1. Init => TypeInv
  BY TypeInit
<1>2. TypeInv /\ [Next]_vars => TypeInv'
  BY TypeNext
<1> QED
  BY <1>1, <1>2, PTL DEF Spec

-----------------------------------------------------------------------------
(* What is on the wire *)

FrameInv == CurOK /\ GotOK

\* Only the data of a NOP-Out is part of the PDU.
LEMMA InlineOrPayload ==
  ASSUME NEW p \in Headers
  PROVE  p.payload_len > 0 => p.inline = 0
BY DEF Headers

LEMMA LeastLeft ==
  ASSUME NEW m \in Nat, NEW n \in Nat, m <= n
  PROVE  Least(m, n) = m
BY DEF Least

\* The next bytes after the first n of a frame make a longer part of it.
LEMMA FrameGrows ==
  ASSUME NEW p \in Headers, p.inline = 0, NEW n \in Nat, NEW m \in Nat,
         NEW part \in Seq(Int), Len(part) = m,
         \A j \in 1 .. m :
           part[j] = IF n + j <= p.payload_len THEN p.payload_offset + n + j - 1 ELSE Pad
  PROVE  Frame(p, n) \o part = Frame(p, n + m)
<1>1. p.payload_len \in Nat /\ p.payload_offset \in Nat /\ Pad \in Int
  BY DEF Headers, Pad
<1> DEFINE byte(k) == IF k <= p.payload_len THEN p.payload_offset + k - 1 ELSE Pad
           a == [k \in 1 .. n |-> byte(k)]
           b == [k \in 1 .. (n + m) |-> byte(k)]
<1>2. Frame(p, n) = a /\ Frame(p, n + m) = b
  BY DEF Frame
<1>3. \A k \in 1 .. (n + m) : byte(k) \in Int
  BY <1>1
<1>4. /\ a \in Seq(Int) /\ Len(a) = n /\ \A k \in 1 .. n : a[k] = byte(k)
  <2>1. a \in [1 .. n -> Int]
    BY <1>3
  <2> QED
    BY <2>1, FunctionIsSeq
<1>5. /\ b \in Seq(Int) /\ Len(b) = n + m /\ \A k \in 1 .. (n + m) : b[k] = byte(k)
  <2>1. b \in [1 .. (n + m) -> Int]
    BY <1>3
  <2>2. n + m \in Nat
    OBVIOUS
  <2> QED
    BY <2>1, <2>2, FunctionIsSeq
<1>6. \A j \in 1 .. m : part[j] = byte(n + j)
  BY <1>1
<1> HIDE DEF a, b, byte
<1>7. /\ a \o part \in Seq(Int) /\ Len(a \o part) = n + m
      /\ \A i \in 1 .. (n + m) : (a \o part)[i] = IF i <= n THEN a[i] ELSE part[i - n]
  <2>1. /\ a \o part \in Seq(Int) /\ Len(a \o part) = Len(a) + Len(part)
        /\ \A i \in 1 .. (Len(a) + Len(part)) :
             (a \o part)[i] = IF i <= Len(a) THEN a[i] ELSE part[i - Len(a)]
    BY <1>4, ConcatProperties
  <2> QED
    BY <1>4, <2>1
<1>8. \A i \in 1 .. (n + m) : (a \o part)[i] = b[i]
  <2> TAKE i \in 1 .. (n + m)
  <2>1. CASE i <= n
    BY <1>4, <1>5, <1>7, <2>1
  <2>2. CASE ~(i <= n)
    <3>1. i - n \in 1 .. m /\ n + (i - n) = i
      BY <2>2
    <3>2. part[i - n] = byte(i)
      BY <1>6, <3>1
    <3> QED
      BY <1>5, <1>7, <2>2, <3>2
  <2> QED
    BY <2>1, <2>2
<1>9. a \o part = b
  BY <1>5, <1>7, <1>8, SeqEqual
<1> QED
  BY <1>2, <1>9

\* The bytes the socket takes are the next ones of the frame.
LEMMA CurOKWrote ==
  ASSUME cur \in Writing, s.data_digest \in BOOLEAN, CurOK,
         NEW bytes \in Seq(Int), NEW n \in 1 .. Len(bytes), NEW v,
         Wrote(bytes, n, v),
         cur.pdu.payload_len > 0,
         cur.payload_written + Len(bytes) <= Padded(cur.pdu),
         \A j \in 1 .. Len(bytes) :
           bytes[j] = IF cur.payload_written + j <= cur.pdu.payload_len
                      THEN cur.pdu.payload_offset + cur.payload_written + j - 1
                      ELSE Pad
  PROVE  CurOK'
<1> DEFINE p == cur.pdu
           k == cur.payload_written
           part == SubSeq(bytes, 1, n)
<1>1. p \in Headers /\ k \in Nat /\ cur.kind = "writing"
  BY DEF Writing
<1>2. p.inline = 0 /\ Padded(p) \in Nat /\ Len(bytes) \in Nat
  BY <1>1, InlineOrPayload, PaddedType, LenProperties
<1>3. /\ cur' \in Writing /\ cur'.pdu = p
      /\ cur'.payload_written = k + n
      /\ cur'.wire = cur.wire \o part
      /\ cur'.digest = IF s.data_digest THEN cur.digest \o part ELSE cur.digest
      /\ cur'.trailer = cur.trailer
      /\ part \in Seq(Int) /\ Len(part) = n
      /\ \A j \in 1 .. n : part[j] = bytes[j]
  BY WroteFacts
<1>4. s' = s
  BY DEF Wrote
<1>5. k + n <= Padded(p) /\ k <= Padded(p) /\ n \in Nat
  BY <1>1, <1>2
<1>6. cur # None
  BY NoneIsNoRecord
<1>7. /\ cur.wire = Frame(p, k)
      /\ cur.digest = IF s.data_digest THEN cur.wire ELSE << >>
      /\ cur.trailer = Trailer(p, 0)
  BY <1>1, <1>2, <1>5, <1>6 DEF CurOK, Least
<1> HIDE DEF part
<1>8. \A j \in 1 .. n : part[j] = IF k + j <= p.payload_len THEN p.payload_offset + k + j - 1
                                  ELSE Pad
  <2>1. \A j \in 1 .. Len(bytes) :
          bytes[j] = IF k + j <= p.payload_len THEN p.payload_offset + k + j - 1 ELSE Pad
    OBVIOUS
  <2>2. \A j \in 1 .. n : j \in 1 .. Len(bytes) /\ part[j] = bytes[j]
    BY <1>2, <1>3
  <2> HIDE DEF p, k
  <2> QED
    BY <2>1, <2>2
<1>9. Frame(p, k) \o part = Frame(p, k + n)
  <2> HIDE DEF p, k
  <2> QED
    BY ZenonT(40), <1>1, <1>2, <1>3, <1>5, <1>8, FrameGrows
<1>10. /\ cur'.wire = Frame(p, k + n)
       /\ cur'.digest = IF s.data_digest THEN cur'.wire ELSE << >>
       /\ cur'.trailer = Trailer(p, 0)
  BY <1>3, <1>7, <1>9
<1>11. Least(k + n, Padded(p)) = k + n
  <2>1. k + n \in Nat
    BY <1>1, <1>5
  <2> HIDE DEF p, k
  <2> QED
    BY <1>2, <1>5, <2>1, LeastLeft
<1> DEFINE q == cur'.pdu
           j == cur'.payload_written
<1>12. /\ j <= Padded(q)
       /\ cur'.wire = Frame(q, Least(j, Padded(q)))
       /\ cur'.digest = IF s'.data_digest THEN cur'.wire ELSE << >>
       /\ cur'.trailer = Trailer(q, 0)
       /\ Padded(q) \in Nat /\ j \in Nat
  <2>1. q = p /\ j = k + n
    BY <1>3
  <2>2. j <= Padded(q) /\ Padded(q) \in Nat /\ j \in Nat
    BY <1>1, <1>2, <1>5, <2>1
  <2> HIDE DEF p, k, q, j
  <2> QED
    BY <1>4, <1>10, <1>11, <2>1, <2>2
<1>13. j <= Padded(q) + (IF s'.data_digest /\ (q.inline > 0 \/ q.payload_len > 0) THEN 4 ELSE 0)
  <2> HIDE DEF q, j
  <2> QED
    BY <1>12
<1>14. (IF j <= Padded(q) THEN 0 ELSE j - Padded(q)) = 0
  BY <1>12
<1> QED
  BY <1>12, <1>13, <1>14 DEF CurOK, Digested

LEMMA FrameUnchanged ==
  ASSUME FrameInv, UNCHANGED <<s, cur, got>>
  PROVE  FrameInv'
BY DEF FrameInv, CurOK, GotOK, Digested

LEMMA FrameNoPdus ==
  ASSUME cur' = None, got' = << >>
  PROVE  FrameInv'
BY DEF FrameInv, CurOK, GotOK

LEMMA FrameWriteHeader ==
  ASSUME TypeInv, FrameInv, WriteHeader
  PROVE  FrameInv'
<1> DEFINE p == Head(outq)
<1>1. /\ p \in Headers /\ cur' \in Writing /\ cur'.pdu = p /\ cur'.payload_written = 0
      /\ cur'.wire = Frame(p, 0)
      /\ cur'.digest = IF s.data_digest THEN cur'.wire ELSE << >>
      /\ cur'.trailer = << >>
  BY HeaderFacts
<1>2. s' = s /\ got' = got
  BY DEF WriteHeader
<1> HIDE DEF p
<1>3. Padded(p) \in Nat
  BY <1>1, PaddedType
<1>4. Least(0, Padded(p)) = 0
  BY <1>3, LeastLeft
<1>5. Trailer(p, 0) = << >>
  <2>1. 1 .. 0 = {}
    OBVIOUS
  <2> QED
    BY <2>1 DEF Trailer
<1>6. 0 <= Padded(p) + (IF s'.data_digest /\ (p.inline > 0 \/ p.payload_len > 0) THEN 4 ELSE 0)
  BY <1>3
<1>7. (IF 0 <= Padded(p) THEN 0 ELSE 0 - Padded(p)) = 0
  BY <1>3
<1>8. CurOK'
  BY <1>1, <1>2, <1>4, <1>5, <1>6, <1>7 DEF CurOK, Digested
<1>9. GotOK'
  BY <1>2 DEF FrameInv, GotOK, Digested
<1> QED
  BY <1>8, <1>9 DEF FrameInv

LEMMA GotUnchanged ==
  ASSUME GotOK, s' = s, got' = got
  PROVE  GotOK'
BY DEF GotOK, Digested

LEMMA FrameWritePayload ==
  ASSUME TypeInv, FrameInv, WritePayload
  PROVE  FrameInv'
<1> DEFINE pos == cur.pdu.payload_offset + cur.payload_written
           count == cur.pdu.payload_len - cur.payload_written
           bytes == [i \in 1 .. count |-> pos + i - 1]
<1>1. /\ pos \in Nat /\ count \in Nat
      /\ bytes \in Seq(Int) /\ Len(bytes) = count
      /\ \/ \E n \in 1 .. count : Wrote(bytes, n, vec')
         \/ UNCHANGED <<s, cur, got>>
  BY PayloadFacts
<1>2. \A j \in 1 .. Len(bytes) : bytes[j] = pos + j - 1 /\ j <= count
  BY <1>1
<1> HIDE DEF bytes
<1>3. cur \in Writing /\ s.data_digest \in BOOLEAN
      /\ cur.payload_written < cur.pdu.payload_len
  BY TransferAssumption DEF WritePayload, TypeInv, TypeOK
<1>4. cur.pdu \in Headers /\ cur.payload_written \in Nat
  BY <1>3 DEF Writing
<1>5. /\ Padded(cur.pdu) \in Nat /\ cur.pdu.payload_len \in Nat
      /\ cur.pdu.payload_len <= Padded(cur.pdu)
      /\ cur.pdu.payload_offset \in Nat
  BY <1>4, PaddedType DEF Headers
<1>6. /\ cur.pdu.payload_len > 0
      /\ cur.payload_written + Len(bytes) <= Padded(cur.pdu)
  BY <1>1, <1>3, <1>4, <1>5
<1>7. \A j \in 1 .. Len(bytes) :
        bytes[j] = IF cur.payload_written + j <= cur.pdu.payload_len
                   THEN cur.pdu.payload_offset + cur.payload_written + j - 1
                   ELSE Pad
  BY <1>2, <1>4, <1>5
<1>8. ASSUME NEW n \in 1 .. count, Wrote(bytes, n, vec')
      PROVE  FrameInv'
  <2>1. n \in 1 .. Len(bytes)
    BY <1>1
  <2>2. CurOK'
    BY <1>1, <1>3, <1>6, <1>7, <1>8, <2>1, CurOKWrote DEF FrameInv
  <2>3. s' = s /\ got' = got
    BY <1>8 DEF Wrote
  <2> QED
    BY <2>2, <2>3, GotUnchanged DEF FrameInv
<1> QED
  BY <1>1, <1>8, FrameUnchanged

LEMMA FrameWritePadding ==
  ASSUME TypeInv, FrameInv, WritePadding
  PROVE  FrameInv'
<1> DEFINE left == Padded(cur.pdu) - cur.payload_written
           bytes == Pads(left)
<1>1. /\ left \in Nat /\ bytes \in Seq(Int) /\ Len(bytes) = left /\ cur \in Writing
      /\ cur.payload_written >= cur.pdu.payload_len
  BY PaddingFacts
<1>2. PICK n \in 1 .. left : Wrote(bytes, n, vec)
  BY PaddingFacts
<1>3. \A j \in 1 .. left : bytes[j] = Pad
  BY <1>1, PadsType
<1>4. s.data_digest \in BOOLEAN
  BY TransferAssumption DEF TypeInv, TypeOK
<1>5. cur.pdu \in Headers /\ cur.payload_written \in Nat
  BY <1>1 DEF Writing
<1>6. /\ Padded(cur.pdu) \in Nat /\ cur.pdu.payload_len \in Nat
      /\ cur.pdu.payload_len = 0 => Padded(cur.pdu) = 0
  BY <1>5, PaddedType
<1>7. /\ cur.pdu.payload_len > 0
      /\ cur.payload_written + Len(bytes) <= Padded(cur.pdu)
  BY <1>1, <1>2, <1>5, <1>6
<1> HIDE DEF bytes
<1>8. \A j \in 1 .. Len(bytes) :
        bytes[j] = IF cur.payload_written + j <= cur.pdu.payload_len
                   THEN cur.pdu.payload_offset + cur.payload_written + j - 1
                   ELSE Pad
  BY <1>1, <1>3, <1>5, <1>6
<1>9. n \in 1 .. Len(bytes)
  BY <1>1, <1>2
<1>10. CurOK'
  BY <1>1, <1>2, <1>4, <1>7, <1>8, <1>9, CurOKWrote DEF FrameInv
<1>11. s' = s /\ got' = got
  BY <1>2 DEF Wrote
<1> QED
  BY <1>10, <1>11, GotUnchanged DEF FrameInv

\* A PDU has a digest when it has data.
LEMMA HasDigestFacts ==
  ASSUME cur \in Writing, CurOK
  PROVE  /\ HasDigest => Digested(cur.pdu)
         /\ cur.payload_written >= Padded(cur.pdu) /\ Digested(cur.pdu) => HasDigest
         /\ Digested(cur.pdu) => s.data_digest
<1>1. cur.pdu \in Headers /\ cur.payload_written \in Nat /\ cur # None
  BY NoneIsNoRecord DEF Writing
<1>2. /\ Padded(cur.pdu) \in Nat /\ cur.pdu.payload_len \in Nat
      /\ cur.pdu.payload_len <= Padded(cur.pdu)
      /\ cur.pdu.payload_len = 0 => Padded(cur.pdu) = 0
  BY <1>1, PaddedType
<1>3. cur.payload_written <= Padded(cur.pdu) + (IF Digested(cur.pdu) THEN 4 ELSE 0)
  BY <1>1 DEF CurOK
<1> QED
  BY <1>1, <1>2, <1>3 DEF HasDigest, Digested

\* The pieces of the digest are over everything before it, in order.
LEMMA FrameWriteDigest ==
  ASSUME TypeInv, FrameInv, WriteDigest
  PROVE  FrameInv'
<1> DEFINE p == cur.pdu
           k == cur.payload_written
           left == Padded(p) + 4 - k
<1>1. cur \in Writing /\ cur' \in Writing /\ left \in 1 .. 4 /\ HasDigest
  BY DigestFacts
<1>2. PICK n \in 1 .. left :
        LET piece == [i \in 1 .. n |-> [of |-> cur.digest, byte |-> 4 - left + i]]
        IN  /\ piece \in Seq(Trailers) /\ Len(piece) = n
            /\ cur'.pdu = p
            /\ cur'.payload_written = k + n
            /\ cur'.wire = cur.wire
            /\ cur'.digest = cur.digest
            /\ cur'.trailer = cur.trailer \o piece
  BY DigestFacts
<1>3. p \in Headers /\ k \in Nat /\ cur # None
  BY <1>1, NoneIsNoRecord DEF Writing
<1>4. Padded(p) \in Nat
  BY <1>3, PaddedType
<1>5. Digested(p) /\ s.data_digest
  BY <1>1, HasDigestFacts DEF FrameInv
<1>6. k >= Padded(p) /\ s' = s /\ got' = got
  BY <1>3, <1>4 DEF WriteDigest
<1> DEFINE f == Frame(p, Padded(p))
           done == k - Padded(p)
<1>7. Least(k, Padded(p)) = Padded(p) /\ Least(k + n, Padded(p)) = Padded(p)
  <2> HIDE DEF p, k
  <2> QED
    BY <1>3, <1>4, <1>6 DEF Least
<1>8. /\ cur.wire = f /\ cur.digest = f
      /\ cur.trailer = Trailer(p, IF k <= Padded(p) THEN 0 ELSE k - Padded(p))
  BY <1>3, <1>5, <1>7 DEF FrameInv, CurOK
<1>9. done \in Nat /\ left = 4 - done /\ (IF k <= Padded(p) THEN 0 ELSE k - Padded(p)) = done
      /\ n \in Nat /\ done + n <= 4 /\ n > 0
  BY <1>1, <1>3, <1>4, <1>6
<1>10. cur.trailer = Trailer(p, done)
  BY <1>8, <1>9
<1> DEFINE piece == [i \in 1 .. n |-> [of |-> cur.digest, byte |-> 4 - left + i]]
<1>11. piece \in Seq(Trailers) /\ Len(piece) = n /\ cur'.trailer = cur.trailer \o piece
  BY <1>2
<1>12. \A i \in 1 .. n : piece[i] = [of |-> f, byte |-> done + i]
  BY <1>8, <1>9
<1>13. cur.trailer \in Seq(Trailers)
  BY <1>1 DEF Writing
<1> HIDE DEF piece, f
<1>14. cur.trailer \o piece = Trailer(p, done + n)
  <2> DEFINE a == cur.trailer
             b == Trailer(p, done + n)
             at(i) == [of |-> f, byte |-> i]
  <2>1. a = [i \in 1 .. done |-> at(i)] /\ b = [i \in 1 .. (done + n) |-> at(i)]
    BY <1>10 DEF Trailer, f
  <2>2. Len(a) = done /\ \A i \in 1 .. done : a[i] = at(i)
    <3>1. DOMAIN a = 1 .. done /\ DOMAIN a = 1 .. Len(a) /\ Len(a) \in Nat
      BY <1>13, <2>1, LenProperties
    <3>2. Len(a) = done
      BY <1>9, <3>1
    <3> QED
      BY <2>1, <3>2
  <2> HIDE DEF a, at, done
  <2>3. DOMAIN b = 1 .. (done + n) /\ \A i \in 1 .. (done + n) : b[i] = at(i)
    BY <2>1
  <2> HIDE DEF b
  <2>4. /\ a \o piece \in Seq(Trailers) /\ Len(a \o piece) = done + n
        /\ \A i \in 1 .. (done + n) : (a \o piece)[i] = IF i <= done THEN a[i] ELSE piece[i - done]
    <3>1. /\ a \o piece \in Seq(Trailers) /\ Len(a \o piece) = Len(a) + Len(piece)
          /\ \A i \in 1 .. (Len(a) + Len(piece)) :
               (a \o piece)[i] = IF i <= Len(a) THEN a[i] ELSE piece[i - Len(a)]
      BY <1>11, <1>13, ConcatProperties DEF a
    <3> QED
      BY <1>11, <2>2, <3>1
  <2>5. \A i \in 1 .. (done + n) : (a \o piece)[i] = at(i)
    <3> TAKE i \in 1 .. (done + n)
    <3>1. CASE i <= done
      BY <1>9, <2>2, <2>4, <3>1
    <3>2. CASE ~(i <= done)
      <4>1. i - done \in 1 .. n /\ done + (i - done) = i
        BY <1>9, <3>2
      <4>2. piece[i - done] = at(i)
        BY <1>12, <4>1 DEF at
      <4> QED
        BY <2>4, <3>2, <4>2
    <3> QED
      BY <3>1, <3>2
  <2>6. a \o piece = [i \in 1 .. (done + n) |-> at(i)]
    <3> DEFINE c == a \o piece
    <3>1. c \in Seq(Trailers) /\ Len(c) = done + n
          /\ \A i \in 1 .. (done + n) : c[i] = at(i)
      BY <2>4, <2>5
    <3> HIDE DEF c
    <3>2. DOMAIN c = 1 .. (done + n) /\ c = [i \in DOMAIN c |-> c[i]]
      BY <1>9, <3>1, LenProperties
    <3>3. c = [i \in 1 .. (done + n) |-> at(i)]
      BY <3>1, <3>2
    <3> QED
      BY <3>3 DEF c
  <2> QED
    BY <2>1, <2>6 DEF a, b
<1> DEFINE q == cur'.pdu
           j == cur'.payload_written
<1>15. /\ Least(j, Padded(q)) = Padded(q) /\ cur'.wire = Frame(q, Padded(q))
       /\ cur'.digest = IF s'.data_digest THEN cur'.wire ELSE << >>
       /\ cur'.trailer = Trailer(q, IF j <= Padded(q) THEN 0 ELSE j - Padded(q))
       /\ j <= Padded(q) + (IF s'.data_digest /\ (q.inline > 0 \/ q.payload_len > 0) THEN 4 ELSE 0)
  <2>1. q = p /\ j = k + n
    BY <1>2
  <2>2. cur'.wire = f /\ cur'.digest = f /\ cur'.trailer = Trailer(p, done + n)
    BY <1>2, <1>8, <1>11, <1>14
  <2>3. (IF k + n <= Padded(p) THEN 0 ELSE k + n - Padded(p)) = done + n
    BY <1>3, <1>4, <1>6, <1>9
  <2>4. k + n <= Padded(p) + 4
    BY <1>3, <1>4, <1>9
  <2>5. s'.data_digest /\ (p.inline > 0 \/ p.payload_len > 0)
    BY <1>5, <1>6 DEF Digested
  <2>6. cur'.wire = Frame(p, Padded(p)) /\ s'.data_digest
    BY <2>2, <2>5 DEF f
  <2>7. cur'.digest = cur'.wire
    BY <2>2
  <2> HIDE DEF q, j, p, k, done
  <2>8. Least(j, Padded(q)) = Padded(q) /\ cur'.wire = Frame(q, Padded(q))
    BY <1>7, <2>1, <2>6
  <2>9. cur'.trailer = Trailer(q, IF j <= Padded(q) THEN 0 ELSE j - Padded(q))
    <3> DEFINE x == IF j <= Padded(q) THEN 0 ELSE j - Padded(q)
    <3>1. x = done + n
      BY <1>3, <1>4, <1>9, <2>1, <2>3
    <3> HIDE DEF x
    <3>2. cur'.trailer = Trailer(q, x)
      BY <2>1, <2>2, <3>1
    <3> QED
      BY <3>2 DEF x
  <2>10. j <= Padded(q) + (IF s'.data_digest /\ (q.inline > 0 \/ q.payload_len > 0) THEN 4 ELSE 0)
    <3> DEFINE some == s'.data_digest /\ (q.inline > 0 \/ q.payload_len > 0)
    <3>1. some
      BY <2>1, <2>5
    <3> HIDE DEF some
    <3>2. (IF some THEN 4 ELSE 0) = 4
      BY <3>1
    <3>3. j <= Padded(q) + (IF some THEN 4 ELSE 0)
      BY <2>1, <2>4, <3>2
    <3> QED
      BY <3>3 DEF some
  <2> QED
    BY <2>6, <2>7, <2>8, <2>9, <2>10
<1>16. CurOK'
  BY <1>15 DEF CurOK, Digested
<1> QED
  BY <1>6, <1>16, GotUnchanged DEF FrameInv

\* A PDU is with the target when all of its frame is written.
LEMMA FrameWriteDone ==
  ASSUME TypeInv, FrameInv, WriteDone
  PROVE  FrameInv'
<1> DEFINE p == cur.pdu
           k == cur.payload_written
           m == Merged(cur.pdu, [wire |-> cur.wire, trailer |-> cur.trailer])
<1>1. /\ cur \in Writing
      /\ m.wire = cur.wire /\ m.trailer = cur.trailer
      /\ m.kind = p.kind /\ m.inline = p.inline
      /\ m.payload_len = p.payload_len
      /\ m.payload_offset = p.payload_offset
      /\ DOMAIN got = 1 .. Len(got) /\ DOMAIN got' = 1 .. (Len(got) + 1)
      /\ Len(got) \in Nat
      /\ \A i \in 1 .. Len(got) : got'[i] = got[i]
      /\ got'[Len(got) + 1] = m
  BY DoneFacts
<1> HIDE DEF m
<1>2. p \in Headers /\ k \in Nat /\ cur # None
  BY <1>1, NoneIsNoRecord DEF Writing
<1>3. Padded(p) \in Nat
  BY <1>2, PaddedType
<1>4. k = Padded(p) + (IF HasDigest THEN 4 ELSE 0) /\ cur' = None /\ s' = s
  BY DEF WriteDone
<1>5. HasDigest <=> Digested(p)
  <2>1. k >= Padded(p)
    BY <1>3, <1>4
  <2> QED
    BY <1>1, <2>1, HasDigestFacts DEF FrameInv
<1>6. /\ cur.wire = Frame(p, Least(k, Padded(p)))
      /\ cur.trailer = Trailer(p, IF k <= Padded(p) THEN 0 ELSE k - Padded(p))
  BY <1>2 DEF FrameInv, CurOK
<1>7. Least(k, Padded(p)) = Padded(p)
      /\ (IF k <= Padded(p) THEN 0 ELSE k - Padded(p)) = IF Digested(p) THEN 4 ELSE 0
  <2> HIDE DEF p, k
  <2> QED
    BY <1>2, <1>3, <1>4, <1>5 DEF Least
<1>8. Frame(m, Padded(m)) = Frame(p, Padded(p)) /\ Trailer(m, 4) = Trailer(p, 4)
      /\ (Digested(m) <=> Digested(p))
  <2>1. Padded(m) = Padded(p)
    BY <1>1 DEF Padded
  <2>2. Frame(m, Padded(m)) = Frame(p, Padded(p))
    BY <1>1, <2>1 DEF Frame
  <2>3. Trailer(m, 4) = Trailer(p, 4)
    BY <2>2 DEF Trailer
  <2> QED
    BY <1>1, <2>2, <2>3 DEF Digested
<1>9. Trailer(p, 0) = << >>
  <2>1. 1 .. 0 = {}
    OBVIOUS
  <2> QED
    BY <2>1 DEF Trailer
<1>10. /\ m.kind = "ping" => m.payload_len = 0
       /\ m.kind # "ping" => m.inline = 0
  BY <1>1, <1>2 DEF Headers
<1>11. /\ m.wire = Frame(m, Padded(m))
       /\ m.trailer = IF Digested(m) THEN Trailer(m, 4) ELSE << >>
  BY <1>1, <1>6, <1>7, <1>8, <1>9
<1>12. \A i \in DOMAIN got' :
         /\ got'[i].kind = "ping" => got'[i].payload_len = 0
         /\ got'[i].kind # "ping" => got'[i].inline = 0
         /\ got'[i].wire = Frame(got'[i], Padded(got'[i]))
         /\ got'[i].trailer = IF Digested(got'[i]) THEN Trailer(got'[i], 4) ELSE << >>
  <2> TAKE i \in DOMAIN got'
  <2>1. CASE i = Len(got) + 1
    BY <1>1, <1>10, <1>11, <2>1
  <2>2. CASE i # Len(got) + 1
    <3>1. i \in DOMAIN got /\ got'[i] = got[i]
      BY <1>1, <2>2
    <3> QED
      BY <3>1 DEF FrameInv, GotOK
  <2> QED
    BY <2>1, <2>2
<1>13. GotOK'
  BY <1>4, <1>12 DEF GotOK, Digested
<1>14. CurOK'
  BY <1>4 DEF CurOK
<1> QED
  BY <1>13, <1>14 DEF FrameInv

LEMMA FrameNext == TypeInv /\ FrameInv /\ [Next]_vars => FrameInv'
<1> SUFFICES ASSUME TypeInv, FrameInv, [Next]_vars PROVE FrameInv'
  OBVIOUS
<1>1. ASSUME UNCHANGED vars PROVE FrameInv'
  BY <1>1, FrameUnchanged DEF vars
<1>2. ASSUME NEW len \in Pings, Ping(len) PROVE FrameInv'
  BY <1>2, FrameUnchanged DEF Ping
<1>3. ASSUME Command \/ R2T \/ DataIn \/ Status \/ ReadVector \/ ReadPlain \/ ReadDone
      PROVE  FrameInv'
  <2>1. UNCHANGED <<s, cur, got>>
    BY <1>3 DEF Command, R2T, DataIn, Status, ReadVector, ReadPlain, ReadDone
  <2> QED
    BY <2>1, FrameUnchanged
<1>4. ASSUME Reconnect PROVE FrameInv'
  BY <1>4, FrameNoPdus DEF Reconnect
<1> QED
  BY <1>1, <1>2, <1>3, <1>4, FrameWriteHeader, FrameWritePayload, FrameWritePadding,
     FrameWriteDigest, FrameWriteDone DEF Next, Finished

\* The data, then its padding.
LEMMA Body ==
  ASSUME NEW n \in Nat, NEW a \in Seq(Int), Len(a) = n
  PROVE  a \o Pads(Padding(Len(a))) =
           [k \in 1 .. (n + Padding(n)) |-> IF k <= n THEN a[k] ELSE Pad]
<1> DEFINE b == Pads(Padding(n))
           c == a \o b
<1>1. Padding(n) \in Nat
  BY PaddingType
<1>2. /\ b \in Seq(Int) /\ Len(b) = Padding(n) /\ \A i \in 1 .. Padding(n) : b[i] = Pad
  BY <1>1, PadsType
<1> HIDE DEF b
<1>3. /\ c \in Seq(Int) /\ Len(c) = n + Padding(n)
      /\ \A i \in 1 .. (n + Padding(n)) : c[i] = IF i <= n THEN a[i] ELSE b[i - n]
  <2>1. c \in Seq(Int) /\ Len(c) = Len(a) + Len(b)
    BY <1>2, ConcatProperties
  <2>2. \A i \in 1 .. (Len(a) + Len(b)) : c[i] = IF i <= Len(a) THEN a[i] ELSE b[i - Len(a)]
    BY <1>2, ConcatProperties
  <2> HIDE DEF c
  <2> QED
    BY <1>2, <2>1, <2>2
<1>4. DOMAIN c = 1 .. (n + Padding(n)) /\ c = [k \in DOMAIN c |-> c[k]]
  BY <1>1, <1>3, LenProperties
<1>5. \A i \in 1 .. (n + Padding(n)) : c[i] = IF i <= n THEN a[i] ELSE Pad
  <2> TAKE i \in 1 .. (n + Padding(n))
  <2>1. CASE i <= n
    BY <1>3, <2>1
  <2>2. CASE ~(i <= n)
    <3>1. i - n \in 1 .. Padding(n)
      BY <1>1, <2>2
    <3> QED
      BY <1>2, <1>3, <2>2, <3>1
  <2> QED
    BY <2>1, <2>2
<1> HIDE DEF c
<1>6. c = [k \in 1 .. (n + Padding(n)) |-> IF k <= n THEN a[k] ELSE Pad]
  BY <1>4, <1>5
<1> QED
  BY <1>6 DEF c, b

\* What the target got is what the headers announce: once a PDU is complete,
\* Frame is its whole body.
LEMMA FramesFollow == TypeInv /\ FrameInv => FramesAreExact
<1> SUFFICES ASSUME TypeInv, FrameInv PROVE FramesAreExact
  OBVIOUS
<1> SUFFICES ASSUME NEW i \in DOMAIN got
             PROVE  LET p == got[i]
                        data == IF p.inline > 0 THEN [k \in 1 .. p.inline |-> k - 1]
                                ELSE [k \in 1 .. p.payload_len |-> p.payload_offset + k - 1]
                        body == data \o Pads(Padding(Len(data)))
                    IN  /\ p.wire = body
                        /\ p.trailer = IF s.data_digest /\ body # << >>
                                       THEN [k \in 1 .. 4 |-> [of |-> body, byte |-> k]]
                                       ELSE << >>
  BY DEF FramesAreExact
<1> DEFINE p == got[i]
           data == IF p.inline > 0 THEN [k \in 1 .. p.inline |-> k - 1]
                   ELSE [k \in 1 .. p.payload_len |-> p.payload_offset + k - 1]
           body == data \o Pads(Padding(Len(data)))
<1>1. p \in Frames
  <2>1. got \in Seq(Frames)
    BY DEF TypeInv, TypeOK
  <2> QED
    BY <2>1, LenProperties, ElementOfSeq
<1>2. /\ p.kind = "ping" => p.payload_len = 0
      /\ p.kind # "ping" => p.inline = 0
      /\ p.wire = Frame(p, Padded(p))
      /\ p.trailer = IF Digested(p) THEN Trailer(p, 4) ELSE << >>
  BY DEF FrameInv, GotOK
<1> HIDE DEF p
<1>3. p.inline \in Nat /\ p.payload_len \in Nat /\ p.payload_offset \in Nat
  BY <1>1 DEF Frames
<1>4. /\ body = Frame(p, Padded(p))
      /\ Len(body) = Len(data) + Padding(Len(data))
      /\ body \in Seq(Int)
      /\ Len(data) = IF p.inline > 0 THEN p.inline ELSE p.payload_len
  <2>1. CASE p.inline > 0
    <3> DEFINE a == [k \in 1 .. p.inline |-> k - 1]
    <3>1. a \in [1 .. p.inline -> Int] /\ \A k \in 1 .. p.inline : a[k] = k - 1
      BY <1>3
    <3>2. a \in Seq(Int) /\ Len(a) = p.inline
      BY <1>3, <3>1, FunctionIsSeq
    <3>3. data = a
      BY <2>1
    <3> HIDE DEF a, data
    <3>4. a \o Pads(Padding(Len(a))) =
            [k \in 1 .. (p.inline + Padding(p.inline)) |-> IF k <= p.inline THEN a[k] ELSE Pad]
      BY <1>3, <3>2, Body
    <3>5. Frame(p, Padded(p)) =
            [k \in 1 .. (p.inline + Padding(p.inline)) |-> IF k <= p.inline THEN k - 1 ELSE Pad]
      BY <2>1 DEF Frame
    <3>6. Padding(p.inline) \in Nat
      BY <1>3, PaddingType
    <3>7. body = Frame(p, Padded(p))
      BY <1>3, <3>1, <3>3, <3>4, <3>5, <3>6
    <3>8. Pads(Padding(Len(a))) \in Seq(Int) /\ Len(Pads(Padding(Len(a)))) = Padding(Len(a))
      BY <3>2, <3>6, PadsType
    <3>9. body \in Seq(Int) /\ Len(body) = Len(a) + Padding(Len(a))
      <4> DEFINE b == Pads(Padding(Len(a)))
      <4>1. body = a \o b
        BY <3>3
      <4>2. b \in Seq(Int) /\ Len(b) = Padding(Len(a))
        BY <3>8
      <4> HIDE DEF b
      <4>3. a \o b \in Seq(Int) /\ Len(a \o b) = Len(a) + Len(b)
        BY <3>2, <4>2, ConcatProperties
      <4> HIDE DEF body
      <4> QED
        BY <4>1, <4>2, <4>3
    <3> QED
      BY <2>1, <3>2, <3>3, <3>7, <3>9
  <2>2. CASE ~(p.inline > 0)
    <3> DEFINE n == p.payload_len
               a == [k \in 1 .. n |-> p.payload_offset + k - 1]
    <3>1. a \in [1 .. n -> Int] /\ \A k \in 1 .. n : a[k] = p.payload_offset + k - 1
      BY <1>3
    <3>2. a \in Seq(Int) /\ Len(a) = n
      BY <1>3, <3>1, FunctionIsSeq
    <3>3. data = a
      BY <2>2
    <3> HIDE DEF a, data
    <3>4. a \o Pads(Padding(Len(a))) =
            [k \in 1 .. (n + Padding(n)) |-> IF k <= n THEN a[k] ELSE Pad]
      BY <1>3, <3>2, Body
    <3>5. Frame(p, Padded(p)) =
            [k \in 1 .. (n + Padding(n)) |-> IF k <= n THEN p.payload_offset + k - 1 ELSE Pad]
      BY <2>2 DEF Frame, Padded
    <3>6. Padding(n) \in Nat
      BY <1>3, PaddingType
    <3>7. body = Frame(p, Padded(p))
      BY <1>3, <3>1, <3>3, <3>4, <3>5, <3>6
    <3>8. Pads(Padding(Len(a))) \in Seq(Int) /\ Len(Pads(Padding(Len(a)))) = Padding(Len(a))
      BY <3>2, <3>6, PadsType
    <3>9. body \in Seq(Int) /\ Len(body) = Len(a) + Padding(Len(a))
      <4> DEFINE b == Pads(Padding(Len(a)))
      <4>1. body = a \o b
        BY <3>3
      <4>2. b \in Seq(Int) /\ Len(b) = Padding(Len(a))
        BY <3>8
      <4> HIDE DEF b
      <4>3. a \o b \in Seq(Int) /\ Len(a \o b) = Len(a) + Len(b)
        BY <3>2, <4>2, ConcatProperties
      <4> HIDE DEF body
      <4> QED
        BY <4>1, <4>2, <4>3
    <3> QED
      BY <2>2, <3>2, <3>3, <3>7, <3>9
  <2> QED
    BY <2>1, <2>2
<1> HIDE DEF body, data
<1>5. (s.data_digest /\ body # << >>) <=> Digested(p)
  <2> DEFINE n == Len(data)
  <2>1. n \in Nat /\ (n > 0 <=> p.inline > 0 \/ p.payload_len > 0)
    BY <1>3, <1>4
  <2> HIDE DEF n
  <2>2. Padding(n) \in Nat /\ (n = 0 => Padding(n) = 0)
    BY <2>1, PaddingType
  <2>3. Len(body) = n + Padding(n)
    BY <1>4 DEF n
  <2>4. body = << >> <=> Len(body) = 0
    BY <1>4, EmptySeq
  <2>5. body # << >> <=> n > 0
    BY <2>1, <2>2, <2>3, <2>4
  <2> QED
    BY <2>1, <2>5 DEF Digested
<1>6. Trailer(p, 4) = [k \in 1 .. 4 |-> [of |-> body, byte |-> k]]
  BY <1>4 DEF Trailer
<1>7. p.wire = body
  BY <1>2, <1>4
<1>8. p.trailer = IF s.data_digest /\ body # << >>
                  THEN [k \in 1 .. 4 |-> [of |-> body, byte |-> k]]
                  ELSE << >>
  BY <1>2, <1>5, <1>6
<1> QED
  BY <1>7, <1>8 DEF body, data, p

\* Whatever parts the socket takes a PDU in, of whatever length, and whatever
\* buffers its data is spread over, the target gets the bytes its header
\* announces, their padding and a digest over both (iscsi_write_to_socket).
THEOREM FramesCorrect == Spec => []FramesAreExact
<1>1. Init => TypeInv /\ FrameInv
  BY TypeInit DEF Init, FrameInv, CurOK, GotOK
<1>2. TypeInv /\ FrameInv /\ [Next]_vars => (TypeInv /\ FrameInv)'
  BY TypeNext, FrameNext
<1>3. TypeInv /\ FrameInv => FramesAreExact
  BY FramesFollow
<1> QED
  BY <1>1, <1>2, <1>3, PTL DEF Spec

-----------------------------------------------------------------------------
(* The PDUs of a connection *)

PdusInv == TilesOK /\ BurstOK /\ Settled

\* What stands where among all PDUs.
LEMMA StackAt ==
  ASSUME NEW g \in Seq(Frames), \A i \in DOMAIN g : Header(g[i]) \in Headers,
         NEW c \in Seq(Headers), NEW o \in Seq(Headers)
  PROVE  /\ Stack(g, c, o) \in Seq(Headers)
         /\ Len(Stack(g, c, o)) = Len(g) + Len(c) + Len(o)
         /\ \A i \in 1 .. Len(g) : Stack(g, c, o)[i] = Header(g[i])
         /\ \A i \in 1 .. Len(c) : Stack(g, c, o)[Len(g) + i] = c[i]
         /\ \A i \in 1 .. Len(o) : Stack(g, c, o)[Len(g) + Len(c) + i] = o[i]
<1> DEFINE h == [i \in DOMAIN g |-> Header(g[i])]
           x == h \o c
           q == x \o o
<1>1. Len(g) \in Nat /\ Len(c) \in Nat /\ Len(o) \in Nat /\ DOMAIN g = 1 .. Len(g)
  BY LenProperties
<1>2. /\ h \in Seq(Headers) /\ Len(h) = Len(g)
      /\ \A i \in 1 .. Len(g) : h[i] = Header(g[i])
  <2>1. h \in [1 .. Len(g) -> Headers]
    BY <1>1
  <2> QED
    BY <1>1, <2>1, FunctionIsSeq
<1> HIDE DEF h
<1>3. /\ x \in Seq(Headers) /\ Len(x) = Len(g) + Len(c)
      /\ \A i \in 1 .. (Len(g) + Len(c)) : x[i] = IF i <= Len(g) THEN h[i] ELSE c[i - Len(g)]
  <2>1. /\ h \o c \in Seq(Headers) /\ Len(h \o c) = Len(h) + Len(c)
        /\ \A i \in 1 .. (Len(h) + Len(c)) :
             (h \o c)[i] = IF i <= Len(h) THEN h[i] ELSE c[i - Len(h)]
    BY <1>2, ConcatProperties
  <2> QED
    BY <1>2, <2>1
<1> HIDE DEF x
<1>4. /\ q \in Seq(Headers) /\ Len(q) = Len(x) + Len(o)
      /\ \A i \in 1 .. (Len(x) + Len(o)) : q[i] = IF i <= Len(x) THEN x[i] ELSE o[i - Len(x)]
  <2>1. x \in Seq(Headers)
    BY <1>3
  <2>2. /\ x \o o \in Seq(Headers) /\ Len(x \o o) = Len(x) + Len(o)
        /\ \A i \in 1 .. (Len(x) + Len(o)) :
             (x \o o)[i] = IF i <= Len(x) THEN x[i] ELSE o[i - Len(x)]
    BY <2>1, ConcatProperties
  <2> QED
    BY <2>2
<1>5. Stack(g, c, o) = q
  BY DEF Stack, q, x, h
<1> HIDE DEF q
<1>6. \A i \in 1 .. Len(g) : q[i] = Header(g[i])
  <2> TAKE i \in 1 .. Len(g)
  <2>1. /\ i \in 1 .. (Len(g) + Len(c)) /\ i <= Len(g)
        /\ i \in 1 .. (Len(x) + Len(o)) /\ i <= Len(x)
    BY <1>1, <1>3
  <2>2. q[i] = x[i]
    BY <1>4, <2>1
  <2>3. x[i] = h[i]
    BY <1>3, <2>1
  <2> QED
    BY <1>2, <2>2, <2>3
<1>7. \A i \in 1 .. Len(c) : q[Len(g) + i] = c[i]
  <2> TAKE i \in 1 .. Len(c)
  <2> DEFINE j == Len(g) + i
  <2>1. /\ j \in 1 .. (Len(g) + Len(c)) /\ ~(j <= Len(g)) /\ j - Len(g) = i
        /\ j \in 1 .. (Len(x) + Len(o)) /\ j <= Len(x)
    BY <1>1, <1>3
  <2> HIDE DEF j
  <2>2. q[j] = x[j]
    BY <1>4, <2>1
  <2>3. x[j] = c[j - Len(g)]
    BY <1>3, <2>1
  <2>4. q[j] = c[i]
    BY <2>1, <2>2, <2>3
  <2> QED
    BY <2>4 DEF j
<1>8. \A i \in 1 .. Len(o) : q[Len(g) + Len(c) + i] = o[i]
  <2> TAKE i \in 1 .. Len(o)
  <2> DEFINE j == Len(g) + Len(c) + i
             l == Len(x)
  <2>1. l \in Nat /\ l = Len(g) + Len(c)
    BY <1>1, <1>3
  <2>2. j \in 1 .. (l + Len(o)) /\ ~(j <= l) /\ j - l = i
    BY <1>1, <2>1
  <2> HIDE DEF j
  <2>3. q[j] = o[j - l]
    BY <1>4, <2>2
  <2>4. q[j] = o[i]
    BY <2>2, <2>3
  <2> QED
    BY <2>4 DEF j
<1>9. Len(q) = Len(g) + Len(c) + Len(o)
  BY <1>3, <1>4
<1> QED
  BY <1>4, <1>5, <1>6, <1>7, <1>8, <1>9

\* What the target got are PDUs that were queued.
LEMMA GotHeaders ==
  ASSUME TypeInv, FrameInv
  PROVE  /\ got \in Seq(Frames) /\ Len(got) \in Nat /\ DOMAIN got = 1 .. Len(got)
         /\ \A i \in DOMAIN got : Header(got[i]) \in Headers
         /\ Current \in Seq(Headers)
         /\ outq \in Seq(Headers)
<1>1. got \in Seq(Frames) /\ outq \in Seq(Headers)
  BY DEF TypeInv, TypeOK
<1>2. Len(got) \in Nat /\ DOMAIN got = 1 .. Len(got)
  BY <1>1, LenProperties
<1>3. ASSUME NEW i \in DOMAIN got PROVE Header(got[i]) \in Headers
  <2>1. got[i] \in Frames
    BY <1>1, <1>2, ElementOfSeq
  <2>2. /\ got[i].kind = "ping" => got[i].payload_len = 0
        /\ got[i].kind # "ping" => got[i].inline = 0
    BY DEF FrameInv, GotOK
  <2> DEFINE p == got[i]
  <2> HIDE DEF p
  <2>3. Header(p) \in Headers
    BY <2>1, <2>2 DEF Header, Headers, Frames, p
  <2> QED
    BY <2>3 DEF p
<1>4. Current \in Seq(Headers)
  <2>1. CASE cur = None
    BY <2>1, EmptySeq DEF Current
  <2>2. CASE cur # None
    <3>1. cur.pdu \in Headers
      BY <2>2 DEF TypeInv, TypeOK, Writing
    <3> QED
      BY <2>2, <3>1 DEF Current
  <2> QED
    BY <2>1, <2>2
<1> QED
  BY <1>1, <1>2, <1>3, <1>4

LEMMA PdusType ==
  ASSUME TypeInv, FrameInv
  PROVE  /\ Pdus \in Seq(Headers)
         /\ Len(Pdus) = Len(got) + Len(Current) + Len(outq)
         /\ \A i \in 1 .. Len(got) : Pdus[i] = Header(got[i])
BY GotHeaders, StackAt DEF Pdus

\* The PDU at the head of the queue moves into outqueue_current.
LEMMA PdusWriteHeader ==
  ASSUME TypeInv, FrameInv, WriteHeader
  PROVE  Pdus' = Pdus
<1> DEFINE g == got
           p == Head(outq)
           o == outq
           t == Tail(outq)
<1>1. g \in Seq(Frames) /\ (\A i \in DOMAIN g : Header(g[i]) \in Headers) /\ o \in Seq(Headers)
      /\ Len(g) \in Nat
  BY GotHeaders
<1>2. cur = None /\ o # << >> /\ got' = g /\ outq' = t
  BY DEF WriteHeader
<1>3. cur' \in Writing /\ cur'.pdu = p /\ p \in Headers
  BY HeaderFacts
<1>4. cur' # None
  BY <1>3, NoneIsNoRecord
<1>5. Pdus = Stack(g, << >>, o) /\ Pdus' = Stack(g, <<p>>, t)
  BY <1>2, <1>3, <1>4 DEF Pdus, Current
<1>6. /\ p = o[1] /\ t \in Seq(Headers) /\ Len(t) = Len(o) - 1
      /\ \A i \in 1 .. Len(t) : t[i] = o[i + 1]
      /\ Len(o) \in Nat /\ Len(o) > 0
  BY <1>1, <1>2, HeadTailProperties, EmptySeq, LenProperties
<1> HIDE DEF g, p, o, t
<1>7. <<p>> \in Seq(Headers) /\ Len(<<p>>) = 1 /\ <<p>>[1] = p
  BY <1>3
<1>8. << >> \in Seq(Headers) /\ Len(<< >>) = 0
  BY EmptySeq
<1> DEFINE a == Stack(g, << >>, o)
           c == <<p>>
           b == Stack(g, c, t)
<1>9. /\ a \in Seq(Headers) /\ Len(a) = Len(g) + Len(<< >>) + Len(o)
      /\ \A i \in 1 .. Len(g) : a[i] = Header(g[i])
      /\ \A i \in 1 .. Len(o) : a[Len(g) + Len(<< >>) + i] = o[i]
  BY <1>1, <1>8, StackAt
<1>16. c \in Seq(Headers)
  BY <1>7
<1> HIDE DEF c
<1>10. /\ b \in Seq(Headers) /\ Len(b) = Len(g) + Len(c) + Len(t)
       /\ \A i \in 1 .. Len(g) : b[i] = Header(g[i])
       /\ \A i \in 1 .. Len(c) : b[Len(g) + i] = c[i]
       /\ \A i \in 1 .. Len(t) : b[Len(g) + Len(c) + i] = t[i]
  BY ZenonT(40), <1>1, <1>6, <1>16, StackAt
<1>11. c[1] = p /\ Len(c) = 1
  BY <1>7 DEF c
<1> HIDE DEF a, b
<1>12. Len(a) = Len(g) + Len(o) /\ Len(b) = Len(g) + Len(o)
       /\ \A i \in 1 .. Len(o) : a[Len(g) + i] = o[i]
  BY <1>1, <1>6, <1>8, <1>9, <1>10, <1>11
<1>13. \A i \in 1 .. Len(o) : b[Len(g) + i] = o[i]
  <2> TAKE i \in 1 .. Len(o)
  <2>1. CASE i = 1
    BY <1>1, <1>6, <1>10, <1>11, <2>1
  <2>2. CASE i # 1
    <3>1. i - 1 \in 1 .. Len(t) /\ Len(g) + 1 + (i - 1) = Len(g) + i /\ (i - 1) + 1 = i
      BY <1>1, <1>6, <2>2
    <3>2. b[Len(g) + 1 + (i - 1)] = t[i - 1]
      BY <1>10, <1>11, <3>1
    <3>3. t[i - 1] = o[(i - 1) + 1]
      BY <1>6, <3>1
    <3> QED
      BY <3>1, <3>2, <3>3
  <2> QED
    BY <2>1, <2>2
<1>14. \A i \in 1 .. Len(a) : a[i] = b[i]
  <2> TAKE i \in 1 .. Len(a)
  <2>1. CASE i <= Len(g)
    BY <1>1, <1>9, <1>10, <1>12, <2>1
  <2>2. CASE ~(i <= Len(g))
    <3>1. i - Len(g) \in 1 .. Len(o) /\ Len(g) + (i - Len(g)) = i
      BY <1>1, <1>6, <1>12, <2>2
    <3> QED
      BY <1>12, <1>13, <3>1
  <2> QED
    BY <2>1, <2>2
<1>15. a = b
  BY <1>9, <1>10, <1>12, <1>14, SeqEqual
<1> QED
  BY <1>5, <1>15 DEF a, b, c

\* The PDU that was being written is the last one the target got.
LEMMA PdusWriteDone ==
  ASSUME TypeInv, FrameInv, WriteDone
  PROVE  Pdus' = Pdus
<1> DEFINE g == got
           p == cur.pdu
           m == Merged(cur.pdu, [wire |-> cur.wire, trailer |-> cur.trailer])
           h == [i \in DOMAIN g |-> Header(g[i])]
           k == [i \in DOMAIN got' |-> Header(got'[i])]
<1>1. /\ cur \in Writing /\ Header(m) = p
      /\ DOMAIN g = 1 .. Len(g) /\ DOMAIN got' = 1 .. (Len(g) + 1)
      /\ Len(g) \in Nat
      /\ \A i \in 1 .. Len(g) : got'[i] = g[i]
      /\ got'[Len(g) + 1] = m
  BY DoneFacts
<1>2. cur # None /\ cur' = None /\ outq' = outq
  BY DEF WriteDone
<1>3. p \in Headers /\ outq \in Seq(Headers) /\ \A i \in DOMAIN g : Header(g[i]) \in Headers
  BY <1>1, GotHeaders DEF Writing
<1>4. /\ h \in Seq(Headers) /\ Len(h) = Len(g)
      /\ \A i \in 1 .. Len(g) : h[i] = Header(g[i])
  <2>1. h \in [1 .. Len(g) -> Headers]
    BY <1>1, <1>3
  <2> QED
    BY <1>1, <2>1, FunctionIsSeq
<1> HIDE DEF m
<1>5. \A i \in 1 .. (Len(g) + 1) : k[i] = IF i <= Len(g) THEN h[i] ELSE p
  BY <1>1, <1>4
<1>6. k \in Seq(Headers) /\ Len(k) = Len(g) + 1
  <2>1. k \in [1 .. (Len(g) + 1) -> Headers]
    <3>1. k = [i \in 1 .. (Len(g) + 1) |-> k[i]]
      BY <1>1
    <3>2. \A i \in 1 .. (Len(g) + 1) : k[i] \in Headers
      <4> TAKE i \in 1 .. (Len(g) + 1)
      <4>1. k[i] = IF i <= Len(g) THEN h[i] ELSE p
        BY <1>5
      <4>2. i <= Len(g) => i \in 1 .. Len(g)
        BY <1>1
      <4> HIDE DEF k, h
      <4> QED
        BY <1>3, <1>4, <4>1, <4>2, ElementOfSeq
    <3> HIDE DEF k
    <3> QED
      BY <3>1, <3>2
  <2>2. Len(g) + 1 \in Nat
    BY <1>1
  <2> HIDE DEF k
  <2> QED
    BY <2>1, <2>2, FunctionIsSeq
<1> HIDE DEF h, k, p
<1>7. k = h \o <<p>>
  <2> DEFINE c == <<p>>
  <2>1. c \in Seq(Headers) /\ Len(c) = 1 /\ c[1] = p
    BY <1>3
  <2> HIDE DEF c
  <2>2. /\ h \o c \in Seq(Headers) /\ Len(h \o c) = Len(h) + Len(c)
        /\ \A i \in 1 .. (Len(h) + Len(c)) :
             (h \o c)[i] = IF i <= Len(h) THEN h[i] ELSE c[i - Len(h)]
    BY <1>4, <2>1, ConcatProperties
  <2>3. \A i \in 1 .. Len(k) : (h \o c)[i] = k[i]
    <3> TAKE i \in 1 .. Len(k)
    <3>1. i \in 1 .. (Len(g) + 1) /\ i \in 1 .. (Len(h) + Len(c))
      BY <1>4, <1>6, <2>1
    <3>2. ~(i <= Len(g)) => i - Len(h) = 1
      BY <1>1, <1>4, <3>1
    <3> QED
      BY <1>4, <1>5, <2>1, <2>2, <3>1, <3>2
  <2>4. k = h \o c
    BY <1>4, <1>6, <2>1, <2>2, <2>3, SeqEqual
  <2> QED
    BY <2>4 DEF c
<1>8. Pdus = (h \o <<p>>) \o outq /\ Pdus' = (k \o << >>) \o outq
  BY <1>2 DEF Pdus, Current, Stack, h, k, p
<1>9. k \o << >> = k
  BY <1>6, ConcatEmptySeq
<1> QED
  BY <1>7, <1>8, <1>9

LEMMA AppendLast ==
  ASSUME NEW x \in Seq(Headers), NEW o \in Seq(Headers), NEW p \in Headers
  PROVE  x \o Append(o, p) = (x \o o) \o <<p>>
<1> DEFINE c == <<p>>
<1>1. c \in Seq(Headers) /\ Append(o, p) = o \o c
  BY AppendIsConcat
<1> HIDE DEF c
<1>2. (x \o o) \o c = x \o (o \o c)
  BY <1>1, ConcatAssociative
<1> QED
  BY <1>1, <1>2 DEF c

\* A PDU added to the queue comes after all the others.
LEMMA PdusPing ==
  ASSUME TypeInv, FrameInv, NEW p \in Headers, outq' = Append(outq, p),
         UNCHANGED <<cur, got>>
  PROVE  Pdus' = Pdus \o <<p>>
<1> DEFINE h == [i \in DOMAIN got |-> Header(got[i])]
           x == h \o Current
<1>1. /\ \A i \in DOMAIN got : Header(got[i]) \in Headers
      /\ Current \in Seq(Headers) /\ outq \in Seq(Headers)
      /\ DOMAIN got = 1 .. Len(got) /\ Len(got) \in Nat
  BY GotHeaders
<1>2. h \in Seq(Headers)
  <2>1. h \in [1 .. Len(got) -> Headers]
    BY <1>1
  <2> QED
    BY <1>1, <2>1, FunctionIsSeq
<1>3. x \in Seq(Headers)
  <2> HIDE DEF h
  <2> QED
    BY <1>1, <1>2, ConcatProperties
<1>4. Pdus = x \o outq /\ Pdus' = x \o outq'
  BY DEF Pdus, Current, Stack
<1> HIDE DEF x, h
<1>5. x \o Append(outq, p) = (x \o outq) \o <<p>>
  BY <1>1, <1>3, AppendLast
<1> QED
  BY <1>4, <1>5

\* When nothing is queued, the target has all PDUs, and new ones come after.
LEMMA PdusQuiet ==
  ASSUME TypeInv, FrameInv, cur = None, outq = << >>
  PROVE  /\ Pdus = [i \in DOMAIN got |-> Header(got[i])]
         /\ Len(Pdus) = Len(got)
         /\ UNCHANGED <<cur, got>> => Pdus' = Pdus \o outq'
<1> DEFINE h == [i \in DOMAIN got |-> Header(got[i])]
<1>1. /\ \A i \in DOMAIN got : Header(got[i]) \in Headers
      /\ DOMAIN got = 1 .. Len(got) /\ Len(got) \in Nat
  BY GotHeaders
<1>2. h \in Seq(Headers) /\ Len(h) = Len(got)
  <2>1. h \in [1 .. Len(got) -> Headers]
    BY <1>1
  <2> QED
    BY <1>1, <2>1, FunctionIsSeq
<1>3. Pdus = (h \o << >>) \o << >>
  BY DEF Pdus, Current, Stack
<1>4. UNCHANGED <<cur, got>> => Pdus' = (h \o << >>) \o outq'
  BY DEF Pdus, Current, Stack
<1> HIDE DEF h
<1>5. h \o << >> = h
  BY <1>2, ConcatEmptySeq
<1>6. Pdus = h
  BY <1>3, <1>5
<1> QED
  BY <1>2, <1>4, <1>5, <1>6 DEF h

\* A connection that has seen no PDU has those in the queue.
LEMMA PdusFresh ==
  ASSUME outq' \in Seq(Headers), cur' = None, got' = << >>
  PROVE  Pdus' = outq'
<1> DEFINE h == [i \in DOMAIN got' |-> Header(got'[i])]
<1>1. h = << >>
  OBVIOUS
<1>2. Pdus' = (h \o << >>) \o outq'
  BY DEF Pdus, Current, Stack
<1> HIDE DEF h
<1>3. << >> \in Seq(Headers)
  BY EmptySeq
<1>4. << >> \o << >> = << >> /\ << >> \o outq' = outq'
  BY <1>3, ConcatEmptySeq
<1> QED
  BY <1>1, <1>2, <1>4

\* The same PDUs on the same session.
LEMMA PdusKept ==
  ASSUME PdusInv, Pdus' = Pdus, s' = s, req' = req, status # "idle",
         Settled'
  PROVE  PdusInv'
<1>1. TilesOK'
  BY DEF PdusInv, TilesOK
<1>2. BurstOK'
  BY DEF PdusInv, BurstOK
<1> QED
  BY <1>1, <1>2 DEF PdusInv

LEMMA PdusUnchanged ==
  ASSUME PdusInv, UNCHANGED <<s, req, outq, cur, got>>,
         status' # "idle" => status # "idle", Settled'
  PROVE  PdusInv'
<1>1. Pdus' = Pdus
  BY DEF Pdus, Current
<1>2. CASE status' = "idle"
  BY <1>2 DEF PdusInv, TilesOK, BurstOK
<1>3. CASE status' # "idle"
  BY <1>1, <1>3, PdusKept
<1> QED
  BY <1>2, <1>3

\* The PDUs of the command, in the first and in every later session.
LEMMA PdusIssued ==
  ASSUME TypeInv, NEW r, IsTask(r), s' \in Sessions, req' = r,
         outq' = CommandPdus(s', r), cur' = None, got' = << >>,
         status' = "active"
  PROVE  PdusInv'
<1>1. LET q == CommandPdus(s', r)
      IN  /\ q \in Seq(Headers)
          /\ Tiled(q)
          /\ Total(Lengths(q)) <= (IF r.xfer_dir = "write" THEN r.expxferlen ELSE 0)
          /\ WithinLimits(s', q)
  BY CommandFacts
<1>2. Pdus' = outq'
  BY <1>1, PdusFresh
<1> DEFINE q == Pdus'
<1>3. /\ Tiled(q)
      /\ Total(Lengths(q)) <= (IF r.xfer_dir = "write" THEN r.expxferlen ELSE 0)
      /\ WithinLimits(s', q)
  BY <1>1, <1>2
<1>4. TilesOK'
  BY <1>3 DEF TilesOK
<1>5. BurstOK'
  BY <1>3 DEF BurstOK
<1>6. Settled'
  BY DEF Settled
<1> QED
  BY <1>4, <1>5, <1>6 DEF PdusInv

\* PDUs that the target asked for, or that have no data, come after the others.
LEMMA PdusMore ==
  ASSUME TypeInv, FrameInv, PdusInv, NEW b \in Seq(Headers),
         Pdus' = Pdus \o b, s' = s, req' = req,
         status = "active", status' = "active",
         \A i \in 1 .. Len(b) :
           /\ ~Unasked(b[i])
           /\ b[i].kind # "command"
           /\ b[i].payload_len <= s.target_max_recv_data_segment_length
           /\ b[i].payload_len > 0 =>
                b[i].payload_offset = Total(Lengths(Pdus)) + Sums(Lengths(b))[i - 1],
         Total(Lengths(Pdus)) + Total(Lengths(b))
           <= (IF req.xfer_dir = "write" THEN req.expxferlen ELSE 0)
  PROVE  PdusInv'
<1> DEFINE a == Pdus
           c == a \o b
<1>1. a \in Seq(Headers) /\ s \in Sessions
  BY PdusType DEF TypeInv, TypeOK
<1>2. Tiled(a) /\ WithinLimits(s, a)
  BY DEF PdusInv, TilesOK, BurstOK
<1> HIDE DEF a
<1>3. \A i \in 1 .. Len(b) : b[i].payload_len > 0 =>
        b[i].payload_offset = Total(Lengths(a)) + Sums(Lengths(b))[i - 1]
  BY DEF a
<1>4. Tiled(c) /\ Total(Lengths(c)) = Total(Lengths(a)) + Total(Lengths(b))
  BY <1>1, <1>2, <1>3, TiledConcat
<1>5. WithinLimits(s, c)
  BY <1>1, <1>2, WithinConcat
<1>6. Pdus' = c
  BY DEF a
<1> HIDE DEF c
<1>7. Total(Lengths(c)) <= (IF req.xfer_dir = "write" THEN req.expxferlen ELSE 0)
  BY <1>4 DEF a
<1>8. TilesOK'
  BY <1>4, <1>6, <1>7 DEF TilesOK
<1>9. BurstOK'
  BY <1>5, <1>6 DEF BurstOK
<1>10. Settled'
  BY DEF Settled
<1> QED
  BY <1>8, <1>9, <1>10 DEF PdusInv

LEMMA TotalType ==
  ASSUME NEW a \in Seq(Headers)
  PROVE  Total(Lengths(a)) \in Nat
<1>1. Lengths(a) \in Seq(Nat)
  BY LengthsConcat
<1>2. Len(Lengths(a)) \in Nat /\ Sums(Lengths(a)) \in [0 .. Len(Lengths(a)) -> Nat]
  BY <1>1, LenProperties, SumsFacts
<1> QED
  BY <1>2 DEF Total

LEMMA BurstPing ==
  ASSUME TypeInv, FrameInv, PdusInv, NEW len \in Pings, Ping(len)
  PROVE  PdusInv'
<1> DEFINE p == [ kind |-> "ping", ttt |-> "none", datasn |-> 0,
                  payload_offset |-> 0, payload_len |-> 0,
                  inline |-> len, final |-> TRUE ]
           b == <<p>>
<1>1. len \in Nat
  BY TransferAssumption
<1>2. p \in Headers /\ p.payload_len = 0 /\ p.kind = "ping"
  BY <1>1 DEF Headers
<1>3. /\ status = "active" /\ outq' = Append(outq, p)
      /\ UNCHANGED <<s, req, status, cur, got>>
  BY DEF Ping
<1> HIDE DEF p
<1>4. Pdus' = Pdus \o b
  BY <1>2, <1>3, PdusPing
<1>5. b \in Seq(Headers) /\ Len(b) = 1 /\ b[1] = p
  BY <1>2
<1>6. Lengths(b) = <<0>>
  BY <1>2, <1>5 DEF Lengths
<1>7. Total(Lengths(b)) = 0
  BY <1>6, TotalOne
<1> HIDE DEF b
<1>8. s.target_max_recv_data_segment_length \in Nat
  BY TransferAssumption DEF TypeInv, TypeOK
<1>9. \A i \in 1 .. Len(b) :
        /\ ~Unasked(b[i])
        /\ b[i].kind # "command"
        /\ b[i].payload_len <= s.target_max_recv_data_segment_length
        /\ b[i].payload_len > 0 =>
             b[i].payload_offset = Total(Lengths(Pdus)) + Sums(Lengths(b))[i - 1]
  BY <1>2, <1>5, <1>8 DEF Unasked
<1>10. Total(Lengths(Pdus)) \in Nat
  BY PdusType, TotalType
<1>11. Total(Lengths(Pdus)) <= (IF req.xfer_dir = "write" THEN req.expxferlen ELSE 0)
  BY <1>3 DEF PdusInv, TilesOK
<1>12. Total(Lengths(Pdus)) + Total(Lengths(b))
         <= (IF req.xfer_dir = "write" THEN req.expxferlen ELSE 0)
  BY <1>7, <1>10, <1>11
<1> QED
  BY <1>3, <1>4, <1>5, <1>9, <1>12, PdusMore

\* What the target has, when nothing is on its way, is all that was queued.
LEMMA QuietReceived ==
  ASSUME TypeInv, FrameInv, cur = None, outq = << >>
  PROVE  Received = Total(Lengths(Pdus))
<1>1. Pdus = [i \in DOMAIN got |-> Header(got[i])]
  BY PdusQuiet
<1>2. \A i \in DOMAIN got : Header(got[i]).payload_len = got[i].payload_len
  BY DEF Header
<1>3. Lengths(Pdus) = Lengths(got)
  BY <1>1, <1>2 DEF Lengths
<1> QED
  BY <1>3 DEF Received

LEMMA BurstR2T ==
  ASSUME TypeInv, FrameInv, PdusInv, R2T
  PROVE  PdusInv'
<1>1. PICK len \in Nat :
        /\ Received + len <= req.expxferlen
        /\ outq' \in Seq(Headers)
        /\ \A i \in 1 .. Len(outq') :
             /\ outq'[i].kind = "data" /\ outq'[i].ttt = "r2t"
             /\ outq'[i].payload_len <= s.target_max_recv_data_segment_length
             /\ outq'[i].payload_offset = Received + Sums(Lengths(outq'))[i - 1]
        /\ Total(Lengths(outq')) = len
  BY R2TFacts
<1>2. /\ cur = None /\ outq = << >> /\ status = "active" /\ req.xfer_dir = "write"
      /\ UNCHANGED <<s, req, status, cur, got>>
  BY DEF R2T, Quiet
<1> DEFINE b == outq'
<1>3. Pdus' = Pdus \o b
  BY <1>2, PdusQuiet
<1>4. Received = Total(Lengths(Pdus))
  BY <1>2, QuietReceived
<1>5. \A i \in 1 .. Len(b) :
        /\ ~Unasked(b[i])
        /\ b[i].kind # "command"
        /\ b[i].payload_len <= s.target_max_recv_data_segment_length
        /\ b[i].payload_len > 0 =>
             b[i].payload_offset = Total(Lengths(Pdus)) + Sums(Lengths(b))[i - 1]
  BY <1>1, <1>4 DEF Unasked
<1>6. Total(Lengths(Pdus)) + Total(Lengths(b))
        <= (IF req.xfer_dir = "write" THEN req.expxferlen ELSE 0)
  BY <1>1, <1>2, <1>4
<1>7. b \in Seq(Headers)
  BY <1>1
<1> HIDE DEF b
<1> QED
  BY <1>2, <1>3, <1>5, <1>6, <1>7, PdusMore

LEMMA PdusNext == TypeInv /\ FrameInv /\ PdusInv /\ [Next]_vars => PdusInv'
<1> SUFFICES ASSUME TypeInv, FrameInv, PdusInv, [Next]_vars PROVE PdusInv'
  OBVIOUS
<1>1. ASSUME UNCHANGED vars PROVE PdusInv'
  <2>1. Settled'
    BY <1>1 DEF PdusInv, Settled, vars
  <2> QED
    BY <1>1, <2>1, PdusUnchanged DEF vars
<1>2. ASSUME Command PROVE PdusInv'
  <2>1. PICK c \in Calls :
          /\ Request(c) # NULL
          /\ req' = Request(c)
          /\ outq' = CommandPdus(s, Request(c))
    BY <1>2 DEF Command
  <2>2. status = "idle" /\ status' = "active" /\ UNCHANGED <<s, cur, got>>
    BY <1>2 DEF Command
  <2>3. cur = None /\ got = << >> /\ s \in Sessions
    BY <2>2 DEF TypeInv, TypeOK
  <2>4. IsTask(Request(c))
    BY <2>1, RequestType
  <2> DEFINE r == Request(c)
  <2> HIDE DEF r
  <2>5. IsTask(r) /\ req' = r /\ outq' = CommandPdus(s', r) /\ s' \in Sessions
        /\ cur' = None /\ got' = << >>
    BY <2>1, <2>2, <2>3, <2>4 DEF r
  <2> QED
    BY <2>2, <2>5, PdusIssued
<1>3. ASSUME Reconnect PROVE PdusInv'
  <2>1. /\ status \in {"active", "failed"} /\ s' \in Sessions /\ status' = "active"
        /\ outq' = CommandPdus(s', req) /\ cur' = None /\ got' = << >>
        /\ req' = req
    BY <1>3 DEF Reconnect
  <2>2. IsTask(req)
    BY <2>1 DEF TypeInv, TypeOK
  <2> QED
    BY <2>1, <2>2, PdusIssued
<1>4. ASSUME NEW len \in Pings, Ping(len) PROVE PdusInv'
  BY <1>4, BurstPing
<1>5. ASSUME R2T PROVE PdusInv'
  BY <1>5, BurstR2T
<1>6. ASSUME WriteHeader PROVE PdusInv'
  <2>1. status = "active" /\ UNCHANGED <<s, req, status>>
    BY <1>6 DEF WriteHeader
  <2>2. Settled'
    BY <2>1 DEF Settled
  <2> QED
    BY <1>6, <2>1, <2>2, PdusWriteHeader, PdusKept
<1>7. ASSUME WriteDone PROVE PdusInv'
  <2>1. status = "active" /\ UNCHANGED <<s, req, status>>
    BY <1>7 DEF WriteDone
  <2>2. Settled'
    BY <2>1 DEF Settled
  <2> QED
    BY <1>7, <2>1, <2>2, PdusWriteDone, PdusKept
<1>8. ASSUME WritePayload \/ WritePadding \/ WriteDigest PROVE PdusInv'
  <2>1. /\ UNCHANGED <<s, req, outq, got>> /\ status = "active"
        /\ status' \in {"active", "failed"}
    BY <1>8 DEF WritePayload, WritePadding, WriteDigest, Wrote
  <2>2. cur # None
    BY <1>8 DEF WritePayload, WritePadding, WriteDigest
  <2>3. cur' # None /\ cur'.pdu = cur.pdu
    <3>1. CASE WritePayload
      <4> DEFINE pos == cur.pdu.payload_offset + cur.payload_written
                 count == cur.pdu.payload_len - cur.payload_written
                 bytes == [i \in 1 .. count |-> pos + i - 1]
      <4>1. /\ bytes \in Seq(Int) /\ Len(bytes) = count
            /\ \/ \E n \in 1 .. count : Wrote(bytes, n, vec')
               \/ cur' = cur
        BY <3>1, PayloadFacts
      <4> HIDE DEF bytes
      <4>2. cur \in Writing /\ s.data_digest \in BOOLEAN
        BY <2>2, TransferAssumption DEF TypeInv, TypeOK
      <4>3. ASSUME NEW n \in 1 .. count, Wrote(bytes, n, vec')
            PROVE  cur' \in Writing /\ cur'.pdu = cur.pdu
        BY <4>1, <4>2, <4>3, WroteFacts
      <4> QED
        BY <2>2, <4>1, <4>3, NoneIsNoRecord
    <3>2. CASE WritePadding
      <4> DEFINE left == Padded(cur.pdu) - cur.payload_written
                 bytes == Pads(left)
      <4>1. bytes \in Seq(Int) /\ Len(bytes) = left /\ cur \in Writing
        BY <3>2, PaddingFacts
      <4>2. PICK n \in 1 .. left : Wrote(bytes, n, vec)
        BY <3>2, PaddingFacts
      <4> HIDE DEF bytes, left
      <4>3. s.data_digest \in BOOLEAN
        BY TransferAssumption DEF TypeInv, TypeOK
      <4>4. cur' \in Writing /\ cur'.pdu = cur.pdu
        BY <4>1, <4>2, <4>3, WroteFacts
      <4> QED
        BY <4>4, NoneIsNoRecord
    <3>3. CASE WriteDigest
      BY <3>3, DigestFacts, NoneIsNoRecord
    <3> QED
      BY <1>8, <3>1, <3>2, <3>3
  <2>4. Pdus' = Pdus
    BY <2>1, <2>2, <2>3 DEF Pdus, Current
  <2>5. Settled'
    BY <2>1 DEF Settled
  <2> QED
    BY <2>1, <2>4, <2>5, PdusKept
<1>9. ASSUME DataIn \/ ReadVector \/ ReadPlain \/ ReadDone PROVE PdusInv'
  <2>1. /\ UNCHANGED <<s, req, outq, cur, got>> /\ status = "active"
        /\ status' \in {"active", "failed"}
    BY <1>9 DEF DataIn, Quiet, ReadVector, ReadPlain, ReadDone
  <2>2. Settled'
    BY <2>1 DEF Settled
  <2> QED
    BY <2>1, <2>2, PdusUnchanged
<1>10. ASSUME Status PROVE PdusInv'
  <2>1. /\ UNCHANGED <<s, req, outq, cur, got, incoming>> /\ status = "active"
        /\ cur = None /\ outq = << >> /\ incoming = None
    BY <1>10 DEF Status, Quiet
  <2>2. Settled'
    BY <2>1 DEF Settled
  <2> QED
    BY <2>1, <2>2, PdusUnchanged
<1> QED
  BY <1>1, <1>2, <1>3, <1>4, <1>5, <1>6, <1>7, <1>8, <1>9, <1>10 DEF Next, Finished

LEMMA HeaderFields ==
  ASSUME NEW p
  PROVE  /\ Header(p).kind = p.kind
         /\ Header(p).payload_len = p.payload_len
         /\ Header(p).payload_offset = p.payload_offset
         /\ Header(p).final = p.final
         /\ Unasked(Header(p)) <=> Unasked(p)
BY DEF Header, Unasked

\* What the target got is the beginning of what was queued.
LEMMA GotPrefix ==
  ASSUME TypeInv, FrameInv
  PROVE  /\ Lengths(got) \in Seq(Nat) /\ Len(Lengths(got)) = Len(got)
         /\ Lengths(Pdus) \in Seq(Nat) /\ Len(Lengths(Pdus)) = Len(Pdus)
         /\ UnaskedLengths(got) \in Seq(Nat) /\ Len(UnaskedLengths(got)) = Len(got)
         /\ UnaskedLengths(Pdus) \in Seq(Nat) /\ Len(UnaskedLengths(Pdus)) = Len(Pdus)
         /\ Len(got) \in Nat /\ Len(Pdus) \in Nat /\ Len(got) <= Len(Pdus)
         /\ DOMAIN got = 1 .. Len(got) /\ DOMAIN Pdus = 1 .. Len(Pdus)
         /\ \A i \in 1 .. Len(got) :
              /\ Pdus[i] = Header(got[i])
              /\ Lengths(got)[i] = Lengths(Pdus)[i]
              /\ Lengths(got)[i] = got[i].payload_len
              /\ UnaskedLengths(got)[i] = UnaskedLengths(Pdus)[i]
<1>1. /\ Pdus \in Seq(Headers)
      /\ Len(Pdus) = Len(got) + Len(Current) + Len(outq)
      /\ \A i \in 1 .. Len(got) : Pdus[i] = Header(got[i])
  BY PdusType
<1>2. /\ Len(got) \in Nat /\ DOMAIN got = 1 .. Len(got)
      /\ Current \in Seq(Headers) /\ outq \in Seq(Headers)
  BY GotHeaders
<1>3. Len(Pdus) \in Nat /\ Len(got) <= Len(Pdus) /\ DOMAIN Pdus = 1 .. Len(Pdus)
  BY <1>1, <1>2, LenProperties
<1> DEFINE q == Pdus
<1> HIDE DEF q
<1>4. /\ Lengths(q) \in Seq(Nat) /\ Len(Lengths(q)) = Len(q)
      /\ UnaskedLengths(q) \in Seq(Nat) /\ Len(UnaskedLengths(q)) = Len(q)
  BY <1>1, LengthsConcat DEF q
<1>5. \A i \in 1 .. Len(got) :
        /\ q[i].payload_len = got[i].payload_len
        /\ Unasked(q[i]) <=> Unasked(got[i])
  <2>1. \A i \in 1 .. Len(got) : q[i] = Header(got[i])
    BY <1>1 DEF q
  <2> QED
    BY <2>1, HeaderFields
<1>6. \A i \in 1 .. Len(got) :
        /\ Lengths(got)[i] = got[i].payload_len
        /\ Lengths(q)[i] = q[i].payload_len
        /\ UnaskedLengths(got)[i] = IF Unasked(got[i]) THEN got[i].payload_len ELSE 0
        /\ UnaskedLengths(q)[i] = IF Unasked(q[i]) THEN q[i].payload_len ELSE 0
  <2>1. \A i \in 1 .. Len(got) : i \in DOMAIN q
    BY <1>2, <1>3 DEF q
  <2> QED
    BY <1>2, <2>1 DEF Lengths, UnaskedLengths
<1>7. \A i \in 1 .. Len(got) :
        /\ Lengths(got)[i] = Lengths(q)[i]
        /\ UnaskedLengths(got)[i] = UnaskedLengths(q)[i]
  BY <1>5, <1>6
<1>8. /\ Lengths(got) \in Seq(Nat) /\ Len(Lengths(got)) = Len(got)
      /\ UnaskedLengths(got) \in Seq(Nat) /\ Len(UnaskedLengths(got)) = Len(got)
  <2>1. \A i \in 1 .. Len(got) : Lengths(q)[i] \in Nat /\ UnaskedLengths(q)[i] \in Nat
    <3>1. \A i \in 1 .. Len(got) : i \in 1 .. Len(q)
      BY <1>2, <1>3 DEF q
    <3> QED
      BY <1>4, <3>1, ElementOfSeq
  <2>2. /\ Lengths(got) \in [1 .. Len(got) -> Nat]
        /\ UnaskedLengths(got) \in [1 .. Len(got) -> Nat]
    <3>1. /\ Lengths(got) = [i \in 1 .. Len(got) |-> Lengths(got)[i]]
          /\ UnaskedLengths(got) = [i \in 1 .. Len(got) |-> UnaskedLengths(got)[i]]
      BY <1>2 DEF Lengths, UnaskedLengths
    <3> QED
      BY <1>7, <2>1, <3>1
  <2> QED
    BY <1>2, <2>2, FunctionIsSeq
<1> QED
  BY <1>1, <1>2, <1>3, <1>4, <1>6, <1>7, <1>8 DEF q

LEMMA TilesFollow == TypeInv /\ FrameInv /\ PdusInv => DataTilesTransfer
<1> SUFFICES ASSUME TypeInv, FrameInv, PdusInv, NEW i \in DOMAIN got,
                    got[i].payload_len > 0
             PROVE  /\ got[i].payload_offset = Sums(Lengths(got))[i - 1]
                    /\ got[i].payload_offset + got[i].payload_len <= req.expxferlen
  BY DEF DataTilesTransfer
<1> DEFINE a == Lengths(got)
           b == Lengths(Pdus)
<1>1. /\ a \in Seq(Nat) /\ Len(a) = Len(got)
      /\ b \in Seq(Nat) /\ Len(b) = Len(Pdus)
      /\ Len(got) \in Nat /\ Len(Pdus) \in Nat /\ Len(got) <= Len(Pdus)
      /\ DOMAIN got = 1 .. Len(got) /\ DOMAIN Pdus = 1 .. Len(Pdus)
      /\ \A k \in 1 .. Len(got) :
           /\ Pdus[k] = Header(got[k])
           /\ a[k] = b[k]
           /\ a[k] = got[k].payload_len
  BY GotPrefix
<1>2. got # << >> /\ status # "idle"
  <2>1. got # << >>
    BY <1>1
  <2> QED
    BY <2>1 DEF TypeInv, TypeOK
<1>3. i \in 1 .. Len(got) /\ i \in 1 .. Len(Pdus) /\ i - 1 \in 0 .. Len(got)
      /\ i \in 0 .. Len(b) /\ Len(b) \in i .. Len(b) /\ i \in 1 .. Len(b)
  BY <1>1
<1>4. Pdus[i].payload_len = got[i].payload_len /\ Pdus[i].payload_offset = got[i].payload_offset
  <2>1. Pdus[i] = Header(got[i])
    BY <1>1, <1>3
  <2> QED
    BY <2>1, HeaderFields
<1>5. /\ Tiled(Pdus)
      /\ Total(b) <= (IF req.xfer_dir = "write" THEN req.expxferlen ELSE 0)
  BY <1>2 DEF PdusInv, TilesOK
<1>6. got[i].payload_offset = Sums(b)[i - 1]
  BY <1>1, <1>3, <1>4, <1>5 DEF Tiled
<1> HIDE DEF a, b
<1>7. \A k \in 0 .. Len(a) : Sums(a)[k] = Sums(b)[k]
  BY <1>1, SumsPrefix
<1>8. got[i].payload_offset = Sums(a)[i - 1]
  BY <1>1, <1>3, <1>6, <1>7
<1>9. /\ Sums(b) \in [0 .. Len(b) -> Nat]
      /\ Sums(b)[i] = Sums(b)[i - 1] + b[i]
  BY <1>1, <1>3, SumsFacts
<1>10. Sums(b)[i] <= Total(b)
  BY <1>1, <1>3, SumsGrow DEF Total
<1>11. b[i] = got[i].payload_len
  BY <1>1, <1>3
<1>12. Sums(b)[i - 1] \in Nat /\ b[i] \in Nat /\ Total(b) \in Nat
  <2>1. i - 1 \in 0 .. Len(b) /\ Len(b) \in 0 .. Len(b)
    BY <1>1, <1>3
  <2>2. b[i] \in Nat
    BY <1>1, <1>3, ElementOfSeq
  <2> QED
    BY <1>9, <2>1, <2>2 DEF Total
<1>13. IsTask(req)
  BY <1>2 DEF TypeInv, TypeOK
<1>14. got[i].payload_offset + got[i].payload_len <= req.expxferlen
  <2>1. got[i].payload_offset + got[i].payload_len <= Total(b)
    BY <1>6, <1>9, <1>10, <1>11
  <2>2. got[i].payload_offset + got[i].payload_len > 0
    BY <1>6, <1>11, <1>12
  <2>3. req.xfer_dir = "write"
    <3>1. ~(Total(b) <= 0)
      BY <1>6, <1>11, <1>12, <2>1, <2>2
    <3> QED
      BY <1>5, <3>1
  <2>4. Total(b) <= req.expxferlen
    BY <1>5, <2>3
  <2>5. req.expxferlen \in Nat
    BY <1>13 DEF IsTask
  <2> QED
    BY <1>6, <1>11, <1>12, <2>1, <2>4, <2>5
<1> QED
  BY <1>8, <1>14 DEF a

LEMMA LimitsFollow == TypeInv /\ FrameInv /\ PdusInv => UnsolicitedWithinLimits
<1> SUFFICES ASSUME TypeInv, FrameInv, PdusInv PROVE UnsolicitedWithinLimits
  OBVIOUS
<1> DEFINE a == UnaskedLengths(got)
           b == UnaskedLengths(Pdus)
           ug == {i \in DOMAIN got : Unasked(got[i])}
           up == {i \in DOMAIN Pdus : Unasked(Pdus[i])}
<1>1. /\ a \in Seq(Nat) /\ Len(a) = Len(got)
      /\ b \in Seq(Nat) /\ Len(b) = Len(Pdus)
      /\ Len(got) \in Nat /\ Len(Pdus) \in Nat /\ Len(got) <= Len(Pdus)
      /\ DOMAIN got = 1 .. Len(got) /\ DOMAIN Pdus = 1 .. Len(Pdus)
      /\ \A k \in 1 .. Len(got) : Pdus[k] = Header(got[k]) /\ a[k] = b[k]
  BY GotPrefix
<1>2. /\ s.first_burst_length \in Nat /\ s.target_max_recv_data_segment_length \in Nat
  BY TransferAssumption DEF TypeInv, TypeOK
<1>3. CASE status = "idle"
  <2>1. got = << >>
    BY <1>3 DEF TypeInv, TypeOK
  <2>2. DOMAIN got = {}
    BY <2>1
  <2>3. DOMAIN a = {}
    BY <2>2 DEF UnaskedLengths
  <2> HIDE DEF a
  <2>4. Total(a) = 0
    BY <1>1, <2>3, TotalZero
  <2>5. Total(a) <= s.first_burst_length
    BY <1>2, <2>4
  <2> QED
    BY <1>3, <2>2, <2>5 DEF UnsolicitedWithinLimits, a
<1>4. CASE status # "idle"
  <2>1. WithinLimits(s, Pdus)
    BY <1>4 DEF PdusInv, BurstOK
  <2>2. \A i \in DOMAIN got :
          /\ i \in DOMAIN Pdus
          /\ Pdus[i].payload_len = got[i].payload_len
          /\ Pdus[i].kind = got[i].kind
          /\ Pdus[i].final = got[i].final
          /\ Unasked(Pdus[i]) <=> Unasked(got[i])
    <3> DEFINE q == Pdus
    <3>1. \A i \in DOMAIN got : i \in DOMAIN q /\ q[i] = Header(got[i])
      BY <1>1
    <3> HIDE DEF q
    <3>2. \A i \in DOMAIN got :
            /\ i \in DOMAIN q
            /\ q[i].payload_len = got[i].payload_len
            /\ q[i].kind = got[i].kind
            /\ q[i].final = got[i].final
            /\ Unasked(q[i]) <=> Unasked(got[i])
      BY <3>1, HeaderFields
    <3> QED
      BY <3>2 DEF q
  <2>3. \A i \in ug : i \in up
    BY <2>2
  <2>4. \A i \in DOMAIN got : got[i].payload_len <= s.target_max_recv_data_segment_length
    BY <2>1, <2>2 DEF WithinLimits
  <2>5. Total(a) <= s.first_burst_length
    <3> HIDE DEF a, b
    <3>1. Total(b) <= s.first_burst_length
      BY <2>1 DEF WithinLimits, b
    <3>2. \A k \in 0 .. Len(a) : Sums(a)[k] = Sums(b)[k]
      BY <1>1, SumsPrefix
    <3>3. Len(a) \in 0 .. Len(a) /\ Len(a) \in 0 .. Len(b) /\ Len(b) \in Len(a) .. Len(b)
      BY <1>1
    <3>4. Total(a) = Sums(b)[Len(a)]
      BY <3>2, <3>3 DEF Total
    <3>5. Sums(b)[Len(a)] <= Total(b)
      BY <1>1, <3>3, SumsGrow DEF Total
    <3>6. Sums(b)[Len(a)] \in Nat /\ Total(b) \in Nat
      <4>1. Sums(b) \in [0 .. Len(b) -> Nat] /\ Len(b) \in 0 .. Len(b)
        BY <1>1, <3>3, SumsFacts
      <4> QED
        BY <3>3, <4>1 DEF Total
    <3> QED
      BY <1>2, <3>1, <3>4, <3>5, <3>6
  <2>6. ~s.use_immediate_data =>
          \A i \in ug : got[i].kind = "command" => got[i].payload_len = 0
    BY <2>1, <2>2 DEF WithinLimits
  <2>7. s.use_initial_r2t => \A i, j \in ug : i = j
    BY <2>1, <2>3 DEF WithinLimits
  <2>8. \A i, j \in ug : got[i].final => j <= i
    BY <2>1, <2>2, <2>3 DEF WithinLimits
  <2>9. status = "done" => \E i \in ug : got[i].final
    <3>1. SUFFICES ASSUME status = "done" PROVE \E i \in ug : got[i].final
      OBVIOUS
    <3>2. cur = None /\ outq = << >>
      BY <3>1 DEF PdusInv, Settled
    <3>3. Len(Pdus) = Len(got)
      BY <3>2, PdusQuiet
    <3>4. PICK i \in up : Pdus[i].final
      BY <2>1 DEF WithinLimits
    <3>5. i \in DOMAIN got
      BY <1>1, <3>3
    <3> QED
      BY <2>2, <3>4, <3>5
  <2> QED
    BY <2>4, <2>5, <2>6, <2>7, <2>8, <2>9 DEF UnsolicitedWithinLimits
<1> QED
  BY <1>3, <1>4

LEMMA PdusCorrect == Spec => [](TypeInv /\ FrameInv /\ PdusInv)
<1>1. Init => TypeInv /\ FrameInv /\ PdusInv
  BY TypeInit DEF Init, FrameInv, CurOK, GotOK, PdusInv, TilesOK, BurstOK, Settled
<1>2. (TypeInv /\ FrameInv /\ PdusInv) /\ [Next]_vars => (TypeInv /\ FrameInv /\ PdusInv)'
  BY TypeNext, FrameNext, PdusNext
<1> QED
  BY <1>1, <1>2, PTL DEF Spec

\* For every session and every transfer length, the unsolicited data and the
\* answers to R2Ts of iscsi_scsi_command_async and iscsi_send_data_out go on
\* where the data before them ended, on every connection, and end with the
\* transfer.
THEOREM DataTilesCorrect == Spec => []DataTilesTransfer
<1>1. TypeInv /\ FrameInv /\ PdusInv => DataTilesTransfer
  BY TilesFollow
<1> QED
  BY <1>1, PdusCorrect, PTL

\* No session makes iscsi_scsi_command_async and iscsi_send_data_out send more
\* unsolicited data, or longer segments, than it allows, and the last
\* unsolicited PDU, and no other, has the F bit.
THEOREM UnsolicitedWithinLimitsCorrect == Spec => []UnsolicitedWithinLimits
<1>1. TypeInv /\ FrameInv /\ PdusInv => UnsolicitedWithinLimits
  BY LimitsFollow
<1> QED
  BY <1>1, PdusCorrect, PTL

-----------------------------------------------------------------------------
(* What is read *)

LEMMA HereType ==
  ASSUME TypeInv
  PROVE  Here \in Nat
<1>1. CASE incoming = None
  BY <1>1 DEF Here
<1>2. CASE incoming # None
  <2>1. incoming.data_pos \in Nat /\ incoming.len \in Nat
    BY <1>2 DEF TypeInv, TypeOK, Reading
  <2> QED
    BY <1>2, <2>1 DEF Here, Least
<1> QED
  BY <1>1, <1>2

LEMMA TotalNat ==
  ASSUME NEW iov \in Seq(Nat)
  PROVE  Total(iov) \in Nat
<1>1. Len(iov) \in Nat /\ Sums(iov) \in [0 .. Len(iov) -> Nat]
  BY LenProperties, SumsFacts
<1> QED
  BY <1>1 DEF Total

LEMMA ReadUnchanged ==
  ASSUME ReadOK, UNCHANGED <<req, incoming, indata, mem, answered>>,
         status' # "idle" => status # "idle"
  PROVE  ReadOK'
BY DEF ReadOK, Here

LEMMA ReadCommand ==
  ASSUME TypeInv, Command
  PROVE  ReadOK'
<1>1. PICK c \in Calls :
        /\ Request(c) # NULL
        /\ req' = Request(c)
        /\ mem' = [i \in 1 .. Total(Request(c).iov_in) |-> Garbage]
  BY DEF Command
<1>2. status = "idle" /\ UNCHANGED <<incoming, indata, answered>>
  BY DEF Command
<1>3. incoming = None /\ indata = << >> /\ answered = 0
  BY <1>2 DEF TypeInv, TypeOK
<1>4. IsTask(Request(c))
  BY <1>1, RequestType
<1> DEFINE r == Request(c)
<1>5. Total(r.iov_in) \in Nat
  BY <1>4, TotalNat DEF IsTask
<1>6. req' = r /\ DOMAIN mem' = 1 .. Total(r.iov_in)
  BY <1>1
<1> HIDE DEF r
<1>7. Here' = 0
  BY <1>2, <1>3 DEF Here
<1>8. Len(indata') = 0
  BY <1>2, <1>3
<1> QED
  BY <1>2, <1>3, <1>5, <1>6, <1>7, <1>8 DEF ReadOK

LEMMA ReadReconnect ==
  ASSUME TypeInv, ReadOK, Reconnect
  PROVE  ReadOK'
<1>1. /\ status # "idle" /\ incoming' = None /\ indata' = << >> /\ answered' = 0
      /\ UNCHANGED <<req, mem>>
  BY DEF Reconnect
<1>2. Total(req.iov_in) \in Nat
  BY <1>1, TotalNat DEF TypeInv, TypeOK, IsTask
<1>3. Here' = 0 /\ Len(indata') = 0
  BY <1>1 DEF Here
<1> QED
  BY <1>1, <1>2, <1>3 DEF ReadOK

LEMMA ReadDataIn ==
  ASSUME TypeInv, ReadOK, DataIn
  PROVE  ReadOK'
<1>1. /\ status = "active" /\ incoming = None
      /\ UNCHANGED <<req, status, indata, mem, answered>>
      /\ incoming'.offset = answered /\ incoming'.data_pos = 0
      /\ incoming' # None
  <2>1. incoming'.kind = "data-in" /\ None.kind = "none"
    BY DEF DataIn, None
  <2>2. incoming'.offset = answered /\ incoming'.data_pos = 0
    BY DEF DataIn
  <2> QED
    BY <2>1, <2>2 DEF DataIn, Quiet
<1>2. incoming' \in Reading
  BY <1>1, TypeDataIn DEF TypeInv, TypeOK
<1>3. incoming'.len \in Nat
  BY <1>2 DEF Reading
<1>4. Here = 0 /\ Here' = 0
  BY <1>1, <1>3 DEF Here, Least
<1>5. 1 .. 0 = {}
  OBVIOUS
<1> QED
  BY <1>1, <1>4, <1>5 DEF ReadOK

\* Bytes that go into the buffers go where their position says.
LEMMA ReadReadVector ==
  ASSUME TypeInv, ReadOK, ReadVector
  PROVE  ReadOK'
<1> DEFINE pos == InPosition
           count == incoming.len - incoming.data_pos
<1>1. /\ incoming \in Reading /\ incoming.data_pos <= InSize
      /\ pos = incoming.offset + incoming.data_pos /\ pos \in Nat /\ count \in Nat
      /\ req.iov_in # << >> /\ req.iov_in \in Seq(Nat)
      /\ \/ /\ pos + count <= Total(req.iov_in)
            /\ \E n \in 1 .. count :
                 /\ n \in 1 .. (InSize - incoming.data_pos)
                 /\ incoming' = Took(n)
                 /\ mem' = [k \in DOMAIN mem |->
                              IF k \in (pos + 1) .. (pos + n)
                              THEN Stream[k - pos] ELSE mem[k]]
                 /\ status' = status
         \/ status' = "failed" /\ UNCHANGED <<incoming, mem>>
  BY VectorFacts
<1>2. /\ incoming # None /\ status = "active"
      /\ UNCHANGED <<req, indata, answered>>
  BY DEF ReadVector
<1>3. /\ incoming.offset = answered /\ DOMAIN mem = 1 .. Total(req.iov_in)
      /\ answered + Here <= Total(req.iov_in)
      /\ \A k \in 1 .. (answered + Here) : mem[k] = k - 1
  BY <1>1, <1>2 DEF ReadOK
<1>4. /\ incoming.len \in Nat /\ incoming.data_pos \in Nat /\ incoming.offset \in Nat
      /\ answered \in Nat
  BY <1>1, <1>3 DEF Reading
<1> HIDE DEF pos
<1>5. ASSUME NEW n \in 1 .. count, n \in 1 .. (InSize - incoming.data_pos),
             incoming' = Took(n), pos + count <= Total(req.iov_in),
             mem' = [k \in DOMAIN mem |->
                       IF k \in (pos + 1) .. (pos + n)
                       THEN Stream[k - pos] ELSE mem[k]],
             status' = status
      PROVE  ReadOK'
  <2>1. /\ Took(n) # None /\ Took(n).offset = incoming.offset /\ Took(n).len = incoming.len
        /\ Took(n).data_pos = incoming.data_pos + n
    BY <1>1, <1>5, TookFacts
  <2>2. /\ incoming' # None /\ incoming'.offset = answered
        /\ incoming'.len = incoming.len /\ incoming'.data_pos = incoming.data_pos + n
    BY <1>3, <1>5, <2>1
  <2>3. n \in Nat /\ incoming.data_pos + n <= incoming.len /\ incoming.data_pos < incoming.len
    BY SMTT(20), <1>1, <1>4, <1>5
  <2>4. Here = incoming.data_pos /\ Here' = incoming.data_pos + n
    BY <1>2, <1>4, <2>2, <2>3 DEF Here, Least
  <2>5. pos = answered + incoming.data_pos /\ pos \in Nat
    BY <1>1, <1>3
  <2>6. /\ Len(Stream) = InSize - incoming.data_pos /\ InSize \in Nat
        /\ \A j \in 1 .. Len(Stream) :
             Stream[j] = IF incoming.data_pos + j <= incoming.len
                         THEN incoming.offset + incoming.data_pos + j - 1 ELSE Pad
    BY <1>1, StreamFacts
  <2>7. \A j \in 1 .. n : Stream[j] = pos + j - 1
    <3> TAKE j \in 1 .. n
    <3>1. j \in 1 .. Len(Stream) /\ incoming.data_pos + j <= incoming.len
      <4>1. /\ Len(Stream) = InSize - incoming.data_pos /\ InSize \in Nat
            /\ n \in 1 .. (InSize - incoming.data_pos)
        BY <1>5, <2>6
      <4>2. n \in Nat /\ incoming.data_pos + n <= incoming.len
        BY <2>3
      <4>3. n <= Len(Stream) /\ Len(Stream) \in Int
        BY <1>4, <4>1
      <4>4. j \in Nat /\ 1 <= j /\ j <= n
        BY <4>2
      <4>5. j \in 1 .. Len(Stream)
        BY <4>2, <4>3, <4>4
      <4>6. incoming.data_pos + j <= incoming.len
        BY <1>4, <4>2, <4>4
      <4> QED
        BY <4>5, <4>6
    <3>2. Stream[j] = incoming.offset + incoming.data_pos + j - 1
      BY <2>6, <3>1
    <3>3. pos = incoming.offset + incoming.data_pos
      BY <1>1
    <3> QED
      BY <3>2, <3>3
  <2>8. \A k \in 1 .. (pos + n) : k \in DOMAIN mem /\ mem'[k] = k - 1
    <3> TAKE k \in 1 .. (pos + n)
    <3>1. k \in DOMAIN mem
      <4>1. pos + n <= Total(req.iov_in) /\ Total(req.iov_in) \in Nat
        <5>1. Total(req.iov_in) \in Nat
          BY <1>1, TotalNat
        <5>2. n <= count /\ count \in Nat
          BY <1>1, <1>5
        <5> HIDE DEF count
        <5> QED
          BY <1>5, <2>3, <2>5, <5>1, <5>2
      <4>2. k \in 1 .. Total(req.iov_in)
        BY <2>3, <2>5, <4>1
      <4> QED
        BY <1>3, <4>2
    <3>2. mem'[k] = IF k \in (pos + 1) .. (pos + n) THEN Stream[k - pos] ELSE mem[k]
      BY <1>5, <3>1
    <3>3. CASE k \in (pos + 1) .. (pos + n)
      <4>1. k - pos \in 1 .. n /\ pos + (k - pos) - 1 = k - 1
        BY <2>3, <2>5, <3>3
      <4>2. Stream[k - pos] = pos + (k - pos) - 1
        BY <2>7, <4>1
      <4> QED
        BY <3>1, <3>2, <3>3, <4>1, <4>2
    <3>4. CASE k \notin (pos + 1) .. (pos + n)
      <4>1. k \in 1 .. (answered + Here)
        BY <2>3, <2>4, <2>5, <3>4
      <4> QED
        BY <1>3, <3>1, <3>2, <3>4, <4>1
    <3> QED
      BY <3>3, <3>4
  <2>9. answered + Here' = pos + n /\ pos + n <= Total(req.iov_in)
    <3>1. Total(req.iov_in) \in Nat
      BY <1>1, TotalNat
    <3>2. pos + count <= Total(req.iov_in) /\ n <= count
      BY <1>5, <2>3
    <3> HIDE DEF Here, count
    <3>3. count \in Nat /\ n \in Nat /\ pos \in Nat
      BY <1>1, <2>3, <2>5
    <3>4. answered + Here' = pos + n
      BY <1>4, <2>3, <2>4, <2>5
    <3>5. pos + n <= Total(req.iov_in)
      BY <3>1, <3>2, <3>3
    <3> QED
      BY <3>4, <3>5
  <2>10. DOMAIN mem' = 1 .. Total(req.iov_in)
    BY <1>3, <1>5
  <2> HIDE DEF Here
  <2> QED
    BY <1>1, <1>2, <2>2, <2>8, <2>9, <2>10 DEF ReadOK
<1>6. ASSUME status' = "failed", UNCHANGED <<incoming, mem>>
      PROVE  ReadOK'
  BY <1>2, <1>6, ReadUnchanged
<1> QED
  BY <1>1, <1>5, <1>6 DEF pos

\* Bytes without a buffer are kept in the PDU; padding goes nowhere.
LEMMA ReadReadPlain ==
  ASSUME TypeInv, ReadOK, ReadPlain
  PROVE  ReadOK'
<1>1. PICK n \in 1 .. (InSize - incoming.data_pos) :
        /\ incoming'.offset = incoming.offset
        /\ incoming'.len = incoming.len
        /\ incoming'.data_pos = incoming.data_pos + n
        /\ incoming'.data = IF req.iov_in = << >>
                            THEN incoming.data \o SubSeq(Stream, 1, n)
                            ELSE incoming.data
  BY PlainFacts
<1>2. /\ incoming \in Reading /\ incoming' \in Reading /\ incoming.data_pos <= InSize
  BY PlainFacts
<1>3. /\ incoming # None /\ status = "active" /\ incoming' # None
      /\ UNCHANGED <<req, status, indata, mem, answered>>
      /\ req.iov_in = << >> \/ InSize - incoming.data_pos <= Padding(incoming.len)
  BY <1>2, NoneIsNoRecord DEF ReadPlain
<1>4. /\ incoming.len \in Nat /\ incoming.data_pos \in Nat /\ incoming.offset \in Nat
      /\ incoming.data \in Seq(Int) /\ incoming'.data_pos \in Nat
  BY <1>2 DEF Reading
<1>5. Padding(incoming.len) \in Nat /\ InSize = incoming.len + Padding(incoming.len)
  BY <1>4, PaddingType DEF InSize
<1>6. CASE req.iov_in # << >>
  <2>1. incoming.data_pos >= incoming.len
    BY <1>3, <1>4, <1>5, <1>6
  <2>2. n \in Nat
    BY <1>1, <1>4, <1>5
  <2>3. Here' = Here
    BY <1>1, <1>3, <1>4, <2>1, <2>2 DEF Here, Least
  <2> HIDE DEF Here
  <2> QED
    BY <1>1, <1>3, <1>6, <2>3 DEF ReadOK
<1>7. CASE req.iov_in = << >>
  <2> DEFINE part == SubSeq(Stream, 1, n)
             d == incoming.data
             e == incoming'.data
             k == incoming.data_pos
  <2>1. /\ part \in Seq(Int) /\ Len(part) = n /\ \A j \in 1 .. n : part[j] = Stream[j]
    BY <1>1, <1>2, TookFacts
  <2>2. /\ Len(Stream) = InSize - k
        /\ \A j \in 1 .. Len(Stream) :
             Stream[j] = IF k + j <= incoming.len THEN incoming.offset + k + j - 1 ELSE Pad
    BY <1>2, StreamFacts
  <2>3. Len(d) = k
    BY <1>3, <1>7 DEF TypeInv, VecOK
  <2>4. e = d \o part
    BY <1>1, <1>7
  <2> HIDE DEF part, d, e, k
  <2>5. d \in Seq(Int)
    BY <1>4 DEF d
  <2>6. /\ Len(d \o part) = Len(d) + Len(part)
        /\ \A i \in 1 .. (Len(d) + Len(part)) :
             (d \o part)[i] = IF i <= Len(d) THEN d[i] ELSE part[i - Len(d)]
    BY <2>1, <2>5, ConcatProperties
  <2>7. k \in Nat /\ n \in Nat /\ k + n <= InSize /\ InSize \in Nat
    BY <1>1, <1>4, <1>5 DEF k
  <2>8. \A i \in 1 .. k : d[i] = IF i <= incoming.len THEN incoming.offset + i - 1 ELSE Pad
    BY <1>3, <1>7 DEF ReadOK, d, k
  <2>9. \A i \in 1 .. (k + n) :
          e[i] = IF i <= incoming.len THEN incoming.offset + i - 1 ELSE Pad
    <3> TAKE i \in 1 .. (k + n)
    <3>1. CASE i <= k
      <4>1. e[i] = d[i]
        BY <2>1, <2>3, <2>4, <2>6, <2>7, <3>1
      <4> QED
        BY <2>7, <2>8, <3>1, <4>1
    <3>2. CASE ~(i <= k)
      <4> DEFINE j == i - k
      <4>1. j \in 1 .. n /\ j \in 1 .. Len(Stream) /\ k + j = i
        BY <2>2, <2>7, <3>2
      <4>2. e[i] = part[j]
        BY <2>1, <2>3, <2>4, <2>6, <2>7, <3>2
      <4> HIDE DEF j
      <4>3. part[j] = IF k + j <= incoming.len THEN incoming.offset + k + j - 1 ELSE Pad
        BY <2>1, <2>2, <4>1
      <4>4. incoming.offset + k + j - 1 = incoming.offset + i - 1
        <5>1. k \in Nat /\ j \in Nat /\ k + j = i /\ incoming.offset \in Nat
          BY <1>4, <2>7, <4>1
        <5> QED
          BY <5>1
      <4>5. part[j] = IF i <= incoming.len THEN incoming.offset + i - 1 ELSE Pad
        BY <4>1, <4>3, <4>4
      <4> QED
        BY <4>2, <4>5
    <3> QED
      BY <3>1, <3>2
  <2>10. \A i \in 1 .. incoming'.data_pos :
           incoming'.data[i] = IF i <= incoming'.len THEN incoming'.offset + i - 1 ELSE Pad
    BY <1>1, <2>9 DEF e, k
  <2> QED
    BY <1>1, <1>3, <1>7, <2>10 DEF ReadOK
<1> QED
  BY <1>6, <1>7

\* iscsi_process_scsi_data_in keeps what has no buffer after what it has.
LEMMA ReadReadDone ==
  ASSUME TypeInv, ReadOK, ReadDone
  PROVE  ReadOK'
<1>1. /\ incoming # None /\ status = "active" /\ incoming.data_pos = InSize
      /\ incoming' = None
      /\ UNCHANGED <<req, mem>>
      /\ \/ status' = "failed" /\ UNCHANGED <<indata, answered>>
         \/ /\ indata' = IF req.iov_in = << >>
                         THEN indata \o SubSeq(incoming.data, 1, incoming.len)
                         ELSE indata
            /\ answered' = answered + incoming.len
            /\ UNCHANGED status
  BY DEF ReadDone
<1>2. incoming \in Reading /\ indata \in Seq(Int) /\ answered \in Nat
  BY <1>1 DEF TypeInv, TypeOK
<1>3. /\ incoming.len \in Nat /\ incoming.data_pos \in Nat /\ incoming.offset \in Nat
      /\ incoming.data \in Seq(Int)
  BY <1>2 DEF Reading
<1>4. incoming.len <= incoming.data_pos
  <2>1. Padding(incoming.len) \in Nat
    BY <1>3, PaddingType
  <2> QED
    BY <1>1, <1>3, <2>1 DEF InSize
<1>5. Here = incoming.len /\ Here' = 0
  BY <1>1, <1>3, <1>4 DEF Here, Least
<1>6. /\ incoming.offset = answered
      /\ DOMAIN mem = 1 .. Total(req.iov_in)
      /\ req.iov_in # << >> =>
           /\ answered + incoming.len <= Total(req.iov_in)
           /\ \A k \in 1 .. (answered + incoming.len) : mem[k] = k - 1
      /\ req.iov_in = << >> =>
           /\ Len(indata) = answered
           /\ \A i \in 1 .. answered : indata[i] = i - 1
           /\ \A i \in 1 .. incoming.data_pos :
                incoming.data[i] = IF i <= incoming.len THEN incoming.offset + i - 1 ELSE Pad
  <2> HIDE DEF Here
  <2> QED
    BY <1>1, <1>5 DEF ReadOK
<1>7. Total(req.iov_in) \in Nat
  BY <1>1, TotalNat DEF TypeInv, TypeOK, IsTask
<1>8. req.iov_in # << >> =>
        /\ answered' + Here' <= Total(req.iov_in)
        /\ \A k \in 1 .. (answered' + Here') : mem[k] = k - 1
  <2>1. answered' + Here' \in Nat /\ answered' + Here' <= answered + incoming.len
    <3> HIDE DEF Here
    <3> QED
      BY <1>1, <1>2, <1>3, <1>5
  <2> HIDE DEF Here
  <2> QED
    BY <1>2, <1>3, <1>6, <1>7, <2>1
<1>9. req.iov_in = << >> =>
        /\ Len(indata') = answered'
        /\ \A i \in 1 .. answered' : indata'[i] = i - 1
  <2>1. SUFFICES ASSUME req.iov_in = << >>
                 PROVE  /\ Len(indata') = answered'
                        /\ \A i \in 1 .. answered' : indata'[i] = i - 1
    OBVIOUS
  <2> DEFINE part == SubSeq(incoming.data, 1, incoming.len)
             len == incoming.len
  <2>2. /\ part \in Seq(Int) /\ Len(part) = len
        /\ \A i \in 1 .. len : part[i] = incoming.data[i]
    <3>1. Len(incoming.data) = incoming.data_pos
      BY <1>1, <2>1 DEF TypeInv, VecOK
    <3>2. \A i \in 1 .. len : incoming.data[i] \in Int
      <4>1. \A i \in 1 .. Len(incoming.data) : incoming.data[i] \in Int
        BY <1>3, ElementOfSeq
      <4> QED
        BY <1>3, <1>4, <3>1, <4>1
    <3>3. /\ SubSeq(incoming.data, 1, len) \in Seq(Int)
          /\ Len(SubSeq(incoming.data, 1, len)) = IF 1 <= len THEN len - 1 + 1 ELSE 0
          /\ \A i \in 1 .. (len - 1 + 1) : SubSeq(incoming.data, 1, len)[i] = incoming.data[1 + i - 1]
      <4>1. 1 \in Int /\ len \in Int
        BY <1>3
      <4> QED
        BY <3>2, <4>1, SubSeqProperties
    <3> QED
      BY <1>3, <3>3
  <2>3. \A i \in 1 .. len : part[i] = answered + i - 1
    BY SMTT(20), <1>3, <1>4, <1>6, <2>1, <2>2
  <2>4. \/ indata' = indata /\ answered' = answered
        \/ indata' = indata \o part /\ answered' = answered + len
    BY <1>1, <2>1
  <2> HIDE DEF part
  <2>5. /\ Len(indata \o part) = Len(indata) + Len(part)
        /\ \A i \in 1 .. (Len(indata) + Len(part)) :
             (indata \o part)[i] = IF i <= Len(indata) THEN indata[i]
                                   ELSE part[i - Len(indata)]
    BY <1>2, <2>2, ConcatProperties
  <2>6. Len(indata) = answered /\ \A i \in 1 .. answered : indata[i] = i - 1
    BY <1>6, <2>1
  <2>7. Len(indata \o part) = answered + len
    BY <2>2, <2>5, <2>6
  <2>8. \A i \in 1 .. (answered + len) : (indata \o part)[i] = i - 1
    <3> TAKE i \in 1 .. (answered + len)
    <3>1. (indata \o part)[i] = IF i <= answered THEN indata[i] ELSE part[i - answered]
      BY <2>2, <2>5, <2>6
    <3>2. CASE i <= answered
      BY <1>2, <2>6, <3>1, <3>2
    <3>3. CASE ~(i <= answered)
      <4>1. i - answered \in 1 .. len /\ answered + (i - answered) - 1 = i - 1
        BY <1>2, <1>3, <3>3
      <4>2. part[i - answered] = answered + (i - answered) - 1
        BY <2>3, <4>1
      <4> QED
        BY <3>1, <3>3, <4>1, <4>2
    <3> QED
      BY <3>2, <3>3
  <2> QED
    BY <2>4, <2>6, <2>7, <2>8
<1> HIDE DEF Here
<1> QED
  BY <1>1, <1>6, <1>8, <1>9 DEF ReadOK

LEMMA ReadNext == TypeInv /\ ReadOK /\ [Next]_vars => ReadOK'
<1> SUFFICES ASSUME TypeInv, ReadOK, [Next]_vars PROVE ReadOK'
  OBVIOUS
<1>1. ASSUME UNCHANGED vars PROVE ReadOK'
  BY <1>1, ReadUnchanged DEF vars
<1>2. ASSUME NEW len \in Pings, Ping(len) PROVE ReadOK'
  BY <1>2, ReadUnchanged DEF Ping
<1>3. ASSUME \/ WriteHeader \/ WritePayload \/ WritePadding \/ WriteDigest \/ WriteDone
             \/ R2T \/ Status
      PROVE  ReadOK'
  <2>1. UNCHANGED <<req, incoming, indata, mem, answered>> /\ status # "idle"
    BY <1>3 DEF WriteHeader, WritePayload, WritePadding, WriteDigest, WriteDone, Wrote,
       R2T, Status, Quiet
  <2> QED
    BY <2>1, ReadUnchanged
<1> QED
  BY <1>1, <1>2, <1>3, ReadCommand, ReadDataIn, ReadReadVector, ReadReadPlain,
     ReadReadDone, ReadReconnect DEF Next, Finished

\* A read that is done has no DATA-IN PDU in between.
LEMMA ReadsFollow == TypeInv /\ ReadOK /\ Settled => ReadsLand
<1> SUFFICES ASSUME TypeInv, ReadOK, Settled, status = "done", req.xfer_dir = "read"
             PROVE  IF req.iov_in = << >> THEN indata = [i \in 1 .. answered |-> i - 1]
                    ELSE \A k \in 1 .. answered : mem[k] = k - 1
  BY DEF ReadsLand
<1>1. incoming = None /\ answered \in Nat /\ indata \in Seq(Int)
  BY DEF Settled, TypeInv, TypeOK
<1>2. Here = 0
  BY <1>1 DEF Here
<1>3. CASE req.iov_in = << >>
  <2>1. Len(indata) = answered /\ \A i \in 1 .. answered : indata[i] = i - 1
    BY <1>3 DEF ReadOK
  <2>2. DOMAIN indata = 1 .. answered /\ indata = [i \in DOMAIN indata |-> indata[i]]
    BY <1>1, <2>1, LenProperties
  <2> QED
    BY <1>3, <2>1, <2>2
<1>4. CASE req.iov_in # << >>
  <2>1. \A k \in 1 .. (answered + Here) : mem[k] = k - 1
    BY <1>4 DEF ReadOK
  <2> QED
    BY <1>1, <1>2, <1>4, <2>1
<1> QED
  BY <1>3, <1>4

\* Whatever the sizes of the DATA-IN PDUs, of the buffers and of the parts that
\* iscsi_read_from_socket reads, and however often the connection was lost
\* before: a read that is done has the bytes the target sent, in order, in the
\* buffers of the application or in task->datain.
THEOREM ReadsLandCorrect == Spec => []ReadsLand
<1>1. Init => ReadOK
  BY DEF Init, ReadOK
<1>2. TypeInv /\ ReadOK /\ [Next]_vars => ReadOK'
  BY ReadNext
<1>3. TypeInv /\ FrameInv /\ PdusInv => TypeInv /\ Settled
  BY DEF PdusInv
<1>4. TypeInv /\ ReadOK /\ Settled => ReadsLand
  BY ReadsFollow
<1> QED
  BY <1>1, <1>2, <1>3, <1>4, PdusCorrect, PTL DEF Spec

=============================================================================
