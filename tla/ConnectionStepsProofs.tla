----------------------- MODULE ConnectionStepsProofs ------------------------
(***************************************************************************)
(* Theorems about what Connection promises the application: the callback   *)
(* of iscsi_full_connect_async has one owner until it has run, no request  *)
(* is lost or doubled, the commands stay in the order they were given, and *)
(* the failures of an attempt to reconnect are counted once.  All of them  *)
(* rest on the books of ConnectionProofs, and all of them end where the    *)
(* books do: once a context has gone astray (app.astray: iscsi_service,    *)
(* called from inside a callback, has started a reconnect) a PDU is queued *)
(* whose connect_task is freed, or an old context is forgotten, and        *)
(* nothing is claimed of what follows.                                     *)
(***************************************************************************)
EXTENDS ConnectionProofs

-----------------------------------------------------------------------------
(* The login. *)

\* A redirect, or the first connection, takes the connect_task along, or
\* loses it when connect(2) fails on the spot.
LEMMA RedirectBooks ==
  ASSUME NEW x, NEW p \in Frame, Books(x, <<p>>), p.kind = "login", NEW ct \in Tasks,
         ct.cb = p.ct.cb, x.fd # "connecting", ~x.is_loggedin, NEW ok,
         NEW y, DOMAIN y = Fields,
         \A f \in {"out", "wait", "old", "cmdsn", "app", "tries", "is_loggedin", "pending",
                   "deferred"} : y[f] = x[f],
         "drawn" \in DOMAIN y.tgt, y.tgt.drawn \in Nat,
         IF ok THEN y.fd = "connecting" /\ y.status_cb = ct ELSE y.fd = "none" /\ y.status_cb = NoCt
  PROVE  Books(y, << >>)
<1> DEFINE h == <<p>>
<1>1. /\ y.out = x.out /\ y.wait = x.wait /\ y.old = x.old /\ y.app = x.app /\ y.cmdsn = x.cmdsn
      /\ y.tries = x.tries /\ y.is_loggedin = x.is_loggedin /\ y.pending = x.pending
      /\ y.deferred = x.deferred
  OBVIOUS
<1>2. \A S : Count(h, S) = (IF p \in S THEN 1 ELSE 0) /\ Count(<< >>, S) = 0
  BY CountOne, CountEmpty
<1>3. Books(x, h)
  OBVIOUS
<1> HIDE DEF h
<1>4. /\ Typed(x) /\ Owned(x, h) /\ Requests(x, h) /\ Alone(x, h) /\ Ranked(x)
  BY <1>3 DEF Books
<1>5. p.ct.cb \in {"user", "reconnect"} /\ p.id = 0
  BY FrameIs DEF Carriers, Internal
<1>6. /\ \A cb \in {"user", "reconnect"} : Count(h, Holding(cb)) = IF ct.cb = cb THEN 1 ELSE 0
      /\ \A id \in Reqs : Count(h, For(id)) = 0
      /\ Count(h, Logins) = 1 /\ Count(h, Others) = 0
  BY <1>2, <1>5, CountsAs, ConnectionAssumption DEF Reqs
<1>7. EnteringIn(x, h)
  BY <1>6 DEF EnteringIn
<1>8. Typed(y)
  <2>1. y.status_cb \in Tasks /\ (y.status_cb.cb # "none" <=> y.fd = "connecting")
    BY <1>5 DEF Tasks, NoCt
  <2> QED
    BY <1>1, <1>4, <2>1 DEF Typed
<1>9. Ranked(y)
  BY <1>1, <1>4 DEF Ranked
<1>10. Alone(y, << >>)
  <2>1. PutAside(y, Logins) = PutAside(x, Logins)
    BY <1>1 DEF PutAside
  <2> QED
    BY <1>1, <1>2, <1>4, <1>7, <2>1 DEF Alone
<1>11. \A S : Here(y, S) = Here(x, S) /\ PutAside(y, S) = PutAside(x, S)
  BY <1>1 DEF Here, PutAside
<1>12. x.status_cb.cb = "none"
  BY <1>4 DEF Typed
<1>13. \A cb \in {"user", "reconnect"} : Held(x, cb) = Here(x, Holding(cb)) /\ Here(x, Holding(cb)) \in Nat
  BY <1>4, <1>12, Tallies DEF Held
<1>14. CASE ok
  <2>1. \A cb \in {"user", "reconnect"} :
          Held(y, cb) + Count(<< >>, Holding(cb)) = Held(x, cb) + Count(h, Holding(cb))
    <3> TAKE cb \in {"user", "reconnect"}
    <3>1. Held(y, cb) = Here(x, Holding(cb)) + (IF ct.cb = cb THEN 1 ELSE 0)
      BY <1>11, <1>14 DEF Held
    <3> QED
      BY <1>2, <1>6, <1>13, <3>1
  <2>2. \A id \in Reqs :
         /\ Here(y, For(id)) + Count(<< >>, For(id)) = Here(x, For(id)) + Count(h, For(id))
         /\ x.old # NoOld /\ ~Excused(x, id) => Here(y, For(id)) = 0
    BY <1>2, <1>4, <1>6, <1>11 DEF Requests
  <2>3. Stranded(x) => Accounted(x, h)
    <3>1. ASSUME Stranded(x), ~Accounted(x, h) PROVE FALSE
      <4>1. Len(x.app.conn) + (Held(x, "user") + Count(h, Holding("user"))) + PutAside(x, Holding("user")) = 0
        BY <1>4, <3>1 DEF Owned, Accounted
      <4>2. /\ Held(x, "user") \in Nat /\ PutAside(x, Holding("user")) \in Nat
            /\ Len(x.app.conn) \in Nat /\ Count(h, Holding("user")) \in Nat
        BY <1>4, <1>6, HeldType, Tallies, DoneType
      <4>3. Count(h, Holding("user")) = 0
        BY <4>1, <4>2
      <4>4. ct.cb = "reconnect"
        BY <1>5, <1>6, <4>3
      <4>5. x.old # NoOld
        BY <1>3, <1>2, <1>5, <1>6, <4>4, ReconnectInHand, AheadOne DEF h
      <4> QED
        BY <3>1, <4>5 DEF Stranded
    <3> QED
      BY <3>1
  <2>4. << >> \in Seq(Frame)
    OBVIOUS
  <2> QED
    BY <1>1, <1>3, <1>8, <1>9, <1>10, <2>1, <2>2, <2>3, <2>4, MovedBooks
<1>15. CASE ~ok
  <2>1. \A cb \in {"user", "reconnect"} : Held(y, cb) = Held(x, cb)
    BY <1>11, <1>13, <1>15 DEF Held, NoCt
  <2>2. Requests(y, << >>)
    <3>1. \A id \in Reqs : Excused(y, id) <=> Excused(x, id)
      BY <1>1 DEF Excused
    <3> QED
      BY <1>1, <1>2, <1>4, <1>6, <1>11, <3>1 DEF Requests
  <2>3. Owned(y, << >>)
    <3> DEFINE l == Len(x.app.conn)
               a == Held(x, "user")
               b == PutAside(x, Holding("user"))
               d == Count(h, Holding("user"))
               e == Held(x, "reconnect")
               g == Count(h, Holding("reconnect"))
    <3>1. l \in Nat /\ a \in Nat /\ b \in Nat /\ e \in Nat /\ d \in {0, 1} /\ g \in {0, 1}
          /\ (d = 1 <=> ct.cb = "user") /\ (g = 1 <=> ct.cb = "reconnect")
      BY <1>4, <1>6, HeldType, Tallies, DoneType
    <3>2. /\ e + g <= (IF x.old = NoOld THEN 0 ELSE 1)
          /\ x.old # NoOld => a + d = 0
          /\ l + (a + d) + b = 1 \/ (l + (a + d) + b = 0 /\ Stranded(x))
          /\ PutAside(x, Holding("reconnect")) = 0
      BY <1>4 DEF Owned
    <3>3. /\ Held(y, "user") = a /\ Held(y, "reconnect") = e /\ Len(y.app.conn) = l
          /\ PutAside(y, Holding("user")) = b /\ PutAside(y, Holding("reconnect")) = 0
          /\ Count(<< >>, Holding("user")) = 0 /\ Count(<< >>, Holding("reconnect")) = 0
      BY <1>1, <1>2, <1>11, <2>1, <3>2
    <3>7. d = 1 => x.app.conn = << >> /\ x.old = NoOld
      <4>1. d = 1 => l = 0 /\ a = 0 /\ b = 0 /\ x.old = NoOld
        <5> HIDE DEF l, a, b, d, e, g
        <5> QED
          BY <3>1, <3>2
      <4>2. l = 0 => x.app.conn = << >>
        BY <1>4, EmptySeq, LenProperties DEF Typed
      <4> QED
        BY <4>1, <4>2
    <3> HIDE DEF l, a, b, d, e, g
    <3>4. e + 0 <= (IF x.old = NoOld THEN 0 ELSE 1) /\ (x.old # NoOld => a + 0 = 0)
      BY <3>1, <3>2
    <3>5. d = 0 => l + (a + 0) + b = 1 \/ Stranded(x)
      BY <3>1, <3>2
    <3>6. d = 1 => l + (a + 0) + b = 0
      BY <3>1, <3>2
    <3>8. Stranded(x) => Stranded(y)
      BY <1>1, <1>15 DEF Stranded
    <3>9. d = 1 => Stranded(y)
      <4>1. d = 1 => ~x.pending /\ ~x.deferred
        BY <1>4, <1>7, <3>7 DEF Alone
      <4> QED
        BY <1>1, <1>15, <3>7, <4>1 DEF Stranded
    <3>10. l + (a + 0) + b = 1 \/ (l + (a + 0) + b = 0 /\ Stranded(y))
      <4>1. l + (a + d) + b = 0 => l + (a + 0) + b = 0
        BY <3>1
      <4> QED
        BY <3>1, <3>2, <3>5, <3>6, <3>8, <3>9, <4>1
    <3> QED
      BY <1>1, <3>3, <3>4, <3>10 DEF Owned
  <2>4. << >> \in Seq(Frame)
    OBVIOUS
  <2> QED
    BY <1>8, <1>9, <1>10, <2>2, <2>3, <2>4 DEF Books
<1> QED
  BY <1>14, <1>15

\* e is what x becomes when the login request q is written.
Sent(x, q, e) ==
  /\ DOMAIN e = Fields /\ e.out = << >> /\ e.wait = x.wait \o OfKind(<<q>>, Kinds \ {"pong"})
  /\ DOMAIN e.tgt = DOMAIN x.tgt /\ e.tgt.drawn = x.tgt.drawn
  /\ \A f \in Fields \ {"out", "wait", "tgt", "is_corked"} : e[f] = x[f]

\* A login request is written at once.
LEMMA SentAtOnce ==
  ASSUME NEW x, DOMAIN x = Fields, "drawn" \in DOMAIN x.tgt, x.fd = "up", x.room, ~x.is_corked,
         x.out = << >>, NEW q \in Frame, q.kind = "login"
  PROVE  Sent(x, q, Enqueue(x, q))
<1> DEFINE l == <<q>>
           v == [x EXCEPT !.out = l]
           e == Drain(v)
<1>1. Sorted(<< >>, q) = l
  <2> DEFINE s == << >>
  <2>1. s \in Seq(Frame) /\ s = << >> /\ Len(s) = 0 /\ Append(s, q) = l
    OBVIOUS
  <2> HIDE DEF s
  <2>2. PICK n \in Int, i \in 0 .. Len(s) : Placed(s, q, n, i)
    BY <2>1, SortedFrame
  <2>3. i = 0 /\ n = q.sn
    BY <2>1, <2>2, SMT DEF Placed
  <2>4. Sorted(s, q) = Append(s, [q EXCEPT !.sn = n])
    BY <2>2, <2>3 DEF Placed
  <2>5. [q EXCEPT !.sn = n] = q
    BY <2>3 DEF Frame
  <2> QED
    BY <2>1, <2>4, <2>5
<1>2. l \in Seq(Frame) /\ Len(l) = 1 /\ l # << >> /\ l[1] = q
  OBVIOUS
<1>3. Enqueue(x, q) = e
  BY <1>1 DEF Enqueue
<1>4. \A i \in 1 .. 1 : l[i].kind # "logout"
  BY <1>2
<1> HIDE DEF l
<1>5. /\ DOMAIN v = Fields /\ v.out = l /\ \A f \in Fields \ {"out"} : v[f] = x[f]
  BY DEF Fields, Steady
<1>6. v.wait = x.wait /\ v.tgt = x.tgt /\ v.fd = "up" /\ v.room /\ ~v.is_corked
  BY <1>5 DEF Fields, Steady
<1> HIDE DEF v
<1> DEFINE I == {i \in 1 .. Len(v.out) : v.out[i].kind = "logout"}
           n == IF I # {} THEN Min(I) ELSE 0
           k == IF n = 0 THEN Len(v.out) ELSE n
           o == SubSeq(v.out, k + 1, Len(v.out))
           w == v.wait \o OfKind(SubSeq(v.out, 1, k), Kinds \ {"pong"})
           t == Arrive(v.tgt, SubSeq(v.out, 1, k), v.is_loggedin)
           b == n # 0
           y == [v EXCEPT !.out = o, !.wait = w, !.tgt = t, !.is_corked = b]
<1>7. e = y
  BY <1>2, <1>5, <1>6, Zenon DEF Drain, SelectInSeq
<1>8. k = 1
  BY <1>2, <1>4, <1>5
<1> HIDE DEF n, k
<1>9. SubSeq(v.out, 1, k) = l /\ o = << >>
  <2>1. SubSeq(l, 1, 1) = l /\ SubSeq(l, 1 + 1, 1) = << >>
    <3> DEFINE m == Len(l)
    <3>1. SubSeq(l, 1, m) = l /\ SubSeq(l, m + 1, m) = << >>
      BY <1>2, SubSeqFull, SubSeqEmpty
    <3> QED
      BY <1>2, <3>1
  <2> QED
    BY <1>2, <1>5, <1>8, <2>1
<1>10. DOMAIN t = DOMAIN v.tgt /\ t.drawn = v.tgt.drawn
  <2> DEFINE s == SubSeq(v.out, 1, k)
  <2> HIDE DEF s
  <2>1. DOMAIN Arrive(v.tgt, s, v.is_loggedin) = DOMAIN v.tgt
        /\ Arrive(v.tgt, s, v.is_loggedin).drawn = v.tgt.drawn
    BY <1>6 DEF Arrive
  <2> QED
    BY <2>1 DEF s
<1>11. w = x.wait \o OfKind(l, Kinds \ {"pong"})
  BY <1>6, <1>9
<1> HIDE DEF o, w, t, b
<1>12. /\ DOMAIN y = Fields /\ y.out = o /\ y.wait = w /\ y.tgt = t
       /\ \A f \in Fields \ {"out", "wait", "tgt", "is_corked"} : y[f] = v[f]
  BY <1>5 DEF Fields, Steady
<1> HIDE DEF y, e
<1> QED
  BY <1>3, <1>5, <1>6, <1>7, <1>9, <1>10, <1>11, <1>12 DEF l, Sent

\* iscsi_login_async: the request takes the connect_task along.
LEMMA LoginAsyncBooks ==
  ASSUME NEW x, Ready(x), x.fd = "up", NEW p \in Frame, Books(x, <<p>>), p.kind = "login",
         NEW ct \in Tasks, ct.cb = p.ct.cb, ~LoginRefused(x)
  PROVE  Books(iscsi_login_async(x, ct), << >>)
<1> DEFINE h == <<p>>
           z == Randomize(x)
           y == [z EXCEPT !.login_attempts = @ + 1,
                          !.current_phase = IF User THEN @ ELSE "OPNEG"]
           q == Pdu("login", 0, y.cmdsn, ct)
           e == Enqueue(y, q)
           keys == LoginKeys(y)
           r == [e EXCEPT !.tgt.sent = @ \cup keys]
           l == <<q>>
           t == OfKind(l, Kinds \ {"pong"})
<1>1. iscsi_login_async(x, ct) = r
  BY Zenon DEF iscsi_login_async
<1>2. /\ Typed(x) /\ Requests(x, h) /\ Alone(x, h) /\ Ranked(x)
  BY DEF Books
<1>3. /\ \A S : Count(h, S) = (IF p \in S THEN 1 ELSE 0) /\ Count(<< >>, S) = 0
  BY CountOne, CountEmpty
<1> HIDE DEF h
<1>4. p.ct.cb \in {"user", "reconnect"} /\ p.id = 0
  BY FrameIs DEF Carriers, Internal
<1>5. EnteringIn(x, h) /\ x.out = << >> /\ Count(x.wait, Others) = 0
      /\ (x.old = NoOld => ~x.pending /\ ~x.deferred)
  <2>1. Count(h, Logins) = 1
    BY <1>3, CountsAs
  <2>2. EnteringIn(x, h)
    BY <2>1 DEF EnteringIn
  <2> QED
    BY <1>2, <2>2 DEF Alone
<1>6. /\ DOMAIN z = Fields /\ \A f \in Fields \ {"cmdsn", "tgt"} : z[f] = x[f]
      /\ DOMAIN z.tgt = DOMAIN x.tgt /\ z.tgt.drawn \in Nat /\ z.cmdsn \in Int
  <2>1. x.cmdsn \in Int /\ x.tgt.drawn \in Nat /\ "drawn" \in DOMAIN x.tgt /\ DOMAIN x = Fields
    BY <1>2 DEF Typed
  <2> DEFINE d == x.tgt.drawn + 1
             n == Stride * d
             u == [x.tgt EXCEPT !.drawn = d]
             v == [x EXCEPT !.cmdsn = n, !.tgt = u]
  <2>2. d \in Nat /\ n \in Int
    BY <2>1 DEF Stride
  <2>3. z \in {x, v}
    <3>1. v = [x EXCEPT !.cmdsn = Stride * (x.tgt.drawn + 1), !.tgt.drawn = @ + 1]
      BY <2>1 DEF Fields, Steady
    <3> HIDE DEF v
    <3> QED
      BY <3>1 DEF Randomize
  <2> HIDE DEF z, n, d
  <2>4. DOMAIN u = DOMAIN x.tgt /\ u.drawn = d
    BY <2>1
  <2> HIDE DEF u
  <2>5. DOMAIN v = Fields /\ v.tgt = u /\ v.cmdsn = n /\ \A f \in Fields \ {"cmdsn", "tgt"} : v[f] = x[f]
    BY <2>1 DEF Fields, Steady
  <2> HIDE DEF v
  <2> QED
    BY <2>1, <2>2, <2>3, <2>4, <2>5
<1> HIDE DEF z
<1>7. /\ DOMAIN y = Fields
      /\ \A f \in Fields \ {"cmdsn", "tgt", "login_attempts", "current_phase"} : y[f] = x[f]
      /\ y.tgt = z.tgt /\ y.cmdsn = z.cmdsn
  BY <1>6 DEF Fields, Steady
<1> HIDE DEF y
<1>8. /\ y.out = << >> /\ y.wait = x.wait /\ y.old = x.old /\ y.app = x.app /\ y.fd = "up"
      /\ y.room /\ ~y.is_corked /\ y.pending = x.pending /\ y.deferred = x.deferred
      /\ y.status_cb = x.status_cb /\ y.tries = x.tries
      /\ "drawn" \in DOMAIN y.tgt /\ y.tgt.drawn \in Nat /\ y.cmdsn \in Int
  BY ZenonT(40), <1>2, <1>5, <1>6, <1>7 DEF Ready, Fields, Steady, Typed
<1>9. q \in Frame /\ q.ct.cb = p.ct.cb /\ q.id = p.id /\ q.kind = "login"
  <2>1. ct.cb # "none"
    BY <1>4
  <2>2. q \in Frame /\ q.ct = ct /\ q.id = 0 /\ q.kind = "login"
    BY <1>8, <2>1, ProbeFrame
  <2> HIDE DEF q
  <2> QED
    BY <1>4, <2>2
<1> HIDE DEF q
<1>10. /\ DOMAIN e = Fields /\ e.out = << >> /\ e.wait = x.wait \o t
       /\ DOMAIN e.tgt = DOMAIN y.tgt /\ e.tgt.drawn = y.tgt.drawn
       /\ \A f \in Fields \ {"out", "wait", "tgt", "is_corked"} : e[f] = y[f]
  <2>1. Sent(y, q, e)
    BY <1>7, <1>8, <1>9, SentAtOnce
  <2> HIDE DEF e
  <2> QED
    BY <1>8, <2>1 DEF Sent
<1> HIDE DEF e, keys
<1>11. /\ DOMAIN r = Fields /\ r.out = << >> /\ r.wait = x.wait \o t
       /\ "drawn" \in DOMAIN r.tgt /\ r.tgt.drawn \in Nat
       /\ \A f \in Fields \ {"tgt"} : r[f] = e[f]
  <2> DEFINE u == [e.tgt EXCEPT !.sent = @ \cup keys]
             v == [e EXCEPT !.tgt = u]
  <2>1. r = v
    BY <1>10 DEF Fields, Steady
  <2>2. DOMAIN u = DOMAIN e.tgt /\ u.drawn = e.tgt.drawn
    BY <1>8, <1>10
  <2> HIDE DEF u, r
  <2>3. DOMAIN v = Fields /\ v.tgt = u /\ \A f \in Fields \ {"tgt"} : v[f] = e[f]
    BY <1>10 DEF Fields, Steady
  <2> HIDE DEF v
  <2> QED
    BY <1>8, <1>10, <2>1, <2>2, <2>3 DEF Fields, Steady
<1> HIDE DEF r
<1>12. /\ r.old = x.old /\ r.app = x.app /\ r.fd = "up" /\ r.pending = x.pending
       /\ r.deferred = x.deferred /\ r.status_cb = x.status_cb /\ r.tries = x.tries
       /\ r.cmdsn \in Int
  <2>1. /\ e.old = y.old /\ e.app = y.app /\ e.fd = y.fd /\ e.pending = y.pending
        /\ e.deferred = y.deferred /\ e.status_cb = y.status_cb /\ e.tries = y.tries
        /\ e.cmdsn = y.cmdsn
    BY <1>10 DEF Fields, Steady
  <2>2. /\ r.old = e.old /\ r.app = e.app /\ r.fd = e.fd /\ r.pending = e.pending
        /\ r.deferred = e.deferred /\ r.status_cb = e.status_cb /\ r.tries = e.tries
        /\ r.cmdsn = e.cmdsn
    BY <1>11 DEF Fields, Steady
  <2> QED
    BY <1>8, <2>1, <2>2
<1>13. l \in Seq(Frame) /\ x.wait \in Seq(Frame) /\ \A S : Count(l, S) = IF q \in S THEN 1 ELSE 0
  BY <1>2, <1>9, CountOne DEF Typed
<1>14. /\ t \in Seq(Frame) /\ Thinned(t, l)
       /\ \A S : Count(t, S) = Count(l, S \cap Being(Kinds \ {"pong"}))
  <2> HIDE DEF l
  <2> QED
    BY <1>13, CountOfKind, ThinnedOfKind
<1>15. q \in Being(Kinds \ {"pong"})
  BY <1>9, CountsAs, FrameIs
<1>16. \A S : Count(t, S) = IF q \in S THEN 1 ELSE 0
  BY <1>13, <1>14, <1>15
<1>17. Under(x.wait, t) /\ InOrder(t)
  <2>1. InOrder(l)
    BY DEF InOrder
  <2>2. Under(x.wait, l)
    BY <1>9, UnderOther
  <2> HIDE DEF l, t
  <2> QED
    BY <1>13, <1>14, <2>1, <2>2, ThinnedOrder
<1> HIDE DEF l, t
<1>18. /\ r.wait \in Seq(Frame) /\ \A S : Count(r.wait, S) = Count(x.wait, S) + Count(t, S)
       /\ \A S : Count(x.wait, S) \in Nat /\ Count(t, S) \in {0, 1}
  <2> DEFINE w == x.wait
  <2>1. w \in Seq(Frame)
    BY <1>13
  <2> HIDE DEF w
  <2>2. w \o t \in Seq(Frame) /\ \A S : Count(w \o t, S) = Count(w, S) + Count(t, S)
    BY <1>14, <2>1, CountConcat, ConcatProperties
  <2>3. \A S : Count(w, S) \in Nat
    BY <2>1, CountType
  <2> QED
    BY <1>11, <1>16, <2>2, <2>3 DEF w
<1>19. Typed(r)
  BY SMTT(20), <1>2, <1>11, <1>12, <1>18 DEF Typed, Ready
<1>20. \A S : Here(x, S) = Count(x.wait, S) /\ Here(r, S) = Count(x.wait, S) + Count(t, S)
  <2> TAKE S
  <2>1. Count(x.out, S) = 0 /\ Count(r.out, S) = 0
    BY <1>3, <1>5, <1>11
  <2>2. Count(r.wait, S) = Count(x.wait, S) + Count(t, S) /\ Count(x.wait, S) \in Nat
        /\ Count(t, S) \in Nat
    BY <1>18
  <2> QED
    BY <2>1, <2>2 DEF Here
<1>21. \A cb : Count(t, Holding(cb)) = Count(h, Holding(cb))
  BY <1>3, <1>9, <1>16, CountsAs
<1>22. \A id \in Reqs : Count(t, For(id)) = 0 /\ Count(h, For(id)) = 0
  BY <1>3, <1>4, <1>9, <1>16, CountsAs, ConnectionAssumption DEF Reqs
<1>23. \A cb \in {"user", "reconnect"} :
         Held(r, cb) + Count(<< >>, Holding(cb)) = Held(x, cb) + Count(h, Holding(cb))
  <2> TAKE cb \in {"user", "reconnect"}
  <2> DEFINE S == Holding(cb)
             a == Count(x.wait, S)
             b == Count(t, S)
             d == IF x.status_cb.cb = cb THEN 1 ELSE 0
  <2>1. a \in Nat /\ b \in Nat /\ d \in Nat
    BY <1>18
  <2>2. Held(r, cb) = (a + b) + d /\ Held(x, cb) = a + d /\ Count(h, S) = b /\ Count(<< >>, S) = 0
    BY <1>3, <1>12, <1>20, <1>21 DEF Held
  <2> HIDE DEF a, b, d
  <2>3. ((a + b) + d) + 0 = (a + d) + b
    BY <2>1
  <2> QED
    BY <2>2, <2>3
<1>24. \A id \in Reqs :
         /\ Here(r, For(id)) + Count(<< >>, For(id)) = Here(x, For(id)) + Count(h, For(id))
         /\ x.old # NoOld /\ ~Excused(x, id) => Here(r, For(id)) = 0
  <2> TAKE id \in Reqs
  <2>1. Here(r, For(id)) = Here(x, For(id)) /\ Here(x, For(id)) \in Nat
    BY <1>18, <1>20, <1>22
  <2> QED
    BY <1>2, <1>3, <1>22, <2>1 DEF Requests
<1>25. Alone(r, << >>)
  <2>1. Count(t, Others) = 0
    BY <1>9, <1>16, CountsAs
  <2>2. PutAside(r, Logins) = PutAside(x, Logins)
    BY <1>12 DEF PutAside
  <2> QED
    BY <1>2, <1>3, <1>5, <1>11, <1>12, <1>18, <2>1, <2>2 DEF Alone
<1>26. Ranked(r)
  <2>1. InOrder(x.wait)
    BY <1>2 DEF Ranked, InLine
  <2>2. InOrder(x.wait \o t)
    BY <1>13, <1>14, <1>17, <2>1, InOrderConcat
  <2>3. \A s : InOrder(s) => InLine(s, << >>)
    BY DEF InLine, InOrder, Under
  <2>4. InLine(r.wait, << >>)
    BY <1>11, <2>2, <2>3
  <2> QED
    BY <1>2, <1>11, <1>12, <2>4, NumberedEmpty DEF Ranked
<1>27. ~Stranded(x)
  BY DEF Ready, Stranded
<1>28. << >> \in Seq(Frame)
  OBVIOUS
<1>29. Books(x, h)
  BY DEF h
<1>30. Books(r, << >>)
  BY <1>12, <1>19, <1>23, <1>24, <1>25, <1>26, <1>27, <1>28, <1>29, MovedBooks
<1> QED
  BY <1>1, <1>30

\* What a PDU in hand carries is a connect_task.
LEMMA CtIs ==
  ASSUME NEW p \in Frame
  PROVE  p.ct \in Tasks
BY DEF Frame, Tasks

\* A waiting list without login requests counts none.
LEMMA NoLoginsCounted ==
  ASSUME NEW x, Typed(x), ~HasLogin(x.wait)
  PROVE  Count(x.wait, Logins) = 0
<1>1. Count(x.wait, Logins) = 0 <=> \A i \in DOMAIN x.wait : x.wait[i] \notin Logins
  BY CountType DEF Typed
<1>2. \A i \in DOMAIN x.wait : x.wait[i] \in Frame
  BY LenProperties, ElementOfSeq DEF Typed
<1>3. \A i \in DOMAIN x.wait : x.wait[i] \in Logins <=> x.wait[i].kind = "login"
  BY <1>2, CountsAs
<1> QED
  BY <1>1, <1>3 DEF HasLogin

\* iscsi_login_cb, whatever it is told.
LEMMA LoginCbBooks ==
  ASSUME NEW x, NEW p \in Frame, Books(x, <<p>>), p.kind = "login", x.fd # "connecting",
         Count(x.wait, Logins) = 0, NEW st \in {"GOOD", "ERROR", "REDIRECT"},
         st = "REDIRECT" => ~x.is_loggedin, NEW ok
  PROVE  Books(iscsi_login_cb(x, p.ct, st, ok), << >>)
<1>1. p.ct \in Tasks /\ p.ct.cb \in {"user", "reconnect"}
  BY CtIs, FrameIs DEF Carriers
<1>2. CASE st = "REDIRECT"
  <2> DEFINE late == x.late \/ x.secneg_phase # "OFFER_CHAP"
             v == [x EXCEPT !.is_corked = FALSE, !.proven = FALSE, !.late = late]
             y == iscsi_connect_async(v, p.ct, ok)
  <2>1. DOMAIN x = Fields
    BY DEF Books, Typed
  <2>2. iscsi_login_cb(x, p.ct, st, ok) = y
    BY <1>2 DEF iscsi_login_cb
  <2>3. DOMAIN v = Fields /\ \A f \in Fields \ {"is_corked", "proven", "late"} : v[f] = x[f]
    BY <2>1 DEF Fields, Steady
  <2> HIDE DEF v
  <2>4. /\ DOMAIN y = Fields
        /\ \A f \in Fields \ {"fd", "status_cb", "tgt", "room"} : y[f] = v[f]
        /\ "drawn" \in DOMAIN y.tgt /\ y.tgt.drawn = 0
        /\ y.fd = (IF ok THEN "connecting" ELSE "none")
        /\ y.status_cb = (IF ok THEN p.ct ELSE NoCt)
    BY <2>3 DEF iscsi_connect_async, Fields, Steady
  <2> HIDE DEF y
  <2>5. \A f \in {"out", "wait", "old", "cmdsn", "app", "tries", "is_loggedin", "pending",
                  "deferred"} : y[f] = x[f]
    BY <2>3, <2>4 DEF Fields, Steady
  <2>6. Books(y, << >>)
    BY <1>1, <1>2, <2>4, <2>5, RedirectBooks
  <2> QED
    BY <2>2, <2>6
<1>3. CASE st = "ERROR"
  BY <1>1, <1>3, CtErrorBooks, AheadOne DEF iscsi_login_cb, Results
<1>4. CASE st = "GOOD"
  <2>1. iscsi_login_cb(x, p.ct, st, ok) \in
          {Ask(x, "tur", p.ct), Ask(x, "inq", p.ct), CtCb(x, p.ct, "GOOD")}
    BY <1>4 DEF iscsi_login_cb
  <2>2. /\ Books(Ask(x, "tur", p.ct), << >>) /\ Books(Ask(x, "inq", p.ct), << >>)
    BY <1>1, AskBooks DEF Internal
  <2>3. Books(CtCb(x, p.ct, "GOOD"), << >>)
    BY <1>1, CtGoodBooks
  <2> QED
    BY <2>1, <2>2, <2>3
<1> QED
  BY <1>2, <1>3, <1>4

\* Changes of what the login negotiates.
LEMMA TalkBooks ==
  ASSUME NEW x, NEW h, Books(x, h), x.fd # "none", NEW y, DOMAIN y = Fields,
         \A f \in {"fd", "status_cb", "out", "wait", "old", "cmdsn", "app", "tries", "pending",
                   "deferred"} : y[f] = x[f],
         DOMAIN y.tgt = DOMAIN x.tgt, y.tgt.drawn = x.tgt.drawn
  PROVE  Books(y, h) /\ y.fd = x.fd /\ y.wait = x.wait
<1>1. Typed(x) /\ Alone(x, h)
  BY DEF Books
<1>2. ~Stranded(x)
  BY DEF Stranded
<1>3. /\ y.fd = x.fd /\ y.tries = x.tries /\ y.pending = x.pending /\ y.deferred = x.deferred
      /\ \A f \in {"status_cb", "out", "wait", "old", "cmdsn", "app"} : y[f] = x[f]
  OBVIOUS
<1>4. Books(y, h)
  BY <1>1, <1>2, <1>3, SameBooks DEF Typed, Alone
<1> QED
  BY <1>3, <1>4

\* A login request that is refused.
LEMMA RefusedBooks ==
  ASSUME NEW x, NEW p \in Frame, Books(x, <<p>>), x.fd # "none", NEW ct, LoginRefused(x)
  PROVE  /\ Books(iscsi_login_async(x, ct), <<p>>)
         /\ iscsi_login_async(x, ct).fd = x.fd /\ iscsi_login_async(x, ct).wait = x.wait
<1> DEFINE y == [x EXCEPT !.login_attempts = @ + 1]
<1>1. iscsi_login_async(x, ct) = y
  BY Zenon DEF iscsi_login_async
<1>2. /\ DOMAIN y = Fields /\ y.tgt = x.tgt
      /\ \A f \in {"fd", "status_cb", "out", "wait", "old", "cmdsn", "app", "tries", "pending",
                   "deferred"} : y[f] = x[f]
  BY DEF Books, Typed, Fields, Steady
<1> HIDE DEF y
<1> QED
  BY <1>1, <1>2, TalkBooks

\* iscsi_process_login_reply.
LEMMA ReplyBooks ==
  ASSUME NEW x, Answered(x), NEW p \in Frame, Books(x, <<p>>), p.kind = "login",
         NEW r \in GoodReplies(x) \cup OddReplies(x), NEW ok,
         x.fd = "up" \/ (x.current_phase = "OPNEG" /\ r \in GoodReplies(x))
  PROVE  Books(iscsi_process_login_reply(x, p, r, ok), << >>)
<1> DEFINE h == <<p>>
           v == Verdict(x, r)
           y == IF r.status = "garbled" THEN x ELSE ParseKeys(x, r)
           stage == IF r.transit THEN r.nsg ELSE y.current_phase
           skewed == y.skewed \/ Skewed(x, r)
           z == [y EXCEPT !.current_phase = stage, !.skewed = skewed]
           d == CHOOSE e \in z.want : TRUE
           w == [z EXCEPT !.is_loggedin = TRUE, !.digest = d,
                          !.tgt.digest = r.digest, !.tgt.imm = r.imm]
<1>1. x.current_phase \in {"SECNEG", "OPNEG"} /\ x.want \subseteq Digests
  BY DEF Answered, Ready, Settled, Stages
<1>2. /\ r.digest = "no" \/ r.digest \in Digests
      /\ r.proof = "right" => x.secneg_phase # "OFFER_CHAP"
      /\ r.nsg \in Stages
      /\ x.current_phase = "OPNEG" /\ r \in GoodReplies(x) => r.transit /\ r.nsg = "FF"
  BY <1>1, ReplyKeys
<1>3. /\ Answered(y) /\ y.current_phase = x.current_phase /\ y.skewed = x.skewed
      /\ x.secneg_phase # "OFFER_CHAP" => y.secneg_phase # "OFFER_CHAP"
      /\ r.status # "garbled" /\ r.proof = "right" => y.proven
  BY <1>2, ParseReady
<1>4. iscsi_process_login_reply(x, p, r, ok) =
        CASE v # "go on" -> iscsi_login_cb(y, p.ct, v, ok)
          [] v = "go on" /\ r.transit /\ z.current_phase = "FF" ->
               iscsi_login_cb(w, p.ct, "GOOD", ok)
          [] v = "go on" /\ ~(r.transit /\ z.current_phase = "FF") ->
               IF LoginRefused(z)
               THEN iscsi_login_cb(iscsi_login_async(z, p.ct), p.ct, "ERROR", ok)
               ELSE iscsi_login_async(z, p.ct)
  BY Zenon DEF iscsi_process_login_reply
<1>5. /\ v = "go on" => r.status # "garbled" /\ (MustProve(x, r) => r.proof = "right")
      /\ v # "go on" => v \in {"GOOD", "ERROR", "REDIRECT"}
  BY DEF Verdict
<1>6. x.fd \in {"up", "dead"} /\ Typed(x) /\ ~HasLogin(x.wait)
  BY DEF Answered, Ready, Books
<1>7. /\ DOMAIN y = Fields /\ y.tgt = x.tgt
      /\ \A f \in {"fd", "status_cb", "out", "wait", "old", "cmdsn", "app", "tries", "pending",
                   "deferred", "is_loggedin"} : y[f] = x[f]
  BY <1>6 DEF ParseKeys, Typed, Fields, Steady
<1> HIDE DEF v, y, h
<1>8. Books(x, h)
  BY DEF h
<1>9. Books(y, h) /\ y.fd = x.fd /\ y.wait = x.wait
  BY <1>6, <1>7, <1>8, TalkBooks
<1>10. Count(x.wait, Logins) = 0 /\ ~y.is_loggedin
  BY <1>3, <1>6, NoLoginsCounted DEF Answered, Ready
<1>11. /\ stage = IF r.transit THEN r.nsg ELSE x.current_phase
       /\ skewed <=> x.skewed \/ Skewed(x, r)
       /\ r.transit /\ ~Skewed(x, r) => r.csg = x.current_phase
  BY <1>3 DEF Skewed
<1> HIDE DEF stage, skewed
<1>12. /\ DOMAIN z = Fields /\ z.current_phase = stage /\ z.skewed = skewed
       /\ \A f \in Fields \ {"current_phase", "skewed"} : z[f] = y[f]
  BY <1>7 DEF Fields, Steady
<1> HIDE DEF z
<1>13. /\ \A f \in {"fd", "status_cb", "out", "wait", "old", "cmdsn", "app", "tries", "pending",
                   "deferred", "is_loggedin"} : z[f] = y[f]
       /\ z.tgt = y.tgt
  BY <1>12 DEF Fields, Steady
<1>14. Books(z, h) /\ z.fd = x.fd /\ z.wait = x.wait /\ z.fd \notin {"none", "connecting"}
  <2>1. y.fd # "none"
    BY <1>6, <1>9
  <2> QED
    BY <1>6, <1>9, <1>12, <1>13, <2>1, TalkBooks
<1>15. CASE v # "go on"
  <2>1. Books(iscsi_login_cb(y, p.ct, v, ok), << >>)
    BY <1>5, <1>6, <1>9, <1>10, <1>15, LoginCbBooks DEF h
  <2> QED
    BY <1>4, <1>15, <2>1
<1>16. CASE v = "go on" /\ r.transit /\ z.current_phase = "FF"
  <2> HIDE DEF d
  <2>1. "drawn" \in DOMAIN z.tgt
    BY <1>6, <1>7, <1>13 DEF Typed
  <2> DEFINE u == [z.tgt EXCEPT !.digest = r.digest, !.imm = r.imm]
             s == [z EXCEPT !.is_loggedin = TRUE, !.digest = d, !.tgt = u]
  <2>2. w = s
    BY <1>12 DEF Fields, Steady
  <2>3. DOMAIN u = DOMAIN z.tgt /\ u.drawn = z.tgt.drawn
    BY <2>1
  <2> HIDE DEF u
  <2>4. /\ DOMAIN s = Fields /\ s.tgt = u
        /\ \A f \in {"fd", "status_cb", "out", "wait", "old", "cmdsn", "app", "tries", "pending",
                     "deferred"} : s[f] = z[f]
    BY <1>12 DEF Fields, Steady
  <2> HIDE DEF s, w
  <2>5. Books(s, h) /\ s.fd = z.fd /\ s.wait = x.wait
    BY <1>14, <2>3, <2>4, TalkBooks
  <2>6. Books(iscsi_login_cb(s, p.ct, "GOOD", ok), << >>)
    BY <1>10, <1>14, <2>5, LoginCbBooks DEF h
  <2> QED
    BY <1>4, <1>16, <2>2, <2>6
<1>17. CASE v = "go on" /\ ~(r.transit /\ z.current_phase = "FF")
  <2>1. /\ z.out = y.out /\ z.wait = y.wait /\ z.old = y.old /\ z.app = y.app /\ z.tgt = y.tgt
        /\ z.fd = y.fd /\ z.room = y.room /\ z.is_corked = y.is_corked
        /\ z.is_loggedin = y.is_loggedin
        /\ z.late = y.late /\ z.want = y.want /\ z.imm = y.imm /\ z.proven = y.proven
        /\ z.digest = y.digest /\ z.secneg_phase = y.secneg_phase
    BY <1>12 DEF Fields, Steady
  <2>2. z.current_phase \in {"SECNEG", "OPNEG"}
    BY <1>1, <1>2, <1>11, <1>12, <1>17 DEF Stages
  <2>3. TargetUser /\ z.current_phase # "SECNEG" /\ x.current_phase = "SECNEG" =>
          z.skewed \/ (z.proven /\ z.secneg_phase # "OFFER_CHAP")
    BY <1>2, <1>3, <1>5, <1>11, <1>12, <1>17, <2>1 DEF MustProve
  <2>4. Shape(z, NoLogouts)
    BY <1>3, <1>12, <2>1 DEF Answered, Ready, Shape
  <2>5. Settled(z)
    BY <1>1, <1>3, <1>11, <1>12, <2>1, <2>2, <2>3 DEF Answered, Ready, Settled, Stages
  <2>6. Ready(z)
    BY <1>3, <2>1, <2>2, <2>4, <2>5 DEF Answered, Ready
  <2>7. p.ct \in Tasks
    BY CtIs
  <2>8. CASE LoginRefused(z)
    <3> DEFINE a == iscsi_login_async(z, p.ct)
    <3>1. Books(a, h) /\ a.fd = z.fd /\ a.wait = x.wait
      BY <1>14, <2>8, RefusedBooks DEF h
    <3> HIDE DEF a
    <3>2. Books(iscsi_login_cb(a, p.ct, "ERROR", ok), << >>)
      BY <1>10, <1>14, <3>1, LoginCbBooks DEF h
    <3> QED
      BY <1>4, <1>17, <2>8, <3>2 DEF a
  <2>9. CASE ~LoginRefused(z)
    <3>1. z.fd = "up"
      BY <1>2, <1>11, <1>12, <1>14, <1>17
    <3>2. Books(iscsi_login_async(z, p.ct), << >>)
      BY <1>14, <2>6, <2>7, <2>9, <3>1, LoginAsyncBooks DEF h
    <3> QED
      BY <1>4, <1>17, <2>9, <3>2
  <2> QED
    BY <2>8, <2>9
<1> QED
  BY <1>15, <1>16, <1>17

-----------------------------------------------------------------------------
(* The books over the steps. *)

\* The callback of the connect takes the connect_task out of status_cb.
LEMMA ConnectedBooks ==
  ASSUME NEW x, Books(x, << >>), x.fd = "connecting", NEW y, DOMAIN y = Fields,
         y.fd # "connecting", y.status_cb = NoCt,
         \A f \in Fields \ {"fd", "status_cb"} : y[f] = x[f]
  PROVE  LET p == Pdu("login", 0, 0, x.status_cb)
         IN  p \in Frame /\ p.kind = "login" /\ p.ct = x.status_cb /\ Books(y, <<p>>)
<1> DEFINE ct == x.status_cb
           p == Pdu("login", 0, 0, ct)
           h == <<p>>
<1>1. Typed(x) /\ Requests(x, << >>) /\ Alone(x, << >>) /\ Ranked(x)
  BY DEF Books
<1>2. ct \in Tasks /\ ct.cb # "none" /\ ct.cb \in {"user", "reconnect"}
  BY <1>1 DEF Typed, Tasks
<1>3. p \in Frame /\ p.ct = ct /\ p.id = 0 /\ p.kind = "login"
  BY <1>2, ProbeFrame
<1> HIDE DEF p
<1>4. /\ \A S : Count(h, S) = (IF p \in S THEN 1 ELSE 0) /\ Count(<< >>, S) = 0
      /\ h \in Seq(Frame)
  BY <1>3, CountOne, CountEmpty
<1> HIDE DEF h
<1>5. /\ y.out = x.out /\ y.wait = x.wait /\ y.old = x.old /\ y.app = x.app /\ y.cmdsn = x.cmdsn
      /\ y.tries = x.tries /\ y.tgt = x.tgt /\ y.pending = x.pending /\ y.deferred = x.deferred
  BY DEF Fields, Steady
<1>6. Typed(y)
  BY <1>1, <1>5 DEF Typed, Tasks, NoCt
<1>7. \A S : Here(y, S) = Here(x, S) /\ Here(x, S) \in Nat
  BY <1>1, <1>5, Tallies DEF Here
<1>8. \A cb \in {"user", "reconnect"} :
        Held(y, cb) + Count(h, Holding(cb)) = Held(x, cb) + Count(<< >>, Holding(cb))
  <2> TAKE cb \in {"user", "reconnect"}
  <2> DEFINE S == Holding(cb)
             a == Here(x, S)
             d == IF ct.cb = cb THEN 1 ELSE 0
  <2>1. a \in Nat /\ d \in Nat
    BY <1>7
  <2>2. Count(h, S) = d /\ Count(<< >>, S) = 0
    BY <1>3, <1>4, CountsAs
  <2>3. Held(y, cb) = a + 0 /\ Held(x, cb) = a + d
    BY <1>7 DEF Held, NoCt
  <2> HIDE DEF a, d, S
  <2> QED
    BY <2>1, <2>2, <2>3 DEF S
<1>9. \A id \in Reqs :
        /\ Here(y, For(id)) + Count(h, For(id)) = Here(x, For(id)) + Count(<< >>, For(id))
        /\ x.old # NoOld /\ ~Excused(x, id) => Here(y, For(id)) = 0
  <2> TAKE id \in Reqs
  <2>1. Count(h, For(id)) = 0 /\ Count(<< >>, For(id)) = 0
    BY <1>3, <1>4, CountsAs, ConnectionAssumption DEF Reqs
  <2> QED
    BY <1>1, <1>7, <2>1 DEF Requests
<1>10. EnteringIn(x, << >>)
  BY DEF EnteringIn
<1>11. Count(h, Others) = 0
  BY <1>3, <1>4, CountsAs
<1>12. Alone(y, h)
  <2>1. PutAside(y, Logins) = PutAside(x, Logins)
    BY <1>5 DEF PutAside
  <2> QED
    BY <1>1, <1>5, <1>10, <1>11, <2>1 DEF Alone
<1>13. Ranked(y)
  BY <1>1, <1>5 DEF Ranked
<1>14. ~Stranded(x)
  BY DEF Stranded
<1>15. Books(y, h)
  BY <1>4, <1>5, <1>6, <1>8, <1>9, <1>12, <1>13, <1>14, MovedBooks
<1> QED
  BY <1>3, <1>15 DEF h, p

\* connect(2) has succeeded.
LEMMA EstablishBooks == ASSUME Core(c), Books(c, << >>), Establish PROVE Books(c', << >>)
<1> DEFINE x == [c EXCEPT !.fd = "up", !.status_cb = NoCt]
           ct == c.status_cb
           p == Pdu("login", 0, 0, ct)
           y == iscsi_login_async(x, ct)
<1>1. c.fd = "connecting" /\ c' = IF LoginRefused(x) THEN CtCb(y, ct, "ERROR") ELSE y
  BY Zenon DEF Establish, iscsi_connect_cb
<1>2. /\ DOMAIN x = Fields /\ x.fd = "up" /\ x.status_cb = NoCt
      /\ \A f \in Fields \ {"fd", "status_cb"} : x[f] = c[f]
  BY DEF Core, Shape, Fields, Steady
<1> HIDE DEF x
<1>3. /\ x.wait = c.wait /\ x.out = c.out /\ x.old = c.old /\ x.app = c.app /\ x.tgt = c.tgt
      /\ x.room = c.room /\ x.is_corked = c.is_corked
      /\ x.is_loggedin = c.is_loggedin /\ x.current_phase = c.current_phase
      /\ x.secneg_phase = c.secneg_phase /\ x.proven = c.proven /\ x.digest = c.digest
      /\ x.imm = c.imm /\ x.late = c.late /\ x.want = c.want /\ x.skewed = c.skewed
  BY <1>2 DEF Fields, Steady
<1>4. Shape(x, NoLogouts)
  BY <1>1, <1>2, <1>3 DEF Core, OneRequest, Entering, Shape
<1>5. Settled(x)
  BY <1>3 DEF Core, Settled
<1>6. Ready(x)
  BY <1>1, <1>2, <1>3, <1>4, <1>5 DEF Ready, Core, OneRequest, Entering
<1>7. p \in Frame /\ p.kind = "login" /\ p.ct = ct /\ Books(x, <<p>>)
  BY <1>1, <1>2, ConnectedBooks
<1> HIDE DEF p
<1>8. ct \in Tasks /\ ct.cb \in {"user", "reconnect"}
  BY <1>7, CtIs, FrameIs DEF Carriers
<1> HIDE DEF ct
<1>9. CASE ~LoginRefused(x)
  <2>1. Books(y, << >>)
    BY <1>2, <1>6, <1>7, <1>8, <1>9, LoginAsyncBooks
  <2> QED
    BY <1>1, <1>9, <2>1
<1>10. CASE LoginRefused(x)
  <2>1. Books(y, <<p>>)
    BY <1>2, <1>7, <1>10, RefusedBooks
  <2> HIDE DEF y
  <2>2. Books(CtCb(y, ct, "ERROR"), << >>)
    BY <1>7, <1>8, <2>1, CtErrorBooks, AheadOne DEF Results
  <2> QED
    BY <1>1, <1>10, <2>2
<1> QED
  BY <1>9, <1>10

\* connect(2) has failed.
LEMMA RefuseBooks == ASSUME Core(c), Books(c, << >>), Refuse PROVE Books(c', << >>)
<1> DEFINE y == [c EXCEPT !.fd = "dead"]
           x == [c EXCEPT !.fd = "dead", !.status_cb = NoCt]
           ct == c.status_cb
           p == Pdu("login", 0, 0, ct)
<1>1. PICK ok \in BOOLEAN :
        c' = iscsi_service_reconnect_if_loggedin(CtCb(x, ct, "ERROR"), ok)
  BY DEF Refuse, iscsi_connect_cb
<1>2. Core(y) /\ c.fd = "connecting"
  BY DeadCore DEF Refuse
<1>3. DOMAIN x = Fields /\ (\A f \in Fields \ Minor : x[f] = y[f]) /\ x.fd = "dead"
      /\ x.status_cb = NoCt /\ \A f \in Fields \ {"fd", "status_cb"} : x[f] = c[f]
  BY DEF Core, Shape, Fields, Steady, Minor
<1> HIDE DEF x, y
<1>4. Core(CtCb(x, ct, "ERROR"))
  BY <1>2, <1>3, MinorCore, CtCbCore
<1>5. p \in Frame /\ p.kind = "login" /\ p.ct = ct /\ Books(x, <<p>>)
  BY <1>2, <1>3, ConnectedBooks
<1> HIDE DEF p
<1>6. ct.cb \in {"user", "reconnect"}
  BY <1>5, FrameIs DEF Carriers
<1> HIDE DEF ct
<1>7. Books(CtCb(x, ct, "ERROR"), << >>)
  BY <1>5, <1>6, CtErrorBooks, AheadOne DEF Results
<1> QED
  BY <1>1, <1>4, <1>7, ServiceBooks

\* The connection breaks.
LEMMA HungUpBooks ==
  ASSUME NEW x, NEW h, Books(x, h), x.fd = "up"
  PROVE  Books([x EXCEPT !.fd = "dead"], h)
<1> DEFINE y == [x EXCEPT !.fd = "dead"]
<1>1. Typed(x) /\ ~Stranded(x) /\ Alone(x, h)
  BY DEF Books, Stranded
<1>2. /\ DOMAIN y = Fields /\ y.fd = "dead" /\ \A f \in Fields \ {"fd"} : y[f] = x[f]
  BY <1>1 DEF Typed, Fields, Steady
<1> HIDE DEF y
<1>3. /\ y.tries = x.tries /\ y.tgt = x.tgt /\ y.pending = x.pending /\ y.deferred = x.deferred
      /\ \A f \in {"status_cb", "out", "wait", "old", "cmdsn", "app"} : y[f] = x[f]
  BY <1>2 DEF Fields, Steady
<1>4. EnteringIn(x, h) /\ x.old = NoOld => ~y.pending /\ ~y.deferred
  BY <1>1, <1>3 DEF Alone
<1> QED
  BY <1>1, <1>2, <1>3, <1>4, SameBooks DEF Typed, y

\* A PDU is taken off waitpdu in a step.
LEMMA WithoutBooks ==
  ASSUME Core(c), Books(c, << >>), NEW i \in DOMAIN c.wait
  PROVE  LET x == Without(i)
             p == c.wait[i]
         IN  /\ p \in Frame /\ Books(x, <<p>>) /\ Core(x) /\ x.fd = c.fd
             /\ p.kind = "login" \/ Count(c.wait, Logins) = Count(x.wait, Logins)
<1> DEFINE x == Without(i)
<1>1. /\ DOMAIN x = Fields /\ x.wait = RemoveAt(c.wait, i)
      /\ \A f \in Fields \ {"wait"} : x[f] = c[f]
  BY WithoutIs
<1>2. Core(x)
  BY WithoutCore
<1> HIDE DEF x
<1>3. /\ c.wait[i] \in Frame /\ Books(x, <<c.wait[i]>>) /\ x.fd = c.fd
      /\ c.wait[i].kind = "login" \/ Count(c.wait, Logins) = Count(x.wait, Logins)
  BY <1>1, TakenBooks DEF Fields, Steady
<1> QED
  BY <1>2, <1>3 DEF x

\* The answer to a login request.
LEMMA LoginReplyBooks == ASSUME Core(c), Books(c, << >>), LoginReply PROVE Books(c', << >>)
<1>1. PICK i \in DOMAIN c.wait :
        /\ c.wait[i].kind = "login"
        /\ \E r \in GoodReplies(c) :
             c' = iscsi_process_login_reply(Without(i), c.wait[i], r, TRUE)
  BY DEF LoginReply
<1>2. c.fd = "up"
  BY DEF LoginReply, Readable
<1>3. /\ Answered(Without(i))
      /\ GoodReplies(Without(i)) = GoodReplies(c)
  BY <1>1, <1>2, WithoutAnswered
<1>4. c.wait[i] \in Frame /\ Books(Without(i), <<c.wait[i]>>) /\ Without(i).fd = "up"
  BY <1>2, WithoutBooks
<1> QED
  BY <1>1, <1>3, <1>4, ReplyBooks

\* An answer to a login request that is out of the ordinary: a failure, a redirect, garbage.
LEMMA LoginSurpriseBooks == ASSUME Core(c), Books(c, << >>), LoginSurprise PROVE Books(c', << >>)
<1>1. PICK i \in DOMAIN c.wait, r \in OddReplies(c), ok \in BOOLEAN :
        /\ c.wait[i].kind = "login"
        /\ LET y == iscsi_process_login_reply(Without(i), c.wait[i], r, ok)
           IN  c' = IF r.status = "garbled"
                    THEN iscsi_service_reconnect_if_loggedin([y EXCEPT !.fd = "dead"], TRUE)
                    ELSE y
  BY Zenon DEF LoginSurprise
<1>2. c.fd = "up"
  BY DEF LoginSurprise, Readable
<1> DEFINE x == Without(i)
           p == c.wait[i]
           y == iscsi_process_login_reply(x, p, r, ok)
           z == [y EXCEPT !.fd = "dead"]
<1>3. /\ Answered(x) /\ OddReplies(x) = OddReplies(c)
  BY <1>1, <1>2, WithoutAnswered
<1>4. p \in Frame /\ Books(x, <<p>>) /\ x.fd = "up"
  BY <1>2, WithoutBooks
<1>5. Core(y)
  BY <1>1, <1>3, <1>4, ReplyCore
<1>6. Books(y, << >>)
  BY <1>1, <1>3, <1>4, ReplyBooks
<1>7. c' = IF r.status = "garbled" THEN iscsi_service_reconnect_if_loggedin(z, TRUE) ELSE y
  BY <1>1
<1>8. CASE r.status = "garbled"
  <2>1. y.fd = "up"
    <3>1. y = CtCb(x, p.ct, "ERROR")
      <4>1. Verdict(x, r) = "ERROR"
        BY <1>8 DEF Verdict
      <4>2. y = iscsi_login_cb(x, p.ct, "ERROR", ok)
        BY <1>8, <4>1 DEF iscsi_process_login_reply
      <4> QED
        BY <4>2 DEF iscsi_login_cb
    <3> HIDE DEF y, x, p
    <3>2. DOMAIN x = Fields
      BY <1>4 DEF Books, Typed
    <3> QED
      BY <1>4, <3>1, <3>2 DEF CtCb, iscsi_reconnect_cb, Fields, Steady
  <2> HIDE DEF y
  <2>2. Core(z)
    BY <1>5, DeadCore
  <2>3. Books(z, << >>)
    BY <1>6, <2>1, HungUpBooks
  <2> QED
    BY <1>7, <1>8, <2>2, <2>3, ServiceBooks
<1>9. CASE r.status # "garbled"
  BY <1>6, <1>7, <1>9
<1> QED
  BY <1>8, <1>9

\* The callback of a command of the connect sequence.
LEMMA AnsweredBooks ==
  ASSUME NEW x, NEW p \in Frame, Books(x, <<p>>), p.kind \in Internal, x.fd \in {"up", "dead"},
         NEW w
  PROVE  /\ Books(iscsi_testunitready_cb(x, p.ct, w), << >>)
         /\ Books(iscsi_inquiry_page_0x0_cb(x, p.ct, w), << >>)
         /\ Books(iscsi_inquiry_page_0x80_cb(x, p.ct, w), << >>)
<1>5. p.ct \in Tasks /\ p.ct.cb \in {"user", "reconnect"}
  BY CtIs, FrameIs DEF Carriers
<1>6. Typed(x) /\ Alone(x, <<p>>)
  BY DEF Books
<1>7. Count(x.wait, Logins) = 0
  <2>1. EnteringIn(x, <<p>>) => Count(<<p>>, Others) = 0
    BY <1>6 DEF Alone
  <2>2. Count(<<p>>, Others) = 1
    BY CountOne, CountsAs DEF Internal
  <2> QED
    BY <2>1, <2>2 DEF EnteringIn
<1>8. /\ \A kind \in Internal : Books(Ask(x, kind, p.ct), << >>)
      /\ Books(CtCb(x, p.ct, "ERROR"), << >>) /\ Books(CtCb(x, p.ct, "GOOD"), << >>)
  BY <1>5, <1>7, AskBooks, CtErrorBooks, CtGoodBooks, AheadOne DEF Results
<1>9. Books(iscsi_testunitready_cb(x, p.ct, w), << >>)
  <2> DEFINE t == [p.ct EXCEPT !.uas = @ + 1]
  <2>1. t \in Tasks /\ t.cb = p.ct.cb
    BY <1>5 DEF Tasks
  <2>2. iscsi_testunitready_cb(x, p.ct, w) \in
          {CtCb(x, t, "ERROR"), Ask(x, "tur", t), Ask(x, "inq", p.ct), CtCb(x, p.ct, "ERROR")}
    BY DEF iscsi_testunitready_cb
  <2> HIDE DEF t
  <2>3. Books(CtCb(x, t, "ERROR"), << >>) /\ Books(Ask(x, "tur", t), << >>)
    BY <1>5, <1>7, <2>1, AskBooks, CtErrorBooks, AheadOne DEF Results, Internal
  <2> QED
    BY <1>8, <2>2, <2>3 DEF Internal
<1>10. Books(iscsi_inquiry_page_0x0_cb(x, p.ct, w), << >>)
  BY <1>8 DEF iscsi_inquiry_page_0x0_cb, Internal
<1>11. Books(iscsi_inquiry_page_0x80_cb(x, p.ct, w), << >>)
  <2> DEFINE y == [x EXCEPT !.usn = w]
  <2>1. /\ DOMAIN y = Fields /\ y.tgt = x.tgt
        /\ \A f \in {"fd", "status_cb", "out", "wait", "old", "cmdsn", "app", "tries", "pending",
                     "deferred"} : y[f] = x[f]
    BY <1>6 DEF Typed, Fields, Steady
  <2>2. iscsi_inquiry_page_0x80_cb(x, p.ct, w) \in {CtCb(x, p.ct, "ERROR"), CtCb(y, p.ct, "GOOD")}
    BY DEF iscsi_inquiry_page_0x80_cb
  <2> HIDE DEF y
  <2>3. Books(y, <<p>>) /\ y.fd = x.fd /\ y.wait = x.wait
    BY <2>1, TalkBooks
  <2>4. Books(CtCb(y, p.ct, "GOOD"), << >>)
    BY <1>5, <1>7, <2>3, CtGoodBooks
  <2> QED
    BY <1>8, <2>2, <2>4
<1> QED
  BY <1>9, <1>10, <1>11

\* The commands of the connect sequence are answered.
LEMMA ProbeBooks == ASSUME Core(c), Books(c, << >>), ProbeReply \/ ProbeSurprise PROVE Books(c', << >>)
<1>1. PICK i \in DOMAIN c.wait :
        /\ c.wait[i].kind \in Internal
        /\ \E st, dev, usn : c' = ProbeCb(Without(i), c.wait[i], st, dev, usn)
  BY ZenonT(20) DEF ProbeReply, ProbeSurprise
<1>2. c.fd = "up"
  BY DEF ProbeReply, ProbeSurprise, Readable
<1> DEFINE x == Without(i)
           p == c.wait[i]
<1>3. PICK w : c' \in {iscsi_testunitready_cb(x, p.ct, w), iscsi_inquiry_page_0x0_cb(x, p.ct, w),
                       iscsi_inquiry_page_0x80_cb(x, p.ct, w)}
  BY <1>1 DEF ProbeCb, Internal
<1>4. p \in Frame /\ Books(x, <<p>>) /\ x.fd = "up" /\ p.kind \in Internal
  BY <1>1, <1>2, WithoutBooks
<1> QED
  BY <1>3, <1>4, AnsweredBooks

\* The same when the connection breaks before the callback can send anything.
LEMMA ResetReplyBooks == ASSUME Core(c), Books(c, << >>), ResetReply PROVE Books(c', << >>)
<1>1. c.fd = "up"
  BY DEF ResetReply, Readable
<1>2. PICK i \in DOMAIN c.wait :
        LET p == c.wait[i]
            x == [Without(i) EXCEPT !.fd = "dead"]
        IN  \/ /\ p.kind = "login" /\ c.current_phase = "OPNEG"
               /\ \E r \in GoodReplies(c) : c' = iscsi_process_login_reply(x, p, r, TRUE)
            \/ p.kind \in Internal /\ \E st, dev : c' = ProbeCb(x, p, st, dev, "A")
  BY DEF ResetReply
<1> DEFINE p == c.wait[i]
           w == Without(i)
           x == [w EXCEPT !.fd = "dead"]
<1>3. p \in Frame /\ Books(x, <<p>>) /\ x.fd = "dead"
  <2>1. p \in Frame /\ Books(w, <<p>>) /\ w.fd = "up"
    BY <1>1, WithoutBooks
  <2> HIDE DEF w, p
  <2> QED
    BY <2>1, HungUpBooks DEF Books, Typed, Fields, Steady
<1>4. CASE p.kind = "login" /\ c.current_phase = "OPNEG"
            /\ \E r \in GoodReplies(c) : c' = iscsi_process_login_reply(x, p, r, TRUE)
  <2>1. Answered(x) /\ GoodReplies(x) = GoodReplies(c) /\ x.current_phase = "OPNEG"
    BY <1>1, <1>4, HungUpAnswered
  <2> HIDE DEF x, p
  <2> QED
    BY <1>3, <1>4, <2>1, ReplyBooks
<1>5. CASE p.kind \in Internal /\ \E st, dev : c' = ProbeCb(x, p, st, dev, "A")
  <2> HIDE DEF x, p
  <2>1. PICK v : c' \in {iscsi_testunitready_cb(x, p.ct, v), iscsi_inquiry_page_0x0_cb(x, p.ct, v),
                         iscsi_inquiry_page_0x80_cb(x, p.ct, v)}
    BY <1>5 DEF ProbeCb, Internal
  <2> QED
    BY <1>3, <1>5, <2>1, AnsweredBooks
<1> QED
  BY <1>2, <1>4, <1>5

\* The answer to a request of the application.
LEMMA RequestReplyBooks == ASSUME Core(c), Books(c, << >>), RequestReply PROVE Books(c', << >>)
<1>1. PICK i \in DOMAIN c.wait :
        \/ c.wait[i].kind \in {"scsi", "tmf"} /\ c' = Deliver(Without(i), c.wait[i].id, "GOOD")
        \/ /\ c.wait[i].kind = "logout"
           /\ c' = [Without(i) EXCEPT !.is_loggedin = FALSE, !.pending = TRUE]
  BY DEF RequestReply
<1> DEFINE x == Without(i)
           p == c.wait[i]
           y == [x EXCEPT !.is_loggedin = FALSE, !.pending = TRUE]
<1>2. p \in Frame /\ Books(x, <<p>>) /\ x.fd = "up"
  BY WithoutBooks DEF RequestReply, Readable
<1>3. \/ p.kind \in {"scsi", "tmf"} /\ c' = Deliver(x, p.id, "GOOD")
      \/ /\ p.kind = "logout"
         /\ c' = [x EXCEPT !.is_loggedin = FALSE, !.pending = TRUE]
  BY <1>1
<1> HIDE DEF x, p
<1>4. Ahead(<<p>>, p, << >>)
  BY <1>2, AheadOne
<1>5. p.kind \in {"scsi", "tmf"} => Books(Deliver(x, p.id, "GOOD"), << >>)
  BY <1>2, <1>4, DeliverBooks DEF Results
<1>6. /\ ~Stranded(x) /\ DOMAIN y = Fields
      /\ \A f \in Fields \ {"pending", "is_loggedin"} : y[f] = x[f]
  BY <1>2 DEF Stranded, Books, Typed, Fields, Steady
<1> HIDE DEF y
<1>7. p.kind = "logout" => Books(y, << >>)
  BY <1>2, <1>4, <1>6, LogoutBooks
<1> QED
  BY <1>3, <1>5, <1>7 DEF y

\* y is the context x without p, which has been taken off a queue.
Lacking(x, p, y) ==
  /\ DOMAIN y = DOMAIN x /\ \A f \in DOMAIN x \ {"out", "wait", "cmdsn"} : y[f] = x[f]
  /\ y.out \in Seq(Frame) /\ y.wait \in Seq(Frame) /\ y.cmdsn \in Int /\ p \in Frame
  /\ Numbered(y.out, y.cmdsn) /\ InLine(y.wait, y.out)
  /\ \A S : Blind(S) => Here(x, S) = Here(y, S) + (IF p \in S THEN 1 ELSE 0)
  /\ \/ y.wait = x.wait /\ x.out # << >>
     \/ y.out = x.out

\* iscsi_timeout_scan, of outqueue.
LEMMA ExpireOutIs ==
  ASSUME NEW x, {"out", "wait", "cmdsn"} \subseteq DOMAIN x,
         x.out \in Seq(Frame), x.wait \in Seq(Frame), x.cmdsn \in Int,
         Numbered(x.out, x.cmdsn), InLine(x.wait, x.out),
         NEW i \in 1 .. Len(x.out), ~Immediate(x.out[i])
  PROVE  Lacking(x, x.out[i], ExpireOut(x, i))
<1> DEFINE s == x.out
           w == x.wait
           m == Len(s) - 1
           t == [k \in 1 .. m |-> IF k < i THEN s[k] ELSE [s[k + 1] EXCEPT !.sn = @ - 1]]
           y == ExpireOut(x, i)
           r == RemoveAt(s, i)
           p == s[i]
<1>1. /\ s \in Seq(Frame) /\ w \in Seq(Frame) /\ i \in 1 .. Len(s) /\ Len(s) \in Nat
      /\ Numbered(s, x.cmdsn) /\ InOrder(w) /\ InOrder(s) /\ Under(w, s) /\ ~Immediate(p)
  BY LenProperties DEF InLine
<1>2. /\ DOMAIN y = DOMAIN x /\ y.out = t /\ y.cmdsn = x.cmdsn - 1
      /\ \A f \in DOMAIN x \ {"out", "cmdsn"} : y[f] = x[f]
  BY DEF ExpireOut
<1>3. m \in Nat /\ s # << >>
  BY <1>1
<1> HIDE DEF s, w, y
<1>4. \A k \in 1 .. Len(s) : s[k] \in Frame /\ s[k].sn \in Int
  BY <1>1, ElementOfSeq, FrameIs
<1>5. \A k \in 1 .. m : t[k] \in Frame /\
        LET e == IF k < i THEN s[k] ELSE s[k + 1] IN
        /\ e \in Frame /\ t[k].kind = e.kind /\ t[k].id = e.id
        /\ \E n \in Int : t[k] = [e EXCEPT !.sn = n]
  <2> TAKE k \in 1 .. m
  <2> DEFINE e == IF k < i THEN s[k] ELSE s[k + 1]
             n == IF k < i THEN e.sn ELSE e.sn - 1
  <2>1. e \in Frame /\ n \in Int
    BY <1>1, <1>4
  <2>2. t[k] = [e EXCEPT !.sn = n]
    <3>1. CASE k < i
      <4>1. t[k] = e /\ n = e.sn
        BY <3>1
      <4>2. [e EXCEPT !.sn = e.sn] = e
        BY <2>1 DEF Frame
      <4> QED
        BY <4>1, <4>2
    <3>2. CASE ~(k < i)
      BY <3>2
    <3> QED
      BY <3>1, <3>2
  <2> HIDE DEF e, n
  <2>3. LET q == [e EXCEPT !.sn = n] IN q \in Frame /\ q.kind = e.kind /\ q.id = e.id
    BY <2>1, Renumber
  <2> QED
    BY <2>1, <2>2, <2>3 DEF e
<1>6. DOMAIN t = 1 .. m /\ t \in Seq(Frame) /\ Len(t) = m
  <2>1. DOMAIN t = 1 .. m /\ \A k \in 1 .. m : t[k] \in Frame
    BY <1>5
  <2>2. t = [k \in 1 .. m |-> t[k]]
    OBVIOUS
  <2> HIDE DEF t, m
  <2>3. t \in [1 .. m -> Frame]
    BY <2>1, <2>2
  <2> QED
    BY <1>3, <2>1, <2>3, SeqDef, LenProperties
<1>7. \A k \in 1 .. Len(s) - 1 : t[k] = IF k < i THEN s[k] ELSE [s[k + 1] EXCEPT !.sn = @ - 1]
  OBVIOUS
<1>8. \A k \in 1 .. Len(s) - 1 : LET e == IF k < i THEN s[k] ELSE s[k + 1]
                                 IN  t[k].kind = e.kind /\ t[k].id = e.id
  BY <1>5
<1>9. r \in Seq(Frame) /\ Len(r) = m /\ (\A k \in 1 .. m : r[k] = IF k < i THEN s[k] ELSE s[k + 1])
      /\ DOMAIN r = 1 .. m
  BY <1>1, RemoveIs, LenProperties
<1>10. \A S : Count(s, S) = Count(r, S) + (IF p \in S THEN 1 ELSE 0)
  BY <1>1, CountRemove
<1> HIDE DEF t, r
<1>11. \A S : Blind(S) => Count(r, S) = Count(t, S)
  <2> TAKE S
  <2> HAVE Blind(S)
  <2>1. \A k \in DOMAIN r : r[k] \in S <=> t[k] \in S
    <3> TAKE k \in DOMAIN r
    <3>1. k \in 1 .. m /\ r[k] = IF k < i THEN s[k] ELSE s[k + 1]
      BY <1>9
    <3>2. r[k] \in Frame /\ \E n \in Int : t[k] = [r[k] EXCEPT !.sn = n]
      BY <1>5, <3>1
    <3> QED
      BY <3>2 DEF Blind
  <2> QED
    <3>1. DOMAIN r = DOMAIN t
      BY <1>6, <1>9
    <3> QED
      BY <2>1, <3>1, CountSame
<1> HIDE DEF m
<1>12. p \in Frame
  BY <1>1, <1>4
<1>13. Numbered(t, x.cmdsn - 1)
  BY <1>1, <1>6, <1>7, NumberedExpire DEF m
<1>14. Thinned(t, s)
  BY <1>1, <1>6, <1>8, ThinnedRemove DEF m
<1>15. InOrder(t) /\ Under(w, t)
  BY <1>1, <1>6, <1>14, ThinnedOrder
<1>16. y.wait = w /\ y.out = t /\ y.cmdsn = x.cmdsn - 1 /\ x.out = s /\ x.wait = w
  BY <1>2 DEF w, s
<1>17. \A S : Blind(S) => Here(x, S) = Here(y, S) + (IF p \in S THEN 1 ELSE 0)
  <2> TAKE S
  <2> HAVE Blind(S)
  <2> DEFINE a == Count(s, S)
             b == Count(t, S)
             d == Count(w, S)
             e == IF p \in S THEN 1 ELSE 0
  <2>1. a \in Nat /\ b \in Nat /\ d \in Nat /\ e \in Nat /\ a = b + e
    BY <1>1, <1>6, <1>10, <1>11, CountType
  <2>2. Here(x, S) = a + d /\ Here(y, S) = b + d
    BY <1>16 DEF Here
  <2> HIDE DEF a, b, d, e
  <2>3. a + d = (b + d) + e
    BY <2>1
  <2> QED
    BY <2>2, <2>3 DEF e
<1> QED
  BY <1>1, <1>2, <1>3, <1>6, <1>12, <1>13, <1>15, <1>16, <1>17 DEF Lacking, InLine, y, p, s

\* iscsi_timeout_scan, of waitpdu.
LEMMA ExpireWaitIs ==
  ASSUME NEW x, {"out", "wait", "cmdsn"} \subseteq DOMAIN x,
         x.out \in Seq(Frame), x.wait \in Seq(Frame), x.cmdsn \in Int,
         Numbered(x.out, x.cmdsn), InLine(x.wait, x.out), NEW i \in 1 .. Len(x.wait)
  PROVE  Lacking(x, x.wait[i], [x EXCEPT !.wait = RemoveAt(x.wait, i)])
<1> DEFINE w == x.wait
           r == RemoveAt(w, i)
           p == w[i]
           y == [x EXCEPT !.wait = r]
<1>1. /\ w \in Seq(Frame) /\ x.out \in Seq(Frame) /\ i \in 1 .. Len(w)
      /\ InOrder(w) /\ InOrder(x.out) /\ Under(w, x.out)
  BY DEF InLine
<1>2. /\ DOMAIN y = DOMAIN x /\ y.wait = r /\ y.out = x.out /\ y.cmdsn = x.cmdsn /\ x.wait = w
      /\ \A f \in DOMAIN x \ {"wait"} : y[f] = x[f]
  OBVIOUS
<1> HIDE DEF w, y
<1>3. r \in Seq(Frame) /\ Len(r) = Len(w) - 1
      /\ \A k \in 1 .. Len(w) - 1 : r[k] = IF k < i THEN w[k] ELSE w[k + 1]
  BY <1>1, RemoveIs
<1>4. \A S : Count(w, S) = Count(r, S) + (IF p \in S THEN 1 ELSE 0)
  BY <1>1, CountRemove
<1> HIDE DEF r
<1>5. p \in Frame
  BY <1>1, ElementOfSeq
<1>6. Thinned(r, w)
  BY <1>1, <1>3, ThinnedRemove
<1>7. InOrder(r) /\ Under(r, x.out)
  BY <1>1, <1>3, <1>6, ThinnedOrder
<1>8. \A S : Here(x, S) = Here(y, S) + (IF p \in S THEN 1 ELSE 0)
  <2> TAKE S
  <2> DEFINE a == Count(w, S)
             b == Count(r, S)
             d == Count(x.out, S)
             e == IF p \in S THEN 1 ELSE 0
  <2>1. a \in Nat /\ b \in Nat /\ d \in Nat /\ e \in Nat /\ a = b + e
    BY <1>1, <1>3, <1>4, CountType
  <2>2. Here(x, S) = d + a /\ Here(y, S) = d + b
    BY <1>2 DEF Here
  <2> HIDE DEF a, b, d, e
  <2>3. d + a = (d + b) + e
    BY <2>1
  <2> QED
    BY <2>2, <2>3 DEF e
<1> QED
  BY <1>1, <1>2, <1>3, <1>5, <1>7, <1>8 DEF Lacking, InLine, y, p, w, r

\* What iscsi_timeout_scan takes off the two queues of a context.
LEMMA ExpiredIs ==
  ASSUME NEW x, {"out", "wait", "cmdsn"} \subseteq DOMAIN x,
         x.out \in Seq(Frame), x.wait \in Seq(Frame), x.cmdsn \in Int,
         Numbered(x.out, x.cmdsn), InLine(x.wait, x.out), NEW e \in Expired(x)
  PROVE  Lacking(x, e[1], e[2])
<1>1. DOMAIN x.out = 1 .. Len(x.out) /\ DOMAIN x.wait = 1 .. Len(x.wait)
  BY LenProperties
<1>2. \/ \E i \in 1 .. Len(x.out) : ~Immediate(x.out[i]) /\ e = <<x.out[i], ExpireOut(x, i)>>
      \/ \E i \in 1 .. Len(x.wait) : e = <<x.wait[i], [x EXCEPT !.wait = RemoveAt(x.wait, i)]>>
  BY <1>1 DEF Expired
<1> QED
  BY <1>2, ExpireOutIs, ExpireWaitIs

\* A PDU of the context has expired.
LEMMA ExpiredBooks ==
  ASSUME NEW x, Books(x, << >>), NEW p, NEW y, Lacking(x, p, y)
  PROVE  Books(y, <<p>>) /\ p \in Frame /\ y.fd = x.fd
<1> DEFINE g == <<p>>
<1>1. /\ p \in Frame /\ Typed(x) /\ Alone(x, << >>) /\ Ranked(x) /\ Requests(x, << >>)
      /\ g \in Seq(Frame) /\ DOMAIN x = Fields
  BY DEF Books, Typed, Lacking
<1>2. DOMAIN y = Fields /\ \A f \in Fields \ {"out", "wait", "cmdsn"} : y[f] = x[f]
  BY <1>1 DEF Lacking
<1>3. /\ y.fd = x.fd /\ y.status_cb = x.status_cb /\ y.old = x.old /\ y.app = x.app
      /\ y.tries = x.tries /\ y.tgt = x.tgt /\ y.pending = x.pending
      /\ y.deferred = x.deferred /\ y.is_loggedin = x.is_loggedin
  BY <1>2 DEF Fields, Steady
<1>4. \A S : Count(g, S) = (IF p \in S THEN 1 ELSE 0) /\ Count(<< >>, S) = 0
  BY CountOne, CountEmpty
<1> HIDE DEF g
<1>5. Typed(y)
  <2>1. y.out \in Seq(Frame) /\ y.wait \in Seq(Frame) /\ y.cmdsn \in Int
    BY DEF Lacking
  <2> QED
    BY <1>1, <1>2, <1>3, <2>1, Retyped
<1>6. \A S : Blind(S) => /\ Here(x, S) = Here(y, S) + Count(g, S)
                         /\ Here(x, S) \in Nat /\ Here(y, S) \in Nat /\ Count(g, S) \in Nat
  BY SMTT(20), <1>1, <1>4, <1>5, Tallies DEF Lacking
<1>7. \A cb \in {"user", "reconnect"} :
        Held(y, cb) + Count(g, Holding(cb)) = Held(x, cb) + Count(<< >>, Holding(cb))
  <2> TAKE cb \in {"user", "reconnect"}
  <2> DEFINE S == Holding(cb)
             a == Here(x, S)
             b == Here(y, S)
             d == Count(g, S)
             e == IF x.status_cb.cb = cb THEN 1 ELSE 0
  <2>1. a \in Nat /\ b \in Nat /\ d \in Nat /\ e \in Nat /\ a = b + d /\ Count(<< >>, S) = 0
    BY <1>4, <1>6, BlindSets
  <2>2. Held(x, cb) = a + e /\ Held(y, cb) = b + e
    BY <1>3 DEF Held
  <2> HIDE DEF a, b, d, e
  <2>3. (b + e) + d = (a + e) + 0
    BY <2>1
  <2> QED
    BY <2>1, <2>2, <2>3 DEF d
<1>8. \A id \in Reqs :
        /\ Here(y, For(id)) + Count(g, For(id)) = Here(x, For(id)) + Count(<< >>, For(id))
        /\ x.old # NoOld /\ ~Excused(x, id) => Here(y, For(id)) = 0
  <2> TAKE id \in Reqs
  <2>1. /\ Here(x, For(id)) = Here(y, For(id)) + Count(g, For(id)) /\ Here(x, For(id)) \in Nat
        /\ Here(y, For(id)) \in Nat /\ Count(g, For(id)) \in Nat /\ Count(<< >>, For(id)) = 0
    BY <1>4, <1>6, BlindSets
  <2>2. x.old # NoOld /\ ~Excused(x, id) => Here(x, For(id)) = 0
    BY <1>1 DEF Requests
  <2> QED
    BY <2>1, <2>2
<1>9. \A S : /\ Count(x.out, S) \in Nat /\ Count(x.wait, S) \in Nat
             /\ Count(y.out, S) \in Nat /\ Count(y.wait, S) \in Nat /\ Count(g, S) \in Nat
  <2>1. \A S : Count(g, S) \in Nat
    BY <1>4
  <2> QED
    BY <1>1, <1>5, <2>1, Tallies
<1>10. Blind(Logins) /\ Blind(Others)
  BY BlindSets DEF Logins, Others
<1>11. Count(x.out, Logins) = 0
  BY <1>1 DEF Alone
<1>12. \A S \in {Logins, Others} :
         Count(x.out, S) + Count(x.wait, S) = Count(y.out, S) + Count(y.wait, S) + Count(g, S)
  BY <1>6, <1>10 DEF Here
<1>13. PutAside(y, Logins) = PutAside(x, Logins)
  BY <1>3 DEF PutAside
<1>14. ASSUME y.wait = x.wait, x.out # << >> PROVE Alone(y, g)
  <2>1. ~EnteringIn(x, << >>)
    BY <1>1, <1>14 DEF Alone
  <2>2. Count(y.out, Logins) = 0 /\ Count(g, Logins) = 0
    <3> DEFINE a == Count(x.out, Logins)
               b == Count(x.wait, Logins)
               d == Count(y.out, Logins)
               e == Count(g, Logins)
    <3>1. /\ a \in Nat /\ b \in Nat /\ d \in Nat /\ e \in Nat /\ a = 0
          /\ a + b = d + b + e
      BY <1>9, <1>11, <1>12, <1>14
    <3> HIDE DEF a, b, d, e
    <3>2. d = 0 /\ e = 0
      BY <3>1
    <3> QED
      BY <3>2 DEF d, e
  <2>3. ~EnteringIn(y, g)
    BY <1>3, <1>4, <1>14, <2>1, <2>2 DEF EnteringIn
  <2> QED
    BY <1>1, <1>13, <2>2, <2>3 DEF Alone
<1>15. ASSUME y.out = x.out PROVE Alone(y, g)
  <2>1. \A S \in {Logins, Others} : Count(x.wait, S) = 0 => Count(y.wait, S) = 0 /\ Count(g, S) = 0
    <3> TAKE S \in {Logins, Others}
    <3> DEFINE a == Count(x.out, S)
               b == Count(x.wait, S)
               d == Count(y.wait, S)
               e == Count(g, S)
    <3>1. /\ a \in Nat /\ b \in Nat /\ d \in Nat /\ e \in Nat
          /\ a + b = a + d + e
      BY <1>9, <1>12, <1>15
    <3> HIDE DEF a, b, d, e
    <3>2. b = 0 => d = 0 /\ e = 0
      BY <3>1
    <3> QED
      BY <3>2 DEF b, d, e
  <2>2. EnteringIn(y, g) => EnteringIn(x, << >>)
    BY <1>3, <1>4, <2>1 DEF EnteringIn
  <2>3. Count(x.wait, Others) = 0 => Count(y.wait, Others) = 0 /\ Count(g, Others) = 0
    BY <2>1
  <2> QED
    BY <1>1, <1>3, <1>11, <1>13, <1>15, <2>2, <2>3 DEF Alone
<1>16. Alone(y, g)
  BY <1>14, <1>15 DEF Lacking
<1>17. Ranked(y)
  BY <1>1, <1>3 DEF Ranked, Lacking
<1>18. Stranded(x) => Stranded(y)
  BY <1>3 DEF Stranded
<1>19. Books(y, g)
  BY <1>1, <1>3, <1>5, <1>7, <1>8, <1>16, <1>17, <1>18, MovedBooks
<1> QED
  BY <1>1, <1>3, <1>19 DEF g

\* A PDU of old_iscsi has expired, and its callback is run.
LEMMA PaidOldBooks ==
  ASSUME NEW x, Books(x, << >>), x.old # NoOld, NEW p, NEW o, Lacking(x.old, p, o),
         NEW y, Typed(y), Paying(x, p, y), y.old # NoOld,
         y.old.out = o.out, y.old.wait = o.wait, y.old.cmdsn = o.cmdsn
  PROVE  Books(y, << >>)
<1>1. /\ y.fd = x.fd /\ y.status_cb = x.status_cb /\ y.out = x.out /\ y.wait = x.wait
      /\ y.cmdsn = x.cmdsn /\ y.deferred = x.deferred
      /\ y.app.asked = x.app.asked /\ y.app.during = x.app.during
  BY DEF Paying
<1>2. /\ << >> \in Seq(Frame) /\ Typed(x) /\ Owned(x, << >>) /\ Requests(x, << >>)
      /\ Alone(x, << >>) /\ Ranked(x) /\ p \in Frame
  BY DEF Books, Lacking
<1>3. /\ \A S : Here(y, S) = Here(x, S)
      /\ \A cb : Held(y, cb) = Held(x, cb)
  BY <1>1 DEF Here, Held
<1>4. \A S : Blind(S) => PutAside(x, S) = PutAside(y, S) + (IF p \in S THEN 1 ELSE 0)
  BY DEF Lacking, PutAside, Here
<1>5. \A S : Count(<< >>, S) = 0 /\ PutAside(x, S) \in Nat /\ PutAside(y, S) \in Nat
             /\ Here(x, S) \in Nat
  BY <1>2, CountEmpty, Tallies
<1> DEFINE n == << >>
<1>6. n \in Seq(Frame) /\ (\A S : Count(n, S) = 0) /\ Owned(x, n) /\ Requests(x, n) /\ Alone(x, n)
  BY <1>2, <1>5
<1> HIDE DEF n
<1>7. Owned(y, n)
  <2> DEFINE l == Len(x.app.conn)
             a == Held(x, "user")
             b == PutAside(x, Holding("user"))
             d == PutAside(y, Holding("user"))
             e == IF p.ct.cb = "user" THEN 1 ELSE 0
  <2>1. /\ l \in Nat /\ a \in Nat /\ b \in Nat /\ d \in Nat /\ e \in Nat
        /\ b = d + e /\ Len(y.app.conn) = l + e
    BY <1>2, <1>4, <1>5, HeldType, DoneType, BlindSets, CountsAs DEF Paying
  <2>2. PutAside(x, Holding("reconnect")) = 0
    BY <1>6 DEF Owned
  <2>3. PutAside(y, Holding("reconnect")) = 0
    <3> DEFINE u == PutAside(x, Holding("reconnect"))
               v == PutAside(y, Holding("reconnect"))
               w == IF p \in Holding("reconnect") THEN 1 ELSE 0
    <3>1. u = v + w /\ v \in Nat /\ w \in Nat /\ u = 0
      BY <1>4, <1>5, <2>2, BlindSets
    <3> HIDE DEF u, v, w
    <3>2. v = 0
      BY <3>1
    <3> QED
      BY <3>2 DEF v
  <2>4. l + (a + 0) + b = 1
    <3>1. ~Stranded(x)
      BY DEF Stranded
    <3> QED
      BY <1>6, <3>1 DEF Owned
  <2> HIDE DEF l, a, b, d, e
  <2>5. (l + e) + (a + 0) + d = 1
    BY <2>1, <2>4
  <2>6. Len(y.app.conn) + (Held(y, "user") + Count(n, Holding("user"))) + PutAside(y, Holding("user")) = 1
    BY <1>3, <1>6, <2>1, <2>5 DEF a, d
  <2>7. /\ Held(y, "reconnect") + Count(n, Holding("reconnect")) <= 1
        /\ Held(y, "user") + Count(n, Holding("user")) = 0
    BY <1>3, <1>6 DEF Owned
  <2> QED
    BY <2>3, <2>6, <2>7 DEF Owned
<1>8. Requests(y, n)
  <2>1. ASSUME NEW id \in Reqs
        PROVE  /\ Here(y, For(id)) + PutAside(y, For(id)) + Count(n, For(id)) + Len(y.app.done[id])
                    = Here(x, For(id)) + PutAside(x, For(id)) + Count(n, For(id)) + Len(x.app.done[id])
               /\ Excused(y, id) <=> Excused(x, id)
    <3> DEFINE a == Here(x, For(id))
               b == PutAside(x, For(id))
               d == PutAside(y, For(id))
               e == IF p.id = id THEN 1 ELSE 0
               l == Len(x.app.done[id])
    <3>1. a \in Nat /\ b \in Nat /\ d \in Nat /\ e \in Nat /\ l \in Nat /\ b = d + e
      BY <1>2, <1>4, <1>5, DoneType, BlindSets, CountsAs
    <3>2. Len(y.app.done[id]) = l + e
      BY DEF Paying
    <3>3. Excused(y, id) <=> Excused(x, id)
      BY <1>1 DEF Excused
    <3> HIDE DEF a, b, d, e, l
    <3>4. a + d + 0 + (l + e) = a + b + 0 + l
      BY <3>1
    <3> QED
      BY <1>3, <1>6, <3>2, <3>3, <3>4 DEF a, b, d, l
  <2> QED
    BY <1>1, <1>3, <1>6, <2>1 DEF Requests
<1>9. Alone(y, n)
  <2> DEFINE u == PutAside(x, Logins)
             v == PutAside(y, Logins)
             w == IF p \in Logins THEN 1 ELSE 0
  <2>1. u = v + w /\ v \in Nat /\ w \in Nat /\ u = 0
    <3>1. Blind(Logins)
      BY BlindSets DEF Logins
    <3> QED
      BY <1>2, <1>4, <1>5, <3>1 DEF Alone
  <2> HIDE DEF u, v, w
  <2>2. v = 0
    BY <2>1
  <2> QED
    BY <1>1, <1>6, <2>2 DEF Alone, EnteringIn, v
<1>10. Ranked(y)
  BY <1>1, <1>2 DEF Ranked, Lacking
<1>11. Books(y, n)
  BY <1>6, <1>7, <1>8, <1>9, <1>10 DEF Books
<1> QED
  BY <1>11 DEF n

\* y is x with o for old_iscsi, after the callback of p.
Settling(x, p, o, y) ==
  /\ DOMAIN y = Fields /\ \A f \in Fields \ {"app", "old"} : y[f] = x[f]
  /\ y.old \in {o, [o EXCEPT !.pending = TRUE]} /\ DOMAIN y.app = DOMAIN x.app
  /\ \A f \in DOMAIN x.app \ {"conn", "done"} : y.app[f] = x.app[f]
  /\ y.app.conn = IF p.ct.cb = "user" THEN Append(x.app.conn, "ERROR") ELSE x.app.conn
  /\ y.app.done = IF p.id \in Reqs
                  THEN [x.app.done EXCEPT ![p.id] = Append(x.app.done[p.id], "TIMEOUT")]
                  ELSE x.app.done

\* The timeout of the requests in the queues a reconnect has put aside.
LEMMA OldExpiredBooks ==
  ASSUME NEW x, Books(x, << >>), x.old # NoOld, NEW p, NEW o, Lacking(x.old, p, o),
         NEW y, Settling(x, p, o, y)
  PROVE  Books(y, << >>)
<1> USE DEF Settling
<1>1. Typed(x) /\ p \in Frame
  BY DEF Books, Lacking
<1>2. /\ y.out = x.out /\ y.wait = x.wait /\ y.cmdsn = x.cmdsn /\ y.fd = x.fd
      /\ y.status_cb = x.status_cb /\ y.tries = x.tries /\ y.tgt = x.tgt /\ y.deferred = x.deferred
      /\ y.app.asked = x.app.asked /\ y.app.during = x.app.during
  BY <1>1 DEF Typed, Fields, Steady, SteadyApp
<1>3. /\ DOMAIN o = OldFields /\ o.retry \in Nat /\ o.out \in Seq(Frame) /\ o.wait \in Seq(Frame)
      /\ o.cmdsn \in Int
  BY <1>1 DEF Lacking, Typed, OldFields
<1>4. /\ DOMAIN y.old = OldFields /\ y.old.retry \in Nat
      /\ y.old.out = o.out /\ y.old.wait = o.wait /\ y.old.cmdsn = o.cmdsn
  BY <1>3 DEF OldFields
<1>5. y.old # NoOld
  <2>1. "cmdsn" \in DOMAIN y.old /\ "cmdsn" \notin DOMAIN NoOld
    BY <1>4 DEF OldFields, NoOld
  <2> QED
    BY <2>1
<1>6. "ERROR" \in Results /\ "TIMEOUT" \in Results
  BY DEF Results
<1>7. y.app.conn \in Seq(Results)
      /\ Len(y.app.conn) = Len(x.app.conn) + (IF p.ct.cb = "user" THEN 1 ELSE 0)
  <2> DEFINE s == x.app.conn
             a == Append(s, "ERROR")
  <2>1. s \in Seq(Results)
    BY <1>1 DEF Typed
  <2> HIDE DEF s
  <2>2. a \in Seq(Results) /\ Len(a) = Len(s) + 1 /\ Len(s) \in Nat
    BY <1>6, <2>1, AppendProperties, LenProperties
  <2> HIDE DEF a
  <2>3. y.app.conn = IF p.ct.cb = "user" THEN a ELSE s
    BY DEF s, a
  <2>4. CASE p.ct.cb = "user"
    BY <2>2, <2>3, <2>4 DEF s
  <2>5. CASE p.ct.cb # "user"
    <3>1. y.app.conn = s /\ Len(s) = Len(s) + 0
      BY <2>2, <2>3, <2>5
    <3> QED
      BY <2>1, <2>5, <3>1 DEF s
  <2> QED
    BY <2>4, <2>5
<1>8. /\ y.app.done \in [Reqs -> Seq(Results)]
      /\ \A id \in Reqs : Len(y.app.done[id]) = Len(x.app.done[id]) + (IF p.id = id THEN 1 ELSE 0)
  <2> DEFINE d == x.app.done
             e == y.app.done
             a == Append(d[p.id], "TIMEOUT")
  <2>1. d \in [Reqs -> Seq(Results)] /\ \A id \in Reqs : Len(d[id]) \in Nat
    BY <1>1, DoneType DEF Typed
  <2> HIDE DEF d
  <2>2. p.id \in Reqs => a \in Seq(Results) /\ Len(a) = Len(d[p.id]) + 1
    <3> HAVE p.id \in Reqs
    <3>1. d[p.id] \in Seq(Results)
      BY <2>1
    <3> QED
      BY <1>6, <3>1, AppendProperties
  <2> HIDE DEF a
  <2>3. e = IF p.id \in Reqs THEN [d EXCEPT ![p.id] = a] ELSE d
    BY DEF d, a
  <2> HIDE DEF e
  <2>4. e \in [Reqs -> Seq(Results)]
    BY <2>1, <2>2, <2>3
  <2>5. \A id \in Reqs : Len(e[id]) = Len(d[id]) + (IF p.id = id THEN 1 ELSE 0)
    <3> TAKE id \in Reqs
    <3>1. CASE p.id = id
      <4>1. e[id] = a
        BY <2>1, <2>3, <3>1
      <4> QED
        BY <2>2, <3>1, <4>1
    <3>2. CASE p.id # id
      <4>1. e[id] = d[id]
        BY <2>1, <2>3, <3>2
      <4> DEFINE l == Len(d[id])
      <4>2. l \in Nat
        BY <2>1
      <4> HIDE DEF l
      <4>3. l = l + 0
        BY <4>2
      <4> QED
        BY <3>2, <4>1, <4>3 DEF l
    <3> QED
      BY <3>1, <3>2
  <2> QED
    BY <2>4, <2>5 DEF d, e
<1>9. Typed(y)
  BY <1>1, <1>2, <1>3, <1>4, <1>7, <1>8 DEF Typed
<1>10. Paying(x, p, y)
  BY <1>2, <1>7, <1>8 DEF Paying
<1> QED
  BY <1>4, <1>5, <1>9, <1>10, PaidOldBooks

\* Nothing that has been put aside is a login request or carries the
\* connect_task of an attempt.
LEMMA AsideFrame ==
  ASSUME NEW x, Books(x, << >>), NEW p, NEW o, Lacking(x.old, p, o)
  PROVE  p \in Frame /\ p.kind \in Kinds /\ p.kind # "login" /\ p.ct.cb # "reconnect"
<1> DEFINE q == x.old
<1>1. p \in Frame
  BY DEF Lacking
<1>2. Blind(Logins) /\ Blind(Holding("reconnect"))
  BY BlindSets DEF Logins
<1>3. PutAside(x, Logins) = 0 /\ PutAside(x, Holding("reconnect")) = 0
  BY DEF Books, Alone, Owned
<1>4. \A S \in {Logins, Holding("reconnect")} : p \notin S
  <2> TAKE S \in {Logins, Holding("reconnect")}
  <2> DEFINE a == Here(q, S)
             b == Here(o, S)
             d == IF p \in S THEN 1 ELSE 0
  <2>1. a = 0
    BY <1>3 DEF PutAside, Here
  <2>2. a = b + d
    BY <1>2 DEF Lacking
  <2>3. b \in Nat
    <3>1. Count(o.out, S) \in Nat /\ Count(o.wait, S) \in Nat
      BY CountType DEF Lacking
    <3> QED
      BY <3>1 DEF Here
  <2>4. d \in Nat /\ (p \in S => d = 1)
    OBVIOUS
  <2> HIDE DEF a, b, d
  <2> QED
    BY <2>1, <2>2, <2>3, <2>4
<1> QED
  BY <1>1, <1>4, FrameIs, CountsAs

\* iscsi_timeout_scan on the context and on old_iscsi.
LEMMA TimeoutBooks == ASSUME Core(c), Books(c, << >>), Timeout PROVE Books(c', << >>)
<1>1. c.fd # "none" /\ Typed(c) /\ Ranked(c)
  BY DEF Timeout, Books
<1>2. ASSUME NEW e \in Expired(c), c' = PduCb(e[2], e[1], "TIMEOUT")
      PROVE  Books(c', << >>)
  <2> DEFINE x == e[2]
             p == e[1]
  <2>1. {"out", "wait", "cmdsn"} \subseteq DOMAIN c
    BY <1>1 DEF Typed, Fields
  <2>2. Lacking(c, p, x)
    BY <1>1, <2>1, ExpiredIs DEF Typed, Ranked
  <2>3. c' = PduCb(x, p, "TIMEOUT")
    BY <1>2
  <2> HIDE DEF x, p
  <2>4. Books(x, <<p>>) /\ p \in Frame /\ x.fd = c.fd
    BY <2>2, ExpiredBooks
  <2>5. ~Stranded(x)
    BY <1>1, <2>4 DEF Stranded
  <2> QED
    BY <2>3, <2>4, <2>5, AheadOne, PduCbBooks
<1>3. ASSUME c.old # NoOld, NEW e \in Expired(c.old),
             c' = IF e[1].kind = "logout" THEN [c EXCEPT !.old = [e[2] EXCEPT !.pending = TRUE]]
                  ELSE PduCb([c EXCEPT !.old = e[2]], e[1], "TIMEOUT")
      PROVE  Books(c', << >>)
  <2> DEFINE q == c.old
             o == e[2]
             p == e[1]
             x == [c EXCEPT !.old = o]
             z == [c EXCEPT !.old = [o EXCEPT !.pending = TRUE]]
  <2>1. /\ DOMAIN q = OldFields /\ q.out \in Seq(Frame) /\ q.wait \in Seq(Frame) /\ q.cmdsn \in Int
        /\ Numbered(q.out, q.cmdsn) /\ InLine(q.wait, q.out) /\ e \in Expired(q)
    BY <1>1, <1>3 DEF Typed, Ranked
  <2> HIDE DEF q
  <2>2. Lacking(q, p, o)
    BY <2>1, ExpiredIs DEF OldFields
  <2>3. c' = IF p.kind = "logout" THEN z ELSE PduCb(x, p, "TIMEOUT")
    BY <1>3
  <2>4. /\ DOMAIN x = Fields /\ x.old = o /\ \A f \in Fields \ {"old"} : x[f] = c[f]
        /\ DOMAIN z = Fields /\ z.old = [o EXCEPT !.pending = TRUE]
        /\ \A f \in Fields \ {"old"} : z[f] = c[f]
    BY <1>1 DEF Typed, Fields
  <2> HIDE DEF x, p, o, z
  <2>5. p \in Frame
    BY <2>2 DEF Lacking
  <2>6. p.kind \in Kinds /\ p.kind # "login" /\ p.ct.cb # "reconnect"
    BY <2>2, AsideFrame DEF q
  <2>7. CASE p.kind \in {"logout", "pong"}
    <3>1. c' \in {x, z}
      BY <2>3, <2>7 DEF PduCb
    <3>2. p.ct.cb # "user" /\ p.id \notin Reqs
      BY <2>5, <2>7, FrameIs, ConnectionAssumption DEF Carriers, Internal, Reqs
    <3>3. x.app = c.app /\ z.app = c.app
      BY <2>4 DEF Fields
    <3>4. Settling(c, p, o, x) /\ Settling(c, p, o, z)
      BY <2>4, <3>2, <3>3 DEF Settling
    <3> QED
      BY <1>3, <2>2, <3>1, <3>4, OldExpiredBooks DEF q
  <2>8. CASE p.kind \in {"scsi", "tmf"}
    <3> DEFINE y == Deliver(x, p.id, "TIMEOUT")
    <3>1. c' = y
      BY <2>3, <2>8 DEF PduCb
    <3>2. p.ct.cb # "user" /\ p.id \in Reqs
      BY <2>5, <2>8, FrameIs DEF Carriers, Internal, Reqs
    <3>3. x.app = c.app /\ DOMAIN c.app = SteadyApp \cup {"conn", "done", "astray"}
      BY <1>1, <2>4 DEF Fields, Typed
    <3>4. /\ DOMAIN y = Fields /\ \A f \in Fields \ {"app"} : y[f] = x[f]
          /\ DOMAIN y.app = DOMAIN x.app /\ \A f \in DOMAIN x.app \ {"done"} : y.app[f] = x.app[f]
          /\ y.app.done = [x.app.done EXCEPT ![p.id] = Append(x.app.done[p.id], "TIMEOUT")]
      BY <2>4, <3>3 DEF Deliver, Fields, SteadyApp
    <3> HIDE DEF y
    <3>5. /\ \A f \in Fields \ {"app", "old"} : y[f] = c[f]
          /\ y.old = o /\ DOMAIN y.app = DOMAIN c.app /\ y.app.conn = c.app.conn
          /\ \A f \in DOMAIN c.app \ {"conn", "done"} : y.app[f] = c.app[f]
          /\ y.app.done = [c.app.done EXCEPT ![p.id] = Append(c.app.done[p.id], "TIMEOUT")]
      BY <2>4, <3>3, <3>4 DEF Fields, SteadyApp
    <3>6. Settling(c, p, o, y)
      BY <3>2, <3>4, <3>5 DEF Settling
    <3> QED
      BY <1>3, <2>2, <3>1, <3>6, OldExpiredBooks DEF q
  <2>9. CASE p.kind \in Internal
    <3> DEFINE y == CtCb(x, p.ct, "ERROR")
    <3>1. c' = y
      BY <2>3, <2>9 DEF PduCb, Internal, iscsi_testunitready_cb, iscsi_inquiry_page_0x0_cb,
                        iscsi_inquiry_page_0x80_cb
    <3>2. p.ct.cb = "user" /\ p.id \notin Reqs
      BY <2>5, <2>6, <2>9, FrameIs, CarrierIs DEF Carriers
    <3>3. x.app = c.app /\ DOMAIN c.app = SteadyApp \cup {"conn", "done", "astray"}
      BY <1>1, <2>4 DEF Fields, Typed
    <3>4. /\ DOMAIN y = Fields /\ \A f \in Fields \ {"app"} : y[f] = x[f]
          /\ DOMAIN y.app = DOMAIN x.app /\ \A f \in DOMAIN x.app \ {"conn"} : y.app[f] = x.app[f]
          /\ y.app.conn = Append(x.app.conn, "ERROR")
      BY <2>4, <3>2, <3>3 DEF CtCb, Fields, SteadyApp
    <3> HIDE DEF y
    <3>5. /\ \A f \in Fields \ {"app", "old"} : y[f] = c[f]
          /\ y.old = o /\ DOMAIN y.app = DOMAIN c.app /\ y.app.done = c.app.done
          /\ \A f \in DOMAIN c.app \ {"conn", "done"} : y.app[f] = c.app[f]
          /\ y.app.conn = Append(c.app.conn, "ERROR")
      BY <2>4, <3>3, <3>4 DEF Fields, SteadyApp
    <3>6. Settling(c, p, o, y)
      BY <3>2, <3>4, <3>5 DEF Settling
    <3> QED
      BY <1>3, <2>2, <3>1, <3>6, OldExpiredBooks DEF q
  <2> QED
    BY <2>6, <2>7, <2>8, <2>9 DEF Kinds, Immediates
<1> QED
  BY <1>2, <1>3 DEF Timeout, Reconnecting

\* Fields that the books are not about.
Idler == {"early", "noauto", "forced", "room", "login_attempts"}

\* A step that touches none of the fields the books are about.
LEMMA PlainBooks ==
  ASSUME NEW x, NEW h, Books(x, h), NEW y, DOMAIN y = Fields, \A f \in Fields \ Idler : y[f] = x[f]
  PROVE  Books(y, h)
<1>1. /\ Typed(x) /\ (EnteringIn(x, h) /\ x.old = NoOld => ~x.pending /\ ~x.deferred)
  BY DEF Books, Alone
<1>2. /\ \A f \in {"status_cb", "out", "wait", "old", "cmdsn", "app"} : y[f] = x[f]
      /\ y.tries = x.tries /\ y.tgt = x.tgt /\ y.fd = x.fd /\ y.pending = x.pending
      /\ y.deferred = x.deferred /\ y.is_loggedin = x.is_loggedin /\ y.app = x.app /\ y.old = x.old
  BY DEF Fields, Steady, Idler
<1>3. Stranded(x) => Stranded(y)
  BY <1>2 DEF Stranded
<1> QED
  BY <1>1, <1>2, <1>3, SameBooks DEF Typed

\* iscsi_logout_async and the answer to a NOP-In, in a session.
LEMMA UrgentBooks ==
  ASSUME NEW x, Core(x), Books(x, << >>), x.is_loggedin, NEW kind \in {"logout", "pong"}
  PROVE  Books(Enqueue(x, Pdu(kind, 0, x.cmdsn, NoCt)), << >>)
<1> DEFINE p == Pdu(kind, 0, x.cmdsn, NoCt)
           o == Sorted(x.out, p)
           y == [x EXCEPT !.out = o]
<1>1. Typed(x)
  BY DEF Books
<1>2. p \in Frame /\ p.kind = kind /\ p.id = 0 /\ p.sn = x.cmdsn /\ p.ct.cb = "none"
  BY <1>1 DEF Typed, Pdu, Frame, NoCt, Kinds, Immediates, Carriers, Internal
<1>3. ~EnteringIn(x, << >>)
  BY <1>1, EnteringSame DEF Core, OneRequest
<1>4. Enqueue(x, p) = Drain(y)
  BY DEF Enqueue
<1>5. DOMAIN y = Fields /\ y.out = Sorted(x.out, p) /\ \A f \in Fields \ {"out"} : y[f] = x[f]
  BY <1>1 DEF Typed, Fields
<1> HIDE DEF p, y
<1>6. p.id \notin Reqs /\ Immediate(p) /\ p.kind # "login" /\ p.kind # "scsi"
  BY <1>2, ConnectionAssumption DEF Reqs, Immediate, Immediates
<1>7. Books(x, <<p>>)
  BY <1>2, <1>3, <1>6, HandBooks
<1>8. Under(x.wait, <<p>>) /\ Under(x.out, <<p>>)
  BY <1>6, UnderOther
<1>9. y.cmdsn = IF Immediate(p) THEN x.cmdsn ELSE x.cmdsn + 1
  BY <1>5, <1>6 DEF Fields
<1>10. \A f \in Fields \ {"out", "cmdsn"} : y[f] = x[f]
  BY <1>5
<1>11. Books(y, << >>)
  BY <1>2, <1>5, <1>6, <1>7, <1>8, <1>9, <1>10, QueueBooks
<1> QED
  BY <1>4, <1>11, DrainBooks DEF p

\* An async message of the target that asks for a logout or drops the connection.
LEMMA AsyncMessageBooks == ASSUME Core(c), Books(c, << >>), AsyncMessage PROVE Books(c', << >>)
<1> DEFINE x == [c EXCEPT !.login_attempts = 0]
           y == [c EXCEPT !.early = TRUE]
<1>1. c.is_loggedin /\ Typed(c)
  BY DEF AsyncMessage, Books
<1>2. /\ DOMAIN x = Fields /\ \A f \in Fields \ {"login_attempts"} : x[f] = c[f]
      /\ DOMAIN y = Fields /\ \A f \in Fields \ {"early"} : y[f] = c[f]
  BY <1>1 DEF Typed, Fields, Steady
<1>3. c' = Enqueue(x, Pdu("logout", 0, c.cmdsn, NoCt)) \/ c' = y
  BY <1>1 DEF AsyncMessage, iscsi_logout_async
<1> HIDE DEF x, y
<1>4. Books(x, << >>) /\ Books(y, << >>)
  BY <1>2, PlainBooks DEF Idler
<1>5. Core(x)
  BY <1>2, MinorCore DEF Minor
<1>6. x.is_loggedin /\ x.cmdsn = c.cmdsn
  BY <1>1, <1>2 DEF Fields, Steady
<1>7. Books(Enqueue(x, Pdu("logout", 0, c.cmdsn, NoCt)), << >>)
  BY <1>4, <1>5, <1>6, UrgentBooks
<1> QED
  BY <1>3, <1>4, <1>7

\* A NOP-In that wants an answer.
LEMMA PingBooks == ASSUME Core(c), Books(c, << >>), Ping PROVE Books(c', << >>)
BY UrgentBooks DEF Ping

\* iscsi_set_noautoreconnect, which may start the reconnect that was deferred.
LEMMA SetNoAutoBooks == ASSUME Core(c), Books(c, << >>), SetNoAutoReconnect PROVE Books(c', << >>)
<1>1. Typed(c)
  BY DEF Books
<1>2. PICK state, ok \in BOOLEAN :
        LET y == [c EXCEPT !.noauto = state]
        IN  c' = IF ~state /\ c.deferred
                 THEN reconnect([y EXCEPT !.deferred = FALSE], FALSE, ok) ELSE y
  BY DEF SetNoAutoReconnect
<1> DEFINE y == [c EXCEPT !.noauto = state]
           z == [y EXCEPT !.deferred = FALSE]
<1>3. /\ DOMAIN y = Fields /\ \A f \in Fields \ {"noauto"} : y[f] = c[f]
      /\ DOMAIN z = Fields /\ \A f \in Fields \ {"noauto", "deferred"} : z[f] = c[f]
  BY <1>1 DEF Typed, Fields, Steady
<1>4. c' = IF ~state /\ c.deferred THEN reconnect(z, FALSE, ok) ELSE y
  BY <1>2
<1> HIDE DEF y, z
<1>5. Books(y, << >>)
  BY <1>3, PlainBooks DEF Idler
<1>6. ASSUME c.deferred PROVE Books(reconnect(z, FALSE, ok), << >>)
  <2>1. Between(c)
    BY <1>6, BetweenIs
  <2>2. \A f \in {"fd", "status_cb", "out", "wait", "old", "cmdsn", "app", "tries", "tgt"} :
          z[f] = c[f]
    BY <1>3 DEF Fields, Steady
  <2>3. Between(z)
    BY <1>3, <2>1, <2>2, BetweenBooks
  <2> QED
    BY <2>3, ReconnectBooks
<1> QED
  BY <1>4, <1>5, <1>6

\* iscsi_force_reconnect.
LEMMA ForceBooks == ASSUME Core(c), Books(c, << >>), ForceReconnect PROVE Books(c', << >>)
<1>1. Typed(c) /\ Between(c)
  BY BetweenIs DEF Books, ForceReconnect, Reconnecting
<1> DEFINE y == [c EXCEPT !.forced = @ + 1]
<1>2. DOMAIN y = Fields /\ \A f \in Fields \ {"forced"} : y[f] = c[f]
  BY <1>1 DEF Typed, Fields, Steady
<1>3. \E ok \in BOOLEAN : c' = reconnect(y, TRUE, ok)
  BY DEF ForceReconnect
<1> HIDE DEF y
<1>4. \A f \in {"fd", "status_cb", "out", "wait", "old", "cmdsn", "app", "tries", "tgt"} :
        y[f] = c[f]
  BY <1>2 DEF Fields, Steady
<1>5. Between(y)
  BY <1>1, <1>2, <1>4, BetweenBooks
<1> QED
  BY <1>3, <1>5, ReconnectBooks

\* iscsi_service: errors, a pending reconnect, writing.
LEMMA ServiceStepBooks ==
  ASSUME Core(c), Books(c, << >>), ServiceError \/ ServicePending \/ Write
  PROVE  Books(c', << >>)
<1>1. ServiceError => Books(c', << >>)
  BY ServiceBooks DEF ServiceError
<1>2. ServicePending => Books(c', << >>)
  BY BetweenIs, ReconnectBooks DEF ServicePending, PendingDue
<1>3. Write => Books(c', << >>)
  BY DrainBooks DEF Write
<1> QED
  BY <1>1, <1>2, <1>3

\* Events that change the connection, the clock or a flag alone.
LEMMA QuietBooks ==
  ASSUME Core(c), Books(c, << >>), ResetNextReconnect \/ Drop \/ Block \/ Unblock \/ Tick
  PROVE  Books(c', << >>)
<1>1. Typed(c) /\ (EnteringIn(c, << >>) /\ c.old = NoOld => ~c.pending /\ ~c.deferred)
  BY DEF Books, Alone
<1>2. CASE Drop
  <2>1. c.fd = "up" /\ c' = [c EXCEPT !.fd = "dead"]
    BY <1>2 DEF Drop
  <2>2. /\ DOMAIN c' = Fields /\ c'.fd = "dead" /\ \A f \in Fields \ {"fd"} : c'[f] = c[f]
    BY <1>1, <2>1 DEF Typed, Fields, Steady
  <2>3. /\ \A f \in {"status_cb", "out", "wait", "old", "cmdsn", "app"} : c'[f] = c[f]
        /\ c'.tries = c.tries /\ c'.tgt = c.tgt /\ c'.pending = c.pending /\ c'.deferred = c.deferred
    BY <2>2 DEF Fields, Steady
  <2>4. ~Stranded(c)
    BY <2>1 DEF Stranded
  <2> QED
    BY <1>1, <2>1, <2>2, <2>3, <2>4, SameBooks DEF Typed
<1>3. CASE ResetNextReconnect \/ Block \/ Unblock \/ Tick
  <2>1. DOMAIN c' = Fields /\ \A f \in Fields \ {"early", "room"} : c'[f] = c[f]
    BY <1>1, <1>3 DEF Typed, Fields, Steady, ResetNextReconnect, Block, Unblock, Tick
  <2> QED
    BY <2>1, PlainBooks DEF Idler
<1> QED
  BY <1>2, <1>3

\* A request that has not been asked for yet, and a command that comes after
\* all that have.
Unasked(x, id) ==
  /\ id \in Reqs /\ id \notin x.app.asked
  /\ id \in Cmds => \A k \in Cmds : k < id => k \in x.app.asked

\* The PDU of such a command belongs behind all others.
LEMMA NewestUnder ==
  ASSUME NEW x, Books(x, << >>), NEW p \in Frame, Unasked(x, p.id),
         NEW s \in {x.out, x.wait, x.old.out, x.old.wait}
  PROVE  Under(s, <<p>>) /\ Count(s, For(p.id)) = 0
<1>1. Typed(x) /\ Requests(x, << >>) /\ Ranked(x)
  BY DEF Books
<1>2. s \in Seq(Frame)
  BY <1>1 DEF Typed
<1>3. ASSUME NEW r \in Reqs, r \notin x.app.asked
      PROVE  Count(s, For(r)) = 0
  <2> DEFINE S == For(r)
             a == Count(x.out, S)
             b == Count(x.wait, S)
             d == Count(x.old.out, S)
             e == Count(x.old.wait, S)
             l == Len(x.app.done[r])
  <2>1. a \in Nat /\ b \in Nat /\ d \in Nat /\ e \in Nat /\ l \in Nat
    BY <1>1, Tallies, DoneType
  <2>2. (a + b) + (d + e) + 0 + l = 0
    BY <1>1, <1>3, CountEmpty DEF Requests, Here, PutAside
  <2>3. Count(s, S) \in {a, b, d, e}
    OBVIOUS
  <2> HIDE DEF a, b, d, e, l, S
  <2>4. a = 0 /\ b = 0 /\ d = 0 /\ e = 0
    BY <2>1, <2>2
  <2> QED
    BY <2>3, <2>4 DEF S
<1>4. Under(s, <<p>>)
  <2> SUFFICES ASSUME NEW i \in DOMAIN s, s[i].kind = "scsi", p.kind = "scsi"
               PROVE  s[i].id < p.id
    BY DEF Under
  <2>1. s[i] \in Frame
    BY <1>2, LenProperties, ElementOfSeq
  <2>2. s[i].id \in Cmds /\ p.id \in Cmds /\ Cmds \subseteq Nat /\ Cmds \subseteq Reqs
    BY <2>1, FrameIs, ConnectionAssumption DEF Reqs
  <2>3. s[i].id \in x.app.asked
    <3>1. s[i] \in For(s[i].id)
      BY <2>1 DEF For
    <3>2. Count(s, For(s[i].id)) # 0
      BY <1>2, <3>1, CountType
    <3> QED
      BY <1>3, <2>2, <3>2
  <2>4. ~(p.id < s[i].id)
    BY <1>1, <2>2, <2>3 DEF Ranked, Unasked
  <2>5. p.id # s[i].id
    BY <2>3 DEF Unasked
  <2>6. s[i].id \in Nat /\ p.id \in Nat
    BY <2>2
  <2> QED
    BY <2>4, <2>5, <2>6
<1> QED
  BY <1>3, <1>4 DEF Unasked

\* y is x when id is asked for.
Asking(x, id, y) ==
  /\ DOMAIN y.app = DOMAIN x.app
  /\ \A f \in DOMAIN x.app \ {"asked", "during"} : y.app[f] = x.app[f]
  /\ y.app.asked = x.app.asked \cup {id}
  /\ y.app.during = IF x.old = NoOld THEN x.app.during ELSE x.app.during \cup {id}

\* The commands asked for are still the first ones.
LEMMA AskingIs ==
  ASSUME NEW x, Typed(x), Ranked(x), NEW id, Unasked(x, id), NEW y, Asking(x, id, y)
  PROVE  /\ DOMAIN y.app = SteadyApp \cup {"conn", "done", "astray"}
         /\ y.app.conn = x.app.conn /\ y.app.done = x.app.done /\ y.app.asked \subseteq Reqs
         /\ \A i \in y.app.asked \cap Cmds, k \in Cmds : k < i => k \in y.app.asked
         /\ \A r \in Reqs : r # id => (Excused(y, r) <=> Excused(x, r))
         /\ \A r \in Reqs : Excused(x, r) => Excused(y, r)
         /\ id \in Tmfs /\ x.old # NoOld => Excused(y, id)
<1>1. DOMAIN y.app = SteadyApp \cup {"conn", "done", "astray"} /\ y.app.conn = x.app.conn /\ y.app.done = x.app.done
  BY DEF Typed, Asking, SteadyApp
<1>2. y.app.asked \subseteq Reqs
  BY DEF Typed, Asking, Unasked
<1>3. \A i \in y.app.asked \cap Cmds, k \in Cmds : k < i => k \in y.app.asked
  BY DEF Asking, Unasked, Ranked
<1>4. /\ \A r \in Reqs : r # id => (Excused(y, r) <=> Excused(x, r))
      /\ \A r \in Reqs : Excused(x, r) => Excused(y, r)
      /\ id \in Tmfs /\ x.old # NoOld => Excused(y, id)
  BY DEF Excused, Asking
<1> QED
  BY <1>1, <1>2, <1>3, <1>4

\* A request that has just been given to the library is in hand.
LEMMA AskingBooks ==
  ASSUME NEW x, Books(x, << >>), ~EnteringIn(x, << >>), NEW p \in Frame, p.ct.cb = "none",
         Unasked(x, p.id), NEW y, DOMAIN y = Fields, \A f \in Fields \ {"app"} : y[f] = x[f],
         Asking(x, p.id, y)
  PROVE  Books(y, <<p>>)
<1> DEFINE g == <<p>>
           n == << >>
           id == p.id
<1>1. /\ Typed(x) /\ Ranked(x) /\ g \in Seq(Frame) /\ Owned(x, n) /\ Requests(x, n) /\ Alone(x, n)
      /\ ~EnteringIn(x, n)
  BY DEF Books
<1>2. /\ y.out = x.out /\ y.wait = x.wait /\ y.old = x.old /\ y.cmdsn = x.cmdsn /\ y.fd = x.fd
      /\ y.status_cb = x.status_cb /\ y.tries = x.tries /\ y.tgt = x.tgt /\ y.pending = x.pending
      /\ y.deferred = x.deferred /\ y.is_loggedin = x.is_loggedin
  BY DEF Fields, Steady
<1>3. /\ DOMAIN y.app = SteadyApp \cup {"conn", "done", "astray"}
      /\ y.app.conn = x.app.conn /\ y.app.done = x.app.done /\ y.app.asked \subseteq Reqs
      /\ \A i \in y.app.asked \cap Cmds, k \in Cmds : k < i => k \in y.app.asked
      /\ \A r \in Reqs : r # id => (Excused(y, r) <=> Excused(x, r))
      /\ \A r \in Reqs : Excused(x, r) => Excused(y, r)
  BY <1>1, AskingIs
<1>4. id \in Reqs /\ id \notin x.app.asked /\ y.app.asked = x.app.asked \cup {id} /\ id # 0
  BY ConnectionAssumption DEF Unasked, Asking, Reqs
<1>5. p.kind # "login"
  BY <1>4, FrameIs
<1>6. \A S : Count(g, S) = (IF p \in S THEN 1 ELSE 0) /\ Count(n, S) = 0
  BY CountOne, CountEmpty
<1> HIDE DEF g, n, id
<1>7. Typed(y)
  BY <1>1, <1>2, <1>3 DEF Typed
<1>8. /\ \A S : Here(y, S) = Here(x, S) /\ PutAside(y, S) = PutAside(x, S)
      /\ \A cb : Held(y, cb) = Held(x, cb)
  BY <1>2 DEF Here, PutAside, Held
<1>9. /\ \A cb \in {"user", "reconnect"} : Count(g, Holding(cb)) = Count(n, Holding(cb))
      /\ \A r \in Reqs : Count(g, For(r)) = IF r = id THEN 1 ELSE 0
      /\ Count(g, Logins) = Count(n, Logins)
  BY <1>5, <1>6, CountsAs DEF id
<1>10. Owned(y, g)
  <2>1. Stranded(x) => Stranded(y)
    BY <1>2, <1>3 DEF Stranded
  <2> QED
    BY <1>1, <1>2, <1>3, <1>8, <1>9, <2>1 DEF Owned
<1>11. Requests(y, g)
  <2> SUFFICES ASSUME NEW r \in Reqs
               PROVE  LET all == Here(y, For(r)) + PutAside(y, For(r)) + Count(g, For(r))
                                   + Len(y.app.done[r])
                      IN  /\ all <= 1
                          /\ r \notin y.app.asked => all = 0
                          /\ r \in y.app.asked /\ ~Excused(y, r) => all = 1
                          /\ y.old # NoOld /\ ~Excused(y, r) => Here(y, For(r)) = 0
    BY DEF Requests
  <2> DEFINE a == Here(x, For(r))
             b == PutAside(x, For(r))
             l == Len(x.app.done[r])
  <2>1. a \in Nat /\ b \in Nat /\ l \in Nat
    BY <1>1, Tallies, DoneType
  <2>2. /\ a + b + 0 + l <= 1 /\ (r \notin x.app.asked => a + b + 0 + l = 0)
        /\ r \in x.app.asked /\ ~Excused(x, r) => a + b + 0 + l = 1
        /\ x.old # NoOld /\ ~Excused(x, r) => a = 0
    BY <1>1, <1>6 DEF Requests
  <2>3. Here(y, For(r)) = a /\ PutAside(y, For(r)) = b /\ Len(y.app.done[r]) = l
    BY <1>3, <1>8
  <2> HIDE DEF a, b, l
  <2>4. CASE r = id
    <3>1. Count(g, For(r)) = 1 /\ a = 0 /\ b = 0 /\ l = 0
      BY <1>4, <1>9, <2>1, <2>2, <2>4
    <3>2. a + b + 1 + l = 1 /\ r \in y.app.asked
      BY <1>4, <2>4, <3>1
    <3> QED
      BY <2>3, <3>1, <3>2
  <2>5. CASE r # id
    <3>1. Count(g, For(r)) = 0
      BY <1>9, <2>5
    <3>2. (r \in y.app.asked <=> r \in x.app.asked) /\ (Excused(y, r) <=> Excused(x, r))
      BY <1>3, <1>4, <2>5
    <3> QED
      BY <1>2, <2>2, <2>3, <3>1, <3>2
  <2> QED
    BY <2>4, <2>5
<1>12. Alone(y, g)
  <2>1. ~EnteringIn(y, g)
    BY <1>1, <1>2, <1>9 DEF EnteringIn
  <2> QED
    BY <1>1, <1>2, <1>8, <2>1 DEF Alone
<1>13. Ranked(y)
  BY <1>1, <1>2, <1>3 DEF Ranked
<1>14. Books(y, g)
  BY <1>1, <1>7, <1>10, <1>11, <1>12, <1>13 DEF Books
<1> QED
  BY <1>14 DEF g

\* iscsi_task_mgmt_async queues the request, and may then call the service.
LEMMA TaskMgmtIs ==
  ASSUME Core(c), Books(c, << >>), TaskMgmt
  PROVE  \E y, ok : /\ Core(y) /\ Books(y, << >>) /\ c' \in {Kick(y, ok), y}
                    /\ y.old = c.old /\ y.tries = c.tries /\ y.pending = c.pending
                    /\ Held(y, "reconnect") = Held(c, "reconnect")
<1>1. PICK id \in Tmfs, ok \in BOOLEAN :
        id \notin c.app.asked /\ c.is_loggedin /\ c' = iscsi_task_mgmt_async(c, id, ok)
  BY DEF TaskMgmt, Asked
<1> DEFINE asked == c.app.asked \cup {id}
           during == IF c.old = NoOld THEN c.app.during ELSE c.app.during \cup {id}
           a == [c.app EXCEPT !.asked = asked, !.during = during]
           p == Pdu("tmf", id, c.cmdsn, NoCt)
           x == [c EXCEPT !.app = a]
           y == [c EXCEPT !.app = a, !.out = Sorted(c.out, p)]
<1>2. Typed(c) /\ DOMAIN c = Fields /\ DOMAIN c.app = SteadyApp \cup {"conn", "done", "astray"}
  BY DEF Books, Typed
<1>3. y = [c EXCEPT !.app.asked = @ \cup {id}, !.out = Sorted(@, p),
                    !.app.during = IF c.old = NoOld THEN @ ELSE @ \cup {id}]
  BY <1>2 DEF Fields
<1>4. p \in Frame /\ p.kind = "tmf" /\ p.id = id /\ p.sn = c.cmdsn /\ p.ct.cb = "none"
  BY <1>2 DEF Typed, Pdu, Frame, NoCt, Kinds, Immediates, Carriers, Internal, Reqs
<1>5. /\ DOMAIN a = DOMAIN c.app /\ a.started = c.app.started /\ a.asked = asked /\ a.during = during
      /\ \A f \in DOMAIN c.app \ {"asked", "during"} : a[f] = c.app[f]
  BY <1>2 DEF SteadyApp
<1>6. /\ DOMAIN x = Fields /\ x.app = a /\ \A f \in Fields \ {"app"} : x[f] = c[f]
      /\ DOMAIN y = Fields /\ y.app = a /\ y.out = Sorted(c.out, p)
      /\ \A f \in Fields \ {"app", "out"} : y[f] = c[f]
  BY <1>2 DEF Fields
<1>7. Asking(c, id, x)
  BY <1>5, <1>6 DEF Asking
<1> HIDE DEF a, x, y
<1>8. c' \in {Kick(y, ok), y}
  BY <1>1, <1>3, Zenon DEF iscsi_task_mgmt_async, p
<1> HIDE DEF p
<1>9. Core(y)
  <2>1. DOMAIN p = FrameFields /\ p.kind \in NoLogouts
    BY <1>4, FrameIs DEF NoLogouts, Kinds, Immediates
  <2>2. \A f \in Fields \ (Minor \cup {"app", "out"}) : y[f] = c[f]
    BY <1>6
  <2> QED
    BY <1>5, <1>6, <2>1, <2>2, QueuedCore
<1>10. ~EnteringIn(c, << >>)
  BY <1>1, <1>2, EnteringSame DEF Core, OneRequest
<1>11. Unasked(c, p.id)
  BY <1>1, <1>4, ConnectionAssumption DEF Unasked, Reqs
<1>12. Books(x, <<p>>)
  BY <1>4, <1>6, <1>7, <1>10, <1>11, AskingBooks
<1>13. p.kind # "login" /\ Under(c.wait, <<p>>) /\ Under(c.out, <<p>>) /\ Immediate(p)
  BY <1>4, UnderOther DEF Immediate, Immediates
<1>14. x.old # NoOld => Excused(x, p.id)
  <2>1. Ranked(c) /\ x.old = c.old
    BY <1>6 DEF Books, Fields
  <2> QED
    BY <1>1, <1>2, <1>4, <1>7, <1>11, <2>1, AskingIs
<1>15. /\ x.cmdsn = c.cmdsn /\ x.wait = c.wait /\ x.out = c.out /\ y.cmdsn = c.cmdsn
       /\ \A f \in Fields \ {"out", "cmdsn"} : y[f] = x[f]
  BY <1>6 DEF Fields
<1>16. y.cmdsn = IF Immediate(p) THEN x.cmdsn ELSE x.cmdsn + 1
  BY <1>13, <1>15
<1>17. Books(y, << >>)
  BY <1>4, <1>6, <1>12, <1>13, <1>14, <1>15, <1>16, QueueBooks
<1>18. /\ y.old = c.old /\ y.tries = c.tries /\ y.pending = c.pending
       /\ y.status_cb = c.status_cb /\ y.wait = c.wait /\ y.out = Sorted(c.out, p)
  BY <1>6 DEF Fields, Steady
<1>19. Held(y, "reconnect") = Held(c, "reconnect")
  <2> DEFINE S == Holding("reconnect")
  <2>1. Blind(S) /\ p \notin S /\ c.out \in Seq(Frame)
    BY <1>2, <1>4, BlindSets DEF Holding, Typed
  <2> HIDE DEF S
  <2>2. Count(Sorted(c.out, p), S) = Count(c.out, S) + 0
    BY <1>4, <2>1, CountSorted
  <2>3. Count(c.out, S) \in Nat
    BY <2>1, CountType
  <2>4. Count(y.out, S) = Count(c.out, S)
    BY <1>18, <2>2, <2>3
  <2> QED
    BY <1>18, <2>4 DEF Held, Here, S
<1> QED
  BY <1>8, <1>9, <1>17, <1>18, <1>19

\* So the books are kept.
LEMMA TaskMgmtBooks == ASSUME Core(c), Books(c, << >>), TaskMgmt PROVE Books(c', << >>)
BY TaskMgmtIs, KickBooks

\* A command is queued on old_iscsi, or written there.
LEMMA OldQueueBooks ==
  ASSUME NEW x, Books(x, << >>), x.old # NoOld, NEW p \in Frame, p.kind = "scsi",
         Unasked(x, p.id), NEW y, DOMAIN y = Fields,
         \A f \in Fields \ {"app", "old", "tgt"} : y[f] = x[f],
         DOMAIN y.tgt = DOMAIN x.tgt, y.tgt.drawn = x.tgt.drawn, Asking(x, p.id, y),
         DOMAIN y.old = OldFields, y.old.retry = x.old.retry, y.old.cmdsn \in Int,
         y.old.out \in Seq(Frame), y.old.wait \in Seq(Frame),
         Numbered(y.old.out, y.old.cmdsn), InLine(y.old.wait, y.old.out),
         \A S : Blind(S) => PutAside(y, S) = PutAside(x, S) + (IF p \in S THEN 1 ELSE 0)
  PROVE  Books(y, << >>)
<1> DEFINE n == << >>
           id == p.id
<1>1. Typed(x) /\ Ranked(x) /\ n \in Seq(Frame) /\ Owned(x, n) /\ Requests(x, n) /\ Alone(x, n)
  BY DEF Books
<1>2. /\ y.out = x.out /\ y.wait = x.wait /\ y.cmdsn = x.cmdsn /\ y.fd = x.fd
      /\ y.status_cb = x.status_cb /\ y.tries = x.tries /\ y.pending = x.pending
      /\ y.deferred = x.deferred /\ y.is_loggedin = x.is_loggedin
  BY DEF Fields, Steady
<1>3. /\ DOMAIN y.app = SteadyApp \cup {"conn", "done", "astray"}
      /\ y.app.conn = x.app.conn /\ y.app.done = x.app.done /\ y.app.asked \subseteq Reqs
      /\ \A i \in y.app.asked \cap Cmds, k \in Cmds : k < i => k \in y.app.asked
      /\ \A r \in Reqs : r # id => (Excused(y, r) <=> Excused(x, r))
      /\ \A r \in Reqs : Excused(x, r) => Excused(y, r)
  BY <1>1, AskingIs
<1>4. id \in Reqs /\ id \notin x.app.asked /\ y.app.asked = x.app.asked \cup {id}
  BY DEF Unasked, Asking
<1>5. p.ct.cb = "none"
  BY FrameIs DEF Carriers, Internal
<1>6. y.old # NoOld
  <2>1. "cmdsn" \in DOMAIN y.old /\ "cmdsn" \notin DOMAIN NoOld
    BY DEF OldFields, NoOld
  <2> QED
    BY <2>1
<1>7. Typed(y)
  BY <1>1, <1>2, <1>3 DEF Typed
<1>8. \A S : Count(n, S) = 0
  BY CountEmpty
<1> HIDE DEF n, id
<1>9. /\ \A S : Here(y, S) = Here(x, S)
      /\ \A cb : Held(y, cb) = Held(x, cb)
  BY <1>2 DEF Here, Held
<1>10. \A S : PutAside(x, S) \in Nat
  BY <1>1, Tallies
<1>11. /\ \A cb \in {"user", "reconnect"} : PutAside(y, Holding(cb)) = PutAside(x, Holding(cb))
       /\ PutAside(y, Logins) = PutAside(x, Logins)
       /\ \A r \in Reqs : PutAside(y, For(r)) = PutAside(x, For(r)) + (IF r = id THEN 1 ELSE 0)
  <2>1. \A S : PutAside(x, S) + 0 = PutAside(x, S)
    BY <1>10
  <2>2. \A S : Blind(S) /\ p \notin S => PutAside(y, S) = PutAside(x, S)
    BY <2>1
  <2>3. /\ \A cb \in {"user", "reconnect"} : Blind(Holding(cb)) /\ p \notin Holding(cb)
        /\ Blind(Logins) /\ p \notin Logins
        /\ \A r \in Reqs : Blind(For(r)) /\ (p \in For(r) <=> r = id)
    BY <1>5, BlindSets, CountsAs DEF Logins, id
  <2> QED
    BY <2>2, <2>3
<1>12. Owned(y, n)
  BY <1>1, <1>3, <1>6, <1>9, <1>11 DEF Owned, Stranded
<1>13. Requests(y, n)
  <2> SUFFICES ASSUME NEW r \in Reqs
               PROVE  LET all == Here(y, For(r)) + PutAside(y, For(r)) + Count(n, For(r))
                                   + Len(y.app.done[r])
                      IN  /\ all <= 1
                          /\ r \notin y.app.asked => all = 0
                          /\ r \in y.app.asked /\ ~Excused(y, r) => all = 1
                          /\ y.old # NoOld /\ ~Excused(y, r) => Here(y, For(r)) = 0
    BY DEF Requests
  <2> DEFINE a == Here(x, For(r))
             b == PutAside(x, For(r))
             l == Len(x.app.done[r])
  <2>1. a \in Nat /\ b \in Nat /\ l \in Nat
    BY <1>1, Tallies, DoneType
  <2>2. /\ a + b + 0 + l <= 1 /\ (r \notin x.app.asked => a + b + 0 + l = 0)
        /\ r \in x.app.asked /\ ~Excused(x, r) => a + b + 0 + l = 1
        /\ ~Excused(x, r) => a = 0
    BY <1>1, <1>8 DEF Requests
  <2>3. Here(y, For(r)) = a /\ Count(n, For(r)) = 0 /\ Len(y.app.done[r]) = l
        /\ PutAside(y, For(r)) = b + (IF r = id THEN 1 ELSE 0)
    BY <1>3, <1>8, <1>9, <1>11
  <2> HIDE DEF a, b, l
  <2>4. CASE r = id
    <3>1. a = 0 /\ b = 0 /\ l = 0
      BY <1>4, <2>1, <2>2, <2>4
    <3>2. a + (b + 1) + 0 + l = 1 /\ r \in y.app.asked
      BY <1>4, <2>4, <3>1
    <3> QED
      BY <2>3, <2>4, <3>1, <3>2
  <2>5. CASE r # id
    <3>1. b + 0 = b
      BY <2>1
    <3>2. (r \in y.app.asked <=> r \in x.app.asked) /\ (Excused(y, r) <=> Excused(x, r))
      BY <1>3, <1>4, <2>5
    <3> QED
      BY <2>2, <2>3, <2>5, <3>1, <3>2
  <2> QED
    BY <2>4, <2>5
<1>14. Alone(y, n)
  BY <1>1, <1>2, <1>8, <1>6, <1>11 DEF Alone, EnteringIn
<1>15. Ranked(y)
  BY <1>1, <1>2, <1>3 DEF Ranked
<1>16. Books(y, n)
  BY <1>1, <1>7, <1>12, <1>13, <1>14, <1>15 DEF Books
<1> QED
  BY <1>16 DEF n

\* The command at the end of the queue of old_iscsi, and at that of waitpdu.
LEMMA OldQueueIs ==
  ASSUME NEW s \in Seq(Frame), NEW w \in Seq(Frame), NEW n \in Int, Numbered(s, n), InLine(w, s),
         NEW p \in Frame, p.kind = "scsi", p.sn = n, Under(s, <<p>>), Under(w, <<p>>)
  PROVE  /\ Sorted(s, p) = Append(s, p) /\ Append(s, p) \in Seq(Frame)
         /\ Numbered(Append(s, p), n + 1) /\ InLine(w, Append(s, p))
         /\ \A S : Count(Append(s, p), S) = Count(s, S) + (IF p \in S THEN 1 ELSE 0)
         /\ Append(w, p) \in Seq(Frame)
         /\ s = << >> => InLine(Append(w, p), << >>)
         /\ \A S : Count(Append(w, p), S) = Count(w, S) + (IF p \in S THEN 1 ELSE 0)
<1>1. ~Immediate(p)
  BY DEF Immediate, Immediates
<1>2. Sorted(s, p) = Append(s, p) /\ Numbered(Append(s, p), n + 1)
  BY <1>1, SortedCommand
<1>3. /\ Append(s, p) \in Seq(Frame) /\ Append(w, p) \in Seq(Frame)
      /\ \A S : Count(Append(s, p), S) = Count(s, S) + (IF p \in S THEN 1 ELSE 0)
      /\ \A S : Count(Append(w, p), S) = Count(w, S) + (IF p \in S THEN 1 ELSE 0)
  BY CountAppend
<1>4. InLine(w, Append(s, p))
  BY <1>2, SortedOrder DEF InLine
<1>5. InOrder(Append(w, p))
  <2> DEFINE q == <<p>>
  <2>1. q \in Seq(Frame) /\ InOrder(q)
    BY DEF InOrder
  <2>2. Append(w, p) = w \o q
    BY AppendProperties, ConcatProperties
  <2> HIDE DEF q
  <2>3. Under(w, q)
    BY DEF q
  <2> QED
    BY <2>1, <2>2, <2>3, InOrderConcat DEF InLine
<1>6. InLine(Append(w, p), << >>)
  <2>1. InOrder(<< >>) /\ Under(Append(w, p), << >>)
    BY DEF InOrder, Under
  <2> QED
    BY <1>5, <2>1 DEF InLine
<1> QED
  BY <1>2, <1>3, <1>4, <1>6

\* What becomes of a command handed to old_iscsi while it has nothing queued.
LEMMA KickOldIs ==
  ASSUME NEW x, DOMAIN x = Fields, "astray" \in DOMAIN x.app,
         {"out", "wait"} \subseteq DOMAIN x.old, "mixed" \in DOMAIN x.tgt
  PROVE  LET p == Head(x.old.out)
             o == [x.old EXCEPT !.out = Tail(x.old.out), !.wait = Append(x.old.wait, p)]
             t == [x.tgt EXCEPT !.mixed = TRUE]
         IN  \/ KickOld(x).app.astray
             \/ KickOld(x) = x
             \/ KickOld(x) = [x EXCEPT !.old = o, !.tgt = t]
             \/ KickOld(x) = [x EXCEPT !.old = o, !.tgt = Arrive(t, <<p>>, x.is_loggedin)]
<1> DEFINE p == Head(x.old.out)
           o == [x.old EXCEPT !.out = Tail(x.old.out), !.wait = Append(x.old.wait, p)]
           t == [x.tgt EXCEPT !.mixed = TRUE]
           r == Arrive(t, <<p>>, x.is_loggedin)
           moved == [x EXCEPT !.old = o, !.tgt = t]
           m == [x EXCEPT !.old.out = Tail(@), !.old.wait = Append(@, p), !.tgt.mixed = TRUE]
<1>1. m = moved
  BY DEF Fields
<1>2. /\ moved.tgt = t /\ moved.app = x.app /\ DOMAIN moved = Fields
      /\ [moved EXCEPT !.tgt = r] = [x EXCEPT !.old = o, !.tgt = r]
  BY DEF Fields
<1> HIDE DEF m, moved, o, r, t, p
<1>3. [x EXCEPT !.app.astray = TRUE].app.astray
  BY DEF Fields
<1>4. [moved EXCEPT !.app.astray = TRUE].app.astray
  BY <1>2 DEF Fields
<1>5. [moved EXCEPT !.tgt = r] = [moved EXCEPT !.tgt = Arrive(@, <<p>>, x.is_loggedin)]
  BY <1>2 DEF r
<1>6. KickOld(x) \in {[x EXCEPT !.app.astray = TRUE], x, [moved EXCEPT !.app.astray = TRUE],
                      [moved EXCEPT !.tgt = r], moved}
  BY <1>1, <1>5 DEF KickOld, Astray, m, p
<1>7. KickOld(x).app.astray \/ KickOld(x) = x \/ KickOld(x) = moved
        \/ KickOld(x) = [moved EXCEPT !.tgt = r]
  BY <1>3, <1>4, <1>6
<1> QED
  BY <1>2, <1>7 DEF moved, o, r, t, p

\* A command submitted while a reconnect is under way goes to old_iscsi.
LEMMA SubmitOldBooks ==
  ASSUME NEW x, Core(x), Books(x, << >>), x.old # NoOld, NEW id \in Cmds, Unasked(x, id), NEW ok,
         NEW y, y = iscsi_scsi_command_async(x, id, ok)
  PROVE  y.app.astray \/ Books(y, << >>)
<1> DEFINE asked == x.app.asked \cup {id}
           during == x.app.during \cup {id}
           a == [x.app EXCEPT !.asked = asked, !.during = during]
           s == x.old.out
           w == x.old.wait
           n == x.old.cmdsn
           p == Pdu("scsi", id, n, NoCt)
           o == [x.old EXCEPT !.cmdsn = n + 1, !.out = Sorted(s, p)]
           z == [x EXCEPT !.app = a, !.old = o]
           x1 == [x EXCEPT !.app.asked = @ \cup {id},
                           !.app.during = IF x.old = NoOld THEN @ ELSE @ \cup {id}]
           z1 == [x1 EXCEPT !.old.cmdsn = @ + 1, !.old.out = Sorted(@, p)]
<1>1. /\ Typed(x) /\ DOMAIN x = Fields /\ DOMAIN x.app = SteadyApp \cup {"conn", "done", "astray"}
      /\ DOMAIN x.old = OldFields /\ s \in Seq(Frame) /\ w \in Seq(Frame) /\ n \in Int
      /\ Numbered(s, n) /\ InLine(w, s) /\ "mixed" \in DOMAIN x.tgt /\ "drawn" \in DOMAIN x.tgt
      /\ DOMAIN x.tgt = SteadyTgt \cup {"expect", "strange"}
  BY DEF Books, Typed, Ranked, Core, Shape, SteadyTgt
<1>2. y = IF Head(z1.old.out) = p THEN KickOld(z1) ELSE z1
  BY Zenon DEF iscsi_scsi_command_async
<1>3. z1 = z
  <2> DEFINE x2 == [x EXCEPT !.app = a]
  <2>1. x1 = x2
    BY <1>1 DEF Fields
  <2>2. x2.old = x.old /\ DOMAIN x2 = Fields /\ z = [x2 EXCEPT !.old = o]
    BY <1>1 DEF Fields
  <2> HIDE DEF x1, x2, z
  <2> QED
    BY <2>1, <2>2 DEF Fields
<1>4. /\ DOMAIN a = DOMAIN x.app /\ a.asked = asked /\ a.during = during
      /\ \A f \in DOMAIN x.app \ {"asked", "during"} : a[f] = x.app[f]
  BY <1>1 DEF SteadyApp
<1>5. p \in Frame /\ p.kind = "scsi" /\ p.id = id /\ p.sn = n
  BY <1>1 DEF Pdu, Frame, NoCt, Kinds, Immediates, Carriers, Internal, Reqs
<1> HIDE DEF p
<1>6. Under(s, <<p>>) /\ Under(w, <<p>>) /\ Count(s, For(id)) = 0
  BY <1>5, NewestUnder
<1> DEFINE so == Append(s, p)
           wo == Append(w, p)
<1>7. /\ Sorted(s, p) = so /\ so \in Seq(Frame) /\ Numbered(so, n + 1) /\ InLine(w, so)
      /\ wo \in Seq(Frame) /\ (s = << >> => InLine(wo, << >>))
      /\ \A S : Count(so, S) = Count(s, S) + (IF p \in S THEN 1 ELSE 0)
      /\ \A S : Count(wo, S) = Count(w, S) + (IF p \in S THEN 1 ELSE 0)
  BY <1>1, <1>5, <1>6, OldQueueIs
<1>8. /\ DOMAIN o = OldFields /\ o.retry = x.old.retry /\ o.cmdsn = n + 1 /\ o.out = so
      /\ o.wait = w
  BY <1>1, <1>7 DEF OldFields
<1>9. /\ DOMAIN z = Fields /\ z.app = a /\ z.old = o /\ \A f \in Fields \ {"app", "old"} : z[f] = x[f]
  BY <1>1 DEF Fields
<1>10. Head(so) = p => s = << >>
  <2> SUFFICES ASSUME s # << >>, Head(so) = p PROVE FALSE
    OBVIOUS
  <2> HIDE DEF s
  <2>1. Len(s) \in Nat /\ Len(s) # 0 /\ DOMAIN s = 1 .. Len(s)
    BY <1>1, EmptySeq, LenProperties
  <2>2. so[1] = s[1] /\ so # << >>
    BY <1>1, <1>5, <2>1, AppendProperties
  <2>3. Head(so) = so[1]
    BY <1>7, <2>2, HeadTailProperties
  <2>4. 1 \in DOMAIN s /\ s[1] \in For(id)
    BY <1>5, <2>1, <2>2, <2>3 DEF For
  <2> QED
    BY <1>1, <1>6, <2>4, CountType
<1> HIDE DEF a, o, z, z1, x1, s, w, n, so, wo
<1>11. z.tgt = x.tgt /\ z.is_loggedin = x.is_loggedin
  BY <1>9 DEF Fields, Steady
<1>12. \A S : /\ Count(s, S) \in Nat /\ Count(w, S) \in Nat
              /\ PutAside(x, S) = Count(s, S) + Count(w, S)
  BY <1>1, CountType DEF PutAside, s, w
<1>13. Asking(x, id, z)
  BY <1>4, <1>9 DEF Asking
<1>14. Books(z, << >>)
  <2>1. \A S : PutAside(z, S) = PutAside(x, S) + (IF p \in S THEN 1 ELSE 0)
    <3> TAKE S
    <3> DEFINE d == Count(s, S)
               e == Count(w, S)
               g == IF p \in S THEN 1 ELSE 0
    <3>1. d \in Nat /\ e \in Nat /\ g \in Nat /\ PutAside(x, S) = d + e
      BY <1>12
    <3>2. PutAside(z, S) = (d + g) + e
      BY <1>7, <1>8, <1>9 DEF PutAside
    <3> HIDE DEF d, e, g
    <3>3. PutAside(z, S) = PutAside(x, S) + g
      BY <3>1, <3>2
    <3> QED
      BY <3>3 DEF g
  <2>2. z.old.cmdsn \in Int /\ z.old.out = so /\ z.old.wait = w /\ z.old.cmdsn = n + 1
        /\ DOMAIN z.old = OldFields /\ z.old.retry = x.old.retry
    BY <1>1, <1>8, <1>9
  <2>3. \A f \in Fields \ {"app", "old", "tgt"} : z[f] = x[f]
    BY <1>9
  <2> QED
    BY <1>1, <1>5, <1>7, <1>9, <1>11, <1>13, <2>1, <2>2, <2>3, OldQueueBooks
<1>15. CASE Head(so) # p
  BY <1>2, <1>3, <1>8, <1>9, <1>14, <1>15
<1>16. CASE Head(so) = p
  <2> DEFINE o2 == [z.old EXCEPT !.out = Tail(z.old.out), !.wait = Append(z.old.wait, Head(z.old.out))]
             t == [z.tgt EXCEPT !.mixed = TRUE]
             r == Arrive(t, <<Head(z.old.out)>>, z.is_loggedin)
  <2>1. s = << >>
    BY <1>10, <1>16
  <2>2. Tail(so) = << >>
    <3>1. so = <<p>>
      BY <2>1 DEF so
    <3> QED
      BY <3>1
  <2>3. "astray" \in DOMAIN z.app /\ {"out", "wait"} \subseteq DOMAIN z.old /\ "mixed" \in DOMAIN z.tgt
    BY <1>1, <1>4, <1>8, <1>9, <1>11 DEF SteadyApp, OldFields
  <2>4. \/ y.app.astray \/ y = z \/ y = [z EXCEPT !.old = o2, !.tgt = t]
        \/ y = [z EXCEPT !.old = o2, !.tgt = r]
    <3>1. y = KickOld(z)
      BY <1>2, <1>3, <1>8, <1>9, <1>16
    <3> QED
      BY <1>9, <2>3, <3>1, KickOldIs
  <2>5. /\ DOMAIN o2 = OldFields /\ o2.retry = x.old.retry /\ o2.cmdsn = n + 1 /\ o2.out = << >>
        /\ o2.wait = wo
    BY <1>8, <1>9, <1>16, <2>2 DEF OldFields, wo
  <2>6. DOMAIN t = DOMAIN x.tgt /\ t.drawn = x.tgt.drawn
    BY <1>1, <1>11 DEF SteadyTgt
  <2>7. DOMAIN r = DOMAIN x.tgt /\ r.drawn = x.tgt.drawn
    <3> HIDE DEF t
    <3> QED
      BY <1>1, <2>6, ArriveKeeps DEF SteadyTgt
  <2>8. ASSUME NEW u \in {t, r} PROVE Books([z EXCEPT !.old = o2, !.tgt = u], << >>)
    <3> DEFINE v == [z EXCEPT !.old = o2, !.tgt = u]
    <3>1. DOMAIN u = DOMAIN x.tgt /\ u.drawn = x.tgt.drawn
      BY <2>6, <2>7
    <3> HIDE DEF o2, t, r
    <3>2. /\ DOMAIN v = Fields /\ v.old = o2 /\ v.tgt = u /\ v.app = a
          /\ \A f \in Fields \ {"app", "old", "tgt"} : v[f] = x[f]
      BY <1>9 DEF Fields
    <3> HIDE DEF v
    <3>3. Asking(x, id, v)
      BY <1>4, <3>2 DEF Asking
    <3>4. \A S : PutAside(v, S) = PutAside(x, S) + (IF p \in S THEN 1 ELSE 0)
      <4> TAKE S
      <4> DEFINE d == Count(s, S)
                 e == Count(w, S)
                 g == IF p \in S THEN 1 ELSE 0
      <4>1. d = 0 /\ e \in Nat /\ g \in Nat /\ PutAside(x, S) = d + e
        BY <1>12, <2>1, CountEmpty
      <4>2. PutAside(v, S) = 0 + (e + g)
        BY <1>7, <2>5, <3>2, CountEmpty DEF PutAside
      <4> HIDE DEF d, e, g
      <4>3. PutAside(v, S) = PutAside(x, S) + g
        BY <4>1, <4>2
      <4> QED
        BY <4>3 DEF g
    <3>5. /\ v.old.cmdsn \in Int /\ v.old.out = << >> /\ v.old.wait = wo
          /\ DOMAIN v.old = OldFields /\ v.old.retry = x.old.retry
          /\ v.old.out \in Seq(Frame) /\ v.old.wait \in Seq(Frame)
      <4>1. n + 1 \in Int /\ << >> \in Seq(Frame)
        BY <1>1
      <4> QED
        BY <1>7, <2>5, <3>2, <4>1
    <3>6. Numbered(v.old.out, v.old.cmdsn) /\ InLine(v.old.wait, v.old.out)
      BY <1>7, <2>1, <3>5, NumberedEmpty
    <3>7. Books(v, << >>)
      BY <1>5, <3>1, <3>2, <3>3, <3>4, <3>5, <3>6, OldQueueBooks
    <3> QED
      BY <3>7 DEF v
  <2> HIDE DEF o2, t, r
  <2> QED
    BY <1>14, <2>4, <2>8
<1> QED
  BY <1>15, <1>16

\* A command submitted in a session goes to the queue of the context.
LEMMA SubmitNewBooks ==
  ASSUME NEW x, Core(x), Books(x, << >>), x.old = NoOld, x.is_loggedin \/ x.pending,
         NEW id \in Cmds, Unasked(x, id), NEW ok
  PROVE  Books(iscsi_scsi_command_async(x, id, ok), << >>)
<1> DEFINE asked == x.app.asked \cup {id}
           during == x.app.during
           a == [x.app EXCEPT !.asked = asked, !.during = during]
           y == [x EXCEPT !.app = a]
           p == Pdu("scsi", id, x.cmdsn, NoCt)
           z == [y EXCEPT !.cmdsn = x.cmdsn + 1, !.out = Sorted(x.out, p)]
           y1 == [x EXCEPT !.app.asked = @ \cup {id},
                           !.app.during = IF x.old = NoOld THEN @ ELSE @ \cup {id}]
           z1 == [y1 EXCEPT !.cmdsn = @ + 1, !.out = Sorted(@, p)]
<1>0. iscsi_scsi_command_async(x, id, ok) = IF Head(z1.out) = p THEN Kick(z1, ok) ELSE z1
  BY Zenon DEF iscsi_scsi_command_async
<1>1. Typed(x) /\ DOMAIN x = Fields /\ DOMAIN x.app = SteadyApp \cup {"conn", "done", "astray"} /\ x.cmdsn \in Int
  BY DEF Books, Typed
<1>2. /\ DOMAIN y = Fields /\ y.app = a /\ \A f \in Fields \ {"app"} : y[f] = x[f]
      /\ y.old = x.old /\ y.cmdsn = x.cmdsn /\ y.out = x.out /\ y.wait = x.wait
  BY <1>1 DEF Fields
<1>3. y1 = y /\ z1 = z
  <2>1. y1 = y
    BY <1>1 DEF Fields
  <2> HIDE DEF y1, y
  <2> QED
    BY <1>2, <2>1 DEF Fields
<1>4. /\ DOMAIN a = DOMAIN x.app /\ a.started = x.app.started /\ a.asked = asked /\ a.during = during
      /\ \A f \in DOMAIN x.app \ {"asked", "during"} : a[f] = x.app[f]
  BY <1>1 DEF SteadyApp
<1>5. p \in Frame /\ p.kind = "scsi" /\ p.id = id /\ p.sn = x.cmdsn /\ p.ct.cb = "none"
  BY <1>1 DEF Pdu, Frame, NoCt, Kinds, Immediates, Carriers, Internal, Reqs
<1> HIDE DEF a, y, y1, p
<1>6. /\ DOMAIN z = Fields /\ z.out = Sorted(x.out, p) /\ z.cmdsn = x.cmdsn + 1 /\ z.app = a
      /\ \A f \in Fields \ {"out", "cmdsn"} : z[f] = y[f]
      /\ \A f \in Fields \ (Minor \cup {"app", "out"}) : z[f] = x[f]
  BY <1>2 DEF Fields, Steady, Minor
<1> HIDE DEF z, z1
<1>7. iscsi_scsi_command_async(x, id, ok) \in {Kick(z, ok), z}
  BY <1>0, <1>3
<1>8. Core(z)
  <2>1. DOMAIN p = FrameFields /\ p.kind \in NoLogouts
    BY <1>5, FrameIs DEF NoLogouts, Kinds, Immediates
  <2> QED
    BY <1>4, <1>6, <2>1, QueuedCore
<1>9. ~EnteringIn(x, << >>)
  BY <1>1, EnteringSame DEF Core, OneRequest, Books, Alone
<1>10. Asking(x, id, y)
  BY <1>2, <1>4 DEF Asking
<1>11. Books(y, <<p>>)
  BY <1>2, <1>5, <1>9, <1>10, AskingBooks
<1>12. Under(x.wait, <<p>>) /\ Under(x.out, <<p>>) /\ ~Immediate(p) /\ p.kind # "login"
  BY <1>5, NewestUnder DEF Immediate, Immediates
<1>13. z.cmdsn = IF Immediate(p) THEN y.cmdsn ELSE y.cmdsn + 1
  BY <1>2, <1>6, <1>12
<1>14. Books(z, << >>)
  BY <1>2, <1>5, <1>6, <1>11, <1>12, <1>13, QueueBooks
<1> QED
  BY <1>7, <1>8, <1>14, KickBooks

\* iscsi_scsi_command_async.
LEMMA SubmitBooks ==
  ASSUME Core(c), Books(c, << >>), Submit
  PROVE  c'.app.astray \/ Books(c', << >>)
<1>1. PICK id \in Cmds, ok \in BOOLEAN :
        /\ ~Asked(id) /\ \A k \in Cmds : k < id => Asked(k)
        /\ IF Reconnecting THEN c.old.is_loggedin \/ c.old.pending ELSE CanCommand(c)
        /\ c' = iscsi_scsi_command_async(c, id, ok)
  BY DEF Submit
<1>2. Unasked(c, id)
  BY <1>1 DEF Unasked, Asked, Reqs
<1>3. CASE c.old # NoOld
  BY <1>1, <1>2, <1>3, SubmitOldBooks
<1>4. CASE c.old = NoOld
  BY <1>1, <1>2, <1>4, SubmitNewBooks DEF Reconnecting, CanCommand
<1> QED
  BY <1>3, <1>4

\* Before iscsi_full_connect_async there is nothing to keep books of.
Blank(x) ==
  /\ Typed(x) /\ x.fd = "none" /\ x.status_cb = NoCt /\ x.out = << >> /\ x.wait = << >>
  /\ x.old = NoOld /\ ~x.pending /\ ~x.deferred /\ ~x.is_loggedin
  /\ x.app.conn = << >> /\ x.app.asked = {} /\ x.app.done = [r \in Reqs |-> << >>]

\* The inductive invariant of the books.  A context that has gone astray does
\* nothing more.
BooksInv ==
  LoginInv /\ IF c.app.started THEN c.app.astray \/ Books(c, << >>) ELSE Blank(c)

\* Nothing is counted before the first call.
LEMMA BlankCounts ==
  ASSUME NEW x, Blank(x)
  PROVE  /\ \A S : Here(x, S) = 0 /\ PutAside(x, S) = 0
         /\ \A id \in Reqs : Len(x.app.done[id]) = 0
         /\ Len(x.app.conn) = 0
<1>1. x.out = << >> /\ x.wait = << >> /\ x.old.out = << >> /\ x.old.wait = << >>
  BY DEF Blank, NoOld
<1>2. \A S : Here(x, S) = 0 /\ PutAside(x, S) = 0
  BY <1>1, CountEmpty DEF Here, PutAside
<1> QED
  BY <1>2 DEF Blank

\* iscsi_full_connect_async opens the books.
LEMMA FirstBooks ==
  ASSUME NEW x, Blank(x), NEW y, DOMAIN y = Fields,
         \A f \in Fields \ {"fd", "status_cb", "tgt", "room", "app"} : y[f] = x[f],
         "drawn" \in DOMAIN y.tgt, y.tgt.drawn \in Nat, DOMAIN y.app = DOMAIN x.app,
         \A f \in DOMAIN x.app \ {"started", "conn"} : y.app[f] = x.app[f],
         \/ /\ y.fd = "connecting" /\ y.status_cb = [cb |-> "user", uas |-> 0]
            /\ y.app.conn = << >>
         \/ y.fd = "none" /\ y.status_cb = NoCt /\ y.app.conn = <<"refused">>
  PROVE  Books(y, << >>)
<1> DEFINE n == << >>
<1>1. n \in Seq(Frame) /\ \A S : Count(n, S) = 0
  BY CountEmpty
<1> HIDE DEF n
<1>2. Typed(x)
  BY DEF Blank
<1>3. /\ y.out = << >> /\ y.wait = << >> /\ y.old = NoOld /\ y.cmdsn = x.cmdsn /\ y.tries = x.tries
      /\ y.app.asked = {} /\ y.app.done = x.app.done /\ ~y.pending /\ ~y.deferred /\ ~y.is_loggedin
      /\ y.app.during = x.app.during
  BY <1>2 DEF Blank, Typed, Fields, Steady, SteadyApp
<1>4. "refused" \in Results /\ << >> \in Seq(Results) /\ <<"refused">> \in Seq(Results)
  BY DEF Results
<1>5. Typed(y)
  <2>1. /\ y.status_cb \in Tasks /\ (y.status_cb.cb # "none" <=> y.fd = "connecting")
        /\ y.app.conn \in Seq(Results)
    <3>1. /\ NoCt \in Tasks /\ NoCt.cb = "none"
          /\ [cb |-> "user", uas |-> 0] \in Tasks /\ [cb |-> "user", uas |-> 0].cb = "user"
      BY DEF Tasks, NoCt
    <3>2. CASE y.fd = "connecting" /\ y.status_cb = [cb |-> "user", uas |-> 0] /\ y.app.conn = << >>
      BY <1>4, <3>1, <3>2
    <3>3. CASE y.fd = "none" /\ y.status_cb = NoCt /\ y.app.conn = <<"refused">>
      BY <1>4, <3>1, <3>3
    <3> QED
      BY <3>2, <3>3
  <2>2. y.old = x.old /\ x.out = << >> /\ x.wait = << >>
    BY <1>3 DEF Blank
  <2> QED
    BY <1>2, <1>3, <2>1, <2>2 DEF Typed
<1>6. y.old.out = << >> /\ y.old.wait = << >>
  BY <1>3 DEF NoOld
<1>7. \A S : Here(y, S) = 0 /\ PutAside(y, S) = 0
  BY <1>3, <1>6, CountEmpty DEF Here, PutAside
<1>8. Owned(y, n)
  <2>1. Held(y, "reconnect") = 0
    BY <1>7 DEF Held, NoCt
  <2>2. Len(y.app.conn) + Held(y, "user") = 1
    <3>1. Held(y, "user") = (IF y.status_cb.cb = "user" THEN 1 ELSE 0)
      BY <1>7 DEF Held
    <3>2. CASE y.status_cb = [cb |-> "user", uas |-> 0] /\ y.app.conn = << >>
      BY <3>1, <3>2
    <3>3. CASE y.status_cb = NoCt /\ y.app.conn = <<"refused">>
      BY <3>1, <3>3 DEF NoCt
    <3> QED
      BY <3>2, <3>3
  <2>3. Len(y.app.conn) \in Nat /\ Held(y, "user") \in Nat
    BY <1>5, HeldType, DoneType
  <2> DEFINE a == Len(y.app.conn)
             b == Held(y, "user")
  <2>4. a \in Nat /\ b \in Nat /\ a + b = 1
    BY <2>2, <2>3
  <2> HIDE DEF a, b
  <2>5. a + (b + 0) + 0 = 1
    BY <2>4
  <2> QED
    BY <1>1, <1>3, <1>7, <2>1, <2>5 DEF Owned, a, b
<1>9. Requests(y, n)
  BY <1>1, <1>3, <1>7, BlankCounts DEF Requests
<1>10. Alone(y, n)
  BY <1>1, <1>3, <1>7, CountEmpty DEF Alone
<1>11. Ranked(y)
  <2>1. InLine(<< >>, << >>)
    BY DEF InLine, InOrder, Under
  <2> QED
    BY <1>3, <1>6, <2>1, NumberedEmpty DEF Ranked
<1>12. Books(y, n)
  BY <1>1, <1>5, <1>8, <1>9, <1>10, <1>11 DEF Books
<1> QED
  BY <1>12 DEF n

\* The first steps.
LEMMA BlankStep ==
  ASSUME Idle(c), Blank(c), Next
  PROVE  IF c'.app.started THEN Books(c', << >>) ELSE Blank(c')
<1>1. Connect \/ SetNoAutoReconnect
  BY DEF Idle, Next, Submit, TaskMgmt, ForceReconnect, ResetNextReconnect, Establish, Refuse,
         ServiceError, ServicePending, Write, LoginReply, LoginSurprise, ProbeReply,
         ProbeSurprise, ResetReply, RequestReply, AsyncMessage, Ping, Timeout, Drop, Block,
         Unblock, Tick, Readable, Serviced, PendingDue, Reconnecting, CanCommand
<1>2. DOMAIN c = Fields /\ DOMAIN c.app = SteadyApp \cup {"conn", "done", "astray"} /\ ~c.app.started
      /\ c.app.conn = << >> /\ Typed(c)
  BY DEF Blank, Typed, Idle
<1>3. CASE SetNoAutoReconnect
  <2>1. PICK state \in BOOLEAN : c' = [c EXCEPT !.noauto = state]
    BY <1>3 DEF SetNoAutoReconnect, Idle
  <2> DEFINE y == [c EXCEPT !.noauto = state]
  <2>2. DOMAIN y = Fields /\ \A f \in Fields \ {"noauto"} : y[f] = c[f]
    BY <1>2 DEF Fields, Steady
  <2> HIDE DEF y
  <2>3. /\ y.wait = c.wait /\ y.out = c.out /\ y.old = c.old /\ y.app = c.app /\ y.tgt = c.tgt
        /\ y.fd = c.fd /\ y.is_loggedin = c.is_loggedin /\ y.pending = c.pending
        /\ y.deferred = c.deferred /\ y.status_cb = c.status_cb /\ y.cmdsn = c.cmdsn /\ y.tries = c.tries
    BY <2>2 DEF Fields, Steady
  <2>4. Typed(y)
    <3>1. DOMAIN y = Fields
      BY <2>2
    <3>2. y.old # NoOld => DOMAIN y.old = OldFields /\ y.old.cmdsn \in Int /\ y.old.retry \in Nat
      BY <1>2, <2>3 DEF Typed
    <3>3. /\ y.out \in Seq(Frame) /\ y.wait \in Seq(Frame) /\ y.cmdsn \in Int
          /\ y.old.out \in Seq(Frame) /\ y.old.wait \in Seq(Frame) /\ y.tries \in Nat
      BY <1>2, <2>3 DEF Typed
    <3>4. y.status_cb \in Tasks /\ (y.status_cb.cb # "none" <=> y.fd = "connecting")
      BY <1>2, <2>3 DEF Typed
    <3>5. /\ DOMAIN y.app = SteadyApp \cup {"conn", "done", "astray"}
          /\ y.app.conn \in Seq(Results) /\ y.app.done \in [Reqs -> Seq(Results)]
          /\ y.app.asked \subseteq Reqs
      BY <1>2, <2>3 DEF Typed
    <3>6. "drawn" \in DOMAIN y.tgt /\ y.tgt.drawn \in Nat
      BY <1>2, <2>3 DEF Typed
    <3> HIDE DEF NoOld
    <3> QED
      BY <3>1, <3>2, <3>3, <3>4, <3>5, <3>6, Zenon DEF Typed
  <2>5. Blank(y) /\ ~y.app.started
    BY <1>2, <2>3, <2>4 DEF Blank
  <2> QED
    BY <2>1, <2>5 DEF y
<1>4. CASE Connect
  <2> DEFINE a == [c.app EXCEPT !.started = TRUE]
             e == [c.app EXCEPT !.started = TRUE, !.conn = <<"refused">>]
             x == [c EXCEPT !.app = a]
             y == [c EXCEPT !.app = e]
             ct == [cb |-> "user", uas |-> 0]
             z == iscsi_connect_async(x, ct, TRUE)
  <2>1. c' \in {z, y}
    <3>1. /\ x = [c EXCEPT !.app.started = TRUE]
          /\ y = [c EXCEPT !.app.started = TRUE, !.app.conn = <<"refused">>]
      BY <1>2 DEF Fields
    <3> HIDE DEF x, y
    <3> QED
      BY <1>4, <3>1 DEF Connect, iscsi_full_connect_async
  <2>2. /\ DOMAIN a = DOMAIN c.app /\ a.started = TRUE /\ a.conn = << >>
        /\ DOMAIN e = DOMAIN c.app /\ e.started = TRUE /\ e.conn = <<"refused">>
        /\ \A f \in DOMAIN c.app \ {"started", "conn"} : a[f] = c.app[f] /\ e[f] = c.app[f]
    BY <1>2 DEF SteadyApp
  <2> HIDE DEF a, e
  <2>3. /\ DOMAIN x = Fields /\ x.app = a /\ \A f \in Fields \ {"app"} : x[f] = c[f]
        /\ DOMAIN y = Fields /\ y.app = e /\ \A f \in Fields \ {"app"} : y[f] = c[f]
    BY <1>2 DEF Fields
  <2> HIDE DEF x, y
  <2>4. Books(z, << >>) /\ z.app.started
    <3>1. /\ DOMAIN z = Fields /\ z.app = a /\ z.fd = "connecting" /\ z.status_cb = ct
          /\ \A f \in Fields \ {"fd", "status_cb", "tgt", "room", "app"} : z[f] = c[f]
          /\ "drawn" \in DOMAIN z.tgt /\ z.tgt.drawn \in Nat
      BY <2>3 DEF iscsi_connect_async, Fields, Steady
    <3> HIDE DEF z
    <3>2. Books(z, << >>)
      BY <2>2, <3>1, FirstBooks
    <3> QED
      BY <2>2, <3>1, <3>2
  <2>5. Books(y, << >>) /\ y.app.started
    <3>1. /\ y.fd = "none" /\ y.status_cb = NoCt /\ y.tgt = c.tgt
          /\ \A f \in Fields \ {"fd", "status_cb", "tgt", "room", "app"} : y[f] = c[f]
      BY <2>3 DEF Fields, Steady, Blank
    <3> QED
      BY <1>2, <2>2, <2>3, <3>1, FirstBooks DEF Typed
  <2> QED
    BY <2>1, <2>4, <2>5
<1> QED
  BY <1>1, <1>3, <1>4

\* Every step of a started context keeps the books, or the context goes astray.
LEMMA BooksStep ==
  ASSUME Core(c), Books(c, << >>), Next
  PROVE  c'.app.astray \/ Books(c', << >>)
<1>1. ~Connect
  BY DEF Connect, Core
<1> QED
  BY <1>1, SubmitBooks, TaskMgmtBooks, SetNoAutoBooks, ForceBooks, QuietBooks, EstablishBooks,
     RefuseBooks, ServiceStepBooks, LoginReplyBooks, LoginSurpriseBooks, ProbeBooks,
     ResetReplyBooks, RequestReplyBooks, AsyncMessageBooks, PingBooks, TimeoutBooks DEF Next

\* The initial state.
LEMMA BooksInit == Init => BooksInv
<1> SUFFICES ASSUME Init PROVE Blank(c) /\ ~c.app.started
  BY LoginInvInit DEF BooksInv
<1>1. /\ DOMAIN c = Fields /\ DOMAIN c.app = SteadyApp \cup {"conn", "done", "astray"}
      /\ "drawn" \in DOMAIN c.tgt /\ c.tgt.drawn = 0
  BY DEF Init, Fields, Steady, SteadyApp
<1>2. /\ c.app.started = FALSE /\ c.fd = "none" /\ c.is_loggedin = FALSE /\ c.pending = FALSE
      /\ c.deferred = FALSE /\ c.out = << >> /\ c.wait = << >> /\ c.old = NoOld /\ c.status_cb = NoCt
      /\ c.cmdsn = 0 /\ c.tries = 0 /\ c.app.conn = << >> /\ c.app.asked = {}
      /\ c.app.done = [r \in Reqs |-> << >>]
  BY DEF Init
<1>3. << >> \in Seq(Frame) /\ << >> \in Seq(Results) /\ NoOld.out = << >> /\ NoOld.wait = << >>
      /\ NoCt \in Tasks /\ NoCt.cb = "none"
  BY DEF NoOld, NoCt, Tasks
<1>4. Typed(c)
  BY <1>1, <1>2, <1>3 DEF Typed
<1> QED
  BY <1>2, <1>4 DEF Blank

\* Every step keeps the inductive invariant.
LEMMA BooksInvStep == BooksInv /\ [Next]_vars => BooksInv'
<1> SUFFICES ASSUME BooksInv, [Next]_vars PROVE BooksInv'
  OBVIOUS
<1> USE DEF BooksInv
<1>1. LoginInv'
  BY LoginInvStep
<1>2. CASE UNCHANGED vars
  <2>1. c' = c
    BY <1>2 DEF vars
  <2> QED
    BY <1>1, <2>1
<1>3. CASE Next
  <2>1. CASE Idle(c)
    <3>1. ~c.app.started /\ Blank(c)
      BY <2>1 DEF Idle
    <3>2. IF c'.app.started THEN Books(c', << >>) ELSE Blank(c')
      BY <1>3, <2>1, <3>1, BlankStep
    <3> QED
      BY <1>1, <3>2
  <2>2. CASE Core(c)
    <3>1. c.app.started /\ Core(c')
      BY <1>3, <2>2, CoreStep DEF Core
    <3>2. ~c.app.astray
      BY <1>3, <3>1 DEF Next, Connect, Submit, TaskMgmt, SetNoAutoReconnect, ForceReconnect,
         ResetNextReconnect, Establish, Refuse, ServiceError, ServicePending, Write, LoginReply,
         LoginSurprise, ProbeReply, ProbeSurprise, ResetReply, RequestReply, AsyncMessage, Ping,
         Timeout, Drop, Block, Unblock, Tick, Readable, Live
    <3>3. c'.app.astray \/ Books(c', << >>)
      BY <1>3, <2>2, <3>1, <3>2, BooksStep
    <3>4. c'.app.started
      BY <3>1 DEF Core
    <3> QED
      BY <1>1, <3>3, <3>4
  <2> QED
    BY <2>1, <2>2 DEF LoginInv
<1> QED
  BY <1>2, <1>3

\* The books are kept in every reachable state: what the callbacks, cancelled
\* queues, timeouts, redirects and reconnects do to the queues of a context and
\* of old_iscsi never changes who holds a connect_task, loses a request or puts
\* commands out of order.  The one exception is a reconnect nested in a
\* callback: one begun by the loop that re-issues the requests, or by a command
\* of the connect sequence that cannot be written.  The step is in the model
\* and the books are closed after it (Astray).
THEOREM BooksCorrect == Spec => []BooksInv
<1> QED
  BY BooksInit, BooksInvStep, PTL DEF Spec

\* What the properties count over all the queues together is what the books
\* count queue by queue.
LEMMA QueuedCounts ==
  ASSUME Typed(c)
  PROVE  /\ \A cb \in {"user", "reconnect"} :
              Holders(cb) = Held(c, cb) + PutAside(c, Holding(cb))
         /\ \A id \in Reqs :
              Cardinality({i \in DOMAIN Queued : Queued[i].id = id})
                = Here(c, For(id)) + PutAside(c, For(id))
<1> DEFINE a == c.out
           b == c.wait
           d == c.old.out
           e == c.old.wait
           ab == a \o b
           abd == ab \o d
           q == abd \o e
<1>1. a \in Seq(Frame) /\ b \in Seq(Frame) /\ d \in Seq(Frame) /\ e \in Seq(Frame)
  BY DEF Typed
<1>2. ab \in Seq(Frame)
  <2> HIDE DEF a, b
  <2> QED
    BY <1>1, ConcatProperties
<1>3. abd \in Seq(Frame)
  <2> HIDE DEF ab, d
  <2> QED
    BY <1>1, <1>2, ConcatProperties
<1>4. q \in Seq(Frame)
  <2> HIDE DEF abd, e
  <2> QED
    BY <1>1, <1>3, ConcatProperties
<1>5. ASSUME NEW S PROVE Count(q, S) = Here(c, S) + PutAside(c, S)
  <2>1. Count(ab, S) = Count(a, S) + Count(b, S)
    <3> HIDE DEF a, b
    <3> QED
      BY <1>1, CountConcat
  <2>2. Count(abd, S) = Count(ab, S) + Count(d, S)
    <3> HIDE DEF ab, d
    <3> QED
      BY <1>1, <1>2, CountConcat
  <2>3. Count(q, S) = Count(abd, S) + Count(e, S)
    <3> HIDE DEF abd, e
    <3> QED
      BY <1>1, <1>3, CountConcat
  <2>4. /\ Count(a, S) \in Nat /\ Count(b, S) \in Nat /\ Count(d, S) \in Nat
        /\ Count(e, S) \in Nat
    BY <1>1, CountType
  <2>5. Here(c, S) = Count(a, S) + Count(b, S) /\ PutAside(c, S) = Count(d, S) + Count(e, S)
    BY DEF Here, PutAside
  <2> HIDE DEF a, b, d, e, ab, abd, q
  <2> QED
    BY <2>1, <2>2, <2>3, <2>4, <2>5
<1>6. Queued = q
  BY DEF Queued
<1> HIDE DEF q
<1>7. ASSUME NEW i \in DOMAIN q PROVE q[i] \in Frame
  BY <1>4
<1>8. ASSUME NEW cb \in {"user", "reconnect"}
      PROVE  Holders(cb) = Held(c, cb) + PutAside(c, Holding(cb))
  <2>1. {i \in DOMAIN q : q[i].ct.cb = cb} = {i \in DOMAIN q : q[i] \in Holding(cb)}
    BY <1>7 DEF Holding
  <2>2. Cardinality({i \in DOMAIN q : q[i].ct.cb = cb}) = Count(q, Holding(cb))
    BY <2>1 DEF Count
  <2> DEFINE u == Here(c, Holding(cb))
             v == PutAside(c, Holding(cb))
             w == IF c.status_cb.cb = cb THEN 1 ELSE 0
  <2>3. Holders(cb) = (u + v) + w /\ Held(c, cb) = u + w
    BY <1>5, <1>6, <2>2 DEF Holders, Held
  <2>4. u \in Nat /\ v \in Nat /\ w \in Nat
    BY Tallies
  <2>5. Held(c, cb) + PutAside(c, Holding(cb)) = (u + w) + v
    BY <2>3
  <2> HIDE DEF u, v, w
  <2> QED
    BY <2>3, <2>4, <2>5
<1>9. ASSUME NEW id \in Reqs
      PROVE  Cardinality({i \in DOMAIN Queued : Queued[i].id = id})
               = Here(c, For(id)) + PutAside(c, For(id))
  <2>1. {i \in DOMAIN q : q[i].id = id} = {i \in DOMAIN q : q[i] \in For(id)}
    BY <1>7 DEF For
  <2> QED
    BY <1>5, <1>6, <2>1 DEF Count
<1> QED
  BY <1>8, <1>9

\* The callback of iscsi_full_connect_async runs once and its connect_task has
\* one owner until then, unless a redirect could not even be begun; and
\* iscsi_reconnect_cb can only run while there is an old_iscsi.  This holds until
\* a nested reconnect leaves a PDU with a freed connect_task in a queue.
THEOREM OneOwnerCorrect == Spec => []OneOwner
<1>1. BooksInv => OneOwner
  <2> SUFFICES ASSUME BooksInv, c.app.started, Live PROVE OneOwner
    BY DEF OneOwner
  <2>1. Typed(c) /\ Owned(c, << >>)
    BY DEF BooksInv, Live, Books
  <2> DEFINE n == << >>
             conn == Len(c.app.conn)
             mine == Held(c, "user")
             its == Held(c, "reconnect")
             aside == PutAside(c, Holding("user"))
             spare == PutAside(c, Holding("reconnect"))
  <2>2. Count(n, Holding("user")) = 0 /\ Count(n, Holding("reconnect")) = 0
    BY CountEmpty
  <2>3. conn \in Nat /\ mine \in Nat /\ its \in Nat /\ aside \in Nat
    BY <2>1, HeldType, DoneType, Tallies
  <2>4. Holders("user") = mine + aside /\ Holders("reconnect") = its + spare
    BY <2>1, QueuedCounts
  <2>5. /\ spare = 0 /\ its + 0 <= (IF c.old = NoOld THEN 0 ELSE 1)
        /\ conn + (mine + 0) + aside = 1 \/ (conn + (mine + 0) + aside = 0 /\ Stranded(c))
    <3>1. Owned(c, n)
      BY <2>1
    <3> HIDE DEF n
    <3> QED
      BY <3>1, <2>2 DEF Owned
  <2>6. Stranded(c) => RedirectFailed
    BY DEF Stranded, RedirectFailed
  <2> HIDE DEF conn, mine, its, aside, spare
  <2>7. /\ conn + Holders("user") <= 1
        /\ conn + Holders("user") = 1 \/ RedirectFailed
        /\ Holders("reconnect") <= (IF Reconnecting THEN 1 ELSE 0)
    BY <2>3, <2>4, <2>5, <2>6 DEF Reconnecting
  <2> QED
    BY <2>7 DEF OneOwner, conn
<1> QED
  BY <1>1, BooksCorrect, PTL

\* Every command and task management request of the application is answered
\* once or waits in one queue: redirects, timeouts, cancelled queues and
\* reconnects neither lose nor double one, short of a nested reconnect that
\* forgets the old context.
THEOREM NoneLostCorrect == Spec => []NoneLost
<1>1. BooksInv => NoneLost
  <2> SUFFICES ASSUME BooksInv, Live PROVE NoneLost
    BY DEF NoneLost
  <2> DEFINE n == << >>
  <2>1. Typed(c)
    BY DEF BooksInv, Live, Books, Blank
  <2>2. ASSUME NEW id \in Reqs
        PROVE  LET all == Cardinality({i \in DOMAIN Queued : Queued[i].id = id}) + Len(c.app.done[id])
               IN  all <= 1 /\ (Asked(id) /\ ~(id \in Tmfs /\ id \in c.app.during) => all = 1)
    <3> DEFINE k == Cardinality({i \in DOMAIN Queued : Queued[i].id = id})
               u == Here(c, For(id))
               v == PutAside(c, For(id))
               w == Len(c.app.done[id])
    <3>1. k = u + v /\ u \in Nat /\ v \in Nat /\ w \in Nat
      BY <2>1, QueuedCounts, Tallies, DoneType
    <3>2. CASE c.app.started
      <4>1. Requests(c, n)
        BY <3>2 DEF BooksInv, Live, Books
      <4>2. Count(n, For(id)) = 0
        BY CountEmpty
      <4> HIDE DEF n
      <4>3. /\ u + v + 0 + w <= 1
            /\ id \in c.app.asked /\ ~Excused(c, id) => u + v + 0 + w = 1
        BY <4>1, <4>2 DEF Requests
      <4> HIDE DEF k, u, v, w
      <4>4. k + w <= 1 /\ (id \in c.app.asked /\ ~Excused(c, id) => k + w = 1)
        BY <3>1, <4>3
      <4> QED
        BY <4>4 DEF k, w, Asked, Excused
    <3>3. CASE ~c.app.started
      <4>1. u = 0 /\ v = 0 /\ w = 0 /\ c.app.asked = {}
        BY <3>3, BlankCounts DEF BooksInv, Blank
      <4> HIDE DEF k, u, v, w
      <4>2. k + w <= 1 /\ id \notin c.app.asked
        BY <3>1, <4>1
      <4> QED
        BY <4>2 DEF k, w, Asked
    <3> QED
      BY <3>2, <3>3
  <2> QED
    BY <2>2 DEF NoneLost
<1> QED
  BY <1>1, BooksCorrect, PTL

\* The commands stay in the order the application gave them in: those that
\* wait for their answer before those still to be written, in the queues of
\* the context and in those iscsi_reconnect has put aside, as long as there is
\* one old context and not a second begun while it is re-issued.
THEOREM OrderKeptCorrect == Spec => []OrderKept
<1>1. BooksInv => OrderKept
  <2> SUFFICES ASSUME BooksInv, Live PROVE OrderKept
    BY DEF OrderKept
  <2>1. /\ c.wait \in Seq(Frame) /\ c.out \in Seq(Frame)
        /\ c.old.wait \in Seq(Frame) /\ c.old.out \in Seq(Frame)
    BY DEF BooksInv, Live, Books, Blank, Typed
  <2>2. InLine(c.wait, c.out) /\ InLine(c.old.wait, c.old.out)
    <3>1. CASE c.app.started
      BY <3>1 DEF BooksInv, Live, Books, Ranked
    <3>2. CASE ~c.app.started
      <4>1. c.wait = << >> /\ c.out = << >> /\ c.old.wait = << >> /\ c.old.out = << >>
        BY <3>2 DEF BooksInv, Blank, NoOld
      <4>2. InLine(<< >>, << >>)
        BY DEF InLine, InOrder, Under
      <4> QED
        BY <4>1, <4>2
    <3> QED
      BY <3>1, <3>2
  <2> QED
    BY <2>1, <2>2, InOrderConcat DEF InLine, OrderKept
<1> QED
  BY <1>1, BooksCorrect, PTL

-----------------------------------------------------------------------------
(* Attempts to reconnect. *)

\* A reconnect is under way.
Trying(x) ==
  DOMAIN x = Fields /\ x.old # NoOld /\ DOMAIN x.old = OldFields /\ x.old.retry \in Nat

\* Nothing is counted; a failure is counted, and the next attempt asked for;
\* the reconnect is over.
Unmoved(x, y) == DOMAIN y = Fields /\ y.old = x.old /\ y.tries = x.tries /\ (x.pending => y.pending)

Failed(x, y) ==
  Trying(y) /\ y.old.retry = x.old.retry + 1 /\ y.tries = x.tries /\ y.pending

Through(y) == DOMAIN y = Fields /\ y.old = NoOld

\* What a callback with a connect_task does.
Fails(x, y, ct) == Unmoved(x, y) \/ (ct.cb # "user" /\ Failed(x, y))

Answers(x, y, ct) == Fails(x, y, ct) \/ (ct.cb # "user" /\ Through(y))

\* The books say so.
LEMMA TryingTyped == ASSUME NEW x, Typed(x), x.old # NoOld PROVE Trying(x)
BY DEF Typed, Trying

\* It is still under way when nothing is counted.
LEMMA UnmovedTrying == ASSUME NEW x, Trying(x), NEW y, Unmoved(x, y) PROVE Trying(y)
BY DEF Trying, Unmoved

\* Nothing is counted by two steps of which neither counts.
LEMMA UnmovedTwice ==
  ASSUME NEW x, NEW y, Unmoved(x, y), NEW z, Unmoved(y, z)
  PROVE  Unmoved(x, z)
BY DEF Unmoved

\* What is done before a callback, and counts nothing, can be left out.
LEMMA UnmovedFails ==
  ASSUME NEW x, NEW y, Unmoved(x, y), NEW z, NEW ct, Fails(y, z, ct)
  PROVE  Fails(x, z, ct)
BY DEF Unmoved, Fails, Failed

\* The same when the callback may bring good news.
LEMMA UnmovedAnswers ==
  ASSUME NEW x, NEW y, Unmoved(x, y), NEW z, NEW ct, Answers(y, z, ct)
  PROVE  Answers(x, z, ct)
BY UnmovedFails DEF Answers

\* iscsi_write_to_socket counts nothing.
LEMMA DrainUnmoved == ASSUME NEW x, DOMAIN x = Fields PROVE Unmoved(x, Drain(x))
<1>1. \/ Drain(x) = x
      \/ \E o, w, t, k : Drain(x) = [x EXCEPT !.out = o, !.wait = w, !.tgt = t, !.is_corked = k]
  BY DEF Drain
<1>2. CASE Drain(x) = x
  BY <1>2 DEF Unmoved
<1>3. ASSUME NEW o, NEW w, NEW t, NEW k,
             Drain(x) = [x EXCEPT !.out = o, !.wait = w, !.tgt = t, !.is_corked = k]
      PROVE  Unmoved(x, Drain(x))
  BY <1>3 DEF Unmoved, Fields, Steady
<1> QED
  BY <1>1, <1>2, <1>3

\* Nor does iscsi_add_to_outqueue.
LEMMA EnqueueUnmoved == ASSUME NEW x, DOMAIN x = Fields, NEW p PROVE Unmoved(x, Enqueue(x, p))
<1> DEFINE o == Sorted(x.out, p)
           y == [x EXCEPT !.out = o]
<1>1. Enqueue(x, p) = Drain(y)
  BY DEF Enqueue
<1> HIDE DEF o
<1>2. Unmoved(x, y) /\ DOMAIN y = Fields
  BY DEF Unmoved, Fields, Steady
<1> HIDE DEF y
<1> QED
  BY <1>1, <1>2, DrainUnmoved, UnmovedTwice

\* iscsi_reconnect_cb counts one failure and asks for another attempt.
LEMMA ReconnectCbFails ==
  ASSUME NEW x, Trying(x), NEW st, st # "GOOD"
  PROVE  Failed(x, iscsi_reconnect_cb(x, st))
<1> DEFINE n == x.old.retry + 1
           e == ~Exceeded(n) /\ Backoff(n, 0) > 0
           y == [x EXCEPT !.old.retry = n, !.early = e, !.pending = TRUE]
<1>1. iscsi_reconnect_cb(x, st) = y
  BY DEF iscsi_reconnect_cb
<1>2. n \in Nat
  BY DEF Trying
<1> HIDE DEF e
<1>3. /\ DOMAIN y = Fields /\ y.tries = x.tries /\ y.pending = TRUE
      /\ DOMAIN y.old = OldFields /\ y.old.retry = n
  BY DEF Trying, Fields, Steady, OldFields
<1> HIDE DEF y
<1>4. y.old # NoOld
  <2>1. "cmdsn" \in DOMAIN y.old /\ "cmdsn" \notin DOMAIN NoOld
    BY <1>3 DEF OldFields, NoOld
  <2> QED
    BY <2>1
<1> QED
  BY <1>1, <1>2, <1>3, <1>4 DEF Failed, Trying

\* Re-issuing the requests counts nothing.
LEMMA ReissueUnmoved == ASSUME NEW x, DOMAIN x = Fields, NEW s PROVE Unmoved(x, Reissue(x, s))
<1> DEFINE cmds == Commands(s)
           dropped == {p.id : p \in {q \in Range(s) : q.kind = "tmf"}}
           anew == [i \in DOMAIN cmds |-> [cmds[i] EXCEPT !.sn = x.cmdsn + i - 1]]
           a == [x.app EXCEPT !.astray = @ \/ Interrupted(x, s),
                              !.done = [r \in Reqs |-> IF r \in dropped
                                                  THEN Append(@[r], "CANCELLED") ELSE @[r]]]
           y == [x EXCEPT !.out = @ \o anew, !.cmdsn = @ + Len(cmds), !.app = a]
           z == [x EXCEPT !.out = @ \o anew, !.cmdsn = @ + Len(cmds),
                          !.app.astray = @ \/ Interrupted(x, s),
                          !.app.done = [r \in Reqs |-> IF r \in dropped
                                                       THEN Append(@[r], "CANCELLED") ELSE @[r]]]
<1>1. Reissue(x, s) = Drain(y)
  <2>1. Reissue(x, s) = Drain(z)
    BY Zenon DEF Reissue
  <2>2. z = y
    BY DEF Fields, Steady
  <2> HIDE DEF z, y
  <2> QED
    BY <2>1, <2>2
<1> HIDE DEF cmds, dropped, anew, a, z
<1>2. Unmoved(x, y) /\ DOMAIN y = Fields
  BY DEF Unmoved, Fields, Steady
<1> HIDE DEF y
<1> QED
  BY <1>1, <1>2, DrainUnmoved, UnmovedTwice

\* iscsi_reconnect_cb, told of the success, drops the old context.
LEMMA ReconnectCbThrough ==
  ASSUME NEW x, DOMAIN x = Fields
  PROVE  Through(iscsi_reconnect_cb(x, "GOOD"))
<1> DEFINE y == [x EXCEPT !.old = NoOld]
           s == Carried(x.old)
           z == Reissue(y, s)
<1>1. iscsi_reconnect_cb(x, "GOOD") = [z EXCEPT !.early = TRUE, !.pending = FALSE]
  BY DEF iscsi_reconnect_cb
<1>2. DOMAIN y = Fields /\ y.old = NoOld
  BY DEF Fields, Steady
<1> HIDE DEF y, s
<1>3. DOMAIN z = Fields /\ z.old = NoOld
  BY <1>2, ReissueUnmoved DEF Unmoved
<1> HIDE DEF z
<1> QED
  BY <1>1, <1>3 DEF Through, Fields, Steady

\* The callback of a connect_task, told of a failure.
LEMMA CtCbFails ==
  ASSUME NEW x, Trying(x), NEW ct, NEW st, st # "GOOD"
  PROVE  Fails(x, CtCb(x, ct, st), ct)
<1>1. CASE ct.cb = "user"
  <2>1. CtCb(x, ct, st) = [x EXCEPT !.app.conn = Append(@, st)]
    BY <1>1 DEF CtCb
  <2> QED
    BY <2>1 DEF Fails, Unmoved, Trying, Fields, Steady
<1>2. CASE ct.cb # "user"
  BY <1>2, ReconnectCbFails DEF CtCb, Fails
<1> QED
  BY <1>1, <1>2

\* The callback of a connect_task, told of anything.
LEMMA CtCbAnswers ==
  ASSUME NEW x, Trying(x), NEW ct, NEW st
  PROVE  Answers(x, CtCb(x, ct, st), ct)
<1>1. CASE st # "GOOD"
  BY <1>1, CtCbFails DEF Answers
<1>2. CASE ct.cb = "user"
  <2>1. CtCb(x, ct, st) = [x EXCEPT !.app.conn = Append(@, st)]
    BY <1>2 DEF CtCb
  <2> QED
    BY <2>1 DEF Answers, Fails, Unmoved, Trying, Fields, Steady
<1>3. CASE st = "GOOD" /\ ct.cb # "user"
  BY <1>3, ReconnectCbThrough DEF CtCb, Answers, Trying
<1> QED
  BY <1>1, <1>2, <1>3

\* A command of the connect sequence is queued, or refused.
LEMMA AskFails ==
  ASSUME NEW x, Trying(x), NEW kind, NEW ct
  PROVE  Fails(x, Ask(x, kind, ct), ct)
<1>1. CASE ~CanCommand(x)
  BY <1>1, CtCbFails DEF Ask
<1>2. CASE CanCommand(x)
  <2> DEFINE y == [x EXCEPT !.cmdsn = @ + 1]
             p == Pdu(kind, 0, x.cmdsn, ct)
             e == Enqueue(y, p)
  <2>1. Ask(x, kind, ct) \in {e, Astray(e), [e EXCEPT !.pending = TRUE]}
    BY <1>2 DEF Ask, ScsiCommand
  <2>2. Unmoved(x, y) /\ DOMAIN y = Fields
    BY DEF Unmoved, Trying, Fields, Steady
  <2> HIDE DEF y, p
  <2>3. Unmoved(x, e) /\ DOMAIN e = Fields
    BY <2>2, EnqueueUnmoved, UnmovedTwice DEF Unmoved
  <2> HIDE DEF e
  <2>4. Unmoved(e, Astray(e)) /\ Unmoved(e, [e EXCEPT !.pending = TRUE])
    BY <2>3 DEF Astray, Unmoved, Fields, Steady
  <2> QED
    BY <2>1, <2>3, <2>4, UnmovedTwice DEF Fails
<1> QED
  BY <1>1, <1>2

\* iscsi_inquiry_page_0x80_cb.
LEMMA UsnAnswers ==
  ASSUME NEW x, Trying(x), NEW ct, NEW usn
  PROVE  /\ Answers(x, iscsi_inquiry_page_0x80_cb(x, ct, usn), ct)
         /\ usn = "none" => Fails(x, iscsi_inquiry_page_0x80_cb(x, ct, usn), ct)
<1> DEFINE y == [x EXCEPT !.usn = usn]
<1>1. Unmoved(x, y)
  BY DEF Unmoved, Trying, Fields, Steady
<1>2. iscsi_inquiry_page_0x80_cb(x, ct, usn)
        = IF usn = "none" \/ x.usn \notin {"none", usn} THEN CtCb(x, ct, "ERROR") ELSE CtCb(y, ct, "GOOD")
  BY DEF iscsi_inquiry_page_0x80_cb
<1> HIDE DEF y
<1>3. Fails(x, CtCb(x, ct, "ERROR"), ct)
  BY CtCbFails
<1>4. Answers(x, CtCb(y, ct, "GOOD"), ct)
  BY <1>1, UnmovedTrying, CtCbAnswers, UnmovedAnswers
<1> QED
  BY <1>2, <1>3, <1>4 DEF Answers

\* iscsi_inquiry_page_0x0_cb.
LEMMA InquiryAnswers ==
  ASSUME NEW x, Trying(x), NEW ct, NEW dev
  PROVE  /\ Answers(x, iscsi_inquiry_page_0x0_cb(x, ct, dev), ct)
         /\ dev = "none" => Fails(x, iscsi_inquiry_page_0x0_cb(x, ct, dev), ct)
BY CtCbFails, CtCbAnswers, AskFails DEF iscsi_inquiry_page_0x0_cb, Answers

\* iscsi_testunitready_cb, which never ends the sequence well itself.
LEMMA TestUnitReadyFails ==
  ASSUME NEW x, Trying(x), NEW ct, DOMAIN ct = {"cb", "uas"}, NEW st
  PROVE  Fails(x, iscsi_testunitready_cb(x, ct, st), ct)
<1> DEFINE t == [ct EXCEPT !.uas = @ + 1]
<1>1. t.cb = ct.cb
  OBVIOUS
<1>2. iscsi_testunitready_cb(x, ct, st) \in
        {CtCb(x, t, "ERROR"), Ask(x, "tur", t), Ask(x, "inq", ct), CtCb(x, ct, "ERROR")}
  BY DEF iscsi_testunitready_cb
<1> HIDE DEF t
<1> QED
  BY <1>1, <1>2, CtCbFails, AskFails DEF Fails

\* iscsi_login_async counts login requests, and no attempt to reconnect.
LEMMA LoginAsyncUnmoved ==
  ASSUME NEW x, DOMAIN x = Fields, NEW ct
  PROVE  Unmoved(x, iscsi_login_async(x, ct))
<1> DEFINE u == Randomize(x)
           phase == IF User THEN u.current_phase ELSE "OPNEG"
           y == [u EXCEPT !.login_attempts = @ + 1, !.current_phase = phase]
           p == Pdu("login", 0, y.cmdsn, ct)
           e == Enqueue(y, p)
           z == [e EXCEPT !.tgt.sent = @ \cup LoginKeys(y)]
           f == [x EXCEPT !.login_attempts = @ + 1]
<1>1. iscsi_login_async(x, ct) = IF LoginRefused(x) THEN f ELSE z
  BY DEF iscsi_login_async
<1>2. Unmoved(x, f)
  BY DEF Unmoved, Fields, Steady
<1> HIDE DEF f
<1>3. DOMAIN u = Fields /\ Unmoved(x, u)
  BY DEF Randomize, Unmoved, Fields, Steady
<1> HIDE DEF u, phase
<1>4. DOMAIN y = Fields /\ Unmoved(u, y)
  BY <1>3 DEF Unmoved, Fields, Steady
<1> HIDE DEF y, p
<1>5. Unmoved(y, e)
  BY <1>4, EnqueueUnmoved
<1> HIDE DEF e
<1>6. Unmoved(e, z)
  BY <1>5 DEF Unmoved, Fields, Steady
<1> HIDE DEF z
<1> QED
  BY <1>1, <1>2, <1>3, <1>4, <1>5, <1>6, UnmovedTwice

\* iscsi_login_cb.
LEMMA LoginCbAnswers ==
  ASSUME NEW x, Trying(x), NEW ct, NEW st, NEW ok
  PROVE  Answers(x, iscsi_login_cb(x, ct, st, ok), ct)
<1>1. CASE st = "REDIRECT"
  <2> DEFINE l == x.late \/ x.secneg_phase # "OFFER_CHAP"
             y == [x EXCEPT !.is_corked = FALSE, !.proven = FALSE, !.late = l]
             z == iscsi_connect_async(y, ct, ok)
  <2>1. iscsi_login_cb(x, ct, st, ok) = z
    BY <1>1 DEF iscsi_login_cb
  <2> HIDE DEF l
  <2>2. DOMAIN y = Fields /\ Unmoved(x, y)
    BY DEF Trying, Unmoved, Fields, Steady
  <2> HIDE DEF y
  <2>3. Unmoved(y, z)
    BY <2>2 DEF iscsi_connect_async, Unmoved, Fields, Steady
  <2> HIDE DEF z
  <2> QED
    BY <2>1, <2>2, <2>3, UnmovedTwice DEF Answers, Fails
<1>2. CASE st # "REDIRECT"
  <2>1. iscsi_login_cb(x, ct, st, ok) \in
          {CtCb(x, ct, "ERROR"), Ask(x, "tur", ct), Ask(x, "inq", ct), CtCb(x, ct, "GOOD")}
    BY <1>2 DEF iscsi_login_cb
  <2> QED
    BY <2>1, CtCbFails, CtCbAnswers, AskFails DEF Answers
<1> QED
  BY <1>1, <1>2

\* iscsi_process_login_reply.
LEMMA ReplyAnswers ==
  ASSUME NEW x, Trying(x), NEW p, NEW r, NEW ok
  PROVE  Answers(x, iscsi_process_login_reply(x, p, r, ok), p.ct)
<1> DEFINE v == Verdict(x, r)
           y == IF r.status = "garbled" THEN x ELSE ParseKeys(x, r)
           stage == IF r.transit THEN r.nsg ELSE y.current_phase
           skewed == y.skewed \/ Skewed(x, r)
           z == [y EXCEPT !.current_phase = stage, !.skewed = skewed]
           d == CHOOSE e \in z.want : TRUE
           w == [z EXCEPT !.is_loggedin = TRUE, !.digest = d,
                          !.tgt.digest = r.digest, !.tgt.imm = r.imm]
           a == iscsi_login_async(z, p.ct)
<1>1. iscsi_process_login_reply(x, p, r, ok) \in
        {iscsi_login_cb(y, p.ct, v, ok), iscsi_login_cb(w, p.ct, "GOOD", ok),
         iscsi_login_cb(a, p.ct, "ERROR", ok), a}
  BY DEF iscsi_process_login_reply
<1>2. Unmoved(x, y)
  BY DEF ParseKeys, Trying, Unmoved, Fields, Steady
<1> HIDE DEF y, v, stage, skewed
<1>3. Trying(y) /\ DOMAIN y = Fields
  BY <1>2, UnmovedTrying DEF Unmoved
<1>4. Unmoved(y, z)
  BY <1>3 DEF Unmoved, Fields, Steady
<1> HIDE DEF z, d
<1>5. Trying(z) /\ DOMAIN z = Fields
  BY <1>3, <1>4, UnmovedTrying DEF Unmoved
<1>6. Unmoved(z, w)
  BY <1>5 DEF Unmoved, Fields, Steady
<1>7. Unmoved(z, a)
  BY <1>5, LoginAsyncUnmoved
<1> HIDE DEF w, a
<1>8. Trying(w) /\ Trying(a) /\ Unmoved(x, w) /\ Unmoved(x, a)
  BY <1>2, <1>4, <1>5, <1>6, <1>7, UnmovedTrying, UnmovedTwice
<1>9. Answers(x, a, p.ct)
  BY <1>8 DEF Answers, Fails
<1>10. ASSUME NEW q, Unmoved(x, q), Trying(q), NEW st PROVE Answers(x, iscsi_login_cb(q, p.ct, st, ok), p.ct)
  BY <1>10, LoginCbAnswers, UnmovedAnswers
<1> QED
  BY <1>1, <1>2, <1>3, <1>8, <1>9, <1>10

\* iscsi_connect_cb.
LEMMA ConnectCbAnswers ==
  ASSUME NEW x, Trying(x), NEW ct, NEW st
  PROVE  Fails(x, iscsi_connect_cb(x, ct, st), ct)
<1> DEFINE y == iscsi_login_async(x, ct)
<1>1. iscsi_connect_cb(x, ct, st) \in {CtCb(x, ct, "ERROR"), CtCb(y, ct, "ERROR"), y}
  BY DEF iscsi_connect_cb
<1>2. Unmoved(x, y) /\ Trying(y)
  BY LoginAsyncUnmoved, UnmovedTrying DEF Trying
<1> HIDE DEF y
<1>3. Fails(x, CtCb(y, ct, "ERROR"), ct)
  BY <1>2, CtCbFails, UnmovedFails
<1> QED
  BY <1>1, <1>2, <1>3, CtCbFails DEF Fails

\* A PDU that is cancelled or has timed out counts if it carries the
\* connect_task of the attempt.
LEMMA PduCbFails ==
  ASSUME NEW x, Trying(x), NEW p \in Frame, NEW st \in {"CANCELLED", "TIMEOUT"}
  PROVE  Unmoved(x, PduCb(x, p, st)) \/ (p.ct.cb = "reconnect" /\ Failed(x, PduCb(x, p, st)))
<1>1. p.kind \in Kinds /\ (p.kind \in Carriers => p.ct.cb \in {"user", "reconnect"})
  BY FrameIs
<1>2. CASE p.kind = "pong"
  BY <1>2 DEF PduCb, Unmoved, Trying
<1>3. CASE p.kind \in {"scsi", "tmf"}
  <2>1. PduCb(x, p, st) = Deliver(x, p.id, st)
    BY <1>3 DEF PduCb
  <2> QED
    BY <2>1 DEF Deliver, Unmoved, Trying, Fields, Steady
<1>4. CASE p.kind = "logout"
  BY <1>4 DEF PduCb, Unmoved, Trying, Fields, Steady
<1>5. CASE p.kind \in Carriers
  <2>1. PICK s : s # "GOOD" /\ PduCb(x, p, st) = CtCb(x, p.ct, s)
    <3>2. CASE p.kind = "login"
      BY <3>2 DEF PduCb, iscsi_login_cb
    <3>3. CASE p.kind = "tur"
      BY <3>3 DEF PduCb, iscsi_testunitready_cb
    <3>4. CASE p.kind = "inq"
      BY <3>4 DEF PduCb, iscsi_inquiry_page_0x0_cb
    <3>5. CASE p.kind = "usn"
      BY <3>5 DEF PduCb, iscsi_inquiry_page_0x80_cb
    <3> QED
      BY <1>5, <3>2, <3>3, <3>4, <3>5 DEF Carriers, Internal
  <2> QED
    BY <1>1, <1>5, <2>1, CtCbFails DEF Fails
<1> QED
  BY <1>1, <1>2, <1>3, <1>4, <1>5 DEF Kinds, Immediates, Carriers, Internal

\* iscsi_cancel_pdus: at most one of the PDUs carries it.
LEMMA CancelFails ==
  ASSUME NEW x, Books(x, << >>), x.deferred, x.old # NoOld
  PROVE  \/ Unmoved(x, CancelPdus(x))
         \/ Held(x, "reconnect") # 0 /\ Failed(x, CancelPdus(x))
<1> DEFINE s == x.out \o x.wait
           y == Emptied(x)
           n == Len(s)
           R == Holding("reconnect")
<1>1. Books(y, s) /\ y.deferred /\ s \in Seq(Frame) /\ Trying(x)
  BY EmptiedBooks, TryingTyped DEF Books
<1>2. n \in Nat
  BY <1>1, LenProperties
<1>3. PICK f : Cancelling(x, s, f) /\ CancelPdus(x) = f[n]
  BY <1>2, CancelSteps
<1>4. \A i \in 0 .. n : f[i] = IF i = 0 THEN y ELSE PduCb(f[i - 1], s[i], "CANCELLED")
  BY <1>3 DEF Cancelling, Emptied
<1>5. Unmoved(x, y)
  BY <1>1 DEF Emptied, Unmoved, Trying, Fields, Steady
<1>6. Count(s, R) <= Held(x, "reconnect") /\ Held(x, "reconnect") <= 1 /\ Count(s, R) \in Nat
      /\ Held(x, "reconnect") \in Nat
  <2> DEFINE o == x.out
             w == x.wait
             m == << >>
  <2>1. o \in Seq(Frame) /\ w \in Seq(Frame) /\ Typed(x) /\ Owned(x, m)
    BY DEF Books, Typed
  <2>2. Count(m, R) = 0
    BY CountEmpty
  <2> HIDE DEF m
  <2>3. Held(x, "reconnect") + 0 <= 1
    BY <2>1, <2>2 DEF Owned
  <2>4. Count(s, R) = Count(o, R) + Count(w, R)
    <3>1. s = o \o w
      OBVIOUS
    <3> HIDE DEF o, w, s, R
    <3> QED
      BY <2>1, <3>1, CountConcat
  <2> DEFINE a == IF x.status_cb.cb = "reconnect" THEN 1 ELSE 0
             b == Count(o, R) + Count(w, R)
  <2>5. Held(x, "reconnect") = b + a /\ a \in {0, 1}
    BY DEF Held, Here
  <2>6. b \in Nat /\ Held(x, "reconnect") \in Nat
    <3>1. Here(x, R) \in Nat /\ Held(x, "reconnect") \in Nat
      BY <2>1, Tallies, HeldType
    <3> QED
      BY <3>1 DEF Here
  <2> HIDE DEF a, b
  <2>7. b <= Held(x, "reconnect")
    BY <2>5, <2>6
  <2> QED
    BY <2>3, <2>4, <2>6, <2>7 DEF b
<1> HIDE DEF s, y, R
<1> DEFINE Fine(i) ==
             /\ Books(f[i], Rest(s, i)) /\ f[i].deferred
             /\ \/ Unmoved(x, f[i])
                \/ Held(x, "reconnect") # 0 /\ Failed(x, f[i]) /\ Count(Rest(s, i), R) = 0
             /\ Count(Rest(s, i), R) \in {0, 1}
             /\ Count(Rest(s, i), R) # 0 => Held(x, "reconnect") # 0
           T == {i \in 0 .. n : ~Fine(i)}
<1>7. Rest(s, 0) = s
  BY <1>1, SubSeqFull DEF Rest
<1>8. Count(s, R) \in {0, 1} /\ (Count(s, R) # 0 => Held(x, "reconnect") # 0)
  BY <1>6
<1>9. Fine(0)
  <2>1. f[0] = y
    BY <1>2, <1>4
  <2> QED
    BY <1>1, <1>5, <1>7, <1>8, <2>1
<1>10. ASSUME NEW i \in 1 .. n, Fine(i - 1) PROVE Fine(i)
  <2> DEFINE z == f[i - 1]
             p == s[i]
             h == Rest(s, i - 1)
             t == Rest(s, i)
  <2>1. f[i] = PduCb(z, p, "CANCELLED")
    BY <1>2, <1>4
  <2>2. Ahead(h, p, t)
    BY <1>1, RestAhead
  <2>3. Books(z, h) /\ z.deferred
    BY <1>10
  <2>4. p \in Frame /\ Count(h, R) = Count(t, R) + (IF p \in R THEN 1 ELSE 0) /\ Count(t, R) \in Nat
    BY <2>2, CountType DEF Ahead
  <2>5. p.ct.cb = "reconnect" <=> p \in R
    BY <2>4, CountsAs DEF R
  <2>6. /\ Count(h, R) \in {0, 1} /\ (Count(h, R) # 0 => Held(x, "reconnect") # 0)
        /\ \/ Unmoved(x, z)
           \/ Held(x, "reconnect") # 0 /\ Failed(x, z) /\ Count(h, R) = 0
    BY <1>10
  <2>7. Trying(z)
    BY <1>1, <2>6, UnmovedTrying DEF Failed
  <2> HIDE DEF z, p, h, t, Fine
  <2>8. Books(f[i], t) /\ f[i].deferred
    <3>1. ~Stranded(z)
      BY <2>3 DEF Stranded
    <3>2. /\ Books(PduCb(z, p, "CANCELLED"), t)
          /\ PduCb(z, p, "CANCELLED").deferred = z.deferred
      BY <2>2, <2>3, <3>1, PduCbBooks
    <3> QED
      BY <2>1, <2>2, <2>3, <3>1, <3>2
  <2>9. Unmoved(z, f[i]) \/ (p \in R /\ Failed(z, f[i]))
    BY <2>1, <2>4, <2>5, <2>7, PduCbFails
  <2>10. /\ Count(t, R) \in {0, 1} /\ (p \in R => Count(t, R) = 0 /\ Count(h, R) = 1)
         /\ Count(t, R) # 0 => Held(x, "reconnect") # 0
    BY <2>4, <2>6
  <2>11. CASE Unmoved(z, f[i])
    <3>1. \/ Unmoved(x, f[i])
          \/ Held(x, "reconnect") # 0 /\ Failed(x, f[i]) /\ Count(t, R) = 0
      <4>1. CASE Unmoved(x, z)
        BY <2>11, <4>1, UnmovedTwice
      <4>2. CASE Held(x, "reconnect") # 0 /\ Failed(x, z) /\ Count(h, R) = 0
        <5>1. Failed(x, f[i])
          BY <2>7, <2>11, <4>2, UnmovedTrying DEF Failed, Unmoved
        <5>2. Count(t, R) = 0
          BY <2>4, <4>2
        <5> QED
          BY <4>2, <5>1, <5>2
      <4> QED
        BY <2>6, <4>1, <4>2
    <3> QED
      BY <2>8, <2>10, <3>1 DEF Fine, t
  <2>12. CASE p \in R /\ Failed(z, f[i])
    <3>1. Unmoved(x, z) /\ Count(t, R) = 0 /\ Count(h, R) # 0
      BY <2>6, <2>10, <2>12
    <3>2. Failed(x, f[i])
      BY <2>12, <3>1 DEF Failed, Unmoved
    <3>3. Held(x, "reconnect") # 0
      BY <2>6, <3>1
    <3> QED
      BY <2>8, <2>10, <3>1, <3>2, <3>3 DEF Fine, t
  <2> QED
    BY <2>9, <2>11, <2>12
<1>11. ASSUME T # {} PROVE FALSE
  <2>1. T \in SUBSET Nat
    BY <1>2
  <2>2. PICK m \in T : \A k \in T : m <= k
    <3> HIDE DEF T
    <3> QED
      BY <1>11, <2>1, Smallest
  <2>3. m # 0
    BY <1>9, <2>2
  <2>4. m \in 1 .. n /\ m - 1 \in 0 .. n
    BY <1>2, <2>2, <2>3
  <2>5. m - 1 \notin T
    <3> HIDE DEF T
    <3> QED
      BY <1>2, <2>2, <2>4
  <2>6. Fine(m - 1)
    BY <2>4, <2>5
  <2> HIDE DEF Fine
  <2>7. Fine(m)
    BY <1>10, <2>4, <2>6
  <2> QED
    BY <2>2, <2>7
<1>12. Fine(n)
  <2> HIDE DEF Fine
  <2> QED
    BY <1>2, <1>11
<1> QED
  BY <1>3, <1>12

\* What AttemptsCounted says of a step from x to y.
Counted(x, y) ==
  y.old # NoOld =>
    /\ y.old.retry \in {x.old.retry, x.old.retry + 1}
    /\ y.old.retry > x.old.retry => ~x.pending \/ Held(x, "reconnect") # 0
    /\ y.tries > x.tries => ~Exceeded(x.old.retry)

\* One failure is counted, or none.
Missed(x, y) == Unmoved(x, y) \/ Failed(x, y)

\* A new attempt is made.
Restarted(x, y) == DOMAIN y = Fields /\ y.old = x.old /\ ~Exceeded(x.old.retry)

\* A step that counts nothing is in order.
LEMMA UnmovedCounted ==
  ASSUME NEW x, Trying(x), x.tries \in Nat, NEW y, Unmoved(x, y)
  PROVE  Counted(x, y)
BY DEF Trying, Unmoved, Counted

\* So is one that begins an attempt within the limit,
LEMMA RestartedCounted ==
  ASSUME NEW x, Trying(x), x.tries \in Nat, NEW y, Restarted(x, y)
  PROVE  Counted(x, y)
BY DEF Trying, Restarted, Counted

\* one that counts a failure nobody has seen,
LEMMA MissedCounted ==
  ASSUME NEW x, Trying(x), x.tries \in Nat, NEW y, Missed(x, y), ~x.pending \/ Held(x, "reconnect") # 0
  PROVE  Counted(x, y)
BY UnmovedCounted DEF Trying, Failed, Missed, Counted

\* and a callback of the attempt.
LEMMA AnswersCounted ==
  ASSUME NEW x, Trying(x), x.tries \in Nat, ~x.pending, NEW ct, NEW y, Answers(x, y, ct)
  PROVE  Counted(x, y)
<1>1. Missed(x, y) \/ y.old = NoOld
  BY DEF Answers, Fails, Through, Missed
<1> QED
  BY <1>1, MissedCounted DEF Counted

\* It does not matter what else has changed in between.
LEMMA SameCounted ==
  ASSUME NEW x, NEW z, z.old = x.old, z.tries = x.tries, z.pending = x.pending,
         Held(z, "reconnect") = Held(x, "reconnect"), NEW y, Counted(z, y)
  PROVE  Counted(x, y)
BY DEF Counted

\* reconnect() with one put aside already.
LEMMA ReconnectTries ==
  ASSUME NEW x, Between(x), x.old # NoOld, NEW force, NEW ok
  PROVE  LET y == reconnect(x, force, ok) IN
         \/ Unmoved(x, y)
         \/ Held(x, "reconnect") # 0 /\ Failed(x, y)
         \/ (x.pending \/ force) /\ Restarted(x, y)
<1> DEFINE y == reconnect(x, force, ok)
           p == [x EXCEPT !.pending = TRUE]
           d == [x EXCEPT !.deferred = TRUE]
<1>1. y \in {x, CancelPdus(d), p} \/ Starts(x, force)
  BY DEF reconnect, iscsi_defer_reconnect
<1>2. Typed(x) /\ DOMAIN x = Fields
  BY DEF Between, Books, Typed
<1>3. Unmoved(x, x) /\ Unmoved(x, p)
  BY <1>2 DEF Unmoved, Fields, Steady
<1>4. CASE Starts(x, force)
  <2>1. Renewed(x, y)
    BY <1>2, <1>4, StartIs
  <2> HIDE DEF y
  <2>2. Restarted(x, y) /\ (x.pending \/ force)
    BY <1>4, <2>1 DEF Renewed, Starts, Restarted
  <2> QED
    BY <2>2 DEF y
<1>5. CASE y = CancelPdus(d)
  <2>1. DOMAIN d = Fields /\ d.deferred /\ d.pending = x.pending
        /\ \A f \in {"fd", "status_cb", "out", "wait", "old", "cmdsn", "app", "tries", "tgt"} : d[f] = x[f]
    BY <1>2 DEF Fields, Steady
  <2> HIDE DEF d, y
  <2>2. Books(d, << >>) /\ d.old = x.old /\ d.tries = x.tries
    BY <2>1, BetweenBooks DEF Between
  <2>3. Held(d, "reconnect") = Held(x, "reconnect")
    BY <2>1 DEF Held, Here
  <2>4. \/ Unmoved(d, CancelPdus(d))
        \/ Held(d, "reconnect") # 0 /\ Failed(d, CancelPdus(d))
    BY <2>1, <2>2, CancelFails
  <2>5. Unmoved(x, y) \/ (Held(x, "reconnect") # 0 /\ Failed(x, y))
    BY <1>5, <2>1, <2>2, <2>3, <2>4 DEF Unmoved, Failed
  <2> QED
    BY <2>5 DEF y
<1>6. CASE y \in {x, p}
  BY <1>3, <1>6
<1> QED
  BY <1>1, <1>4, <1>5, <1>6

\* A call of reconnect() is in order.
LEMMA ReconnectCounted ==
  ASSUME NEW x, Between(x), x.old # NoOld, NEW force, NEW ok
  PROVE  Counted(x, reconnect(x, force, ok))
<1>1. Trying(x) /\ x.tries \in Nat
  BY TryingTyped DEF Between, Books, Typed
<1> QED
  BY <1>1, ReconnectTries, UnmovedCounted, MissedCounted, RestartedCounted DEF Missed

\* iscsi_service_reconnect_if_loggedin: what a callback has counted is not
\* counted again.
LEMMA ServiceMissed ==
  ASSUME NEW x, Core(x), Books(x, << >>), x.old # NoOld, NEW ok, ~x.pending
  PROVE  Missed(x, iscsi_service_reconnect_if_loggedin(x, ok))
<1> DEFINE z == IF x.is_loggedin THEN reconnect(x, FALSE, ok) ELSE x
           d == x.is_loggedin /\ ReconnectOk(x, FALSE, ok)
           y == iscsi_service_reconnect_if_loggedin(x, ok)
<1>1. Trying(x)
  BY TryingTyped DEF Books
<1>2. Missed(x, z)
  <2>1. Missed(x, reconnect(x, FALSE, ok))
    BY BetweenIs, ReconnectTries DEF Missed
  <2>2. Missed(x, x)
    BY <1>1 DEF Missed, Unmoved, Trying
  <2> QED
    BY <2>1, <2>2
<1>3. y = ReportFailure(z, d)
  BY DEF iscsi_service_reconnect_if_loggedin
<1> HIDE DEF z, d, y
<1>4. y = z \/ (~z.pending /\ y = iscsi_reconnect_cb(z, "ERROR"))
  BY <1>3 DEF ReportFailure
<1>5. CASE y = z
  BY <1>2, <1>5 DEF y
<1>6. CASE ~z.pending /\ y = iscsi_reconnect_cb(z, "ERROR")
  <2>1. Unmoved(x, z)
    BY <1>2, <1>6 DEF Missed, Failed
  <2>2. Failed(z, y)
    BY <1>1, <1>6, <2>1, UnmovedTrying, ReconnectCbFails
  <2>3. Failed(x, y)
    BY <2>1, <2>2 DEF Unmoved, Failed
  <2> QED
    BY <2>3 DEF y, Missed
<1> QED
  BY <1>4, <1>5, <1>6

\* The same after the failure of a connection that had no session.
LEMMA SecondMissed ==
  ASSUME NEW x, Trying(x), NEW z, Missed(x, z), ~z.is_loggedin, NEW ok
  PROVE  Missed(x, iscsi_service_reconnect_if_loggedin(z, ok))
<1> DEFINE y == iscsi_service_reconnect_if_loggedin(z, ok)
<1>1. y = z \/ (~z.pending /\ y = iscsi_reconnect_cb(z, "ERROR"))
  BY DEF iscsi_service_reconnect_if_loggedin, ReportFailure
<1> HIDE DEF y
<1>2. CASE ~z.pending /\ y = iscsi_reconnect_cb(z, "ERROR")
  <2>1. Unmoved(x, z)
    BY <1>2 DEF Missed, Failed
  <2>2. Failed(z, y)
    BY <1>2, <2>1, UnmovedTrying, ReconnectCbFails
  <2> QED
    BY <2>1, <2>2 DEF y, Missed, Unmoved, Failed
<1>3. CASE y = z
  BY <1>3 DEF y
<1> QED
  BY <1>1, <1>2, <1>3

\* iscsi_service called for a PDU that has been queued.
LEMMA KickCounted ==
  ASSUME NEW x, Core(x), Books(x, << >>), x.old # NoOld, NEW ok
  PROVE  Counted(x, Kick(x, ok))
<1>1. Trying(x) /\ x.tries \in Nat /\ DOMAIN x = Fields
  BY TryingTyped DEF Books, Typed
<1>2. Counted(x, reconnect(x, FALSE, ok))
  BY BetweenIs, ReconnectCounted
<1>3. ~x.pending => Counted(x, iscsi_service_reconnect_if_loggedin(x, ok))
  BY <1>1, ServiceMissed, MissedCounted
<1>4. Counted(x, Drain(x)) /\ Counted(x, x)
  BY <1>1, DrainUnmoved, UnmovedCounted DEF Unmoved
<1>5. Serviced(x) => ~x.pending
  BY DEF Serviced
<1> QED
  BY <1>2, <1>3, <1>4, <1>5, KickIs

\* A context whose attempts are counted.
LEMMA CountingIs ==
  ASSUME NEW x, Books(x, << >>), x.old # NoOld
  PROVE  Trying(x) /\ x.tries \in Nat /\ DOMAIN x = Fields /\ Typed(x)
BY TryingTyped DEF Books, Typed

\* A PDU taken off waitpdu leaves the attempts as they are.
LEMMA WithoutUnmoved ==
  ASSUME Core(c), Trying(c), NEW i \in DOMAIN c.wait
  PROVE  /\ Unmoved(c, Without(i)) /\ Trying(Without(i))
         /\ Without(i).is_loggedin = c.is_loggedin
<1> DEFINE x == Without(i)
<1>1. DOMAIN x = Fields /\ \A f \in Fields \ {"wait"} : x[f] = c[f]
  BY WithoutIs
<1> HIDE DEF x
<1>2. Unmoved(c, x) /\ x.is_loggedin = c.is_loggedin
  BY <1>1 DEF Unmoved, Fields, Steady
<1> QED
  BY <1>2, UnmovedTrying DEF x

\* The socket is connected.
LEMMA EstablishCounted ==
  ASSUME Core(c), Books(c, << >>), c.old # NoOld, Establish
  PROVE  Counted(c, c')
<1> DEFINE x == [c EXCEPT !.fd = "up", !.status_cb = NoCt]
<1>1. c' = iscsi_connect_cb(x, c.status_cb, "GOOD") /\ ~c.pending
  BY DEF Establish, Serviced
<1>2. Trying(c) /\ c.tries \in Nat /\ DOMAIN c = Fields
  BY CountingIs
<1>3. Unmoved(c, x) /\ Trying(x)
  BY <1>2, UnmovedTrying DEF Unmoved, Fields, Steady
<1> HIDE DEF x
<1>4. Answers(c, c', c.status_cb)
  BY <1>1, <1>3, ConnectCbAnswers, UnmovedFails DEF Answers
<1> QED
  BY <1>1, <1>2, <1>4, AnswersCounted

\* The connection is refused: socket_status_cb may count it, and the service
\* that follows does not count it again.
LEMMA RefuseCounted ==
  ASSUME Core(c), Books(c, << >>), c.old # NoOld, Refuse
  PROVE  Counted(c, c')
<1> DEFINE x == [c EXCEPT !.fd = "dead", !.status_cb = NoCt]
           z == CtCb(x, c.status_cb, "ERROR")
<1>1. ~c.pending /\ ~c.is_loggedin
      /\ \E ok \in BOOLEAN : c' = iscsi_service_reconnect_if_loggedin(z, ok)
  BY DEF Refuse, iscsi_connect_cb, Serviced, Core, OneRequest, Entering
<1>2. Trying(c) /\ c.tries \in Nat /\ DOMAIN c = Fields
  BY CountingIs
<1>3. Unmoved(c, x) /\ Trying(x) /\ x.is_loggedin = c.is_loggedin /\ DOMAIN x = Fields
  BY <1>2, UnmovedTrying DEF Unmoved, Fields, Steady
<1> HIDE DEF x
<1>4. ~z.is_loggedin
  BY <1>1, <1>3 DEF CtCb, iscsi_reconnect_cb, Fields, Steady, Trying
<1>5. Missed(c, z)
  <2>1. Fails(c, z, c.status_cb)
    BY <1>3, CtCbFails, UnmovedFails
  <2> QED
    BY <2>1 DEF Fails, Missed
<1> HIDE DEF z
<1>6. Missed(c, c')
  BY <1>1, <1>2, <1>4, <1>5, SecondMissed
<1> QED
  BY <1>1, <1>2, <1>6, MissedCounted

\* iscsi_service on a connection that has failed, is due or can be written to.
LEMMA ServiceStepCounted ==
  ASSUME Core(c), Books(c, << >>), c.old # NoOld, ServiceError \/ ServicePending \/ Write
  PROVE  Counted(c, c')
<1>1. Trying(c) /\ c.tries \in Nat /\ DOMAIN c = Fields
  BY CountingIs
<1>2. CASE ServiceError
  BY <1>1, <1>2, ServiceMissed, MissedCounted DEF ServiceError, Serviced
<1>3. CASE ServicePending
  BY <1>3, BetweenIs, ReconnectCounted DEF ServicePending
<1>4. CASE Write
  BY <1>1, <1>4, DrainUnmoved, UnmovedCounted DEF Write
<1> QED
  BY <1>2, <1>3, <1>4

\* A login response.
LEMMA LoginReplyCounted ==
  ASSUME Core(c), Books(c, << >>), c.old # NoOld, LoginReply
  PROVE  Counted(c, c')
<1>1. PICK i \in DOMAIN c.wait, r \in GoodReplies(c) : c' = iscsi_process_login_reply(Without(i), c.wait[i], r, TRUE)
  BY DEF LoginReply
<1>2. ~c.pending
  BY DEF LoginReply, Readable, Serviced
<1>3. Trying(c) /\ c.tries \in Nat
  BY CountingIs
<1>4. Answers(c, c', c.wait[i].ct)
  BY <1>1, <1>3, WithoutUnmoved, ReplyAnswers, UnmovedAnswers
<1> QED
  BY <1>2, <1>3, <1>4, AnswersCounted

\* A login response that is out of order; after one that makes no sense the
\* service does not count again what the callback has counted.
LEMMA LoginSurpriseCounted ==
  ASSUME Core(c), Books(c, << >>), c.old # NoOld, LoginSurprise
  PROVE  Counted(c, c')
<1>1. PICK i \in DOMAIN c.wait, r \in OddReplies(c), ok \in BOOLEAN :
        /\ c.wait[i].kind = "login"
        /\ LET y == iscsi_process_login_reply(Without(i), c.wait[i], r, ok)
           IN  c' = IF r.status = "garbled"
                    THEN iscsi_service_reconnect_if_loggedin([y EXCEPT !.fd = "dead"], TRUE)
                    ELSE y
  BY Zenon DEF LoginSurprise
<1> DEFINE x == Without(i)
           ct == c.wait[i].ct
           y == iscsi_process_login_reply(x, c.wait[i], r, ok)
           z == [y EXCEPT !.fd = "dead"]
<1>2. ~c.pending
  BY DEF LoginSurprise, Readable, Serviced
<1>3. Trying(c) /\ c.tries \in Nat
  BY CountingIs
<1>4. Unmoved(c, x) /\ Trying(x) /\ x.is_loggedin = c.is_loggedin
  BY <1>3, WithoutUnmoved
<1>5. Answers(c, y, ct)
  BY <1>4, ReplyAnswers, UnmovedAnswers
<1>6. CASE r.status # "garbled"
  BY <1>1, <1>2, <1>3, <1>5, <1>6, AnswersCounted
<1>7. CASE r.status = "garbled"
  <2>1. y = CtCb(x, ct, "ERROR")
    <3>1. Verdict(x, r) = "ERROR"
      BY <1>7 DEF Verdict
    <3>2. y = iscsi_login_cb(x, ct, "ERROR", ok)
      BY <1>7, <3>1 DEF iscsi_process_login_reply
    <3> QED
      BY <3>2 DEF iscsi_login_cb
  <2>2. ~x.is_loggedin
    BY <1>1, <1>4 DEF Core, OneRequest, Entering, HasLogin
  <2>3. c' = iscsi_service_reconnect_if_loggedin(z, TRUE)
    BY <1>1, <1>7
  <2> HIDE DEF y, x
  <2>4. Fails(c, y, ct) /\ ~y.is_loggedin /\ DOMAIN y = Fields
    <3>1. Fails(c, y, ct)
      BY <1>4, <2>1, CtCbFails, UnmovedFails
    <3>2. ~y.is_loggedin /\ DOMAIN y = Fields
      BY <1>4, <2>1, <2>2 DEF CtCb, iscsi_reconnect_cb, Fields, Steady, Trying
    <3> QED
      BY <3>1, <3>2
  <2>5. DOMAIN z = Fields /\ \A f \in Fields \ {"fd"} : z[f] = y[f]
    BY <2>4
  <2> HIDE DEF z
  <2>6. z.old = y.old /\ z.tries = y.tries /\ z.pending = y.pending /\ ~z.is_loggedin
    BY <2>4, <2>5 DEF Fields, Steady
  <2>7. Missed(c, z)
    <3>1. CASE Unmoved(c, y)
      BY <2>5, <2>6, <3>1 DEF Unmoved, Missed
    <3>2. CASE Failed(c, y)
      BY <2>5, <2>6, <3>2 DEF Failed, Trying, Missed
    <3> QED
      BY <2>4, <3>1, <3>2 DEF Fails
  <2>8. Missed(c, c')
    BY <1>3, <2>3, <2>6, <2>7, SecondMissed
  <2> QED
    BY <1>2, <1>3, <2>8, MissedCounted
<1> QED
  BY <1>6, <1>7

\* The callback of a command of the connect sequence.
LEMMA ProbeCbAnswers ==
  ASSUME NEW x, Trying(x), NEW p \in Frame, p.kind \in Internal, NEW st, NEW dev, NEW usn
  PROVE  Answers(x, ProbeCb(x, p, st, dev, usn), p.ct)
<1>1. DOMAIN p.ct = {"cb", "uas"}
  BY CtIs DEF Tasks
<1>2. ProbeCb(x, p, st, dev, usn) \in {iscsi_testunitready_cb(x, p.ct, st), iscsi_inquiry_page_0x0_cb(x, p.ct, dev),
                                       iscsi_inquiry_page_0x80_cb(x, p.ct, usn)}
  BY DEF ProbeCb, Internal
<1> QED
  BY <1>1, <1>2, TestUnitReadyFails, InquiryAnswers, UsnAnswers DEF Answers

\* The commands of the connect sequence are answered.
LEMMA ProbeCounted ==
  ASSUME Core(c), Books(c, << >>), c.old # NoOld, ProbeReply \/ ProbeSurprise
  PROVE  Counted(c, c')
<1>1. PICK i \in DOMAIN c.wait :
        /\ c.wait[i].kind \in Internal
        /\ \E st, dev, usn : c' = ProbeCb(Without(i), c.wait[i], st, dev, usn)
  BY ZenonT(20) DEF ProbeReply, ProbeSurprise
<1>2. ~c.pending
  BY DEF ProbeReply, ProbeSurprise, Readable, Serviced
<1>3. Trying(c) /\ c.tries \in Nat
  BY CountingIs
<1> DEFINE x == Without(i)
           p == c.wait[i]
<1>4. Unmoved(c, x) /\ Trying(x)
  BY <1>3, WithoutUnmoved
<1>5. p \in Frame
  BY WithoutBooks
<1>6. PICK st, dev, usn : c' = ProbeCb(x, p, st, dev, usn)
  BY <1>1
<1>7. p.kind \in Internal
  BY <1>1
<1> HIDE DEF x, p
<1>8. Answers(x, c', p.ct)
  BY <1>4, <1>5, <1>6, <1>7, ProbeCbAnswers
<1> QED
  BY <1>2, <1>3, <1>4, <1>8, UnmovedAnswers, AnswersCounted

\* The same when the connection breaks before the callback can send anything.
LEMMA ResetReplyCounted ==
  ASSUME Core(c), Books(c, << >>), c.old # NoOld, ResetReply
  PROVE  Counted(c, c')
<1>1. PICK i \in DOMAIN c.wait :
        LET p == c.wait[i]
            x == [Without(i) EXCEPT !.fd = "dead"]
        IN  \/ \E r : c' = iscsi_process_login_reply(x, p, r, TRUE)
            \/ p.kind \in Internal /\ \E st, dev : c' = ProbeCb(x, p, st, dev, "A")
  BY DEF ResetReply
<1>2. ~c.pending
  BY DEF ResetReply, Readable, Serviced
<1>3. Trying(c) /\ c.tries \in Nat
  BY CountingIs
<1> DEFINE w == Without(i)
           x == [w EXCEPT !.fd = "dead"]
           p == c.wait[i]
<1>4. Unmoved(c, x) /\ Trying(x)
  <2>1. Unmoved(c, w) /\ Trying(w)
    BY <1>3, WithoutUnmoved
  <2> HIDE DEF w
  <2>2. Unmoved(w, x)
    BY <2>1 DEF Trying, Unmoved, Fields, Steady
  <2> HIDE DEF x
  <2> QED
    BY <2>1, <2>2, UnmovedTwice, UnmovedTrying
<1>5. p \in Frame
  BY WithoutBooks
<1>6. \/ \E r : c' = iscsi_process_login_reply(x, p, r, TRUE)
      \/ p.kind \in Internal /\ \E st, dev : c' = ProbeCb(x, p, st, dev, "A")
  BY <1>1
<1> HIDE DEF x, p
<1>7. Answers(x, c', p.ct)
  BY <1>4, <1>5, <1>6, ReplyAnswers, ProbeCbAnswers
<1> QED
  BY <1>2, <1>3, <1>4, <1>7, UnmovedAnswers, AnswersCounted

\* The requests of the application, and a logout, are answered.
LEMMA RequestReplyCounted ==
  ASSUME Core(c), Books(c, << >>), c.old # NoOld, RequestReply
  PROVE  Counted(c, c')
<1>1. PICK i \in DOMAIN c.wait :
        \/ c' = Deliver(Without(i), c.wait[i].id, "GOOD")
        \/ c' = [Without(i) EXCEPT !.is_loggedin = FALSE, !.pending = TRUE]
  BY DEF RequestReply
<1>2. Trying(c) /\ c.tries \in Nat
  BY CountingIs
<1> DEFINE x == Without(i)
           id == c.wait[i].id
<1>3. Unmoved(c, x) /\ Trying(x)
  BY <1>2, WithoutUnmoved
<1>4. c' = Deliver(x, id, "GOOD") \/ c' = [x EXCEPT !.is_loggedin = FALSE, !.pending = TRUE]
  BY <1>1
<1> HIDE DEF x, id
<1>5. Unmoved(x, c')
  BY <1>3, <1>4 DEF Deliver, Unmoved, Trying, Fields, Steady
<1> QED
  BY <1>2, <1>3, <1>5, UnmovedTwice, UnmovedCounted

\* The target asks for a logout, or for an answer.
LEMMA AsyncMessageCounted ==
  ASSUME Core(c), Books(c, << >>), c.old # NoOld, AsyncMessage \/ Ping
  PROVE  Counted(c, c')
<1>1. Trying(c) /\ c.tries \in Nat /\ DOMAIN c = Fields
  BY CountingIs
<1> DEFINE y == [c EXCEPT !.login_attempts = 0]
           z == [c EXCEPT !.early = TRUE]
<1>2. \/ c' \in {y, z} \/ \E p : c' = Enqueue(y, p) \/ c' = Enqueue(c, p)
  BY DEF AsyncMessage, Ping, iscsi_logout_async
<1>3. Unmoved(c, y) /\ Unmoved(c, z) /\ DOMAIN y = Fields
  BY <1>1 DEF Unmoved, Fields, Steady
<1> HIDE DEF y, z
<1>4. Unmoved(c, c')
  BY <1>1, <1>2, <1>3, EnqueueUnmoved, UnmovedTwice
<1> QED
  BY <1>1, <1>4, UnmovedCounted

\* The connection fails or fills up, time passes.
LEMMA QuietCounted ==
  ASSUME Core(c), Books(c, << >>), c.old # NoOld,
         ResetNextReconnect \/ Drop \/ Block \/ Unblock \/ Tick
  PROVE  Counted(c, c')
<1>1. Trying(c) /\ c.tries \in Nat /\ DOMAIN c = Fields
  BY CountingIs
<1>2. c' \in {[c EXCEPT !.fd = "dead"], [c EXCEPT !.early = FALSE], [c EXCEPT !.room = FALSE],
              [c EXCEPT !.room = TRUE]}
  BY DEF ResetNextReconnect, Drop, Block, Unblock, Tick
<1>3. Unmoved(c, c')
  BY <1>1, <1>2 DEF Unmoved, Fields, Steady
<1> QED
  BY <1>1, <1>3, UnmovedCounted

\* iscsi_set_noautoreconnect.
LEMMA SetNoAutoCounted ==
  ASSUME Core(c), Books(c, << >>), c.old # NoOld, SetNoAutoReconnect
  PROVE  Counted(c, c')
<1>1. Trying(c) /\ c.tries \in Nat /\ DOMAIN c = Fields /\ Between(c)
  BY CountingIs, BetweenIs
<1>2. PICK state, ok \in BOOLEAN :
        LET y == [c EXCEPT !.noauto = state]
        IN  c' = IF ~state /\ c.deferred
                 THEN reconnect([y EXCEPT !.deferred = FALSE], FALSE, ok) ELSE y
  BY DEF SetNoAutoReconnect
<1> DEFINE y == [c EXCEPT !.noauto = state]
           z == [y EXCEPT !.deferred = FALSE]
<1>3. c' \in {y, reconnect(z, FALSE, ok)}
  BY <1>2
<1>4. /\ DOMAIN y = Fields /\ \A f \in Fields \ {"noauto"} : y[f] = c[f]
      /\ DOMAIN z = Fields /\ \A f \in Fields \ {"noauto", "deferred"} : z[f] = c[f]
  BY <1>1 DEF Fields, Steady
<1> HIDE DEF y, z
<1>5. Unmoved(c, y)
  BY <1>4 DEF Unmoved, Fields, Steady
<1>6. /\ \A f \in {"fd", "status_cb", "out", "wait", "old", "cmdsn", "app", "tries", "tgt"} : z[f] = c[f]
      /\ z.pending = c.pending
  BY <1>4 DEF Fields, Steady
<1>7. Between(z)
  BY <1>1, <1>4, <1>6, BetweenBooks
<1>8. Counted(z, reconnect(z, FALSE, ok))
  BY <1>6, <1>7, ReconnectCounted
<1>9. Counted(c, reconnect(z, FALSE, ok))
  <2>1. Held(z, "reconnect") = Held(c, "reconnect") /\ z.old = c.old /\ z.tries = c.tries
    BY <1>6 DEF Held, Here
  <2> QED
    BY <1>6, <1>8, <2>1, SameCounted
<1> QED
  BY <1>1, <1>3, <1>5, <1>9, UnmovedCounted

\* iscsi_force_reconnect.
LEMMA ForceCounted ==
  ASSUME Core(c), Books(c, << >>), c.old # NoOld, ForceReconnect
  PROVE  Counted(c, c')
<1>1. DOMAIN c = Fields /\ Between(c)
  BY CountingIs, BetweenIs
<1> DEFINE z == [c EXCEPT !.forced = @ + 1]
<1>2. PICK ok \in BOOLEAN : c' = reconnect(z, TRUE, ok)
  BY DEF ForceReconnect
<1>3. DOMAIN z = Fields /\ \A f \in Fields \ {"forced"} : z[f] = c[f]
  BY <1>1 DEF Fields, Steady
<1> HIDE DEF z
<1>4. /\ \A f \in {"fd", "status_cb", "out", "wait", "old", "cmdsn", "app", "tries", "tgt"} : z[f] = c[f]
      /\ z.pending = c.pending
  BY <1>3 DEF Fields, Steady
<1>5. Between(z)
  BY <1>1, <1>3, <1>4, BetweenBooks
<1>6. Counted(z, c')
  BY <1>2, <1>4, <1>5, ReconnectCounted
<1>7. Held(z, "reconnect") = Held(c, "reconnect") /\ z.old = c.old /\ z.tries = c.tries
  BY <1>4 DEF Held, Here
<1> QED
  BY <1>4, <1>6, <1>7, SameCounted

\* iscsi_service on old_iscsi leaves its count alone, or is the end.
LEMMA KickOldCounts ==
  ASSUME NEW x, DOMAIN x = Fields, DOMAIN x.old = OldFields
  PROVE  KickOld(x).old.retry = x.old.retry /\ KickOld(x).tries = x.tries
<1> DEFINE p == Head(x.old.out)
           moved == [x EXCEPT !.old.out = Tail(@), !.old.wait = Append(@, p), !.tgt.mixed = TRUE]
<1>1. DOMAIN moved = Fields /\ moved.old.retry = x.old.retry /\ moved.tries = x.tries
  BY DEF Fields, Steady, OldFields
<1>2. \/ KickOld(x) \in {x, moved, [x EXCEPT !.app.astray = TRUE], [moved EXCEPT !.app.astray = TRUE]}
      \/ KickOld(x) = [moved EXCEPT !.tgt = Arrive(@, <<p>>, x.is_loggedin)]
  BY DEF KickOld, Astray
<1> HIDE DEF moved, p
<1> QED
  BY <1>1, <1>2 DEF Fields, Steady

\* iscsi_scsi_command_async, on old_iscsi.
LEMMA SubmitCounted ==
  ASSUME Core(c), Books(c, << >>), c.old # NoOld, Submit
  PROVE  Counted(c, c')
<1>1. PICK id, ok : c' = iscsi_scsi_command_async(c, id, ok)
  BY DEF Submit
<1>2. Trying(c) /\ DOMAIN c = Fields /\ DOMAIN c.old = OldFields /\ c.tries \in Nat
  BY CountingIs DEF Trying
<1> DEFINE p == Pdu("scsi", id, c.old.cmdsn, NoCt)
           y == [c EXCEPT !.app.asked = @ \cup {id},
                          !.app.during = IF c.old = NoOld THEN @ ELSE @ \cup {id}]
           z == [y EXCEPT !.old.cmdsn = @ + 1, !.old.out = Sorted(@, p)]
<1>3. c' = IF Head(z.old.out) = p THEN KickOld(z) ELSE z
  BY <1>1, Zenon DEF iscsi_scsi_command_async
<1>4. DOMAIN y = Fields /\ y.old = c.old /\ y.tries = c.tries
  BY <1>2 DEF Fields, Steady
<1> HIDE DEF y, p
<1>5. /\ DOMAIN z = Fields /\ DOMAIN z.old = OldFields /\ z.old.retry = c.old.retry
      /\ z.tries = c.tries
  BY <1>2, <1>4 DEF Fields, Steady, OldFields
<1> HIDE DEF z
<1>6. c'.old.retry = c.old.retry /\ c'.tries = c.tries
  BY <1>3, <1>5, KickOldCounts
<1> QED
  BY <1>2, <1>6 DEF Trying, Counted

\* iscsi_task_mgmt_async.
LEMMA TaskMgmtCounted ==
  ASSUME Core(c), Books(c, << >>), c.old # NoOld, TaskMgmt
  PROVE  Counted(c, c')
<1>1. PICK y, ok : /\ Core(y) /\ Books(y, << >>) /\ c' \in {Kick(y, ok), y}
                   /\ y.old = c.old /\ y.tries = c.tries /\ y.pending = c.pending
                   /\ Held(y, "reconnect") = Held(c, "reconnect")
  BY TaskMgmtIs
<1>2. Trying(y) /\ y.tries \in Nat /\ Unmoved(y, y)
  BY <1>1, CountingIs DEF Unmoved
<1>3. Counted(y, c')
  BY <1>1, <1>2, KickCounted, UnmovedCounted
<1> QED
  BY <1>1, <1>3, SameCounted

\* iscsi_timeout_scan on the context and on old_iscsi.
LEMMA TimeoutCounted ==
  ASSUME Core(c), Books(c, << >>), c.old # NoOld, Timeout
  PROVE  Counted(c, c')
<1>1. Typed(c) /\ Ranked(c) /\ DOMAIN c = Fields /\ c.tries \in Nat /\ Trying(c)
  BY CountingIs DEF Books
<1>2. ASSUME NEW e \in Expired(c), c' = PduCb(e[2], e[1], "TIMEOUT")
      PROVE  Counted(c, c')
  <2> DEFINE x == e[2]
             p == e[1]
             R == Holding("reconnect")
  <2>1. Lacking(c, p, x)
    <3>1. {"out", "wait", "cmdsn"} \subseteq DOMAIN c
      BY <1>1 DEF Fields
    <3> QED
      BY <1>1, <3>1, ExpiredIs DEF Typed, Ranked
  <2>2. c' = PduCb(x, p, "TIMEOUT")
    BY <1>2
  <2> HIDE DEF x, p
  <2>3. p \in Frame /\ Unmoved(c, x) /\ Trying(x) /\ x.out \in Seq(Frame) /\ x.wait \in Seq(Frame)
    <3>1. p \in Frame /\ x.out \in Seq(Frame) /\ x.wait \in Seq(Frame) /\ DOMAIN x = Fields
          /\ x.old = c.old /\ x.tries = c.tries /\ x.pending = c.pending
      BY <1>1, <2>1 DEF Lacking, Fields, Steady
    <3>2. Unmoved(c, x)
      BY <3>1 DEF Unmoved
    <3> QED
      BY <1>1, <3>1, <3>2, UnmovedTrying
  <2>4. Unmoved(x, c') \/ (p.ct.cb = "reconnect" /\ Failed(x, c'))
    BY <2>2, <2>3, PduCbFails
  <2>5. CASE Unmoved(x, c')
    BY <1>1, <2>3, <2>5, UnmovedTwice, UnmovedCounted
  <2>6. CASE p.ct.cb = "reconnect" /\ Failed(x, c')
    <3>1. Here(c, R) = Here(x, R) + 1
      <4>1. p \in R /\ Blind(R)
        BY <2>3, <2>6, BlindSets DEF Holding
      <4> HIDE DEF R
      <4> QED
        BY <2>1, <4>1 DEF Lacking
    <3>2. Here(x, R) \in Nat
      <4>1. Count(x.out, R) \in Nat /\ Count(x.wait, R) \in Nat
        BY <2>3, CountType
      <4> QED
        BY <4>1 DEF Here
    <3>3. Held(c, "reconnect") # 0
      <4> DEFINE a == Here(x, R)
                 b == IF c.status_cb.cb = "reconnect" THEN 1 ELSE 0
      <4>1. Held(c, "reconnect") = (a + 1) + b /\ a \in Nat /\ b \in Nat
        BY <3>1, <3>2 DEF Held
      <4> HIDE DEF a, b
      <4> QED
        BY <4>1
    <3>4. Missed(c, c')
      BY <2>3, <2>6 DEF Unmoved, Failed, Missed
    <3> QED
      BY <1>1, <3>3, <3>4, MissedCounted
  <2> QED
    BY <2>4, <2>5, <2>6
<1>3. ASSUME NEW e \in Expired(c.old),
             c' = IF e[1].kind = "logout" THEN [c EXCEPT !.old = [e[2] EXCEPT !.pending = TRUE]]
                  ELSE PduCb([c EXCEPT !.old = e[2]], e[1], "TIMEOUT")
      PROVE  Counted(c, c')
  <2> DEFINE q == c.old
             o == e[2]
             p == e[1]
             x == [c EXCEPT !.old = o]
             z == [c EXCEPT !.old = [o EXCEPT !.pending = TRUE]]
  <2>1. /\ DOMAIN q = OldFields /\ q.out \in Seq(Frame) /\ q.wait \in Seq(Frame) /\ q.cmdsn \in Int
        /\ Numbered(q.out, q.cmdsn) /\ InLine(q.wait, q.out) /\ e \in Expired(q) /\ q.retry \in Nat
    BY <1>1, <1>3 DEF Typed, Ranked
  <2> HIDE DEF q
  <2>2. Lacking(q, p, o)
    BY <2>1, ExpiredIs DEF OldFields
  <2>3. c' = IF p.kind = "logout" THEN z ELSE PduCb(x, p, "TIMEOUT")
    BY <1>3
  <2>4. /\ DOMAIN x = Fields /\ x.old = o /\ x.tries = c.tries
        /\ DOMAIN z = Fields /\ z.old = [o EXCEPT !.pending = TRUE] /\ z.tries = c.tries
    BY <1>1 DEF Fields, Steady
  <2> HIDE DEF x, p, o, z
  <2>5. p \in Frame /\ p.ct.cb # "reconnect"
    BY <2>2, AsideFrame DEF q
  <2>6. DOMAIN o = OldFields /\ o.retry = q.retry
    BY <2>1, <2>2 DEF Lacking, OldFields
  <2>7. CASE p.kind = "logout"
    <3>1. c'.old.retry = q.retry /\ c'.tries = c.tries
      BY <2>3, <2>4, <2>6, <2>7 DEF OldFields
    <3> QED
      BY <1>1, <2>1, <3>1 DEF q, Counted
  <2>8. CASE p.kind # "logout"
    <3>1. Trying(x)
      <4>1. "cmdsn" \in DOMAIN o /\ "cmdsn" \notin DOMAIN NoOld
        BY <2>6 DEF OldFields, NoOld
      <4>2. o # NoOld
        BY <4>1
      <4> QED
        BY <2>1, <2>4, <2>6, <4>2 DEF Trying
    <3>2. c' = PduCb(x, p, "TIMEOUT")
      BY <2>3, <2>8
    <3>3. Unmoved(x, c')
      BY <2>5, <3>1, <3>2, PduCbFails
    <3>4. c'.old.retry = q.retry /\ c'.tries = c.tries
      BY <2>4, <2>6, <3>3 DEF Unmoved
    <3> QED
      BY <1>1, <2>1, <3>4 DEF q, Counted
  <2> QED
    BY <2>7, <2>8
<1> QED
  BY <1>2, <1>3 DEF Timeout

\* No step counts two failures, none is counted behind the back of the attempt
\* under way, and none is begun beyond the limit; the step of a nested
\* reconnect, which starts the count anew, is excused.
THEOREM AttemptsCountedCorrect == Spec => AttemptsCounted
<1>1. ASSUME BooksInv, [Next]_vars, c.old # NoOld, c'.old # NoOld, ~UNCHANGED vars
      PROVE  /\ c'.old.retry \in {c.old.retry, c.old.retry + 1}
             /\ c'.old.retry > c.old.retry => ~c.pending \/ Holders("reconnect") = 1
             /\ c'.tries > c.tries => ~Exceeded(c.old.retry)
  <2>1. Core(c) /\ Books(c, << >>) /\ Next
    <3>1. Core(c)
      BY <1>1 DEF BooksInv, LoginInv, Idle
    <3>2. Next
      BY <1>1
    <3>3. ~c.app.astray
      BY <3>1, <3>2 DEF Next, Connect, Submit, TaskMgmt, SetNoAutoReconnect, ForceReconnect,
         ResetNextReconnect, Establish, Refuse, ServiceError, ServicePending, Write, LoginReply,
         LoginSurprise, ProbeReply, ProbeSurprise, ResetReply, RequestReply, AsyncMessage, Ping,
         Timeout, Drop, Block, Unblock, Tick, Readable, Live, Core
    <3> QED
      BY <1>1, <3>1, <3>2, <3>3 DEF BooksInv, Core
  <2>2. ~Connect
    BY <2>1 DEF Connect, Core
  <2>3. Counted(c, c')
    BY <1>1, <2>1, <2>2, SubmitCounted, TaskMgmtCounted, SetNoAutoCounted, ForceCounted, QuietCounted,
       EstablishCounted, RefuseCounted, ServiceStepCounted, LoginReplyCounted, LoginSurpriseCounted,
       ProbeCounted, ResetReplyCounted, RequestReplyCounted, AsyncMessageCounted, TimeoutCounted DEF Next
  <2>4. Held(c, "reconnect") # 0 => Holders("reconnect") = 1
    <3> DEFINE n == << >>
               its == Held(c, "reconnect")
    <3>1. Typed(c) /\ Owned(c, n)
      BY <2>1 DEF Books
    <3>2. Count(n, Holding("reconnect")) = 0
      BY CountEmpty
    <3> HIDE DEF n
    <3>3. PutAside(c, Holding("reconnect")) = 0 /\ its + 0 <= 1
      BY <1>1, <3>1, <3>2 DEF Owned
    <3>4. Holders("reconnect") = its + 0 /\ its \in Nat
      BY <3>1, <3>3, QueuedCounts, HeldType
    <3> HIDE DEF its
    <3>5. its # 0 => Holders("reconnect") = 1
      BY <3>3, <3>4
    <3> QED
      BY <3>5 DEF its
  <2> QED
    BY <1>1, <2>3, <2>4 DEF Counted
<1>2. BooksInv /\ [Next]_vars =>
        [Reconnecting /\ Reconnecting' /\ Live' =>
           /\ c'.old.retry \in {c.old.retry, c.old.retry + 1}
           /\ c'.old.retry > c.old.retry => ~c.pending \/ Holders("reconnect") = 1
           /\ c'.tries > c.tries => ~Exceeded(c.old.retry)]_vars
  BY <1>1 DEF Reconnecting
<1> QED
  BY <1>2, BooksCorrect, PTL DEF Spec, AttemptsCounted

=============================================================================
