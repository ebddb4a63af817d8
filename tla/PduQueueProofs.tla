--------------------------- MODULE PduQueueProofs ---------------------------
(***************************************************************************)
(* Theorems about PduQueue, for every number of requests, every width of   *)
(* the counters, every window and every combination of failures.           *)
(***************************************************************************)
EXTENDS PduQueue, ListsProofs

-----------------------------------------------------------------------------
(* Numbers. *)

\* Adding at most one turn and taking away less than one stay in the number
\* space.
LEMMA SNType ==
  ASSUME NEW s \in Serial, NEW n \in 0 .. (Modulus - 1)
  PROVE  SNPlus(s, n) \in Serial /\ SNMinus(s, n) \in Serial
BY HalfAssumption DEF Serial, Modulus, SNPlus, SNMinus

\* One, and the size of the window, are such amounts.
LEMMA WindowType ==
  /\ 1 \in 0 .. (Modulus - 1)
  /\ (Window - 1) \in 0 .. (Modulus - 1)
BY HalfAssumption, ConstantsAssumption DEF Modulus

\* The number of CmdSNs a list of PDUs gives back is a uint32_t.
LEMMA GivenBackType ==
  ASSUME NEW s \in Seq(Pdu), NEW X \in SUBSET DOMAIN s
  PROVE  GivenBack(s, X) \in 0 .. (Modulus - 1)
<1> DEFINE N == {i \in X : Numbered(s[i])}
<1>1. IsFiniteSet(DOMAIN s)
  BY FS_Interval, LenProperties
<1>2. Cardinality(N) \in Nat
  BY <1>1, FS_Subset, FS_CardinalityType
<1>3. Cardinality(N) % Modulus \in 0 .. (Modulus - 1)
  BY <1>2, HalfAssumption DEF Modulus
<1> QED
  BY <1>3 DEF GivenBack

-----------------------------------------------------------------------------
(* Lists of PDUs. *)

\* Renumbering changes nothing but CmdSNs.
LEMMA RenumberType ==
  ASSUME NEW s \in Seq(Pdu), NEW X \in SUBSET DOMAIN s
  PROVE  /\ Renumber(s, X) \in Seq(Pdu)
         /\ DOMAIN Renumber(s, X) = DOMAIN s
         /\ \A i \in DOMAIN s : /\ Renumber(s, X)[i] \in Pdu
                                /\ Renumber(s, X)[i].op = s[i].op
                                /\ Renumber(s, X)[i].req = s[i].req
<1>1. ASSUME NEW i \in DOMAIN s
      PROVE  SNMinus(s[i].cmdsn, GivenBack(s, {j \in X : j < i})) \in Serial
  <2>1. GivenBack(s, {j \in X : j < i}) \in 0 .. (Modulus - 1)
    BY GivenBackType
  <2>2. s[i].cmdsn \in Serial
    <3>1. s[i] \in Pdu
      BY ElementOfSeq, LenProperties
    <3> QED
      BY <3>1 DEF Pdu
  <2> QED
    BY <2>1, <2>2, SNType
<1>2. ASSUME NEW i \in DOMAIN s
      PROVE  LET p == [s[i] EXCEPT !.cmdsn = SNMinus(@, GivenBack(s, {j \in X : j < i}))]
             IN  p \in Pdu /\ p.op = s[i].op /\ p.req = s[i].req
  <2>1. s[i] \in Pdu
    BY ElementOfSeq, LenProperties
  <2> QED
    BY <1>1, <2>1 DEF Pdu
<1>3. DOMAIN s = 1 .. Len(s) /\ Len(s) \in Nat
  BY LenProperties
<1>4. /\ Renumber(s, X) = [i \in 1 .. Len(s) |-> Renumber(s, X)[i]]
      /\ \A i \in 1 .. Len(s) : /\ Renumber(s, X)[i] \in Pdu
                                /\ Renumber(s, X)[i].op = s[i].op
                                /\ Renumber(s, X)[i].req = s[i].req
  BY <1>2, <1>3 DEF Renumber
<1>5. Renumber(s, X) \in [1 .. Len(s) -> Pdu]
  BY <1>4
<1>6. Renumber(s, X) \in Seq(Pdu)
  BY <1>3, <1>5, SeqDef
<1> QED
  BY <1>3, <1>4, <1>6

\* Who owns the PDUs of a list after some were taken out.
LEMMA RetainOwners ==
  ASSUME NEW s \in Seq(Pdu), NEW I \in SUBSET DOMAIN s, NEW q \in Retain(s, I)
  PROVE  /\ Owners(q) = {s[i].req : i \in {j \in I : ~DeleteWhenSent(s[j])}}
         /\ SingleOwner(s) => SingleOwner(q)
         /\ (\A i \in DOMAIN s : ~DeleteWhenSent(s[i])) =>
              \A k \in DOMAIN q : ~DeleteWhenSent(q[k])
<1>1. /\ \A i \in I : \E k \in DOMAIN q : q[k] = s[i]
      /\ \A a, b \in DOMAIN q : \E i, j \in I :
           q[a] = s[i] /\ q[b] = s[j] /\ (i = j => a = b)
  BY RetainType
<1>2. Owners(q) = {s[i].req : i \in {j \in I : ~DeleteWhenSent(s[j])}}
  <2>1. ASSUME NEW r \in Owners(q)
        PROVE  \E i \in I : ~DeleteWhenSent(s[i]) /\ r = s[i].req
    <3>1. PICK k \in DOMAIN q : ~DeleteWhenSent(q[k]) /\ r = q[k].req
      BY DEF Owners
    <3>2. PICK i \in I : q[k] = s[i]
      BY <1>1
    <3> QED
      BY <3>1, <3>2
  <2>2. ASSUME NEW i \in I, ~DeleteWhenSent(s[i])
        PROVE  s[i].req \in Owners(q)
    <3>1. PICK k \in DOMAIN q : q[k] = s[i]
      BY <1>1
    <3> QED
      BY <2>2, <3>1 DEF Owners
  <2> QED
    BY <2>1, <2>2
<1>3. ASSUME SingleOwner(s) PROVE SingleOwner(q)
  <2> SUFFICES ASSUME NEW a \in DOMAIN q, NEW b \in DOMAIN q,
                      ~DeleteWhenSent(q[a]), ~DeleteWhenSent(q[b]), q[a].req = q[b].req
               PROVE  a = b
    BY DEF SingleOwner
  <2>1. PICK i, j \in I : q[a] = s[i] /\ q[b] = s[j] /\ (i = j => a = b)
    BY <1>1
  <2>2. i = j
    BY <1>3, <2>1 DEF SingleOwner
  <2> QED
    BY <2>1, <2>2
<1>4. (\A i \in DOMAIN s : ~DeleteWhenSent(s[i])) =>
        \A k \in DOMAIN q : ~DeleteWhenSent(q[k])
  BY <1>1
<1> QED
  BY <1>2, <1>3, <1>4

\* Renumbering leaves the owners alone.
LEMMA RenumberOwners ==
  ASSUME NEW s \in Seq(Pdu), NEW X \in SUBSET DOMAIN s
  PROVE  /\ \A i \in DOMAIN s : DeleteWhenSent(Renumber(s, X)[i]) <=> DeleteWhenSent(s[i])
         /\ Owners(Renumber(s, X)) = Owners(s)
         /\ SingleOwner(s) => SingleOwner(Renumber(s, X))
<1> DEFINE q == Renumber(s, X)
<1> HIDE DEF q
<1>1. DOMAIN q = DOMAIN s /\ \A i \in DOMAIN s : q[i].op = s[i].op /\ q[i].req = s[i].req
  BY RenumberType DEF q
<1>2. \A i \in DOMAIN s : DeleteWhenSent(q[i]) <=> DeleteWhenSent(s[i])
  BY <1>1 DEF DeleteWhenSent
<1>3. Owners(q) = Owners(s)
  BY <1>1, <1>2 DEF Owners
<1>4. SingleOwner(s) => SingleOwner(q)
  BY <1>1, <1>2 DEF SingleOwner
<1> QED
  BY <1>2, <1>3, <1>4 DEF q

\* The requests that own a PDU: a DATA-OUT or PONG has no owner.
OwnerOf(p) == IF DeleteWhenSent(p) THEN {} ELSE {p.req}

\* An inserted PDU adds its owner and nothing else.
LEMMA InsertOwners ==
  ASSUME NEW s \in Seq(Pdu), NEW i \in 1 .. (Len(s) + 1), NEW p \in Pdu
  PROVE  /\ Owners(InsertAt(s, i, p)) = Owners(s) \cup OwnerOf(p)
         /\ SingleOwner(s) /\ OwnerOf(p) \cap Owners(s) = {} => SingleOwner(InsertAt(s, i, p))
<1> DEFINE q == InsertAt(s, i, p)
           At(k) == IF k < i THEN s[k] ELSE IF k = i THEN p ELSE s[k - 1]
<1>0. Len(s) \in Nat /\ DOMAIN s = 1 .. Len(s)
  BY LenProperties
<1>Insert. /\ InsertAt(s, i, p) \in Seq(Pdu)
           /\ Len(InsertAt(s, i, p)) = Len(s) + 1
           /\ \A k \in 1 .. (Len(s) + 1) :
                InsertAt(s, i, p)[k] = IF k < i THEN s[k] ELSE IF k = i THEN p ELSE s[k - 1]
  <2>1. InsertAt(s, i, p) \in Seq(Pdu) /\ Inserted(InsertAt(s, i, p), s, i, p)
    BY InsertShape
  <2> QED
    BY <2>1 DEF Inserted
<1>Type. q \in Seq(Pdu) /\ Len(q) = Len(s) + 1
  BY <1>Insert
<1>Elements. \A k \in 1 .. (Len(s) + 1) : q[k] = At(k)
  BY <1>Insert
<1> HIDE DEF q
<1>1. /\ q \in Seq(Pdu) /\ Len(q) = Len(s) + 1
      /\ \A k \in 1 .. (Len(s) + 1) :
           q[k] = IF k < i THEN s[k] ELSE IF k = i THEN p ELSE s[k - 1]
  BY <1>Type, <1>Elements
<1>2. DOMAIN q = 1 .. (Len(s) + 1)
  BY <1>1, LenProperties
<1>3. \A k \in DOMAIN q : k = i \/ \E j \in DOMAIN s : q[k] = s[j] /\ j = IF k < i THEN k ELSE k - 1
  BY <1>0, <1>1, <1>2
<1>4. q[i] = p /\ i \in DOMAIN q
  BY <1>0, <1>1, <1>2
<1>5. \A j \in DOMAIN s : \E k \in DOMAIN q : q[k] = s[j]
  <2> TAKE j \in DOMAIN s
  <2>1. CASE j < i
    BY <2>1, <1>0, <1>1, <1>2
  <2>2. CASE ~(j < i)
    <3>1. j + 1 \in DOMAIN q /\ q[j + 1] = s[(j + 1) - 1] /\ (j + 1) - 1 = j
      BY <2>2, <1>0, <1>1, <1>2
    <3> QED
      BY <3>1
  <2> QED
    BY <2>1, <2>2
<1>6. Owners(q) = Owners(s) \cup OwnerOf(p)
  <2>1. ASSUME NEW r \in Owners(q) PROVE r \in Owners(s) \cup OwnerOf(p)
    BY <1>3, <1>4 DEF Owners, OwnerOf
  <2>2. ASSUME NEW r \in Owners(s) PROVE r \in Owners(q)
    BY <1>5 DEF Owners
  <2>3. ASSUME NEW r \in OwnerOf(p) PROVE r \in Owners(q)
    BY <1>4 DEF Owners, OwnerOf
  <2> QED
    BY <2>1, <2>2, <2>3
<1>7. ASSUME SingleOwner(s), OwnerOf(p) \cap Owners(s) = {}
      PROVE  SingleOwner(q)
  <2> SUFFICES ASSUME NEW a \in DOMAIN q, NEW b \in DOMAIN q,
                      ~DeleteWhenSent(q[a]), ~DeleteWhenSent(q[b]), q[a].req = q[b].req
               PROVE  a = b
    BY DEF SingleOwner
  <2>1. CASE a = i /\ b = i
    BY <2>1
  <2>2. CASE a = i /\ b # i
    BY <2>2, <1>3, <1>4, <1>7 DEF Owners, OwnerOf
  <2>3. CASE a # i /\ b = i
    BY <2>3, <1>3, <1>4, <1>7 DEF Owners, OwnerOf
  <2>4. CASE a # i /\ b # i
    <3>1. (IF a < i THEN a ELSE a - 1) = (IF b < i THEN b ELSE b - 1)
      BY <2>4, <1>3, <1>7 DEF SingleOwner
    <3> QED
      BY <2>4, <3>1, <1>0, <1>2
  <2> QED
    BY <2>1, <2>2, <2>3, <2>4
<1> QED
  BY <1>6, <1>7 DEF q

-----------------------------------------------------------------------------
(* The call stack and the queueing of a PDU. *)

\* Every frame the actions push is a frame.
LEMMA FrameType ==
  /\ \A step \in Steps \ {"data"} : Do(step) \in Frame
  /\ \A step \in Steps \ {"data"}, r \in Reqs : DoFor(step, r) \in Frame
  /\ \A step \in Steps \ {"data"} : <<Do(step)>> \in Seq(Frame)
  /\ \A r \in Reqs, dsn \in Nat, n \in Nat : SendData(r, dsn, n) \in Seq(Frame)
  /\ ServiceTick \in Seq(Frame) /\ ServicePollout \in Seq(Frame)
  /\ CallbackFrame \in Seq(Frame)
<1>1. \A step \in Steps \ {"data"} : Do(step) \in Frame
  BY DEF Do, Frame
<1>2. \A step \in Steps \ {"data"}, r \in Reqs : DoFor(step, r) \in Frame
  BY DEF DoFor, Frame
<1>3. \A step \in Steps \ {"data"} : <<Do(step)>> \in Seq(Frame)
  BY <1>1
<1>4. \A r \in Reqs, dsn \in Nat, n \in Nat : SendData(r, dsn, n) \in Seq(Frame)
  <2> TAKE r \in Reqs, dsn \in Nat, n \in Nat
  <2>1. n # 0 => [do |-> "data", req |-> r, datasn |-> dsn, left |-> n] \in Frame
    BY DEF Frame, Steps
  <2> QED
    BY <2>1 DEF SendData
<1>5. {"write", "scan_out", "scan_wait", "callback"} \subseteq Steps \ {"data"}
  BY DEF Steps
<1>6. ServiceTick \in Seq(Frame)
  BY <1>1, <1>5 DEF ServiceTick
<1>7. ServicePollout \in Seq(Frame)
  BY <1>3, <1>5, <1>6 DEF ServicePollout
<1>8. CallbackFrame \in Seq(Frame)
  BY <1>3, <1>5 DEF CallbackFrame
<1> QED
  BY <1>1, <1>2, <1>3, <1>4, <1>6, <1>7, <1>8

\* The records NewPdu makes are PDUs.
LEMMA NewPduType ==
  ASSUME NEW op \in Ops, NEW r \in Reqs \cup {NoReq}, NEW sn \in Serial, NEW dsn \in Nat,
         op # "PONG" => r \in Reqs
  PROVE  /\ NewPdu(op, r, sn, dsn) \in Pdu
         /\ NewPdu(op, r, sn, dsn).op = op /\ NewPdu(op, r, sn, dsn).req = r
BY DEF NewPdu, Pdu

\* iscsi_add_to_outqueue: the queue has the new PDU and what it had before.
LEMMA AddLemma ==
  ASSUME NEW q \in Seq(Pdu), NEW p \in Pdu, NEW callers \in Seq(Frame),
         AddToOutqueue(q, p, callers)
  PROVE  /\ outqueue' \in Seq(Pdu) /\ agenda' \in Seq(Frame)
         /\ Owners(outqueue') = Owners(q) \cup OwnerOf(p)
         /\ SingleOwner(q) /\ OwnerOf(p) \cap Owners(q) = {} => SingleOwner(outqueue')
<1>1. PICK sn \in QueueSN(q, p), i \in 1 .. (Len(q) + 1) :
         /\ outqueue' = InsertAt(q, i, [p EXCEPT !.cmdsn = sn])
         /\ agenda' = (IF i = 1 THEN ServicePollout ELSE <<>>) \o callers
  BY DEF AddToOutqueue
<1>2. sn \in Serial
  <2>1. p.cmdsn \in Serial
    BY DEF Pdu
  <2>2. \A k \in DOMAIN q : q[k].cmdsn \in Serial
    <3>1. \A k \in DOMAIN q : q[k] \in Pdu
      BY ElementOfSeq, LenProperties
    <3> QED
      BY <3>1 DEF Pdu
  <2> QED
    BY <2>1, <2>2 DEF QueueSN
<1> DEFINE np == [p EXCEPT !.cmdsn = sn]
<1>3. np \in Pdu /\ np.op = p.op /\ np.req = p.req
  BY <1>2 DEF Pdu
<1>4. OwnerOf(np) = OwnerOf(p)
  BY <1>3 DEF OwnerOf, DeleteWhenSent
<1>5. outqueue' \in Seq(Pdu)
  BY <1>1, <1>3, InsertShape
<1>6. /\ Owners(outqueue') = Owners(q) \cup OwnerOf(np)
      /\ SingleOwner(q) /\ OwnerOf(np) \cap Owners(q) = {} => SingleOwner(outqueue')
  BY <1>1, <1>3, InsertOwners
<1>7. agenda' \in Seq(Frame)
  BY <1>1, FrameType
<1> QED
  BY <1>4, <1>5, <1>6, <1>7

\* Callbacks are recorded as sequences of statuses.
LEMMA CompleteType ==
  ASSUME TypeOK, NEW R, NEW status \in Statuses, Complete(R, status)
  PROVE  /\ results' \in [Reqs -> Seq(Statuses)]
         /\ \A r \in Reqs : results'[r] = IF r \in R THEN Append(results[r], status) ELSE results[r]
BY DEF TypeOK, Complete

\* The numbers that the outqueue gives back.
LEMMA CmdSNWithoutType ==
  ASSUME TypeOK, NEW X \in SUBSET DOMAIN outqueue
  PROVE  CmdSNWithout(X) \in Serial
BY GivenBackType, SNType DEF TypeOK, CmdSNWithout

\* iscsi_cancel_pdus leaves every variable it changes in its type.
LEMMA CancelType ==
  ASSUME TypeOK, CancelWaiting
  PROVE  /\ waitpdu' \in Seq(Pdu) /\ current' \in Pdu \cup {NoPdu} /\ cmdsn' \in Serial
         /\ results' \in [Reqs -> Seq(Statuses)]
<1>1. Complete(Owners(outqueue) \cup Owners(waitpdu), "CANCELLED") /\ "CANCELLED" \in Statuses
  BY DEF CancelWaiting, CompleteAll, Statuses
<1>2. results' \in [Reqs -> Seq(Statuses)]
  BY <1>1, CompleteType
<1>3. cmdsn' \in Serial
  BY CmdSNWithoutType DEF CancelWaiting
<1> QED
  BY <1>2, <1>3 DEF CancelWaiting, TypeOK

\* A service call that fails leaves every variable it changes in its type.
LEMMA ServiceFailsType ==
  ASSUME TypeOK, NEW callers \in Seq(Frame), ServiceFails(callers)
  PROVE  /\ outqueue' \in Seq(Pdu) /\ waitpdu' \in Seq(Pdu)
         /\ current' \in Pdu \cup {NoPdu} /\ cmdsn' \in Serial
         /\ results' \in [Reqs -> Seq(Statuses)]
         /\ agenda' \in Seq(Frame) /\ reconnect_deferred' \in BOOLEAN
<1>1. CASE is_loggedin /\ ~reconnect_deferred
  BY <1>1, CancelType DEF ServiceFails, CancelPdus
<1>2. CASE ~(is_loggedin /\ ~reconnect_deferred)
  BY <1>2 DEF ServiceFails, TypeOK
<1> QED
  BY <1>1, <1>2

\* The serials of a PDU leave the window in its type.
LEMMA SerialsType ==
  ASSUME TypeOK, ProcessSerials
  PROVE  expcmdsn' \in Serial /\ maxcmdsn' \in Serial
<1>1. PICK exp \in AnnouncedExp : \E max \in {SNMinus(exp, 1), SNPlus(exp, Window - 1)} :
         expcmdsn' = Forward(expcmdsn, exp) /\ maxcmdsn' = Forward(maxcmdsn, max)
  BY DEF ProcessSerials
<1>a. PICK max \in {SNMinus(exp, 1), SNPlus(exp, Window - 1)} :
         expcmdsn' = Forward(expcmdsn, exp) /\ maxcmdsn' = Forward(maxcmdsn, max)
  BY <1>1
<1>2. exp \in Serial
  BY SNType, WindowType DEF TypeOK, AnnouncedExp
<1>3. max \in Serial
  BY <1>2, SNType, WindowType
<1> QED
  BY <1>a, <1>2, <1>3 DEF TypeOK, Forward

-----------------------------------------------------------------------------
(* Types. *)

\* A request that a list owns is one of Reqs or NoReq; a PDU of a list is
\* a PDU.
LEMMA ListType ==
  ASSUME TypeOK
  PROVE  /\ \A i \in DOMAIN outqueue : outqueue[i] \in Pdu
         /\ \A i \in DOMAIN waitpdu : waitpdu[i] \in Pdu
         /\ outqueue # <<>> => Head(outqueue) \in Pdu /\ Tail(outqueue) \in Seq(Pdu)
         /\ agenda # <<>> => Head(agenda) \in Frame /\ Tail(agenda) \in Seq(Frame)
         /\ AfterService \in Seq(Frame)
<1>1. \A i \in DOMAIN outqueue : outqueue[i] \in Pdu
  BY ElementOfSeq, LenProperties DEF TypeOK
<1>2. \A i \in DOMAIN waitpdu : waitpdu[i] \in Pdu
  BY ElementOfSeq, LenProperties DEF TypeOK
<1>3. outqueue # <<>> => Head(outqueue) \in Pdu /\ Tail(outqueue) \in Seq(Pdu)
  BY HeadTailProperties DEF TypeOK
<1>4. agenda # <<>> => Head(agenda) \in Frame /\ Tail(agenda) \in Seq(Frame)
  BY HeadTailProperties DEF TypeOK
<1>5. AfterService \in Seq(Frame)
  <2>1. Len(ServicePollout) \in Nat /\ Len(agenda) \in Nat /\ agenda \in Seq(Frame)
    BY FrameType, LenProperties DEF TypeOK
  <2>2. \A i \in (Len(ServicePollout) + 1) .. Len(agenda) : agenda[i] \in Frame
    BY <2>1, ElementOfSeq
  <2> QED
    BY <2>1, <2>2, SubSeqProperties DEF AfterService
<1> QED
  BY <1>1, <1>2, <1>3, <1>4, <1>5

\* The initial state is typed.
LEMMA InitType == Init => TypeOK
<1> SUFFICES ASSUME Init PROVE TypeOK
  OBVIOUS
<1>1. InitSN \in Serial /\ SNPlus(InitSN, Window - 1) \in Serial
  BY ConstantsAssumption, SNType, WindowType
<1>2. rq \in [Reqs -> [kind : Kinds \cup {"unused"}, lun : Nat]]
  BY DEF Init, Unused
<1>3. results \in [Reqs -> Seq(Statuses)] /\ owed \in [Reqs -> Seq(Nat)]
  BY DEF Init
<1>4. outqueue \in Seq(Pdu) /\ waitpdu \in Seq(Pdu) /\ agenda \in Seq(Frame)
  BY DEF Init
<1>5. r2ts \in [Reqs -> Nat] /\ pings \in Nat
  BY DEF Init
<1> QED
  BY <1>1, <1>2, <1>3, <1>4, <1>5 DEF Init, TypeOK

\* The application's calls that queue one PDU are typed.
LEMMA QueueingType ==
  ASSUME TypeOK, NEW r \in Reqs,
         NopOutAsync(r) \/ (\E t \in Reqs : AbortTaskAsync(r, t)) \/ LogoutAsync(r)
  PROVE  TypeOK'
<1>1. rq' \in [Reqs -> [kind : Kinds \cup {"unused"}, lun : Nat]]
  <2>1. PICK kind \in Kinds : rq' = [rq EXCEPT ![r].kind = kind]
    BY DEF NopOutAsync, AbortTaskAsync, LogoutAsync, Kinds
  <2> QED
    BY <2>1 DEF TypeOK
<1>2. SNPlus(cmdsn, 1) \in Serial
  BY SNType, WindowType DEF TypeOK
<1>3. PICK op \in Ops : AddToOutqueue(outqueue, NewPdu(op, r, cmdsn, 0), agenda)
  BY DEF NopOutAsync, AbortTaskAsync, LogoutAsync, Ops
<1>4. NewPdu(op, r, cmdsn, 0) \in Pdu
  BY NewPduType DEF TypeOK
<1>5. outqueue' \in Seq(Pdu) /\ agenda' \in Seq(Frame)
  BY <1>3, <1>4, AddLemma DEF TypeOK
<1> QED
  BY <1>1, <1>2, <1>5 DEF TypeOK, NopOutAsync, AbortTaskAsync, LogoutAsync, windowVars, targetVars

\* iscsi_scsi_command_async is typed.
LEMMA CommandType ==
  ASSUME TypeOK, NEW r \in Reqs, NEW kind \in ScsiKinds, NEW lun \in Luns,
         CommandAsync(r, kind, lun)
  PROVE  TypeOK'
<1>1. rq' \in [Reqs -> [kind : Kinds \cup {"unused"}, lun : Nat]]
  BY ConstantsAssumption DEF TypeOK, CommandAsync, Kinds
<1>2. cmdsn' \in Serial
  BY SNType, WindowType DEF TypeOK, CommandAsync
<1>3. PICK n \in (IF kind = "read" THEN {0} ELSE 0 .. MaxUnsolicited) :
         /\ owed' = [owed EXCEPT ![r] = DataSNs(n)]
         /\ AddToOutqueue(outqueue, NewPdu("SCSI", r, cmdsn, 0), SendData(r, 0, n) \o agenda)
  BY DEF CommandAsync
<1>4. n \in Nat
  BY ConstantsAssumption
<1>5. owed' \in [Reqs -> Seq(Nat)]
  BY <1>3, <1>4 DEF TypeOK, DataSNs
<1>6. NewPdu("SCSI", r, cmdsn, 0) \in Pdu
  BY NewPduType DEF TypeOK, Ops
<1>7. SendData(r, 0, n) \o agenda \in Seq(Frame)
  BY <1>4, FrameType DEF TypeOK
<1>8. outqueue' \in Seq(Pdu) /\ agenda' \in Seq(Frame)
  BY <1>3, <1>6, <1>7, AddLemma DEF TypeOK
<1> QED
  BY <1>1, <1>2, <1>5, <1>8 DEF TypeOK, CommandAsync, windowVars

\* The cancellations and the destruction of the context are typed.
LEMMA CancellationType ==
  ASSUME TypeOK, (\E r \in Reqs : CancelTask(r)) \/ CancelAllTasks \/ DestroyContext
  PROVE  TypeOK'
<1>0. "CANCELLED" \in Statuses
  BY DEF Statuses
<1>1. ASSUME NEW r \in Reqs, CancelTask(r) PROVE TypeOK'
  <2>1. results' \in [Reqs -> Seq(Statuses)]
    BY <1>0, <1>1, CompleteType DEF CancelTask
  <2>2. outqueue' \in Seq(Pdu) /\ waitpdu' \in Seq(Pdu)
    <3>1. ASSUME NEW q \in Retain(waitpdu, {i \in DOMAIN waitpdu : waitpdu[i].req # r})
          PROVE  q \in Seq(Pdu)
      BY RetainType DEF TypeOK
    <3>2. ASSUME NEW q \in Retain(outqueue, {i \in DOMAIN outqueue : outqueue[i].req # r})
          PROVE  q \in Seq(Pdu)
      BY RetainType DEF TypeOK
    <3> QED
      BY <1>1, <3>1, <3>2 DEF CancelTask, TypeOK
  <2>3. current' \in Pdu \cup {NoPdu} /\ cmdsn' \in Serial
    BY <1>1, SNType, WindowType DEF CancelTask, FreePdu, TypeOK
  <2> QED
    BY <1>1, <2>1, <2>2, <2>3 DEF TypeOK, CancelTask, windowVars, targetVars
<1>2. ASSUME CancelAllTasks PROVE TypeOK'
  BY <1>2, CancelType DEF TypeOK, CancelAllTasks, CancelPdus, windowVars, targetVars
<1>3. ASSUME DestroyContext PROVE TypeOK'
  <2>1. results' \in [Reqs -> Seq(Statuses)]
    BY <1>0, <1>3, CompleteType DEF DestroyContext, CompleteAll
  <2>2. cmdsn' \in Serial
    BY <1>3, CmdSNWithoutType DEF DestroyContext
  <2>3. agenda' \in Seq(Frame)
    BY <1>3, FrameType DEF DestroyContext, Steps
  <2> QED
    BY <1>3, <2>1, <2>2, <2>3 DEF TypeOK, DestroyContext, windowVars, targetVars
<1> QED
  BY <1>1, <1>2, <1>3

\* The resets are typed.
LEMMA ResetType ==
  ASSUME TypeOK, NEW r \in Reqs, ResetAsync(r) \/ \E lun \in Luns : LunResetAsync(r, lun)
  PROVE  TypeOK'
<1>0. "CANCELLED" \in Statuses /\ "TMF" \in Ops
  BY DEF Statuses, Ops
<1>1. rq' \in [Reqs -> [kind : Kinds \cup {"unused"}, lun : Nat]]
  BY DEF TypeOK, ResetAsync, LunResetAsync, Kinds
<1>2. ASSUME ResetAsync(r) PROVE TypeOK'
  <2>1. NewPdu("TMF", r, CmdSNWithout(DOMAIN outqueue), 0) \in Pdu
    BY <1>0, NewPduType, CmdSNWithoutType
  <2>2. outqueue' \in Seq(Pdu) /\ agenda' \in Seq(Frame)
    <3>1. <<>> \in Seq(Pdu)
      OBVIOUS
    <3>2. \/ AddToOutqueue(<<>>, NewPdu("TMF", r, CmdSNWithout(DOMAIN outqueue), 0), agenda)
          \/ outqueue' = <<>> /\ UNCHANGED agenda
      BY <1>2 DEF ResetAsync
    <3> QED
      BY <2>1, <3>1, <3>2, AddLemma DEF TypeOK
  <2> QED
    BY <1>1, <1>2, <2>2, CancelType DEF TypeOK, ResetAsync, windowVars, targetVars
<1>3. ASSUME NEW lun \in Luns, LunResetAsync(r, lun) PROVE TypeOK'
  <2> DEFINE X == {i \in DOMAIN outqueue : /\ HasTask(outqueue[i])
                                           /\ rq[outqueue[i].req].lun = lun}
             first == {i \in X : \A j \in X : i <= j}
             s == Renumber(outqueue, X)
  <2>1. s \in Seq(Pdu) /\ DOMAIN s = DOMAIN outqueue /\ \A i \in DOMAIN outqueue : s[i] \in Pdu
    BY RenumberType DEF TypeOK
  <2>2. /\ cmdsn' = CmdSNWithout(X)
        /\ Complete({outqueue[i].req : i \in {j \in first : ~DeleteWhenSent(outqueue[j])}}, "CANCELLED")
        /\ leaked' = leaked \cup {s[i] : i \in X \ first}
        /\ \E q \in Retain(s, DOMAIN outqueue \ X) :
             \/ AddToOutqueue(q, NewPdu("TMF", r, CmdSNWithout(X), 0), agenda)
             \/ outqueue' = q /\ UNCHANGED agenda
    BY <1>3 DEF LunResetAsync
  <2> HIDE DEF s, first
  <2>3. cmdsn' \in Serial /\ NewPdu("TMF", r, CmdSNWithout(X), 0) \in Pdu
    BY <1>0, <2>2, CmdSNWithoutType, NewPduType
  <2>4. results' \in [Reqs -> Seq(Statuses)]
    BY <1>0, <2>2, CompleteType
  <2>5. leaked' \subseteq Pdu
    BY <2>1, <2>2 DEF TypeOK
  <2>6. PICK q \in Retain(s, DOMAIN outqueue \ X) :
             \/ AddToOutqueue(q, NewPdu("TMF", r, CmdSNWithout(X), 0), agenda)
             \/ outqueue' = q /\ UNCHANGED agenda
    BY <2>2
  <2>7. q \in Seq(Pdu)
    BY <2>1, <2>6, RetainType
  <2>8. outqueue' \in Seq(Pdu) /\ agenda' \in Seq(Frame)
    BY <2>3, <2>6, <2>7, AddLemma DEF TypeOK
  <2> QED
    BY <1>1, <1>3, <2>3, <2>4, <2>5, <2>8 DEF TypeOK, LunResetAsync, windowVars, targetVars
<1> QED
  BY <1>2, <1>3

\* iscsi_send_data_out queues a DATA-OUT or reads freed memory.
LEMMA DataLemma ==
  ASSUME TypeOK, SendDataOut
  PROVE  \/ \E p \in Pdu, callers \in Seq(Frame) :
              p.op = "DATA" /\ AddToOutqueue(outqueue, p, callers)
         \/ agenda' = <<Do("undefined")>> /\ UNCHANGED outqueue
<1> DEFINE f == Head(agenda)
<1>1. f \in Frame /\ Tail(agenda) \in Seq(Frame)
  BY ListType DEF SendDataOut, Doing
<1>2. ASSUME NEW p \in ToSet(outqueue) \cup ToSet(waitpdu) \cup leaked,
             AddToOutqueue(outqueue, NewPdu("DATA", f.req, p.cmdsn, f.datasn),
                           SendData(f.req, f.datasn + 1, f.left - 1) \o Tail(agenda))
      PROVE  \E d \in Pdu, callers \in Seq(Frame) :
               d.op = "DATA" /\ AddToOutqueue(outqueue, d, callers)
  <2>1. p \in Pdu
    BY ListType DEF ToSet, TypeOK
  <2>2. f.req \in Reqs /\ f.datasn \in Nat /\ f.datasn + 1 \in Nat /\ f.left - 1 \in Nat
    BY <1>1 DEF Frame, SendDataOut, Doing
  <2>3. /\ NewPdu("DATA", f.req, p.cmdsn, f.datasn) \in Pdu
        /\ NewPdu("DATA", f.req, p.cmdsn, f.datasn).op = "DATA"
    <3>1. p.cmdsn \in Serial
      BY <2>1 DEF Pdu
    <3> QED
      BY <2>2, <3>1, NewPduType DEF Ops
  <2>4. SendData(f.req, f.datasn + 1, f.left - 1) \o Tail(agenda) \in Seq(Frame)
    <3>1. SendData(f.req, f.datasn + 1, f.left - 1) \in Seq(Frame)
      BY <2>2, FrameType
    <3> QED
      BY <1>1, <3>1
  <2> QED
    BY <1>2, <2>3, <2>4
<1> QED
  BY <1>2 DEF SendDataOut

\* The rest of a call, the event loop and the write loop are typed.
LEMMA WriteType ==
  ASSUME TypeOK,
         CallbackReturns \/ SendDataOut \/ PollOut \/ Tick \/ Write
  PROVE  TypeOK'
<1>1. ASSUME CallbackReturns PROVE TypeOK'
  BY <1>1, ListType DEF TypeOK, CallbackReturns, Doing, initiatorVars, windowVars, targetVars
<1>2. ASSUME SendDataOut PROVE TypeOK'
  <2>1. outqueue' \in Seq(Pdu) /\ agenda' \in Seq(Frame)
    <3>1. CASE \E p \in Pdu, callers \in Seq(Frame) : AddToOutqueue(outqueue, p, callers)
      BY <3>1, AddLemma DEF TypeOK
    <3>2. CASE agenda' = <<Do("undefined")>> /\ UNCHANGED outqueue
      BY <3>2, FrameType DEF Steps, TypeOK
    <3> QED
      BY <1>2, <3>1, <3>2, DataLemma
  <2> QED
    BY <1>2, <2>1 DEF TypeOK, SendDataOut, windowVars, targetVars
<1>3. ASSUME PollOut \/ Tick PROVE TypeOK'
  BY <1>3, FrameType DEF TypeOK, PollOut, Tick, initiatorVars, windowVars, targetVars
<1>4. ASSUME WriteStops \/ WriteBlocks PROVE TypeOK'
  BY <1>4, ListType DEF TypeOK, WriteStops, WriteBlocks, Doing, initiatorVars, windowVars, targetVars
<1>5. ASSUME WriteStale \/ WriteError PROVE TypeOK'
  <2>1. ServiceFails(AfterService) /\ AfterService \in Seq(Frame)
    BY <1>5, ListType DEF WriteStale, WriteError
  <2> QED
    BY <1>5, <2>1, ServiceFailsType DEF TypeOK, WriteStale, WriteError, windowVars, targetVars
<1>6. ASSUME WritePop PROVE TypeOK'
  <2>1. current' \in Pdu /\ outqueue' \in Seq(Pdu) /\ waitpdu' \in Seq(Pdu)
    BY <1>6, ListType DEF WritePop, CanPop, TypeOK
  <2> QED
    BY <1>6, <2>1 DEF TypeOK, WritePop, windowVars, targetVars
<1>7. ASSUME WriteDone PROVE TypeOK'
  <2>1. current \in Pdu
    BY <1>7 DEF WriteDone, TypeOK
  <2>2. atTarget' \subseteq Reqs
    BY <1>7, <2>1 DEF WriteDone, TargetReceives, TypeOK, Pdu, DeleteWhenSent
  <2>3. tgtExp' \in Serial
    BY <1>7, SNType, WindowType DEF WriteDone, TargetReceives, TypeOK
  <2>4. owed' \in [Reqs -> Seq(Nat)]
    BY <1>7, HeadTailProperties DEF WriteDone, TargetReceives, TypeOK
  <2> QED
    BY <1>7, <2>2, <2>3, <2>4 DEF TypeOK, WriteDone, TargetReceives, windowVars, CorkWhenSent
<1> QED
  BY <1>1, <1>2, <1>3, <1>4, <1>5, <1>6, <1>7 DEF Write

\* iscsi_timeout_scan is typed.
LEMMA ScanType ==
  ASSUME TypeOK, ScanOutqueue \/ ScanWaitpdu
  PROVE  TypeOK'
<1>0. "TIMEOUT" \in Statuses /\ Do("hang") \in Frame
  BY FrameType DEF Statuses, Steps
<1>1. ASSUME ScanOutqueue PROVE TypeOK'
  <2>1. PICK X \in SUBSET {i \in DOMAIN outqueue : Expires(outqueue[i])} :
          LET first == {i \in X : \A j \in X : i <= j} IN
          /\ outqueue' \in Retain(Renumber(outqueue, X), DOMAIN outqueue \ X)
          /\ cmdsn' = CmdSNWithout(X)
          /\ Complete({outqueue[i].req : i \in first}, "TIMEOUT")
          /\ leaked' = leaked \cup {Renumber(outqueue, X)[i] : i \in X \ first}
          /\ agenda' = (IF X = {} THEN <<>> ELSE CallbackFrame) \o Tail(agenda)
    BY <1>1 DEF ScanOutqueue
  <2> DEFINE first == {i \in X : \A j \in X : i <= j}
             s == Renumber(outqueue, X)
  <2>2. X \in SUBSET DOMAIN outqueue
    OBVIOUS
  <2>3. s \in Seq(Pdu) /\ DOMAIN s = DOMAIN outqueue /\ \A i \in DOMAIN outqueue : s[i] \in Pdu
    BY <2>2, RenumberType DEF TypeOK
  <2>4. outqueue' \in Seq(Pdu)
    <3> HIDE DEF s
    <3>1. outqueue' \in Retain(s, DOMAIN outqueue \ X)
      BY <2>1 DEF s
    <3> QED
      BY <2>3, <3>1, RetainType
  <2>5. leaked' \subseteq Pdu
    <3> HIDE DEF s, first
    <3>1. leaked' = leaked \cup {s[i] : i \in X \ first}
      BY <2>1 DEF s, first
    <3> QED
      BY <2>2, <2>3, <3>1 DEF TypeOK
  <2>6. cmdsn' \in Serial
    BY <2>1, <2>2, CmdSNWithoutType
  <2>7. results' \in [Reqs -> Seq(Statuses)]
    BY <1>0, <2>1, CompleteType
  <2>8. agenda' \in Seq(Frame)
    BY <1>1, <2>1, ListType, FrameType DEF ScanOutqueue, Doing
  <2> QED
    BY <1>1, <2>4, <2>5, <2>6, <2>7, <2>8 DEF TypeOK, ScanOutqueue, windowVars, targetVars
<1>2. ASSUME ScanWaitpdu PROVE TypeOK'
  <2>1. PICK Y \in SUBSET DOMAIN waitpdu :
          LET X == {i \in Y : ~DataOutInProcess(waitpdu[i])}
              first == {i \in X : \A j \in X : i <= j}
          IN
          IF SpinLocks /\ \E i \in Y : IsWrite(waitpdu[i])
          THEN agenda' = <<Do("hang")>> /\ UNCHANGED <<waitpdu, leaked, current, results>>
          ELSE /\ waitpdu' \in Retain(waitpdu, DOMAIN waitpdu \ X)
               /\ current' = IF \E i \in first : waitpdu[i] = current THEN NoPdu ELSE current
               /\ Complete({waitpdu[i].req : i \in first}, "TIMEOUT")
               /\ leaked' = leaked \cup {waitpdu[i] : i \in X \ first}
               /\ agenda' = (IF X = {} THEN <<>> ELSE CallbackFrame) \o Tail(agenda)
    BY <1>2 DEF ScanWaitpdu
  <2> DEFINE X == {i \in Y : ~DataOutInProcess(waitpdu[i])}
             first == {i \in X : \A j \in X : i <= j}
  <2>2. CASE agenda' = <<Do("hang")>> /\ UNCHANGED <<waitpdu, leaked, current, results>>
    BY <1>0, <1>2, <2>2 DEF TypeOK, ScanWaitpdu, windowVars, targetVars
  <2>3. CASE /\ waitpdu' \in Retain(waitpdu, DOMAIN waitpdu \ X)
             /\ current' = IF \E i \in first : waitpdu[i] = current THEN NoPdu ELSE current
             /\ Complete({waitpdu[i].req : i \in first}, "TIMEOUT")
             /\ leaked' = leaked \cup {waitpdu[i] : i \in X \ first}
             /\ agenda' = (IF X = {} THEN <<>> ELSE CallbackFrame) \o Tail(agenda)
    <3> HIDE DEF X, first
    <3>1. X \subseteq DOMAIN waitpdu
      BY DEF X
    <3>2. waitpdu' \in Seq(Pdu)
      BY <2>3, RetainType DEF TypeOK
    <3>3. leaked' \subseteq Pdu
      BY <2>3, <3>1, ListType DEF TypeOK
    <3>4. results' \in [Reqs -> Seq(Statuses)]
      BY <1>0, <2>3, CompleteType
    <3>5. agenda' \in Seq(Frame)
      BY <1>2, <2>3, ListType, FrameType DEF ScanWaitpdu, Doing
    <3>6. current' \in Pdu \cup {NoPdu}
      BY <2>3 DEF TypeOK
    <3> QED
      BY <1>2, <3>2, <3>3, <3>4, <3>5, <3>6 DEF TypeOK, ScanWaitpdu, windowVars, targetVars
  <2> QED
    BY <2>1, <2>2, <2>3
<1> QED
  BY <1>1, <1>2

\* The target's PDUs up to the callback are typed.
LEMMA ReadType ==
  ASSUME TypeOK, NEW r \in Reqs, Read(r)
  PROVE  TypeOK'
<1>0. {"GOOD", "ERROR"} \subseteq Statuses /\ {"finish", "finish_reject", "fail"} \subseteq Steps \ {"data"}
  BY DEF Statuses, Steps
<1>1. expcmdsn' \in Serial /\ maxcmdsn' \in Serial
  BY SerialsType DEF Read, Reply, Reject, MalformedReply, DataIn, R2T
<1>2. ASSUME Unsolicited
      PROVE  /\ outqueue' \in Seq(Pdu) /\ waitpdu' \in Seq(Pdu) /\ leaked' \subseteq Pdu
             /\ current' \in Pdu \cup {NoPdu} /\ cmdsn' \in Serial
             /\ results' \in [Reqs -> Seq(Statuses)]
             /\ agenda' \in Seq(Frame) /\ reconnect_deferred' \in BOOLEAN
             /\ UNCHANGED <<is_corked, is_loggedin, rq, broken>>
  <2>1. ServiceFails(<<>>) /\ <<>> \in Seq(Frame)
    BY <1>2 DEF Unsolicited
  <2> QED
    BY <1>2, <2>1, ServiceFailsType DEF Unsolicited, TypeOK
<1>3. <<DoFor("finish", r)>> \in Seq(Frame) /\ <<DoFor("finish_reject", r)>> \in Seq(Frame)
      /\ <<DoFor("finish_reject", r), Do("fail")>> \in Seq(Frame)
  <2>1. DoFor("finish", r) \in Frame /\ DoFor("finish_reject", r) \in Frame /\ Do("fail") \in Frame
    BY <1>0, FrameType
  <2> QED
    BY <2>1
<1>4. ASSUME Reply(r) PROVE TypeOK'
  <2>1. CASE Unsolicited
    BY <1>1, <1>2, <1>4, <2>1 DEF TypeOK, Reply
  <2>2. CASE ~Unsolicited
    <3>1. Complete({r}, "GOOD") /\ agenda' = CallbackFrame \o <<DoFor("finish", r)>>
      BY <1>4, <2>2 DEF Reply
    <3>2. results' \in [Reqs -> Seq(Statuses)] /\ agenda' \in Seq(Frame)
      BY <1>0, <1>3, <3>1, CompleteType, FrameType
    <3> QED
      BY <1>1, <1>4, <2>2, <3>2 DEF TypeOK, Reply
  <2> QED
    BY <2>1, <2>2
<1>5. ASSUME Reject(r) PROVE TypeOK'
  <2>1. CASE Unsolicited
    BY <1>1, <1>2, <1>5, <2>1 DEF TypeOK, Reject
  <2>2. CASE ~Unsolicited
    <3>1. Complete({r}, "ERROR") /\ agenda' = CallbackFrame \o <<DoFor("finish_reject", r)>>
      BY <1>5, <2>2 DEF Reject
    <3>2. results' \in [Reqs -> Seq(Statuses)] /\ agenda' \in Seq(Frame)
      BY <1>0, <1>3, <3>1, CompleteType, FrameType
    <3> QED
      BY <1>1, <1>5, <2>2, <3>2 DEF TypeOK, Reject
  <2> QED
    BY <2>1, <2>2
<1>6. ASSUME MalformedReply(r) PROVE TypeOK'
  <2>1. CASE Unsolicited
    BY <1>1, <1>2, <1>6, <2>1 DEF TypeOK, MalformedReply
  <2>2. CASE ~Unsolicited
    <3>1. /\ Complete({r}, "ERROR")
          /\ agenda' = CallbackFrame \o <<DoFor("finish_reject", r), Do("fail")>>
      BY <1>6, <2>2 DEF MalformedReply
    <3>2. results' \in [Reqs -> Seq(Statuses)] /\ agenda' \in Seq(Frame)
      BY <1>0, <1>3, <3>1, CompleteType, FrameType
    <3> QED
      BY <1>1, <1>6, <2>2, <3>2 DEF TypeOK, MalformedReply
  <2> QED
    BY <2>1, <2>2
<1>7. ASSUME DataIn(r) PROVE TypeOK'
  <2>1. CASE Unsolicited
    BY <1>1, <1>2, <1>7, <2>1 DEF TypeOK, DataIn, targetVars
  <2>2. CASE ~Unsolicited
    BY <1>1, <1>7, <2>2 DEF TypeOK, DataIn, targetVars, initiatorVars
  <2> QED
    BY <2>1, <2>2
<1>8. ASSUME R2T(r) PROVE TypeOK'
  <2>1. PICK n \in 1 .. MaxData :
          /\ owed' = [owed EXCEPT ![r] = DataSNs(n)]
          /\ \/ agenda' = SendData(r, 0, n) /\ UNCHANGED <<initiatorVars, broken>>
             \/ Unsolicited
    BY <1>8 DEF R2T
  <2>2. n \in Nat
    BY ConstantsAssumption
  <2>3. DataSNs(n) \in Seq(Nat)
    BY <2>2, IsASeq DEF DataSNs
  <2>4. owed' \in [Reqs -> Seq(Nat)]
    BY <2>1, <2>3 DEF TypeOK
  <2>5. r2ts' \in [Reqs -> Nat] /\ UNCHANGED <<atTarget, tgtExp, pings>>
    BY <1>8 DEF TypeOK, R2T
  <2>6. SendData(r, 0, n) \in Seq(Frame)
    BY <2>2, FrameType
  <2>7. CASE Unsolicited
    BY <1>1, <1>2, <2>4, <2>5, <2>7 DEF TypeOK
  <2>8. CASE agenda' = SendData(r, 0, n) /\ UNCHANGED <<initiatorVars, broken>>
    BY <1>1, <2>4, <2>5, <2>6, <2>8 DEF TypeOK, initiatorVars
  <2> QED
    BY <2>1, <2>7, <2>8
<1> QED
  BY <1>4, <1>5, <1>6, <1>7, <1>8 DEF Read

\* What follows a callback, the other PDUs of the target and errors are typed.
LEMMA FinishType ==
  ASSUME TypeOK, FinishPdu \/ FinishReject \/ FailRead \/ TargetNopIn \/ TargetPing \/ ReadError
  PROVE  TypeOK'
<1>1. ASSUME FinishPdu \/ FinishReject PROVE TypeOK'
  <2> DEFINE r == Head(agenda).req
  <2>1. agenda' \in Seq(Frame)
    BY <1>1, ListType, FrameType DEF FinishPdu, FinishReject, Doing, Steps
  <2>2. ASSUME NEW q \in Retain(waitpdu, {i \in DOMAIN waitpdu : waitpdu[i].req # r})
        PROVE  q \in Seq(Pdu)
    BY RetainType DEF TypeOK
  <2>3. waitpdu' \in Seq(Pdu) /\ current' \in Pdu \cup {NoPdu}
    BY <1>1, <2>2 DEF FinishPdu, FinishReject, FreePdu, TypeOK
  <2> QED
    BY <1>1, <2>1, <2>3 DEF TypeOK, FinishPdu, FinishReject, windowVars, targetVars
<1>2. ASSUME FailRead \/ ReadError PROVE TypeOK'
  <2>1. ServiceFails(<<>>) /\ <<>> \in Seq(Frame)
    BY <1>2 DEF FailRead, ReadError, Unsolicited
  <2> QED
    BY <1>2, <2>1, ServiceFailsType DEF TypeOK, FailRead, ReadError, Unsolicited, windowVars, targetVars
<1>3. ASSUME TargetNopIn PROVE TypeOK'
  BY <1>3, SerialsType DEF TypeOK, TargetNopIn, initiatorVars, targetVars
<1>4. ASSUME TargetPing PROVE TypeOK'
  <2>1. AddToOutqueue(outqueue, NewPdu("PONG", NoReq, cmdsn, 0), <<>>) /\ <<>> \in Seq(Frame)
    BY <1>4 DEF TargetPing
  <2>2. NewPdu("PONG", NoReq, cmdsn, 0) \in Pdu
    BY NewPduType DEF TypeOK, Ops
  <2>3. outqueue' \in Seq(Pdu) /\ agenda' \in Seq(Frame)
    BY <2>1, <2>2, AddLemma DEF TypeOK
  <2>4. expcmdsn' \in Serial /\ maxcmdsn' \in Serial
    BY <1>4, SerialsType DEF TargetPing
  <2> QED
    BY <1>4, <2>3, <2>4 DEF TypeOK, TargetPing
<1> QED
  BY <1>1, <1>2, <1>3, <1>4

\* Every step keeps the types.
LEMMA NextType == TypeOK /\ [Next]_vars => TypeOK'
<1> SUFFICES ASSUME TypeOK, [Next]_vars PROVE TypeOK'
  OBVIOUS
<1>1. CASE UNCHANGED vars
  BY <1>1 DEF TypeOK, vars, initiatorVars, windowVars, targetVars
<1>2. ASSUME NEW r \in Reqs, AppCall(r) PROVE TypeOK'
  BY <1>2, CommandType, QueueingType, CancellationType, ResetType DEF AppCall
<1>3. ASSUME NEW r \in Reqs, Read(r) PROVE TypeOK'
  BY <1>3, ReadType
<1>4. CASE CancelAllTasks \/ DestroyContext
  BY <1>4, CancellationType
<1>5. CASE CallbackReturns \/ SendDataOut \/ PollOut \/ Tick \/ Write
  BY <1>5, WriteType
<1>6. CASE ScanOutqueue \/ ScanWaitpdu
  BY <1>6, ScanType
<1>7. CASE FinishPdu \/ FinishReject \/ FailRead \/ TargetNopIn \/ TargetPing \/ ReadError
  BY <1>7, FinishType
<1>8. CASE Destroyed
  BY <1>8, <1>1 DEF Destroyed
<1> QED
  BY <1>1, <1>2, <1>3, <1>4, <1>5, <1>6, <1>7, <1>8 DEF Next

\* The lists hold PDUs, the counters are uint32_t, the call stack and the
\* recorded callbacks are well formed, whatever the application, the target
\* and the connection do.
THEOREM TypesCorrect == Spec => []TypeOK
BY InitType, NextType, PTL DEF Spec

-----------------------------------------------------------------------------
(* The promise of the asynchronous API, for an application whose callbacks *)
(* make no library calls: every request is completed at most once, its PDU *)
(* has one owner, and PduQueue implements TaskService.  The hypothesis on  *)
(* the callbacks is needed: a callback that cancels all tasks is invoked   *)
(* again, because its own PDU is still in waitpdu (lib/pdu.c:758).         *)

\* The inductive invariant.
Inv == TypeOK /\ OneOwner /\ AtMostOnce

\* A step as the application sees it: the requests of S are submitted,
\* those of R get the callback with the given status.
Promise(S, R, status) ==
  /\ S \subseteq Reqs /\ R \subseteq Reqs /\ status \in Statuses
  /\ \A r \in S : rq[r].kind = "unused"
  /\ \A r \in R : rq[r].kind # "unused" /\ results[r] = <<>>
  /\ \A r \in Reqs : rq'[r].kind = "unused" <=> rq[r].kind = "unused" /\ r \notin S
  /\ \A r \in Reqs : results'[r] = IF r \in R THEN Append(results[r], status) ELSE results[r]

\* The same step in the two lists: a PDU of a request moves from outqueue to
\* waitpdu and out of it, new ones are those of S, and those of R are gone
\* or about to be unlinked.
Lists(S, R) ==
  /\ SingleOwner(outqueue)' /\ SingleOwner(waitpdu)'
  /\ \A i \in DOMAIN waitpdu' : ~DeleteWhenSent(waitpdu'[i])
  /\ Owners(outqueue)' \cap Owners(waitpdu)' = {}
  /\ Owners(outqueue)' \subseteq (Owners(outqueue) \ R) \cup S
  /\ \A r \in Owners(waitpdu)' :
       /\ r \in Owners(waitpdu) \cup Owners(outqueue)
       /\ (results[r] = <<>> /\ r \notin R) \/ Finishing(r)'

\* The old state, step by step, is all that the next one needs.
LEMMA StepLemma ==
  ASSUME Inv, NEW S, NEW R, NEW status, Promise(S, R, status), Lists(S, R)
  PROVE  OneOwner' /\ AtMostOnce'
<1>1. \A r \in S : results[r] = <<>>
  BY DEF Inv, OneOwner, Promise
<1>2. S \cap R = {}
  BY DEF Promise
<1>3. \A r \in Owners(outqueue)' : r \in Reqs /\ rq'[r].kind # "unused" /\ results'[r] = <<>>
  BY <1>1, <1>2 DEF Inv, OneOwner, Promise, Lists
<1>4. \A r \in Owners(waitpdu)' :
        r \in Reqs /\ rq'[r].kind # "unused" /\ (results'[r] = <<>> \/ Finishing(r)')
  BY <1>2 DEF Inv, OneOwner, Promise, Lists
<1>5. \A r \in Reqs : rq'[r].kind = "unused" => results'[r] = <<>>
  BY DEF Inv, OneOwner, Promise
<1>6. OneOwner'
  BY <1>3, <1>4, <1>5 DEF OneOwner, Lists
<1>7. AtMostOnce'
  <2> SUFFICES ASSUME NEW r \in Reqs PROVE Len(results'[r]) <= 1
    BY DEF AtMostOnce
  <2>1. CASE r \in R
    <3>1. results'[r] = Append(<<>>, status) /\ status \in Statuses
      BY <2>1 DEF Promise
    <3> QED
      BY <3>1
  <2>2. CASE r \notin R
    BY <2>2 DEF Promise, Inv, AtMostOnce
  <2> QED
    BY <2>1, <2>2
<1> QED
  BY <1>6, <1>7

\* The outcome of a request that was completed once.
LEMMA OutcomeLemma ==
  ASSUME Inv, NEW S, NEW R, NEW status, Promise(S, R, status)
  PROVE  Service!Next
<1>0. S \in SUBSET Reqs /\ R \in SUBSET Reqs /\ status \in Statuses
  BY DEF Promise
<1>1. \A r \in S : Outcome(r) = "idle" /\ Outcome(r)' = "pending"
  <2> SUFFICES ASSUME NEW r \in S PROVE Outcome(r) = "idle" /\ Outcome(r)' = "pending"
    OBVIOUS
  <2>1. r \in Reqs /\ rq[r].kind = "unused" /\ rq'[r].kind # "unused" /\ r \notin R
    BY DEF Promise
  <2>2. results'[r] = <<>>
    BY <2>1 DEF Inv, OneOwner, Promise
  <2> QED
    BY <2>1, <2>2 DEF Outcome
<1>2. \A r \in R : Outcome(r) = "pending" /\ Outcome(r)' = status /\ r \notin S
  <2> SUFFICES ASSUME NEW r \in R PROVE Outcome(r) = "pending" /\ Outcome(r)' = status /\ r \notin S
    OBVIOUS
  <2>1. /\ r \in Reqs /\ rq[r].kind # "unused" /\ rq'[r].kind # "unused"
        /\ results[r] = <<>> /\ r \notin S
    BY DEF Promise
  <2>2. results'[r] = Append(<<>>, status)
    BY <2>1 DEF Promise
  <2>3. results'[r] # <<>> /\ Len(results'[r]) = 1 /\ results'[r][1] = status
    BY <1>0, <2>2
  <2> QED
    BY <2>1, <2>3 DEF Outcome
<1>3. \A r \in Reqs : r \notin S /\ r \notin R => Outcome(r)' = Outcome(r)
  BY DEF Promise, Outcome
<1>4. Service!Step(S, R, status)
  BY <1>0, <1>1, <1>2, <1>3 DEF Service!Step
<1> QED
  BY <1>0, <1>4 DEF Service!Next

-----------------------------------------------------------------------------
(* The actions. *)

\* Some requests are submitted and some completed, and the lists follow.
Kept ==
  \E S, R \in SUBSET Reqs, status \in Statuses : Promise(S, R, status) /\ Lists(S, R)

\* No PDU waits to be unlinked after its callback.
Settled == agenda = <<>> \/ Head(agenda).do \notin {"finish", "finish_reject"}

\* The requests of S are submitted, the status is reported to those of R.
Reports(S, R, status) ==
  /\ \A r \in S : rq[r].kind = "unused"
  /\ \A r \in Reqs : rq'[r].kind = "unused" <=> rq[r].kind = "unused" /\ r \notin S
  /\ \A r \in Reqs : results'[r] = IF r \in R THEN Append(results[r], status) ELSE results[r]

\* The PDUs of R leave the lists and only those of S come in.
WaitShrinks(R) ==
  /\ SingleOwner(waitpdu)'
  /\ \A i \in DOMAIN waitpdu' : ~DeleteWhenSent(waitpdu'[i])
  /\ Owners(waitpdu)' \subseteq Owners(waitpdu) \ R

OutChanges(S, R) ==
  /\ SingleOwner(outqueue)'
  /\ Owners(outqueue)' \subseteq (Owners(outqueue) \ R) \cup S

\* Such a step keeps the promise.
LEMMA KeptLemma ==
  ASSUME Inv, Settled,
         NEW S \in SUBSET Reqs, NEW R \in SUBSET (Owners(outqueue) \cup Owners(waitpdu)),
         NEW status \in Statuses,
         Reports(S, R, status), WaitShrinks(R), OutChanges(S, R)
  PROVE  Kept
<1>1. \A r \in Owners(outqueue) \cup Owners(waitpdu) :
        r \in Reqs /\ rq[r].kind # "unused" /\ results[r] = <<>>
  BY DEF Inv, OneOwner, Settled, Finishing
<1>2. Promise(S, R, status)
  BY <1>1 DEF Promise, Reports
<1>3. Owners(outqueue)' \cap Owners(waitpdu)' = {}
  BY <1>1 DEF Inv, OneOwner, Reports, WaitShrinks, OutChanges
<1>4. Lists(S, R)
  BY <1>1, <1>3 DEF Lists, WaitShrinks, OutChanges
<1>5. R \in SUBSET Reqs
  BY <1>1
<1> QED
  BY <1>2, <1>4, <1>5 DEF Kept

\* Lists that do not change.
LEMMA SameLists ==
  ASSUME Inv
  PROVE  /\ UNCHANGED waitpdu => WaitShrinks({})
         /\ UNCHANGED outqueue => OutChanges({}, {})
         /\ \A R : UNCHANGED waitpdu /\ R \cap Owners(waitpdu) = {} => WaitShrinks(R)
         /\ \A R : UNCHANGED outqueue /\ R \cap Owners(outqueue) = {} => OutChanges({}, R)
         /\ \A R : waitpdu' = <<>> => WaitShrinks(R)
         /\ \A R : outqueue' = <<>> => OutChanges({}, R)
BY DEF Inv, OneOwner, SingleOwner, Owners, WaitShrinks, OutChanges

\* A step that leaves the lists and the callbacks alone.
LEMMA QuietLemma ==
  ASSUME Inv, Settled, UNCHANGED <<outqueue, waitpdu, rq, results>>
  PROVE  Kept
<1>1. "GOOD" \in Statuses
  BY DEF Statuses
<1>2. WaitShrinks({}) /\ OutChanges({}, {})
  BY SameLists
<1>3. {} \in SUBSET Reqs /\ {} \in SUBSET (Owners(outqueue) \cup Owners(waitpdu))
  OBVIOUS
<1>4. Reports({}, {}, "GOOD")
  BY DEF Reports
<1> QED
  BY <1>1, <1>2, <1>3, <1>4, KeptLemma

\* iscsi_add_to_outqueue for a new request, after R was completed and
\* taken out of the lists.
LEMMA SubmitLemma ==
  ASSUME Inv, NEW r \in Reqs, rq[r].kind = "unused",
         NEW R, NEW q \in Seq(Pdu), SingleOwner(q), Owners(q) \subseteq Owners(outqueue) \ R,
         NEW p \in Pdu, p.req = r, NEW callers \in Seq(Frame), AddToOutqueue(q, p, callers)
  PROVE  OutChanges({r}, R)
<1>1. r \notin Owners(outqueue)
  BY DEF Inv, OneOwner
<1>2. OwnerOf(p) \subseteq {r} /\ OwnerOf(p) \cap Owners(q) = {}
  BY <1>1 DEF OwnerOf
<1>3. Owners(outqueue)' = Owners(q) \cup OwnerOf(p) /\ SingleOwner(outqueue)'
  <2>1. /\ Owners(outqueue') = Owners(q) \cup OwnerOf(p)
        /\ SingleOwner(outqueue')
    BY <1>2, AddLemma
  <2> QED
    BY <2>1 DEF Owners, SingleOwner
<1> QED
  BY <1>2, <1>3 DEF OutChanges

\* With callbacks that make no calls the application runs only between two
\* service calls.
LEMMA CallLemma ==
  ASSUME CallbackCalls = {}, NEW c, MayCall(c)
  PROVE  agenda = <<>> /\ Settled
BY DEF MayCall, Settled

\* iscsi_scsi_command_async and the calls that queue one PDU.
LEMMA QueueingKept ==
  ASSUME Inv, CallbackCalls = {}, NEW r \in Reqs,
         \/ \E kind \in ScsiKinds, lun \in Luns : CommandAsync(r, kind, lun)
         \/ NopOutAsync(r) \/ (\E t \in Reqs : AbortTaskAsync(r, t)) \/ LogoutAsync(r)
  PROVE  Kept
<1>1. /\ rq[r].kind = "unused" /\ UNCHANGED <<waitpdu, results>>
      /\ \E c : MayCall(c)
  BY DEF CommandAsync, NopOutAsync, AbortTaskAsync, LogoutAsync
<1>2. Settled
  BY <1>1, CallLemma
<1>3. TypeOK /\ cmdsn \in Serial /\ outqueue \in Seq(Pdu) /\ agenda \in Seq(Frame)
  BY DEF Inv, TypeOK
<1>4. \E op \in Ops \ {"PONG"}, callers \in Seq(Frame) :
        AddToOutqueue(outqueue, NewPdu(op, r, cmdsn, 0), callers)
  <2>1. ASSUME NEW kind \in ScsiKinds, NEW lun \in Luns, CommandAsync(r, kind, lun)
        PROVE  \E callers \in Seq(Frame) :
                 AddToOutqueue(outqueue, NewPdu("SCSI", r, cmdsn, 0), callers)
    <3>1. PICK n \in (IF kind = "read" THEN {0} ELSE 0 .. MaxUnsolicited) :
            AddToOutqueue(outqueue, NewPdu("SCSI", r, cmdsn, 0), SendData(r, 0, n) \o agenda)
      BY <2>1 DEF CommandAsync
    <3>2. n \in Nat
      BY ConstantsAssumption
    <3>3. SendData(r, 0, n) \o agenda \in Seq(Frame)
      BY <1>3, <3>2, FrameType
    <3> QED
      BY <3>1, <3>3
  <2> QED
    BY <1>3, <2>1 DEF NopOutAsync, AbortTaskAsync, LogoutAsync, Ops
<1>5. PICK op \in Ops \ {"PONG"}, callers \in Seq(Frame) :
        AddToOutqueue(outqueue, NewPdu(op, r, cmdsn, 0), callers)
  BY <1>4
<1>6. NewPdu(op, r, cmdsn, 0) \in Pdu /\ NewPdu(op, r, cmdsn, 0).req = r
  BY <1>3, NewPduType
<1>7. OutChanges({r}, {})
  <2>1. SingleOwner(outqueue) /\ Owners(outqueue) \subseteq Owners(outqueue) \ {}
    BY DEF Inv, OneOwner
  <2> QED
    BY <1>1, <1>3, <1>5, <1>6, <2>1, SubmitLemma
<1>8. Reports({r}, {}, "GOOD")
  <2>1. rq'[r].kind # "unused" /\ \A t \in Reqs \ {r} : rq'[t].kind = rq[t].kind
    BY <1>3 DEF CommandAsync, NopOutAsync, AbortTaskAsync, LogoutAsync, ScsiKinds, TypeOK
  <2> QED
    BY <1>1, <2>1 DEF Reports
<1>9. WaitShrinks({}) /\ "GOOD" \in Statuses
  BY <1>1, SameLists DEF Statuses
<1>10. {r} \in SUBSET Reqs /\ {} \in SUBSET (Owners(outqueue) \cup Owners(waitpdu))
  OBVIOUS
<1> QED
  BY <1>2, <1>7, <1>8, <1>9, <1>10, KeptLemma

\* The callbacks of a step that submits nothing.
LEMMA CompleteReports ==
  ASSUME TypeOK, NEW R, NEW status \in Statuses, Complete(R, status), UNCHANGED rq
  PROVE  Reports({}, R, status)
BY CompleteType DEF Reports

\* iscsi_cancel_pdus.
LEMMA CancelKept ==
  ASSUME Inv, Settled, CancelPdus, UNCHANGED rq
  PROVE  Kept
<1> DEFINE R == Owners(outqueue) \cup Owners(waitpdu)
<1>1. Reports({}, R, "CANCELLED")
  BY CompleteReports DEF Inv, CancelPdus, CancelWaiting, CompleteAll, Statuses
<1> HIDE DEF R
<1>2. WaitShrinks(R) /\ OutChanges({}, R)
  BY SameLists DEF CancelPdus, CancelWaiting
<1>3. "CANCELLED" \in Statuses /\ {} \in SUBSET Reqs
      /\ R \in SUBSET (Owners(outqueue) \cup Owners(waitpdu))
  BY DEF Statuses, R
<1> QED
  BY <1>1, <1>2, <1>3, KeptLemma

\* A service call that fails.
LEMMA ServiceFailsKept ==
  ASSUME Inv, Settled, NEW callers, ServiceFails(callers), UNCHANGED rq
  PROVE  Kept
BY CancelKept, QuietLemma DEF ServiceFails

\* PDUs taken out of waitpdu.
LEMMA WaitRemoval ==
  ASSUME Inv, NEW I \in SUBSET DOMAIN waitpdu, waitpdu' \in Retain(waitpdu, I),
         NEW R, \A i \in I : waitpdu[i].req \notin R
  PROVE  WaitShrinks(R)
<1>1. waitpdu \in Seq(Pdu) /\ SingleOwner(waitpdu)
      /\ \A i \in DOMAIN waitpdu : ~DeleteWhenSent(waitpdu[i])
  BY DEF Inv, TypeOK, OneOwner
<1> DEFINE q == waitpdu'
<1>2. q \in Retain(waitpdu, I)
  OBVIOUS
<1> HIDE DEF q
<1>3. /\ Owners(q) = {waitpdu[i].req : i \in {j \in I : ~DeleteWhenSent(waitpdu[j])}}
      /\ SingleOwner(q) /\ \A k \in DOMAIN q : ~DeleteWhenSent(q[k])
  BY <1>1, <1>2, RetainOwners
<1>4. Owners(q) \subseteq Owners(waitpdu) \ R
  BY <1>3 DEF Owners
<1>5. Owners(waitpdu)' = Owners(q) /\ SingleOwner(waitpdu)' = SingleOwner(q)
  BY DEF q, Owners, SingleOwner
<1> QED
  BY <1>3, <1>4, <1>5 DEF WaitShrinks, q

\* PDUs taken out of the outqueue, the others renumbered.
LEMMA OutRemoval ==
  ASSUME Inv, NEW X \in SUBSET DOMAIN outqueue, NEW I \in SUBSET DOMAIN outqueue,
         NEW q, q \in Retain(outqueue, I) \/ q \in Retain(Renumber(outqueue, X), I),
         NEW R, \A i \in I : ~DeleteWhenSent(outqueue[i]) => outqueue[i].req \notin R
  PROVE  q \in Seq(Pdu) /\ SingleOwner(q) /\ Owners(q) \subseteq Owners(outqueue) \ R
<1> DEFINE t == Renumber(outqueue, X)
<1> HIDE DEF t
<1>1. outqueue \in Seq(Pdu) /\ SingleOwner(outqueue)
  BY DEF Inv, TypeOK, OneOwner
<1>2. /\ t \in Seq(Pdu) /\ DOMAIN t = DOMAIN outqueue
      /\ \A i \in DOMAIN outqueue : t[i].req = outqueue[i].req
      /\ \A i \in DOMAIN outqueue : DeleteWhenSent(t[i]) <=> DeleteWhenSent(outqueue[i])
      /\ SingleOwner(t)
  BY <1>1, RenumberType, RenumberOwners DEF t
<1>3. CASE q \in Retain(outqueue, I)
  <2>1. /\ q \in Seq(Pdu) /\ SingleOwner(q)
        /\ Owners(q) = {outqueue[i].req : i \in {j \in I : ~DeleteWhenSent(outqueue[j])}}
    BY <1>1, <1>3, RetainType, RetainOwners
  <2> QED
    BY <2>1 DEF Owners
<1>4. CASE q \in Retain(t, I)
  <2>1. /\ q \in Seq(Pdu) /\ SingleOwner(q)
        /\ Owners(q) = {t[i].req : i \in {j \in I : ~DeleteWhenSent(t[j])}}
    BY <1>2, <1>4, RetainType, RetainOwners
  <2> QED
    BY <1>2, <2>1 DEF Owners
<1> QED
  BY <1>3, <1>4 DEF t

\* A list that lost PDUs is the outqueue of the next state.
LEMMA OutBecomes ==
  ASSUME NEW R, NEW q, outqueue' = q, SingleOwner(q), Owners(q) \subseteq Owners(outqueue) \ R
  PROVE  OutChanges({}, R)
BY DEF OutChanges, Owners, SingleOwner

\* iscsi_scsi_cancel_task, iscsi_scsi_cancel_all_tasks and
\* iscsi_destroy_context.
LEMMA CancellationKept ==
  ASSUME Inv, CallbackCalls = {},
         (\E r \in Reqs : CancelTask(r)) \/ CancelAllTasks \/ DestroyContext
  PROVE  Kept
<1>0. "CANCELLED" \in Statuses /\ {} \in SUBSET Reqs
  BY DEF Statuses
<1>1. ASSUME NEW r \in Reqs, CancelTask(r) PROVE Kept
  <2>1. Settled
    BY <1>1, CallLemma DEF CancelTask
  <2>2. Reports({}, {r}, "CANCELLED")
    BY <1>0, <1>1, CompleteReports DEF CancelTask, Inv
  <2>3. {r} \in SUBSET (Owners(outqueue) \cup Owners(waitpdu))
    BY <1>1 DEF CancelTask
  <2>4. WaitShrinks({r}) /\ OutChanges({}, {r})
    <3>1. CASE /\ r \in Owners(waitpdu) /\ UNCHANGED outqueue
               /\ waitpdu' \in Retain(waitpdu, {i \in DOMAIN waitpdu : waitpdu[i].req # r})
      <4>1. WaitShrinks({r})
        BY <3>1, WaitRemoval
      <4>2. {r} \cap Owners(outqueue) = {}
        BY <3>1 DEF Inv, OneOwner
      <4> QED
        BY <3>1, <4>1, <4>2, SameLists
    <3>2. CASE /\ r \in Owners(outqueue) \ Owners(waitpdu) /\ UNCHANGED waitpdu
               /\ outqueue' \in Retain(outqueue, {i \in DOMAIN outqueue : outqueue[i].req # r})
      <4>1. PICK q : q = outqueue'
        OBVIOUS
      <4>2. SingleOwner(q) /\ Owners(q) \subseteq Owners(outqueue) \ {r}
        <5> DEFINE I == {i \in DOMAIN outqueue : outqueue[i].req # r}
                   X == {}
                   R == {r}
        <5>1. /\ I \in SUBSET DOMAIN outqueue /\ X \in SUBSET DOMAIN outqueue
              /\ q \in Retain(outqueue, I) \/ q \in Retain(Renumber(outqueue, X), I)
              /\ \A i \in I : ~DeleteWhenSent(outqueue[i]) => outqueue[i].req \notin R
          BY <3>2, <4>1
        <5> HIDE DEF I, X, R
        <5>2. SingleOwner(q) /\ Owners(q) \subseteq Owners(outqueue) \ R
          BY <5>1, OutRemoval
        <5> QED
          BY <5>2 DEF R
      <4>3. {r} \cap Owners(waitpdu) = {}
        BY <3>2
      <4> QED
        BY <3>2, <4>1, <4>2, <4>3, SameLists, OutBecomes
    <3> QED
      BY <1>1, <3>1, <3>2 DEF CancelTask
  <2> QED
    BY <1>0, <2>1, <2>2, <2>3, <2>4, KeptLemma
<1>2. ASSUME CancelAllTasks PROVE Kept
  BY <1>2, CallLemma, CancelKept DEF CancelAllTasks
<1>3. ASSUME DestroyContext PROVE Kept
  <2> DEFINE R == Owners(outqueue) \cup Owners(waitpdu)
  <2>1. Reports({}, R, "CANCELLED")
    BY <1>0, <1>3, CompleteReports DEF DestroyContext, CompleteAll, Inv
  <2> HIDE DEF R
  <2>2. WaitShrinks(R) /\ OutChanges({}, R)
    BY <1>3, SameLists DEF DestroyContext
  <2>3. Settled /\ R \in SUBSET (Owners(outqueue) \cup Owners(waitpdu))
    BY <1>3 DEF DestroyContext, Settled, R
  <2> QED
    BY <1>0, <2>1, <2>2, <2>3, KeptLemma
<1> QED
  BY <1>1, <1>2, <1>3

\* The resets: the tasks are cancelled and the request is queued.
LEMMA ResetKept ==
  ASSUME Inv, CallbackCalls = {}, NEW r \in Reqs,
         ResetAsync(r) \/ \E lun \in Luns : LunResetAsync(r, lun)
  PROVE  Kept
<1>0. "CANCELLED" \in Statuses /\ {} \in SUBSET Reqs /\ {r} \in SUBSET Reqs /\ "TMF" \in Ops
  BY DEF Statuses, Ops
<1>1. Settled /\ rq[r].kind = "unused" /\ TypeOK /\ agenda \in Seq(Frame)
  BY CallLemma DEF ResetAsync, LunResetAsync, Inv, TypeOK
<1>2. \/ is_loggedin /\ rq' = [rq EXCEPT ![r].kind = "tmf"]
      \/ ~is_loggedin /\ UNCHANGED rq
  BY DEF ResetAsync, LunResetAsync
<1>3. ASSUME NEW R, Complete(R, "CANCELLED")
      PROVE  Reports(IF is_loggedin THEN {r} ELSE {}, R, "CANCELLED")
  <2>1. \A t \in Reqs : results'[t] = IF t \in R THEN Append(results[t], "CANCELLED") ELSE results[t]
    BY <1>0, <1>1, <1>3, CompleteType
  <2>2. CASE is_loggedin
    <3>1. rq'[r].kind = "tmf" /\ \A t \in Reqs \ {r} : rq'[t] = rq[t]
      BY <1>1, <1>2, <2>2 DEF TypeOK
    <3> QED
      BY <1>1, <2>1, <2>2, <3>1 DEF Reports
  <2>3. CASE ~is_loggedin
    BY <1>2, <2>1, <2>3 DEF Reports
  <2> QED
    BY <2>2, <2>3
<1>4. ASSUME NEW R \in SUBSET (Owners(outqueue) \cup Owners(waitpdu)), WaitShrinks(R),
             Complete(R, "CANCELLED"), NEW sn \in Serial,
             NEW q \in Seq(Pdu), SingleOwner(q), Owners(q) \subseteq Owners(outqueue) \ R,
             \/ is_loggedin /\ AddToOutqueue(q, NewPdu("TMF", r, sn, 0), agenda)
             \/ ~is_loggedin /\ outqueue' = q
      PROVE  Kept
  <2>1. CASE is_loggedin
    <3>1. NewPdu("TMF", r, sn, 0) \in Pdu /\ NewPdu("TMF", r, sn, 0).req = r
      BY <1>0, NewPduType
    <3>2. OutChanges({r}, R)
      BY <1>1, <1>4, <2>1, <3>1, SubmitLemma
    <3>3. Reports({r}, R, "CANCELLED")
      BY <1>3, <1>4, <2>1
    <3> QED
      BY <1>0, <1>1, <1>4, <3>2, <3>3, KeptLemma
  <2>2. CASE ~is_loggedin
    <3>1. OutChanges({}, R)
      BY <1>4, <2>2, OutBecomes
    <3>2. Reports({}, R, "CANCELLED")
      BY <1>3, <1>4, <2>2
    <3> QED
      BY <1>0, <1>1, <1>4, <3>1, <3>2, KeptLemma
  <2> QED
    BY <2>1, <2>2
<1>5. ASSUME ResetAsync(r) PROVE Kept
  <2> DEFINE R == Owners(outqueue) \cup Owners(waitpdu)
             sn == CmdSNWithout(DOMAIN outqueue)
             q == <<>>
  <2>1. /\ Complete(R, "CANCELLED") /\ waitpdu' = <<>>
        /\ \/ is_loggedin /\ AddToOutqueue(q, NewPdu("TMF", r, sn, 0), agenda)
           \/ ~is_loggedin /\ outqueue' = q
    BY <1>5 DEF ResetAsync, CancelWaiting, CompleteAll
  <2>2. R \in SUBSET (Owners(outqueue) \cup Owners(waitpdu)) /\ sn \in Serial
    BY <1>1, CmdSNWithoutType
  <2>3. q \in Seq(Pdu) /\ SingleOwner(q) /\ Owners(q) \subseteq Owners(outqueue) \ R
    BY DEF SingleOwner, Owners
  <2> HIDE DEF R, sn, q
  <2>4. WaitShrinks(R)
    BY <2>1, SameLists
  <2> QED
    BY <2>1, <2>2, <2>3, <2>4, <1>4
<1>6. ASSUME NEW lun \in Luns, LunResetAsync(r, lun) PROVE Kept
  <2> DEFINE X == {i \in DOMAIN outqueue : /\ HasTask(outqueue[i])
                                           /\ rq[outqueue[i].req].lun = lun}
             first == {i \in X : \A j \in X : i <= j}
             R == {outqueue[i].req : i \in {j \in first : ~DeleteWhenSent(outqueue[j])}}
             I == DOMAIN outqueue \ X
             sn == CmdSNWithout(X)
  <2>1. /\ Complete(R, "CANCELLED") /\ UNCHANGED waitpdu
        /\ \E q \in Retain(Renumber(outqueue, X), I) :
             \/ is_loggedin /\ AddToOutqueue(q, NewPdu("TMF", r, sn, 0), agenda)
             \/ ~is_loggedin /\ outqueue' = q
    BY <1>6 DEF LunResetAsync
  <2>2. X \in SUBSET DOMAIN outqueue /\ first \subseteq X
    OBVIOUS
  <2> HIDE DEF X, first
  <2>3. R \subseteq Owners(outqueue) /\ R \cap Owners(waitpdu) = {}
    BY <2>2 DEF Inv, OneOwner, Owners
  <2>4. \A i \in I : ~DeleteWhenSent(outqueue[i]) => outqueue[i].req \notin R
    BY <2>2 DEF Inv, OneOwner, SingleOwner
  <2>5. I \in SUBSET DOMAIN outqueue
    OBVIOUS
  <2>6. sn \in Serial
    BY <1>1, <2>2, CmdSNWithoutType
  <2> HIDE DEF R, I, sn
  <2>7. PICK q \in Retain(Renumber(outqueue, X), I) :
             \/ is_loggedin /\ AddToOutqueue(q, NewPdu("TMF", r, sn, 0), agenda)
             \/ ~is_loggedin /\ outqueue' = q
    BY <2>1
  <2>8. q \in Seq(Pdu) /\ SingleOwner(q) /\ Owners(q) \subseteq Owners(outqueue) \ R
    BY <2>2, <2>4, <2>5, <2>7, OutRemoval
  <2>9. WaitShrinks(R)
    BY <2>1, <2>3, SameLists
  <2> QED
    BY <2>1, <2>3, <2>6, <2>7, <2>8, <2>9, <1>4
<1> QED
  BY <1>5, <1>6

\* A DATA-OUT or a PONG is nobody's PDU.
LEMMA NobodysPdu ==
  ASSUME Inv, NEW p \in Pdu, DeleteWhenSent(p), NEW callers \in Seq(Frame),
         AddToOutqueue(outqueue, p, callers)
  PROVE  OutChanges({}, {})
<1>1. outqueue \in Seq(Pdu) /\ SingleOwner(outqueue) /\ OwnerOf(p) = {}
  BY DEF Inv, TypeOK, OneOwner, OwnerOf
<1>2. Owners(outqueue') = Owners(outqueue) /\ SingleOwner(outqueue')
  BY <1>1, AddLemma
<1> QED
  BY <1>2 DEF OutChanges, Owners, SingleOwner

\* A step that only queues such a PDU.
LEMMA NobodysStep ==
  ASSUME Inv, Settled, UNCHANGED <<waitpdu, rq, results>>, OutChanges({}, {})
  PROVE  Kept
<1>1. WaitShrinks({}) /\ "GOOD" \in Statuses
  BY SameLists DEF Statuses
<1>2. Reports({}, {}, "GOOD")
  BY DEF Reports
<1>3. {} \in SUBSET Reqs /\ {} \in SUBSET (Owners(outqueue) \cup Owners(waitpdu))
  OBVIOUS
<1> QED
  BY <1>1, <1>2, <1>3, KeptLemma

\* The head of the outqueue moves to waitpdu, unless it is deleted once it
\* has been sent.
LEMMA PopKept ==
  ASSUME Inv, WritePop
  PROVE  Kept
<1> DEFINE p == Head(outqueue)
<1>0. Settled /\ outqueue # <<>> /\ UNCHANGED <<rq, results>> /\ outqueue' = Tail(outqueue)
      /\ waitpdu' = IF DeleteWhenSent(p) THEN waitpdu ELSE Append(waitpdu, p)
  BY DEF WritePop, CanPop, Doing, Settled
<1>1. outqueue \in Seq(Pdu) /\ waitpdu \in Seq(Pdu) /\ p \in Pdu
  BY <1>0, ListType DEF Inv, TypeOK
<1>2. \A r \in Owners(outqueue) \cup Owners(waitpdu) :
        r \in Reqs /\ rq[r].kind # "unused" /\ results[r] = <<>>
  BY <1>0 DEF Inv, OneOwner, Settled, Finishing
<1> DEFINE o == Tail(outqueue)
           w == Append(waitpdu, p)
<1>3. /\ DOMAIN outqueue = 1 .. Len(outqueue) /\ Len(outqueue) \in Nat
      /\ Len(outqueue) > 0 /\ p = outqueue[1]
      /\ DOMAIN o = 1 .. (Len(outqueue) - 1)
      /\ \A i \in DOMAIN o : i + 1 \in DOMAIN outqueue /\ o[i] = outqueue[i + 1]
  BY <1>0, <1>1, HeadTailProperties, LenProperties, EmptySeq
<1> HIDE DEF o
<1>4. /\ DOMAIN waitpdu = 1 .. Len(waitpdu) /\ Len(waitpdu) \in Nat
      /\ DOMAIN w = 1 .. (Len(waitpdu) + 1) /\ w[Len(waitpdu) + 1] = p
      /\ \A i \in DOMAIN waitpdu : w[i] = waitpdu[i]
  BY <1>1, AppendProperties, LenProperties
<1> HIDE DEF p, w
<1>5. SingleOwner(o) /\ Owners(o) \subseteq Owners(outqueue) \ OwnerOf(p)
  <2>1. SingleOwner(o)
    BY <1>3 DEF Inv, OneOwner, SingleOwner
  <2>2. Owners(o) \subseteq Owners(outqueue)
    BY <1>3 DEF Owners
  <2>3. ASSUME NEW i \in DOMAIN o, ~DeleteWhenSent(o[i]), ~DeleteWhenSent(p), o[i].req = p.req
        PROVE  FALSE
    <3>1. i + 1 = 1
      BY <1>3, <2>3 DEF Inv, OneOwner, SingleOwner
    <3> QED
      BY <1>3, <3>1
  <2> QED
    BY <2>1, <2>2, <2>3 DEF Owners, OwnerOf
<1>6. OwnerOf(p) \subseteq Owners(outqueue)
  BY <1>3 DEF Owners, OwnerOf
<1>7. ASSUME ~DeleteWhenSent(p)
      PROVE  /\ SingleOwner(w) /\ \A i \in DOMAIN w : ~DeleteWhenSent(w[i])
             /\ Owners(w) \subseteq Owners(waitpdu) \cup OwnerOf(p)
  <2>1. \A i \in DOMAIN w : i \in DOMAIN waitpdu \/ i = Len(waitpdu) + 1
    BY <1>4
  <2>2. \A i \in DOMAIN w : ~DeleteWhenSent(w[i])
    BY <1>4, <1>7, <2>1 DEF Inv, OneOwner
  <2>3. Owners(w) \subseteq Owners(waitpdu) \cup OwnerOf(p)
    BY <1>4, <1>7, <2>1 DEF Owners, OwnerOf
  <2>4. ASSUME NEW i \in DOMAIN waitpdu, waitpdu[i].req = p.req PROVE FALSE
    <3>1. p.req \in Owners(outqueue)
      BY <1>6, <1>7 DEF OwnerOf
    <3>2. p.req \in Owners(waitpdu)
      BY <2>4 DEF Inv, OneOwner, Owners
    <3> QED
      BY <3>1, <3>2 DEF Inv, OneOwner
  <2>5. SingleOwner(w)
    BY <1>4, <2>1, <2>4 DEF Inv, OneOwner, SingleOwner
  <2> QED
    BY <2>2, <2>3, <2>5
<1>8. Promise({}, {}, "GOOD")
  BY <1>0 DEF Promise, Statuses
<1>9. Lists({}, {})
  <2>1. CASE DeleteWhenSent(p)
    <3>1. outqueue' = o /\ waitpdu' = waitpdu
      BY <1>0, <2>1 DEF o, p
    <3>2. /\ SingleOwner(outqueue)' = SingleOwner(o) /\ Owners(outqueue)' = Owners(o)
          /\ SingleOwner(waitpdu)' = SingleOwner(waitpdu) /\ Owners(waitpdu)' = Owners(waitpdu)
      BY <3>1 DEF SingleOwner, Owners
    <3> QED
      BY <1>2, <1>5, <3>1, <3>2 DEF Lists, Inv, OneOwner
  <2>2. CASE ~DeleteWhenSent(p)
    <3>1. outqueue' = o /\ waitpdu' = w
      BY <1>0, <2>2 DEF o, p, w
    <3>2. /\ SingleOwner(outqueue)' = SingleOwner(o) /\ Owners(outqueue)' = Owners(o)
          /\ SingleOwner(waitpdu)' = SingleOwner(w) /\ Owners(waitpdu)' = Owners(w)
      BY <3>1 DEF SingleOwner, Owners
    <3>3. Owners(o) \cap Owners(w) = {}
      BY <1>5, <1>7, <2>2 DEF Inv, OneOwner
    <3> QED
      BY <1>2, <1>5, <1>6, <1>7, <2>2, <3>1, <3>2, <3>3 DEF Lists
  <2> QED
    BY <2>1, <2>2
<1>10. {} \in SUBSET Reqs /\ "GOOD" \in Statuses
  BY DEF Statuses
<1> QED
  BY <1>8, <1>9, <1>10 DEF Kept

\* The rest of a call, the event loop and the write loop.
LEMMA WriteKept ==
  ASSUME Inv, CallbackReturns \/ SendDataOut \/ PollOut \/ Tick \/ Write
  PROVE  Kept
<1>1. ASSUME \/ CallbackReturns \/ PollOut \/ Tick \/ WriteStops \/ WriteBlocks \/ WriteDone
      PROVE  Kept
  <2>1. Settled /\ UNCHANGED <<outqueue, waitpdu, rq, results>>
    BY <1>1 DEF CallbackReturns, PollOut, Tick, WriteStops, WriteBlocks, WriteDone,
                Doing, Settled, initiatorVars
  <2> QED
    BY <2>1, QuietLemma
<1>2. ASSUME SendDataOut PROVE Kept
  <2>1. Settled /\ UNCHANGED <<waitpdu, rq, results>>
    BY <1>2 DEF SendDataOut, Doing, Settled
  <2>2. CASE UNCHANGED outqueue
    BY <2>1, <2>2, QuietLemma
  <2>3. CASE \E p \in Pdu, callers \in Seq(Frame) :
               p.op = "DATA" /\ AddToOutqueue(outqueue, p, callers)
    <3>1. OutChanges({}, {})
      BY <2>3, NobodysPdu DEF DeleteWhenSent
    <3> QED
      BY <2>1, <3>1, NobodysStep
  <2> QED
    BY <1>2, <2>2, <2>3, DataLemma DEF Inv
<1>3. ASSUME WriteStale \/ WriteError PROVE Kept
  <2>1. Settled /\ ServiceFails(AfterService) /\ UNCHANGED rq
    BY <1>3 DEF WriteStale, WriteError, CanPop, Doing, Settled
  <2> QED
    BY <2>1, ServiceFailsKept
<1> QED
  BY <1>1, <1>2, <1>3, PopKept DEF Write

\* iscsi_timeout_scan: whatever is completed has left the lists.
LEMMA ScanKept ==
  ASSUME Inv, ScanOutqueue \/ ScanWaitpdu
  PROVE  Kept
<1>0. "TIMEOUT" \in Statuses /\ {} \in SUBSET Reqs /\ Settled /\ UNCHANGED rq
  BY DEF Statuses, ScanOutqueue, ScanWaitpdu, Doing, Settled
<1>1. ASSUME ScanOutqueue PROVE Kept
  <2>1. PICK X \in SUBSET {i \in DOMAIN outqueue : Expires(outqueue[i])} :
          LET first == {i \in X : \A j \in X : i <= j} IN
          /\ outqueue' \in Retain(Renumber(outqueue, X), DOMAIN outqueue \ X)
          /\ Complete({outqueue[i].req : i \in first}, "TIMEOUT")
    BY <1>1 DEF ScanOutqueue
  <2> DEFINE first == {i \in X : \A j \in X : i <= j}
             R == {outqueue[i].req : i \in first}
             I == DOMAIN outqueue \ X
  <2>2. /\ Complete(R, "TIMEOUT") /\ UNCHANGED waitpdu
        /\ outqueue' \in Retain(Renumber(outqueue, X), I)
    BY <1>1, <2>1 DEF ScanOutqueue
  <2>3. X \in SUBSET DOMAIN outqueue /\ first \subseteq X
        /\ \A i \in X : ~DeleteWhenSent(outqueue[i])
    BY DEF Expires, Numbered, DeleteWhenSent
  <2> HIDE DEF first
  <2>4. R \subseteq Owners(outqueue) /\ R \cap Owners(waitpdu) = {}
    BY <2>3 DEF Inv, OneOwner, Owners
  <2>5. \A i \in I : ~DeleteWhenSent(outqueue[i]) => outqueue[i].req \notin R
    BY <2>3 DEF Inv, OneOwner, SingleOwner
  <2>6. I \in SUBSET DOMAIN outqueue
    OBVIOUS
  <2> HIDE DEF R, I
  <2>7. PICK q : q = outqueue'
    OBVIOUS
  <2>8. SingleOwner(q) /\ Owners(q) \subseteq Owners(outqueue) \ R
    BY <2>2, <2>3, <2>5, <2>6, <2>7, OutRemoval
  <2>9. OutChanges({}, R) /\ WaitShrinks(R)
    BY <2>2, <2>4, <2>7, <2>8, SameLists, OutBecomes
  <2>10. Reports({}, R, "TIMEOUT")
    BY <1>0, <2>2, CompleteReports DEF Inv
  <2> QED
    BY <1>0, <2>4, <2>9, <2>10, KeptLemma
<1>2. ASSUME ScanWaitpdu PROVE Kept
  <2>1. PICK Y \in SUBSET DOMAIN waitpdu :
          LET X == {i \in Y : ~DataOutInProcess(waitpdu[i])}
              first == {i \in X : \A j \in X : i <= j}
          IN  \/ UNCHANGED <<waitpdu, results>>
              \/ /\ waitpdu' \in Retain(waitpdu, DOMAIN waitpdu \ X)
                 /\ Complete({waitpdu[i].req : i \in first}, "TIMEOUT")
    BY <1>2 DEF ScanWaitpdu
  <2> DEFINE X == {i \in Y : ~DataOutInProcess(waitpdu[i])}
             first == {i \in X : \A j \in X : i <= j}
             R == {waitpdu[i].req : i \in first}
             I == DOMAIN waitpdu \ X
  <2>2. UNCHANGED outqueue
    BY <1>2 DEF ScanWaitpdu
  <2>3. CASE UNCHANGED <<waitpdu, results>>
    BY <1>0, <2>2, <2>3, QuietLemma
  <2>4. CASE waitpdu' \in Retain(waitpdu, I) /\ Complete(R, "TIMEOUT")
    <3>1. X \subseteq DOMAIN waitpdu /\ first \subseteq X
      OBVIOUS
    <3> HIDE DEF first, X
    <3>2. \A i \in DOMAIN waitpdu : ~DeleteWhenSent(waitpdu[i])
      BY DEF Inv, OneOwner
    <3>3. R \subseteq Owners(waitpdu) /\ R \cap Owners(outqueue) = {}
      BY <3>1, <3>2 DEF Inv, OneOwner, Owners
    <3>4. \A i \in I : waitpdu[i].req \notin R
      BY <3>1, <3>2 DEF Inv, OneOwner, SingleOwner
    <3>5. I \in SUBSET DOMAIN waitpdu
      OBVIOUS
    <3> HIDE DEF R, I
    <3>6. WaitShrinks(R) /\ OutChanges({}, R)
      BY <2>2, <2>4, <3>3, <3>4, <3>5, SameLists, WaitRemoval
    <3>7. Reports({}, R, "TIMEOUT")
      BY <1>0, <2>4, CompleteReports DEF Inv
    <3> QED
      BY <1>0, <3>3, <3>6, <3>7, KeptLemma
  <2> QED
    BY <2>1, <2>3, <2>4
<1> QED
  BY <1>1, <1>2

\* A reply, a REJECT or a malformed reply for a PDU in waitpdu: the callback
\* runs and the PDU is the one to be unlinked next.
LEMMA CallbackKept ==
  ASSUME Inv, agenda = <<>>, NEW r \in Owners(waitpdu), NEW status \in Statuses,
         Complete({r}, status), UNCHANGED <<outqueue, waitpdu, rq>>, Finishing(r)'
  PROVE  Kept
<1>1. \A t \in Owners(outqueue) \cup Owners(waitpdu) :
        t \in Reqs /\ rq[t].kind # "unused" /\ results[t] = <<>>
  BY DEF Inv, OneOwner, Finishing
<1>2. Promise({}, {r}, status)
  BY <1>1, CompleteType DEF Promise, Inv
<1>3. /\ SingleOwner(outqueue)' = SingleOwner(outqueue) /\ Owners(outqueue)' = Owners(outqueue)
      /\ SingleOwner(waitpdu)' = SingleOwner(waitpdu) /\ Owners(waitpdu)' = Owners(waitpdu)
  BY DEF SingleOwner, Owners
<1>4. Lists({}, {r})
  BY <1>1, <1>3 DEF Lists, Inv, OneOwner
<1>5. {} \in SUBSET Reqs /\ {r} \in SUBSET Reqs
  BY <1>1
<1> QED
  BY <1>2, <1>4, <1>5 DEF Kept

\* The target's PDUs up to the callback.
LEMMA ReadKept ==
  ASSUME Inv, CallbackCalls = {}, NEW r \in Reqs, Read(r)
  PROVE  Kept
<1>0. {"GOOD", "ERROR"} \subseteq Statuses
  BY DEF Statuses
<1>1. agenda = <<>> /\ Settled
  BY DEF Read, Reply, Reject, MalformedReply, DataIn, R2T, CanRead, Settled
<1>2. CASE Unsolicited
  BY <1>1, <1>2, ServiceFailsKept DEF Unsolicited
<1>3. CASE UNCHANGED initiatorVars
  BY <1>1, <1>3, QuietLemma DEF initiatorVars
<1>4. CASE /\ r \in Owners(waitpdu) /\ UNCHANGED <<outqueue, waitpdu, rq>>
           /\ Complete({r}, "GOOD") \/ Complete({r}, "ERROR")
           /\ \/ agenda' = CallbackFrame \o <<DoFor("finish", r)>>
              \/ agenda' = CallbackFrame \o <<DoFor("finish_reject", r)>>
              \/ agenda' = CallbackFrame \o <<DoFor("finish_reject", r), Do("fail")>>
  <2>1. CallbackFrame = <<>>
    BY DEF CallbackFrame
  <2>2. \/ agenda' = <<DoFor("finish", r)>> \/ agenda' = <<DoFor("finish_reject", r)>>
        \/ agenda' = <<DoFor("finish_reject", r), Do("fail")>>
    BY <1>4, <2>1
  <2>3. Finishing(r)'
    BY <2>2 DEF Finishing, DoFor
  <2> QED
    BY <1>0, <1>1, <1>4, <2>3, CallbackKept
<1> QED
  BY <1>2, <1>3, <1>4 DEF Read, Reply, Reject, MalformedReply, DataIn, R2T

\* After the callback the PDU is unlinked: it was the only one that had
\* been completed.
LEMMA UnlinkKept ==
  ASSUME Inv, FinishPdu \/ FinishReject
  PROVE  Kept
<1> DEFINE r == Head(agenda).req
           I == {i \in DOMAIN waitpdu : waitpdu[i].req # r}
<1>1. /\ UNCHANGED <<outqueue, rq, results>>
      /\ \/ waitpdu' \in Retain(waitpdu, I)
         \/ r \notin Owners(waitpdu) /\ UNCHANGED waitpdu
  BY DEF FinishPdu, FinishReject, Owners
<1>2. WaitShrinks({r})
  <2>1. CASE waitpdu' \in Retain(waitpdu, I)
    <3>1. I \in SUBSET DOMAIN waitpdu /\ \A i \in I : waitpdu[i].req \notin {r}
      OBVIOUS
    <3> HIDE DEF I, r
    <3> QED
      BY <2>1, <3>1, WaitRemoval
  <2>2. CASE r \notin Owners(waitpdu) /\ UNCHANGED waitpdu
    BY <2>2, SameLists
  <2> QED
    BY <1>1, <2>1, <2>2
<1>3. \A t \in Owners(waitpdu)' : t \in Owners(waitpdu) /\ results[t] = <<>>
  BY <1>2 DEF WaitShrinks, Inv, OneOwner, Finishing
<1>4. SingleOwner(outqueue)' = SingleOwner(outqueue) /\ Owners(outqueue)' = Owners(outqueue)
  BY <1>1 DEF SingleOwner, Owners
<1>5. Lists({}, {})
  BY <1>2, <1>3, <1>4 DEF Lists, WaitShrinks, Inv, OneOwner
<1>6. Promise({}, {}, "GOOD") /\ {} \in SUBSET Reqs /\ "GOOD" \in Statuses
  BY <1>1 DEF Promise, Statuses
<1> QED
  BY <1>5, <1>6 DEF Kept

\* What follows a callback, the other PDUs of the target and errors.
LEMMA FinishKept ==
  ASSUME Inv, FinishPdu \/ FinishReject \/ FailRead \/ TargetNopIn \/ TargetPing \/ ReadError
  PROVE  Kept
<1>1. ASSUME FailRead \/ ReadError PROVE Kept
  <2>1. Settled /\ ServiceFails(<<>>) /\ UNCHANGED rq
    BY <1>1 DEF FailRead, ReadError, Unsolicited, Doing, Settled
  <2> QED
    BY <2>1, ServiceFailsKept
<1>2. ASSUME TargetNopIn PROVE Kept
  BY <1>2, QuietLemma DEF TargetNopIn, CanRead, Settled, initiatorVars
<1>3. ASSUME TargetPing PROVE Kept
  <2>1. Settled /\ UNCHANGED <<waitpdu, rq, results>> /\ <<>> \in Seq(Frame)
        /\ AddToOutqueue(outqueue, NewPdu("PONG", NoReq, cmdsn, 0), <<>>)
    BY <1>3 DEF TargetPing, CanRead, Settled
  <2>2. NewPdu("PONG", NoReq, cmdsn, 0) \in Pdu /\ NewPdu("PONG", NoReq, cmdsn, 0).op = "PONG"
    <3>1. cmdsn \in Serial /\ "PONG" \in Ops
      BY DEF Inv, TypeOK, Ops
    <3> QED
      BY <3>1, NewPduType
  <2>3. OutChanges({}, {})
    BY <2>1, <2>2, NobodysPdu DEF DeleteWhenSent
  <2> QED
    BY <2>1, <2>3, NobodysStep
<1> QED
  BY <1>1, <1>2, <1>3, UnlinkKept

\* Every step submits and completes requests as the application may expect.
LEMMA NextKept ==
  ASSUME Inv, CallbackCalls = {}, [Next]_vars
  PROVE  Kept \/ UNCHANGED vars
<1>1. ASSUME NEW r \in Reqs, AppCall(r) PROVE Kept
  BY <1>1, QueueingKept, CancellationKept, ResetKept DEF AppCall
<1>2. ASSUME NEW r \in Reqs, Read(r) PROVE Kept
  BY <1>2, ReadKept
<1>3. CASE CancelAllTasks \/ DestroyContext
  BY <1>3, CancellationKept
<1>4. CASE CallbackReturns \/ SendDataOut \/ PollOut \/ Tick \/ Write
  BY <1>4, WriteKept
<1>5. CASE ScanOutqueue \/ ScanWaitpdu
  BY <1>5, ScanKept
<1>6. CASE FinishPdu \/ FinishReject \/ FailRead \/ TargetNopIn \/ TargetPing \/ ReadError
  BY <1>6, FinishKept
<1>7. CASE Destroyed
  BY <1>7 DEF Destroyed
<1> QED
  BY <1>1, <1>2, <1>3, <1>4, <1>5, <1>6, <1>7 DEF Next

-----------------------------------------------------------------------------
(* Theorems. *)

\* The invariant is inductive.
LEMMA InvInductive ==
  ASSUME CallbackCalls = {}
  PROVE  /\ Init => Inv
         /\ Inv /\ [Next]_vars => Inv'
<1>1. ASSUME Init PROVE Inv
  <2>1. TypeOK
    BY <1>1, InitType
  <2>2. OneOwner /\ AtMostOnce
    BY <1>1 DEF Init, OneOwner, AtMostOnce, SingleOwner, Owners, Unused
  <2> QED
    BY <2>1, <2>2 DEF Inv
<1>2. ASSUME Inv, [Next]_vars PROVE Inv'
  <2>1. TypeOK'
    BY <1>2, NextType DEF Inv
  <2>2. CASE Kept
    BY <1>2, <2>1, <2>2, StepLemma DEF Kept, Inv
  <2>3. CASE UNCHANGED vars
    <3>1. UNCHANGED <<outqueue, waitpdu, agenda, rq, results>>
      BY <2>3 DEF vars, initiatorVars
    <3>2. OneOwner'
      BY <1>2, <3>1 DEF Inv, OneOwner, SingleOwner, Owners, Finishing
    <3>3. AtMostOnce'
      BY <1>2, <3>1 DEF Inv, AtMostOnce
    <3> QED
      BY <2>1, <3>2, <3>3 DEF Inv
  <2> QED
    BY <1>2, <2>2, <2>3, NextKept
<1> QED
  BY <1>1, <1>2

\* Every request has at most one PDU of its own in the lists, and none after
\* its callback, whatever replies, rejects, timeouts, cancellations, resets
\* and failures it meets.
THEOREM OwnerCorrect ==
  ASSUME CallbackCalls = {}
  PROVE  Spec => []OneOwner
<1>1. Inv => OneOwner
  BY DEF Inv
<1> QED
  BY <1>1, InvInductive, PTL DEF Spec

\* No request gets its callback twice.
THEOREM AtMostOnceCorrect ==
  ASSUME CallbackCalls = {}
  PROVE  Spec => []AtMostOnce
<1>1. Inv => AtMostOnce
  BY DEF Inv
<1> QED
  BY <1>1, InvInductive, PTL DEF Spec

\* The PDU machinery implements the promise of the asynchronous API: steps
\* submit idle requests, complete pending ones, or change no outcome.
THEOREM PromiseKept ==
  ASSUME CallbackCalls = {}
  PROVE  Spec => RefinesTaskService
<1>1. Init => Service!Init
  BY DEF Init, Service!Init, Outcome, Unused
<1>2. Inv /\ [Next]_vars => [Service!Next]_[r \in Reqs |-> Outcome(r)]
  <2> SUFFICES ASSUME Inv, [Next]_vars
               PROVE  [Service!Next]_[r \in Reqs |-> Outcome(r)]
    OBVIOUS
  <2>1. CASE Kept
    BY <2>1, OutcomeLemma DEF Kept
  <2>2. CASE UNCHANGED vars
    BY <2>2 DEF vars, initiatorVars, Outcome
  <2> QED
    BY <2>1, <2>2, NextKept
<1> QED
  BY <1>1, <1>2, InvInductive, PTL DEF Spec, RefinesTaskService, Service!Spec

-----------------------------------------------------------------------------
(* No request is dropped, and no PDU is torn, whatever the callbacks call. *)
(* Both rest on what the frames of the call stack say of the lists: a      *)
(* frame that is about to unlink a PDU from waitpdu belongs to a request   *)
(* that has had its callback and whose PDU the target has received.  The   *)
(* last part is about connections that fail: nothing is used after it was  *)
(* freed, as long as trains of DATA-OUTs are short.                        *)

\* The frames of the call stack.
Stack == ToSet(agenda)

\* The steps that unlink the PDU of a request.
Unlinking == {"finish", "finish_reject"}

-----------------------------------------------------------------------------
(* The call stack. *)

\* What is on a stack after a push or a return.
LEMMA StackOf ==
  ASSUME NEW a \in Seq(Frame), NEW b \in Seq(Frame)
  PROVE  /\ ToSet(a \o b) = ToSet(a) \cup ToSet(b)
         /\ a # <<>> => ToSet(Tail(a)) \subseteq ToSet(a) /\ Head(a) \in ToSet(a)
         /\ \A m \in Nat \ {0} : ToSet(SubSeq(a, m, Len(a))) \subseteq ToSet(a)
<1>0. /\ DOMAIN a = 1 .. Len(a) /\ Len(a) \in Nat
      /\ DOMAIN b = 1 .. Len(b) /\ Len(b) \in Nat
  BY LenProperties
<1>1. ToSet(a \o b) = ToSet(a) \cup ToSet(b)
  <2>1. /\ DOMAIN (a \o b) = 1 .. (Len(a) + Len(b))
        /\ \A i \in 1 .. (Len(a) + Len(b)) :
             (a \o b)[i] = IF i <= Len(a) THEN a[i] ELSE b[i - Len(a)]
    <3>1. a \o b \in Seq(Frame) /\ Len(a \o b) = Len(a) + Len(b)
      BY ConcatProperties
    <3>2. DOMAIN (a \o b) = 1 .. Len(a \o b)
      BY <3>1, LenProperties
    <3> QED
      BY <3>1, <3>2, ConcatProperties
  <2> DEFINE c == a \o b
  <2> HIDE DEF c
  <2>2. ASSUME NEW i \in DOMAIN c PROVE c[i] \in ToSet(a) \cup ToSet(b)
    <3>1. CASE i <= Len(a)
      BY <1>0, <2>1, <3>1 DEF c, ToSet
    <3>2. CASE ~(i <= Len(a))
      <4>1. i - Len(a) \in DOMAIN b /\ c[i] = b[i - Len(a)]
        BY <1>0, <2>1, <3>2 DEF c
      <4> QED
        BY <4>1 DEF ToSet
    <3> QED
      BY <3>1, <3>2
  <2>3. ASSUME NEW i \in DOMAIN a PROVE a[i] \in ToSet(c)
    <3>1. i \in DOMAIN c /\ c[i] = a[i]
      BY <1>0, <2>1 DEF c
    <3> QED
      BY <3>1 DEF ToSet
  <2>4. ASSUME NEW i \in DOMAIN b PROVE b[i] \in ToSet(c)
    <3>1. i + Len(a) \in DOMAIN c /\ c[i + Len(a)] = b[(i + Len(a)) - Len(a)]
          /\ (i + Len(a)) - Len(a) = i
      BY <1>0, <2>1 DEF c
    <3> QED
      BY <3>1 DEF ToSet
  <2> QED
    BY <2>2, <2>3, <2>4 DEF ToSet, c
<1>2. ASSUME a # <<>>
      PROVE  ToSet(Tail(a)) \subseteq ToSet(a) /\ Head(a) \in ToSet(a)
  <2>1. /\ Len(a) > 0 /\ Head(a) = a[1]
        /\ Tail(a) \in Seq(Frame) /\ Len(Tail(a)) = Len(a) - 1
        /\ \A i \in 1 .. (Len(a) - 1) : Tail(a)[i] = a[i + 1]
    BY <1>0, <1>2, HeadTailProperties, EmptySeq
  <2>2. DOMAIN Tail(a) = 1 .. (Len(a) - 1)
    BY <2>1, LenProperties
  <2>3. \A i \in DOMAIN Tail(a) : i + 1 \in DOMAIN a /\ Tail(a)[i] = a[i + 1]
    BY <1>0, <2>1, <2>2
  <2>4. 1 \in DOMAIN a
    BY <1>0, <2>1
  <2> QED
    BY <2>1, <2>3, <2>4 DEF ToSet
<1>3. ASSUME NEW m \in Nat \ {0} PROVE ToSet(SubSeq(a, m, Len(a))) \subseteq ToSet(a)
  <2> DEFINE c == SubSeq(a, m, Len(a))
  <2>1. \A i \in m .. Len(a) : a[i] \in Frame
    BY <1>0, ElementOfSeq
  <2>2. /\ c \in Seq(Frame)
        /\ Len(c) = IF m <= Len(a) THEN Len(a) - m + 1 ELSE 0
        /\ \A i \in 1 .. (Len(a) - m + 1) : c[i] = a[m + i - 1]
    BY <1>0, <2>1, SubSeqProperties
  <2> HIDE DEF c
  <2>3. DOMAIN c = 1 .. Len(c)
    BY <2>2, LenProperties
  <2>4. \A i \in DOMAIN c : m + i - 1 \in DOMAIN a /\ c[i] = a[m + i - 1]
    BY <1>0, <2>2, <2>3
  <2> QED
    BY <2>4 DEF ToSet, c
<1> QED
  BY <1>1, <1>2, <1>3

\* A frame that unlinks nothing, and scans for timeouts only if there are any.
Quiet(f) ==
  /\ f.do \notin Unlinking
  /\ f.do \in {"scan_out", "scan_wait"} => Timeouts

\* A frame pushed by a reply, a REJECT or a malformed reply: its request has
\* had its callback and the target is done with it.
Answered(f) ==
  /\ f.do \in Unlinking
  /\ f.req \in atTarget \cap Owners(waitpdu)
  /\ results'[f.req] # <<>>

\* The frames that the library pushes are quiet, but for the ones that
\* follow a callback.
LEMMA PushedQuiet ==
  /\ \A f \in ToSet(ServicePollout) \cup ToSet(ServiceTick) \cup ToSet(CallbackFrame) : Quiet(f)
  /\ \A r \in Reqs, dsn \in Nat, n \in Nat : \A f \in ToSet(SendData(r, dsn, n)) : Quiet(f)
  /\ \A step \in {"hang", "undefined", "destroyed", "fail"} :
       Quiet(Do(step)) /\ ToSet(<<Do(step)>>) = {Do(step)}
<1>1. \A x : ToSet(<<x>>) = {x}
  BY DEF ToSet
<1>2. ToSet(<<>>) = {} /\ \A x, y : ToSet(<<x, y>>) = {x, y}
  BY DEF ToSet
<1>3. \A f \in ToSet(ServiceTick) : Quiet(f)
  BY <1>2 DEF ServiceTick, Quiet, Do, Unlinking
<1>4. \A f \in ToSet(CallbackFrame) : Quiet(f)
  BY <1>1, <1>2 DEF CallbackFrame, Quiet, Do, Unlinking
<1>5. \A f \in ToSet(ServicePollout) : Quiet(f)
  <2>1. <<Do("write")>> \in Seq(Frame) /\ ServiceTick \in Seq(Frame)
    BY FrameType DEF Steps
  <2>2. ToSet(<<Do("write")>> \o ServiceTick) = ToSet(<<Do("write")>>) \cup ToSet(ServiceTick)
    BY <2>1, StackOf
  <2>3. ToSet(ServicePollout) = {Do("write")} \cup ToSet(ServiceTick)
    BY <1>1, <2>2 DEF ServicePollout
  <2> QED
    BY <1>3, <2>3 DEF Quiet, Do, Unlinking
<1>6. \A r \in Reqs, dsn \in Nat, n \in Nat : \A f \in ToSet(SendData(r, dsn, n)) : Quiet(f)
  <2> TAKE r \in Reqs, dsn \in Nat, n \in Nat
  <2>1. CASE n = 0
    BY <1>2, <2>1 DEF SendData
  <2>2. CASE n # 0
    BY <1>1, <2>2 DEF SendData, Quiet, Unlinking
  <2> QED
    BY <2>1, <2>2
<1>7. \A step \in {"hang", "undefined", "destroyed", "fail"} :
        Quiet(Do(step)) /\ ToSet(<<Do(step)>>) = {Do(step)}
  BY <1>1 DEF Quiet, Do, Unlinking
<1> QED
  BY <1>3, <1>4, <1>5, <1>6, <1>7

\* Queueing a PDU pushes only the service of the socket.
LEMMA AddFrames ==
  ASSUME NEW q, NEW p, NEW callers \in Seq(Frame), AddToOutqueue(q, p, callers)
  PROVE  \A f \in Stack' : Quiet(f) \/ f \in ToSet(callers)
<1>1. PICK push \in {ServicePollout, <<>>} : agenda' = push \o callers
  BY DEF AddToOutqueue
<1>2. push \in Seq(Frame) /\ \A f \in ToSet(push) : Quiet(f)
  <2>1. CASE push = ServicePollout
    BY <2>1, FrameType, PushedQuiet
  <2>2. CASE push = <<>>
    BY <2>2 DEF ToSet
  <2> QED
    BY <2>1, <2>2
<1>3. ToSet(agenda') = ToSet(push) \cup ToSet(callers)
  BY <1>1, <1>2, StackOf
<1> QED
  BY <1>2, <1>3 DEF Stack

\* The application's calls push quiet frames.
LEMMA CallFrames ==
  ASSUME TypeOK, (\E r \in Reqs : AppCall(r)) \/ CancelAllTasks \/ DestroyContext
  PROVE  \A f \in Stack' : f \in Stack \/ Quiet(f)
<1>0. agenda \in Seq(Frame)
  BY DEF TypeOK
<1>1. ASSUME NEW r \in Reqs, NEW kind \in ScsiKinds, NEW lun \in Luns, CommandAsync(r, kind, lun)
      PROVE  \A f \in Stack' : f \in Stack \/ Quiet(f)
  <2>1. PICK n \in (IF kind = "read" THEN {0} ELSE 0 .. MaxUnsolicited) :
          AddToOutqueue(outqueue, NewPdu("SCSI", r, cmdsn, 0), SendData(r, 0, n) \o agenda)
    BY <1>1 DEF CommandAsync
  <2>2. n \in Nat
    BY ConstantsAssumption
  <2>3. SendData(r, 0, n) \in Seq(Frame) /\ \A f \in ToSet(SendData(r, 0, n)) : Quiet(f)
    BY <2>2, FrameType, PushedQuiet
  <2>4. /\ SendData(r, 0, n) \o agenda \in Seq(Frame)
        /\ ToSet(SendData(r, 0, n) \o agenda) = ToSet(SendData(r, 0, n)) \cup Stack
    BY <1>0, <2>3, StackOf, ConcatProperties DEF Stack
  <2> QED
    BY <2>1, <2>3, <2>4, AddFrames
<1>2. ASSUME NEW q, NEW p, AddToOutqueue(q, p, agenda)
      PROVE  \A f \in Stack' : f \in Stack \/ Quiet(f)
  BY <1>0, <1>2, AddFrames DEF Stack
<1>3. ASSUME UNCHANGED agenda PROVE \A f \in Stack' : f \in Stack \/ Quiet(f)
  BY <1>3 DEF Stack
<1>4. ASSUME NEW r \in Reqs, AppCall(r) PROVE \A f \in Stack' : f \in Stack \/ Quiet(f)
  <2>1. CASE NopOutAsync(r) \/ (\E t \in Reqs : AbortTaskAsync(r, t)) \/ LogoutAsync(r)
    BY <1>2, <2>1 DEF NopOutAsync, AbortTaskAsync, LogoutAsync
  <2>2. CASE CancelTask(r)
    BY <1>3, <2>2 DEF CancelTask
  <2>3. CASE ResetAsync(r)
    BY <1>2, <1>3, <2>3 DEF ResetAsync
  <2>4. CASE \E lun \in Luns : LunResetAsync(r, lun)
    BY <1>2, <1>3, <2>4 DEF LunResetAsync
  <2> QED
    BY <1>1, <1>4, <2>1, <2>2, <2>3, <2>4 DEF AppCall
<1>5. CASE CancelAllTasks
  BY <1>3, <1>5 DEF CancelAllTasks
<1>6. CASE DestroyContext
  BY <1>6, PushedQuiet DEF DestroyContext, Stack
<1> QED
  BY <1>4, <1>5, <1>6

\* So do the steps of the library, but for those that ran a callback.
LEMMA LibraryFrames ==
  ASSUME TypeOK,
         \/ CallbackReturns \/ SendDataOut \/ FinishPdu \/ FinishReject \/ FailRead \/ PollOut \/ Tick
         \/ Write \/ ScanOutqueue \/ ScanWaitpdu \/ TargetNopIn \/ TargetPing \/ ReadError \/ Destroyed
  PROVE  \A f \in Stack' : f \in Stack \/ Quiet(f)
<1>0. agenda \in Seq(Frame) /\ <<>> \in Seq(Frame) /\ ToSet(<<>>) = {}
  BY DEF TypeOK, ToSet
<1>1. ASSUME UNCHANGED agenda PROVE \A f \in Stack' : f \in Stack \/ Quiet(f)
  BY <1>1 DEF Stack
<1>2. ASSUME agenda # <<>>, agenda' = Tail(agenda) PROVE \A f \in Stack' : f \in Stack \/ Quiet(f)
  BY <1>0, <1>2, StackOf DEF Stack
<1>3. ASSUME NEW step \in {"hang", "undefined"}, agenda' = <<Do(step)>>
      PROVE  \A f \in Stack' : f \in Stack \/ Quiet(f)
  BY <1>3, PushedQuiet DEF Stack
<1>4. ASSUME agenda' = <<>> PROVE \A f \in Stack' : f \in Stack \/ Quiet(f)
  BY <1>0, <1>4 DEF Stack
<1>5. ASSUME agenda' = AfterService PROVE \A f \in Stack' : f \in Stack \/ Quiet(f)
  <2>1. Len(ServicePollout) + 1 \in Nat \ {0}
    BY FrameType, LenProperties
  <2> QED
    BY <1>0, <1>5, <2>1, StackOf DEF Stack, AfterService
<1>6. ASSUME agenda # <<>>, NEW push \in {<<>>, CallbackFrame}, agenda' = push \o Tail(agenda)
      PROVE  \A f \in Stack' : f \in Stack \/ Quiet(f)
  <2>1. push \in Seq(Frame) /\ \A f \in ToSet(push) : Quiet(f)
    <3>1. CASE push = CallbackFrame
      BY <3>1, FrameType, PushedQuiet
    <3>2. CASE push = <<>>
      BY <1>0, <3>2
    <3> QED
      BY <1>6, <3>1, <3>2
  <2>2. Tail(agenda) \in Seq(Frame) /\ ToSet(Tail(agenda)) \subseteq ToSet(agenda)
    BY <1>0, <1>6, ListType, StackOf
  <2> DEFINE t == Tail(agenda)
  <2> HIDE DEF t
  <2>3. ToSet(push \o t) = ToSet(push) \cup ToSet(t)
    BY <2>1, <2>2, StackOf DEF t
  <2>4. Stack' = ToSet(push \o t)
    BY <1>6 DEF Stack, t
  <2> QED
    BY <2>1, <2>2, <2>3, <2>4 DEF Stack, t
<1>7. CASE CallbackReturns \/ WriteStops \/ WriteBlocks
  BY <1>2, <1>7 DEF CallbackReturns, WriteStops, WriteBlocks, Doing
<1>8. CASE SendDataOut
  <2> DEFINE f == Head(agenda)
             callers == SendData(f.req, f.datasn + 1, f.left - 1) \o Tail(agenda)
  <2>1. f \in Frame /\ Tail(agenda) \in Seq(Frame) /\ f.do = "data" /\ agenda # <<>>
    BY <1>8, ListType DEF SendDataOut, Doing
  <2>2. f.req \in Reqs /\ f.datasn + 1 \in Nat /\ f.left - 1 \in Nat
    BY <2>1 DEF Frame
  <2>3. /\ SendData(f.req, f.datasn + 1, f.left - 1) \in Seq(Frame)
        /\ \A g \in ToSet(SendData(f.req, f.datasn + 1, f.left - 1)) : Quiet(g)
    BY <2>2, FrameType, PushedQuiet
  <2>4. /\ callers \in Seq(Frame)
        /\ ToSet(callers) = ToSet(SendData(f.req, f.datasn + 1, f.left - 1)) \cup ToSet(Tail(agenda))
    BY <2>1, <2>3, StackOf, ConcatProperties
  <2>5. \/ \E p : AddToOutqueue(outqueue, p, callers)
        \/ agenda' = <<Do("undefined")>>
    BY <1>8 DEF SendDataOut
  <2>6. ToSet(Tail(agenda)) \subseteq Stack
    BY <1>0, <2>1, StackOf DEF Stack
  <2> HIDE DEF callers, f
  <2> QED
    BY <1>3, <2>3, <2>4, <2>5, <2>6, AddFrames
<1>9. CASE FinishPdu \/ FinishReject
  <2>1. agenda # <<>>
    BY <1>9 DEF FinishPdu, FinishReject, Doing
  <2>2. agenda' = Tail(agenda) \/ agenda' = <<Do("undefined")>>
    BY <1>9 DEF FinishPdu, FinishReject
  <2> QED
    BY <1>2, <1>3, <2>1, <2>2
<1>10. CASE FailRead \/ ReadError
  BY <1>4, <1>10 DEF FailRead, ReadError, Unsolicited, ServiceFails
<1>11. CASE PollOut \/ Tick
  BY <1>11, PushedQuiet DEF PollOut, Tick, Stack
<1>12. CASE WriteStale \/ WriteError
  BY <1>5, <1>12 DEF WriteStale, WriteError, ServiceFails
<1>13. CASE WritePop \/ WriteDone \/ TargetNopIn \/ Destroyed
  BY <1>1, <1>13 DEF WritePop, WriteDone, TargetNopIn, Destroyed, vars
<1>14. CASE ScanOutqueue
  BY <1>6, <1>14 DEF ScanOutqueue, Doing
<1>15. CASE ScanWaitpdu
  BY <1>3, <1>6, <1>15 DEF ScanWaitpdu, Doing
<1>16. CASE TargetPing
  BY <1>0, <1>16, AddFrames DEF TargetPing
<1> QED
  BY <1>7, <1>8, <1>9, <1>10, <1>11, <1>12, <1>13, <1>14, <1>15, <1>16 DEF Write

\* The callback of a request runs once the target has answered it.
LEMMA ReadFrames ==
  ASSUME TypeOK, NEW r \in Reqs, Read(r)
  PROVE  \A f \in Stack' : Quiet(f) \/ (f.req = r /\ Answered(f))
<1>1. CASE agenda' = <<>>
  BY <1>1 DEF Stack, ToSet
<1>2. CASE \E n \in Nat : agenda' = SendData(r, 0, n)
  BY <1>2, PushedQuiet DEF Stack
<1>3. CASE UNCHANGED agenda /\ agenda = <<>>
  BY <1>3 DEF Stack, ToSet
<1>4. CASE /\ r \in Owners(waitpdu) /\ r \in atTarget
           /\ Complete({r}, "GOOD") \/ Complete({r}, "ERROR")
           /\ \/ agenda' = CallbackFrame \o <<DoFor("finish", r)>>
              \/ agenda' = CallbackFrame \o <<DoFor("finish_reject", r)>>
              \/ agenda' = CallbackFrame \o <<DoFor("finish_reject", r), Do("fail")>>
  <2>1. results'[r] # <<>>
    <3>1. PICK status \in Statuses : Complete({r}, status)
      BY <1>4 DEF Statuses
    <3>2. results'[r] = Append(results[r], status) /\ results[r] \in Seq(Statuses)
      BY <3>1, CompleteType DEF TypeOK
    <3> QED
      BY <3>2, AppendProperties
  <2>2. /\ \A step \in Unlinking : DoFor(step, r) \in Frame
        /\ Do("fail") \in Frame /\ CallbackFrame \in Seq(Frame)
    BY FrameType DEF Unlinking, Steps
  <2>3. ASSUME NEW push \in Seq(Frame), agenda' = CallbackFrame \o push
        PROVE  Stack' = ToSet(CallbackFrame) \cup ToSet(push)
    BY <2>2, <2>3, StackOf DEF Stack
  <2>4. \A x, y : ToSet(<<x>>) = {x} /\ ToSet(<<x, y>>) = {x, y}
    BY DEF ToSet
  <2>5. \A step \in Unlinking : DoFor(step, r).req = r /\ Answered(DoFor(step, r))
    BY <1>4, <2>1 DEF Answered, DoFor
  <2>6. Quiet(Do("fail")) /\ \A f \in ToSet(CallbackFrame) : Quiet(f)
    BY PushedQuiet
  <2>7. CASE \E step \in Unlinking : agenda' = CallbackFrame \o <<DoFor(step, r)>>
    <3>1. PICK step \in Unlinking : agenda' = CallbackFrame \o <<DoFor(step, r)>>
      BY <2>7
    <3>2. <<DoFor(step, r)>> \in Seq(Frame)
      BY <2>2
    <3>3. Stack' = ToSet(CallbackFrame) \cup {DoFor(step, r)}
      BY <2>3, <2>4, <3>1, <3>2
    <3> QED
      BY <2>5, <2>6, <3>3
  <2>8. CASE agenda' = CallbackFrame \o <<DoFor("finish_reject", r), Do("fail")>>
    <3>1. "finish_reject" \in Unlinking
      BY DEF Unlinking
    <3>2. <<DoFor("finish_reject", r), Do("fail")>> \in Seq(Frame)
      BY <2>2, <3>1
    <3>3. Stack' = ToSet(CallbackFrame) \cup {DoFor("finish_reject", r), Do("fail")}
      BY <2>3, <2>4, <2>8, <3>2
    <3> QED
      BY <2>5, <2>6, <3>1, <3>3
  <2> QED
    BY <1>4, <2>7, <2>8 DEF Unlinking
<1>5. ASSUME Unsolicited PROVE agenda' = <<>>
  BY <1>5 DEF Unsolicited, ServiceFails
<1>6. 1 .. MaxData \subseteq Nat
  BY ConstantsAssumption
<1> QED
  BY <1>1, <1>2, <1>3, <1>4, <1>5, <1>6
     DEF Read, Reply, Reject, MalformedReply, DataIn, R2T, CanRead

-----------------------------------------------------------------------------
(* No request is dropped. *)

\* Without timeouts and without the LUN reset, which leave PDUs behind that
\* nobody completes, what is unlinked has been completed.
UnlinkedIsDone ==
  \A f \in Stack :
    /\ f.do \notin {"scan_out", "scan_wait"}
    /\ f.do \in Unlinking => f.req \in Reqs /\ results[f.req] # <<>>

\* The inductive invariant.
LostInv == TypeOK /\ NoneLost /\ UnlinkedIsDone

\* The requests of S come in; whoever is in a list stays in one of them until
\* it gets its callback.
Carries(S) ==
  /\ S \subseteq Reqs \cap Owners(outqueue')
  /\ \A r \in Reqs : rq'[r].kind # "unused" => rq[r].kind # "unused" \/ r \in S
  /\ \A r \in Reqs : results'[r] = <<>> => results[r] = <<>>
  /\ \A r \in Reqs \cap (Owners(outqueue) \cup Owners(waitpdu)) :
       results'[r] = <<>> => r \in Owners(outqueue') \cup Owners(waitpdu')

\* Such a step loses nobody.
LEMMA CarriesLemma ==
  ASSUME NoneLost, NEW S, Carries(S)
  PROVE  NoneLost'
<1>1. Owners(outqueue)' = Owners(outqueue') /\ Owners(waitpdu)' = Owners(waitpdu')
  BY DEF Owners
<1> QED
  BY <1>1 DEF NoneLost, Carries

\* A callback is recorded and stays recorded.
LEMMA CompleteGrows ==
  ASSUME TypeOK, NEW R, NEW status \in Statuses, Complete(R, status)
  PROVE  /\ \A r \in Reqs : results'[r] = <<>> => results[r] = <<>> /\ r \notin R
         /\ \A r \in Reqs : results[r] # <<>> \/ r \in R => results'[r] # <<>>
<1> SUFFICES ASSUME NEW r \in Reqs
             PROVE  results'[r] = <<>> <=> results[r] = <<>> /\ r \notin R
  OBVIOUS
<1>1. results'[r] = IF r \in R THEN Append(results[r], status) ELSE results[r]
  BY CompleteType
<1>2. results[r] \in Seq(Statuses)
  BY DEF TypeOK
<1>3. Append(results[r], status) # <<>>
  BY <1>2, AppendProperties
<1> QED
  BY <1>1, <1>3

\* Lists, requests and callbacks that do not change.
LEMMA StillCarries ==
  ASSUME UNCHANGED <<outqueue, waitpdu, rq, results>>
  PROVE  Carries({})
BY DEF Carries

\* iscsi_cancel_pdus and iscsi_destroy_context complete what they drop.
LEMMA CancelCarries ==
  ASSUME TypeOK, CompleteAll, UNCHANGED rq
  PROVE  Carries({})
<1>1. "CANCELLED" \in Statuses /\ Complete(Owners(outqueue) \cup Owners(waitpdu), "CANCELLED")
  BY DEF Statuses, CompleteAll
<1>2. \A r \in Reqs : results'[r] = <<>> =>
        results[r] = <<>> /\ r \notin Owners(outqueue) \cup Owners(waitpdu)
  BY <1>1, CompleteGrows
<1> QED
  BY <1>2 DEF Carries

\* A service call that fails.
LEMMA ServiceFailsCarries ==
  ASSUME TypeOK, NEW callers, ServiceFails(callers), UNCHANGED rq
  PROVE  Carries({})
BY CancelCarries, StillCarries DEF ServiceFails, CancelPdus, CancelWaiting

\* A new PDU in the outqueue.
LEMMA AddCarries ==
  ASSUME TypeOK, NEW p \in Pdu, NEW callers \in Seq(Frame),
         AddToOutqueue(outqueue, p, callers), UNCHANGED <<waitpdu, results>>,
         \A r \in Reqs : rq'[r].kind # "unused" => rq[r].kind # "unused" \/ r \in OwnerOf(p),
         OwnerOf(p) \subseteq Reqs
  PROVE  Carries(OwnerOf(p))
<1>1. Owners(outqueue') = Owners(outqueue) \cup OwnerOf(p)
  BY AddLemma DEF TypeOK
<1> QED
  BY <1>1 DEF Carries

\* The calls that queue one PDU.
LEMMA QueueingCarries ==
  ASSUME TypeOK, NEW r \in Reqs,
         \/ \E kind \in ScsiKinds, lun \in Luns : CommandAsync(r, kind, lun)
         \/ NopOutAsync(r) \/ (\E t \in Reqs : AbortTaskAsync(r, t)) \/ LogoutAsync(r)
  PROVE  Carries({r})
<1>1. cmdsn \in Serial /\ agenda \in Seq(Frame) /\ UNCHANGED <<waitpdu, results>>
  BY DEF TypeOK, CommandAsync, NopOutAsync, AbortTaskAsync, LogoutAsync
<1>2. \A t \in Reqs \ {r} : rq'[t].kind = rq[t].kind
  BY DEF TypeOK, CommandAsync, NopOutAsync, AbortTaskAsync, LogoutAsync
<1>3. \E op \in Ops \ {"PONG", "DATA"}, callers \in Seq(Frame) :
        AddToOutqueue(outqueue, NewPdu(op, r, cmdsn, 0), callers)
  <2>1. ASSUME NEW kind \in ScsiKinds, NEW lun \in Luns, CommandAsync(r, kind, lun)
        PROVE  \E callers \in Seq(Frame) :
                 AddToOutqueue(outqueue, NewPdu("SCSI", r, cmdsn, 0), callers)
    <3>1. PICK n \in (IF kind = "read" THEN {0} ELSE 0 .. MaxUnsolicited) :
            AddToOutqueue(outqueue, NewPdu("SCSI", r, cmdsn, 0), SendData(r, 0, n) \o agenda)
      BY <2>1 DEF CommandAsync
    <3>2. n \in Nat
      BY ConstantsAssumption
    <3>3. SendData(r, 0, n) \o agenda \in Seq(Frame)
      BY <1>1, <3>2, FrameType
    <3> QED
      BY <3>1, <3>3
  <2> QED
    BY <1>1, <2>1 DEF NopOutAsync, AbortTaskAsync, LogoutAsync, Ops
<1>4. PICK op \in Ops \ {"PONG", "DATA"}, callers \in Seq(Frame) :
        AddToOutqueue(outqueue, NewPdu(op, r, cmdsn, 0), callers)
  BY <1>3
<1> DEFINE p == NewPdu(op, r, cmdsn, 0)
<1>5. p \in Pdu /\ p.op = op /\ p.req = r
  BY <1>1, NewPduType
<1> HIDE DEF p
<1>6. OwnerOf(p) = {r}
  BY <1>5 DEF OwnerOf, DeleteWhenSent
<1>7. AddToOutqueue(outqueue, p, callers)
  BY <1>4 DEF p
<1> QED
  BY <1>1, <1>2, <1>5, <1>6, <1>7, AddCarries

\* Taking the PDUs of r out of a list keeps those of the others.
LEMMA OthersStay ==
  ASSUME NEW s \in Seq(Pdu), NEW r, NEW q \in Retain(s, {i \in DOMAIN s : s[i].req # r})
  PROVE  Owners(s) \ {r} \subseteq Owners(q)
<1> DEFINE I == {i \in DOMAIN s : s[i].req # r}
<1>1. I \in SUBSET DOMAIN s /\ q \in Retain(s, I) /\ \A i \in DOMAIN s : s[i].req # r => i \in I
  OBVIOUS
<1> HIDE DEF I
<1>2. Owners(q) = {s[i].req : i \in {j \in I : ~DeleteWhenSent(s[j])}}
  BY <1>1, RetainOwners
<1> QED
  BY <1>1, <1>2 DEF Owners

\* iscsi_scsi_cancel_task completes the task it takes out.
LEMMA CancelTaskCarries ==
  ASSUME TypeOK, NEW r \in Reqs, CancelTask(r)
  PROVE  Carries({})
<1>1. "CANCELLED" \in Statuses /\ Complete({r}, "CANCELLED") /\ UNCHANGED rq
  BY DEF Statuses, CancelTask
<1>2. \A t \in Reqs : results'[t] = <<>> => results[t] = <<>> /\ t # r
  BY <1>1, CompleteGrows
<1>3. PICK o, w : o = outqueue' /\ w = waitpdu'
  OBVIOUS
<1>4. Owners(outqueue) \ {r} \subseteq Owners(o) /\ Owners(waitpdu) \ {r} \subseteq Owners(w)
  <2>1. \/ w \in Retain(waitpdu, {i \in DOMAIN waitpdu : waitpdu[i].req # r}) /\ o = outqueue
        \/ o \in Retain(outqueue, {i \in DOMAIN outqueue : outqueue[i].req # r}) /\ w = waitpdu
    BY <1>3 DEF CancelTask
  <2> QED
    BY <2>1, OthersStay DEF TypeOK
<1> QED
  BY <1>1, <1>2, <1>3, <1>4 DEF Carries

\* abort_task_set and the target resets complete what they drop and queue
\* their own request.
LEMMA ResetCarries ==
  ASSUME TypeOK, NEW r \in Reqs, ResetAsync(r)
  PROVE  \E S : Carries(S)
<1>1. "CANCELLED" \in Statuses /\ Complete(Owners(outqueue) \cup Owners(waitpdu), "CANCELLED")
  BY DEF Statuses, ResetAsync, CancelWaiting, CompleteAll
<1>2. \A t \in Reqs : results'[t] = <<>> =>
        results[t] = <<>> /\ t \notin Owners(outqueue) \cup Owners(waitpdu)
  BY <1>1, CompleteGrows
<1>3. CASE UNCHANGED rq
  <2>1. Carries({})
    BY <1>2, <1>3 DEF Carries
  <2> QED
    BY <2>1
<1>4. CASE /\ rq' = [rq EXCEPT ![r].kind = "tmf"]
           /\ AddToOutqueue(<<>>, NewPdu("TMF", r, CmdSNWithout(DOMAIN outqueue), 0), agenda)
  <2> DEFINE sn == CmdSNWithout(DOMAIN outqueue)
  <2>1. sn \in Serial
    BY CmdSNWithoutType
  <2> HIDE DEF sn
  <2> DEFINE p == NewPdu("TMF", r, sn, 0)
  <2>2. p \in Pdu /\ p.op = "TMF" /\ p.req = r
    BY <2>1, NewPduType DEF Ops
  <2> HIDE DEF p
  <2>3. AddToOutqueue(<<>>, p, agenda) /\ <<>> \in Seq(Pdu) /\ agenda \in Seq(Frame)
    BY <1>4 DEF p, sn, TypeOK
  <2>4. Owners(outqueue') = Owners(<<>>) \cup OwnerOf(p)
    BY <2>2, <2>3, AddLemma
  <2>5. r \in Owners(outqueue')
    BY <2>2, <2>4 DEF OwnerOf, DeleteWhenSent
  <2>6. \A t \in Reqs \ {r} : rq'[t].kind = rq[t].kind
    BY <1>4 DEF TypeOK
  <2>7. Carries({r})
    BY <1>2, <2>5, <2>6 DEF Carries
  <2> QED
    BY <2>7
<1> QED
  BY <1>3, <1>4 DEF ResetAsync

\* A PDU that is popped moves to waitpdu.
LEMMA PopCarries ==
  ASSUME TypeOK, WritePop
  PROVE  Carries({})
<1> DEFINE p == Head(outqueue)
           o == Tail(outqueue)
           w == Append(waitpdu, p)
<1>0. /\ outqueue # <<>> /\ UNCHANGED <<rq, results>> /\ outqueue' = o
      /\ waitpdu' = IF DeleteWhenSent(p) THEN waitpdu ELSE w
  BY DEF WritePop, CanPop
<1>1. outqueue \in Seq(Pdu) /\ waitpdu \in Seq(Pdu) /\ p \in Pdu
  BY <1>0, ListType DEF TypeOK
<1>2. /\ DOMAIN outqueue = 1 .. Len(outqueue) /\ Len(outqueue) \in Nat /\ p = outqueue[1]
      /\ DOMAIN o = 1 .. (Len(outqueue) - 1)
      /\ \A i \in DOMAIN o : o[i] = outqueue[i + 1]
  BY <1>0, <1>1, HeadTailProperties, LenProperties
<1>3. /\ Len(waitpdu) + 1 \in DOMAIN w /\ w[Len(waitpdu) + 1] = p
      /\ \A i \in DOMAIN waitpdu : i \in DOMAIN w /\ w[i] = waitpdu[i]
  BY <1>1, AppendProperties, LenProperties
<1> HIDE DEF p, o, w
<1>4. \A i \in DOMAIN outqueue : i = 1 \/ (i - 1 \in DOMAIN o /\ o[i - 1] = outqueue[i])
  BY <1>2
<1>5. Owners(outqueue) \subseteq Owners(o) \cup OwnerOf(p)
  <2> SUFFICES ASSUME NEW i \in DOMAIN outqueue, ~DeleteWhenSent(outqueue[i])
               PROVE  outqueue[i].req \in Owners(o) \cup OwnerOf(p)
    BY DEF Owners
  <2> QED
    BY <1>2, <1>4 DEF Owners, OwnerOf
<1>6. Owners(waitpdu) \subseteq Owners(w) /\ OwnerOf(p) \subseteq Owners(w)
  BY <1>3 DEF Owners, OwnerOf
<1>7. DeleteWhenSent(p) => OwnerOf(p) = {}
  BY DEF OwnerOf
<1> QED
  BY <1>0, <1>5, <1>6, <1>7 DEF Carries

\* After its callback a request may be unlinked.
LEMMA UnlinkCarries ==
  ASSUME LostInv, FinishPdu \/ FinishReject
  PROVE  Carries({})
<1> DEFINE r == Head(agenda).req
<1>1. /\ UNCHANGED <<outqueue, rq, results>>
      /\ \/ waitpdu' \in Retain(waitpdu, {i \in DOMAIN waitpdu : waitpdu[i].req # r})
         \/ UNCHANGED waitpdu
  BY DEF FinishPdu, FinishReject
<1>2. results[r] # <<>>
  <2>1. agenda # <<>> /\ Head(agenda).do \in Unlinking
    BY DEF FinishPdu, FinishReject, Doing, Unlinking
  <2>2. Head(agenda) \in Stack
    BY <2>1, StackOf DEF LostInv, TypeOK, Stack
  <2> QED
    BY <2>1, <2>2 DEF LostInv, UnlinkedIsDone
<1> HIDE DEF r
<1>3. PICK w : w = waitpdu'
  OBVIOUS
<1>4. Owners(waitpdu) \ {r} \subseteq Owners(w)
  BY <1>1, <1>3, OthersStay DEF LostInv, TypeOK
<1> QED
  BY <1>1, <1>2, <1>3, <1>4 DEF Carries

\* The target's PDUs up to the callback.
LEMMA ReadCarries ==
  ASSUME TypeOK, NEW r \in Reqs, Read(r)
  PROVE  Carries({})
<1>1. CASE Unsolicited
  BY <1>1, ServiceFailsCarries DEF Unsolicited
<1>2. CASE UNCHANGED initiatorVars
  BY <1>2, StillCarries DEF initiatorVars
<1>3. CASE /\ UNCHANGED <<outqueue, waitpdu, rq>>
           /\ Complete({r}, "GOOD") \/ Complete({r}, "ERROR")
  <2>1. \A t \in Reqs : results'[t] = <<>> => results[t] = <<>>
    BY <1>3, CompleteGrows DEF Statuses
  <2> QED
    BY <1>3, <2>1 DEF Carries
<1> QED
  BY <1>1, <1>2, <1>3 DEF Read, Reply, Reject, MalformedReply, DataIn, R2T

\* Every step carries the requests on.
LEMMA NextCarries ==
  ASSUME LostInv, Timeouts = FALSE, "lun_reset" \notin Calls, [Next]_vars
  PROVE  \E S : Carries(S)
<1>0. TypeOK
  BY DEF LostInv
<1>1. ASSUME NEW r \in Reqs, AppCall(r) PROVE \E S : Carries(S)
  <2>1. ~ \E lun \in Luns : LunResetAsync(r, lun)
    BY DEF LunResetAsync, MayCall
  <2> QED
    BY <1>0, <1>1, <2>1, QueueingCarries, CancelTaskCarries, ResetCarries DEF AppCall
<1>2. ASSUME NEW r \in Reqs, Read(r) PROVE \E S : Carries(S)
  BY <1>0, <1>2, ReadCarries
<1>3. CASE CancelAllTasks \/ DestroyContext
  <2>1. CompleteAll /\ UNCHANGED rq
    BY <1>3 DEF CancelAllTasks, DestroyContext, CancelPdus, CancelWaiting
  <2> QED
    BY <1>0, <2>1, CancelCarries
<1>4. CASE \/ CallbackReturns \/ PollOut \/ Tick \/ WriteStops \/ WriteBlocks \/ WriteDone
           \/ TargetNopIn \/ Destroyed
  <2>1. UNCHANGED <<outqueue, waitpdu, rq, results>>
    BY <1>4 DEF CallbackReturns, PollOut, Tick, WriteStops, WriteBlocks, WriteDone,
                TargetNopIn, Destroyed, initiatorVars, vars
  <2> QED
    BY <2>1, StillCarries
<1>5. CASE SendDataOut
  <2>1. UNCHANGED <<waitpdu, rq, results>>
    BY <1>5 DEF SendDataOut
  <2>2. CASE UNCHANGED outqueue
    BY <2>1, <2>2, StillCarries
  <2>3. CASE \E p \in Pdu, callers \in Seq(Frame) :
               p.op = "DATA" /\ AddToOutqueue(outqueue, p, callers)
    <3>1. PICK p \in Pdu, callers \in Seq(Frame) :
            p.op = "DATA" /\ AddToOutqueue(outqueue, p, callers)
      BY <2>3
    <3>2. OwnerOf(p) = {}
      BY <3>1 DEF OwnerOf, DeleteWhenSent
    <3>3. Carries(OwnerOf(p))
      BY <1>0, <2>1, <3>1, <3>2, AddCarries
    <3> QED
      BY <3>3
  <2> QED
    BY <1>0, <1>5, <2>2, <2>3, DataLemma
<1>6. CASE TargetPing
  <2> DEFINE p == NewPdu("PONG", NoReq, cmdsn, 0)
  <2>1. p \in Pdu /\ p.op = "PONG"
    <3>1. cmdsn \in Serial /\ "PONG" \in Ops
      BY <1>0 DEF TypeOK, Ops
    <3> QED
      BY <3>1, NewPduType
  <2>2. /\ AddToOutqueue(outqueue, p, <<>>) /\ <<>> \in Seq(Frame)
        /\ UNCHANGED <<waitpdu, rq, results>>
    BY <1>6 DEF TargetPing
  <2> HIDE DEF p
  <2>3. OwnerOf(p) = {}
    BY <2>1 DEF OwnerOf, DeleteWhenSent
  <2>4. Carries(OwnerOf(p))
    BY <1>0, <2>1, <2>2, <2>3, AddCarries
  <2> QED
    BY <2>4
<1>7. CASE FailRead \/ ReadError \/ WriteStale \/ WriteError
  <2>1. (\E callers : ServiceFails(callers)) /\ UNCHANGED rq
    BY <1>7 DEF FailRead, ReadError, WriteStale, WriteError, Unsolicited
  <2> QED
    BY <1>0, <2>1, ServiceFailsCarries
<1>8. CASE FinishPdu \/ FinishReject
  BY <1>8, UnlinkCarries
<1>9. CASE ScanOutqueue \/ ScanWaitpdu
  <2>1. Head(agenda) \in Stack /\ Head(agenda).do \in {"scan_out", "scan_wait"}
    BY <1>0, <1>9, StackOf DEF ScanOutqueue, ScanWaitpdu, Doing, TypeOK, Stack
  <2> QED
    BY <2>1 DEF LostInv, UnlinkedIsDone
<1>10. CASE UNCHANGED vars
  BY <1>10, StillCarries DEF vars, initiatorVars
<1> QED
  BY <1>1, <1>2, <1>3, <1>4, <1>5, <1>6, <1>7, <1>8, <1>9, <1>10, PopCarries, <1>0
     DEF Next, Write

\* What any step pushes on the stack.
LEMMA NextFrames ==
  ASSUME TypeOK, [Next]_vars
  PROVE  \A f \in Stack' : f \in Stack \/ Quiet(f) \/ Answered(f)
<1>1. ASSUME NEW r \in Reqs, AppCall(r) PROVE \A f \in Stack' : f \in Stack \/ Quiet(f)
  BY <1>1, CallFrames
<1>2. ASSUME NEW r \in Reqs, Read(r) PROVE \A f \in Stack' : Quiet(f) \/ Answered(f)
  BY <1>2, ReadFrames
<1>3. CASE CancelAllTasks \/ DestroyContext
  BY <1>3, CallFrames
<1>4. CASE UNCHANGED vars
  BY <1>4 DEF vars, Stack
<1> QED
  BY <1>1, <1>2, <1>3, <1>4, LibraryFrames DEF Next

\* The invariant is inductive.
LEMMA LostInvInductive ==
  ASSUME Timeouts = FALSE, "lun_reset" \notin Calls
  PROVE  /\ Init => LostInv
         /\ LostInv /\ [Next]_vars => LostInv'
<1>1. ASSUME Init PROVE LostInv
  <2>1. NoneLost /\ UnlinkedIsDone
    BY <1>1 DEF Init, NoneLost, Unused, UnlinkedIsDone, Stack, ToSet
  <2> QED
    BY <1>1, <2>1, InitType DEF LostInv
<1>2. ASSUME LostInv, [Next]_vars PROVE LostInv'
  <2>1. TypeOK /\ TypeOK'
    BY <1>2, NextType DEF LostInv
  <2>2. PICK S : Carries(S)
    BY <1>2, NextCarries
  <2>3. NoneLost'
    BY <1>2, <2>2, CarriesLemma DEF LostInv
  <2>4. ASSUME NEW f \in Stack'
        PROVE  /\ f.do \notin {"scan_out", "scan_wait"}
               /\ f.do \in Unlinking => f.req \in Reqs /\ results'[f.req] # <<>>
    <3>1. CASE f \in Stack
      BY <1>2, <2>2, <3>1 DEF LostInv, UnlinkedIsDone, Carries
    <3>2. CASE Quiet(f)
      BY <3>2 DEF Quiet
    <3>3. CASE Answered(f)
      BY <2>1, <3>3 DEF Answered, TypeOK, Unlinking
    <3> QED
      BY <1>2, <2>1, <3>1, <3>2, <3>3, NextFrames
  <2>5. UnlinkedIsDone'
    BY <2>4 DEF UnlinkedIsDone
  <2> QED
    BY <2>1, <2>3, <2>5 DEF LostInv
<1> QED
  BY <1>1, <1>2

\* A request that has not had its callback is in one of the lists from which
\* the library completes requests: whatever the callbacks call, whatever is
\* cancelled, reset, rejected or destroyed, and whenever the connection fails.
\* The timeout scan and the LUN reset are left out because they do drop
\* requests (src/lib/pdu.c:943, src/lib/pdu.c:1053).
THEOREM NoneLostCorrect ==
  ASSUME Timeouts = FALSE, "lun_reset" \notin Calls
  PROVE  Spec => []NoneLost
<1>1. LostInv => NoneLost
  BY DEF LostInv
<1> QED
  BY <1>1, LostInvInductive, PTL DEF Spec

\* abort_task_set and the target resets complete every task, also the ones
\* whose PDU is half written and the ones queued from inside a callback.
THEOREM ResetCancelsCorrect ==
  ASSUME Timeouts = FALSE, "lun_reset" \notin Calls
  PROVE  Spec => ResetCancels
<1>1. LostInv /\ [Next]_vars =>
        [ \A r \in Reqs : ResetAsync(r) =>
            \A t \in Reqs : rq[t].kind \in ScsiKinds => results'[t] # <<>> ]_vars
  <2> SUFFICES ASSUME LostInv, NEW r \in Reqs, ResetAsync(r),
                      NEW t \in Reqs, rq[t].kind \in ScsiKinds
               PROVE  results'[t] # <<>>
    OBVIOUS
  <2>1. "CANCELLED" \in Statuses /\ Complete(Owners(outqueue) \cup Owners(waitpdu), "CANCELLED")
    BY DEF Statuses, ResetAsync, CancelWaiting, CompleteAll
  <2>2. results[t] # <<>> \/ t \in Owners(outqueue) \cup Owners(waitpdu)
    BY DEF LostInv, NoneLost, ScsiKinds
  <2> QED
    BY <2>1, <2>2, CompleteGrows DEF LostInv
<1> QED
  BY <1>1, LostInvInductive, PTL DEF Spec, ResetCancels

-----------------------------------------------------------------------------
(* No PDU is torn. *)

\* The request whose own PDU is being written.
Writing == IF current = NoPdu THEN {} ELSE OwnerOf(current)

\* The requests whose own PDU the target has received, as far as the library
\* is not done with them.
Sent == atTarget \cup {f.req : f \in {g \in Stack : g.do \in Unlinking}}

\* The requests whose own PDU is on its way.
OnTheWay == Owners(outqueue) \cup Writing

\* The inductive invariant: the PDU of a request is queued, then written,
\* then with the target, and in one of these places at a time.
TornInv ==
  /\ TypeOK
  /\ SingleOwner(outqueue)
  /\ \A i \in DOMAIN waitpdu : ~DeleteWhenSent(waitpdu[i])
  /\ Owners(outqueue) \cap Writing = {}
  /\ OnTheWay \cap Sent = {}
  /\ \A r \in OnTheWay \cup Sent : r \in Reqs /\ rq[r].kind # "unused"
  /\ \A f \in Stack : f.do \in {"scan_out", "scan_wait"} => Timeouts

\* A step in these terms: the requests of S are queued, others move on.
Moves(S) ==
  /\ SingleOwner(outqueue)'
  /\ \A i \in DOMAIN waitpdu' : ~DeleteWhenSent(waitpdu'[i])
  /\ (Owners(outqueue) \cap Writing)' = {}
  /\ OnTheWay' \subseteq OnTheWay \cup S
  /\ \A r \in S : r \in Reqs /\ rq[r].kind = "unused" /\ rq'[r].kind # "unused"
  /\ \A r \in Reqs : rq[r].kind # "unused" => rq'[r].kind # "unused"
  /\ atTarget' \subseteq atTarget \cup (Writing \ OnTheWay')

\* Such a step keeps the invariant.
LEMMA MovesLemma ==
  ASSUME TornInv, [Next]_vars, NEW S, Moves(S)
  PROVE  TornInv'
<1>1. TypeOK /\ TypeOK'
  BY NextType DEF TornInv
<1>2. \A f \in Stack' : f \in Stack \/ Quiet(f) \/ Answered(f)
  BY <1>1, NextFrames
<1>3. Sent' \subseteq Sent \cup (Writing \ OnTheWay')
  <2> SUFFICES ASSUME NEW f \in Stack', f.do \in Unlinking PROVE f.req \in Sent
    BY DEF Sent, Moves
  <2> QED
    BY <1>2 DEF Sent, Quiet, Answered
<1>4. (OnTheWay \cap Sent)' = {}
  BY <1>3 DEF TornInv, Moves, OnTheWay
<1>5. \A r \in OnTheWay' \cup Sent' : r \in Reqs /\ rq'[r].kind # "unused"
  BY <1>3 DEF TornInv, Moves, OnTheWay
<1>6. \A f \in Stack' : f.do \in {"scan_out", "scan_wait"} => Timeouts
  BY <1>2 DEF TornInv, Quiet, Answered, Unlinking
<1> QED
  BY <1>1, <1>4, <1>5, <1>6 DEF TornInv, Moves

\* Nothing new is queued or written, and nothing reaches the target.
LEMMA ShrinksMove ==
  ASSUME TornInv, NEW o, outqueue' = o, SingleOwner(o), Owners(o) \subseteq Owners(outqueue),
         current' \in {current, NoPdu}, atTarget' \subseteq atTarget, UNCHANGED rq,
         \A i \in DOMAIN waitpdu' : ~DeleteWhenSent(waitpdu'[i])
  PROVE  Moves({})
<1>1. Owners(outqueue)' = Owners(o) /\ SingleOwner(outqueue)' = SingleOwner(o)
  BY DEF Owners, SingleOwner
<1>2. Writing' \subseteq Writing
  BY DEF Writing, OwnerOf, DeleteWhenSent
<1> QED
  BY <1>1, <1>2 DEF Moves, OnTheWay, TornInv

\* A new request is queued.
LEMMA SubmitMoves ==
  ASSUME TornInv, NEW q \in Seq(Pdu), SingleOwner(q), Owners(q) \subseteq Owners(outqueue),
         NEW r \in Reqs, rq[r].kind = "unused", NEW p \in Pdu, p.req = r,
         NEW callers \in Seq(Frame), AddToOutqueue(q, p, callers),
         current' \in {current, NoPdu}, UNCHANGED atTarget,
         rq'[r].kind # "unused", \A t \in Reqs \ {r} : rq'[t].kind = rq[t].kind,
         \A i \in DOMAIN waitpdu' : ~DeleteWhenSent(waitpdu'[i])
  PROVE  Moves({r})
<1>1. r \notin OnTheWay
  BY DEF TornInv
<1>2. OwnerOf(p) \subseteq {r} /\ OwnerOf(p) \cap Owners(q) = {}
  BY <1>1 DEF OwnerOf, OnTheWay
<1>3. Owners(outqueue') = Owners(q) \cup OwnerOf(p) /\ SingleOwner(outqueue')
  BY <1>2, AddLemma
<1>4. Owners(outqueue)' = Owners(outqueue') /\ SingleOwner(outqueue)' = SingleOwner(outqueue')
  BY DEF Owners, SingleOwner
<1>5. Writing' \subseteq Writing
  BY DEF Writing, OwnerOf, DeleteWhenSent
<1> QED
  BY <1>1, <1>2, <1>3, <1>4, <1>5 DEF Moves, OnTheWay, TornInv

\* A DATA-OUT or a PONG is queued.
LEMMA NobodysMove ==
  ASSUME TornInv, NEW p \in Pdu, DeleteWhenSent(p), NEW callers \in Seq(Frame),
         AddToOutqueue(outqueue, p, callers), UNCHANGED <<current, waitpdu, atTarget, rq>>
  PROVE  Moves({})
<1>1. PICK o : o = outqueue'
  OBVIOUS
<1>2. Owners(o) = Owners(outqueue) /\ SingleOwner(o)
  BY <1>1, AddLemma DEF TornInv, TypeOK, OwnerOf
<1> QED
  BY <1>1, <1>2, ShrinksMove DEF TornInv

\* What is left of a list when its head is taken.
LEMMA TailOwners ==
  ASSUME NEW s \in Seq(Pdu), s # <<>>, SingleOwner(s)
  PROVE  /\ SingleOwner(Tail(s))
         /\ Owners(Tail(s)) \subseteq Owners(s) \ OwnerOf(Head(s))
         /\ OwnerOf(Head(s)) \subseteq Owners(s)
<1> DEFINE p == Head(s)
           o == Tail(s)
<1>1. /\ DOMAIN s = 1 .. Len(s) /\ Len(s) \in Nat /\ Len(s) > 0 /\ p = s[1]
      /\ DOMAIN o = 1 .. (Len(s) - 1)
      /\ \A i \in DOMAIN o : i + 1 \in DOMAIN s /\ o[i] = s[i + 1]
  BY HeadTailProperties, LenProperties, EmptySeq
<1> HIDE DEF p, o
<1>2. SingleOwner(o)
  BY <1>1 DEF SingleOwner
<1>3. Owners(o) \subseteq Owners(s)
  BY <1>1 DEF Owners
<1>4. ASSUME NEW i \in DOMAIN o, ~DeleteWhenSent(o[i]), ~DeleteWhenSent(p), o[i].req = p.req
      PROVE  FALSE
  <2>1. i + 1 = 1
    BY <1>1, <1>4 DEF SingleOwner
  <2> QED
    BY <1>1, <2>1
<1>5. Owners(o) \subseteq Owners(s) \ OwnerOf(p)
  BY <1>3, <1>4 DEF Owners, OwnerOf
<1>6. OwnerOf(p) \subseteq Owners(s)
  BY <1>1 DEF Owners, OwnerOf
<1> QED
  BY <1>2, <1>5, <1>6 DEF o, p

\* The head of the outqueue becomes the PDU being written.
LEMMA PopMoves ==
  ASSUME TornInv, WritePop
  PROVE  Moves({})
<1> DEFINE p == Head(outqueue)
           o == Tail(outqueue)
<1>1. /\ outqueue # <<>> /\ outqueue' = o /\ current = NoPdu /\ current' = p
      /\ waitpdu' = IF DeleteWhenSent(p) THEN waitpdu ELSE Append(waitpdu, p)
      /\ UNCHANGED <<rq, atTarget>>
  BY DEF WritePop, CanPop, targetVars
<1>2. outqueue \in Seq(Pdu) /\ waitpdu \in Seq(Pdu) /\ p \in Pdu /\ SingleOwner(outqueue)
  BY <1>1, ListType DEF TornInv, TypeOK
<1>3. /\ SingleOwner(o) /\ Owners(o) \subseteq Owners(outqueue) \ OwnerOf(p)
      /\ OwnerOf(p) \subseteq Owners(outqueue)
  BY <1>1, <1>2, TailOwners
<1>4. \A i \in DOMAIN waitpdu' : ~DeleteWhenSent(waitpdu'[i])
  <2>1. CASE DeleteWhenSent(p)
    BY <1>1, <2>1 DEF TornInv
  <2>2. CASE ~DeleteWhenSent(p)
    <3> DEFINE w == Append(waitpdu, p)
    <3>1. /\ DOMAIN waitpdu = 1 .. Len(waitpdu) /\ Len(waitpdu) \in Nat
          /\ DOMAIN w = 1 .. (Len(waitpdu) + 1) /\ w[Len(waitpdu) + 1] = p
          /\ \A i \in DOMAIN waitpdu : w[i] = waitpdu[i]
      BY <1>2, AppendProperties, LenProperties
    <3> HIDE DEF w, p
    <3>2. \A i \in DOMAIN w : i \in DOMAIN waitpdu \/ i = Len(waitpdu) + 1
      BY <3>1
    <3>3. \A i \in DOMAIN w : ~DeleteWhenSent(w[i])
      BY <2>2, <3>1, <3>2 DEF TornInv
    <3> QED
      BY <1>1, <2>2, <3>3 DEF w
  <2> QED
    BY <2>1, <2>2
<1> HIDE DEF p, o
<1>5. Owners(outqueue)' = Owners(o) /\ SingleOwner(outqueue)' = SingleOwner(o)
  BY <1>1 DEF Owners, SingleOwner
<1>6. Writing' \subseteq OwnerOf(p)
  BY <1>1 DEF Writing, OwnerOf, DeleteWhenSent
<1> QED
  BY <1>1, <1>3, <1>4, <1>5, <1>6 DEF Moves, OnTheWay

\* A PDU that is written to its end is with the target.
LEMMA DoneMoves ==
  ASSUME TornInv, WriteDone
  PROVE  Moves({})
<1>1. /\ current # NoPdu /\ current' = NoPdu /\ UNCHANGED <<outqueue, waitpdu, rq>>
      /\ atTarget' = IF DeleteWhenSent(current) THEN atTarget ELSE atTarget \cup {current.req}
  BY DEF WriteDone, TargetReceives
<1>2. atTarget' \subseteq atTarget \cup Writing /\ Writing' = {}
  BY <1>1 DEF Writing, OwnerOf
<1>3. Owners(outqueue)' = Owners(outqueue) /\ SingleOwner(outqueue)' = SingleOwner(outqueue)
  BY <1>1 DEF Owners, SingleOwner
<1> QED
  BY <1>1, <1>2, <1>3 DEF Moves, OnTheWay, TornInv

\* PDUs taken out of the outqueue, the others renumbered perhaps.
LEMMA RetainShrinks ==
  ASSUME TornInv, NEW X \in SUBSET DOMAIN outqueue, NEW I \in SUBSET DOMAIN outqueue,
         NEW q, q \in Retain(outqueue, I) \/ q \in Retain(Renumber(outqueue, X), I)
  PROVE  q \in Seq(Pdu) /\ SingleOwner(q) /\ Owners(q) \subseteq Owners(outqueue)
<1> DEFINE t == Renumber(outqueue, X)
<1> HIDE DEF t
<1>1. outqueue \in Seq(Pdu) /\ SingleOwner(outqueue)
  BY DEF TornInv, TypeOK
<1>2. t \in Seq(Pdu) /\ DOMAIN t = DOMAIN outqueue /\ SingleOwner(t) /\ Owners(t) = Owners(outqueue)
  BY <1>1, RenumberType, RenumberOwners DEF t
<1>3. ASSUME NEW s \in Seq(Pdu), SingleOwner(s), DOMAIN s = DOMAIN outqueue,
             Owners(s) = Owners(outqueue), q \in Retain(s, I)
      PROVE  q \in Seq(Pdu) /\ SingleOwner(q) /\ Owners(q) \subseteq Owners(outqueue)
  <2>1. /\ q \in Seq(Pdu) /\ SingleOwner(q)
        /\ Owners(q) = {s[i].req : i \in {j \in I : ~DeleteWhenSent(s[j])}}
    BY <1>3, RetainType, RetainOwners
  <2>2. Owners(q) \subseteq Owners(s)
    BY <1>3, <2>1 DEF Owners
  <2> QED
    BY <1>3, <2>1, <2>2
<1> QED
  BY <1>1, <1>2, <1>3 DEF t

\* PDUs taken out of waitpdu leave no DATA-OUT or PONG in it.
LEMMA WaitStaysOwned ==
  ASSUME TornInv, NEW I \in SUBSET DOMAIN waitpdu,
         waitpdu' \in Retain(waitpdu, I) \/ UNCHANGED waitpdu \/ waitpdu' = <<>>
  PROVE  \A i \in DOMAIN waitpdu' : ~DeleteWhenSent(waitpdu'[i])
<1>1. PICK w : w = waitpdu'
  OBVIOUS
<1>2. CASE w \in Retain(waitpdu, I)
  <2>1. \A i \in DOMAIN w : ~DeleteWhenSent(w[i])
    BY <1>2, RetainOwners DEF TornInv, TypeOK
  <2> QED
    BY <1>1, <2>1
<1>3. CASE UNCHANGED waitpdu
  BY <1>3 DEF TornInv
<1>4. CASE waitpdu' = <<>>
  BY <1>4
<1> QED
  BY <1>1, <1>2, <1>3, <1>4

\* The calls that queue one PDU.
LEMMA QueueingMoves ==
  ASSUME TornInv, NEW r \in Reqs,
         \/ \E kind \in ScsiKinds, lun \in Luns : CommandAsync(r, kind, lun)
         \/ NopOutAsync(r) \/ (\E t \in Reqs : AbortTaskAsync(r, t)) \/ LogoutAsync(r)
  PROVE  Moves({r})
<1>1. /\ TypeOK /\ cmdsn \in Serial /\ agenda \in Seq(Frame) /\ outqueue \in Seq(Pdu)
      /\ SingleOwner(outqueue)
  BY DEF TypeOK, TornInv
<1>2. UNCHANGED <<waitpdu, current, atTarget>> /\ rq[r].kind = "unused"
  BY DEF CommandAsync, NopOutAsync, AbortTaskAsync, LogoutAsync, targetVars
<1>3. rq'[r].kind # "unused" /\ \A t \in Reqs \ {r} : rq'[t].kind = rq[t].kind
  BY <1>1 DEF TypeOK, CommandAsync, NopOutAsync, AbortTaskAsync, LogoutAsync, ScsiKinds
<1>4. \E op \in Ops \ {"PONG", "DATA"}, callers \in Seq(Frame) :
        AddToOutqueue(outqueue, NewPdu(op, r, cmdsn, 0), callers)
  <2>1. ASSUME NEW kind \in ScsiKinds, NEW lun \in Luns, CommandAsync(r, kind, lun)
        PROVE  \E callers \in Seq(Frame) :
                 AddToOutqueue(outqueue, NewPdu("SCSI", r, cmdsn, 0), callers)
    <3>1. PICK n \in (IF kind = "read" THEN {0} ELSE 0 .. MaxUnsolicited) :
            AddToOutqueue(outqueue, NewPdu("SCSI", r, cmdsn, 0), SendData(r, 0, n) \o agenda)
      BY <2>1 DEF CommandAsync
    <3>2. n \in Nat
      BY ConstantsAssumption
    <3>3. SendData(r, 0, n) \o agenda \in Seq(Frame)
      BY <1>1, <3>2, FrameType
    <3> QED
      BY <3>1, <3>3
  <2> QED
    BY <1>1, <2>1 DEF NopOutAsync, AbortTaskAsync, LogoutAsync, Ops
<1>5. PICK op \in Ops \ {"PONG", "DATA"}, callers \in Seq(Frame) :
        AddToOutqueue(outqueue, NewPdu(op, r, cmdsn, 0), callers)
  BY <1>4
<1> DEFINE p == NewPdu(op, r, cmdsn, 0)
<1>6. p \in Pdu /\ p.req = r
  BY <1>1, NewPduType
<1>7. AddToOutqueue(outqueue, p, callers)
  BY <1>5
<1> HIDE DEF p
<1>8. \A i \in DOMAIN waitpdu' : ~DeleteWhenSent(waitpdu'[i])
  BY <1>2 DEF TornInv
<1> QED
  BY <1>1, <1>2, <1>3, <1>6, <1>7, <1>8, SubmitMoves

\* The resets: tasks are cancelled, then the request is queued.
LEMMA ResetMoves ==
  ASSUME TornInv, NEW r \in Reqs, ResetAsync(r) \/ \E lun \in Luns : LunResetAsync(r, lun)
  PROVE  \E S : Moves(S)
<1>1. /\ TypeOK /\ agenda \in Seq(Frame) /\ rq[r].kind = "unused" /\ "TMF" \in Ops
      /\ UNCHANGED atTarget
  BY DEF TornInv, TypeOK, ResetAsync, LunResetAsync, Ops, targetVars
<1>2. ASSUME NEW q \in Seq(Pdu), SingleOwner(q), Owners(q) \subseteq Owners(outqueue),
             NEW sn \in Serial, current' \in {current, NoPdu},
             \A i \in DOMAIN waitpdu' : ~DeleteWhenSent(waitpdu'[i]),
             \/ /\ rq' = [rq EXCEPT ![r].kind = "tmf"]
                /\ AddToOutqueue(q, NewPdu("TMF", r, sn, 0), agenda)
             \/ outqueue' = q /\ UNCHANGED rq
      PROVE  \E S : Moves(S)
  <2>1. CASE outqueue' = q /\ UNCHANGED rq
    <3>1. Moves({})
      BY <1>1, <1>2, <2>1, ShrinksMove
    <3> QED
      BY <3>1
  <2>2. CASE /\ rq' = [rq EXCEPT ![r].kind = "tmf"]
             /\ AddToOutqueue(q, NewPdu("TMF", r, sn, 0), agenda)
    <3> DEFINE p == NewPdu("TMF", r, sn, 0)
    <3>1. p \in Pdu /\ p.req = r
      BY <1>1, NewPduType
    <3>2. AddToOutqueue(q, p, agenda)
      BY <2>2
    <3> HIDE DEF p
    <3>3. rq'[r].kind # "unused" /\ \A t \in Reqs \ {r} : rq'[t].kind = rq[t].kind
      BY <1>1, <2>2 DEF TypeOK
    <3>4. Moves({r})
      BY <1>1, <1>2, <3>1, <3>2, <3>3, SubmitMoves
    <3> QED
      BY <3>4
  <2> QED
    BY <1>2, <2>1, <2>2
<1>3. ASSUME ResetAsync(r) PROVE \E S : Moves(S)
  <2> DEFINE q == <<>>
             sn == CmdSNWithout(DOMAIN outqueue)
  <2>1. q \in Seq(Pdu) /\ SingleOwner(q) /\ Owners(q) \subseteq Owners(outqueue)
    BY DEF SingleOwner, Owners
  <2>2. sn \in Serial
    BY <1>1, CmdSNWithoutType
  <2>3. /\ current' \in {current, NoPdu} /\ waitpdu' = <<>>
        /\ \/ /\ rq' = [rq EXCEPT ![r].kind = "tmf"]
              /\ AddToOutqueue(q, NewPdu("TMF", r, sn, 0), agenda)
           \/ outqueue' = q /\ UNCHANGED rq
    BY <1>3 DEF ResetAsync, CancelWaiting
  <2> HIDE DEF q, sn
  <2>4. \A i \in DOMAIN waitpdu' : ~DeleteWhenSent(waitpdu'[i])
    BY <2>3
  <2> QED
    BY <1>2, <2>1, <2>2, <2>3, <2>4
<1>4. ASSUME NEW lun \in Luns, LunResetAsync(r, lun) PROVE \E S : Moves(S)
  <2> DEFINE X == {i \in DOMAIN outqueue : /\ HasTask(outqueue[i])
                                           /\ rq[outqueue[i].req].lun = lun}
             I == DOMAIN outqueue \ X
             sn == CmdSNWithout(X)
  <2>1. X \in SUBSET DOMAIN outqueue /\ I \in SUBSET DOMAIN outqueue
    OBVIOUS
  <2>2. sn \in Serial
    BY <1>1, <2>1, CmdSNWithoutType
  <2>3. /\ UNCHANGED <<current, waitpdu>>
        /\ \E q \in Retain(Renumber(outqueue, X), I) :
             \/ /\ rq' = [rq EXCEPT ![r].kind = "tmf"]
                /\ AddToOutqueue(q, NewPdu("TMF", r, sn, 0), agenda)
             \/ outqueue' = q /\ UNCHANGED rq
    BY <1>4 DEF LunResetAsync
  <2> HIDE DEF X, I, sn
  <2>4. PICK q \in Retain(Renumber(outqueue, X), I) :
             \/ /\ rq' = [rq EXCEPT ![r].kind = "tmf"]
                /\ AddToOutqueue(q, NewPdu("TMF", r, sn, 0), agenda)
             \/ outqueue' = q /\ UNCHANGED rq
    BY <2>3
  <2>5. q \in Seq(Pdu) /\ SingleOwner(q) /\ Owners(q) \subseteq Owners(outqueue)
    BY <2>1, <2>4, RetainShrinks
  <2>6. \A i \in DOMAIN waitpdu' : ~DeleteWhenSent(waitpdu'[i])
    BY <2>3 DEF TornInv
  <2> QED
    BY <1>2, <2>2, <2>3, <2>4, <2>5, <2>6
<1> QED
  BY <1>3, <1>4

\* The steps that queue no new request and write nothing.
LEMMA OtherMoves ==
  ASSUME TornInv,
         \/ (\E r \in Reqs : CancelTask(r) \/ Read(r)) \/ CancelAllTasks \/ DestroyContext
         \/ CallbackReturns \/ FinishPdu \/ FinishReject \/ FailRead \/ PollOut \/ Tick
         \/ WriteStops \/ WriteStale \/ WriteBlocks \/ WriteError
         \/ ScanOutqueue \/ ScanWaitpdu \/ TargetNopIn \/ ReadError \/ Destroyed
         \/ UNCHANGED vars
  PROVE  Moves({})
<1>0. outqueue \in Seq(Pdu) /\ SingleOwner(outqueue) /\ {} \in SUBSET DOMAIN outqueue
  BY DEF TornInv, TypeOK
<1>1. UNCHANGED rq /\ atTarget' \subseteq atTarget
  BY DEF CancelTask, Read, Reply, Reject, MalformedReply, DataIn, R2T, Unsolicited, CancelAllTasks,
         DestroyContext, CallbackReturns, FinishPdu, FinishReject, FailRead, PollOut, Tick,
         WriteStops, WriteStale, WriteBlocks, WriteError, ScanOutqueue, ScanWaitpdu,
         TargetNopIn, ReadError, Destroyed, targetVars, initiatorVars, vars
<1>2. current' \in {current, NoPdu}
  BY DEF CancelTask, Read, Reply, Reject, MalformedReply, DataIn, R2T, Unsolicited, CancelAllTasks,
         DestroyContext, CallbackReturns, FinishPdu, FinishReject, FailRead, PollOut, Tick,
         WriteStops, WriteStale, WriteBlocks, WriteError, ScanOutqueue, ScanWaitpdu,
         TargetNopIn, ReadError, Destroyed, ServiceFails, CancelPdus, CancelWaiting, FreePdu,
         initiatorVars, vars
<1>3. \E I \in SUBSET DOMAIN waitpdu :
        waitpdu' \in Retain(waitpdu, I) \/ UNCHANGED waitpdu \/ waitpdu' = <<>>
  <2>1. CASE \/ CancelAllTasks \/ DestroyContext \/ CallbackReturns \/ PollOut \/ Tick
             \/ WriteStops \/ WriteBlocks \/ ScanOutqueue \/ TargetNopIn \/ Destroyed \/ UNCHANGED vars
    BY <2>1 DEF CancelAllTasks, DestroyContext, CallbackReturns, PollOut, Tick, WriteStops,
                WriteBlocks, ScanOutqueue, TargetNopIn, Destroyed, CancelPdus, CancelWaiting,
                initiatorVars, vars
  <2>2. CASE FailRead \/ ReadError \/ WriteStale \/ WriteError \/ \E r \in Reqs : Read(r)
    BY <2>2 DEF FailRead, ReadError, WriteStale, WriteError, Unsolicited, ServiceFails, CancelPdus,
                CancelWaiting, Read, Reply, Reject, MalformedReply, DataIn, R2T, initiatorVars
  <2>3. ASSUME NEW r, waitpdu' \in Retain(waitpdu, {i \in DOMAIN waitpdu : waitpdu[i].req # r})
        PROVE  \E I \in SUBSET DOMAIN waitpdu : waitpdu' \in Retain(waitpdu, I)
    BY <2>3
  <2>4. CASE (\E r \in Reqs : CancelTask(r)) \/ FinishPdu \/ FinishReject
    BY <2>3, <2>4 DEF CancelTask, FinishPdu, FinishReject
  <2>5. CASE ScanWaitpdu
    BY <2>5 DEF ScanWaitpdu
  <2> QED
    BY <2>1, <2>2, <2>4, <2>5
<1>4. \A i \in DOMAIN waitpdu' : ~DeleteWhenSent(waitpdu'[i])
  BY <1>3, WaitStaysOwned
<1>5. PICK o : o = outqueue'
  OBVIOUS
<1>6. \/ o = outqueue \/ o = <<>>
      \/ \E I, X \in SUBSET DOMAIN outqueue :
           o \in Retain(outqueue, I) \/ o \in Retain(Renumber(outqueue, X), I)
  <2>1. CASE \/ CancelAllTasks \/ DestroyContext \/ CallbackReturns \/ PollOut \/ Tick
             \/ WriteStops \/ WriteBlocks \/ ScanWaitpdu \/ TargetNopIn \/ Destroyed \/ UNCHANGED vars
             \/ FinishPdu \/ FinishReject
    BY <1>5, <2>1 DEF CancelAllTasks, DestroyContext, CallbackReturns, PollOut, Tick, WriteStops,
                WriteBlocks, ScanWaitpdu, TargetNopIn, Destroyed, CancelPdus, CancelWaiting,
                FinishPdu, FinishReject, initiatorVars, vars
  <2>2. CASE FailRead \/ ReadError \/ WriteStale \/ WriteError \/ \E r \in Reqs : Read(r)
    BY <1>5, <2>2 DEF FailRead, ReadError, WriteStale, WriteError, Unsolicited, ServiceFails, CancelPdus,
                CancelWaiting, Read, Reply, Reject, MalformedReply, DataIn, R2T, initiatorVars
  <2>3. ASSUME NEW r, o \in Retain(outqueue, {i \in DOMAIN outqueue : outqueue[i].req # r})
        PROVE  \E I \in SUBSET DOMAIN outqueue : o \in Retain(outqueue, I)
    BY <2>3
  <2>4. CASE \E r \in Reqs : CancelTask(r)
    BY <1>5, <2>3, <2>4 DEF CancelTask
  <2>5. CASE ScanOutqueue
    BY <1>5, <2>5 DEF ScanOutqueue
  <2> QED
    BY <2>1, <2>2, <2>4, <2>5
<1>7. SingleOwner(o) /\ Owners(o) \subseteq Owners(outqueue)
  <2>1. CASE o = <<>>
    BY <2>1 DEF SingleOwner, Owners
  <2> QED
    BY <1>0, <1>6, <2>1, RetainShrinks
<1> QED
  BY <1>1, <1>2, <1>4, <1>5, <1>7, ShrinksMove

\* The invariant is inductive, whatever the constants are.
LEMMA TornInvInductive ==
  /\ Init => TornInv
  /\ TornInv /\ [Next]_vars => TornInv'
<1>1. ASSUME Init PROVE TornInv
  <2>1. TypeOK
    BY <1>1, InitType
  <2>2. /\ SingleOwner(outqueue) /\ Owners(outqueue) = {} /\ Writing = {} /\ Stack = {}
        /\ atTarget = {} /\ waitpdu = <<>>
    BY <1>1 DEF Init, SingleOwner, Owners, Writing, Stack, ToSet
  <2> QED
    BY <2>1, <2>2 DEF TornInv, OnTheWay, Sent
<1>2. ASSUME TornInv, [Next]_vars PROVE TornInv'
  <2>1. ASSUME NEW r \in Reqs, AppCall(r) PROVE \E S : Moves(S)
    BY <1>2, <2>1, QueueingMoves, ResetMoves, OtherMoves DEF AppCall
  <2>2. CASE SendDataOut
    <3>1. UNCHANGED <<current, waitpdu, atTarget, rq>> /\ TypeOK
      BY <1>2, <2>2 DEF SendDataOut, targetVars, TornInv
    <3>2. CASE \E p \in Pdu, callers \in Seq(Frame) :
                 p.op = "DATA" /\ AddToOutqueue(outqueue, p, callers)
      <4>1. Moves({})
        BY <1>2, <3>1, <3>2, NobodysMove DEF DeleteWhenSent
      <4> QED
        BY <1>2, <4>1, MovesLemma
    <3>3. CASE UNCHANGED outqueue
      <4>1. SingleOwner(outqueue) /\ \A i \in DOMAIN waitpdu' : ~DeleteWhenSent(waitpdu'[i])
        BY <1>2, <3>1 DEF TornInv
      <4>2. Moves({})
        BY <1>2, <3>1, <3>3, <4>1, ShrinksMove
      <4> QED
        BY <1>2, <4>2, MovesLemma
    <3> QED
      BY <2>2, <3>1, <3>2, <3>3, DataLemma
  <2>3. CASE TargetPing
    <3> DEFINE p == NewPdu("PONG", NoReq, cmdsn, 0)
    <3>1. /\ AddToOutqueue(outqueue, p, <<>>) /\ <<>> \in Seq(Frame)
          /\ UNCHANGED <<current, waitpdu, atTarget, rq>>
      BY <2>3 DEF TargetPing
    <3>2. p \in Pdu /\ p.op = "PONG"
      <4>1. cmdsn \in Serial /\ "PONG" \in Ops
        BY <1>2 DEF TornInv, TypeOK, Ops
      <4> QED
        BY <4>1, NewPduType
    <3> HIDE DEF p
    <3>3. Moves({})
      BY <1>2, <3>1, <3>2, NobodysMove DEF DeleteWhenSent
    <3> QED
      BY <1>2, <3>3, MovesLemma
  <2>4. CASE WritePop \/ WriteDone
    BY <1>2, <2>4, PopMoves, DoneMoves, MovesLemma
  <2>5. CASE \/ (\E r \in Reqs : Read(r)) \/ CancelAllTasks \/ DestroyContext
             \/ CallbackReturns \/ FinishPdu \/ FinishReject \/ FailRead \/ PollOut \/ Tick
             \/ WriteStops \/ WriteStale \/ WriteBlocks \/ WriteError
             \/ ScanOutqueue \/ ScanWaitpdu \/ TargetNopIn \/ ReadError \/ Destroyed
             \/ UNCHANGED vars
    BY <1>2, <2>5, OtherMoves, MovesLemma
  <2> QED
    BY <1>2, <2>1, <2>2, <2>3, <2>4, <2>5, MovesLemma DEF Next, Write
<1> QED
  BY <1>1, <1>2

\* Unlinking a PDU after its callback does not touch the one being written.
LEMMA UnlinkTearsNothing ==
  ASSUME TornInv, FinishPdu \/ FinishReject
  PROVE  UNCHANGED current
<1> DEFINE r == Head(agenda).req
<1>1. agenda # <<>> /\ Head(agenda).do \in Unlinking
  BY DEF FinishPdu, FinishReject, Doing, Unlinking
<1>2. Head(agenda) \in Stack
  BY <1>1, StackOf DEF TornInv, TypeOK, Stack
<1>3. r \in Sent
  BY <1>1, <1>2 DEF Sent
<1>4. \/ UNCHANGED current
      \/ \E i \in DOMAIN waitpdu : waitpdu[i].req = r /\ FreePdu(waitpdu[i])
  BY DEF FinishPdu, FinishReject
<1> HIDE DEF r
<1>5. ASSUME NEW i \in DOMAIN waitpdu, waitpdu[i].req = r, FreePdu(waitpdu[i])
      PROVE  UNCHANGED current
  <2>1. CASE current = waitpdu[i] /\ current # NoPdu
    <3>1. ~DeleteWhenSent(current) /\ current.req = r
      BY <1>5, <2>1 DEF TornInv
    <3>2. r \in OnTheWay
      BY <2>1, <3>1 DEF OnTheWay, Writing, OwnerOf
    <3> QED
      BY <1>3, <3>2 DEF TornInv
  <2> QED
    BY <1>5, <2>1 DEF FreePdu
<1> QED
  BY <1>4, <1>5

\* What may happen to the PDU being written.
LEMMA CurrentSteps ==
  ASSUME Timeouts = FALSE, Calls \cap {"cancel_task", "cancel_all", "reset"} = {},
         TornInv, [Next]_vars
  PROVE  \/ UNCHANGED current \/ WritePop \/ WriteDone
         \/ reconnect_deferred' \/ Doing("destroyed")'
<1> SUFFICES ASSUME Next, current' # current
             PROVE  WritePop \/ WriteDone \/ reconnect_deferred' \/ Doing("destroyed")'
  BY DEF vars, initiatorVars
<1>1. ASSUME NEW r \in Reqs, AppCall(r) PROVE FALSE
  BY <1>1 DEF AppCall, CommandAsync, NopOutAsync, AbortTaskAsync, LogoutAsync, LunResetAsync,
              CancelTask, ResetAsync, MayCall
<1>2. ASSUME NEW callers, ServiceFails(callers) PROVE reconnect_deferred'
  BY <1>2 DEF ServiceFails
<1>3. ASSUME NEW r \in Reqs, Read(r) PROVE reconnect_deferred'
  BY <1>2, <1>3 DEF Read, Reply, Reject, MalformedReply, DataIn, R2T, Unsolicited, initiatorVars
<1>4. CASE CancelAllTasks
  BY <1>4 DEF CancelAllTasks, MayCall
<1>5. CASE DestroyContext
  BY <1>5 DEF DestroyContext, Doing, Do
<1>6. CASE FailRead \/ ReadError \/ WriteStale \/ WriteError
  BY <1>2, <1>6 DEF FailRead, ReadError, WriteStale, WriteError, Unsolicited
<1>7. CASE FinishPdu \/ FinishReject
  BY <1>7, UnlinkTearsNothing
<1>8. CASE \/ CallbackReturns \/ SendDataOut \/ PollOut \/ Tick \/ WriteStops \/ WriteBlocks
           \/ ScanOutqueue \/ TargetNopIn \/ TargetPing \/ Destroyed
  BY <1>8 DEF CallbackReturns, SendDataOut, PollOut, Tick, WriteStops, WriteBlocks, ScanOutqueue,
              TargetNopIn, TargetPing, Destroyed, initiatorVars, vars
<1>9. CASE ScanWaitpdu
  <2>1. Head(agenda) \in Stack /\ Head(agenda).do = "scan_wait"
    BY <1>9, StackOf DEF ScanWaitpdu, Doing, TornInv, TypeOK, Stack
  <2> QED
    BY <2>1 DEF TornInv
<1> QED
  BY <1>1, <1>3, <1>4, <1>5, <1>6, <1>7, <1>8, <1>9 DEF Next, Write

\* A PDU that is partly written is written to its end, unless the connection
\* fails or the context is destroyed: no reply, no REJECT and no callback
\* makes the library drop the rest of it.  The calls that cancel tasks and
\* the timeout scan are left out because they do: they free a PDU of waitpdu
\* that is still being written, and iscsi_tcp_free_pdu clears
\* outqueue_current (src/lib/pdu.c:975).
THEOREM NoTornPduCorrect ==
  ASSUME Timeouts = FALSE, Calls \cap {"cancel_task", "cancel_all", "reset"} = {}
  PROVE  Spec => NoTornPdu
<1>1. TornInv /\ [Next]_vars =>
        [ current # NoPdu /\ current' # current =>
            \/ current' = NoPdu /\ Doing("write")
            \/ reconnect_deferred' \/ Doing("destroyed")' ]_vars
  BY CurrentSteps DEF WritePop, CanPop, WriteDone
<1> QED
  BY <1>1, TornInvInductive, PTL DEF Spec, NoTornPdu

-----------------------------------------------------------------------------
(* What the lists hold. *)

\* A list that loses PDUs has no new ones.
LEMMA RetainSet ==
  ASSUME NEW s \in Seq(Pdu), NEW I \in SUBSET DOMAIN s, NEW t \in Retain(s, I)
  PROVE  ToSet(t) \subseteq ToSet(s)
<1>1. /\ t \in Seq(Pdu)
      /\ \A k \in DOMAIN t : \E i \in I : t[k] = s[i]
  BY RetainType
<1> QED
  BY <1>1 DEF ToSet

\* The list t holds, but for CmdSNs, PDUs of S.
From(t, S) == \A x \in ToSet(t) : \E y \in S : x.op = y.op /\ x.req = y.req

LEMMA FromSubset ==
  ASSUME NEW t, NEW S, ToSet(t) \subseteq S
  PROVE  From(t, S)
BY DEF From

LEMMA RenumberFrom ==
  ASSUME NEW s \in Seq(Pdu), NEW X \in SUBSET DOMAIN s, NEW I \in SUBSET DOMAIN s,
         NEW t \in Retain(Renumber(s, X), I)
  PROVE  From(t, ToSet(s))
<1>1. /\ Renumber(s, X) \in Seq(Pdu) /\ DOMAIN Renumber(s, X) = DOMAIN s
      /\ \A i \in DOMAIN s : Renumber(s, X)[i].op = s[i].op /\ Renumber(s, X)[i].req = s[i].req
  BY RenumberType
<1>2. ToSet(t) \subseteq ToSet(Renumber(s, X))
  BY <1>1, RetainSet
<1> QED
  BY <1>1, <1>2 DEF From, ToSet

LEMMA AddFrom ==
  ASSUME NEW q \in Seq(Pdu), NEW p \in Pdu, NEW callers, AddToOutqueue(q, p, callers)
  PROVE  From(outqueue', ToSet(q) \cup {p})
<1>1. PICK sn \in QueueSN(q, p), i \in 1 .. (Len(q) + 1) :
         outqueue' = InsertAt(q, i, [p EXCEPT !.cmdsn = sn])
  BY DEF AddToOutqueue
<1> DEFINE np == [p EXCEPT !.cmdsn = sn]
           n == InsertAt(q, i, np)
<1>2. sn \in Serial
  <2>1. p.cmdsn \in Serial
    BY DEF Pdu
  <2>2. \A k \in DOMAIN q : q[k].cmdsn \in Serial
    <3>1. \A k \in DOMAIN q : q[k] \in Pdu
      BY ElementOfSeq, LenProperties
    <3> QED
      BY <3>1 DEF Pdu
  <2> QED
    BY <2>1, <2>2 DEF QueueSN
<1>3. np \in Pdu /\ np.op = p.op /\ np.req = p.req
  BY <1>2 DEF Pdu
<1> HIDE DEF np
<1>4. n \in Seq(Pdu) /\ Inserted(n, q, i, np)
  BY <1>3, InsertShape
<1> HIDE DEF n
<1>5. DOMAIN n = 1 .. (Len(q) + 1) /\ DOMAIN q = 1 .. Len(q) /\ Len(q) \in Nat
  BY <1>4, LenProperties DEF Inserted
<1>6. \A k \in DOMAIN n : n[k] = np \/ \E j \in DOMAIN q : n[k] = q[j]
  <2> TAKE k \in DOMAIN n
  <2>1. CASE k < i
    BY <1>4, <1>5, <2>1 DEF Inserted
  <2>2. CASE k = i
    BY <1>4, <1>5, <2>2 DEF Inserted
  <2>3. CASE k > i
    <3>1. k - 1 \in DOMAIN q /\ n[k] = q[k - 1]
      BY <1>4, <1>5, <2>3 DEF Inserted
    <3> QED
      BY <3>1
  <2> QED
    BY <1>5, <2>1, <2>2, <2>3
<1>7. outqueue' = n
  BY <1>1 DEF np, n
<1> QED
  BY <1>3, <1>6, <1>7 DEF From, ToSet

\* The own PDU of a SCSI command is a SCSI command PDU.
Fits(p) ==
  ~DeleteWhenSent(p) /\ p.op # "SCSI" =>
    p.req \in Reqs /\ rq[p.req].kind \in {"nop", "tmf", "logout"}

KindInv == TypeOK /\ \A p \in ToSet(outqueue) \cup ToSet(waitpdu) : Fits(p)

\* A step in these terms: at most p is new.
LEMMA KindStep ==
  ASSUME KindInv, TypeOK', NEW p, Fits(p)',
         From(outqueue', ToSet(outqueue) \cup ToSet(waitpdu) \cup {p}),
         From(waitpdu', ToSet(outqueue) \cup ToSet(waitpdu) \cup {p}),
         \A r \in Reqs : rq[r].kind # "unused" => rq'[r].kind = rq[r].kind
  PROVE  KindInv'
<1>1. \A x \in ToSet(outqueue) \cup ToSet(waitpdu) : Fits(x)'
  BY DEF KindInv, Fits
<1>2. \A y : Fits(y)' => \A x : x.op = y.op /\ x.req = y.req => Fits(x)'
  BY DEF Fits, DeleteWhenSent
<1>3. \A x \in ToSet(outqueue') \cup ToSet(waitpdu') : Fits(x)'
  BY <1>1, <1>2 DEF From
<1> QED
  BY <1>3 DEF KindInv

\* The requests that are queued fit.
LEMMA QueueingKind ==
  ASSUME KindInv, TypeOK', NEW r \in Reqs,
         \/ \E kind \in ScsiKinds, lun \in Luns : CommandAsync(r, kind, lun)
         \/ NopOutAsync(r) \/ (\E t \in Reqs : AbortTaskAsync(r, t)) \/ LogoutAsync(r)
  PROVE  KindInv'
<1>0. outqueue \in Seq(Pdu) /\ cmdsn \in Serial /\ TypeOK
  BY DEF KindInv, TypeOK
<1>1. ASSUME NEW op \in {"SCSI", "NOP", "TMF", "LOGOUT"}, NEW callers,
             AddToOutqueue(outqueue, NewPdu(op, r, cmdsn, 0), callers), UNCHANGED waitpdu,
             \A t \in Reqs : rq[t].kind # "unused" => rq'[t].kind = rq[t].kind,
             op # "SCSI" => rq'[r].kind \in {"nop", "tmf", "logout"}
      PROVE  KindInv'
  <2>1. PICK p \in Pdu : p = NewPdu(op, r, cmdsn, 0) /\ p.op = op /\ p.req = r
    BY <1>0, NewPduType DEF Ops
  <2>2. Fits(p)'
    BY <1>1, <2>1 DEF Fits
  <2>3. From(outqueue', ToSet(outqueue) \cup {p})
    BY <1>0, <1>1, <2>1, AddFrom
  <2>4. From(outqueue', ToSet(outqueue) \cup ToSet(waitpdu) \cup {p})
    BY <2>3 DEF From
  <2>5. From(waitpdu', ToSet(outqueue) \cup ToSet(waitpdu) \cup {p})
    BY <1>1, FromSubset
  <2> QED
    BY <1>1, <2>2, <2>4, <2>5, KindStep
<1>2. ASSUME NEW kind, NEW lun, rq[r].kind = "unused",
             rq' = [rq EXCEPT ![r] = [kind |-> kind, lun |-> lun]] \/ rq' = [rq EXCEPT ![r].kind = kind]
      PROVE  /\ \A t \in Reqs : rq[t].kind # "unused" => rq'[t].kind = rq[t].kind
             /\ rq'[r].kind = kind
  <2>0. rq \in [Reqs -> [kind : Kinds \cup {"unused"}, lun : Nat]]
    BY <1>0 DEF TypeOK
  <2>1. \A t \in Reqs : t # r => rq'[t] = rq[t]
    BY <1>2, <2>0
  <2>2. rq'[r].kind = kind
    BY <1>2, <2>0
  <2> QED
    BY <1>2, <2>1, <2>2
<1>3. ASSUME NEW kind \in ScsiKinds, NEW lun \in Luns, CommandAsync(r, kind, lun)
      PROVE  KindInv'
  <2>1. \E callers : AddToOutqueue(outqueue, NewPdu("SCSI", r, cmdsn, 0), callers)
    BY <1>3 DEF CommandAsync
  <2>2. /\ UNCHANGED waitpdu /\ rq[r].kind = "unused"
        /\ rq' = [rq EXCEPT ![r] = [kind |-> kind, lun |-> lun]]
    BY <1>3 DEF CommandAsync
  <2>3. \A t \in Reqs : rq[t].kind # "unused" => rq'[t].kind = rq[t].kind
    BY <1>2, <2>2
  <2> QED
    BY <1>1, <2>1, <2>2, <2>3
<1>4. ASSUME NEW op \in {"NOP", "TMF", "LOGOUT"}, NEW kind \in {"nop", "tmf", "logout"},
             AddToOutqueue(outqueue, NewPdu(op, r, cmdsn, 0), agenda), UNCHANGED waitpdu,
             rq[r].kind = "unused", rq' = [rq EXCEPT ![r].kind = kind]
      PROVE  KindInv'
  <2>1. /\ \A t \in Reqs : rq[t].kind # "unused" => rq'[t].kind = rq[t].kind
        /\ rq'[r].kind = kind
    BY <1>2, <1>4
  <2> QED
    BY <1>1, <1>4, <2>1
<1>5. CASE NopOutAsync(r) \/ (\E t \in Reqs : AbortTaskAsync(r, t)) \/ LogoutAsync(r)
  BY <1>4, <1>5 DEF NopOutAsync, AbortTaskAsync, LogoutAsync
<1> QED
  BY <1>3, <1>5

\* So do the resets.
LEMMA ResetKind ==
  ASSUME KindInv, TypeOK', NEW r \in Reqs,
         ResetAsync(r) \/ \E lun \in Luns : LunResetAsync(r, lun)
  PROVE  KindInv'
<1>0. outqueue \in Seq(Pdu) /\ cmdsn \in Serial /\ TypeOK
  BY DEF KindInv, TypeOK
<1>1. PICK q \in Seq(Pdu), sn \in Serial :
        /\ From(q, ToSet(outqueue))
        /\ waitpdu' = waitpdu \/ waitpdu' = <<>>
        /\ rq[r].kind = "unused"
        /\ \/ /\ rq' = [rq EXCEPT ![r].kind = "tmf"]
              /\ AddToOutqueue(q, NewPdu("TMF", r, sn, 0), agenda)
           \/ outqueue' = q /\ UNCHANGED rq
  <2>1. CASE ResetAsync(r)
    <3>1. <<>> \in Seq(Pdu) /\ CmdSNWithout(DOMAIN outqueue) \in Serial
      BY <1>0, CmdSNWithoutType
    <3>2. From(<<>>, ToSet(outqueue))
      BY DEF From, ToSet
    <3> QED
      BY <2>1, <3>1, <3>2 DEF ResetAsync, CancelWaiting
  <2>2. ASSUME NEW lun \in Luns, LunResetAsync(r, lun)
        PROVE  \E q \in Seq(Pdu), sn \in Serial :
                 /\ From(q, ToSet(outqueue))
                 /\ waitpdu' = waitpdu \/ waitpdu' = <<>>
                 /\ rq[r].kind = "unused"
                 /\ \/ /\ rq' = [rq EXCEPT ![r].kind = "tmf"]
                       /\ AddToOutqueue(q, NewPdu("TMF", r, sn, 0), agenda)
                    \/ outqueue' = q /\ UNCHANGED rq
    <3>1. PICK X \in SUBSET DOMAIN outqueue :
            \E q \in Retain(Renumber(outqueue, X), DOMAIN outqueue \ X) :
               \/ /\ rq' = [rq EXCEPT ![r].kind = "tmf"]
                  /\ AddToOutqueue(q, NewPdu("TMF", r, CmdSNWithout(X), 0), agenda)
               \/ outqueue' = q /\ UNCHANGED rq
      <4> DEFINE X == {i \in DOMAIN outqueue : /\ HasTask(outqueue[i])
                                               /\ rq[outqueue[i].req].lun = lun}
      <4>1. X \in SUBSET DOMAIN outqueue
        OBVIOUS
      <4>2. \E q \in Retain(Renumber(outqueue, X), DOMAIN outqueue \ X) :
               \/ /\ rq' = [rq EXCEPT ![r].kind = "tmf"]
                  /\ AddToOutqueue(q, NewPdu("TMF", r, CmdSNWithout(X), 0), agenda)
               \/ outqueue' = q /\ UNCHANGED rq
        BY <2>2 DEF LunResetAsync
      <4> HIDE DEF X
      <4> QED
        BY <4>1, <4>2
    <3>2. PICK q \in Retain(Renumber(outqueue, X), DOMAIN outqueue \ X) :
               \/ /\ rq' = [rq EXCEPT ![r].kind = "tmf"]
                  /\ AddToOutqueue(q, NewPdu("TMF", r, CmdSNWithout(X), 0), agenda)
               \/ outqueue' = q /\ UNCHANGED rq
      BY <3>1
    <3>3. CmdSNWithout(X) \in Serial
      BY <1>0, CmdSNWithoutType
    <3>4. From(q, ToSet(outqueue))
      BY <1>0, RenumberFrom
    <3>5. q \in Seq(Pdu)
      <4>1. Renumber(outqueue, X) \in Seq(Pdu) /\ DOMAIN Renumber(outqueue, X) = DOMAIN outqueue
        BY <1>0, RenumberType
      <4>2. /\ q \in Seq(Pdu)
            /\ \A a \in DOMAIN q : \E i \in DOMAIN outqueue \ X : q[a] = Renumber(outqueue, X)[i]
        BY <4>1, RetainType
      <4> QED
        BY <4>2
    <3>6. UNCHANGED waitpdu /\ rq[r].kind = "unused"
      BY <2>2 DEF LunResetAsync
    <3> QED
      BY <3>2, <3>3, <3>4, <3>5, <3>6
  <2> QED
    BY <2>1, <2>2
<1> DEFINE p == NewPdu("TMF", r, sn, 0)
           S == ToSet(outqueue) \cup ToSet(waitpdu)
<1>2. p \in Pdu /\ p.op = "TMF" /\ p.req = r
  BY NewPduType DEF Ops
<1>3. From(waitpdu', S \cup {p})
  BY <1>1 DEF From, ToSet
<1> HIDE DEF p, S
<1>4. CASE /\ rq' = [rq EXCEPT ![r].kind = "tmf"]
           /\ AddToOutqueue(q, NewPdu("TMF", r, sn, 0), agenda)
  <2>1. From(outqueue', ToSet(q) \cup {p})
    BY <1>2, <1>4, AddFrom DEF p
  <2>2. From(outqueue', S \cup {p})
    BY <1>1, <2>1 DEF From, S
  <2>3. /\ \A t \in Reqs : rq[t].kind # "unused" => rq'[t].kind = rq[t].kind
        /\ rq'[r].kind = "tmf"
    BY <1>0, <1>1, <1>4 DEF TypeOK
  <2>4. Fits(p)'
    BY <1>2, <2>3 DEF Fits
  <2> QED
    BY <1>3, <2>2, <2>3, <2>4, KindStep DEF S
<1>5. CASE outqueue' = q /\ UNCHANGED rq
  <2> DEFINE d == NewPdu("DATA", r, sn, 0)
  <2>1. Fits(d)'
    BY DEF Fits, DeleteWhenSent, NewPdu
  <2> HIDE DEF d
  <2>2. From(outqueue', S \cup {d}) /\ From(waitpdu', S \cup {d})
    BY <1>1, <1>5 DEF From, S, ToSet
  <2> QED
    BY <1>5, <2>1, <2>2, KindStep DEF S
<1> QED
  BY <1>1, <1>4, <1>5

\* A step that only takes PDUs away or moves them.
LEMMA KindKept ==
  ASSUME KindInv, TypeOK',
         From(outqueue', ToSet(outqueue) \cup ToSet(waitpdu)),
         From(waitpdu', ToSet(outqueue) \cup ToSet(waitpdu)),
         UNCHANGED rq
  PROVE  KindInv'
<1> DEFINE d == NewPdu("DATA", NoReq, 0, 0)
<1>1. Fits(d)'
  BY DEF Fits, DeleteWhenSent, NewPdu
<1> HIDE DEF d
<1>2. /\ From(outqueue', ToSet(outqueue) \cup ToSet(waitpdu) \cup {d})
      /\ From(waitpdu', ToSet(outqueue) \cup ToSet(waitpdu) \cup {d})
  BY DEF From
<1> QED
  BY <1>1, <1>2, KindStep

\* A DATA-OUT or the answer to a ping is queued.
LEMMA DataKind ==
  ASSUME KindInv, TypeOK', NEW p \in Pdu, DeleteWhenSent(p), NEW callers,
         AddToOutqueue(outqueue, p, callers), UNCHANGED <<waitpdu, rq>>
  PROVE  KindInv'
<1>1. outqueue \in Seq(Pdu)
  BY DEF KindInv, TypeOK
<1>2. From(outqueue', ToSet(outqueue) \cup {p})
  BY <1>1, AddFrom
<1>3. From(outqueue', ToSet(outqueue) \cup ToSet(waitpdu) \cup {p})
  BY <1>2 DEF From
<1>4. From(waitpdu', ToSet(outqueue) \cup ToSet(waitpdu) \cup {p})
  BY FromSubset
<1>5. Fits(p)'
  BY DEF Fits
<1> QED
  BY <1>3, <1>4, <1>5, KindStep

\* The list s has the elements of t and x.
HasAlso(s, t, x) ==
  /\ \A k \in DOMAIN s : s[k] = x \/ \E j \in DOMAIN t : s[k] = t[j]
  /\ \A j \in DOMAIN t : \E k \in DOMAIN s : t[j] = s[k]
  /\ \E k \in DOMAIN s : s[k] = x

LEMMA OneMore ==
  ASSUME NEW s, NEW t, NEW x, HasAlso(s, t, x)
  PROVE  ToSet(s) = ToSet(t) \cup {x}
<1>1. ASSUME NEW e \in ToSet(s) PROVE e \in ToSet(t) \cup {x}
  <2>1. PICK k \in DOMAIN s : e = s[k]
    BY <1>1 DEF ToSet, HasAlso
  <2> QED
    BY <2>1 DEF ToSet, HasAlso
<1>2. ASSUME NEW e \in ToSet(t) PROVE e \in ToSet(s)
  <2>1. PICK j \in DOMAIN t : e = t[j]
    BY <1>2 DEF ToSet, HasAlso
  <2> QED
    BY <2>1 DEF ToSet, HasAlso
<1>3. x \in ToSet(s)
  BY DEF ToSet, HasAlso
<1> QED
  BY <1>1, <1>2, <1>3

\* The head of the outqueue moves to waitpdu.
LEMMA PopSet ==
  ASSUME TypeOK, WritePop
  PROVE  /\ outqueue # <<>> /\ Head(outqueue) \in Pdu
         /\ ToSet(outqueue) = ToSet(outqueue') \cup {Head(outqueue)}
         /\ ToSet(waitpdu') = ToSet(waitpdu) \cup (IF DeleteWhenSent(Head(outqueue))
                                                  THEN {} ELSE {Head(outqueue)})
<1>1. /\ outqueue \in Seq(Pdu) /\ waitpdu \in Seq(Pdu) /\ outqueue # <<>>
      /\ outqueue' = Tail(outqueue)
      /\ waitpdu' = IF DeleteWhenSent(Head(outqueue)) THEN waitpdu
                    ELSE Append(waitpdu, Head(outqueue))
  BY DEF TypeOK, WritePop, CanPop
<1>2. /\ Head(outqueue) = outqueue[1] /\ Head(outqueue) \in Pdu
      /\ Len(outqueue) \in Nat /\ Len(outqueue) > 0
      /\ Tail(outqueue) \in Seq(Pdu) /\ Len(Tail(outqueue)) = Len(outqueue) - 1
      /\ \A k \in 1 .. (Len(outqueue) - 1) : Tail(outqueue)[k] = outqueue[k + 1]
      /\ DOMAIN outqueue = 1 .. Len(outqueue)
  BY <1>1, HeadTailProperties, EmptySeq, LenProperties
<1>3. DOMAIN Tail(outqueue) = 1 .. (Len(outqueue) - 1)
  BY <1>2, LenProperties
<1>4. ToSet(outqueue) = ToSet(Tail(outqueue)) \cup {Head(outqueue)}
  <2>1. ASSUME NEW k \in DOMAIN outqueue
        PROVE  outqueue[k] = Head(outqueue) \/ \E j \in DOMAIN Tail(outqueue) : outqueue[k] = Tail(outqueue)[j]
    <3>1. CASE k = 1
      BY <1>2, <3>1
    <3>2. CASE k # 1
      <4>1. k - 1 \in DOMAIN Tail(outqueue) /\ Tail(outqueue)[k - 1] = outqueue[k]
        BY <1>2, <1>3, <3>2
      <4> QED
        BY <4>1
    <3> QED
      BY <3>1, <3>2
  <2>2. ASSUME NEW j \in DOMAIN Tail(outqueue)
        PROVE  \E k \in DOMAIN outqueue : Tail(outqueue)[j] = outqueue[k]
    <3>1. j + 1 \in DOMAIN outqueue /\ Tail(outqueue)[j] = outqueue[j + 1]
      BY <1>2, <1>3
    <3> QED
      BY <3>1
  <2>3. \E k \in DOMAIN outqueue : outqueue[k] = Head(outqueue)
    BY <1>2
  <2> DEFINE t == Tail(outqueue)
             h == Head(outqueue)
  <2>4. \A k \in DOMAIN outqueue : outqueue[k] = h \/ \E j \in DOMAIN t : outqueue[k] = t[j]
    BY <2>1
  <2>5. \A j \in DOMAIN t : \E k \in DOMAIN outqueue : t[j] = outqueue[k]
    BY <2>2
  <2>6. \E k \in DOMAIN outqueue : outqueue[k] = h
    BY <2>3
  <2> HIDE DEF t, h
  <2>7. ToSet(outqueue) = ToSet(t) \cup {h}
    BY <2>4, <2>5, <2>6, OneMore DEF HasAlso
  <2> QED
    BY <2>7 DEF t, h
<1>5. ToSet(Append(waitpdu, Head(outqueue))) = ToSet(waitpdu) \cup {Head(outqueue)}
  <2> DEFINE h == Head(outqueue)
             w == Append(waitpdu, h)
  <2>1. /\ Len(w) = Len(waitpdu) + 1 /\ Len(waitpdu) \in Nat
        /\ DOMAIN w = 1 .. (Len(waitpdu) + 1) /\ DOMAIN waitpdu = 1 .. Len(waitpdu)
        /\ \A i \in 1 .. Len(waitpdu) : w[i] = waitpdu[i]
        /\ w[Len(waitpdu) + 1] = h
    BY <1>1, <1>2, AppendProperties, LenProperties
  <2> HIDE DEF h, w
  <2>2. DOMAIN w = DOMAIN waitpdu \cup {Len(waitpdu) + 1}
    BY <2>1
  <2>3. \A i \in DOMAIN waitpdu : w[i] = waitpdu[i]
    BY <2>1
  <2>a. \A k \in DOMAIN w : w[k] = h \/ \E j \in DOMAIN waitpdu : w[k] = waitpdu[j]
    BY <2>1, <2>2, <2>3
  <2>b. \A j \in DOMAIN waitpdu : \E k \in DOMAIN w : waitpdu[j] = w[k]
    BY <2>2, <2>3
  <2>c. \E k \in DOMAIN w : w[k] = h
    BY <2>1, <2>2
  <2>4. ToSet(w) = ToSet(waitpdu) \cup {h}
    BY <2>a, <2>b, <2>c, OneMore DEF HasAlso
  <2> QED
    BY <2>4 DEF h, w
<1> QED
  BY <1>1, <1>2, <1>4, <1>5

LEMMA KindInvInductive ==
  /\ Init => KindInv
  /\ KindInv /\ [Next]_vars => KindInv'
<1>1. Init => KindInv
  BY InitType DEF Init, KindInv, ToSet
<1>2. SUFFICES ASSUME KindInv, [Next]_vars PROVE KindInv'
  BY <1>1
<1> DEFINE S == ToSet(outqueue) \cup ToSet(waitpdu)
<1>3. TypeOK /\ TypeOK' /\ outqueue \in Seq(Pdu) /\ waitpdu \in Seq(Pdu) /\ agenda \in Seq(Frame)
  BY <1>2, NextType DEF KindInv, TypeOK
<1>4. ASSUME ToSet(outqueue') \subseteq S, ToSet(waitpdu') \subseteq S, UNCHANGED rq
      PROVE  KindInv'
  BY <1>2, <1>3, <1>4, FromSubset, KindKept
<1>5. ASSUME outqueue' \in {outqueue, <<>>}, waitpdu' \in {waitpdu, <<>>}, UNCHANGED rq
      PROVE  KindInv'
  <2>1. ToSet(<<>>) = {}
    BY DEF ToSet
  <2> QED
    BY <1>4, <1>5, <2>1
<1>6. ASSUME NEW callers, ServiceFails(callers), UNCHANGED rq PROVE KindInv'
  BY <1>5, <1>6 DEF ServiceFails, CancelPdus, CancelWaiting
<1>7. ASSUME NEW I \in SUBSET DOMAIN waitpdu, waitpdu' \in Retain(waitpdu, I), UNCHANGED <<outqueue, rq>>
      PROVE  KindInv'
  BY <1>3, <1>4, <1>7, RetainSet
<1>8. ASSUME NEW r \in Reqs, AppCall(r) PROVE KindInv'
  <2>1. CASE CancelTask(r)
    <3>1. CASE waitpdu' \in Retain(waitpdu, {i \in DOMAIN waitpdu : waitpdu[i].req # r}) /\ UNCHANGED outqueue
      BY <1>7, <2>1, <3>1 DEF CancelTask
    <3>2. CASE /\ outqueue' \in Retain(outqueue, {i \in DOMAIN outqueue : outqueue[i].req # r})
               /\ UNCHANGED waitpdu
      BY <1>3, <1>4, <2>1, <3>2, RetainSet DEF CancelTask
    <3> QED
      BY <2>1, <3>1, <3>2 DEF CancelTask
  <2> QED
    BY <1>2, <1>3, <1>8, <2>1, QueueingKind, ResetKind DEF AppCall
<1>9. ASSUME NEW r \in Reqs, Read(r) PROVE KindInv'
  <2>1. CASE ServiceFails(<<>>) /\ UNCHANGED rq
    BY <1>6, <2>1
  <2>2. CASE UNCHANGED <<outqueue, waitpdu, rq>>
    BY <1>5, <2>2
  <2> QED
    BY <1>9, <2>1, <2>2
    DEF Read, Reply, Reject, MalformedReply, DataIn, R2T, Unsolicited, initiatorVars
<1>10. CASE CancelAllTasks \/ DestroyContext
  BY <1>5, <1>10 DEF CancelAllTasks, DestroyContext, CancelPdus, CancelWaiting
<1>11. CASE SendDataOut
  <2>1. CASE agenda' = <<Do("undefined")>> /\ UNCHANGED outqueue
    BY <1>5, <1>11, <2>1 DEF SendDataOut
  <2>2. ASSUME NEW p \in Pdu, NEW callers \in Seq(Frame), p.op = "DATA", AddToOutqueue(outqueue, p, callers)
        PROVE  KindInv'
    <3>1. DeleteWhenSent(p) /\ UNCHANGED <<waitpdu, rq>>
      BY <1>11, <2>2 DEF DeleteWhenSent, SendDataOut
    <3> QED
      BY <1>2, <1>3, <2>2, <3>1, DataKind
  <2> QED
    BY <1>3, <1>11, <2>1, <2>2, DataLemma
<1>12. CASE FinishPdu \/ FinishReject
  <2>1. CASE UNCHANGED waitpdu
    BY <1>5, <1>12, <2>1 DEF FinishPdu, FinishReject
  <2>2. CASE waitpdu' \in Retain(waitpdu, {i \in DOMAIN waitpdu : waitpdu[i].req # Head(agenda).req})
    BY <1>7, <1>12, <2>2 DEF FinishPdu, FinishReject
  <2> QED
    BY <1>12, <2>1, <2>2 DEF FinishPdu, FinishReject
<1>13. CASE FailRead \/ WriteStale \/ WriteError \/ ReadError
  BY <1>6, <1>13 DEF FailRead, WriteStale, WriteError, ReadError, Unsolicited
<1>14. CASE WritePop
  BY <1>3, <1>4, <1>14, PopSet DEF WritePop
<1>15. CASE ScanOutqueue
  <2>1. PICK X \in SUBSET DOMAIN outqueue : outqueue' \in Retain(Renumber(outqueue, X), DOMAIN outqueue \ X)
    BY <1>15 DEF ScanOutqueue
  <2>2. From(outqueue', ToSet(outqueue))
    BY <1>3, <2>1, RenumberFrom
  <2>3. From(outqueue', S) /\ From(waitpdu', S)
    BY <1>15, <2>2 DEF From, ScanOutqueue
  <2> QED
    BY <1>2, <1>3, <1>15, <2>3, KindKept DEF ScanOutqueue
<1>16. CASE ScanWaitpdu
  <2>1. CASE UNCHANGED waitpdu
    BY <1>5, <1>16, <2>1 DEF ScanWaitpdu
  <2>2. CASE \E X \in SUBSET DOMAIN waitpdu : waitpdu' \in Retain(waitpdu, DOMAIN waitpdu \ X)
    BY <1>7, <1>16, <2>2 DEF ScanWaitpdu
  <2> QED
    BY <1>16, <2>1, <2>2 DEF ScanWaitpdu
<1>17. CASE TargetPing
  <2>0. NewPdu("PONG", NoReq, cmdsn, 0) \in Pdu /\ NewPdu("PONG", NoReq, cmdsn, 0).op = "PONG"
    BY <1>3 DEF TypeOK, NewPdu, Pdu, Ops
  <2>1. PICK p \in Pdu : p = NewPdu("PONG", NoReq, cmdsn, 0) /\ DeleteWhenSent(p)
    BY <2>0 DEF DeleteWhenSent
  <2> QED
    BY <1>2, <1>3, <1>17, <2>1, DataKind DEF TargetPing
<1>18. CASE UNCHANGED <<outqueue, waitpdu, rq>>
  BY <1>5, <1>18
<1>19. CASE UNCHANGED vars \/ CallbackReturns \/ PollOut \/ Tick \/ WriteStops \/ WriteBlocks
             \/ WriteDone \/ TargetNopIn \/ Destroyed
  BY <1>18, <1>19
  DEF vars, initiatorVars, CallbackReturns, PollOut, Tick, WriteStops, WriteBlocks, WriteDone,
      TargetNopIn, Destroyed
<1> QED
  BY <1>2, <1>8, <1>9, <1>10, <1>11, <1>12, <1>13, <1>14, <1>15, <1>16, <1>17, <1>19 DEF Next, Write

-----------------------------------------------------------------------------
(* The frames of the call stack find what they use.  First the connections  *)
(* that may fail at any moment, with bursts of one DATA-OUT and callbacks    *)
(* that queue nothing, so that the stack stays shallow.                      *)

\* The command PDU of r is in one of the lists.
HasCommand(r) == \E p \in ToSet(outqueue) \cup ToSet(waitpdu) : p.op = "SCSI" /\ p.req = r

\* Every stack there is, with what its first frame is going to use.
ShallowStack ==
  \/ agenda = <<>>
  \/ \E step \in {"write", "fail", "destroyed"} : agenda = <<Do(step)>>
  \/ \E r \in Reqs :
       \/ agenda = SendData(r, 0, 1) /\ HasCommand(r)
       \/ /\ agenda \in {CallbackFrame \o <<DoFor("finish", r)>>, <<DoFor("finish", r)>>}
          /\ waitpdu = <<>> \/ r \in Owners(waitpdu)
       \/ /\ agenda \in {<<DoFor("finish_reject", r)>>, <<DoFor("finish_reject", r), Do("fail")>>}
          /\ r \in Owners(waitpdu)

ShallowInv == KindInv /\ ShallowStack

LEMMA Tuples ==
  \A x, y : /\ Head(<<x>>) = x /\ Tail(<<x>>) = <<>> /\ <<x>> # <<>>
            /\ Head(<<x, y>>) = x /\ Tail(<<x, y>>) = <<y>> /\ <<x, y>> # <<>>
            /\ <<x>> \o <<y>> = <<x, y>> /\ <<x>> \o <<>> = <<x>> /\ <<>> \o <<x>> = <<x>>
            /\ <<>> \o <<>> = <<>> /\ SubSeq(<<x>>, 2, Len(<<x>>)) = <<>>
<1> TAKE x, y
<1>1. Head(<<x>>) = x /\ Tail(<<x>>) = <<>> /\ <<x>> # <<>>
  OBVIOUS
<1>2. Head(<<x, y>>) = x /\ <<x, y>> # <<>>
  OBVIOUS
<1>3. Tail(<<x, y>>) = <<y>>
  OBVIOUS
<1>4. <<x>> \o <<y>> = <<x, y>>
  <2> DEFINE a == <<x>>
             b == <<y>>
             c == <<x, y>>
  <2>1. /\ a \in Seq({x, y}) /\ Len(a) = 1 /\ a[1] = x
        /\ b \in Seq({x, y}) /\ Len(b) = 1 /\ b[1] = y
        /\ c \in Seq({x, y}) /\ Len(c) = 2 /\ c[1] = x /\ c[2] = y
    OBVIOUS
  <2> HIDE DEF a, b, c
  <2> DEFINE ab == a \o b
  <2>2. /\ ab \in Seq({x, y}) /\ Len(ab) = Len(a) + Len(b)
        /\ \A i \in 1 .. Len(a) + Len(b) : ab[i] = IF i <= Len(a) THEN a[i] ELSE b[i - Len(a)]
    BY <2>1, ConcatProperties
  <2> HIDE DEF ab
  <2>3. ab[1] = x /\ ab[2] = y
    BY <2>1, <2>2
  <2>4. Len(ab) = Len(c) /\ \A i \in 1 .. Len(ab) : ab[i] = c[i]
    BY <2>1, <2>2, <2>3
  <2>5. ab = c
    BY <2>1, <2>2, <2>4, SeqEqual
  <2> QED
    BY <2>5 DEF a, b, c, ab
<1>5. <<x>> \o <<>> = <<x>> /\ <<>> \o <<x>> = <<x>>
  OBVIOUS
<1>6. <<>> \o <<>> = <<>>
  OBVIOUS
<1>7. SubSeq(<<x>>, 2, Len(<<x>>)) = <<>>
  OBVIOUS
<1> QED
  BY <1>1, <1>2, <1>3, <1>4, <1>5, <1>6, <1>7

\* The command of a data-out request that waits for its reply is there.
LEMMA WaitingCommand ==
  ASSUME KindInv, NEW r \in Reqs, r \in Owners(waitpdu), rq[r].kind \in ScsiKinds
  PROVE  HasCommand(r)
<1>1. PICK i \in DOMAIN waitpdu : waitpdu[i].req = r /\ ~DeleteWhenSent(waitpdu[i])
  BY DEF Owners
<1>2. waitpdu[i] \in ToSet(waitpdu) /\ Fits(waitpdu[i])
  BY DEF ToSet, KindInv
<1>3. waitpdu[i].op = "SCSI"
  BY <1>1, <1>2 DEF Fits, ScsiKinds
<1> QED
  BY <1>1, <1>2, <1>3 DEF HasCommand

\* Without timeouts a service call has only its write phase.
LEMMA ShallowService ==
  ASSUME Timeouts = FALSE
  PROVE  /\ ServiceTick = <<>> /\ ServicePollout = <<Do("write")>> /\ Len(ServicePollout) = 1
         /\ \A q, p : AddToOutqueue(q, p, <<>>) => agenda' \in {<<>>, <<Do("write")>>}
<1>1. ServiceTick = <<>>
  BY DEF ServiceTick
<1>2. ServicePollout = <<Do("write")>>
  BY <1>1, Tuples DEF ServicePollout
<1>3. Len(ServicePollout) = 1
  BY <1>2
<1>4. ASSUME NEW q, NEW p, AddToOutqueue(q, p, <<>>)
      PROVE  agenda' \in {<<>>, <<Do("write")>>}
  <2>1. PICK push \in {ServicePollout, <<>>} : agenda' = push \o <<>>
    BY <1>4 DEF AddToOutqueue
  <2> QED
    BY <1>2, <2>1, Tuples
<1> QED
  BY <1>1, <1>2, <1>3, <1>4

\* The request r has had its callback, or has it now.
Unlinks(r) == waitpdu = <<>> \/ r \in Owners(waitpdu)

AtFinish(r) == agenda = <<DoFor("finish", r)>> /\ Unlinks(r)

AtCallback(r) == agenda = <<Do("callback"), DoFor("finish", r)>> /\ Unlinks(r)

\* What a frame at the top says about the whole stack.
LEMMA ShallowTop ==
  ASSUME ShallowStack, agenda # <<>>
  PROVE  /\ Doing("write") => agenda = <<Do("write")>>
         /\ Doing("data") => \E r \in Reqs : agenda = SendData(r, 0, 1) /\ HasCommand(r)
         /\ Doing("callback") => \E r \in Reqs : AtCallback(r)
         /\ Doing("finish") => \E r \in Reqs : AtFinish(r)
         /\ Doing("finish_reject") =>
              \E r \in Reqs :
                /\ agenda \in {<<DoFor("finish_reject", r)>>, <<DoFor("finish_reject", r), Do("fail")>>}
                /\ r \in Owners(waitpdu)
         /\ ~Doing("scan_out") /\ ~Doing("scan_wait") /\ ~Doing("undefined")
<1>1. ASSUME NEW step \in {"write", "fail", "destroyed"}, agenda = <<Do(step)>>
      PROVE  \A d \in Steps : Doing(d) <=> d = step
  BY <1>1, Tuples DEF Doing, Do
<1>2. ASSUME NEW r \in Reqs, agenda = SendData(r, 0, 1)
      PROVE  \A d \in Steps : Doing(d) <=> d = "data"
  <2>1. agenda = <<[do |-> "data", req |-> r, datasn |-> 0, left |-> 1]>>
    BY <1>2 DEF SendData
  <2> QED
    BY <2>1, Tuples DEF Doing
<1>3. CallbackFrame \in {<<>>, <<Do("callback")>>}
  BY DEF CallbackFrame
<1>4. ASSUME NEW r \in Reqs,
             agenda \in {CallbackFrame \o <<DoFor("finish", r)>>, <<DoFor("finish", r)>>}
      PROVE  \/ /\ agenda = <<DoFor("finish", r)>>
                /\ \A d \in Steps : Doing(d) <=> d = "finish"
             \/ /\ agenda = <<Do("callback"), DoFor("finish", r)>>
                /\ \A d \in Steps : Doing(d) <=> d = "callback"
  <2>1. agenda \in {<<DoFor("finish", r)>>, <<Do("callback"), DoFor("finish", r)>>}
    BY <1>3, <1>4, Tuples
  <2> QED
    BY <2>1, Tuples DEF Doing, Do, DoFor
<1>5. ASSUME NEW r \in Reqs,
             agenda \in {<<DoFor("finish_reject", r)>>, <<DoFor("finish_reject", r), Do("fail")>>}
      PROVE  \A d \in Steps : Doing(d) <=> d = "finish_reject"
  BY <1>5, Tuples DEF Doing, DoFor
<1>6. {"write", "data", "callback", "finish", "finish_reject", "scan_out", "scan_wait", "undefined"}
        \subseteq Steps
  BY DEF Steps
<1> QED
  BY <1>1, <1>2, <1>4, <1>5, <1>6 DEF ShallowStack, AtCallback, AtFinish, Unlinks

\* The calls of the application, from its event loop or from a callback.
LEMMA ShallowCalls ==
  ASSUME ShallowInv, Timeouts = FALSE, MaxUnsolicited = 0, CallbackCalls \subseteq {"cancel_all"},
         (\E r \in Reqs : AppCall(r)) \/ CancelAllTasks
  PROVE  ShallowStack'
<1>1. ASSUME NEW c \in ApiCalls, c # "cancel_all", MayCall(c) PROVE agenda = <<>>
  BY <1>1 DEF MayCall
<1>2. CASE agenda' \in {<<>>, <<Do("write")>>}
  BY <1>2 DEF ShallowStack
<1>3. ASSUME NEW q, NEW p, agenda = <<>>, AddToOutqueue(q, p, agenda) PROVE ShallowStack'
  BY <1>2, <1>3, ShallowService
<1>4. ASSUME NEW r \in Reqs, AppCall(r) PROVE ShallowStack'
  <2>1. CASE \E kind \in ScsiKinds, lun \in Luns : CommandAsync(r, kind, lun)
    <3>1. PICK kind \in ScsiKinds, lun \in Luns : CommandAsync(r, kind, lun)
      BY <2>1
    <3>2. agenda = <<>>
      BY <1>1, <3>1 DEF CommandAsync, ApiCalls, Kinds, ScsiKinds
    <3>3. PICK n \in (IF kind = "read" THEN {0} ELSE 0 .. MaxUnsolicited) :
            AddToOutqueue(outqueue, NewPdu("SCSI", r, cmdsn, 0), SendData(r, 0, n) \o agenda)
      BY <3>1 DEF CommandAsync
    <3>4. n = 0
      OBVIOUS
    <3>5. SendData(r, 0, n) \o agenda = <<>>
      BY <3>2, <3>4, Tuples DEF SendData
    <3> QED
      BY <1>2, <3>3, <3>5, ShallowService
  <2>2. CASE NopOutAsync(r) \/ (\E t \in Reqs : AbortTaskAsync(r, t)) \/ LogoutAsync(r)
    <3>1. agenda = <<>>
      BY <1>1, <2>2 DEF NopOutAsync, AbortTaskAsync, LogoutAsync, ApiCalls, Kinds
    <3>2. \E p : AddToOutqueue(outqueue, p, agenda)
      BY <2>2 DEF NopOutAsync, AbortTaskAsync, LogoutAsync
    <3> QED
      BY <1>3, <3>1, <3>2
  <2>3. CASE CancelTask(r)
    <3>1. agenda = <<>> /\ agenda' = agenda
      BY <1>1, <2>3 DEF CancelTask, ApiCalls
    <3> QED
      BY <1>2, <3>1
  <2>4. CASE ResetAsync(r) \/ \E lun \in Luns : LunResetAsync(r, lun)
    <3>1. agenda = <<>>
      BY <1>1, <2>4 DEF ResetAsync, LunResetAsync, ApiCalls
    <3>2. (\E q, p : AddToOutqueue(q, p, agenda)) \/ agenda' = agenda
      BY <2>4 DEF ResetAsync, LunResetAsync
    <3> QED
      BY <1>2, <1>3, <3>1, <3>2
  <2> QED
    BY <1>4, <2>1, <2>2, <2>3, <2>4 DEF AppCall
<1>5. CASE CancelAllTasks
  <2>1. waitpdu' = <<>> /\ agenda' = agenda
    BY <1>5 DEF CancelAllTasks, CancelPdus, CancelWaiting
  <2>2. CASE agenda = <<>>
    BY <1>2, <2>1, <2>2
  <2>3. CASE Doing("callback") /\ CallbackCalls # {}
    <3>1. PICK r \in Reqs : AtCallback(r)
      BY <2>3, ShallowTop DEF ShallowInv, Doing
    <3>2. agenda' = CallbackFrame \o <<DoFor("finish", r)>>
      BY <2>1, <2>3, <3>1, Tuples DEF CallbackFrame, AtCallback
    <3> QED
      BY <2>1, <3>2 DEF ShallowStack, CallbackFrame
  <2> QED
    BY <1>5, <2>2, <2>3 DEF CancelAllTasks, MayCall
<1> QED
  BY <1>4, <1>5

\* A PDU of the target is read on an empty stack.
LEMMA ShallowReads ==
  ASSUME ShallowInv, Timeouts = FALSE, MaxData <= 1, Rejects = FALSE \/ CallbackCalls = {},
         NEW r \in Reqs, Read(r)
  PROVE  ShallowStack'
<1>1. CASE agenda' = <<>>
  BY <1>1 DEF ShallowStack
<1>2. CASE /\ agenda' = CallbackFrame \o <<DoFor("finish", r)>>
           /\ r \in Owners(waitpdu) /\ UNCHANGED waitpdu
  BY <1>2 DEF ShallowStack, CallbackFrame, Owners
<1>3. CASE /\ agenda' \in {CallbackFrame \o <<DoFor("finish_reject", r)>>,
                           CallbackFrame \o <<DoFor("finish_reject", r), Do("fail")>>}
           /\ r \in Owners(waitpdu) /\ UNCHANGED waitpdu /\ Rejects
  <2>1. CallbackFrame = <<>>
    BY <1>3, ConstantsAssumption DEF CallbackFrame
  <2>2. \A x, y : <<>> \o <<x, y>> = <<x, y>> /\ <<>> \o <<x>> = <<x>>
    OBVIOUS
  <2>3. agenda' \in {<<DoFor("finish_reject", r)>>, <<DoFor("finish_reject", r), Do("fail")>>}
    BY <1>3, <2>1, <2>2
  <2>4. r \in Owners(waitpdu')
    BY <1>3
  <2> QED
    BY <2>3, <2>4 DEF ShallowStack, Owners
<1>4. CASE Reply(r)
  BY <1>1, <1>2, <1>4 DEF Reply, Unsolicited, ServiceFails
<1>5. CASE Reject(r) \/ MalformedReply(r)
  BY <1>1, <1>3, <1>5 DEF Reject, MalformedReply, Unsolicited, ServiceFails
<1>6. CASE DataIn(r)
  BY <1>1, <1>6 DEF DataIn, CanRead, Unsolicited, ServiceFails
<1>7. CASE R2T(r)
  <2>1. PICK n \in 1 .. MaxData :
          \/ r \in Owners(waitpdu) /\ agenda' = SendData(r, 0, n) /\ UNCHANGED initiatorVars
          \/ agenda' = <<>>
    BY <1>7 DEF R2T, Unsolicited, ServiceFails
  <2>2. n = 1
    BY ConstantsAssumption
  <2>3. CASE r \in Owners(waitpdu) /\ agenda' = SendData(r, 0, n) /\ UNCHANGED initiatorVars
    <3>1. rq[r].kind \in ScsiKinds
      BY <1>7 DEF R2T, ScsiKinds
    <3>2. HasCommand(r)
      BY <2>3, <3>1, WaitingCommand DEF ShallowInv
    <3>3. HasCommand(r)'
      BY <2>3, <3>2 DEF HasCommand, initiatorVars
    <3> QED
      BY <2>2, <2>3, <3>3 DEF ShallowStack
  <2> QED
    BY <1>1, <2>1, <2>3
<1> QED
  BY <1>4, <1>5, <1>6, <1>7 DEF Read

\* The library's own steps.
LEMMA ShallowSteps ==
  ASSUME ShallowInv, Timeouts = FALSE,
         \/ DestroyContext \/ CallbackReturns \/ SendDataOut \/ FinishPdu \/ FinishReject \/ FailRead
         \/ PollOut \/ Tick \/ Write \/ ScanOutqueue \/ ScanWaitpdu \/ TargetNopIn \/ TargetPing
         \/ ReadError \/ Destroyed
  PROVE  ShallowStack'
<1>1. CASE agenda' \in {<<>>, <<Do("write")>>, <<Do("fail")>>, <<Do("destroyed")>>}
  BY <1>1 DEF ShallowStack
<1>2. \A d \in Steps : Doing(d) => agenda # <<>>
  BY DEF Doing
<1>3. CASE CallbackReturns
  <2>1. PICK r \in Reqs : AtCallback(r)
    BY <1>3, ShallowTop DEF ShallowInv, CallbackReturns, Doing
  <2>2. agenda' = <<DoFor("finish", r)>> /\ UNCHANGED waitpdu
    BY <1>3, <2>1, Tuples DEF CallbackReturns, initiatorVars, AtCallback
  <2> QED
    BY <2>1, <2>2 DEF ShallowStack, Owners, AtCallback, Unlinks
<1>4. CASE SendDataOut
  <2>1. PICK r \in Reqs : agenda = SendData(r, 0, 1) /\ HasCommand(r)
    BY <1>4, ShallowTop DEF ShallowInv, SendDataOut, Doing
  <2>2. /\ Head(agenda) = [do |-> "data", req |-> r, datasn |-> 0, left |-> 1]
        /\ Tail(agenda) = <<>>
    BY <2>1, Tuples DEF SendData
  <2>3. SendData(Head(agenda).req, Head(agenda).datasn + 1, Head(agenda).left - 1) \o Tail(agenda) = <<>>
    BY <2>2, Tuples DEF SendData
  <2>4. \E p \in ToSet(outqueue) \cup ToSet(waitpdu) \cup leaked : p.op = "SCSI" /\ p.req = Head(agenda).req
    BY <2>1, <2>2 DEF HasCommand
  <2>5. \E p : AddToOutqueue(outqueue, p, <<>>)
    BY <1>4, <2>3, <2>4 DEF SendDataOut
  <2> QED
    BY <1>1, <2>5, ShallowService
<1>5. CASE FinishPdu
  <2>1. PICK r \in Reqs : AtFinish(r)
    <3>1. ShallowStack /\ agenda # <<>> /\ Doing("finish")
      BY <1>5 DEF ShallowInv, FinishPdu, Doing
    <3> QED
      BY <3>1, ShallowTop
  <2>2. Head(agenda).req = r /\ Tail(agenda) = <<>>
    BY <2>1, Tuples DEF DoFor, AtFinish
  <2> QED
    BY <1>1, <1>5, <2>1, <2>2 DEF FinishPdu, AtFinish, Unlinks
<1>6. CASE FinishReject
  <2>1. PICK r \in Reqs :
          /\ agenda \in {<<DoFor("finish_reject", r)>>, <<DoFor("finish_reject", r), Do("fail")>>}
          /\ r \in Owners(waitpdu)
    BY <1>6, ShallowTop DEF ShallowInv, FinishReject, Doing
  <2>2. Head(agenda).req = r /\ Tail(agenda) \in {<<>>, <<Do("fail")>>}
    <3>1. CASE agenda = <<DoFor("finish_reject", r)>>
      BY <3>1, Tuples DEF DoFor
    <3>2. CASE agenda = <<DoFor("finish_reject", r), Do("fail")>>
      <4>1. Head(agenda) = DoFor("finish_reject", r) /\ Tail(agenda) = <<Do("fail")>>
        BY <3>2, Tuples
      <4> QED
        BY <4>1 DEF DoFor
    <3> QED
      BY <2>1, <3>1, <3>2
  <2>3. agenda' = Tail(agenda)
    BY <1>6, <2>1, <2>2 DEF FinishReject
  <2> QED
    BY <1>1, <2>2, <2>3
<1>7. CASE Write
  <2>1. agenda = <<Do("write")>>
    BY <1>7, ShallowTop DEF ShallowInv, Write, WriteStops, WriteStale, WritePop, WriteBlocks,
      WriteError, WriteDone, CanPop, Doing
  <2>2. Tail(agenda) = <<>> /\ AfterService = <<>>
    <3>1. AfterService = SubSeq(<<Do("write")>>, 2, Len(<<Do("write")>>))
      <4>0. Len(ServicePollout) = 1
        BY ShallowService, Zenon
      <4>1. Len(ServicePollout) + 1 = 2
        BY <4>0
      <4>2. AfterService = SubSeq(agenda, 2, Len(agenda))
        BY <4>1, Zenon DEF AfterService
      <4> QED
        BY <2>1, <4>2, Zenon
    <3>2. Tail(agenda) = <<>>
      BY <2>1, Tuples
    <3> QED
      BY <3>1, <3>2, Tuples
  <2>3. agenda' \in {agenda, Tail(agenda), AfterService}
    BY <1>7 DEF Write, WriteStops, WriteStale, WritePop, WriteBlocks, WriteError, WriteDone, ServiceFails
  <2> QED
    BY <1>1, <2>1, <2>2, <2>3
<1>8. CASE ScanOutqueue \/ ScanWaitpdu
  BY <1>8, ShallowTop DEF ShallowInv, ScanOutqueue, ScanWaitpdu, Doing
<1>9. CASE DestroyContext \/ FailRead \/ ReadError
  BY <1>1, <1>9 DEF DestroyContext, FailRead, ReadError, Unsolicited, ServiceFails
<1>10. CASE PollOut \/ Tick
  BY <1>1, <1>10, ShallowService DEF PollOut, Tick
<1>11. CASE TargetNopIn
  BY <1>1, <1>11 DEF TargetNopIn, CanRead
<1>12. CASE TargetPing
  BY <1>1, <1>12, ShallowService DEF TargetPing
<1>13. CASE Destroyed
  BY <1>13 DEF Destroyed, vars, initiatorVars, ShallowInv, ShallowStack, HasCommand
<1> QED
  BY <1>3, <1>4, <1>5, <1>6, <1>7, <1>8, <1>9, <1>10, <1>11, <1>12, <1>13

\* Whatever fails and whoever cancels, the library uses no PDU after it freed
\* it, in sessions whose bursts are one DATA-OUT long and whose callbacks at
\* most cancel all tasks.  Longer bursts are left out because a write that
\* fails under iscsi_send_data_out frees the command whose CmdSN its loop
\* reads next (src/lib/iscsi-command.c:102); callbacks that queue, because
\* they may fill waitpdu again after they have emptied it, and the check at
\* the end of iscsi_process_pdu only looks whether it is empty; REJECTs met
\* by callbacks that cancel, because iscsi_process_reject does not check.
THEOREM NoUseAfterFreeFailing ==
  ASSUME Timeouts = FALSE, MaxUnsolicited = 0, MaxData <= 1,
         CallbackCalls \subseteq {"cancel_all"}, Rejects = FALSE \/ CallbackCalls = {}
  PROVE  Spec => []NoUseAfterFree
<1>1. Init => ShallowInv
  BY KindInvInductive DEF Init, ShallowInv, ShallowStack
<1>2. ShallowInv /\ [Next]_vars => ShallowInv'
  <2> SUFFICES ASSUME ShallowInv, [Next]_vars PROVE ShallowStack'
    BY KindInvInductive DEF ShallowInv
  <2>1. CASE UNCHANGED vars
    BY <2>1 DEF vars, initiatorVars, ShallowInv, ShallowStack, HasCommand
  <2>2. CASE (\E r \in Reqs : AppCall(r)) \/ CancelAllTasks
    BY <2>2, ShallowCalls
  <2>3. CASE \E r \in Reqs : Read(r)
    BY <2>3, ShallowReads
  <2> QED
    BY <2>1, <2>2, <2>3, ShallowSteps DEF Next
<1>3. ShallowInv => NoUseAfterFree
  <2>1. ASSUME ShallowInv, agenda = <<>> PROVE ~Doing("undefined")
    BY <2>1 DEF Doing
  <2> QED
    BY <2>1, ShallowTop DEF NoUseAfterFree, ShallowInv
<1> QED
  BY <1>1, <1>2, <1>3, PTL DEF Spec


=============================================================================
