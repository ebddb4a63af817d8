---------------------------- MODULE ThreadsProofs ---------------------------
(***************************************************************************)
(* Theorems about Threads: for every number of threads, every set of calls *)
(* and every window of the target, and however many calls are made and     *)
(* however often the timeout passes.                                       *)
(***************************************************************************)
EXTENDS Threads, ListsProofs

-----------------------------------------------------------------------------
(* Types *)

Pdu == [ t : Threads, gen : Nat, immediate : BOOLEAN, late : BOOLEAN,
         cmdsn : Int ]

Reply == [to : Threads \X Nat, exp : Int, max : Int]

SyncState == [ gen : Nat, alive : BOOLEAN, late : BOOLEAN,
               finished : BOOLEAN, status : {0, -1}, sem : Nat ]

CallerPcs == {"idle", "failed", "cancel", "take", "queue", "kick", "signal",
              "wait", "flush", "loop", "return"}

ServicePcs == {"events", "poll", "read", "write", "pop", "send", "failed"}

TypeOK ==
  /\ mt \in {"off", "starting", "on", "stopping"}
  /\ pc \in [Threads -> CallerPcs]
  /\ call \in [Threads -> Calls \cup {NoCall}]
  /\ frame \in [Threads -> SyncState]
  /\ ret \in [Threads -> {"none", "good", "error"}]
  /\ number \in [Threads -> Int]
  /\ link \in {"up", "down"}
  /\ cmdsn \in Int /\ expcmdsn \in Int /\ maxcmdsn \in Int
  /\ outqueue \in Seq(Pdu) /\ waitpdu \in Seq(Pdu)
  /\ current \in Pdu \cup {None}
  /\ svc \in [pc : ServicePcs, out : BOOLEAN]
  /\ target \in [has : SUBSET Pdu, exp : Int] /\ IsFiniteSet(target.has)
  /\ replies \in Seq(Reply)
  /\ answered \in SUBSET (Threads \X Nat \X {0, -1})
  /\ wild \in SUBSET (Threads \X Nat)
  /\ failures \in SUBSET (Threads \X Nat)
  /\ ticks \in Nat

\* Who runs when: without the service thread nobody but Main is in a call,
\* only then does a call cancel others or run the service itself, and the
\* service rests while Main is elsewhere.  A step of the service finds what
\* the step before it has left: only Main could take it away.
Control ==
  /\ \A t \in Threads :
       /\ pc[t] # "idle" => call[t] \in Calls
       /\ pc[t] # "idle" => mt = "on" \/ (mt = "off" /\ t = Main)
       /\ pc[t] \in {"cancel", "kick", "flush", "loop"} => mt = "off"
       /\ pc[t] \in {"signal", "wait"} => mt = "on"
       /\ pc[t] # "idle" /\ mt = "on" => ~call[t].cleans
  /\ mt \in {"off", "starting"} /\ pc[Main] \notin {"flush", "loop"}
       => svc.pc = "events"
  /\ svc.pc = "read" => replies # << >>
  /\ svc.pc = "pop" => outqueue # << >> /\ current = None
  /\ svc.pc = "send" => current # None

-----------------------------------------------------------------------------
(* Numbers and lists *)

\* ExpCmdSN of a target that holds the numbers ns is well defined.
LEMMA NextMissingType ==
  ASSUME NEW n \in Int, NEW ns \in SUBSET Int, IsFiniteSet(ns)
  PROVE  LET m == NextMissing(n, ns)
         IN  /\ m \in Int /\ n <= m /\ m \notin ns
             /\ \A k \in n .. m - 1 : k \in ns
<1> DEFINE c == Cardinality(ns)
           T == {k \in Nat : n + k \notin ns}
<1>1. c \in Nat
  BY FS_CardinalityType
<1>2. \E k \in 0 .. c : n + k \notin ns
  <2>1. SUFFICES ASSUME \A k \in 0 .. c : n + k \in ns
                 PROVE  FALSE
    OBVIOUS
  <2>2. n .. n + c \subseteq ns
    <3>1. ASSUME NEW x \in n .. n + c PROVE x \in ns
      <4>1. x - n \in 0 .. c /\ n + (x - n) = x
        BY <1>1
      <4> QED
        BY <4>1, <2>1
    <3> QED
      BY <3>1
  <2>3. IsFiniteSet(n .. n + c) /\ Cardinality(n .. n + c) = c + 1
    BY <1>1, FS_Interval
  <2>4. Cardinality(n .. n + c) <= c
    BY <2>2, FS_Subset
  <2> QED
    BY <1>1, <2>3, <2>4
<1>3. T \in SUBSET Nat /\ T # {}
  BY <1>1, <1>2
<1>4. PICK k \in T : \A j \in T : k <= j
  BY <1>3, Smallest
<1>5. k <= c
  BY <1>1, <1>2, <1>4
<1>6. \A x \in n .. (n + k) - 1 : x \in ns
  <2>1. ASSUME NEW x \in n .. (n + k) - 1, x \notin ns PROVE FALSE
    <3>1. x - n \in Nat /\ n + (x - n) = x /\ x - n < k
      BY <1>4
    <3> QED
      BY <1>4, <2>1, <3>1
  <2> QED
    BY <2>1
<1>7. n + k \in n .. n + c /\ n + k \notin ns
  BY <1>1, <1>4, <1>5
<1>8. \E m \in n .. n + Cardinality(ns) :
        m \notin ns /\ \A x \in n .. m - 1 : x \in ns
  BY <1>6, <1>7
<1>9. LET m == NextMissing(n, ns)
      IN  /\ m \in n .. n + Cardinality(ns)
          /\ m \notin ns /\ \A x \in n .. m - 1 : x \in ns
  BY <1>8 DEF NextMissing
<1> QED
  BY <1>1, <1>9

\* No PDU being written is not a PDU.
LEMMA NoneIsNoPdu == None \notin Pdu
<1>1. "late" \notin DOMAIN None
  BY DEF None
<1>2. \A p \in Pdu : "late" \in DOMAIN p
  BY DEF Pdu
<1> QED
  BY <1>1, <1>2

\* Moving PDUs down changes nothing but their numbers.
LEMMA MovedDownType ==
  ASSUME TypeOK, NEW X \in SUBSET DOMAIN outqueue
  PROVE  /\ MovedDown(X) \in Seq(Pdu)
         /\ DOMAIN MovedDown(X) = DOMAIN outqueue
         /\ \A i \in DOMAIN outqueue :
              /\ MovedDown(X)[i].t = outqueue[i].t
              /\ MovedDown(X)[i].gen = outqueue[i].gen
              /\ X = {} => MovedDown(X)[i] = outqueue[i]
<1>1. DOMAIN outqueue = 1 .. Len(outqueue) /\ Len(outqueue) \in Nat
  BY LenProperties DEF TypeOK
<1>2. ASSUME NEW i \in DOMAIN outqueue
      PROVE  /\ MovedDown(X)[i] \in Pdu
             /\ MovedDown(X)[i].t = outqueue[i].t
             /\ MovedDown(X)[i].gen = outqueue[i].gen
             /\ X = {} => MovedDown(X)[i] = outqueue[i]
  <2> DEFINE G == {j \in X : j < i}
  <2>1. outqueue[i] \in Pdu
    BY <1>1, ElementOfSeq DEF TypeOK
  <2>2. IsFiniteSet(G)
    <3>1. IsFiniteSet(DOMAIN outqueue)
      BY <1>1, FS_Interval
    <3>2. G \subseteq DOMAIN outqueue
      OBVIOUS
    <3> QED
      BY <3>1, <3>2, FS_Subset
  <2>3. Cardinality(G) \in Nat
    BY <2>2, FS_CardinalityType
  <2>4. X = {} => Cardinality(G) = 0
    BY FS_EmptySet
  <2>5. MovedDown(X)[i] = [outqueue[i] EXCEPT !.cmdsn = @ - Cardinality(G)]
    BY DEF MovedDown
  <2>6. outqueue[i].cmdsn - Cardinality(G) \in Int
    BY <2>1, <2>3 DEF Pdu
  <2> HIDE DEF G
  <2>7. X = {} => outqueue[i].cmdsn - Cardinality(G) = outqueue[i].cmdsn
    BY <2>1, <2>4 DEF Pdu
  <2> QED
    BY <2>1, <2>5, <2>6, <2>7 DEF Pdu
<1>3. MovedDown(X) \in [1 .. Len(outqueue) -> Pdu]
  BY <1>1, <1>2 DEF MovedDown
<1>4. MovedDown(X) \in Seq(Pdu)
  BY <1>1, <1>3, SeqDef
<1> QED
  BY <1>2, <1>4 DEF MovedDown

\* The elements of a list of PDUs are PDUs.
LEMMA RangeType ==
  ASSUME NEW s \in Seq(Pdu)
  PROVE  /\ Range(s) \subseteq Pdu
         /\ \A i \in DOMAIN s : s[i] \in Pdu /\ s[i] \in Range(s)
         /\ \A p \in Range(s) : \E i \in DOMAIN s : p = s[i]
         /\ \A I \in SUBSET DOMAIN s : First(s, I) \subseteq Range(s)
BY ElementOfSeq, LenProperties DEF Range, First

\* What is noted when the callbacks of the PDUs ps run.
LEMMA HistoryType ==
  ASSUME TypeOK, NEW ps \in SUBSET Pdu, NEW st \in {0, -1},
         answered' = answered \cup {<<p.t, p.gen, st>> : p \in ps},
         wild' = wild \cup {<<p.t, p.gen>> : p \in {q \in ps : ~Alive(q)}}
  PROVE  /\ answered' \in SUBSET (Threads \X Nat \X {0, -1})
         /\ wild' \in SUBSET (Threads \X Nat)
<1>1. \A p \in ps : p.t \in Threads /\ p.gen \in Nat
  BY DEF Pdu
<1>2. answered' \in SUBSET (Threads \X Nat \X {0, -1})
  <2>1. \A p \in ps : <<p.t, p.gen, st>> \in Threads \X Nat \X {0, -1}
    BY <1>1
  <2>2. /\ answered \in SUBSET (Threads \X Nat \X {0, -1})
        /\ answered' = answered \cup {<<p.t, p.gen, st>> : p \in ps}
    BY DEF TypeOK
  <2>3. ASSUME NEW a \in answered' PROVE a \in Threads \X Nat \X {0, -1}
    <3>1. a \in answered \/ \E p \in ps : a = <<p.t, p.gen, st>>
      BY <2>2, Zenon
    <3> QED
      BY <2>1, <2>2, <3>1, Zenon
  <2> QED
    BY <2>3, Zenon
<1>3. wild' \in SUBSET (Threads \X Nat)
  <2>1. \A p \in ps : <<p.t, p.gen>> \in Threads \X Nat
    BY <1>1
  <2>2. /\ wild \in SUBSET (Threads \X Nat)
        /\ wild' = wild \cup {<<p.t, p.gen>> : p \in {q \in ps : ~Alive(q)}}
    BY DEF TypeOK
  <2>3. ASSUME NEW a \in wild' PROVE a \in Threads \X Nat
    <3>1. a \in wild \/ \E p \in ps : a = <<p.t, p.gen>>
      BY <2>2, Zenon
    <3> QED
      BY <2>1, <2>2, <3>1, Zenon
  <2> QED
    BY <2>3, Zenon
<1> QED
  BY <1>2, <1>3

\* A callback writes into frames, and leaves their age and number alone.
LEMMA CallbacksType ==
  ASSUME TypeOK, NEW ps \in SUBSET Pdu, NEW st \in {0, -1}, Callbacks(ps, st)
  PROVE  /\ frame' \in [Threads -> SyncState]
         /\ \A t \in Threads : /\ frame'[t].gen = frame[t].gen
                               /\ frame'[t].alive = frame[t].alive
                               /\ frame'[t].late = frame[t].late
         /\ answered' \in SUBSET (Threads \X Nat \X {0, -1})
         /\ wild' \in SUBSET (Threads \X Nat)
         /\ failures' = failures
<1>1. ASSUME NEW t \in Threads
      PROVE  /\ frame'[t] \in SyncState
             /\ frame'[t].gen = frame[t].gen
             /\ frame'[t].alive = frame[t].alive
             /\ frame'[t].late = frame[t].late
  <2>1. frame[t] \in SyncState
    BY DEF TypeOK
  <2>2. frame'[t] = frame[t] \/
        \E n \in {frame[t].sem, frame[t].sem + 1} :
          frame'[t] = [frame[t] EXCEPT !.finished = TRUE, !.status = st,
                                       !.sem = n]
    BY DEF Callbacks
  <2>3. frame[t].sem + 1 \in Nat
    BY <2>1 DEF SyncState
  <2> QED
    BY <2>1, <2>2, <2>3 DEF SyncState
<1>2. frame' = [t \in Threads |-> frame'[t]]
  BY DEF Callbacks
<1>3. /\ answered' = answered \cup {<<p.t, p.gen, st>> : p \in ps}
      /\ wild' = wild \cup {<<p.t, p.gen>> : p \in {q \in ps : ~Alive(q)}}
  BY DEF Callbacks
<1>4. /\ answered' \in SUBSET (Threads \X Nat \X {0, -1})
      /\ wild' \in SUBSET (Threads \X Nat)
  BY <1>3, HistoryType
<1> QED
  BY <1>1, <1>2, <1>4 DEF Callbacks

\* What is left after PDUs were cancelled.
LEMMA CancelType ==
  ASSUME TypeOK, CancelPdus
  PROVE  /\ cmdsn' \in Int
         /\ outqueue' \in Seq(Pdu) /\ waitpdu' \in Seq(Pdu)
         /\ current' \in Pdu \cup {None}
         /\ frame' \in [Threads -> SyncState]
         /\ \A t \in Threads : /\ frame'[t].gen = frame[t].gen
                               /\ frame'[t].alive = frame[t].alive
                               /\ frame'[t].late = frame[t].late
         /\ answered' \in SUBSET (Threads \X Nat \X {0, -1})
         /\ wild' \in SUBSET (Threads \X Nat)
         /\ failures' = failures
<1>1. Commands \in SUBSET DOMAIN outqueue /\ Cardinality(Commands) \in Nat
  <2>1. IsFiniteSet(DOMAIN outqueue)
    <3>1. DOMAIN outqueue = 1 .. Len(outqueue) /\ Len(outqueue) \in Nat
      BY LenProperties DEF TypeOK
    <3> QED
      BY <3>1, FS_Interval
  <2>2. Commands \in SUBSET DOMAIN outqueue
    BY DEF Commands
  <2> QED
    BY <2>1, <2>2, FS_Subset, FS_CardinalityType
<1>2. cmdsn' \in Int
  BY <1>1 DEF CancelPdus, TypeOK
<1>3. Range(outqueue) \cup Range(waitpdu) \in SUBSET Pdu
  BY RangeType DEF TypeOK
<1>4. Callbacks(Range(outqueue) \cup Range(waitpdu), -1)
  BY DEF CancelPdus
<1>5. outqueue' \in Seq(Pdu) /\ waitpdu' \in Seq(Pdu) /\ current' = None
  BY DEF CancelPdus
<1> QED
  BY <1>2, <1>3, <1>4, <1>5, CallbacksType

-----------------------------------------------------------------------------
(* Type correctness and control *)

\* Frames without a call, at its start, and when something in them changes.
LEMMA InitFrameType ==
  ASSUME NEW g \in Nat
  PROVE  LET f == [NoFrame(g) EXCEPT !.alive = TRUE]
         IN  /\ NoFrame(g) \in SyncState /\ NoFrame(g).gen = g
             /\ ~NoFrame(g).alive /\ ~NoFrame(g).finished
             /\ NoFrame(g).sem = 0 /\ ~NoFrame(g).late
             /\ f \in SyncState /\ f.gen = g /\ f.alive /\ ~f.finished
             /\ f.sem = 0 /\ ~f.late
<1> DEFINE n == NoFrame(g)
<1>1. 0 \in Nat /\ 0 \in {0, -1}
  OBVIOUS
<1>2. n \in SyncState
  BY <1>1, Zenon DEF NoFrame, SyncState
<1>3. n.gen = g /\ ~n.alive /\ ~n.finished /\ n.sem = 0 /\ ~n.late
  BY Zenon DEF NoFrame
<1> HIDE DEF n
<1>4. LET f == [n EXCEPT !.alive = TRUE]
      IN  /\ f \in SyncState /\ f.gen = g /\ f.alive /\ ~f.finished
          /\ f.sem = 0 /\ ~f.late
  BY <1>2, <1>3 DEF SyncState
<1> QED
  BY <1>2, <1>3, <1>4 DEF n

LEMMA FrameUpdates ==
  ASSUME TypeOK, NEW t \in Threads
  PROVE  /\ \A n \in Nat : [frame EXCEPT ![t].sem = n] \in [Threads -> SyncState]
         /\ [frame EXCEPT ![t].status = -1] \in [Threads -> SyncState]
         /\ [frame EXCEPT ![t].late = TRUE] \in [Threads -> SyncState]
         /\ \A b \in BOOLEAN :
              [frame EXCEPT ![t].status = -1, ![t].finished = b]
                \in [Threads -> SyncState]
         /\ [frame EXCEPT ![t] = NoFrame(@.gen)] \in [Threads -> SyncState]
<1>1. frame \in [Threads -> SyncState]
  BY DEF TypeOK
<1>2. frame[t] \in SyncState /\ NoFrame(frame[t].gen) \in SyncState
  BY <1>1, InitFrameType DEF SyncState
<1> QED
  BY <1>1, <1>2 DEF SyncState

\* The steps of a caller before its PDU is queued.
LEMMA BeginType ==
  ASSUME TypeOK, Control, NEW t \in Threads, Begin(t) \/ TakeNumber(t)
  PROVE  TypeOK' /\ Control'
<1>1. CASE Begin(t)
  <2>1. iscsi_init_sync_state(t) \in SyncState
    <3>1. frame[t].gen \in Nat
      BY DEF TypeOK, SyncState
    <3> QED
      BY <3>1, InitFrameType, frame[t].gen + 1 \in Nat DEF iscsi_init_sync_state
  <2>2. PICK c \in Calls :
          /\ mt = "on" => ~c.cancels /\ ~c.cleans
          /\ call' = [call EXCEPT ![t] = c]
          /\ pc' = [pc EXCEPT ![t] = IF c.cancels THEN "cancel"
                                     ELSE IF c.started THEN "take" ELSE "failed"]
    BY <1>1 DEF Begin
  <2>3. TypeOK'
    BY <1>1, <2>1, <2>2 DEF TypeOK, Begin, counters, wire, history, CallerPcs
  <2>4. Control'
    BY <1>1, <2>2 DEF TypeOK, Control, Begin, counters, wire, history
  <2> QED
    BY <2>3, <2>4
<1>2. CASE TakeNumber(t)
  <2>1. TypeOK'
    BY <1>2 DEF TypeOK, TakeNumber, NextNumber, wire, history, CallerPcs
  <2>2. Control'
    BY <1>2 DEF TypeOK, Control, TakeNumber, wire, history
  <2> QED
    BY <2>1, <2>2
<1> QED
  BY <1>1, <1>2

\* The steps that only move a caller on, and the service with it.
LEMMA CallerMovesType ==
  ASSUME TypeOK, Control, NEW t \in Threads,
         Signal(t) \/ Kick(t) \/ WaitSem(t) \/ Flushed(t) \/ LoopDone(t)
           \/ LoopFails(t)
  PROVE  TypeOK' /\ Control'
<1>1. /\ frame[t] \in SyncState
      /\ frame[t].sem > 0 => frame[t].sem - 1 \in Nat
  BY DEF TypeOK, SyncState
<1>2. At("write") \in [pc : ServicePcs, out : BOOLEAN]
      /\ At("events") \in [pc : ServicePcs, out : BOOLEAN]
  BY DEF At, ServicePcs
<1>3. CASE Signal(t)
  BY <1>2, <1>3 DEF TypeOK, Control, Signal, counters, wire, history, CallerPcs, At
<1>4. CASE Kick(t)
  BY <1>2, <1>4 DEF TypeOK, Control, Kick, counters, wire, history, CallerPcs, At
<1>5. CASE WaitSem(t)
  <2>1. frame' \in [Threads -> SyncState]
    <3> DEFINE n == frame[t].sem - 1
    <3>1. frame' = [frame EXCEPT ![t].sem = n]
      BY <1>5 DEF WaitSem
    <3>2. n \in Nat
      BY <1>1, <1>5 DEF WaitSem
    <3> HIDE DEF n
    <3> QED
      BY <3>1, <3>2, FrameUpdates
  <2> QED
    BY <1>5, <2>1 DEF TypeOK, Control, WaitSem, counters, wire, history, CallerPcs
<1>6. CASE Flushed(t)
  BY <1>2, <1>6 DEF TypeOK, Control, Flushed, counters, wire, history, CallerPcs, At
<1>7. CASE LoopDone(t)
  BY <1>7 DEF TypeOK, Control, LoopDone, AtTop, counters, wire, history, CallerPcs
<1>8. CASE LoopFails(t)
  <2>1. frame' \in [Threads -> SyncState]
    BY <1>8, FrameUpdates DEF LoopFails
  <2> QED
    BY <1>2, <1>8, <2>1 DEF TypeOK, Control, LoopFails, counters, wire, history, CallerPcs, At
<1> QED
  BY <1>3, <1>4, <1>5, <1>6, <1>7, <1>8

\* The PDU that t queues.
NewPdu(t) ==
  [ t |-> t, gen |-> frame[t].gen, immediate |-> call[t].immediate,
    late |-> FALSE,
    cmdsn |-> IF call[t].immediate /\ outqueue # << >>
              THEN Head(outqueue).cmdsn ELSE number[t] ]

\* Where it goes, as far as the proofs need to know.
LEMMA EnqueueEffect ==
  ASSUME TypeOK, Control, NEW t \in Threads, Enqueue(t)
  PROVE  /\ NewPdu(t) \in Pdu /\ call[t].immediate \in BOOLEAN
         /\ outqueue' \in Seq(Pdu) /\ outqueue' # << >>
         /\ \E i \in 1 .. (Len(outqueue) + 1) :
              /\ Len(outqueue') = Len(outqueue) + 1
              /\ \A k \in 1 .. (Len(outqueue) + 1) :
                   outqueue'[k] = IF k < i THEN outqueue[k]
                                  ELSE IF k = i THEN NewPdu(t)
                                  ELSE outqueue[k - 1]
<1> DEFINE p == NewPdu(t)
<1>1. call[t].immediate \in BOOLEAN
  <2>1. call[t] \in Calls
    BY DEF Enqueue, Control, TypeOK
  <2> QED
    BY <2>1, CallsAssumption
<1>2. p \in Pdu
  <2>1. outqueue # << >> => Head(outqueue) \in Pdu
    BY HeadTailProperties DEF TypeOK
  <2>2. p.cmdsn \in Int
    BY <2>1 DEF NewPdu, TypeOK, Pdu
  <2>3. frame[t].gen \in Nat
    BY DEF TypeOK, SyncState
  <2> DEFINE sn == p.cmdsn
  <2>4. p = [ t |-> t, gen |-> frame[t].gen, immediate |-> call[t].immediate,
              late |-> FALSE, cmdsn |-> sn ]
    BY DEF NewPdu
  <2> HIDE DEF sn, p
  <2>5. sn \in Int
    BY <2>2 DEF sn
  <2> QED
    BY <1>1, <2>3, <2>4, <2>5, Zenon DEF Pdu
<1>3. Len(outqueue) \in Nat /\ DOMAIN outqueue = 1 .. Len(outqueue)
  BY LenProperties DEF TypeOK
<1>4. \/ outqueue' = Append(outqueue, p)
      \/ \E i \in InFrontOf(p) : outqueue' = InsertAt(outqueue, i, p)
  BY Zenon DEF Enqueue, NewPdu
<1> HIDE DEF p
<1>5. CASE outqueue' = Append(outqueue, p)
  <2>1. /\ Append(outqueue, p) \in Seq(Pdu)
        /\ Len(Append(outqueue, p)) = Len(outqueue) + 1
        /\ \A k \in 1 .. Len(outqueue) + 1 :
             Append(outqueue, p)[k] = IF k < Len(outqueue) + 1
                                      THEN outqueue[k] ELSE p
    BY <1>2, <1>3, AppendProperties DEF TypeOK
  <2>2. Len(outqueue) + 1 \in 1 .. (Len(outqueue) + 1)
    BY <1>3
  <2>3. \A k \in 1 .. (Len(outqueue) + 1) :
          k < Len(outqueue) + 1 \/ k = Len(outqueue) + 1
    BY <1>3
  <2>4. outqueue' # << >>
    BY <1>3, <1>5, <2>1
  <2> QED
    BY <1>1, <1>2, <1>5, <2>1, <2>2, <2>3, <2>4 DEF p
<1>6. CASE \E i \in InFrontOf(p) : outqueue' = InsertAt(outqueue, i, p)
  <2>1. PICK i \in 1 .. (Len(outqueue) + 1) :
          outqueue' = InsertAt(outqueue, i, p)
    BY <1>3, <1>6 DEF InFrontOf
  <2>2. /\ outqueue' \in Seq(Pdu)
        /\ Len(outqueue') = Len(outqueue) + 1
        /\ \A k \in 1 .. (Len(outqueue) + 1) :
             outqueue'[k] = IF k < i THEN outqueue[k]
                            ELSE IF k = i THEN p ELSE outqueue[k - 1]
    <3>1. outqueue \in Seq(Pdu)
      BY DEF TypeOK
    <3>2. /\ InsertAt(outqueue, i, p) \in Seq(Pdu)
          /\ Inserted(InsertAt(outqueue, i, p), outqueue, i, p)
      BY <1>2, <3>1, InsertShape
    <3> QED
      BY <2>1, <3>2 DEF Inserted
  <2>3. outqueue' # << >>
    BY <1>3, <2>2
  <2> QED
    BY <1>1, <1>2, <2>2, <2>3 DEF p
<1> QED
  BY <1>4, <1>5, <1>6

LEMMA EnqueueType ==
  ASSUME TypeOK, Control, NEW t \in Threads, Enqueue(t)
  PROVE  TypeOK' /\ Control'
<1>1. outqueue' \in Seq(Pdu) /\ outqueue' # << >>
  BY EnqueueEffect
<1>2. \E l \in {"kick", "signal", "wait"} :
        /\ pc' = [pc EXCEPT ![t] = l]
        /\ l = "kick" <=> mt = "off"
  BY Zenon DEF Enqueue
<1>3. number' \in [Threads -> Int] /\ pc[t] = "queue"
  BY DEF Enqueue, TypeOK
<1>4. UNCHANGED <<mt, call, frame, ret, counters, waitpdu, current, svc,
                  wire, history, ticks>>
  BY DEF Enqueue
<1>5. TypeOK'
  BY <1>1, <1>2, <1>3, <1>4
  DEF TypeOK, counters, wire, history, CallerPcs
<1>6. Control'
  BY <1>1, <1>2, <1>3, <1>4
  DEF TypeOK, Control, counters, wire, history
<1> QED
  BY <1>5, <1>6

\* The scan for timeouts.
LEMMA LoopTimeoutEffect ==
  ASSUME TypeOK, Control, NEW t \in Threads, LoopTimeout(t)
  PROVE  LET out == Late(outqueue) \cap Commands
             done == First(waitpdu, Late(waitpdu))
             ps == First(outqueue, out) \cup done
         IN  /\ t = Main /\ mt = "off" /\ svc.pc = "events"
             /\ out \in SUBSET DOMAIN outqueue
             /\ outqueue' \in Retain(MovedDown(out), DOMAIN outqueue \ out)
             /\ outqueue' \in Seq(Pdu)
             /\ waitpdu' \in Retain(waitpdu, DOMAIN waitpdu \ Late(waitpdu))
             /\ waitpdu' \in Seq(Pdu)
             /\ current' = IF current \in done THEN None ELSE current
             /\ cmdsn' \in Int
             /\ ps \in SUBSET Pdu
             /\ ps \subseteq Range(outqueue) \cup Range(waitpdu)
             /\ frame' \in [Threads -> SyncState]
             /\ \A u \in Threads : /\ frame'[u].gen = frame[u].gen
                                   /\ frame'[u].alive = frame[u].alive
             /\ answered' = answered \cup {<<p.t, p.gen, -1>> : p \in ps}
             /\ wild' = wild \cup {<<p.t, p.gen>> :
                                     p \in {q \in ps : ~Alive(q)}}
<1> DEFINE out == Late(outqueue) \cap Commands
           done == First(waitpdu, Late(waitpdu))
           ps == First(outqueue, out) \cup done
<1>1. /\ pc[t] = "loop" /\ svc.pc = "events"
      /\ outqueue' \in Retain(MovedDown(out), DOMAIN outqueue \ out)
      /\ waitpdu' \in Retain(waitpdu, DOMAIN waitpdu \ Late(waitpdu))
      /\ current' = IF current \in done THEN None ELSE current
      /\ cmdsn' = cmdsn - Cardinality(out)
      /\ answered' = answered \cup {<<p.t, p.gen, -1>> : p \in ps}
      /\ wild' = wild \cup {<<p.t, p.gen>> : p \in {q \in ps : ~Alive(q)}}
  BY DEF LoopTimeout, AtTop
<1>2. \E b \in BOOLEAN :
        frame' = [frame EXCEPT ![t].status = -1, ![t].finished = b]
  <2> DEFINE b == \E p \in ps : Alive(p)
  <2>1. frame' = [frame EXCEPT ![t].status = -1, ![t].finished = b]
    BY DEF LoopTimeout
  <2>2. b \in BOOLEAN
    OBVIOUS
  <2> HIDE DEF b
  <2> QED
    BY <2>1, <2>2
<1>3. out \in SUBSET DOMAIN outqueue /\ Late(waitpdu) \in SUBSET DOMAIN waitpdu
  BY DEF Late
<1>4. Cardinality(out) \in Nat
  <2>1. DOMAIN outqueue = 1 .. Len(outqueue) /\ Len(outqueue) \in Nat
    BY LenProperties DEF TypeOK
  <2>2. IsFiniteSet(DOMAIN outqueue)
    BY <2>1, FS_Interval
  <2> QED
    BY <1>3, <2>2, FS_Subset, FS_CardinalityType
<1>5. ps \in SUBSET Pdu /\ ps \subseteq Range(outqueue) \cup Range(waitpdu)
  BY <1>3, RangeType DEF TypeOK
<1> HIDE DEF out, done, ps
<1>6. outqueue' \in Seq(Pdu)
  <2>1. /\ MovedDown(out) \in Seq(Pdu)
        /\ DOMAIN outqueue \ out \in SUBSET DOMAIN MovedDown(out)
    BY <1>3, MovedDownType
  <2> QED
    BY <1>1, <2>1, RetainType
<1>7. waitpdu' \in Seq(Pdu)
  <2>1. /\ waitpdu \in Seq(Pdu)
        /\ DOMAIN waitpdu \ Late(waitpdu) \in SUBSET DOMAIN waitpdu
    BY DEF TypeOK
  <2> QED
    BY <1>1, <2>1, RetainType
<1>8. /\ frame' \in [Threads -> SyncState]
      /\ \A u \in Threads : /\ frame'[u].gen = frame[u].gen
                            /\ frame'[u].alive = frame[u].alive
  <2> PICK b \in BOOLEAN :
          frame' = [frame EXCEPT ![t].status = -1, ![t].finished = b]
    BY <1>2
  <2>1. frame' \in [Threads -> SyncState]
    BY FrameUpdates
  <2>2. frame \in [Threads -> SyncState]
    BY DEF TypeOK
  <2> QED
    BY <2>1, <2>2 DEF SyncState
<1>9. t = Main /\ mt = "off" /\ cmdsn' \in Int
  BY <1>1, <1>4 DEF Control, TypeOK
<1> QED
  BY <1>1, <1>3, <1>5, <1>6, <1>7, <1>8, <1>9 DEF out, done, ps

LEMMA LoopTimeoutType ==
  ASSUME TypeOK, Control, NEW t \in Threads, LoopTimeout(t)
  PROVE  TypeOK' /\ Control'
<1>1. /\ t = Main /\ mt = "off" /\ svc.pc = "events"
      /\ outqueue' \in Seq(Pdu) /\ waitpdu' \in Seq(Pdu)
      /\ current' \in {current, None} /\ cmdsn' \in Int
      /\ frame' \in [Threads -> SyncState]
  BY LoopTimeoutEffect
<1>2. /\ answered' \in SUBSET (Threads \X Nat \X {0, -1})
      /\ wild' \in SUBSET (Threads \X Nat)
  BY LoopTimeoutEffect, HistoryType
<1>3. /\ pc' = [pc EXCEPT ![t] = "return"] /\ pc[t] = "loop"
      /\ UNCHANGED <<mt, call, ret, number, expcmdsn, maxcmdsn, svc, wire,
                     failures, ticks>>
  BY DEF LoopTimeout, AtTop
<1>4. TypeOK'
  BY <1>1, <1>2, <1>3 DEF TypeOK, wire, CallerPcs
<1>5. Control'
  BY <1>1, <1>3 DEF TypeOK, Control, wire
<1> QED
  BY <1>4, <1>5

\* The steps in which a caller cancels PDUs.
LEMMA CancelStepsType ==
  ASSUME TypeOK, Control, NEW t \in Threads, CancelFirst(t) \/ Clean(t)
  PROVE  TypeOK' /\ Control' /\ t = Main /\ mt = "off" /\ svc.pc = "events"
<1>1. /\ pc[t] \in {"cancel", "return"}
      /\ CancelPdus
      /\ UNCHANGED <<mt, call, number, expcmdsn, maxcmdsn, svc, wire, ticks>>
  BY DEF CancelFirst, Clean
<1>2. t = Main /\ mt = "off" /\ svc.pc = "events"
  <2>1. CASE CancelFirst(t)
    BY <2>1 DEF CancelFirst, Control, TypeOK
  <2>2. CASE Clean(t)
    BY <2>2 DEF Clean, Control, TypeOK
  <2> QED
    BY <2>1, <2>2
<1>3. \E l \in {"take", "failed"} : pc' = [pc EXCEPT ![t] = l]
  BY DEF CancelFirst, Clean
<1>4. ret' \in [Threads -> {"none", "good", "error"}]
  BY DEF CancelFirst, Clean, TypeOK
<1>5. /\ cmdsn' \in Int
      /\ outqueue' \in Seq(Pdu) /\ waitpdu' \in Seq(Pdu)
      /\ current' \in Pdu \cup {None}
      /\ frame' \in [Threads -> SyncState]
      /\ answered' \in SUBSET (Threads \X Nat \X {0, -1})
      /\ wild' \in SUBSET (Threads \X Nat)
      /\ failures' = failures
  BY <1>1, CancelType
<1>6. TypeOK'
  BY <1>1, <1>3, <1>4, <1>5 DEF TypeOK, wire, CallerPcs
<1>7. Control'
  BY <1>1, <1>2, <1>3 DEF TypeOK, Control, wire
<1> QED
  BY <1>2, <1>6, <1>7

\* A call returns.
LEMMA LeaveType ==
  ASSUME TypeOK, Control, NEW t \in Threads, StartFails(t) \/ Return(t)
  PROVE  TypeOK' /\ Control'
<1>1. /\ frame' = [frame EXCEPT ![t] = NoFrame(@.gen)]
      /\ call' = [call EXCEPT ![t] = NoCall]
      /\ pc' = [pc EXCEPT ![t] = "idle"]
      /\ pc[t] \in {"failed", "return"}
      /\ UNCHANGED <<mt, number, counters, outqueue, waitpdu, current, svc,
                     wire, answered, wild, ticks>>
  BY DEF StartFails, Return, Leave, history
<1>2. frame' \in [Threads -> SyncState]
  BY <1>1, FrameUpdates
<1>3. ret' \in [Threads -> {"none", "good", "error"}]
  BY DEF StartFails, Return, TypeOK
<1>4. failures' \in SUBSET (Threads \X Nat)
  <2>1. frame[t].gen \in Nat
    BY DEF TypeOK, SyncState
  <2>2. failures' \in {failures, failures \cup {<<t, frame[t].gen>>}}
    BY DEF StartFails, Return, history
  <2> QED
    BY <2>1, <2>2 DEF TypeOK
<1>5. TypeOK'
  BY <1>1, <1>2, <1>3, <1>4 DEF TypeOK, counters, wire, CallerPcs
<1>6. Control'
  BY <1>1 DEF TypeOK, Control, counters, wire
<1> QED
  BY <1>5, <1>6

\* The steps of the service that only decide what it does next.
LEMMA ServiceMovesType ==
  ASSUME TypeOK, Control,
         WhichEvents \/ Poll \/ Failed \/ TestHead \/ SendPart
  PROVE  /\ TypeOK' /\ Control'
         /\ UNCHANGED <<mt, callers, frame, counters, outqueue, waitpdu,
                        current, target, replies, history, ticks>>
<1>1. \A l \in ServicePcs : /\ At(l) \in [pc : ServicePcs, out : BOOLEAN]
                            /\ At(l).pc = l
  BY DEF At
<1>2. UNCHANGED <<mt, callers, frame, counters, outqueue, waitpdu, current,
                  target, replies, history, ticks>>
  BY DEF WhichEvents, Poll, Failed, TestHead, SendPart, wire
<1>3. link' \in {"up", "down"}
  BY DEF WhichEvents, Poll, Failed, TestHead, SendPart, wire, TypeOK
<1>4. mt \in {"on", "stopping"} \/ pc[Main] \in {"flush", "loop"}
  BY DEF WhichEvents, Poll, Failed, TestHead, SendPart, SvcStep, Running
<1>5. /\ svc' \in [pc : ServicePcs, out : BOOLEAN]
      /\ svc'.pc = "read" => replies # << >>
      /\ svc'.pc = "pop" => outqueue # << >> /\ current = None
      /\ svc'.pc = "send" => current # None
  <2>1. CASE WhichEvents
    <3>1. CanWrite \in BOOLEAN
      BY DEF CanWrite
    <3>2. svc' = [pc |-> "poll", out |-> CanWrite]
      BY <2>1 DEF WhichEvents
    <3> QED
      BY <3>1, <3>2, Zenon DEF ServicePcs
  <2>2. CASE Poll
    <3>1. \/ \E l \in {"failed", "write", "events"} : svc' = At(l)
          \/ replies # << >> /\ svc' = [svc EXCEPT !.pc = "read"]
      BY <2>2 DEF Poll, TypeOK
    <3>2. svc \in [pc : ServicePcs, out : BOOLEAN]
      BY DEF TypeOK
    <3> QED
      BY <1>1, <3>1, <3>2 DEF ServicePcs
  <2>3. CASE Failed
    BY <1>1, <2>3 DEF Failed, ServicePcs
  <2>4. CASE TestHead
    BY <1>1, <2>4 DEF TestHead, ServicePcs
  <2>5. CASE SendPart
    BY <1>1, <2>5 DEF SendPart, ServicePcs
  <2> QED
    BY <2>1, <2>2, <2>3, <2>4, <2>5
<1>6. TypeOK'
  BY <1>2, <1>3, <1>5 DEF TypeOK, callers, counters, history
<1>7. Control'
  BY <1>2, <1>4, <1>5 DEF Control, callers, counters, history
<1> QED
  BY <1>2, <1>6, <1>7

\* Reading a reply.
LEMMA ReadEffect ==
  ASSUME TypeOK, Control, Read
  PROVE  LET r == Head(replies)
             I == {i \in DOMAIN waitpdu : <<waitpdu[i].t, waitpdu[i].gen>> = r.to}
             ps == {waitpdu[i] : i \in I}
         IN  /\ replies # << >> /\ r \in Reply /\ replies' = Tail(replies)
             /\ r = replies[1] /\ replies' \in Seq(Reply)
             /\ \A k \in DOMAIN replies' : \E j \in DOMAIN replies :
                                             replies'[k] = replies[j]
             /\ ps \in SUBSET Pdu /\ ps \subseteq Range(waitpdu)
             /\ Callbacks(ps, 0)
             /\ waitpdu' \in Retain(waitpdu, DOMAIN waitpdu \ I)
             /\ waitpdu' \in Seq(Pdu)
             /\ expcmdsn' \in {expcmdsn, r.exp}
<1> DEFINE r == Head(replies)
           I == {i \in DOMAIN waitpdu : <<waitpdu[i].t, waitpdu[i].gen>> = r.to}
           ps == {waitpdu[i] : i \in I}
<1>1. replies # << >> /\ replies \in Seq(Reply)
  BY DEF Read, SvcStep, Control, TypeOK
<1>2. /\ r \in Reply /\ r = replies[1] /\ Tail(replies) \in Seq(Reply)
      /\ Len(Tail(replies)) = Len(replies) - 1
      /\ \A k \in 1 .. Len(Tail(replies)) : Tail(replies)[k] = replies[k + 1]
  BY <1>1, HeadTailProperties
<1>3. \A k \in DOMAIN Tail(replies) : \E j \in DOMAIN replies :
                                       Tail(replies)[k] = replies[j]
  <2>1. ASSUME NEW k \in DOMAIN Tail(replies)
        PROVE  \E j \in DOMAIN replies : Tail(replies)[k] = replies[j]
    <3>1. k \in 1 .. Len(Tail(replies)) /\ Len(replies) \in Nat
      BY <1>1, <1>2, LenProperties
    <3>2. k + 1 \in DOMAIN replies
      BY <1>1, <1>2, <3>1, LenProperties
    <3> QED
      BY <1>2, <3>1, <3>2
  <2> QED
    BY <2>1
<1>4. ps \in SUBSET Pdu /\ ps \subseteq Range(waitpdu)
  BY RangeType DEF TypeOK
<1>5. /\ replies' = Tail(replies)
      /\ Callbacks(ps, 0)
      /\ waitpdu' \in Retain(waitpdu, DOMAIN waitpdu \ I)
      /\ expcmdsn' \in {expcmdsn, r.exp}
  BY DEF Read
<1>6. waitpdu' \in Seq(Pdu)
  <2>1. waitpdu \in Seq(Pdu) /\ DOMAIN waitpdu \ I \in SUBSET DOMAIN waitpdu
    BY DEF TypeOK
  <2> HIDE DEF I
  <2> QED
    BY <1>5, <2>1, RetainType
<1> HIDE DEF r, I, ps
<1> QED
  BY <1>1, <1>2, <1>3, <1>4, <1>5, <1>6 DEF r, I, ps

LEMMA ReadType ==
  ASSUME TypeOK, Control, Read
  PROVE  TypeOK' /\ Control'
<1> DEFINE r == Head(replies)
           ps == {waitpdu[i] : i \in {j \in DOMAIN waitpdu :
                            <<waitpdu[j].t, waitpdu[j].gen>> = r.to}}
<1>1. /\ r \in Reply /\ replies' \in Seq(Reply) /\ waitpdu' \in Seq(Pdu)
      /\ ps \in SUBSET Pdu /\ Callbacks(ps, 0)
  BY ReadEffect
<1>2. /\ frame' \in [Threads -> SyncState]
      /\ answered' \in SUBSET (Threads \X Nat \X {0, -1})
      /\ wild' \in SUBSET (Threads \X Nat)
      /\ failures' = failures
  <2> HIDE DEF ps
  <2> QED
    BY <1>1, CallbacksType
<1>3. expcmdsn' \in Int /\ maxcmdsn' \in Int
  <2>1. expcmdsn' \in {expcmdsn, r.exp} /\ maxcmdsn' \in {maxcmdsn, r.max}
    BY DEF Read
  <2> HIDE DEF r
  <2> QED
    BY <1>1, <2>1 DEF TypeOK, Reply
<1>4. \E l \in {"failed", "write", "events"} : svc' = At(l)
  BY DEF Read
<1>5. link' \in {"up", "down"}
  BY DEF Read, TypeOK
<1>6. UNCHANGED <<mt, callers, cmdsn, outqueue, current, target, ticks>>
  BY DEF Read
<1>7. mt \in {"on", "stopping"} \/ pc[Main] \in {"flush", "loop"}
  BY DEF Read, SvcStep, Running
<1>8. /\ svc' \in [pc : ServicePcs, out : BOOLEAN]
      /\ svc'.pc \in {"failed", "write", "events"}
  BY <1>4 DEF At, ServicePcs
<1> HIDE DEF r, ps
<1>9. TypeOK'
  BY <1>1, <1>2, <1>3, <1>5, <1>6, <1>8 DEF TypeOK, callers
<1>10. Control'
  BY <1>6, <1>7, <1>8 DEF Control, callers
<1> QED
  BY <1>9, <1>10

\* The head of the outqueue becomes current, and waits for its reply.
LEMMA PopEffect ==
  ASSUME TypeOK, Control, Pop
  PROVE  /\ outqueue # << >> /\ current = None
         /\ current' = outqueue[1] /\ current' \in Pdu /\ 1 \in DOMAIN outqueue
         /\ outqueue' \in Seq(Pdu) /\ waitpdu' \in Seq(Pdu)
         /\ \A k \in DOMAIN outqueue' :
              k + 1 \in DOMAIN outqueue /\ outqueue'[k] = outqueue[k + 1]
         /\ \A k \in DOMAIN outqueue :
              k = 1 \/ (k - 1 \in DOMAIN outqueue' /\ outqueue'[k - 1] = outqueue[k])
         /\ Range(waitpdu') = Range(waitpdu) \cup {current'}
<1>1. /\ outqueue # << >> /\ current = None
      /\ outqueue \in Seq(Pdu) /\ waitpdu \in Seq(Pdu)
  BY DEF Pop, SvcStep, Control, TypeOK
<1>2. /\ current' = Head(outqueue) /\ outqueue' = Tail(outqueue)
      /\ waitpdu' = Append(waitpdu, Head(outqueue))
  BY DEF Pop
<1>3. /\ Head(outqueue) = outqueue[1] /\ Head(outqueue) \in Pdu
      /\ Tail(outqueue) \in Seq(Pdu)
      /\ Len(Tail(outqueue)) = Len(outqueue) - 1
      /\ \A k \in 1 .. Len(Tail(outqueue)) : Tail(outqueue)[k] = outqueue[k + 1]
  BY <1>1, HeadTailProperties
<1>4. /\ DOMAIN outqueue = 1 .. Len(outqueue) /\ Len(outqueue) \in Nat
      /\ DOMAIN Tail(outqueue) = 1 .. Len(Tail(outqueue))
      /\ Len(outqueue) # 0
  BY <1>1, <1>3, LenProperties, EmptySeq
<1>5. /\ \A k \in DOMAIN outqueue' :
           k + 1 \in DOMAIN outqueue /\ outqueue'[k] = outqueue[k + 1]
      /\ \A k \in DOMAIN outqueue :
           k = 1 \/ (k - 1 \in DOMAIN outqueue' /\ outqueue'[k - 1] = outqueue[k])
      /\ 1 \in DOMAIN outqueue
  BY <1>2, <1>3, <1>4
<1>6. waitpdu' \in Seq(Pdu) /\ Range(waitpdu') = Range(waitpdu) \cup {current'}
  <2> DEFINE h == Head(outqueue)
  <2>1. h \in Pdu /\ waitpdu' = Append(waitpdu, h) /\ current' = h
    BY <1>2, <1>3
  <2> HIDE DEF h
  <2>2. /\ Append(waitpdu, h) \in Seq(Pdu) /\ Len(waitpdu) \in Nat
        /\ DOMAIN waitpdu = 1 .. Len(waitpdu)
        /\ DOMAIN Append(waitpdu, h) = 1 .. Len(waitpdu) + 1
        /\ \A k \in 1 .. Len(waitpdu) : Append(waitpdu, h)[k] = waitpdu[k]
        /\ Append(waitpdu, h)[Len(waitpdu) + 1] = h
    BY <1>1, <2>1, AppendProperties, LenProperties
  <2>3. ASSUME NEW x \in Range(waitpdu') PROVE x \in Range(waitpdu) \cup {h}
    <3>1. PICK k \in 1 .. Len(waitpdu) + 1 : x = waitpdu'[k]
      BY <2>1, <2>2, <2>3 DEF Range
    <3>2. k \in 1 .. Len(waitpdu) \/ k = Len(waitpdu) + 1
      BY <2>2
    <3> QED
      BY <2>1, <2>2, <3>1, <3>2 DEF Range
  <2>4. ASSUME NEW x \in Range(waitpdu) \cup {h} PROVE x \in Range(waitpdu')
    <3>1. \E k \in 1 .. Len(waitpdu) + 1 : x = waitpdu'[k]
      BY <2>1, <2>2, <2>4 DEF Range
    <3> QED
      BY <2>1, <2>2, <3>1 DEF Range
  <2> QED
    BY <2>1, <2>2, <2>3, <2>4
<1> QED
  BY <1>1, <1>2, <1>3, <1>5, <1>6

LEMMA PopType ==
  ASSUME TypeOK, Control, Pop
  PROVE  TypeOK' /\ Control'
<1>1. /\ current' \in Pdu /\ outqueue' \in Seq(Pdu) /\ waitpdu' \in Seq(Pdu)
  BY PopEffect
<1>2. /\ svc' = At("send")
      /\ UNCHANGED <<mt, callers, frame, counters, wire, history, ticks>>
      /\ mt \in {"on", "stopping"} \/ pc[Main] \in {"flush", "loop"}
  BY DEF Pop, SvcStep, Running
<1>3. svc' \in [pc : ServicePcs, out : BOOLEAN] /\ svc'.pc = "send"
  BY <1>2 DEF At, ServicePcs
<1>4. current' # None
  BY <1>1, NoneIsNoPdu
<1>5. TypeOK'
  BY <1>1, <1>2, <1>3 DEF TypeOK, callers, counters, wire, history
<1>6. Control'
  BY <1>2, <1>3, <1>4 DEF Control, callers, counters, wire, history
<1> QED
  BY <1>5, <1>6

\* What the target has got, and the numbers of the commands among it.
Got == target.has \cup {current}
GotNumbers == {p.cmdsn : p \in {q \in Got : ~q.immediate}}

LEMMA SendEffect ==
  ASSUME TypeOK, Control, Send
  PROVE  /\ current \in Pdu /\ current' = None
         /\ target'.has = Got /\ Got \subseteq Pdu /\ IsFiniteSet(Got)
         /\ GotNumbers \subseteq Int
         /\ target' \in [has : SUBSET Pdu, exp : Int]
         /\ target.exp <= target'.exp /\ target'.exp \notin GotNumbers
         /\ \A k \in target.exp .. target'.exp - 1 : k \in GotNumbers
<1>1. /\ current \in Pdu /\ target.has \subseteq Pdu /\ target.exp \in Int
      /\ IsFiniteSet(target.has)
  BY DEF Send, SvcStep, Control, TypeOK
<1>2. Got \subseteq Pdu /\ IsFiniteSet(Got)
  <2>1. Got \subseteq Pdu
    BY <1>1 DEF Got
  <2>2. IsFiniteSet(Got)
    BY <1>1, FS_AddElement DEF Got
  <2> QED
    BY <2>1, <2>2
<1>3. GotNumbers \in SUBSET Int /\ IsFiniteSet(GotNumbers)
  <2> DEFINE S == {q \in Got : ~q.immediate}
             f == [q \in S |-> q.cmdsn]
  <2>1. S \subseteq Pdu /\ IsFiniteSet(S)
    BY <1>2, FS_Subset
  <2>2. GotNumbers \in SUBSET Int
    BY <2>1 DEF GotNumbers, Pdu
  <2>3. f \in Surjection(S, GotNumbers)
    BY DEF Surjection, GotNumbers
  <2> HIDE DEF S, f
  <2> QED
    BY <2>1, <2>2, <2>3, FS_Surjection
<1>4. target' = [has |-> Got, exp |-> NextMissing(target.exp, GotNumbers)]
      /\ current' = None
  BY DEF Send, Got, GotNumbers
<1>5. LET m == NextMissing(target.exp, GotNumbers)
      IN  /\ m \in Int /\ target.exp <= m /\ m \notin GotNumbers
          /\ \A k \in target.exp .. m - 1 : k \in GotNumbers
  BY <1>1, <1>3, NextMissingType
<1> QED
  BY <1>1, <1>2, <1>3, <1>4, <1>5

LEMMA SendType ==
  ASSUME TypeOK, Control, Send
  PROVE  TypeOK' /\ Control'
<1>1. /\ target' \in [has : SUBSET Pdu, exp : Int] /\ IsFiniteSet(target'.has)
      /\ current' = None
  BY SendEffect
<1>2. /\ svc' = At("write")
      /\ UNCHANGED <<mt, callers, frame, counters, outqueue, waitpdu, link,
                     replies, history, ticks>>
      /\ mt \in {"on", "stopping"} \/ pc[Main] \in {"flush", "loop"}
  BY DEF Send, SvcStep, Running
<1>3. svc' \in [pc : ServicePcs, out : BOOLEAN] /\ svc'.pc = "write"
  BY <1>2 DEF At, ServicePcs
<1>4. TypeOK'
  BY <1>1, <1>2, <1>3 DEF TypeOK, callers, counters, history
<1>5. Control'
  BY <1>2, <1>3 DEF Control, callers, counters, history
<1> QED
  BY <1>4, <1>5

\* The target answers a request that it holds.
LEMMA AnswerEffect ==
  ASSUME TypeOK, Answer
  PROVE  \E p \in target.has :
           /\ p \in Pdu
           /\ p.immediate \/ p.cmdsn < target.exp
           /\ target'.has = target.has \ {p} /\ target'.exp = target.exp
           /\ target' \in [has : SUBSET Pdu, exp : Int]
           /\ IsFiniteSet(target'.has)
           /\ replies' \in Seq(Reply) /\ replies' # << >>
           /\ \A k \in DOMAIN replies' :
                \/ k \in DOMAIN replies /\ replies'[k] = replies[k]
                \/ replies'[k].to = <<p.t, p.gen>> /\ replies'[k].exp = target.exp
<1>1. PICK p \in target.has :
        /\ p.immediate \/ p.cmdsn < target.exp
        /\ target' = [target EXCEPT !.has = @ \ {p}]
        /\ replies' = Append(replies,
                        [ to |-> <<p.t, p.gen>>, exp |-> target.exp,
                          max |-> target.exp + Window - 1 ])
  BY DEF Answer
<1> DEFINE r == [ to |-> <<p.t, p.gen>>, exp |-> target.exp,
                  max |-> target.exp + Window - 1 ]
<1>2. /\ p \in Pdu /\ target \in [has : SUBSET Pdu, exp : Int]
      /\ IsFiniteSet(target.has)
  BY DEF TypeOK
<1>3. r \in Reply /\ r.to = <<p.t, p.gen>> /\ r.exp = target.exp
  <2>1. target.exp \in Int /\ target.exp + Window - 1 \in Int
    BY <1>2, WindowAssumption
  <2> QED
    BY <1>2, <2>1 DEF Pdu, Reply
<1>4. /\ target'.has = target.has \ {p} /\ target'.exp = target.exp
      /\ target' \in [has : SUBSET Pdu, exp : Int]
  BY <1>1, <1>2
<1>5. IsFiniteSet(target'.has)
  BY <1>2, <1>4, FS_RemoveElement
<1>6. replies' = Append(replies, r) /\ replies \in Seq(Reply)
  BY <1>1 DEF TypeOK
<1> HIDE DEF r
<1>7. /\ replies' \in Seq(Reply) /\ Len(replies) \in Nat
      /\ DOMAIN replies = 1 .. Len(replies)
      /\ DOMAIN replies' = 1 .. Len(replies) + 1
      /\ \A k \in 1 .. Len(replies) : replies'[k] = replies[k]
      /\ replies'[Len(replies) + 1] = r
  BY <1>3, <1>6, AppendProperties, LenProperties
<1>8. \A k \in DOMAIN replies' : \/ k \in DOMAIN replies /\ replies'[k] = replies[k]
                                 \/ replies'[k] = r
  <2>1. \A k \in 1 .. Len(replies) + 1 :
          k \in 1 .. Len(replies) \/ k = Len(replies) + 1
    BY <1>7
  <2> QED
    BY <1>7, <2>1
<1>9. replies' # << >>
  <2>1. 1 \in DOMAIN replies'
    BY <1>7
  <2> QED
    BY <2>1
<1>10. \A k \in DOMAIN replies' :
         \/ k \in DOMAIN replies /\ replies'[k] = replies[k]
         \/ replies'[k].to = <<p.t, p.gen>> /\ replies'[k].exp = target.exp
  BY <1>3, <1>8
<1> QED
  BY <1>1, <1>2, <1>4, <1>5, <1>7, <1>9, <1>10

\* The other side, and starting and stopping the service thread.
LEMMA OtherType ==
  ASSUME TypeOK, Control,
         Answer \/ LinkDown \/ Start \/ Started \/ Stop \/ Stopped \/ Finished
  PROVE  TypeOK' /\ Control'
<1>1. CASE Answer
  <2>1. /\ UNCHANGED <<mt, callers, frame, link, counters, outqueue, waitpdu,
                       current, svc, history, ticks>>
        /\ target' \in [has : SUBSET Pdu, exp : Int] /\ IsFiniteSet(target'.has)
        /\ replies' \in Seq(Reply) /\ replies' # << >>
    BY <1>1, AnswerEffect DEF Answer
  <2> QED
    BY <2>1 DEF TypeOK, Control, callers, counters, history
<1>2. CASE LinkDown
  BY <1>2 DEF LinkDown, TypeOK, Control, callers, counters, history
<1>3. CASE Start
  BY <1>3 DEF Start, TypeOK, Control, callers, counters, wire, history
<1>4. CASE Started
  <2>1. svc' \in [pc : ServicePcs, out : BOOLEAN] /\ svc'.pc = "events"
    BY <1>4 DEF Started, At, ServicePcs
  <2> QED
    BY <1>4, <2>1 DEF Started, TypeOK, Control, callers, counters, wire, history
<1>5. CASE Stop
  BY <1>5 DEF Stop, TypeOK, Control, callers, counters, wire, history
<1>6. CASE Stopped
  BY <1>6 DEF Stopped, TypeOK, Control, callers, counters, wire, history
<1>7. CASE Finished
  BY <1>7 DEF Finished, vars, TypeOK, Control
<1> QED
  BY <1>1, <1>2, <1>3, <1>4, <1>5, <1>6, <1>7

\* A PDU that grows old stays the same PDU.
Older(p, q) == /\ q \in Pdu /\ q.t = p.t /\ q.gen = p.gen /\ q.cmdsn = p.cmdsn
               /\ q.immediate = p.immediate

LEMMA TimePassesEffect ==
  ASSUME TypeOK, TimePasses
  PROVE  /\ outqueue' \in Seq(Pdu) /\ waitpdu' \in Seq(Pdu)
         /\ DOMAIN outqueue' = DOMAIN outqueue /\ DOMAIN waitpdu' = DOMAIN waitpdu
         /\ \A i \in DOMAIN outqueue : Older(outqueue[i], outqueue'[i])
         /\ \A i \in DOMAIN waitpdu : Older(waitpdu[i], waitpdu'[i])
         /\ \/ current = None /\ current' = None
            \/ current \in Pdu /\ Older(current, current')
         /\ frame' \in [Threads -> SyncState]
         /\ \A t \in Threads : /\ frame'[t].gen = frame[t].gen
                               /\ frame'[t].alive = frame[t].alive
                               /\ frame'[t].finished = frame[t].finished
                               /\ frame'[t].status = frame[t].status
                               /\ frame'[t].sem = frame[t].sem
<1>1. \A p \in Pdu : Older(p, [p EXCEPT !.late = TRUE])
  BY DEF Pdu, Older
<1>2. ASSUME NEW s \in Seq(Pdu), NEW q,
             q = [i \in DOMAIN s |-> [s[i] EXCEPT !.late = TRUE]]
      PROVE  /\ q \in Seq(Pdu) /\ DOMAIN q = DOMAIN s
             /\ \A i \in DOMAIN s : Older(s[i], q[i])
  <2>1. DOMAIN s = 1 .. Len(s) /\ Len(s) \in Nat
    BY LenProperties
  <2>2. \A i \in DOMAIN s : s[i] \in Pdu /\ q[i] = [s[i] EXCEPT !.late = TRUE]
    BY <1>2, RangeType
  <2>3. \A i \in DOMAIN s : Older(s[i], q[i])
    BY <1>1, <2>2
  <2>4. \A i \in DOMAIN s : q[i] \in Pdu
    BY <2>3 DEF Older
  <2>5. q = [i \in DOMAIN s |-> q[i]]
    BY <1>2
  <2>6. q \in [1 .. Len(s) -> Pdu]
    BY <2>1, <2>4, <2>5
  <2> QED
    BY <1>2, <2>1, <2>3, <2>6, SeqDef
<1>3. /\ outqueue' = [i \in DOMAIN outqueue |-> [outqueue[i] EXCEPT !.late = TRUE]]
      /\ waitpdu' = [i \in DOMAIN waitpdu |-> [waitpdu[i] EXCEPT !.late = TRUE]]
      /\ current' = IF current = None THEN None ELSE [current EXCEPT !.late = TRUE]
      /\ frame' = [frame EXCEPT ![Main].late = TRUE]
  BY DEF TimePasses
<1>4. /\ outqueue \in Seq(Pdu) /\ waitpdu \in Seq(Pdu)
      /\ current \in Pdu \cup {None} /\ frame \in [Threads -> SyncState]
  BY DEF TypeOK
<1>5. \/ current = None /\ current' = None
      \/ current \in Pdu /\ Older(current, current')
  BY <1>1, <1>3, <1>4
<1>6. frame' \in [Threads -> SyncState]
  BY <1>3, FrameUpdates, MainAssumption
<1>7. \A t \in Threads : /\ frame'[t].gen = frame[t].gen
                         /\ frame'[t].alive = frame[t].alive
                         /\ frame'[t].finished = frame[t].finished
                         /\ frame'[t].status = frame[t].status
                         /\ frame'[t].sem = frame[t].sem
  BY <1>3, <1>4 DEF SyncState
<1> QED
  BY <1>2, <1>3, <1>4, <1>5, <1>6, <1>7

LEMMA TimePassesType ==
  ASSUME TypeOK, Control, TimePasses
  PROVE  TypeOK' /\ Control'
<1>1. /\ outqueue' \in Seq(Pdu) /\ waitpdu' \in Seq(Pdu)
      /\ current' \in Pdu \cup {None} /\ frame' \in [Threads -> SyncState]
  BY TimePassesEffect DEF Older
<1>2. /\ ticks' = ticks + 1 /\ svc.pc = "events"
      /\ UNCHANGED <<mt, callers, counters, svc, wire, history>>
  BY DEF TimePasses, AtTop
<1>3. TypeOK'
  BY <1>1, <1>2 DEF TypeOK, callers, counters, wire, history
<1>4. Control'
  BY <1>2 DEF Control, callers, counters, wire, history
<1> QED
  BY <1>3, <1>4

LEMMA InitType == Init => TypeOK /\ Control
<1> SUFFICES ASSUME Init PROVE TypeOK /\ Control
  OBVIOUS
<1>1. /\ frame \in [Threads -> SyncState]
      /\ svc \in [pc : ServicePcs, out : BOOLEAN] /\ svc.pc = "events"
      /\ target \in [has : SUBSET Pdu, exp : Int] /\ target.has = {}
  <2>1. frame \in [Threads -> SyncState]
    <3>1. NoFrame(0) \in SyncState
      BY InitFrameType
    <3> QED
      BY <3>1 DEF Init
  <2>2. svc \in [pc : ServicePcs, out : BOOLEAN] /\ svc.pc = "events"
    BY DEF Init, At, ServicePcs
  <2>3. target \in [has : SUBSET Pdu, exp : Int] /\ target.has = {}
    BY DEF Init
  <2> QED
    BY <2>1, <2>2, <2>3
<1>2. IsFiniteSet(target.has)
  BY <1>1, FS_EmptySet
<1> QED
  BY <1>1, <1>2, WindowAssumption DEF Init, TypeOK, Control, CallerPcs

LEMMA NextType ==
  ASSUME TypeOK, Control, [Next]_vars
  PROVE  TypeOK' /\ Control'
<1>1. ASSUME NEW t \in Threads, Begin(t) \/ Caller(t) \/ LoopFails(t)
      PROVE  TypeOK' /\ Control'
  BY <1>1, BeginType, CallerMovesType, EnqueueType, LoopTimeoutType,
     CancelStepsType, LeaveType DEF Caller
<1>2. CASE Service \/ SendPart
  BY <1>2, ServiceMovesType, ReadType, PopType, SendType DEF Service
<1>3. CASE Start \/ Started \/ Stop \/ Stopped \/ Answer \/ LinkDown \/ Finished
  BY <1>3, OtherType
<1>4. CASE TimePasses
  BY <1>4, TimePassesType
<1>5. CASE UNCHANGED vars
  BY <1>5 DEF vars, TypeOK, Control
<1> QED
  BY <1>1, <1>2, <1>3, <1>4, <1>5 DEF Next

\* Whatever the threads do, the variables keep their types, the service never
\* pops an empty queue or sends nothing, and no call cancels the requests of
\* others while the service thread runs.
THEOREM ControlCorrect == Spec => [](TypeOK /\ Control)
BY InitType, NextType, PTL DEF Spec

-----------------------------------------------------------------------------
(* The way of a PDU *)

\* The PDU of call number g of thread t.
Of(p, t, g) == p.t = t /\ p.gen = g

Same(p, q) == p.t = q.t /\ p.gen = q.gen

\* A PDU that is not answered yet is in one of these places, or lost.
Sent == ({current} \ {None}) \cup target.has
Somewhere == Range(outqueue) \cup Range(waitpdu) \cup Sent

\* The call has not queued its PDU yet.
Unqueued(t) == pc[t] \in {"cancel", "take", "queue"}

\* Only calls that were made have PDUs, replies and callbacks.
OfCallsMade ==
  /\ \A p \in Somewhere : p.gen <= frame[p.t].gen
  /\ \A k \in DOMAIN replies :
       replies[k].to[2] <= frame[replies[k].to[1]].gen
  /\ \A a \in answered : a[2] <= frame[a[1]].gen

\* Nothing is there for a call that has not queued its PDU.
NotYet ==
  \A t \in Threads : Unqueued(t) =>
    /\ \A p \in Somewhere : ~Of(p, t, frame[t].gen)
    /\ \A k \in DOMAIN replies : replies[k].to # <<t, frame[t].gen>>
    /\ \A a \in answered : ~(a[1] = t /\ a[2] = frame[t].gen)

\* A PDU is queued once, then written once, then with the target, then
\* answered.
OnePlace ==
  /\ \A i, j \in DOMAIN outqueue : Same(outqueue[i], outqueue[j]) => i = j
  /\ \A i \in DOMAIN outqueue :
       /\ \A p \in Range(waitpdu) \cup Sent : ~Same(outqueue[i], p)
       /\ \A k \in DOMAIN replies :
            replies[k].to # <<outqueue[i].t, outqueue[i].gen>>
  /\ current # None =>
       /\ \A p \in target.has : ~Same(current, p)
       /\ \A k \in DOMAIN replies : replies[k].to # <<current.t, current.gen>>

Ways == OfCallsMade /\ NotYet /\ OnePlace

\* A call is good only by its own callback, and its PDU is gone when it fails
\* to start or has cancelled everything.
Waiting == Range(outqueue) \cup Range(waitpdu)

Answers ==
  \A t \in Threads :
    /\ frame[t].alive <=> pc[t] # "idle"
    /\ frame[t].sem > 0 => frame[t].finished
    /\ (frame[t].finished \/ pc[t] = "return") /\ frame[t].status = 0
         => <<t, frame[t].gen, 0>> \in answered
    /\ pc[t] = "failed" => \A p \in Waiting : ~Of(p, t, frame[t].gen)

\* A PDU whose callback will run has not been answered, and its frame is
\* there unless its call has failed.
LeftBehind ==
  \A p \in Waiting : /\ <<p.t, p.gen, 0>> \notin answered
                     /\ Alive(p) \/ <<p.t, p.gen>> \in failures

\* The commands that have a number the target expects.
Numbered == Unsent \cup Ahead

\* Nothing the target says is ahead of what it has got.
Heard == /\ expcmdsn <= target.exp
         /\ \A k \in DOMAIN replies : replies[k].exp <= target.exp
         /\ ticks = 0 => \A t \in Threads : ~frame[t].late

\* The numbers from the one that the target expects up to the next one to be
\* taken are each held by one thread or one command.
Held ==
  /\ current # None => current \in Range(waitpdu)
  /\ target.exp <= cmdsn
  /\ \A t \in Taken : number[t] \in target.exp .. cmdsn - 1
  /\ \A p \in Numbered : p.cmdsn \in target.exp .. cmdsn - 1
  /\ \A t, u \in Taken : number[t] = number[u] => t = u
  /\ \A t \in Taken : \A p \in Numbered : number[t] # p.cmdsn
  /\ \A p, q \in Numbered : p.cmdsn = q.cmdsn => p = q
  /\ \A n \in target.exp .. cmdsn - 1 :
       \/ \E t \in Taken : number[t] = n
       \/ \E p \in Numbered : p.cmdsn = n

\* Lists keep their PDUs apart when some are taken out, and get no new ones.
Shrinks(q, s) ==
  /\ \A a \in DOMAIN q : \E i \in DOMAIN s : Same(q[a], s[i])
  /\ \A a, b \in DOMAIN q : \E i, j \in DOMAIN s :
       Same(q[a], s[i]) /\ Same(q[b], s[j]) /\ (i = j => a = b)

\* The steps that put no PDU anywhere it was not.
LEMMA WaysShrink ==
  ASSUME TypeOK, TypeOK', Ways,
         \A t \in Threads : frame'[t].gen = frame[t].gen,
         \A t \in Threads : Unqueued(t)' => Unqueued(t),
         Shrinks(outqueue', outqueue),
         Shrinks(waitpdu', waitpdu),
         current' # None => current # None /\ Same(current', current),
         target'.has \subseteq target.has,
         \A k \in DOMAIN replies' : \E j \in DOMAIN replies :
                                     replies'[k].to = replies[j].to,
         \A a \in answered' : a \in answered \/
                               \E p \in Waiting : a[1] = p.t /\ a[2] = p.gen
  PROVE  Ways'
<1>0. /\ \A p \in Range(waitpdu') : \E q \in Range(waitpdu) : Same(p, q)
      /\ \A p \in Sent' : \E q \in Sent : Same(p, q)
  BY DEF Shrinks, Range, Sent, Same
<1>1. \A p \in Somewhere' : \E q \in Somewhere : Same(p, q)
  BY <1>0 DEF Shrinks, Somewhere, Range
<1>2. /\ \A p \in Somewhere : p.t \in Threads
      /\ \A p \in Somewhere' : p.t \in Threads
      /\ \A k \in DOMAIN replies : replies[k].to[1] \in Threads
      /\ Waiting \subseteq Somewhere
  <2>1. Somewhere \subseteq Pdu
    BY RangeType DEF TypeOK, Somewhere, Sent
  <2>2. Somewhere' \subseteq Pdu
    BY RangeType DEF TypeOK, Somewhere, Sent
  <2>3. \A k \in DOMAIN replies : replies[k] \in Reply
    BY ElementOfSeq, LenProperties DEF TypeOK
  <2> QED
    BY <2>1, <2>2, <2>3 DEF Pdu, Reply, Waiting, Somewhere
<1>3. OfCallsMade'
  <2>1. \A p \in Somewhere' : p.gen <= frame'[p.t].gen
    BY <1>1, <1>2 DEF Ways, OfCallsMade, Same
  <2>2. \A k \in DOMAIN replies' :
          replies'[k].to[2] <= frame'[replies'[k].to[1]].gen
    BY <1>2 DEF Ways, OfCallsMade
  <2>3. \A a \in answered' : a[2] <= frame'[a[1]].gen
    <3>1. \A a \in answered : a[1] \in Threads
      BY DEF TypeOK
    <3> QED
      BY <1>2, <3>1 DEF Ways, OfCallsMade
  <2> QED
    BY <2>1, <2>2, <2>3 DEF OfCallsMade
<1>4. NotYet'
  <2> SUFFICES ASSUME NEW t \in Threads, Unqueued(t)'
               PROVE  /\ \A p \in Somewhere' : ~Of(p, t, frame'[t].gen)
                      /\ \A k \in DOMAIN replies' :
                           replies'[k].to # <<t, frame'[t].gen>>
                      /\ \A a \in answered' :
                           ~(a[1] = t /\ a[2] = frame'[t].gen)
    BY DEF NotYet, Of
  <2>1. /\ frame'[t].gen = frame[t].gen
        /\ \A p \in Somewhere : ~Of(p, t, frame[t].gen)
        /\ \A k \in DOMAIN replies : replies[k].to # <<t, frame[t].gen>>
        /\ \A a \in answered : ~(a[1] = t /\ a[2] = frame[t].gen)
    BY DEF Ways, NotYet
  <2>2. \A p \in Somewhere' : ~Of(p, t, frame'[t].gen)
    BY <1>1, <2>1 DEF Same, Of
  <2>3. \A k \in DOMAIN replies' : replies'[k].to # <<t, frame'[t].gen>>
    BY <2>1
  <2>4. \A a \in answered' : ~(a[1] = t /\ a[2] = frame'[t].gen)
    BY <1>2, <2>1 DEF Of
  <2> QED
    BY <2>2, <2>3, <2>4
<1>5. OnePlace'
  <2>1. \A i, j \in DOMAIN outqueue' : Same(outqueue'[i], outqueue'[j]) => i = j
    <3>1. ASSUME NEW a \in DOMAIN outqueue', NEW b \in DOMAIN outqueue',
                 Same(outqueue'[a], outqueue'[b])
          PROVE  a = b
      <4>1. PICK i \in DOMAIN outqueue, j \in DOMAIN outqueue :
              /\ Same(outqueue'[a], outqueue[i])
              /\ Same(outqueue'[b], outqueue[j]) /\ (i = j => a = b)
        BY DEF Shrinks
      <4>2. Same(outqueue[i], outqueue[j])
        BY <3>1, <4>1 DEF Same
      <4> QED
        BY <4>1, <4>2 DEF Ways, OnePlace
    <3> QED
      BY <3>1
  <2>2. ASSUME NEW a \in DOMAIN outqueue'
        PROVE  /\ \A p \in Range(waitpdu') \cup Sent' : ~Same(outqueue'[a], p)
               /\ \A k \in DOMAIN replies' :
                    replies'[k].to # <<outqueue'[a].t, outqueue'[a].gen>>
    <3>1. PICK i \in DOMAIN outqueue : Same(outqueue'[a], outqueue[i])
      BY DEF Shrinks
    <3>2. /\ \A p \in Range(waitpdu) \cup Sent : ~Same(outqueue[i], p)
          /\ \A k \in DOMAIN replies :
               replies[k].to # <<outqueue[i].t, outqueue[i].gen>>
      BY DEF Ways, OnePlace
    <3>3. \A p \in Range(waitpdu') \cup Sent' : ~Same(outqueue'[a], p)
      BY <1>0, <3>1, <3>2 DEF Same
    <3>4. \A k \in DOMAIN replies' :
            replies'[k].to # <<outqueue'[a].t, outqueue'[a].gen>>
      BY <3>1, <3>2 DEF Same
    <3> QED
      BY <3>3, <3>4
  <2>3. current' # None =>
          /\ \A p \in target'.has : ~Same(current', p)
          /\ \A k \in DOMAIN replies' :
               replies'[k].to # <<current'.t, current'.gen>>
    BY DEF Ways, OnePlace, Same
  <2> QED
    BY <2>1, <2>2, <2>3 DEF OnePlace, Same
<1> QED
  BY <1>3, <1>4, <1>5 DEF Ways

\* Lists that shrink: the same one, an older one, one with PDUs taken out.
LEMMA ShrinksFacts ==
  ASSUME NEW s \in Seq(Pdu)
  PROVE  /\ Shrinks(s, s)
         /\ Shrinks(<< >>, s)
         /\ \A I \in SUBSET DOMAIN s : \A q \in Retain(s, I) : Shrinks(q, s)
<1>1. Shrinks(s, s)
  BY DEF Shrinks, Same
<1>2. Shrinks(<< >>, s)
  BY DEF Shrinks
<1>3. ASSUME NEW I \in SUBSET DOMAIN s, NEW q \in Retain(s, I)
      PROVE  Shrinks(q, s)
  <2>1. ASSUME NEW a \in DOMAIN q, NEW b \in DOMAIN q
        PROVE  \E i, j \in DOMAIN s :
                 Same(q[a], s[i]) /\ Same(q[b], s[j]) /\ (i = j => a = b)
    <3>1. PICK i \in I, j \in I : q[a] = s[i] /\ q[b] = s[j] /\ (i = j => a = b)
      BY RetainType
    <3> QED
      BY <3>1 DEF Same
  <2> QED
    BY <2>1 DEF Shrinks
<1> QED
  BY <1>1, <1>2, <1>3

LEMMA OlderShrinks ==
  ASSUME NEW s, NEW q, DOMAIN q = DOMAIN s, \A i \in DOMAIN s : Older(s[i], q[i])
  PROVE  Shrinks(q, s)
BY DEF Shrinks, Same, Older

\* Taking commands off the outqueue shrinks it, although the others are moved
\* down.
LEMMA MovedDownShrinks ==
  ASSUME TypeOK, NEW X \in SUBSET DOMAIN outqueue,
         NEW q \in Retain(MovedDown(X), DOMAIN outqueue \ X)
  PROVE  Shrinks(q, outqueue)
<1> DEFINE m == MovedDown(X)
<1>1. /\ m \in Seq(Pdu) /\ DOMAIN m = DOMAIN outqueue
      /\ \A i \in DOMAIN outqueue : Same(m[i], outqueue[i])
  BY MovedDownType DEF Same
<1>2. DOMAIN outqueue \ X \in SUBSET DOMAIN m
  BY <1>1
<1> HIDE DEF m
<1>3. Shrinks(q, m)
  BY <1>1, <1>2, ShrinksFacts DEF m
<1> QED
  BY <1>1, <1>3 DEF Shrinks, Same

\* What is known of the PDUs and replies, for the steps below.
LEMMA PlacesType ==
  ASSUME TypeOK
  PROVE  /\ Somewhere \subseteq Pdu /\ Waiting \subseteq Somewhere
         /\ \A p \in Somewhere : p.t \in Threads /\ p.gen \in Nat
         /\ \A k \in DOMAIN replies :
              /\ replies[k] \in Reply
              /\ replies[k].to \in Threads \X Nat
              /\ replies[k].to[1] \in Threads /\ replies[k].to[2] \in Nat
              /\ replies[k].exp \in Int
         /\ \A a \in answered : a[1] \in Threads /\ a[2] \in Nat
         /\ \A t \in Threads : frame[t].gen \in Nat
<1>1. Somewhere \subseteq Pdu /\ Waiting \subseteq Somewhere
  BY RangeType DEF TypeOK, Somewhere, Waiting, Sent
<1>2. \A k \in DOMAIN replies : replies[k] \in Reply
  BY ElementOfSeq, LenProperties DEF TypeOK
<1>3. \A a \in answered : a[1] \in Threads /\ a[2] \in Nat
  BY DEF TypeOK
<1>4. \A t \in Threads : frame[t].gen \in Nat
  BY DEF TypeOK, SyncState
<1>5. \A p \in Somewhere : p.t \in Threads /\ p.gen \in Nat
  BY <1>1 DEF Pdu
<1>6. \A k \in DOMAIN replies :
        /\ replies[k].to \in Threads \X Nat
        /\ replies[k].to[1] \in Threads /\ replies[k].to[2] \in Nat
        /\ replies[k].exp \in Int
  BY <1>2 DEF Reply
<1> QED
  BY <1>1, <1>2, <1>3, <1>4, <1>5, <1>6

\* A new call: nothing is there for it.
LEMMA BeginWays ==
  ASSUME TypeOK, TypeOK', Ways, NEW t \in Threads, Begin(t)
  PROVE  Ways'
<1>1. /\ UNCHANGED <<outqueue, waitpdu, current, target, replies, answered>>
      /\ pc[t] = "idle" /\ \A u \in Threads \ {t} : pc'[u] = pc[u]
  BY DEF Begin, wire, history, TypeOK
<1>2. /\ frame'[t].gen = frame[t].gen + 1
      /\ \A u \in Threads \ {t} : frame'[u] = frame[u]
  <2>1. frame' = [frame EXCEPT ![t] = [NoFrame(frame[t].gen + 1) EXCEPT !.alive = TRUE]]
    BY DEF Begin, iscsi_init_sync_state
  <2>2. frame[t].gen + 1 \in Nat
    BY PlacesType
  <2>3. [NoFrame(frame[t].gen + 1) EXCEPT !.alive = TRUE].gen = frame[t].gen + 1
    BY <2>2, InitFrameType
  <2> QED
    BY <2>1, <2>3 DEF TypeOK
<1>3. Somewhere' = Somewhere /\ Sent' = Sent
  BY <1>1 DEF Somewhere, Sent
<1>4. \A u \in Threads : frame[u].gen <= frame'[u].gen /\ frame'[u].gen \in Nat
  BY <1>2, PlacesType
<1>5. OfCallsMade'
  <2>1. \A p \in Somewhere : p.gen <= frame'[p.t].gen
    BY <1>4, PlacesType DEF Ways, OfCallsMade
  <2>2. \A k \in DOMAIN replies : replies[k].to[2] <= frame'[replies[k].to[1]].gen
    BY <1>4, PlacesType DEF Ways, OfCallsMade
  <2>3. \A a \in answered : a[2] <= frame'[a[1]].gen
    BY <1>4, PlacesType DEF Ways, OfCallsMade
  <2> QED
    BY <1>1, <1>3, <2>1, <2>2, <2>3 DEF OfCallsMade
<1>6. NotYet'
  <2>1. /\ \A p \in Somewhere : ~Of(p, t, frame'[t].gen)
        /\ \A k \in DOMAIN replies : replies[k].to # <<t, frame'[t].gen>>
        /\ \A a \in answered : ~(a[1] = t /\ a[2] = frame'[t].gen)
    BY <1>2, PlacesType DEF Ways, OfCallsMade, Of
  <2> QED
    BY <1>1, <1>2, <1>3, <2>1 DEF Ways, NotYet, Unqueued, Of
<1>7. OnePlace'
  BY <1>1, <1>3 DEF Ways, OnePlace, Same
<1> QED
  BY <1>5, <1>6, <1>7 DEF Ways

\* The PDU of a call is queued: it was nowhere before.
LEMMA EnqueueWays ==
  ASSUME TypeOK, Control, TypeOK', Ways, NEW t \in Threads, Enqueue(t)
  PROVE  Ways'
<1> DEFINE n == NewPdu(t)
<1>1. /\ UNCHANGED <<frame, waitpdu, current, target, replies, answered>>
      /\ pc[t] = "queue" /\ ~Unqueued(t)'
      /\ \A u \in Threads \ {t} : pc'[u] = pc[u]
  <2>1. \E l \in {"kick", "signal", "wait"} : pc' = [pc EXCEPT ![t] = l]
    BY Zenon DEF Enqueue
  <2>2. /\ UNCHANGED <<frame, waitpdu, current, target, replies, answered>>
        /\ pc[t] = "queue"
    BY DEF Enqueue, wire, history
  <2> QED
    BY <2>1, <2>2 DEF Unqueued, TypeOK
<1>2. n \in Pdu /\ n.t = t /\ n.gen = frame[t].gen
  BY EnqueueEffect DEF NewPdu
<1>3. PICK i \in 1 .. (Len(outqueue) + 1) :
        /\ Len(outqueue') = Len(outqueue) + 1
        /\ \A k \in 1 .. (Len(outqueue) + 1) :
             outqueue'[k] = IF k < i THEN outqueue[k]
                            ELSE IF k = i THEN n ELSE outqueue[k - 1]
  BY EnqueueEffect
<1>4. /\ DOMAIN outqueue = 1 .. Len(outqueue) /\ Len(outqueue) \in Nat
      /\ DOMAIN outqueue' = 1 .. (Len(outqueue) + 1)
  BY <1>3, LenProperties DEF TypeOK
<1> HIDE DEF n
<1>5. \A a \in DOMAIN outqueue' :
        \/ a = i /\ outqueue'[a] = n
        \/ a < i /\ a \in DOMAIN outqueue /\ outqueue'[a] = outqueue[a]
        \/ a > i /\ a - 1 \in DOMAIN outqueue /\ outqueue'[a] = outqueue[a - 1]
  BY <1>3, <1>4
<1>6. \A p \in Somewhere' : p \in Somewhere \/ p = n
  BY <1>1, <1>5 DEF Somewhere, Sent, Range
<1>7. /\ \A p \in Somewhere : ~Same(n, p)
      /\ \A k \in DOMAIN replies : replies[k].to # <<n.t, n.gen>>
  BY <1>1, <1>2 DEF Ways, NotYet, Unqueued, Of, Same
<1>8. OfCallsMade'
  <2>1. \A p \in Somewhere' : p.gen <= frame[p.t].gen
    BY <1>2, <1>6, PlacesType DEF Ways, OfCallsMade
  <2> QED
    BY <1>1, <2>1 DEF Ways, OfCallsMade
<1>9. NotYet'
  <2>1. ASSUME NEW u \in Threads, Unqueued(u)'
        PROVE  u # t /\ Unqueued(u)
    BY <1>1, <2>1 DEF Unqueued
  <2> QED
    BY <1>1, <1>2, <1>6, <2>1 DEF Ways, NotYet, Of
<1>10. OnePlace'
  <2>1. \A j \in DOMAIN outqueue : outqueue[j] \in Somewhere
    BY DEF Somewhere, Range
  <2>2. ASSUME NEW a \in DOMAIN outqueue', NEW b \in DOMAIN outqueue',
               Same(outqueue'[a], outqueue'[b])
        PROVE  a = b
    <3>1. CASE a = i \/ b = i
      BY <1>4, <1>5, <1>7, <2>1, <2>2, <3>1 DEF Same
    <3>2. CASE a # i /\ b # i
      <4>1. PICK j \in DOMAIN outqueue, l \in DOMAIN outqueue :
              /\ outqueue'[a] = outqueue[j] /\ outqueue'[b] = outqueue[l]
              /\ j = IF a < i THEN a ELSE a - 1
              /\ l = IF b < i THEN b ELSE b - 1
        BY <1>4, <1>5, <3>2
      <4>2. j = l
        BY <2>2, <4>1 DEF Ways, OnePlace
      <4> QED
        BY <1>4, <3>2, <4>1, <4>2
    <3> QED
      BY <3>1, <3>2
  <2>3. /\ Range(waitpdu) \cup Sent \subseteq Somewhere
        /\ Sent' = Sent
    BY <1>1 DEF Somewhere, Sent
  <2>4. ASSUME NEW a \in DOMAIN outqueue'
        PROVE  /\ \A p \in Range(waitpdu) \cup Sent : ~Same(outqueue'[a], p)
               /\ \A k \in DOMAIN replies :
                    replies[k].to # <<outqueue'[a].t, outqueue'[a].gen>>
    <3>1. outqueue'[a] = n \/ \E j \in DOMAIN outqueue : outqueue'[a] = outqueue[j]
      BY <1>5
    <3> QED
      BY <1>7, <2>3, <3>1 DEF Ways, OnePlace
  <2> QED
    BY <1>1, <2>2, <2>3, <2>4 DEF Ways, OnePlace
<1> QED
  BY <1>8, <1>9, <1>10 DEF Ways

\* The head of the outqueue moves on.
LEMMA PopWays ==
  ASSUME TypeOK, Control, Ways, Pop
  PROVE  Ways'
<1>1. UNCHANGED <<pc, frame, target, replies, answered>>
  BY DEF Pop, callers, wire, history
<1>2. /\ current = None /\ 1 \in DOMAIN outqueue
      /\ current' = outqueue[1] /\ current' \in Pdu
      /\ \A k \in DOMAIN outqueue' :
           k + 1 \in DOMAIN outqueue /\ outqueue'[k] = outqueue[k + 1]
      /\ Range(waitpdu') = Range(waitpdu) \cup {current'}
      /\ \A k \in DOMAIN outqueue' : k + 1 # 1 /\ k \in Nat
  <2>1. outqueue' \in Seq(Pdu)
    BY PopEffect
  <2>2. \A k \in DOMAIN outqueue' : k + 1 # 1 /\ k \in Nat
    BY <2>1, LenProperties
  <2> QED
    BY <2>2, PopEffect
<1>3. Range(outqueue') \subseteq Range(outqueue) /\ current' \in Range(outqueue)
  BY <1>2 DEF Range
<1>4. Sent = target.has /\ Sent' \subseteq target.has \cup {current'}
  BY <1>1, <1>2 DEF Sent
<1>5. Somewhere' \subseteq Somewhere
  BY <1>2, <1>3, <1>4 DEF Somewhere
<1>6. OfCallsMade' /\ NotYet'
  BY <1>1, <1>5 DEF Ways, OfCallsMade, NotYet, Unqueued, Of
<1>7. OnePlace'
  <2>1. ASSUME NEW a \in DOMAIN outqueue', NEW b \in DOMAIN outqueue',
               Same(outqueue'[a], outqueue'[b])
        PROVE  a = b
    <3>1. a + 1 = b + 1
      BY <1>2, <2>1 DEF Ways, OnePlace
    <3> QED
      BY <1>2, <3>1
  <2>2. ASSUME NEW a \in DOMAIN outqueue'
        PROVE  /\ \A p \in Range(waitpdu') \cup Sent' : ~Same(outqueue'[a], p)
               /\ \A k \in DOMAIN replies :
                    replies[k].to # <<outqueue'[a].t, outqueue'[a].gen>>
    <3>1. a + 1 \in DOMAIN outqueue /\ a + 1 # 1 /\ outqueue'[a] = outqueue[a + 1]
      BY <1>2
    <3>2. ~Same(outqueue[a + 1], outqueue[1])
      BY <1>2, <3>1 DEF Ways, OnePlace
    <3>3. /\ \A p \in Range(waitpdu) \cup Sent : ~Same(outqueue[a + 1], p)
          /\ \A k \in DOMAIN replies :
               replies[k].to # <<outqueue[a + 1].t, outqueue[a + 1].gen>>
      BY <3>1 DEF Ways, OnePlace
    <3> QED
      BY <1>2, <1>4, <3>1, <3>2, <3>3
  <2>3. /\ \A p \in target.has : ~Same(current', p)
        /\ \A k \in DOMAIN replies : replies[k].to # <<current'.t, current'.gen>>
    BY <1>2, <1>4 DEF Ways, OnePlace
  <2> QED
    BY <1>1, <2>1, <2>2, <2>3 DEF OnePlace
<1> QED
  BY <1>6, <1>7 DEF Ways

\* The target gets the PDU that was being written.
LEMMA SendWays ==
  ASSUME TypeOK, Control, Ways, Send
  PROVE  Ways'
<1>1. UNCHANGED <<pc, frame, outqueue, waitpdu, replies, answered>>
  BY DEF Send, callers, history
<1>2. /\ current \in Pdu /\ current # None /\ current' = None
      /\ target'.has = target.has \cup {current}
  BY SendEffect, NoneIsNoPdu DEF Got
<1>3. Sent' = Sent /\ Somewhere' = Somewhere
  BY <1>1, <1>2 DEF Sent, Somewhere
<1> QED
  BY <1>1, <1>2, <1>3 DEF Ways, OfCallsMade, NotYet, Unqueued, Of, OnePlace

\* Its answer takes its place.
LEMMA AnswerWays ==
  ASSUME TypeOK, Ways, Answer
  PROVE  Ways'
<1>1. UNCHANGED <<pc, frame, outqueue, waitpdu, current, answered>>
  BY DEF Answer, callers, history
<1>2. PICK p \in target.has :
        /\ p \in Pdu /\ target'.has = target.has \ {p}
        /\ \A k \in DOMAIN replies' :
             \/ k \in DOMAIN replies /\ replies'[k] = replies[k]
             \/ replies'[k].to = <<p.t, p.gen>>
  BY AnswerEffect
<1>3. Sent' \subseteq Sent /\ Somewhere' \subseteq Somewhere /\ p \in Somewhere
      /\ p \in Sent
  BY <1>1, <1>2 DEF Sent, Somewhere
<1>4. OfCallsMade'
  <2>1. p.gen <= frame[p.t].gen
    BY <1>3 DEF Ways, OfCallsMade
  <2>2. <<p.t, p.gen>>[1] = p.t /\ <<p.t, p.gen>>[2] = p.gen
    OBVIOUS
  <2> QED
    BY <1>1, <1>2, <1>3, <2>1, <2>2 DEF Ways, OfCallsMade
<1>5. NotYet'
  <2>1. ASSUME NEW t \in Threads, Unqueued(t)
        PROVE  /\ \A k \in DOMAIN replies' : replies'[k].to # <<t, frame[t].gen>>
               /\ \A q \in Somewhere' : ~Of(q, t, frame[t].gen)
    <3>1. <<p.t, p.gen>> # <<t, frame[t].gen>>
      BY <1>3, <2>1 DEF Ways, NotYet, Of
    <3> QED
      BY <1>2, <1>3, <2>1, <3>1 DEF Ways, NotYet
  <2> QED
    BY <1>1, <2>1 DEF Ways, NotYet, Unqueued, Of
<1>6. OnePlace'
  <2>1. ASSUME NEW i \in DOMAIN outqueue
        PROVE  /\ \A q \in Range(waitpdu) \cup Sent' : ~Same(outqueue[i], q)
               /\ \A k \in DOMAIN replies' :
                    replies'[k].to # <<outqueue[i].t, outqueue[i].gen>>
    <3>1. ~Same(outqueue[i], p)
      BY <1>3 DEF Ways, OnePlace
    <3> QED
      BY <1>2, <1>3, <3>1 DEF Ways, OnePlace, Same
  <2>2. current # None =>
          /\ \A q \in target'.has : ~Same(current, q)
          /\ \A k \in DOMAIN replies' : replies'[k].to # <<current.t, current.gen>>
    BY <1>2 DEF Ways, OnePlace, Same
  <2> QED
    BY <1>1, <2>1, <2>2 DEF Ways, OnePlace
<1> QED
  BY <1>4, <1>5, <1>6 DEF Ways

\* The steps that leave PDUs, replies and callbacks alone.
Silent(t) == \/ TakeNumber(t) \/ Signal(t) \/ Kick(t) \/ WaitSem(t) \/ Flushed(t)
             \/ LoopDone(t) \/ LoopFails(t) \/ StartFails(t) \/ Return(t)

SilentService == \/ WhichEvents \/ Poll \/ Failed \/ TestHead \/ SendPart \/ Start
                 \/ Started \/ Stop \/ Stopped \/ LinkDown \/ Finished
                 \/ UNCHANGED vars

LEMMA SilentEffect ==
  ASSUME TypeOK, NEW t \in Threads, Silent(t)
  PROVE  /\ UNCHANGED <<mt, outqueue, waitpdu, current, target, replies, answered,
                        wild, ticks, expcmdsn>>
         /\ \A u \in Threads : u # t => frame'[u] = frame[u] /\ pc'[u] = pc[u]
         /\ frame'[t].gen = frame[t].gen
         /\ pc[t] \notin {"idle", "cancel"}
         /\ Unqueued(t)' => Unqueued(t)
<1>1. /\ UNCHANGED <<mt, outqueue, waitpdu, current, target, replies, answered,
                     wild, ticks, expcmdsn>>
      /\ pc[t] \notin {"idle", "cancel"}
  BY DEF Silent, TakeNumber, Signal, Kick, WaitSem, Flushed, LoopDone, LoopFails,
         StartFails, Return, AtTop, counters, wire, history, callers
<1>2. /\ \A u \in Threads : u # t => pc'[u] = pc[u]
      /\ Unqueued(t)' => Unqueued(t)
  BY DEF Silent, TakeNumber, Signal, Kick, WaitSem, Flushed, LoopDone, LoopFails,
         StartFails, Return, Leave, AtTop, TypeOK, Unqueued
<1>3. /\ \A u \in Threads : u # t => frame'[u] = frame[u]
      /\ frame'[t].gen = frame[t].gen
  <2>1. frame \in [Threads -> SyncState] /\ NoFrame(frame[t].gen).gen = frame[t].gen
    BY InitFrameType DEF TypeOK, SyncState
  <2>2. \/ frame' = frame
        \/ \E n : frame' = [frame EXCEPT ![t].sem = n]
        \/ frame' = [frame EXCEPT ![t].status = -1]
        \/ frame' = [frame EXCEPT ![t] = NoFrame(frame[t].gen)]
    BY DEF Silent, TakeNumber, Signal, Kick, WaitSem, Flushed, LoopDone,
           LoopFails, StartFails, Return, Leave
  <2> QED
    BY <2>1, <2>2 DEF SyncState
<1> QED
  BY <1>1, <1>2, <1>3

LEMMA SilentServiceEffect ==
  ASSUME SilentService
  PROVE  UNCHANGED <<pc, call, frame, ret, number, cmdsn, expcmdsn, outqueue,
                     waitpdu, current, target, replies, answered, wild,
                     failures, ticks>>
BY DEF SilentService, WhichEvents, Poll, Failed, TestHead, SendPart, Start,
       Started, Stop, Stopped, LinkDown, Finished, counters, wire, history,
       callers, vars

\* The steps that run callbacks: of PDUs that were waiting.
CallbackStep(ps, st) ==
  /\ ps \subseteq Waiting /\ ps \subseteq Pdu
  /\ answered' = answered \cup {<<p.t, p.gen, st>> : p \in ps}
  /\ wild' = wild \cup {<<p.t, p.gen>> : p \in {q \in ps : ~Alive(q)}}
  /\ failures' = failures
  /\ \A u \in Threads : /\ frame'[u].gen = frame[u].gen
                        /\ frame'[u].alive = frame[u].alive
  /\ Shrinks(outqueue', outqueue) /\ Shrinks(waitpdu', waitpdu)
  /\ current' \in {current, None} /\ target' = target

\* Cancelling.
LEMMA CancelStepsEffect ==
  ASSUME TypeOK, Control, NEW t \in Threads, CancelFirst(t) \/ Clean(t)
  PROVE  \E ps : /\ CallbackStep(ps, -1) /\ Callbacks(ps, -1)
                 /\ replies' = replies
<1>1. /\ CancelPdus
      /\ target' = target /\ replies' = replies
  BY DEF CancelFirst, Clean, wire
<1>2. /\ failures' = failures
      /\ \A u \in Threads : /\ frame'[u].gen = frame[u].gen
                            /\ frame'[u].alive = frame[u].alive
  BY <1>1, CancelType
<1>3. outqueue \in Seq(Pdu) /\ waitpdu \in Seq(Pdu)
  BY DEF TypeOK
<1>4. /\ Callbacks(Waiting, -1) /\ outqueue' = << >> /\ waitpdu' = << >>
      /\ current' = None
  BY <1>1 DEF CancelPdus, Waiting
<1>5. Shrinks(outqueue', outqueue) /\ Shrinks(waitpdu', waitpdu)
  BY <1>3, <1>4, ShrinksFacts
<1>6. Waiting \subseteq Pdu
  BY PlacesType
<1>7. CallbackStep(Waiting, -1)
  BY <1>1, <1>2, <1>4, <1>5, <1>6 DEF CallbackStep, Callbacks
<1> QED
  BY <1>1, <1>4, <1>7

\* The scan for timeouts.
LEMMA LoopTimeoutStep ==
  ASSUME TypeOK, Control, NEW t \in Threads, LoopTimeout(t)
  PROVE  (\E ps : CallbackStep(ps, -1)) /\ replies' = replies
<1> DEFINE out == Late(outqueue) \cap Commands
           done == First(waitpdu, Late(waitpdu))
           ps == First(outqueue, out) \cup done
<1>1. /\ out \in SUBSET DOMAIN outqueue
      /\ outqueue' \in Retain(MovedDown(out), DOMAIN outqueue \ out)
      /\ waitpdu' \in Retain(waitpdu, DOMAIN waitpdu \ Late(waitpdu))
      /\ current' \in {current, None}
      /\ ps \in SUBSET Pdu
      /\ ps \subseteq Range(outqueue) \cup Range(waitpdu)
      /\ \A u \in Threads : /\ frame'[u].gen = frame[u].gen
                            /\ frame'[u].alive = frame[u].alive
      /\ answered' = answered \cup {<<p.t, p.gen, -1>> : p \in ps}
      /\ wild' = wild \cup {<<p.t, p.gen>> : p \in {q \in ps : ~Alive(q)}}
  BY LoopTimeoutEffect
<1>2. target' = target /\ replies' = replies /\ failures' = failures
  BY DEF LoopTimeout, wire
<1> HIDE DEF out, done, ps
<1>3. Shrinks(outqueue', outqueue)
  BY <1>1, MovedDownShrinks
<1>4. Shrinks(waitpdu', waitpdu)
  <2>1. /\ waitpdu \in Seq(Pdu)
        /\ DOMAIN waitpdu \ Late(waitpdu) \in SUBSET DOMAIN waitpdu
    BY DEF TypeOK
  <2> QED
    BY <1>1, <2>1, ShrinksFacts
<1>5. CallbackStep(ps, -1)
  BY <1>1, <1>2, <1>3, <1>4 DEF CallbackStep, Waiting
<1> QED
  BY <1>2, <1>5

\* A reply.
LEMMA ReadStep ==
  ASSUME TypeOK, Control, Read
  PROVE  \E ps : /\ CallbackStep(ps, 0) /\ Callbacks(ps, 0)
                 /\ outqueue' = outqueue
                 /\ replies # << >> /\ 1 \in DOMAIN replies
                 /\ \A p \in ps : <<p.t, p.gen>> = replies[1].to
                 /\ \A p \in Range(waitpdu') : /\ <<p.t, p.gen>> # replies[1].to
                                               /\ p \in Range(waitpdu)
                 /\ \A p \in Range(waitpdu) :
                      <<p.t, p.gen>> # replies[1].to => p \in Range(waitpdu')
<1> DEFINE I == {i \in DOMAIN waitpdu : <<waitpdu[i].t, waitpdu[i].gen>> = replies[1].to}
           ps == {waitpdu[i] : i \in I}
<1>1. /\ replies # << >> /\ ps \in SUBSET Pdu /\ ps \subseteq Range(waitpdu)
      /\ Callbacks(ps, 0)
      /\ waitpdu' \in Retain(waitpdu, DOMAIN waitpdu \ I)
  BY ReadEffect
<1>2. /\ outqueue' = outqueue /\ target' = target /\ current' = current
  BY DEF Read
<1>3. \A p \in ps : <<p.t, p.gen>> = replies[1].to
  OBVIOUS
<1>4. \A i \in DOMAIN waitpdu \ I :
        <<waitpdu[i].t, waitpdu[i].gen>> # replies[1].to
  OBVIOUS
<1>4a. \A i \in I : <<waitpdu[i].t, waitpdu[i].gen>> = replies[1].to
  OBVIOUS
<1> HIDE DEF I, ps
<1>5. /\ waitpdu \in Seq(Pdu) /\ outqueue \in Seq(Pdu)
      /\ DOMAIN waitpdu \ I \in SUBSET DOMAIN waitpdu
  BY DEF TypeOK
<1>6. Shrinks(waitpdu', waitpdu) /\ Shrinks(outqueue', outqueue)
  BY <1>1, <1>2, <1>5, ShrinksFacts
<1>7. /\ \A a \in DOMAIN waitpdu' : \E i \in DOMAIN waitpdu \ I :
                                      waitpdu'[a] = waitpdu[i]
      /\ \A i \in DOMAIN waitpdu \ I : \E a \in DOMAIN waitpdu' :
                                         waitpdu'[a] = waitpdu[i]
  <2> DEFINE J == DOMAIN waitpdu \ I
             q == waitpdu'
  <2>1. q \in Retain(waitpdu, J) /\ J \in SUBSET DOMAIN waitpdu
    BY <1>1, <1>5
  <2> HIDE DEF J, q
  <2>2. /\ \A a \in DOMAIN q : \E i \in J : q[a] = waitpdu[i]
        /\ \A i \in J : \E a \in DOMAIN q : q[a] = waitpdu[i]
    BY <1>5, <2>1, RetainType
  <2> QED
    BY <2>2 DEF J, q
<1>8. \A p \in Range(waitpdu') : <<p.t, p.gen>> # replies[1].to /\ p \in Range(waitpdu)
  BY <1>4, <1>7 DEF Range
<1>9. \A p \in Range(waitpdu) :
        <<p.t, p.gen>> # replies[1].to => p \in Range(waitpdu')
  BY <1>4a, <1>7 DEF Range
<1>10. 1 \in DOMAIN replies
  BY <1>1, LenProperties, EmptySeq DEF TypeOK
<1>11. \A u \in Threads : /\ frame'[u].gen = frame[u].gen
                          /\ frame'[u].alive = frame[u].alive
  BY <1>1, CallbacksType
<1>12. CallbackStep(ps, 0)
  BY <1>1, <1>2, <1>6, <1>11 DEF CallbackStep, Callbacks, Waiting
<1> QED
  BY <1>1, <1>2, <1>3, <1>8, <1>9, <1>10, <1>12

\* Next, by the effects its steps have on PDUs.
LEMMA NextSteps ==
  ASSUME [Next]_vars
  PROVE  \/ \E t \in Threads : \/ Begin(t) \/ Enqueue(t) \/ Silent(t)
                               \/ CancelFirst(t) \/ Clean(t) \/ LoopTimeout(t)
         \/ Read \/ Pop \/ Send \/ Answer \/ TimePasses \/ SilentService
BY DEF Next, Caller, Service, Silent, SilentService

\* Steps that run callbacks keep to the ways of PDUs.
LEMMA CallbackWays ==
  ASSUME TypeOK, TypeOK', Ways, NEW ps, NEW st, CallbackStep(ps, st),
         \A t \in Threads : Unqueued(t)' => Unqueued(t),
         \A k \in DOMAIN replies' : \E j \in DOMAIN replies :
                                     replies'[k].to = replies[j].to
  PROVE  Ways'
<1>1. \A a \in answered' : a \in answered \/
                            \E p \in Waiting : a[1] = p.t /\ a[2] = p.gen
  <2>1. ASSUME NEW a \in answered', a \notin answered
        PROVE  \E p \in Waiting : a[1] = p.t /\ a[2] = p.gen
    <3>1. PICK p \in ps : a = <<p.t, p.gen, st>>
      BY <2>1 DEF CallbackStep
    <3> QED
      BY <3>1 DEF CallbackStep
  <2> QED
    BY <2>1
<1>2. current' # None => current # None /\ Same(current', current)
  BY DEF CallbackStep, Same
<1>3. /\ \A t \in Threads : frame'[t].gen = frame[t].gen
      /\ Shrinks(outqueue', outqueue) /\ Shrinks(waitpdu', waitpdu)
      /\ target'.has \subseteq target.has
  BY DEF CallbackStep
<1> QED
  BY <1>1, <1>2, <1>3, WaysShrink

LEMMA NextWays ==
  ASSUME TypeOK, Control, TypeOK', Ways, [Next]_vars
  PROVE  Ways'
<1>0. outqueue \in Seq(Pdu) /\ waitpdu \in Seq(Pdu)
  BY DEF TypeOK
<1>1. ASSUME NEW t \in Threads, Silent(t)
      PROVE  Ways'
  <2>1. /\ UNCHANGED <<outqueue, waitpdu, current, target, replies, answered>>
        /\ \A u \in Threads : frame'[u].gen = frame[u].gen
        /\ \A u \in Threads : Unqueued(u)' => Unqueued(u)
    BY <1>1, SilentEffect DEF Unqueued
  <2>2. Somewhere' = Somewhere /\ Sent' = Sent
    BY <2>1 DEF Somewhere, Sent
  <2> QED
    <3>1. OfCallsMade'
      BY <2>1, <2>2, PlacesType DEF Ways, OfCallsMade
    <3>2. NotYet'
      BY <2>1, <2>2 DEF Ways, NotYet, Of
    <3>3. OnePlace'
      BY <2>1, <2>2 DEF Ways, OnePlace
    <3> QED
      BY <3>1, <3>2, <3>3 DEF Ways
<1>2. ASSUME NEW t \in Threads, CancelFirst(t) \/ Clean(t) \/ LoopTimeout(t)
      PROVE  Ways'
  <2>1. \A u \in Threads : Unqueued(u)' => Unqueued(u)
    <3>1. \E l \in {"take", "failed", "return"} :
            pc' = [pc EXCEPT ![t] = l] /\ (l = "take" => pc[t] = "cancel")
      BY <1>2 DEF CancelFirst, Clean, LoopTimeout
    <3>2. pc \in [Threads -> CallerPcs]
      BY DEF TypeOK
    <3> QED
      BY <3>1, <3>2 DEF Unqueued
  <2>2. (\E ps : CallbackStep(ps, -1)) /\ replies' = replies
    BY <1>2, CancelStepsEffect, LoopTimeoutStep
  <2> QED
    BY <2>1, <2>2, CallbackWays
<1>3. CASE Read
  <2>1. pc' = pc
    BY <1>3 DEF Read, callers
  <2>2. \E ps : CallbackStep(ps, 0)
    BY <1>3, ReadStep
  <2>3. \A k \in DOMAIN replies' : \E j \in DOMAIN replies : replies'[k] = replies[j]
    BY <1>3, ReadEffect
  <2> QED
    BY <2>1, <2>2, <2>3, CallbackWays DEF Unqueued
<1>4. CASE TimePasses
  <2>1. UNCHANGED <<pc, target, replies, answered>>
    BY <1>4 DEF TimePasses, callers, wire, history
  <2>2. /\ Shrinks(outqueue', outqueue) /\ Shrinks(waitpdu', waitpdu)
        /\ \A u \in Threads : frame'[u].gen = frame[u].gen
        /\ current' # None => current # None /\ Same(current', current)
    <3>1. /\ DOMAIN outqueue' = DOMAIN outqueue /\ DOMAIN waitpdu' = DOMAIN waitpdu
          /\ \A i \in DOMAIN outqueue : Older(outqueue[i], outqueue'[i])
          /\ \A i \in DOMAIN waitpdu : Older(waitpdu[i], waitpdu'[i])
          /\ \/ current = None /\ current' = None
             \/ current \in Pdu /\ Older(current, current')
          /\ \A u \in Threads : frame'[u].gen = frame[u].gen
      BY <1>4, TimePassesEffect
    <3> QED
      BY <3>1, OlderShrinks, NoneIsNoPdu DEF Older, Same
  <2> QED
    BY <2>1, <2>2, WaysShrink DEF Unqueued
<1>5. CASE SilentService
  <2>1. UNCHANGED <<pc, frame, outqueue, waitpdu, current, target, replies, answered>>
    BY <1>5, SilentServiceEffect
  <2> QED
    BY <2>1 DEF Ways, OfCallsMade, NotYet, OnePlace, Somewhere, Sent, Unqueued, Of, Same
<1> QED
  BY <1>1, <1>2, <1>3, <1>4, <1>5, NextSteps, BeginWays, EnqueueWays, PopWays,
     SendWays, AnswerWays

-----------------------------------------------------------------------------
(* Callbacks and frames *)

CallbackInv == Answers /\ LeftBehind /\ GoodMeansAnswered /\ OnlyFailuresLeaveFrames

\* A callback that runs finishes the call it belongs to.
LEMMA CallbacksAnswer ==
  ASSUME TypeOK, NEW ps \in SUBSET Pdu, NEW st \in {0, -1}, Callbacks(ps, st),
         NEW t \in Threads
  PROVE  \/ frame'[t] = frame[t]
         \/ /\ frame'[t].finished /\ frame'[t].status = st
            /\ frame'[t].gen = frame[t].gen /\ frame'[t].alive = frame[t].alive
            /\ <<t, frame[t].gen, st>> \in answered'
<1>1. frame[t] \in SyncState
  BY DEF TypeOK
<1>2. CASE ~\E p \in ps : p.t = t /\ Alive(p)
  BY <1>2 DEF Callbacks
<1>3. CASE \E p \in ps : p.t = t /\ Alive(p)
  <2>1. PICK p \in ps : p.t = t /\ Alive(p)
    BY <1>3
  <2>2. <<p.t, p.gen, st>> \in answered' /\ p.gen = frame[t].gen
    BY <2>1 DEF Callbacks, Alive
  <2>3. \E n : frame'[t] = [frame[t] EXCEPT !.finished = TRUE, !.status = st,
                                            !.sem = n]
    BY <1>3 DEF Callbacks
  <2> QED
    BY <1>1, <2>1, <2>2, <2>3 DEF SyncState
<1> QED
  BY <1>2, <1>3

\* A step that runs callbacks: what is left waiting was not answered with
\* GOOD, and what it completes too late belongs to a call that failed.
LEMMA CallbackLeaves ==
  ASSUME TypeOK, TypeOK', CallbackInv, NEW ps, NEW st \in {0, -1},
         CallbackStep(ps, st),
         st = 0 => \A p \in Waiting' : \A q \in ps : ~Same(p, q)
  PROVE  /\ LeftBehind' /\ OnlyFailuresLeaveFrames'
         /\ \A p \in Waiting' : \E q \in Waiting : Same(p, q)
         /\ answered \subseteq answered'
<1>1. \A p \in Waiting' : \E q \in Waiting : Same(p, q)
  BY DEF CallbackStep, Shrinks, Waiting, Range
<1>2. answered \subseteq answered'
  BY DEF CallbackStep
<1>3. ASSUME NEW p \in Waiting'
      PROVE  /\ <<p.t, p.gen, 0>> \notin answered'
             /\ Alive(p)' \/ <<p.t, p.gen>> \in failures'
  <2>1. PICK q \in Waiting : Same(p, q)
    BY <1>1
  <2>2. /\ <<p.t, p.gen, 0>> \notin answered
        /\ Alive(q) \/ <<p.t, p.gen>> \in failures
        /\ q.t \in Threads
    BY <2>1, PlacesType DEF CallbackInv, LeftBehind, Same
  <2>3. <<p.t, p.gen, 0>> \notin answered'
    <3>1. SUFFICES ASSUME <<p.t, p.gen, 0>> \in answered' PROVE FALSE
      OBVIOUS
    <3>2. PICK r \in ps : <<p.t, p.gen, 0>> = <<r.t, r.gen, st>>
      BY <2>2, <3>1 DEF CallbackStep
    <3>3. st = 0 /\ Same(p, r)
      BY <3>2 DEF Same
    <3> QED
      BY <3>3
  <2>4. Alive(q) => Alive(p)'
    BY <2>1, <2>2 DEF Alive, Same, CallbackStep
  <2> QED
    BY <2>2, <2>3, <2>4 DEF CallbackStep
<1>4. LeftBehind'
  BY <1>3 DEF LeftBehind
<1>5. ASSUME NEW w \in wild'
      PROVE  w \in failures'
  <2>1. CASE w \in wild
    BY <2>1 DEF CallbackInv, OnlyFailuresLeaveFrames, CallbackStep
  <2>2. CASE w \notin wild
    <3>1. PICK p \in ps : ~Alive(p) /\ w = <<p.t, p.gen>>
      BY <2>2 DEF CallbackStep
    <3> QED
      BY <3>1 DEF CallbackInv, LeftBehind, CallbackStep
  <2> QED
    BY <2>1, <2>2
<1>6. OnlyFailuresLeaveFrames'
  BY <1>5 DEF OnlyFailuresLeaveFrames
<1> QED
  BY <1>1, <1>2, <1>4, <1>6

\* A reply is read.
LEMMA ReadCallbacks ==
  ASSUME TypeOK, Control, TypeOK', Ways, CallbackInv, Read
  PROVE  CallbackInv'
<1>1. PICK ps : /\ CallbackStep(ps, 0) /\ Callbacks(ps, 0)
                /\ outqueue' = outqueue /\ 1 \in DOMAIN replies
                /\ \A p \in ps : <<p.t, p.gen>> = replies[1].to
                /\ \A p \in Range(waitpdu') : <<p.t, p.gen>> # replies[1].to
  BY ReadStep
<1>2. ASSUME NEW p \in Waiting', NEW q \in ps
      PROVE  ~Same(p, q)
  <2>1. <<p.t, p.gen>> # replies[1].to
    BY <1>1 DEF Waiting, Range, Ways, OnePlace
  <2> QED
    BY <1>1, <2>1 DEF Same
<1>3. /\ LeftBehind' /\ OnlyFailuresLeaveFrames'
      /\ \A p \in Waiting' : \E q \in Waiting : Same(p, q)
      /\ answered \subseteq answered'
  BY <1>1, <1>2, CallbackLeaves
<1>4. pc' = pc /\ ret' = ret
  BY DEF Read, callers
<1>5. \A t \in Threads :
        \/ frame'[t] = frame[t]
        \/ /\ frame'[t].finished /\ frame'[t].status = 0
           /\ frame'[t].gen = frame[t].gen /\ frame'[t].alive = frame[t].alive
           /\ <<t, frame[t].gen, 0>> \in answered'
  BY <1>1, CallbacksAnswer DEF CallbackStep
<1>6. Answers'
  <2> SUFFICES ASSUME NEW t \in Threads
               PROVE  /\ frame'[t].alive <=> pc'[t] # "idle"
                      /\ frame'[t].sem > 0 => frame'[t].finished
                      /\ (frame'[t].finished \/ pc'[t] = "return")
                         /\ frame'[t].status = 0
                           => <<t, frame'[t].gen, 0>> \in answered'
                      /\ pc'[t] = "failed" =>
                           \A p \in Waiting' : ~Of(p, t, frame'[t].gen)
    BY DEF Answers, Of
  <2>1. frame'[t].gen = frame[t].gen /\ frame'[t].alive = frame[t].alive
    BY <1>5
  <2>2. pc'[t] = "failed" => \A p \in Waiting' : ~Of(p, t, frame'[t].gen)
    <3>1. pc[t] = "failed" => \A q \in Waiting : ~Of(q, t, frame[t].gen)
      BY DEF CallbackInv, Answers
    <3>2. \A p \in Waiting' : \E q \in Waiting : Same(p, q)
      BY <1>3
    <3> QED
      BY <1>4, <2>1, <3>1, <3>2 DEF Of, Same
  <2> QED
    BY <1>3, <1>4, <1>5, <2>1, <2>2 DEF CallbackInv, Answers
<1>7. GoodMeansAnswered'
  BY <1>3, <1>4, <1>5 DEF CallbackInv, GoodMeansAnswered
<1> QED
  BY <1>3, <1>6, <1>7 DEF CallbackInv

\* PDUs are cancelled.
LEMMA CancelCallbacks ==
  ASSUME TypeOK, Control, TypeOK', CallbackInv, NEW u \in Threads,
         CancelFirst(u) \/ Clean(u)
  PROVE  CallbackInv'
<1>1. PICK ps : CallbackStep(ps, -1) /\ Callbacks(ps, -1)
  BY CancelStepsEffect
<1>2. /\ LeftBehind' /\ OnlyFailuresLeaveFrames'
      /\ \A p \in Waiting' : \E q \in Waiting : Same(p, q)
      /\ answered \subseteq answered'
  BY <1>1, CallbackLeaves
<1>3. \A t \in Threads :
        \/ frame'[t] = frame[t]
        \/ /\ frame'[t].finished /\ frame'[t].status = -1
           /\ frame'[t].gen = frame[t].gen /\ frame'[t].alive = frame[t].alive
  BY <1>1, CallbacksAnswer DEF CallbackStep
<1>4. /\ pc[u] # "idle" /\ pc'[u] # "idle"
      /\ \A t \in Threads : t # u => pc'[t] = pc[t] /\ ret'[t] = ret[t]
      /\ pc'[u] # "return"
      /\ pc'[u] = "failed" => Waiting' = {}
  <2>1. outqueue' = << >> /\ waitpdu' = << >>
    BY DEF CancelFirst, Clean, CancelPdus
  <2>2. Waiting' = {}
    BY <2>1 DEF Waiting, Range
  <2> QED
    BY <2>2 DEF CancelFirst, Clean, TypeOK
<1>5. Answers'
  BY <1>2, <1>3, <1>4 DEF CallbackInv, Answers, Of, Same
<1>6. GoodMeansAnswered'
  BY <1>2, <1>3, <1>4 DEF CallbackInv, GoodMeansAnswered
<1> QED
  BY <1>2, <1>5, <1>6 DEF CallbackInv

\* The scan for timeouts.
LEMMA TimeoutCallbacks ==
  ASSUME TypeOK, Control, TypeOK', CallbackInv, NEW u \in Threads, LoopTimeout(u)
  PROVE  CallbackInv'
<1>1. PICK ps : CallbackStep(ps, -1)
  BY LoopTimeoutStep
<1>2. /\ LeftBehind' /\ OnlyFailuresLeaveFrames'
      /\ \A p \in Waiting' : \E q \in Waiting : Same(p, q)
      /\ answered \subseteq answered'
  BY <1>1, CallbackLeaves
<1>3. /\ pc' = [pc EXCEPT ![u] = "return"] /\ pc[u] = "loop" /\ ret' = ret
      /\ ~frame[u].finished
  BY DEF LoopTimeout, AtTop
<1>4. /\ frame'[u].status = -1 /\ frame'[u].sem = frame[u].sem
      /\ frame'[u].gen = frame[u].gen /\ frame'[u].alive = frame[u].alive
      /\ \A t \in Threads : t # u => frame'[t] = frame[t]
  <2>1. \E b : frame' = [frame EXCEPT ![u].status = -1, ![u].finished = b]
    BY DEF LoopTimeout
  <2> QED
    BY <2>1 DEF TypeOK, SyncState
<1>5. \A t \in Threads : pc'[t] = "failed" =>
                           \A p \in Waiting' : ~Of(p, t, frame'[t].gen)
  <2>1. \A t \in Threads : pc[t] = "failed" =>
                             \A q \in Waiting : ~Of(q, t, frame[t].gen)
    BY DEF CallbackInv, Answers
  <2>2. \A t \in Threads : pc'[t] = "failed" => pc[t] = "failed" /\ t # u
    BY <1>3 DEF TypeOK
  <2> QED
    BY <1>2, <1>4, <2>1, <2>2 DEF Of, Same
<1>6. Answers'
  <2>1. \A t \in Threads : t # u => pc'[t] = pc[t]
    BY <1>3 DEF TypeOK
  <2>2. pc'[u] = "return"
    BY <1>3 DEF TypeOK
  <2> QED
    BY <1>2, <1>3, <1>4, <1>5, <2>1, <2>2 DEF CallbackInv, Answers
<1>7. GoodMeansAnswered'
  BY <1>2, <1>3, <1>4 DEF CallbackInv, GoodMeansAnswered, TypeOK
<1> QED
  BY <1>2, <1>6, <1>7 DEF CallbackInv

\* A new call starts with an empty frame.
LEMMA BeginCallbacks ==
  ASSUME TypeOK, TypeOK', Ways, CallbackInv, NEW u \in Threads, Begin(u)
  PROVE  CallbackInv'
<1>1. /\ UNCHANGED <<outqueue, waitpdu, answered, wild, failures, ret>>
      /\ pc[u] = "idle" /\ pc'[u] \in {"failed", "cancel", "take"}
      /\ \A t \in Threads \ {u} : pc'[t] = pc[t]
  BY DEF Begin, wire, history, TypeOK
<1>2. /\ frame'[u].gen = frame[u].gen + 1 /\ frame'[u].alive
      /\ ~frame'[u].finished /\ frame'[u].sem = 0
      /\ \A t \in Threads \ {u} : frame'[t] = frame[t]
  <2>1. frame' = [frame EXCEPT ![u] = [NoFrame(frame[u].gen + 1) EXCEPT !.alive = TRUE]]
    BY DEF Begin, iscsi_init_sync_state
  <2>2. frame[u].gen + 1 \in Nat
    BY PlacesType
  <2>3. LET f == [NoFrame(frame[u].gen + 1) EXCEPT !.alive = TRUE]
        IN  f.gen = frame[u].gen + 1 /\ f.alive /\ ~f.finished /\ f.sem = 0
    BY <2>2, InitFrameType
  <2> QED
    BY <2>1, <2>3 DEF TypeOK
<1>3. Waiting' = Waiting
  BY <1>1 DEF Waiting
<1>4. \A p \in Waiting : p.t \in Threads /\ ~Of(p, u, frame'[u].gen)
  BY <1>2, PlacesType DEF Ways, OfCallsMade, Of
<1>5. ~frame[u].alive
  BY <1>1 DEF CallbackInv, Answers
<1>6. Answers'
  BY <1>1, <1>2, <1>3, <1>4 DEF CallbackInv, Answers, Of
<1>7. LeftBehind'
  <2>1. ASSUME NEW p \in Waiting, Alive(p) PROVE Alive(p)'
    BY <1>2, <1>4, <1>5, <2>1 DEF Alive
  <2> QED
    BY <1>1, <1>3, <2>1 DEF CallbackInv, LeftBehind
<1>8. GoodMeansAnswered'
  BY <1>1, <1>2 DEF CallbackInv, GoodMeansAnswered
<1>9. OnlyFailuresLeaveFrames'
  BY <1>1 DEF CallbackInv, OnlyFailuresLeaveFrames
<1> QED
  BY <1>6, <1>7, <1>8, <1>9 DEF CallbackInv

\* The PDU of a call is queued while its frame is there.
LEMMA EnqueueCallbacks ==
  ASSUME TypeOK, Control, TypeOK', Ways, CallbackInv, NEW u \in Threads, Enqueue(u)
  PROVE  CallbackInv'
<1> DEFINE n == NewPdu(u)
<1>1. /\ UNCHANGED <<frame, waitpdu, answered, wild, failures, ret>>
      /\ pc[u] = "queue" /\ pc'[u] \in {"kick", "signal", "wait"}
      /\ \A t \in Threads \ {u} : pc'[t] = pc[t]
  <2>1. \E l \in {"kick", "signal", "wait"} : pc' = [pc EXCEPT ![u] = l]
    BY Zenon DEF Enqueue
  <2>2. /\ UNCHANGED <<frame, waitpdu, answered, wild, failures, ret>>
        /\ pc[u] = "queue"
    BY DEF Enqueue, wire, history
  <2> QED
    BY <2>1, <2>2 DEF TypeOK
<1>2. n \in Pdu /\ n.t = u /\ n.gen = frame[u].gen
  BY EnqueueEffect DEF NewPdu
<1>3. \A p \in Waiting' : p \in Waiting \/ p = n
  <2>1. PICK i \in 1 .. (Len(outqueue) + 1) :
          /\ Len(outqueue') = Len(outqueue) + 1
          /\ \A k \in 1 .. (Len(outqueue) + 1) :
               outqueue'[k] = IF k < i THEN outqueue[k]
                              ELSE IF k = i THEN n ELSE outqueue[k - 1]
    BY EnqueueEffect
  <2>2. /\ DOMAIN outqueue = 1 .. Len(outqueue) /\ Len(outqueue) \in Nat
        /\ DOMAIN outqueue' = 1 .. (Len(outqueue) + 1)
    BY <2>1, LenProperties DEF TypeOK
  <2> HIDE DEF n
  <2>3. \A a \in DOMAIN outqueue' :
          outqueue'[a] = n \/ \E j \in DOMAIN outqueue : outqueue'[a] = outqueue[j]
    BY <2>1, <2>2
  <2> QED
    BY <1>1, <2>3 DEF Waiting, Range
<1>4. <<n.t, n.gen, 0>> \notin answered
  <2>1. \A a \in answered : ~(a[1] = u /\ a[2] = frame[u].gen)
    BY <1>1 DEF Ways, NotYet, Unqueued
  <2>2. <<u, frame[u].gen, 0>>[1] = u /\ <<u, frame[u].gen, 0>>[2] = frame[u].gen
    OBVIOUS
  <2> QED
    BY <1>2, <2>1, <2>2
<1>5. frame[u].alive
  BY <1>1 DEF CallbackInv, Answers
<1> HIDE DEF n
<1>6. Answers'
  <2>1. \A t \in Threads : pc'[t] = "failed" =>
          t # u /\ \A p \in Waiting : ~Of(p, t, frame[t].gen)
    BY <1>1 DEF CallbackInv, Answers
  <2>2. \A t \in Threads : pc'[t] = "failed" =>
          \A p \in Waiting' : ~Of(p, t, frame[t].gen)
    BY <1>2, <1>3, <2>1 DEF Of
  <2> QED
    BY <1>1, <2>2 DEF CallbackInv, Answers
<1>7. LeftBehind'
  <2>1. ASSUME NEW p \in Waiting'
        PROVE  /\ <<p.t, p.gen, 0>> \notin answered
               /\ Alive(p) \/ <<p.t, p.gen>> \in failures
    BY <1>2, <1>3, <1>4, <1>5 DEF CallbackInv, LeftBehind, Alive
  <2> QED
    BY <1>1, <2>1 DEF LeftBehind, Alive
<1>8. GoodMeansAnswered' /\ OnlyFailuresLeaveFrames'
  BY <1>1 DEF CallbackInv, GoodMeansAnswered, OnlyFailuresLeaveFrames
<1> QED
  BY <1>6, <1>7, <1>8 DEF CallbackInv

\* A call returns: with GOOD only if its callback ran, and then its PDU is
\* gone; otherwise it is a failure.
LEMMA LeaveCallbacks ==
  ASSUME TypeOK, TypeOK', CallbackInv, NEW u \in Threads, StartFails(u) \/ Return(u)
  PROVE  CallbackInv'
<1>1. /\ UNCHANGED <<outqueue, waitpdu, answered, wild>>
      /\ pc'[u] = "idle" /\ pc[u] \in {"failed", "return"}
      /\ \A t \in Threads \ {u} : pc'[t] = pc[t] /\ ret'[t] = ret[t]
      /\ failures \subseteq failures'
  BY DEF StartFails, Return, Leave, history, TypeOK
<1>2. /\ frame'[u].gen = frame[u].gen /\ ~frame'[u].alive
      /\ ~frame'[u].finished /\ frame'[u].sem = 0
      /\ \A t \in Threads \ {u} : frame'[t] = frame[t]
  <2>1. frame' = [frame EXCEPT ![u] = NoFrame(frame[u].gen)]
    BY DEF StartFails, Return, Leave
  <2>2. frame[u].gen \in Nat
    BY PlacesType
  <2>3. LET f == NoFrame(frame[u].gen)
        IN  f.gen = frame[u].gen /\ ~f.alive /\ ~f.finished /\ f.sem = 0
    BY <2>2, InitFrameType
  <2> QED
    BY <2>1, <2>3 DEF TypeOK
<1>3. Waiting' = Waiting
  BY <1>1 DEF Waiting
<1>4. ret'[u] = "good" => pc[u] = "return" /\ frame[u].status = 0
  BY DEF StartFails, Return, TypeOK
<1>5. ASSUME NEW p \in Waiting, Of(p, u, frame[u].gen)
      PROVE  <<p.t, p.gen>> \in failures'
  <2>1. pc[u] = "return"
    BY <1>1, <1>5 DEF CallbackInv, Answers
  <2>2. frame[u].status # 0
    BY <1>5, <2>1 DEF CallbackInv, Answers, LeftBehind, Of
  <2>3. failures' = failures \cup {<<u, frame[u].gen>>}
    BY <2>1, <2>2 DEF StartFails, Return
  <2> QED
    BY <1>5, <2>3 DEF Of
<1>6. Answers'
  BY <1>1, <1>2, <1>3 DEF CallbackInv, Answers
<1>7. LeftBehind'
  <2>1. ASSUME NEW p \in Waiting
        PROVE  Alive(p)' \/ <<p.t, p.gen>> \in failures'
    <3>1. CASE Of(p, u, frame[u].gen)
      BY <1>5, <3>1
    <3>2. CASE ~Of(p, u, frame[u].gen)
      <4>1. Alive(p) => Alive(p)'
        BY <1>2, <3>2, PlacesType DEF Alive, Of
      <4> QED
        BY <1>1, <4>1 DEF CallbackInv, LeftBehind
    <3> QED
      BY <3>1, <3>2
  <2> QED
    BY <1>1, <1>3, <2>1 DEF CallbackInv, LeftBehind
<1>8. GoodMeansAnswered'
  <2>1. ret'[u] = "good" => <<u, frame[u].gen, 0>> \in answered
    BY <1>4 DEF CallbackInv, Answers
  <2> QED
    BY <1>1, <1>2, <2>1 DEF CallbackInv, GoodMeansAnswered
<1>9. OnlyFailuresLeaveFrames'
  BY <1>1 DEF CallbackInv, OnlyFailuresLeaveFrames
<1> QED
  BY <1>6, <1>7, <1>8, <1>9 DEF CallbackInv

\* The other steps of a caller: it waits until its callback has run, or gives
\* up with an error.
LEMMA WaitCallbacks ==
  ASSUME TypeOK, TypeOK', CallbackInv, NEW u \in Threads, Silent(u),
         ~StartFails(u), ~Return(u)
  PROVE  CallbackInv'
<1>1. /\ UNCHANGED <<outqueue, waitpdu, answered, wild, failures, ret>>
      /\ pc[u] # "idle" /\ pc'[u] \notin {"idle", "failed"}
      /\ \A t \in Threads \ {u} : pc'[t] = pc[t]
  BY DEF Silent, TakeNumber, Signal, Kick, WaitSem, Flushed, LoopDone, LoopFails,
         AtTop, history, TypeOK
<1>2. /\ frame'[u].gen = frame[u].gen /\ frame'[u].alive = frame[u].alive
      /\ frame'[u].finished = frame[u].finished
      /\ frame'[u].sem > 0 => frame[u].finished
      /\ frame'[u].status = 0 => frame[u].status = 0
      /\ pc'[u] = "return" /\ frame'[u].status = 0 => frame[u].finished
      /\ \A t \in Threads \ {u} : frame'[t] = frame[t]
  <2>0. /\ frame \in [Threads -> SyncState]
        /\ frame[u].sem > 0 => frame[u].finished
        /\ pc \in [Threads -> CallerPcs]
    BY DEF CallbackInv, Answers, TypeOK
  <2>1. CASE WaitSem(u)
    <3>1. /\ frame[u].sem > 0 /\ pc' = [pc EXCEPT ![u] = "return"]
          /\ \E n : frame' = [frame EXCEPT ![u].sem = n]
      BY <2>1 DEF WaitSem
    <3> QED
      BY <2>0, <3>1 DEF SyncState
  <2>2. CASE LoopFails(u)
    <3>1. frame' = [frame EXCEPT ![u].status = -1]
      BY <2>2 DEF LoopFails
    <3> QED
      BY <2>0, <3>1 DEF SyncState
  <2>3. CASE LoopDone(u)
    BY <2>0, <2>3 DEF LoopDone
  <2>4. CASE TakeNumber(u) \/ Signal(u) \/ Kick(u) \/ Flushed(u)
    BY <2>0, <2>4 DEF TakeNumber, Signal, Kick, Flushed
  <2> QED
    BY <2>1, <2>2, <2>3, <2>4 DEF Silent
<1>3. Waiting' = Waiting
  BY <1>1 DEF Waiting
<1>4. Answers'
  BY <1>1, <1>2, <1>3 DEF CallbackInv, Answers
<1>5. LeftBehind'
  <2>1. \A p \in Waiting : Alive(p)' <=> Alive(p)
    BY <1>2, PlacesType DEF Alive
  <2> QED
    BY <1>1, <1>3, <2>1 DEF CallbackInv, LeftBehind
<1>6. GoodMeansAnswered' /\ OnlyFailuresLeaveFrames'
  BY <1>1, <1>2 DEF CallbackInv, GoodMeansAnswered, OnlyFailuresLeaveFrames
<1> QED
  BY <1>4, <1>5, <1>6 DEF CallbackInv

LEMMA NextCallbacks ==
  ASSUME TypeOK, Control, TypeOK', Ways, CallbackInv, [Next]_vars
  PROVE  CallbackInv'
<1>1. ASSUME UNCHANGED <<pc, ret, answered, wild, failures>>,
             \A p \in Waiting' : \E q \in Waiting : Same(p, q),
             \A t \in Threads : /\ frame'[t].gen = frame[t].gen
                                /\ frame'[t].alive = frame[t].alive
                                /\ frame'[t].finished = frame[t].finished
                                /\ frame'[t].status = frame[t].status
                                /\ frame'[t].sem = frame[t].sem
      PROVE  CallbackInv'
  <2>1. \A t \in Threads : pc[t] = "failed" =>
                             \A q \in Waiting : ~Of(q, t, frame[t].gen)
    BY DEF CallbackInv, Answers
  <2>2. \A t \in Threads : pc[t] = "failed" =>
                             \A p \in Waiting' : ~Of(p, t, frame'[t].gen)
    BY <1>1, <2>1 DEF Of, Same
  <2>3. Answers'
    BY <1>1, <2>2 DEF CallbackInv, Answers
  <2>4. LeftBehind'
    <3>1. ASSUME NEW p \in Waiting'
          PROVE  /\ <<p.t, p.gen, 0>> \notin answered
                 /\ Alive(p)' \/ <<p.t, p.gen>> \in failures
      <4>1. PICK q \in Waiting : Same(p, q)
        BY <1>1
      <4>2. Alive(q) => Alive(p)'
        BY <1>1, <4>1, PlacesType DEF Alive, Same
      <4> QED
        BY <4>1, <4>2 DEF CallbackInv, LeftBehind, Same
    <3> QED
      BY <1>1, <3>1 DEF LeftBehind
  <2>5. GoodMeansAnswered' /\ OnlyFailuresLeaveFrames'
    BY <1>1 DEF CallbackInv, GoodMeansAnswered, OnlyFailuresLeaveFrames
  <2> QED
    BY <2>3, <2>4, <2>5 DEF CallbackInv
<1>2. CASE Pop
  <2>1. UNCHANGED <<pc, ret, frame, answered, wild, failures>>
    BY <1>2 DEF Pop, callers, history
  <2>2. Waiting' \subseteq Waiting
    <3>1. /\ 1 \in DOMAIN outqueue /\ current' = outqueue[1]
          /\ \A k \in DOMAIN outqueue' :
               k + 1 \in DOMAIN outqueue /\ outqueue'[k] = outqueue[k + 1]
          /\ Range(waitpdu') = Range(waitpdu) \cup {current'}
      BY <1>2, PopEffect
    <3>2. Range(outqueue') \subseteq Range(outqueue) /\ current' \in Range(outqueue)
      BY <3>1 DEF Range
    <3> QED
      BY <3>1, <3>2 DEF Waiting
  <2> QED
    BY <1>1, <2>1, <2>2 DEF Same
<1>3. CASE Send \/ Answer \/ SilentService
  <2>1. UNCHANGED <<pc, ret, frame, outqueue, waitpdu, answered, wild, failures>>
    BY <1>3, SilentServiceEffect DEF Send, Answer, callers, history
  <2>2. Waiting' = Waiting
    BY <2>1 DEF Waiting
  <2> QED
    BY <1>1, <2>1, <2>2 DEF Same
<1>4. CASE TimePasses
  <2>1. UNCHANGED <<pc, ret, answered, wild, failures>>
    BY <1>4 DEF TimePasses, callers, history
  <2>2. /\ DOMAIN outqueue' = DOMAIN outqueue /\ DOMAIN waitpdu' = DOMAIN waitpdu
        /\ \A i \in DOMAIN outqueue : Older(outqueue[i], outqueue'[i])
        /\ \A i \in DOMAIN waitpdu : Older(waitpdu[i], waitpdu'[i])
        /\ \A t \in Threads : /\ frame'[t].gen = frame[t].gen
                              /\ frame'[t].alive = frame[t].alive
                              /\ frame'[t].finished = frame[t].finished
                              /\ frame'[t].status = frame[t].status
                              /\ frame'[t].sem = frame[t].sem
    BY <1>4, TimePassesEffect
  <2>3. \A p \in Waiting' : \E q \in Waiting : Same(p, q)
    BY <2>2 DEF Waiting, Range, Older, Same
  <2> QED
    BY <1>1, <2>1, <2>2, <2>3
<1> QED
  BY <1>2, <1>3, <1>4, NextSteps, BeginCallbacks, EnqueueCallbacks,
     LeaveCallbacks, WaitCallbacks, CancelCallbacks, TimeoutCallbacks,
     ReadCallbacks

LEMMA InitWays == Init => Ways /\ CallbackInv
<1> SUFFICES ASSUME Init PROVE Ways /\ CallbackInv
  OBVIOUS
<1>1. /\ Waiting = {} /\ Somewhere = {} /\ outqueue = << >> /\ replies = << >>
      /\ answered = {} /\ wild = {} /\ current = None
  BY DEF Init, Waiting, Somewhere, Sent, Range
<1>2. \A t \in Threads : /\ pc[t] = "idle" /\ ret[t] = "none"
                         /\ ~frame[t].alive /\ ~frame[t].finished
                         /\ frame[t].sem = 0
  BY InitFrameType DEF Init
<1>3. Ways
  BY <1>1, <1>2 DEF Ways, OfCallsMade, NotYet, OnePlace, Unqueued
<1>4. CallbackInv
  BY <1>1, <1>2
  DEF CallbackInv, Answers, LeftBehind, GoodMeansAnswered, OnlyFailuresLeaveFrames
<1> QED
  BY <1>3, <1>4

\* However calls, timeouts, cancellations and the service thread interleave:
\* a call of lib/sync.c that returns success has had its own callback with
\* GOOD.  status starts as 0, which is GOOD, so this needs that nobody leaves
\* event_loop before a callback or an error has written into the frame.
THEOREM GoodMeansAnsweredCorrect == Spec => []GoodMeansAnswered
<1>1. TypeOK /\ Control /\ Ways /\ CallbackInv /\ [Next]_vars
        => (TypeOK /\ Control /\ Ways /\ CallbackInv)'
  BY NextType, NextWays, NextCallbacks
<1>2. CallbackInv => GoodMeansAnswered
  BY DEF CallbackInv
<1> QED
  BY <1>1, <1>2, InitType, InitWays, PTL DEF Spec

\* Under the same circumstances a callback that runs after its call has
\* returned, and writes into a frame that is gone, belongs to a call that
\* returned an error and was not cleaned up after.
THEOREM OnlyFailuresLeaveFramesCorrect == Spec => []OnlyFailuresLeaveFrames
<1>1. TypeOK /\ Control /\ Ways /\ CallbackInv /\ [Next]_vars
        => (TypeOK /\ Control /\ Ways /\ CallbackInv)'
  BY NextType, NextWays, NextCallbacks
<1>2. CallbackInv => OnlyFailuresLeaveFrames
  BY DEF CallbackInv
<1> QED
  BY <1>1, <1>2, InitType, InitWays, PTL DEF Spec

-----------------------------------------------------------------------------
(* Numbers *)

\* Only what was late for the calls of Main before is late for them now,
\* unless time passes.
LEMMA NextLate ==
  ASSUME TypeOK, Control, [Next]_vars
  PROVE  /\ ticks' \in Nat /\ ticks <= ticks'
         /\ ticks' = 0 => \A t \in Threads : frame'[t].late => frame[t].late
<1>1. frame \in [Threads -> SyncState] /\ ticks \in Nat
  BY DEF TypeOK
<1>2. ASSUME NEW t \in Threads, Begin(t)
      PROVE  ticks' = ticks /\ \A u \in Threads : frame'[u].late => frame[u].late
  <2>1. ~iscsi_init_sync_state(t).late
    <3>1. frame[t].gen + 1 \in Nat
      BY <1>1 DEF SyncState
    <3> QED
      BY <3>1, InitFrameType DEF iscsi_init_sync_state
  <2>2. frame' = [frame EXCEPT ![t] = iscsi_init_sync_state(t)] /\ ticks' = ticks
    BY <1>2 DEF Begin
  <2> QED
    BY <1>1, <2>1, <2>2
<1>3. ASSUME NEW t \in Threads, Enqueue(t)
      PROVE  ticks' = ticks /\ \A u \in Threads : frame'[u].late => frame[u].late
  BY <1>3 DEF Enqueue
<1>4. ASSUME NEW t \in Threads, Silent(t)
      PROVE  ticks' = ticks /\ \A u \in Threads : frame'[u].late => frame[u].late
  <2>1. ticks' = ticks
    BY <1>4, SilentEffect
  <2>2. CASE TakeNumber(t) \/ Signal(t) \/ Kick(t) \/ Flushed(t) \/ LoopDone(t)
    BY <2>1, <2>2 DEF TakeNumber, Signal, Kick, Flushed, LoopDone
  <2>3. CASE WaitSem(t)
    BY <1>1, <2>1, <2>3 DEF WaitSem, SyncState
  <2>4. CASE LoopFails(t)
    BY <1>1, <2>1, <2>4 DEF LoopFails, SyncState
  <2>5. CASE StartFails(t) \/ Return(t)
    <3>1. frame' = [frame EXCEPT ![t] = NoFrame(frame[t].gen)]
      BY <2>5 DEF StartFails, Return, Leave
    <3>2. ~NoFrame(frame[t].gen).late
      BY <1>1, InitFrameType DEF SyncState
    <3> QED
      BY <1>1, <2>1, <3>1, <3>2
  <2> QED
    BY <1>4, <2>2, <2>3, <2>4, <2>5 DEF Silent
<1>5. ASSUME NEW t \in Threads, CancelFirst(t) \/ Clean(t)
      PROVE  ticks' = ticks /\ \A u \in Threads : frame'[u].late => frame[u].late
  <2>1. CancelPdus
    BY <1>5 DEF CancelFirst, Clean
  <2>2. ticks' = ticks
    BY <1>5 DEF CancelFirst, Clean
  <2> QED
    BY <2>1, <2>2, CancelType
<1>6. ASSUME NEW t \in Threads, LoopTimeout(t)
      PROVE  ticks' = ticks /\ \A u \in Threads : frame'[u].late => frame[u].late
  <2>1. PICK b : frame' = [frame EXCEPT ![t].status = -1, ![t].finished = b]
    BY <1>6 DEF LoopTimeout
  <2>2. ticks' = ticks
    BY <1>6 DEF LoopTimeout
  <2> QED
    BY <1>1, <2>1, <2>2 DEF SyncState
<1>7. CASE Read
  <2>1. PICK ps : Callbacks(ps, 0) /\ ps \subseteq Pdu
    BY <1>7, ReadStep DEF CallbackStep
  <2>2. ticks' = ticks
    BY <1>7 DEF Read
  <2> QED
    BY <1>1, <2>1, <2>2, CallbacksType
<1>8. CASE Pop \/ Send \/ Answer \/ SilentService
  <2>1. UNCHANGED <<frame, ticks>>
    BY <1>8, SilentServiceEffect DEF Pop, Send, Answer
  <2> QED
    BY <1>1, <2>1
<1>9. CASE TimePasses
  BY <1>1, <1>9 DEF TimePasses
<1> QED
  BY <1>1, <1>2, <1>3, <1>4, <1>5, <1>6, <1>7, <1>8, <1>9, NextSteps

\* Only Send changes what the target expects, and only Read what the
\* initiator knows of it.
LEMMA NextHeard ==
  ASSUME TypeOK, Control, TypeOK', Heard, [Next]_vars
  PROVE  Heard'
<1>1. ticks \in Nat /\ target.exp \in Int /\ expcmdsn \in Int
      /\ target'.exp \in Int /\ expcmdsn' \in Int
  BY DEF TypeOK
<1>2. \A k \in DOMAIN replies : replies[k].exp \in Int
  BY PlacesType
<1>3. ticks' = 0 => \A t \in Threads : ~frame'[t].late
  BY <1>1, NextLate DEF Heard
<1>4. CASE UNCHANGED <<expcmdsn, replies, target>>
  BY <1>3, <1>4 DEF Heard
<1>5. CASE Read
  <2>1. /\ expcmdsn' \in {expcmdsn, replies[1].exp} /\ 1 \in DOMAIN replies
        /\ \A k \in DOMAIN replies' : \E j \in DOMAIN replies :
                                        replies'[k] = replies[j]
    BY <1>5, ReadEffect, ReadStep
  <2>2. target' = target
    BY <1>5 DEF Read
  <2> QED
    BY <1>3, <2>1, <2>2 DEF Heard
<1>6. CASE Send
  <2>1. target.exp <= target'.exp
    BY <1>6, SendEffect
  <2>2. UNCHANGED <<expcmdsn, replies>>
    BY <1>6 DEF Send, counters
  <2> QED
    BY <1>1, <1>2, <1>3, <2>1, <2>2 DEF Heard
<1>7. CASE Answer
  <2>1. /\ target'.exp = target.exp
        /\ \A k \in DOMAIN replies' :
             \/ k \in DOMAIN replies /\ replies'[k] = replies[k]
             \/ replies'[k].exp = target.exp
    BY <1>7, AnswerEffect
  <2>2. expcmdsn' = expcmdsn
    BY <1>7 DEF Answer, counters
  <2> QED
    BY <1>1, <1>3, <2>1, <2>2 DEF Heard
<1>8. ASSUME NEW t \in Threads,
             \/ Begin(t) \/ Enqueue(t) \/ Silent(t)
             \/ CancelFirst(t) \/ Clean(t) \/ LoopTimeout(t)
      PROVE  UNCHANGED <<expcmdsn, replies, target>>
  BY <1>8, SilentEffect
  DEF Begin, Enqueue, CancelFirst, Clean, LoopTimeout, counters, wire
<1>9. CASE Pop \/ TimePasses \/ SilentService
  BY <1>4, <1>9, SilentServiceEffect DEF Pop, TimePasses, counters, wire
<1> QED
  BY <1>4, <1>5, <1>6, <1>7, <1>8, <1>9, NextSteps

\* The numbers as integers.
LEMMA NumberedType ==
  ASSUME TypeOK
  PROVE  /\ target.exp \in Int /\ cmdsn \in Int
         /\ \A t \in Threads : number[t] \in Int
         /\ Numbered \subseteq Pdu
         /\ \A p \in Numbered : p.cmdsn \in Int /\ ~p.immediate
<1>1. Range(outqueue) \subseteq Pdu /\ current \in Pdu \cup {None}
      /\ target.has \subseteq Pdu
  BY RangeType DEF TypeOK
<1>2. Numbered \subseteq Pdu /\ \A p \in Numbered : ~p.immediate
  BY <1>1 DEF Numbered, Unsent, Ahead
<1> QED
  BY <1>2 DEF TypeOK, Pdu

\* Once disturbed, disturbed for good; and no callback of an undisturbed
\* history reports a failure.
LEMMA CallbackUndisturbed ==
  ASSUME NEW ps, answered' = answered \cup {<<p.t, p.gen, -1>> : p \in ps},
         Undisturbed'
  PROVE  ps = {}
<1>1. ASSUME NEW p \in ps PROVE FALSE
  <2>1. <<p.t, p.gen, -1>> \in answered'
    OBVIOUS
  <2>2. <<p.t, p.gen, -1>>[3] = 0
    BY <2>1 DEF Undisturbed
  <2> QED
    BY <2>2
<1> QED
  BY <1>1

LEMMA NextUndisturbed ==
  ASSUME TypeOK, Control, [Next]_vars, Undisturbed'
  PROVE  Undisturbed
<1>1. ticks = 0
  BY NextLate DEF Undisturbed, TypeOK
<1>2. answered \subseteq answered'
  <2>1. ASSUME NEW t \in Threads,
               \/ Begin(t) \/ Enqueue(t) \/ Silent(t) \/ CancelFirst(t)
               \/ Clean(t) \/ LoopTimeout(t)
        PROVE  answered \subseteq answered'
    <3>1. CASE Begin(t) \/ Enqueue(t)
      BY <3>1 DEF Begin, Enqueue, history
    <3>2. CASE Silent(t)
      BY <3>2, SilentEffect
    <3>3. CASE CancelFirst(t) \/ Clean(t)
      BY <3>3, CancelStepsEffect DEF CallbackStep
    <3>4. CASE LoopTimeout(t)
      BY <3>4, LoopTimeoutStep DEF CallbackStep
    <3> QED
      BY <2>1, <3>1, <3>2, <3>3, <3>4
  <2>2. CASE Read
    BY <2>2, ReadStep DEF CallbackStep
  <2>3. CASE Pop \/ Send \/ Answer \/ TimePasses \/ SilentService
    BY <2>3, SilentServiceEffect DEF Pop, Send, Answer, TimePasses, history
  <2> QED
    BY <2>1, <2>2, <2>3, NextSteps
<1> QED
  BY <1>1, <1>2 DEF Undisturbed

\* Steps that neither take a number nor pass one on.
LEMMA HeldStays ==
  ASSUME Held, target'.exp = target.exp, cmdsn' = cmdsn,
         Taken' = Taken, \A t \in Taken : number'[t] = number[t],
         Numbered' = Numbered,
         current' # None => current' \in Range(waitpdu')
  PROVE  Held'
BY DEF Held

\* TakeNumber: the next number is held by the thread that takes it.
LEMMA TakeHeld ==
  ASSUME TypeOK, Control, Held, NEW t \in Threads, TakeNumber(t)
  PROVE  Held'
<1>1. /\ pc[t] = "take" /\ pc' = [pc EXCEPT ![t] = "queue"]
      /\ number' = [number EXCEPT ![t] = cmdsn]
      /\ cmdsn' = IF call[t].immediate THEN cmdsn ELSE cmdsn + 1
      /\ UNCHANGED <<call, outqueue, waitpdu, current, target>>
  BY DEF TakeNumber, NextNumber, wire
<1>2. pc \in [Threads -> CallerPcs] /\ number \in [Threads -> Int]
  BY DEF TypeOK
<1>3. Numbered' = Numbered
  BY <1>1 DEF Numbered, Unsent, Ahead
<1>4. t \notin Taken /\ \A u \in Taken : number'[u] = number[u]
  BY <1>1, <1>2 DEF Taken
<1>5. CASE call[t].immediate
  <2>1. Taken' = Taken
    BY <1>1, <1>2, <1>5 DEF Taken
  <2> QED
    BY <1>1, <1>3, <1>4, <1>5, <2>1, HeldStays DEF Held
<1>6. CASE ~call[t].immediate
  <2>1. Taken' = Taken \cup {t} /\ number'[t] = cmdsn /\ cmdsn' = cmdsn + 1
    BY <1>1, <1>2, <1>6 DEF Taken
  <2>2. target'.exp = target.exp /\ target.exp \in Int /\ cmdsn \in Int
        /\ (\A u \in Taken : number[u] \in Int)
        /\ \A p \in Numbered : p.cmdsn \in Int
    BY <1>1, NumberedType DEF Taken
  <2>3. /\ target'.exp <= cmdsn'
        /\ \A u \in Taken' : number'[u] \in target'.exp .. cmdsn' - 1
        /\ \A p \in Numbered' : p.cmdsn \in target'.exp .. cmdsn' - 1
    BY <1>3, <1>4, <2>1, <2>2 DEF Held
  <2>4. /\ \A u, v \in Taken' : number'[u] = number'[v] => u = v
        /\ \A u \in Taken' : \A p \in Numbered' : number'[u] # p.cmdsn
        /\ \A p, q \in Numbered' : p.cmdsn = q.cmdsn => p = q
    BY <1>3, <1>4, <2>1, <2>2 DEF Held
  <2>5. ASSUME NEW n \in target'.exp .. cmdsn' - 1
        PROVE  \/ \E u \in Taken' : number'[u] = n
               \/ \E p \in Numbered' : p.cmdsn = n
    <3>1. n = cmdsn \/ n \in target.exp .. cmdsn - 1
      BY <2>1, <2>2
    <3> QED
      BY <1>3, <1>4, <2>1, <3>1 DEF Held
  <2>6. current' # None => current' \in Range(waitpdu')
    BY <1>1 DEF Held
  <2> QED
    BY <2>3, <2>4, <2>5, <2>6 DEF Held
<1> QED
  BY <1>5, <1>6

\* Enqueue: the thread passes its number to its PDU.
LEMMA EnqueueHeld ==
  ASSUME TypeOK, Control, Held, NEW t \in Threads, Enqueue(t)
  PROVE  Held'
<1>1. /\ pc[t] = "queue" /\ number' = [number EXCEPT ![t] = 0]
      /\ UNCHANGED <<call, cmdsn, waitpdu, current, target>>
  BY DEF Enqueue, counters, wire
<1>2. \A u \in Threads : /\ u # t => pc'[u] = pc[u] /\ number'[u] = number[u]
                         /\ pc'[t] # "queue"
  <2>1. PICK l \in {"kick", "signal", "wait"} : pc' = [pc EXCEPT ![t] = l]
    BY DEF Enqueue
  <2>2. pc \in [Threads -> CallerPcs] /\ number \in [Threads -> Int]
    BY DEF TypeOK
  <2> QED
    BY <1>1, <2>1, <2>2
<1>3. Taken' = Taken \ {t}
  BY <1>1, <1>2 DEF Taken
<1>4. Range(outqueue') = Range(outqueue) \cup {NewPdu(t)}
  <2>1. PICK i \in 1 .. (Len(outqueue) + 1) :
          /\ Len(outqueue') = Len(outqueue) + 1
          /\ \A k \in 1 .. (Len(outqueue) + 1) :
               outqueue'[k] = IF k < i THEN outqueue[k]
                              ELSE IF k = i THEN NewPdu(t)
                              ELSE outqueue[k - 1]
    BY EnqueueEffect
  <2>2. /\ outqueue \in Seq(Pdu) /\ outqueue' \in Seq(Pdu)
    BY EnqueueEffect DEF TypeOK
  <2>3. /\ DOMAIN outqueue = 1 .. Len(outqueue) /\ Len(outqueue) \in Nat
        /\ DOMAIN outqueue' = 1 .. (Len(outqueue) + 1)
    BY <2>1, <2>2, LenProperties
  <2>4. ASSUME NEW k \in DOMAIN outqueue' PROVE
          outqueue'[k] \in Range(outqueue) \cup {NewPdu(t)}
    <3>1. CASE k < i
      BY <2>1, <2>3, <2>4, <3>1 DEF Range
    <3>2. CASE k = i
      BY <2>1, <2>3, <2>4, <3>2
    <3>3. CASE k > i
      <4>1. k - 1 \in DOMAIN outqueue /\ outqueue'[k] = outqueue[k - 1]
        BY <2>1, <2>3, <2>4, <3>3
      <4> QED
        BY <4>1 DEF Range
    <3> QED
      BY <2>3, <3>1, <3>2, <3>3
  <2>5. ASSUME NEW k \in DOMAIN outqueue PROVE outqueue[k] \in Range(outqueue')
    <3>1. CASE k < i
      <4>1. k \in DOMAIN outqueue' /\ outqueue'[k] = outqueue[k]
        BY <2>1, <2>3, <2>5, <3>1
      <4> QED
        BY <4>1 DEF Range
    <3>2. CASE ~(k < i)
      <4>1. k + 1 \in DOMAIN outqueue' /\ outqueue'[k + 1] = outqueue[(k + 1) - 1]
        BY <2>1, <2>3, <2>5, <3>2
      <4>2. (k + 1) - 1 = k
        BY <2>3, <2>5
      <4> QED
        BY <4>1, <4>2 DEF Range
    <3> QED
      BY <3>1, <3>2
  <2>6. NewPdu(t) \in Range(outqueue')
    BY <2>1, <2>3 DEF Range
  <2> QED
    BY <2>4, <2>5, <2>6 DEF Range
<1>5. NewPdu(t).immediate = call[t].immediate
      /\ (~call[t].immediate => NewPdu(t).cmdsn = number[t])
  BY DEF NewPdu
<1>6. current' # None => current' \in Range(waitpdu')
  BY <1>1 DEF Held
<1>7. CASE call[t].immediate
  <2>1. Numbered' = Numbered /\ Taken' = Taken
    BY <1>1, <1>3, <1>4, <1>5, <1>7 DEF Numbered, Unsent, Ahead, Taken
  <2>2. \A u \in Taken : number'[u] = number[u]
    BY <1>2, <1>7 DEF Taken
  <2> QED
    BY <1>1, <1>6, <2>1, <2>2, HeldStays
<1>8. CASE ~call[t].immediate
  <2>1. Numbered' = Numbered \cup {NewPdu(t)}
    BY <1>1, <1>4, <1>5, <1>8 DEF Numbered, Unsent, Ahead
  <2>2. t \in Taken /\ NewPdu(t).cmdsn = number[t]
    BY <1>1, <1>5, <1>8 DEF Taken
  <2>3. \A u \in Taken' : u # t /\ u \in Taken /\ number'[u] = number[u]
    BY <1>2, <1>3 DEF Taken
  <2>4. UNCHANGED <<cmdsn, target>>
    BY <1>1
  <2> HIDE DEF Numbered, Taken, NewPdu
  <2>5. /\ \A u \in Taken' : number'[u] \in target'.exp .. cmdsn' - 1
        /\ \A p \in Numbered' : p.cmdsn \in target'.exp .. cmdsn' - 1
        /\ target'.exp <= cmdsn'
    BY <2>1, <2>2, <2>3, <2>4 DEF Held
  <2>6. /\ \A u, v \in Taken' : number'[u] = number'[v] => u = v
        /\ \A u \in Taken' : \A p \in Numbered' : number'[u] # p.cmdsn
        /\ \A p, q \in Numbered' : p.cmdsn = q.cmdsn => p = q
    BY <2>1, <2>2, <2>3 DEF Held
  <2>7. ASSUME NEW n \in target'.exp .. cmdsn' - 1
        PROVE  \/ \E u \in Taken' : number'[u] = n
               \/ \E p \in Numbered' : p.cmdsn = n
    <3>1. \/ \E u \in Taken : number[u] = n
          \/ \E p \in Numbered : p.cmdsn = n
      BY <2>4 DEF Held
    <3>2. ASSUME NEW u \in Taken, number[u] = n
          PROVE  \/ \E v \in Taken' : number'[v] = n
                 \/ \E p \in Numbered' : p.cmdsn = n
      <4>1. CASE u = t
        BY <2>1, <2>2, <3>2, <4>1
      <4>2. CASE u # t
        BY <1>3, <2>3, <3>2, <4>2
      <4> QED
        BY <4>1, <4>2
    <3> QED
      BY <2>1, <3>1, <3>2
  <2> QED
    BY <1>6, <2>5, <2>6, <2>7 DEF Held
<1> QED
  BY <1>7, <1>8

\* Pop: the command keeps its number while it is written.
LEMMA PopHeld ==
  ASSUME TypeOK, Control, Held, Pop
  PROVE  Held'
<1>1. UNCHANGED <<pc, call, number, cmdsn, target>>
  BY DEF Pop, callers, counters, wire
<1>2. /\ current = None /\ current' # None
      /\ 1 \in DOMAIN outqueue /\ current' = outqueue[1]
      /\ \A k \in DOMAIN outqueue' :
           k + 1 \in DOMAIN outqueue /\ outqueue'[k] = outqueue[k + 1]
      /\ \A k \in DOMAIN outqueue :
           k = 1 \/ (k - 1 \in DOMAIN outqueue' /\ outqueue'[k - 1] = outqueue[k])
      /\ Range(waitpdu') = Range(waitpdu) \cup {current'}
  BY PopEffect, NoneIsNoPdu
<1>3. Range(outqueue) = Range(outqueue') \cup {current'}
  <2>1. \A k \in DOMAIN outqueue : outqueue[k] \in Range(outqueue') \cup {current'}
    <3>1. ASSUME NEW k \in DOMAIN outqueue
          PROVE  outqueue[k] \in Range(outqueue') \cup {current'}
      <4>1. k = 1 \/ (k - 1 \in DOMAIN outqueue' /\ outqueue'[k - 1] = outqueue[k])
        BY <1>2
      <4> QED
        BY <1>2, <4>1 DEF Range
    <3> QED
      BY <3>1
  <2>2. Range(outqueue') \subseteq Range(outqueue) /\ current' \in Range(outqueue)
    BY <1>2 DEF Range
  <2> QED
    BY <2>1, <2>2 DEF Range
<1>4. Unsent' = Unsent
  BY <1>2, <1>3 DEF Unsent
<1>5. Taken' = Taken /\ Numbered' = Numbered
  BY <1>1, <1>4 DEF Taken, Numbered, Ahead
<1> QED
  BY <1>1, <1>2, <1>5, HeldStays

\* Send: the target gets the command, and may expect a later number then.
LEMMA SendHeld ==
  ASSUME TypeOK, Control, Ways, Held, Send
  PROVE  Held'
<1>1. UNCHANGED <<pc, call, number, cmdsn, outqueue>>
  BY DEF Send, callers, counters
<1>2. /\ current \in Pdu /\ current # None /\ current' = None
      /\ target'.has = target.has \cup {current}
      /\ GotNumbers \subseteq Int
      /\ target'.exp \in Int /\ target.exp <= target'.exp
      /\ \A k \in target.exp .. target'.exp - 1 : k \in GotNumbers
  BY SendEffect, NoneIsNoPdu DEF Got
<1>3. /\ target.exp \in Int /\ cmdsn \in Int
      /\ (\A t \in Threads : number[t] \in Int)
      /\ \A p \in Numbered : p.cmdsn \in Int
  BY NumberedType
<1>4. Taken' = Taken
  BY <1>1 DEF Taken
<1>5. ASSUME NEW k \in target.exp .. target'.exp - 1
      PROVE  \E q \in Numbered \cap Sent : q.cmdsn = k
  <2>1. PICK q \in target.has \cup {current} : ~q.immediate /\ q.cmdsn = k
    BY <1>2 DEF GotNumbers, Got
  <2>2. q \in Numbered
    BY <1>2, <1>3, <2>1 DEF Numbered, Unsent, Ahead
  <2> QED
    BY <1>2, <2>1, <2>2 DEF Sent
<1>6. \A p \in Range(outqueue) : p \notin Sent
  BY DEF Ways, OnePlace, Range, Same
<1>7. Numbered' \subseteq Numbered
  <2>1. ASSUME NEW p \in Ahead' PROVE p \in Numbered
    <3>1. /\ p \in target.has \cup {current} /\ ~p.immediate
          /\ p.cmdsn >= target'.exp
      BY <1>2, <2>1 DEF Ahead
    <3>2. p \in Pdu
      BY <1>2, <3>1 DEF TypeOK
    <3>3. p.cmdsn >= target.exp
      BY <1>2, <1>3, <3>1, <3>2 DEF Pdu
    <3> QED
      BY <1>2, <3>1, <3>3 DEF Numbered, Unsent, Ahead
  <2> QED
    BY <1>1, <1>2, <2>1 DEF Numbered, Unsent
<1>8. \A p \in Numbered' : p.cmdsn >= target'.exp
  <2>1. ASSUME NEW p \in Unsent', ~(p.cmdsn >= target'.exp) PROVE FALSE
    <3>1. p \in Range(outqueue) /\ p \in Numbered
      BY <1>1, <1>2, <1>7, <2>1 DEF Unsent, Numbered
    <3>2. p.cmdsn \in target.exp .. target'.exp - 1
      BY <1>2, <1>3, <2>1, <3>1 DEF Held
    <3>3. PICK q \in Numbered \cap Sent : q.cmdsn = p.cmdsn
      BY <1>5, <3>2
    <3>4. p = q
      BY <3>1, <3>3 DEF Held
    <3> QED
      BY <1>6, <3>1, <3>3, <3>4
  <2> QED
    BY <2>1 DEF Numbered, Ahead
<1>9. \A t \in Taken : number[t] >= target'.exp
  <2>1. ASSUME NEW t \in Taken, ~(number[t] >= target'.exp) PROVE FALSE
    <3>1. number[t] \in target.exp .. target'.exp - 1
      BY <1>2, <1>3, <2>1 DEF Held, Taken
    <3> QED
      BY <1>5, <3>1 DEF Held
  <2> QED
    BY <2>1
<1>10. target'.exp <= cmdsn
  <2>1. SUFFICES ASSUME ~(target'.exp <= cmdsn) PROVE FALSE
    OBVIOUS
  <2>2. cmdsn \in target.exp .. target'.exp - 1
    BY <1>2, <1>3, <2>1 DEF Held
  <2>3. PICK q \in Numbered : q.cmdsn = cmdsn
    BY <1>5, <2>2
  <2> QED
    BY <1>3, <2>3 DEF Held
<1>11. ASSUME NEW n \in target'.exp .. cmdsn - 1
       PROVE  \/ \E t \in Taken : number[t] = n
              \/ \E p \in Numbered' : p.cmdsn = n
  <2>1. n \in target.exp .. cmdsn - 1
    BY <1>2, <1>3
  <2>2. ASSUME NEW p \in Numbered, p.cmdsn = n PROVE p \in Numbered'
    <3>1. p.cmdsn >= target'.exp
      BY <1>2, <1>3, <2>2
    <3>2. CASE p \in Range(outqueue) /\ ~p.immediate
      BY <1>1, <3>2 DEF Numbered, Unsent
    <3>3. CASE p \in target.has \cup {current} /\ ~p.immediate
      BY <1>2, <3>1, <3>3 DEF Numbered, Ahead
    <3> QED
      BY <2>2, <3>2, <3>3 DEF Numbered, Unsent, Ahead
  <2> QED
    BY <2>1, <2>2 DEF Held
<1>12. \A p \in Numbered' : p.cmdsn \in target'.exp .. cmdsn - 1
  BY <1>2, <1>3, <1>7, <1>8 DEF Held
<1>13. \A t \in Taken : number[t] \in target'.exp .. cmdsn - 1
  BY <1>2, <1>3, <1>9 DEF Held
<1>14. /\ \A t, u \in Taken : number[t] = number[u] => t = u
       /\ \A t \in Taken : \A p \in Numbered' : number[t] # p.cmdsn
       /\ \A p, q \in Numbered' : p.cmdsn = q.cmdsn => p = q
  BY <1>7 DEF Held
<1> QED
  BY <1>1, <1>2, <1>4, <1>10, <1>11, <1>12, <1>13, <1>14 DEF Held

\* Cancelling finds nothing to cancel, in an undisturbed history.
LEMMA CancelHeld ==
  ASSUME TypeOK, Control, Held, NEW t \in Threads, CancelFirst(t) \/ Clean(t),
         Undisturbed'
  PROVE  Held'
<1>1. /\ CancelPdus
      /\ pc[t] \in {"cancel", "return"}
      /\ \E l \in {"take", "failed"} : pc' = [pc EXCEPT ![t] = l]
      /\ UNCHANGED <<call, number, target>>
  BY DEF CancelFirst, Clean, wire
<1>2. Taken' = Taken
  BY <1>1 DEF Taken, TypeOK
<1>3. outqueue \in Seq(Pdu) /\ cmdsn \in Int
      /\ DOMAIN outqueue = 1 .. Len(outqueue)
  BY LenProperties DEF TypeOK
<1>4. Commands = {} => Cardinality(Commands) = 0
  BY FS_EmptySet
<1>5. Range(outqueue) \cup Range(waitpdu) = {}
  BY <1>1, CallbackUndisturbed DEF CancelPdus, Callbacks
<1>6. Commands = {}
  BY <1>5 DEF Commands, Range
<1>7. current = None /\ current' = None
  BY <1>1, <1>5 DEF Held, CancelPdus
<1>8. cmdsn' = cmdsn /\ Range(outqueue') = {}
  BY <1>1, <1>3, <1>4, <1>6 DEF CancelPdus, Range
<1>9. Numbered' = Numbered
  BY <1>1, <1>5, <1>7, <1>8 DEF Numbered, Unsent, Ahead
<1> QED
  BY <1>1, <1>2, <1>7, <1>8, <1>9, HeldStays

\* The steps that leave every number where it is.
LEMMA OtherHeld ==
  ASSUME TypeOK, Control, Ways, Held,
         \/ \E t \in Threads : Begin(t) \/ (Silent(t) /\ ~TakeNumber(t))
         \/ Read \/ Answer \/ SilentService
  PROVE  Held'
<1>1. pc \in [Threads -> CallerPcs] /\ call \in [Threads -> Calls \cup {NoCall}]
  BY DEF TypeOK
<1>2. ASSUME NEW t \in Threads, Begin(t) PROVE Held'
  <2>1. /\ UNCHANGED <<number, cmdsn, outqueue, waitpdu, current, target>>
        /\ pc[t] = "idle"
    BY <1>2 DEF Begin, counters, wire
  <2>2. PICK c \in Calls, l \in {"failed", "cancel", "take"} :
          call' = [call EXCEPT ![t] = c] /\ pc' = [pc EXCEPT ![t] = l]
    BY <1>2 DEF Begin
  <2>3. Taken' = Taken
    BY <1>1, <2>1, <2>2 DEF Taken
  <2>4. Numbered' = Numbered
    BY <2>1 DEF Numbered, Unsent, Ahead
  <2>5. current' # None => current' \in Range(waitpdu')
    BY <2>1 DEF Held
  <2> QED
    BY <2>1, <2>3, <2>4, <2>5, HeldStays
<1>3. ASSUME NEW t \in Threads, Silent(t), ~TakeNumber(t) PROVE Held'
  <2>1. UNCHANGED <<outqueue, waitpdu, current, target>>
    BY <1>3, SilentEffect
  <2>2. UNCHANGED <<number, cmdsn>> /\ pc[t] # "queue"
    BY <1>3 DEF Silent, Signal, Kick, WaitSem, Flushed, LoopDone, LoopFails,
                StartFails, Return, AtTop, counters
  <2>3. \E c, l : /\ l # "queue"
                  /\ call' = [call EXCEPT ![t] = c] /\ pc' = [pc EXCEPT ![t] = l]
    <3>1. CASE StartFails(t) \/ Return(t)
      BY <3>1 DEF StartFails, Return, Leave
    <3>2. CASE ~(StartFails(t) \/ Return(t))
      <4>1. PICK l \in {"wait", "flush", "loop", "return"} :
              pc' = [pc EXCEPT ![t] = l]
        BY <1>3, <3>2 DEF Silent, Signal, Kick, WaitSem, Flushed, LoopDone, LoopFails
      <4>2. call' = call
        BY <1>3, <3>2 DEF Silent, Signal, Kick, WaitSem, Flushed, LoopDone, LoopFails
      <4>3. call' = [call EXCEPT ![t] = call[t]]
        BY <1>1, <4>2
      <4> QED
        BY <4>1, <4>3
    <3> QED
      BY <3>1, <3>2
  <2>4. Taken' = Taken
    BY <1>1, <2>2, <2>3 DEF Taken
  <2>5. Numbered' = Numbered
    BY <2>1 DEF Numbered, Unsent, Ahead
  <2>6. current' # None => current' \in Range(waitpdu')
    BY <2>1 DEF Held
  <2> QED
    BY <2>1, <2>2, <2>4, <2>5, <2>6, HeldStays
<1>4. CASE Read
  <2>1. UNCHANGED <<pc, call, number, cmdsn, outqueue, current, target>>
    BY <1>4 DEF Read, callers
  <2>2. Taken' = Taken /\ Numbered' = Numbered
    BY <2>1 DEF Taken, Numbered, Unsent, Ahead
  <2>3. current' # None => current' \in Range(waitpdu')
    <3>1. /\ 1 \in DOMAIN replies
          /\ \A p \in Range(waitpdu) :
               <<p.t, p.gen>> # replies[1].to => p \in Range(waitpdu')
      BY <1>4, ReadStep
    <3>2. current # None => replies[1].to # <<current.t, current.gen>>
      BY <3>1 DEF Ways, OnePlace
    <3> QED
      BY <2>1, <3>1, <3>2 DEF Held
  <2> QED
    BY <2>1, <2>2, <2>3, HeldStays
<1>5. CASE Answer
  <2>1. UNCHANGED <<pc, call, number, cmdsn, outqueue, waitpdu, current>>
    BY <1>5 DEF Answer, callers, counters
  <2>2. PICK p \in target.has : /\ p.immediate \/ p.cmdsn < target.exp
                                /\ p \in Pdu
                                /\ target'.has = target.has \ {p}
                                /\ target'.exp = target.exp
    BY <1>5, AnswerEffect
  <2>3. p \notin Ahead
    <3>1. p.cmdsn \in Int /\ target.exp \in Int
      BY <2>2 DEF Pdu, TypeOK
    <3> QED
      BY <2>2, <3>1 DEF Ahead
  <2>4. Ahead' = Ahead
    BY <2>2, <2>3 DEF Ahead
  <2>5. Taken' = Taken /\ Numbered' = Numbered
    BY <2>1, <2>4 DEF Taken, Numbered, Unsent
  <2>6. current' # None => current' \in Range(waitpdu')
    BY <2>1 DEF Held
  <2> QED
    BY <2>1, <2>2, <2>5, <2>6, HeldStays
<1>6. CASE SilentService
  <2>1. UNCHANGED <<pc, call, number, cmdsn, outqueue, waitpdu, current, target>>
    BY <1>6, SilentServiceEffect
  <2>2. Taken' = Taken /\ Numbered' = Numbered
    BY <2>1 DEF Taken, Numbered, Unsent, Ahead
  <2>3. current' # None => current' \in Range(waitpdu')
    BY <2>1 DEF Held
  <2> QED
    BY <2>1, <2>2, <2>3, HeldStays
<1> QED
  BY <1>2, <1>3, <1>4, <1>5, <1>6

LEMMA NextHeld ==
  ASSUME TypeOK, Control, Ways, Heard, Undisturbed => Held, [Next]_vars
  PROVE  (Undisturbed => Held)'
<1> SUFFICES ASSUME Undisturbed' PROVE Held'
  OBVIOUS
<1>1. Undisturbed /\ Held
  BY NextUndisturbed
<1>2. ASSUME NEW t \in Threads, LoopTimeout(t) PROVE FALSE
  BY <1>1, <1>2 DEF Heard, Undisturbed, LoopTimeout
<1>3. ASSUME TimePasses PROVE FALSE
  BY <1>1, <1>3 DEF TimePasses, Undisturbed
<1> QED
  BY <1>1, <1>2, <1>3, NextSteps, TakeHeld, EnqueueHeld, CancelHeld, PopHeld,
     SendHeld, OtherHeld

LEMMA InitHeld == Init => Heard /\ Held
<1> SUFFICES ASSUME Init PROVE Heard /\ Held
  OBVIOUS
<1>1. Heard
  <2>1. expcmdsn = 1 /\ target.exp = 1 /\ DOMAIN replies = {}
    BY DEF Init
  <2>2. \A t \in Threads : ~frame[t].late
    BY InitFrameType, 0 \in Nat DEF Init
  <2> QED
    BY <2>1, <2>2 DEF Heard
<1>2. Taken = {} /\ Numbered = {} /\ current = None
      /\ target.exp = 1 /\ cmdsn = 1
  BY DEF Init, Taken, Numbered, Unsent, Ahead, Range
<1>3. Held
  BY <1>2 DEF Held
<1> QED
  BY <1>1, <1>3

\* As many as the numbers are the threads and commands that hold them.
LEMMA HeldCounts ==
  ASSUME TypeOK, Held
  PROVE  cmdsn - target.exp = Cardinality(Taken) + Cardinality(Numbered)
<1> DEFINE S == target.exp .. cmdsn - 1
           A == {number[t] : t \in Taken}
           B == {p.cmdsn : p \in Numbered}
           f == [t \in Taken |-> number[t]]
           g == [p \in Numbered |-> p.cmdsn]
<1>1. target.exp \in Int /\ cmdsn \in Int /\ target.exp <= cmdsn
  BY NumberedType DEF Held
<1>2. IsFiniteSet(S) /\ Cardinality(S) = cmdsn - target.exp
  BY <1>1, FS_Interval
<1>3. A \subseteq S /\ B \subseteq S /\ A \cap B = {} /\ A \cup B = S
  <2>1. A \subseteq S /\ B \subseteq S
    BY DEF Held
  <2>2. A \cap B = {}
    BY DEF Held
  <2>3. S \subseteq A \cup B
    BY DEF Held
  <2> QED
    BY <2>1, <2>2, <2>3
<1>4. IsFiniteSet(A) /\ IsFiniteSet(B)
  BY <1>2, <1>3, FS_Subset
<1>5. Cardinality(S) = Cardinality(A) + Cardinality(B)
  <2>1. Cardinality(A \cup B) = Cardinality(A) + Cardinality(B)
                                 - Cardinality(A \cap B)
    BY <1>4, FS_Union
  <2>2. Cardinality(A \cap B) = 0 /\ A \cup B = S
    BY <1>3, FS_EmptySet
  <2>3. Cardinality(A) \in Nat /\ Cardinality(B) \in Nat
    BY <1>4, FS_CardinalityType
  <2>4. Cardinality(S) = Cardinality(A) + Cardinality(B) - 0
    <3> HIDE DEF A, B, S
    <3> QED
      BY <2>1, <2>2
  <2> QED
    BY <2>3, <2>4
<1>6. f \in Injection(Taken, A) /\ f \in Surjection(Taken, A)
  <2>1. f \in [Taken -> A]
    OBVIOUS
  <2>2. \A x, y \in Taken : f[x] = f[y] => x = y
    BY DEF Held
  <2>3. \A a \in A : \E x \in Taken : f[x] = a
    OBVIOUS
  <2> QED
    BY <2>1, <2>2, <2>3 DEF Injection, Surjection, IsInjective
<1>7. g \in Injection(Numbered, B) /\ g \in Surjection(Numbered, B)
  <2>1. g \in [Numbered -> B]
    OBVIOUS
  <2>2. \A x, y \in Numbered : g[x] = g[y] => x = y
    BY DEF Held
  <2>3. \A b \in B : \E x \in Numbered : g[x] = b
    OBVIOUS
  <2> QED
    BY <2>1, <2>2, <2>3 DEF Injection, Surjection, IsInjective
<1>8. Cardinality(Taken) = Cardinality(A) /\ Cardinality(Numbered) = Cardinality(B)
  <2> HIDE DEF A, B, f, g
  <2> QED
    BY <1>4, <1>6, <1>7, FS_Injection
<1> QED
  BY <1>2, <1>5, <1>8

LEMMA HeldAccounts ==
  ASSUME TypeOK, Heard, Undisturbed => Held
  PROVE  NumbersAccounted
<1> SUFFICES ASSUME Undisturbed, Held
             PROVE  /\ target.exp .. cmdsn - 1 =
                         {number[t] : t \in Taken} \cup {p.cmdsn : p \in Numbered}
                    /\ cmdsn - target.exp = Cardinality(Taken) + Cardinality(Numbered)
                    /\ Stale => Head(outqueue).immediate
  BY DEF NumbersAccounted, Numbered
<1>1. target.exp .. cmdsn - 1 =
        {number[t] : t \in Taken} \cup {p.cmdsn : p \in Numbered}
  <2>1. \A n \in target.exp .. cmdsn - 1 :
          n \in {number[t] : t \in Taken} \cup {p.cmdsn : p \in Numbered}
    BY DEF Held
  <2>2. /\ \A t \in Taken : number[t] \in target.exp .. cmdsn - 1
        /\ \A p \in Numbered : p.cmdsn \in target.exp .. cmdsn - 1
    BY DEF Held
  <2> QED
    BY <2>1, <2>2
<1>2. ASSUME Stale, ~Head(outqueue).immediate PROVE FALSE
  <2>1. outqueue # << >> /\ Head(outqueue).cmdsn < expcmdsn
    BY <1>2 DEF Stale
  <2>2. Head(outqueue) \in Range(outqueue)
    <3>1. outqueue \in Seq(Pdu)
      BY DEF TypeOK
    <3>2. 1 \in DOMAIN outqueue /\ Head(outqueue) = outqueue[1]
      BY <2>1, <3>1, EmptySeq, LenProperties, HeadTailProperties
    <3> QED
      BY <3>2 DEF Range
  <2>3. Head(outqueue) \in Numbered
    BY <1>2, <2>2 DEF Numbered, Unsent
  <2>4. /\ Head(outqueue).cmdsn \in target.exp .. cmdsn - 1
        /\ Head(outqueue).cmdsn \in Int /\ target.exp \in Int /\ expcmdsn \in Int
    BY <2>3, NumberedType DEF Held, TypeOK
  <2> QED
    BY <2>1, <2>4 DEF Heard
<1> QED
  BY <1>1, <1>2, HeldCounts

\* For any number of threads queueing at once, and whatever the service does
\* in between: while nothing is cancelled and nothing times out, every CmdSN
\* from the one the target expects to the one the next command gets is held by
\* exactly one thread or command, and the service never takes a command at the
\* head of the queue for one the target has passed.
THEOREM NumbersAccountedCorrect == Spec => []NumbersAccounted
<1> DEFINE NumInv == Heard /\ (Undisturbed => Held)
<1>1. TypeOK /\ Control /\ Ways /\ NumInv /\ [Next]_vars
        => (TypeOK /\ Control /\ Ways /\ NumInv)'
  BY NextType, NextWays, NextHeard, NextHeld
<1>2. TypeOK /\ NumInv => NumbersAccounted
  BY HeldAccounts
<1>3. Init => TypeOK /\ Control /\ Ways /\ NumInv
  BY InitType, InitWays, InitHeld
<1> QED
  BY <1>1, <1>2, <1>3, PTL DEF Spec

=============================================================================
