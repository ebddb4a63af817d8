------------------------------ MODULE PduQueue ------------------------------
(***************************************************************************)
(* The life of an outgoing PDU of a logged-in libiscsi session over TCP,   *)
(* driven by one thread: it is built and numbered by an iscsi_*_async call *)
(* and sorted into iscsi->outqueue, becomes iscsi->outqueue_current while  *)
(* it is written, waits in iscsi->waitpdu for its reply, and is completed  *)
(* by a reply, a REJECT, a timeout, a local cancellation, a connection     *)
(* failure or the destruction of the context (lib/pdu.c, lib/socket.c,     *)
(* lib/iscsi-command.c, lib/nop.c, lib/task_mgmt.c).                       *)
(*                                                                         *)
(* The session runs with iscsi_set_noautoreconnect(iscsi, 1): a failed     *)
(* connection ends in iscsi_defer_reconnect.                               *)
(*                                                                         *)
(* The thread's call stack is `agenda': what the library and its callers   *)
(* still have to do, innermost first.  A queueing call that makes its PDU  *)
(* the head of the outqueue runs iscsi_service(POLLOUT) before it returns, *)
(* and a callback may call the library again; both push their work in      *)
(* front of the work of the functions that called them.                    *)
(***************************************************************************)
EXTENDS Serials, Lists, SequencesExt

CONSTANTS
  Reqs,           \* requests with a callback; each is used once and is its own task tag
  NoReq,          \* the task tag 0xffffffff
  Luns,           \* logical units
  InitSN,         \* the CmdSN the session starts from
  Window,         \* size of the target's command window
  MaxUnsolicited, \* bound: DATA-OUT PDUs of an unsolicited burst
  MaxData,        \* bound: DATA-OUT PDUs answering one R2T
  MaxR2T,         \* bound: R2Ts per command
  MaxPing,        \* bound: NOP-Ins that ask for an answer
  Timeouts,       \* iscsi_set_timeout was called: PDUs may expire
  SocketErrors,   \* send() and recv() may fail
  EarlyStatus,    \* the target may answer before it has all the data
  Rejects,        \* the target may send REJECT, or break the protocol
  SpinLocks,      \* iscsi_lock is a real spinlock (builds with pthreads)
  Calls,          \* API calls the application makes
  CallbackCalls   \* API calls it makes from inside a callback

ScsiKinds == {"read", "write", "other_write"}

Kinds == ScsiKinds \cup {"nop", "tmf", "logout"}

ApiCalls == Kinds \cup {"cancel_task", "cancel_all", "reset", "lun_reset", "destroy"}

ASSUME ConstantsAssumption ==
  /\ NoReq \notin Reqs
  /\ Luns \subseteq Nat
  /\ InitSN \in Serial
  /\ Window \in 1 .. (Half - 1)
  /\ {MaxUnsolicited, MaxData, MaxR2T, MaxPing} \subseteq Nat
  /\ {Timeouts, SocketErrors, EarlyStatus, Rejects, SpinLocks} \subseteq BOOLEAN
  /\ Calls \subseteq ApiCalls
  /\ CallbackCalls \subseteq Calls

VARIABLES
  outqueue,            \* iscsi->outqueue
  current,             \* iscsi->outqueue_current, being written
  waitpdu,             \* iscsi->waitpdu
  leaked,              \* PDUs taken out of a list that nobody completed or freed
  cmdsn,               \* iscsi->cmdsn, the next CmdSN to hand out
  expcmdsn, maxcmdsn,  \* the target's window as last heard of
  is_corked,           \* a Logout was sent
  is_loggedin,
  reconnect_deferred,
  broken,              \* the socket has failed
  agenda,              \* the call stack of the thread
  rq,                  \* what the application asked for, per request
  results,             \* the callbacks each request has had, in order
  atTarget,            \* requests the target has received and not answered
  tgtExp,              \* the CmdSN the target expects next
  owed,                \* DataSNs the target is waiting for, per request
  r2ts,                \* R2Ts the target has sent, per request
  pings                \* NOP-Ins asking for an answer the target has sent

initiatorVars == <<outqueue, current, waitpdu, leaked, cmdsn, is_corked, is_loggedin,
                   reconnect_deferred, rq, results>>
windowVars == <<expcmdsn, maxcmdsn>>
targetVars == <<atTarget, tgtExp, owed, r2ts, pings>>
vars == <<initiatorVars, windowVars, targetVars, broken, agenda>>

-----------------------------------------------------------------------------
(* PDUs. *)

Ops == {"SCSI", "NOP", "DATA", "TMF", "LOGOUT", "PONG"}

\* struct iscsi_pdu: opcode, task tag, CmdSN, DataSN of a DATA-OUT.  Only
\* the answer to a ping of the target belongs to no request.
Pdu ==
  {p \in [op : Ops, req : Reqs \cup {NoReq}, cmdsn : Serial, datasn : Nat] :
     p.op # "PONG" => p.req \in Reqs}

NewPdu(op, r, sn, dsn) == [op |-> op, req |-> r, cmdsn |-> sn, datasn |-> dsn]

NoPdu == NewPdu("none", NoReq, 0, 0)

\* ISCSI_PDU_IMMEDIATE; the answer to a target's NOP-In ("PONG") has it too.
Immediate(p) == p.op \in {"TMF", "LOGOUT", "PONG"}

\* The PDUs that consume a CmdSN: not immediate and not DATA-OUT.
Numbered(p) == p.op \in {"SCSI", "NOP"}

\* ISCSI_PDU_DELETE_WHEN_SENT: never enters waitpdu and has no callback.
DeleteWhenSent(p) == p.op \in {"DATA", "PONG"}

\* ISCSI_PDU_CORK_WHEN_SENT.
CorkWhenSent(p) == p.op = "LOGOUT"

\* PDUs that point to a scsi_task.
HasTask(p) == p.op \in {"SCSI", "DATA"}

\* The requests whose own PDU (not a DATA-OUT) is in the list.
Owners(s) == {s[i].req : i \in {j \in DOMAIN s : ~DeleteWhenSent(s[j])}}

\* Mutants of Renumber: the PDUs behind keep their CmdSN; those in front
\* are shifted too.
RenumberNothing(s, X) == s

RenumberEverything(s, X) ==
  [i \in DOMAIN s |->
     [s[i] EXCEPT !.cmdsn = SNMinus(@, Cardinality({j \in X : Numbered(s[j])}))]]

\* How many of the PDUs of s at the indices X give their CmdSN back, as a
\* uint32_t.
GivenBack(s, X) == Cardinality({i \in X : Numbered(s[i])}) % Modulus

\* The cmdsn_gap loop shared by iscsi_timeout_scan and iscsi_cancel_lun_pdus:
\* every PDU moves down by the numbered PDUs taken out in front of it.
Renumber(s, X) ==
  [i \in DOMAIN s |->
     [s[i] EXCEPT !.cmdsn = SNMinus(@, GivenBack(s, {j \in X : j < i}))]]

-----------------------------------------------------------------------------
(* The call stack. *)

Steps == {"write", "scan_out", "scan_wait", "data", "callback", "finish",
          "finish_reject", "fail", "hang", "undefined", "destroyed"}

\* One entry: what to do, for which request, from which DataSN, how often.
Frame ==
  {f \in [do : Steps, req : Reqs \cup {NoReq}, datasn : Nat, left : Nat] :
     f.do = "data" => f.req \in Reqs /\ f.left > 0}

Do(step) == [do |-> step, req |-> NoReq, datasn |-> 0, left |-> 0]

DoFor(step, r) == [do |-> step, req |-> r, datasn |-> 0, left |-> 0]

\* The loop of iscsi_send_data_out with n DATA-OUT PDUs still to queue.
SendData(r, dsn, n) ==
  IF n = 0 THEN <<>>
  ELSE <<[do |-> "data", req |-> r, datasn |-> dsn, left |-> n]>>

\* iscsi_tcp_service(iscsi, 0): iscsi_timeout_scan, which finds nothing if
\* no PDU has a timeout.
ServiceTick == IF Timeouts THEN <<Do("scan_out"), Do("scan_wait")>> ELSE <<>>

\* iscsi_tcp_service(iscsi, POLLOUT).
ServicePollout == <<Do("write")>> \o ServiceTick

\* An application callback is running (only kept when it may call back).
CallbackFrame == IF CallbackCalls = {} THEN <<>> ELSE <<Do("callback")>>

Doing(step) == agenda # <<>> /\ Head(agenda).do = step

\* The application's turn: between two service calls, or in a callback,
\* which stays on the stack until it returns.
MayCall(c) ==
  /\ c \in Calls
  /\ agenda = <<>> \/ (Doing("callback") /\ c \in CallbackCalls)

-----------------------------------------------------------------------------
(* Queueing. *)

\* The CmdSN a PDU is queued with: an immediate PDU takes over the one of
\* the first PDU in the queue that is not a DATA-OUT.
QueueSN(q, p) ==
  LET firsts == {i \in DOMAIN q : /\ q[i].op # "DATA"
                                  /\ \A j \in 1 .. (i - 1) : q[j].op = "DATA"}
  IN  IF Immediate(p) /\ firsts # {} THEN {q[i].cmdsn : i \in firsts}
                                     ELSE {p.cmdsn}

\* Mutant of GoesBefore: PDUs of the same CmdSN are kept last in, first out.
GoesBeforeLifo(p, c) ==
  \/ SerialCompare(p.cmdsn, c.cmdsn) <= 0
  \/ Immediate(p) /\ ~Immediate(c)

\* The insertion loop stops at c.
GoesBefore(p, c) ==
  \/ SerialCompare(p.cmdsn, c.cmdsn) < 0
  \/ Immediate(p) /\ ~Immediate(c)

InsertionPoint(q, p, i) ==
  /\ i <= Len(q) => GoesBefore(p, q[i])
  /\ \A j \in 1 .. (i - 1) : ~GoesBefore(p, q[j])

\* iscsi_add_to_outqueue: sort p into the queue q; if it became the head,
\* service the socket before returning to the callers.
AddToOutqueue(q, p, callers) ==
  \E sn \in QueueSN(q, p), i \in 1 .. (Len(q) + 1) :
    LET np == [p EXCEPT !.cmdsn = sn] IN
    /\ InsertionPoint(q, np, i)
    /\ outqueue' = InsertAt(q, i, np)
    /\ agenda' = (IF i = 1 THEN ServicePollout ELSE <<>>) \o callers

-----------------------------------------------------------------------------
(* Completion. *)

\* One callback for each request of the set.
Complete(R, status) ==
  results' = [r \in Reqs |->
                IF r \in R THEN Append(results[r], status) ELSE results[r]]

\* iscsi_tcp_free_pdu clears outqueue_current if it points to the PDU.
FreePdu(p) == current' = IF current = p THEN NoPdu ELSE current

\* Mutant of CmdSNWithout: immediate and DATA-OUT PDUs give back one too.
CmdSNWithoutAll(X) == SNMinus(cmdsn, Cardinality(X))

\* iscsi->cmdsn once the numbered PDUs of outqueue at the indices X have
\* given their CmdSNs back.
CmdSNWithout(X) == SNMinus(cmdsn, GivenBack(outqueue, X))

\* Mutants of CompleteAll: one of the two lists is forgotten.
CompleteQueued == Complete(Owners(outqueue), "CANCELLED")

CompleteWaiting == Complete(Owners(waitpdu), "CANCELLED")

\* The callbacks of iscsi_cancel_pdus.
CompleteAll == Complete(Owners(outqueue) \cup Owners(waitpdu), "CANCELLED")

\* Mutant of CancelWaiting: the list keeps the PDUs it has completed.
CancelKeepsWaiting ==
  /\ UNCHANGED <<waitpdu, current>>
  /\ cmdsn' = CmdSNWithout(DOMAIN outqueue)
  /\ CompleteAll

\* iscsi_cancel_pdus: everything queued or waiting is completed and freed;
\* a DATA-OUT or PONG that is being written survives.
CancelWaiting ==
  /\ waitpdu' = <<>>
  /\ current' = IF current \in ToSet(waitpdu) THEN NoPdu ELSE current
  /\ cmdsn' = CmdSNWithout(DOMAIN outqueue)
  /\ CompleteAll

CancelPdus == outqueue' = <<>> /\ CancelWaiting

\* iscsi_service_reconnect_if_loggedin with no_auto_reconnect set: the first
\* failure defers the reconnect, which cancels everything; later ones, or
\* one after the logout, only make iscsi_service return -1.
ServiceFails(callers) ==
  /\ agenda' = callers
  /\ IF is_loggedin /\ ~reconnect_deferred
     THEN reconnect_deferred' = TRUE /\ CancelPdus
     ELSE UNCHANGED <<reconnect_deferred, outqueue, waitpdu, current, cmdsn, results>>

-----------------------------------------------------------------------------
(* Calls of the application. *)

DataSNs(n) == [k \in 1 .. n |-> k - 1]

\* iscsi_scsi_command_async.  A data-out command may have a train of
\* unsolicited DATA-OUTs to queue behind itself (InitialR2T=No).
CommandAsync(r, kind, lun) ==
  /\ MayCall(kind)
  /\ rq[r].kind = "unused" /\ is_loggedin
  /\ rq' = [rq EXCEPT ![r] = [kind |-> kind, lun |-> lun]]
  /\ cmdsn' = SNPlus(cmdsn, 1)
  /\ \E n \in IF kind = "read" THEN {0} ELSE 0 .. MaxUnsolicited :
       /\ owed' = [owed EXCEPT ![r] = DataSNs(n)]
       /\ AddToOutqueue(outqueue, NewPdu("SCSI", r, cmdsn, 0), SendData(r, 0, n) \o agenda)
  /\ UNCHANGED <<leaked, current, waitpdu, windowVars, is_corked, is_loggedin,
                 reconnect_deferred, broken, results, atTarget, tgtExp, r2ts, pings>>

\* Mutant of NopOutAsync: iscsi->cmdsn is not advanced.
NopOutAsyncReusesCmdSN(r) ==
  /\ MayCall("nop")
  /\ rq[r].kind = "unused" /\ is_loggedin
  /\ rq' = [rq EXCEPT ![r].kind = "nop"]
  /\ AddToOutqueue(outqueue, NewPdu("NOP", r, cmdsn, 0), agenda)
  /\ UNCHANGED <<leaked, current, waitpdu, cmdsn, windowVars, is_corked, is_loggedin,
                 reconnect_deferred, broken, results, targetVars>>

\* iscsi_nop_out_async: not immediate, takes a CmdSN.
NopOutAsync(r) ==
  /\ MayCall("nop")
  /\ rq[r].kind = "unused" /\ is_loggedin
  /\ rq' = [rq EXCEPT ![r].kind = "nop"]
  /\ cmdsn' = SNPlus(cmdsn, 1)
  /\ AddToOutqueue(outqueue, NewPdu("NOP", r, cmdsn, 0), agenda)
  /\ UNCHANGED <<leaked, current, waitpdu, windowVars, is_corked, is_loggedin,
                 reconnect_deferred, broken, results, targetVars>>

\* iscsi_task_mgmt_abort_task_async for the task of t, which it only names
\* in the request that iscsi_task_mgmt_async queues.
AbortTaskAsync(r, t) ==
  /\ MayCall("tmf")
  /\ rq[t].kind \in ScsiKinds /\ results[t] = <<>>
  /\ rq[r].kind = "unused" /\ is_loggedin
  /\ rq' = [rq EXCEPT ![r].kind = "tmf"]
  /\ AddToOutqueue(outqueue, NewPdu("TMF", r, cmdsn, 0), agenda)
  /\ UNCHANGED <<leaked, current, waitpdu, cmdsn, windowVars, is_corked, is_loggedin,
                 reconnect_deferred, broken, results, targetVars>>

\* iscsi_logout_async.
LogoutAsync(r) ==
  /\ MayCall("logout")
  /\ rq[r].kind = "unused" /\ is_loggedin
  /\ rq' = [rq EXCEPT ![r].kind = "logout"]
  /\ AddToOutqueue(outqueue, NewPdu("LOGOUT", r, cmdsn, 0), agenda)
  /\ UNCHANGED <<leaked, current, waitpdu, cmdsn, windowVars, is_corked, is_loggedin,
                 reconnect_deferred, broken, results, targetVars>>

\* iscsi_scsi_cancel_task: a waiting command is taken out of waitpdu; of a
\* queued one the command and its DATA-OUTs are taken out of the outqueue,
\* the CmdSN is given back and the PDUs behind keep theirs (cmdsn_gap is
\* still 0 when they are visited).
CancelTask(r) ==
  /\ MayCall("cancel_task")
  /\ rq[r].kind \in ScsiKinds /\ results[r] = <<>>
  /\ \/ /\ r \in Owners(waitpdu)
        /\ waitpdu' \in Retain(waitpdu, {i \in DOMAIN waitpdu : waitpdu[i].req # r})
        /\ \E i \in DOMAIN waitpdu : waitpdu[i].req = r /\ FreePdu(waitpdu[i])
        /\ UNCHANGED <<outqueue, cmdsn>>
     \/ /\ r \in Owners(outqueue) \ Owners(waitpdu)
        /\ outqueue' \in Retain(outqueue, {i \in DOMAIN outqueue : outqueue[i].req # r})
        /\ cmdsn' = SNMinus(cmdsn, 1)
        /\ UNCHANGED <<waitpdu, current>>
  /\ Complete({r}, "CANCELLED")
  /\ UNCHANGED <<leaked, agenda, windowVars, is_corked, is_loggedin, reconnect_deferred, broken, rq, targetVars>>

\* iscsi_scsi_cancel_all_tasks.
CancelAllTasks ==
  /\ MayCall("cancel_all")
  /\ CancelPdus
  /\ UNCHANGED <<leaked, agenda, windowVars, is_corked, is_loggedin, reconnect_deferred, broken, rq, targetVars>>

\* iscsi_task_mgmt_abort_task_set_async, _target_warm_reset_async and
\* _target_cold_reset_async: cancel everything, then queue the request.
ResetAsync(r) ==
  /\ MayCall("reset")
  /\ rq[r].kind = "unused"
  /\ CancelWaiting
  /\ \/ /\ is_loggedin
        /\ rq' = [rq EXCEPT ![r].kind = "tmf"]
        /\ AddToOutqueue(<<>>, NewPdu("TMF", r, CmdSNWithout(DOMAIN outqueue), 0), agenda)
     \/ ~is_loggedin /\ outqueue' = <<>> /\ UNCHANGED <<agenda, rq>>
  /\ UNCHANGED <<leaked, windowVars, is_corked, is_loggedin, reconnect_deferred, broken, targetVars>>

\* iscsi_task_mgmt_lun_reset_async: iscsi_cancel_lun_pdus takes the PDUs of
\* the unit's tasks out of the outqueue, but its second loop never loads
\* next_pdu again: only the first of them is completed and freed.
LunResetAsync(r, lun) ==
  LET X == {i \in DOMAIN outqueue : /\ HasTask(outqueue[i])
                                    /\ rq[outqueue[i].req].lun = lun}
      first == {i \in X : \A j \in X : i <= j}
  IN
  /\ MayCall("lun_reset")
  /\ rq[r].kind = "unused"
  /\ cmdsn' = CmdSNWithout(X)
  /\ Complete({outqueue[i].req : i \in {j \in first : ~DeleteWhenSent(outqueue[j])}}, "CANCELLED")
  /\ leaked' = leaked \cup {Renumber(outqueue, X)[i] : i \in X \ first}
  /\ \E q \in Retain(Renumber(outqueue, X), DOMAIN outqueue \ X) :
       \/ /\ is_loggedin
          /\ rq' = [rq EXCEPT ![r].kind = "tmf"]
          /\ AddToOutqueue(q, NewPdu("TMF", r, CmdSNWithout(X), 0), agenda)
       \/ ~is_loggedin /\ outqueue' = q /\ UNCHANGED <<agenda, rq>>
  /\ UNCHANGED <<current, waitpdu, windowVars, is_corked, is_loggedin,
                 reconnect_deferred, broken, targetVars>>

\* iscsi_destroy_context.
DestroyContext ==
  /\ agenda = <<>> /\ "destroy" \in Calls
  /\ outqueue' = <<>>
  /\ waitpdu' = <<>>
  /\ current' = NoPdu
  /\ cmdsn' = CmdSNWithout(DOMAIN outqueue)
  /\ CompleteAll
  /\ agenda' = <<Do("destroyed")>>
  /\ UNCHANGED <<leaked, windowVars, is_corked, is_loggedin, reconnect_deferred, broken, rq, targetVars>>

\* A callback returns, after any number of calls.
CallbackReturns ==
  /\ Doing("callback")
  /\ agenda' = Tail(agenda)
  /\ UNCHANGED <<initiatorVars, windowVars, targetVars, broken>>

-----------------------------------------------------------------------------
(* The rest of a call that queued a PDU. *)

\* One round of the loop of iscsi_send_data_out.  It reads the CmdSN of the
\* command PDU; if that PDU has been freed by now the read is undefined.
SendDataOut ==
  /\ Doing("data")
  /\ LET f == Head(agenda)
         cmds == {p \in ToSet(outqueue) \cup ToSet(waitpdu) \cup leaked :
                    p.op = "SCSI" /\ p.req = f.req}
     IN \/ \E p \in cmds :
             AddToOutqueue(outqueue, NewPdu("DATA", f.req, p.cmdsn, f.datasn),
                           SendData(f.req, f.datasn + 1, f.left - 1) \o Tail(agenda))
        \/ cmds = {} /\ agenda' = <<Do("undefined")>> /\ UNCHANGED outqueue
  /\ UNCHANGED <<leaked, current, waitpdu, cmdsn, is_corked, is_loggedin, reconnect_deferred,
                 rq, results, windowVars, targetVars, broken>>

-----------------------------------------------------------------------------
(* iscsi_tcp_service called by the application's event loop. *)

\* The head of the outqueue may be written.
HeadInWindow ==
  \/ SerialCompare(Head(outqueue).cmdsn, maxcmdsn) <= 0
  \/ Immediate(Head(outqueue))

\* Mutant of WantsPollout: a queue that waited for the window is forgotten.
WantsPolloutForCurrent == current # NoPdu

\* iscsi_tcp_which_events asks for POLLOUT.
WantsPollout ==
  current # NoPdu \/ (outqueue # <<>> /\ ~is_corked /\ HeadInWindow)

\* The event loop was asked for POLLOUT and the socket is writable.
PollOut ==
  /\ agenda = <<>>
  /\ WantsPollout
  /\ agenda' = ServicePollout
  /\ UNCHANGED <<initiatorVars, windowVars, targetVars, broken>>

\* iscsi_service(iscsi, 0), and the end of a call that only read.
Tick ==
  /\ agenda = <<>>
  /\ agenda' = ServiceTick
  /\ UNCHANGED <<initiatorVars, windowVars, targetVars, broken>>

-----------------------------------------------------------------------------
(* iscsi_write_to_socket. *)

\* Nothing to write, corked, or the window is closed: return 0.
WriteStops ==
  /\ Doing("write") /\ current = NoPdu
  /\ outqueue # <<>> => is_corked \/ ~HeadInWindow
  /\ agenda' = Tail(agenda)
  /\ UNCHANGED <<initiatorVars, windowVars, targetVars, broken>>

\* The head carries a CmdSN the target has already seen: return -1.
HeadIsStale ==
  /\ SerialCompare(Head(outqueue).cmdsn, expcmdsn) < 0
  /\ Head(outqueue).op # "DATA"

\* The callers of the iscsi_tcp_service call whose write phase runs.
AfterService == SubSeq(agenda, Len(ServicePollout) + 1, Len(agenda))

\* Mutant of CanPop: the PDU being written is not waited for.
CanPopAnyTime ==
  /\ Doing("write") /\ outqueue # <<>> /\ ~is_corked /\ HeadInWindow

\* The loop of iscsi_write_to_socket takes the head of the outqueue.
CanPop ==
  /\ Doing("write") /\ current = NoPdu
  /\ outqueue # <<>> /\ ~is_corked /\ HeadInWindow

WriteStale ==
  /\ CanPop /\ HeadIsStale
  /\ ServiceFails(AfterService)
  /\ UNCHANGED <<leaked, is_corked, is_loggedin, rq, windowVars, targetVars, broken>>

\* Mutants of WritePop: the PDU is not linked into waitpdu; the head is not
\* unlinked from the outqueue.
WritePopUnlinked ==
  /\ CanPop /\ ~HeadIsStale
  /\ current' = Head(outqueue)
  /\ outqueue' = Tail(outqueue)
  /\ UNCHANGED <<leaked, waitpdu, cmdsn, is_corked, is_loggedin, reconnect_deferred, rq,
                 results, windowVars, targetVars, broken, agenda>>

WritePopKeepsHead ==
  /\ CanPop /\ ~HeadIsStale
  /\ current' = Head(outqueue)
  /\ waitpdu' = IF DeleteWhenSent(Head(outqueue)) THEN waitpdu
                ELSE Append(waitpdu, Head(outqueue))
  /\ UNCHANGED <<leaked, outqueue, cmdsn, is_corked, is_loggedin, reconnect_deferred, rq,
                 results, windowVars, targetVars, broken, agenda>>

\* Pop the head.  It waits for its reply from now on, before any byte of it
\* is written, because the target may answer its header with an R2T.
WritePop ==
  /\ CanPop /\ ~HeadIsStale
  /\ current' = Head(outqueue)
  /\ outqueue' = Tail(outqueue)
  /\ waitpdu' = IF DeleteWhenSent(Head(outqueue)) THEN waitpdu
                ELSE Append(waitpdu, Head(outqueue))
  /\ UNCHANGED <<leaked, cmdsn, is_corked, is_loggedin, reconnect_deferred, rq, results,
                 windowVars, targetVars, broken, agenda>>

\* The socket takes no more: return 0 with the PDU partly written.
WriteBlocks ==
  /\ Doing("write") /\ current # NoPdu
  /\ agenda' = Tail(agenda)
  /\ UNCHANGED <<initiatorVars, windowVars, targetVars, broken>>

WriteError ==
  /\ Doing("write") /\ current # NoPdu
  /\ SocketErrors \/ broken
  /\ broken' = TRUE
  /\ ServiceFails(AfterService)
  /\ UNCHANGED <<leaked, is_corked, is_loggedin, rq, windowVars, targetVars>>

\* What the target makes of a PDU (external): it counts CmdSNs in order and
\* takes DATA-OUTs in the order of their DataSN.
TargetReceives(p) ==
  /\ atTarget' = IF DeleteWhenSent(p) THEN atTarget ELSE atTarget \cup {p.req}
  /\ tgtExp' = IF Numbered(p) /\ p.cmdsn = tgtExp THEN SNPlus(tgtExp, 1) ELSE tgtExp
  /\ owed' = IF p.op = "DATA" /\ owed[p.req] # <<>> /\ Head(owed[p.req]) = p.datasn
             THEN [owed EXCEPT ![p.req] = Tail(@)] ELSE owed
  /\ UNCHANGED <<r2ts, pings>>

\* The last byte of the PDU is written.
WriteDone ==
  /\ Doing("write") /\ current # NoPdu /\ ~broken
  /\ is_corked' = (is_corked \/ CorkWhenSent(current))
  /\ current' = NoPdu
  /\ TargetReceives(current)
  /\ UNCHANGED <<leaked, outqueue, waitpdu, cmdsn, is_loggedin, reconnect_deferred, rq, results,
                 windowVars, broken, agenda>>

-----------------------------------------------------------------------------
(* iscsi_timeout_scan. *)

\* The PDUs the pass over the outqueue takes out when their time is over;
\* immediate and DATA-OUT PDUs are passed by.
Expires(p) == Numbered(p)

\* The pass over the outqueue.  X are the PDUs found expired.  Those behind
\* an expired one are renumbered.
\* The loop over the removed PDUs stops after the first: next_pdu is still
\* NULL from the loop before.
ScanOutqueue ==
  /\ Doing("scan_out")
  /\ \E X \in SUBSET {i \in DOMAIN outqueue : Expires(outqueue[i])} :
       LET first == {i \in X : \A j \in X : i <= j} IN
       /\ outqueue' \in Retain(Renumber(outqueue, X), DOMAIN outqueue \ X)
       /\ cmdsn' = CmdSNWithout(X)
       /\ Complete({outqueue[i].req : i \in first}, "TIMEOUT")
       /\ leaked' = leaked \cup {Renumber(outqueue, X)[i] : i \in X \ first}
       /\ agenda' = (IF X = {} THEN <<>> ELSE CallbackFrame) \o Tail(agenda)
  /\ UNCHANGED <<current, waitpdu, is_corked, is_loggedin, reconnect_deferred, rq,
                 windowVars, targetVars, broken>>

\* The commands iscsi_pdu_data_out_inprocess looks at: WRITE(10), (12), (16).
IsWrite(p) == p.op = "SCSI" /\ rq[p.req].kind = "write"

\* iscsi_pdu_data_out_inprocess.
DataOutInProcess(p) ==
  /\ IsWrite(p)
  /\ \E c \in {current} \cup ToSet(outqueue) : HasTask(c) /\ c.req = p.req

\* The pass over waitpdu.  Y are the expired PDUs.  For a write command the
\* loop calls iscsi_pdu_data_out_inprocess, which locks iscsi_lock although
\* the scan holds it: a spinlock never returns from that.  Again only the
\* first PDU removed is completed and freed.
ScanWaitpdu ==
  /\ Doing("scan_wait")
  /\ \E Y \in SUBSET DOMAIN waitpdu :
       LET X == {i \in Y : ~DataOutInProcess(waitpdu[i])}
           first == {i \in X : \A j \in X : i <= j}
       IN
       IF SpinLocks /\ \E i \in Y : IsWrite(waitpdu[i])
       THEN agenda' = <<Do("hang")>> /\ UNCHANGED <<waitpdu, leaked, current, results>>
       ELSE /\ waitpdu' \in Retain(waitpdu, DOMAIN waitpdu \ X)
            /\ current' = IF \E i \in first : waitpdu[i] = current THEN NoPdu ELSE current
            /\ Complete({waitpdu[i].req : i \in first}, "TIMEOUT")
            /\ leaked' = leaked \cup {waitpdu[i] : i \in X \ first}
            /\ agenda' = (IF X = {} THEN <<>> ELSE CallbackFrame) \o Tail(agenda)
  /\ UNCHANGED <<outqueue, cmdsn, is_corked, is_loggedin, reconnect_deferred, rq,
                 windowVars, targetVars, broken>>

-----------------------------------------------------------------------------
(* iscsi_read_from_socket and iscsi_process_pdu: the target's PDUs. *)

\* The target writes to a working connection; the event loop is reading.
CanRead == agenda = <<>> /\ ~broken

\* The ExpCmdSNs a target may announce (external): not behind what it said
\* before and not beyond what it has received, unless it breaks the protocol.
AnnouncedExp ==
  {expcmdsn, tgtExp} \cup (IF Rejects THEN {SNPlus(tgtExp, 1)} ELSE {})

\* iscsi_process_pdu_serials: what the target says of its window, which it
\* opens from its ExpCmdSN or keeps closed.
ProcessSerials ==
  \E exp \in AnnouncedExp :
    \E max \in {SNMinus(exp, 1), SNPlus(exp, Window - 1)} :
      /\ expcmdsn' = Forward(expcmdsn, exp)
      /\ maxcmdsn' = Forward(maxcmdsn, max)

\* A PDU for a task that is no longer waiting is a protocol error to
\* iscsi_process_pdu ("unsolicited response"), which fails the read.
Unsolicited ==
  /\ ServiceFails(<<>>)
  /\ UNCHANGED <<leaked, is_corked, is_loggedin, rq, broken>>

\* A reply that completes r: SCSI response, DATA-IN with status, NOP-IN,
\* task management response, logout response.  The callback runs while the
\* PDU is still in waitpdu.
Reply(r) ==
  /\ CanRead /\ r \in atTarget
  /\ EarlyStatus \/ owed[r] = <<>>
  /\ ProcessSerials
  /\ atTarget' = atTarget \ {r}
  /\ UNCHANGED <<tgtExp, owed, r2ts, pings>>
  /\ \/ /\ r \in Owners(waitpdu)
        /\ Complete({r}, "GOOD")
        /\ is_loggedin' = (is_loggedin /\ rq[r].kind # "logout")
        /\ agenda' = CallbackFrame \o <<DoFor("finish", r)>>
        /\ UNCHANGED <<leaked, outqueue, current, waitpdu, cmdsn, is_corked, reconnect_deferred, rq, broken>>
     \/ r \notin Owners(waitpdu) /\ Unsolicited

\* Mutants of FinishPdu: the PDU stays in waitpdu; it is taken out although
\* the callback may have emptied the list.
FinishKeepsPdu ==
  /\ Doing("finish")
  /\ agenda' = Tail(agenda)
  /\ UNCHANGED <<initiatorVars, windowVars, targetVars, broken>>

FinishUnchecked ==
  /\ Doing("finish")
  /\ IF Head(agenda).req \in Owners(waitpdu)
     THEN /\ agenda' = Tail(agenda) /\ UNCHANGED current
          /\ waitpdu' \in Retain(waitpdu, {i \in DOMAIN waitpdu : waitpdu[i].req # Head(agenda).req})
     ELSE agenda' = <<Do("undefined")>> /\ UNCHANGED <<waitpdu, current>>
  /\ UNCHANGED <<leaked, outqueue, cmdsn, is_corked, is_loggedin, reconnect_deferred, rq, results,
                 windowVars, targetVars, broken>>

\* The end of iscsi_process_pdu, after the callback: unless waitpdu has
\* become empty the PDU is unlinked and freed, whoever may have done so
\* during the callback.
FinishPdu ==
  LET r == Head(agenda).req IN
  /\ Doing("finish")
  /\ \/ waitpdu = <<>> /\ agenda' = Tail(agenda) /\ UNCHANGED <<waitpdu, current>>
     \/ /\ r \in Owners(waitpdu)
        /\ \E i \in DOMAIN waitpdu : waitpdu[i].req = r /\ FreePdu(waitpdu[i])
        /\ waitpdu' \in Retain(waitpdu, {i \in DOMAIN waitpdu : waitpdu[i].req # r})
        /\ agenda' = Tail(agenda)
     \/ /\ waitpdu # <<>> /\ r \notin Owners(waitpdu)
        /\ agenda' = <<Do("undefined")>> /\ UNCHANGED <<waitpdu, current>>
  /\ UNCHANGED <<leaked, outqueue, cmdsn, is_corked, is_loggedin, reconnect_deferred, rq, results,
                 windowVars, targetVars, broken>>

\* iscsi_process_reject up to the callback; a REJECT that matches nothing
\* fails the read.
Reject(r) ==
  /\ CanRead /\ Rejects /\ r \in atTarget
  /\ ProcessSerials
  /\ atTarget' = atTarget \ {r}
  /\ UNCHANGED <<tgtExp, owed, r2ts, pings>>
  /\ \/ /\ r \in Owners(waitpdu)
        /\ Complete({r}, "ERROR")
        /\ agenda' = CallbackFrame \o <<DoFor("finish_reject", r)>>
        /\ UNCHANGED <<leaked, outqueue, current, waitpdu, cmdsn, is_corked, is_loggedin,
                       reconnect_deferred, rq, broken>>
     \/ r \notin Owners(waitpdu) /\ Unsolicited

\* A reply that iscsi_process_scsi_reply or iscsi_process_scsi_data_in finds
\* malformed: the callback gets an error, the PDU is unlinked and freed
\* without a check, and the read fails.
MalformedReply(r) ==
  /\ CanRead /\ Rejects /\ r \in atTarget /\ rq[r].kind \in ScsiKinds
  /\ ProcessSerials
  /\ atTarget' = atTarget \ {r}
  /\ UNCHANGED <<tgtExp, owed, r2ts, pings>>
  /\ \/ /\ r \in Owners(waitpdu)
        /\ Complete({r}, "ERROR")
        /\ agenda' = CallbackFrame \o <<DoFor("finish_reject", r), Do("fail")>>
        /\ UNCHANGED <<leaked, outqueue, current, waitpdu, cmdsn, is_corked, is_loggedin,
                       reconnect_deferred, rq, broken>>
     \/ r \notin Owners(waitpdu) /\ Unsolicited

FailRead ==
  /\ Doing("fail")
  /\ Unsolicited
  /\ UNCHANGED <<windowVars, targetVars>>

\* The rest of iscsi_process_reject: unlink and free without a check.
FinishReject ==
  LET r == Head(agenda).req IN
  /\ Doing("finish_reject")
  /\ \/ /\ r \in Owners(waitpdu)
        /\ \E i \in DOMAIN waitpdu : waitpdu[i].req = r /\ FreePdu(waitpdu[i])
        /\ waitpdu' \in Retain(waitpdu, {i \in DOMAIN waitpdu : waitpdu[i].req # r})
        /\ agenda' = Tail(agenda)
     \/ /\ r \notin Owners(waitpdu)
        /\ agenda' = <<Do("undefined")>> /\ UNCHANGED <<waitpdu, current>>
  /\ UNCHANGED <<leaked, outqueue, cmdsn, is_corked, is_loggedin, reconnect_deferred, rq, results,
                 windowVars, targetVars, broken>>

\* DATA-IN without status for r: the task goes on.
DataIn(r) ==
  /\ CanRead /\ r \in atTarget /\ rq[r].kind = "read"
  /\ ProcessSerials
  /\ UNCHANGED targetVars
  /\ \/ r \in Owners(waitpdu) /\ UNCHANGED <<initiatorVars, broken, agenda>>
     \/ r \notin Owners(waitpdu) /\ Unsolicited

\* iscsi_process_r2t.  The target has at least the header of the command
\* and one R2T of a task is outstanding at a time (MaxOutstandingR2T=1).
R2T(r) ==
  /\ CanRead /\ rq[r].kind \in {"write", "other_write"}
  /\ r \in atTarget \/ (current.op = "SCSI" /\ current.req = r)
  /\ owed[r] = <<>> /\ r2ts[r] < MaxR2T
  /\ r2ts' = [r2ts EXCEPT ![r] = @ + 1]
  /\ ProcessSerials
  /\ UNCHANGED <<atTarget, tgtExp, pings>>
  /\ \E n \in 1 .. MaxData :
       /\ owed' = [owed EXCEPT ![r] = DataSNs(n)]
       /\ \/ /\ r \in Owners(waitpdu)
             /\ agenda' = SendData(r, 0, n)
             /\ UNCHANGED <<initiatorVars, broken>>
          \/ r \notin Owners(waitpdu) /\ Unsolicited

\* iscsi_process_target_nop_in: a NOP-In that wants no answer only brings
\* the serials; another one is answered at once (iscsi_send_target_nop_out).
TargetNopIn ==
  /\ CanRead
  /\ ProcessSerials
  /\ UNCHANGED <<initiatorVars, targetVars, broken, agenda>>

TargetPing ==
  /\ CanRead /\ pings < MaxPing
  /\ pings' = pings + 1
  /\ ProcessSerials
  /\ AddToOutqueue(outqueue, NewPdu("PONG", NoReq, cmdsn, 0), <<>>)
  /\ UNCHANGED <<leaked, current, waitpdu, cmdsn, is_corked, is_loggedin, reconnect_deferred, rq,
                 results, atTarget, tgtExp, owed, r2ts, broken>>

\* recv() fails or reports the end of the stream, POLLERR or POLLHUP.
ReadError ==
  /\ agenda = <<>> /\ (SocketErrors \/ broken)
  /\ broken' = TRUE
  /\ ServiceFails(<<>>)
  /\ UNCHANGED <<leaked, is_corked, is_loggedin, rq, windowVars, targetVars>>

-----------------------------------------------------------------------------

Unused == [kind |-> "unused", lun |-> 0]

Init ==
  /\ outqueue = <<>> /\ waitpdu = <<>> /\ leaked = {} /\ current = NoPdu
  /\ cmdsn = InitSN /\ expcmdsn = InitSN /\ maxcmdsn = SNPlus(InitSN, Window - 1)
  /\ is_corked = FALSE /\ is_loggedin = TRUE
  /\ reconnect_deferred = FALSE /\ broken = FALSE
  /\ agenda = <<>>
  /\ rq = [r \in Reqs |-> Unused]
  /\ results = [r \in Reqs |-> <<>>]
  /\ atTarget = {} /\ tgtExp = InitSN
  /\ owed = [r \in Reqs |-> <<>>]
  /\ r2ts = [r \in Reqs |-> 0] /\ pings = 0

AppCall(r) ==
  \/ \E kind \in ScsiKinds, lun \in Luns : CommandAsync(r, kind, lun)
  \/ NopOutAsync(r)
  \/ \E t \in Reqs : AbortTaskAsync(r, t)
  \/ LogoutAsync(r)
  \/ CancelTask(r)
  \/ ResetAsync(r)
  \/ \E lun \in Luns : LunResetAsync(r, lun)

Write == WriteStops \/ WriteStale \/ WritePop \/ WriteBlocks \/ WriteError \/ WriteDone

Read(r) == Reply(r) \/ Reject(r) \/ MalformedReply(r) \/ DataIn(r) \/ R2T(r)

\* The context is gone: nothing more happens.
Destroyed == Doing("destroyed") /\ UNCHANGED vars

Next ==
  \/ \E r \in Reqs : AppCall(r) \/ Read(r)
  \/ CancelAllTasks \/ DestroyContext \/ CallbackReturns
  \/ SendDataOut \/ FinishPdu \/ FinishReject \/ FailRead
  \/ PollOut \/ Tick \/ Write \/ ScanOutqueue \/ ScanWaitpdu
  \/ TargetNopIn \/ TargetPing \/ ReadError
  \/ Destroyed

Spec == Init /\ [][Next]_vars

\* The steps of the library that wait for nobody.
LibraryStep ==
  \/ CallbackReturns \/ SendDataOut \/ FinishPdu \/ FinishReject \/ FailRead
  \/ WriteStops \/ WriteStale \/ WritePop \/ ScanOutqueue \/ ScanWaitpdu

\* A target that opens its command window (external).
TargetOpensWindow ==
  TargetNopIn /\ expcmdsn' = tgtExp /\ maxcmdsn' = SNPlus(tgtExp, Window - 1)

\* The application polls the descriptor and calls iscsi_service whenever it
\* is asked to; the connection takes and the target answers what is sent.
Fairness ==
  /\ WF_vars(LibraryStep)
  /\ WF_vars(PollOut)
  /\ SF_vars(WriteDone)
  /\ SF_vars(TargetOpensWindow)
  /\ \A r \in Reqs : SF_vars(Reply(r))

FairSpec == Spec /\ Fairness

-----------------------------------------------------------------------------
(* Properties. *)

Statuses == {"GOOD", "ERROR", "TIMEOUT", "CANCELLED"}

\* The type of every variable: lists of PDUs, uint32_t counters, flags.
TypeOK ==
  /\ outqueue \in Seq(Pdu) /\ waitpdu \in Seq(Pdu) /\ leaked \subseteq Pdu
  /\ current \in Pdu \cup {NoPdu}
  /\ cmdsn \in Serial /\ expcmdsn \in Serial /\ maxcmdsn \in Serial
  /\ is_corked \in BOOLEAN /\ is_loggedin \in BOOLEAN
  /\ reconnect_deferred \in BOOLEAN /\ broken \in BOOLEAN
  /\ agenda \in Seq(Frame)
  /\ rq \in [Reqs -> [kind : Kinds \cup {"unused"}, lun : Nat]]
  /\ results \in [Reqs -> Seq(Statuses)]
  /\ atTarget \subseteq Reqs /\ tgtExp \in Serial
  /\ owed \in [Reqs -> Seq(Nat)]
  /\ r2ts \in [Reqs -> Nat] /\ pings \in Nat

\* No request gets its callback twice, whatever mixture of replies,
\* timeouts, cancellations and failures it meets.
AtMostOnce == \A r \in Reqs : Len(results[r]) <= 1

\* No two PDUs of a list belong to the same request, DATA-OUTs apart.
SingleOwner(s) ==
  \A i, j \in DOMAIN s :
    ~DeleteWhenSent(s[i]) /\ ~DeleteWhenSent(s[j]) /\ s[i].req = s[j].req => i = j

\* The callback of r has returned and its PDU is about to be unlinked.
Finishing(r) ==
  /\ agenda # <<>>
  /\ Head(agenda).do \in {"finish", "finish_reject"} /\ Head(agenda).req = r

\* Every request has at most one PDU of its own, in one of the two lists,
\* and none once it has had its callback, except between the callback and
\* the unlinking at the end of iscsi_process_pdu.
OneOwner ==
  /\ SingleOwner(outqueue) /\ SingleOwner(waitpdu)
  /\ \A i \in DOMAIN waitpdu : ~DeleteWhenSent(waitpdu[i])
  /\ Owners(outqueue) \cap Owners(waitpdu) = {}
  /\ \A r \in Owners(outqueue) :
       r \in Reqs /\ rq[r].kind # "unused" /\ results[r] = <<>>
  /\ \A r \in Owners(waitpdu) :
       r \in Reqs /\ rq[r].kind # "unused" /\ (results[r] = <<>> \/ Finishing(r))
  /\ \A r \in Reqs : rq[r].kind = "unused" => results[r] = <<>>

\* A request without its callback is still in one of the lists from which
\* the library completes requests: none is dropped on the floor.
NoneLost ==
  \A r \in Reqs :
    rq[r].kind # "unused" /\ results[r] = <<>> =>
      r \in Owners(outqueue) \cup Owners(waitpdu)

\* A function that goes on after a nested iscsi_service or a callback finds the
\* PDU it goes on with: iscsi_send_data_out the command whose data it queues,
\* iscsi_process_pdu the PDU whose callback it ran.  On a connection that works
\* the command may have been written meanwhile, and its PDU must not be gone.
\* (A write that fails cancels and frees it, and the property is then false.)
NoUseAfterFree == ~Doing("undefined")

\* The CmdSNs of the numbered PDUs not yet with the target are the
\* successive numbers from the one it expects to the last one handed out,
\* for as long as the connection is in use.
CmdSNContiguous ==
  LET q == (IF current = NoPdu THEN <<>> ELSE <<current>>) \o outqueue
      N == {i \in DOMAIN q : Numbered(q[i])}
  IN  reconnect_deferred \/ Doing("destroyed") \/
      /\ \A i \in N : q[i].cmdsn = SNPlus(tgtExp, Cardinality({j \in N : j < i}))
      /\ cmdsn = SNPlus(tgtExp, Cardinality(N))

\* No PDU that waits to be written has a CmdSN in front of ExpCmdSN: the
\* check in iscsi_write_to_socket that would drop the session never fires.
NeverStale ==
  \A i \in DOMAIN outqueue :
    outqueue[i].op # "DATA" => SerialCompare(outqueue[i].cmdsn, expcmdsn) >= 0

\* The DATA-OUT being written is the next one the target expects of the
\* burst, and its command was written before it; and no DATA-OUT is queued or
\* written for a task whose callback has run: the application frees the task,
\* and the buffer with it, in that callback.
DataInOrder ==
  /\ current.op = "DATA" =>
       /\ current.req \in atTarget
       /\ owed[current.req] # <<>> /\ Head(owed[current.req]) = current.datasn
  /\ \A p \in ToSet(outqueue) \cup {current} :
       p.op = "DATA" => results[p.req] = <<>>

\* A PDU that is partly written is written to its end, unless the
\* connection fails or the context is destroyed; otherwise the target would
\* take the next header for the rest of it.
NoTornPdu ==
  [][ current # NoPdu /\ current' # current =>
        \/ current' = NoPdu /\ Doing("write")
        \/ reconnect_deferred' \/ Doing("destroyed")' ]_vars

\* abort_task_set and the target resets complete every task
\* (include/iscsi.h, iscsi_task_mgmt_async).
ResetCancels ==
  [][ \A r \in Reqs : ResetAsync(r) =>
        \A t \in Reqs : rq[t].kind \in ScsiKinds => results'[t] # <<>> ]_vars

\* The session as the application sees it.
Outcome(r) ==
  IF rq[r].kind = "unused" THEN "idle"
  ELSE IF results[r] = <<>> THEN "pending"
  ELSE IF Len(results[r]) = 1 THEN results[r][1] ELSE "called twice"

Service == INSTANCE TaskService WITH outcome <- [r \in Reqs |-> Outcome(r)]

\* The PDU machinery keeps the promise of the asynchronous API.
RefinesTaskService == Service!Spec

\* On a healthy connection every request is answered in the end.
EveryRequestAnswered == Service!Answered

=============================================================================
