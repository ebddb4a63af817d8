----------------------------- MODULE Connection -----------------------------
(***************************************************************************)
(* Connecting, logging in and reconnecting, driven by one thread that      *)
(* calls iscsi_service (lib/connect.c, lib/login.c, the connection part of *)
(* lib/socket.c): iscsi_full_connect_async goes through the TCP connect,   *)
(* the login, TEST UNIT READY and two INQUIRYs; when a session is lost,    *)
(* reconnect() puts the context aside as old_iscsi and runs the same       *)
(* sequence on a fresh one, and iscsi_reconnect_cb re-issues the requests  *)
(* of the old one.                                                         *)
(*                                                                         *)
(* A call runs to its end before the next begins, callbacks included, so a *)
(* C function is an operator from the context record c to the context it   *)
(* leaves.  Where the outcome of connect(2) matters it is the argument     *)
(* `ok'.  Sequence numbers do not wrap here; the command window and a full *)
(* socket buffer are one condition, ~c.room.                               *)
(***************************************************************************)
EXTENDS Login

CONSTANTS
  Cmds,         \* SCSI commands of the application
  Tmfs,         \* its task management requests
  Lun,          \* the logical unit of iscsi_full_connect_async, -1 for none
  NoUa,         \* iscsi_set_no_ua_on_reconnect
  MaxRetries,   \* iscsi_set_reconnect_max_retries
  LoginLimit,   \* login_attempts may not exceed this (10 in the code)
  UaLimit,      \* num_uas may not exceed this (10 in the code)
  MaxFaults     \* bound: faults, surprises and interventions

\* The default of iscsi_set_reconnect_max_retries.
Forever == -1

ASSUME ConnectionAssumption ==
  /\ Cmds \subseteq Nat \ {0} /\ Cmds \cap Tmfs = {} /\ 0 \notin Tmfs
  /\ Lun \in {-1} \cup Nat
  /\ NoUa \in BOOLEAN
  /\ MaxRetries \in {Forever} \cup Nat
  /\ {LoginLimit, UaLimit, MaxFaults} \subseteq Nat

VARIABLES
  c,        \* the iscsi_context, with the far end of its connection and the application
  faults    \* how many are left

vars == <<c, faults>>

Reqs == Cmds \cup Tmfs

NoCt == [cb |-> "none", uas |-> 0]

NoOld == [out |-> << >>, wait |-> << >>, retry |-> -1]

Internal == {"tur", "inq", "usn"}

Immediates == {"login", "tmf", "logout", "pong"}

Kinds == {"scsi"} \cup Internal \cup Immediates

\* ISCSI_PDU_DROP_ON_RECONNECT and ISCSI_PDU_IMMEDIATE go together here.
Immediate(p) == p.kind \in Immediates

Pdu(kind, id, sn, ct) == [kind |-> kind, id |-> id, sn |-> sn, ct |-> ct]

\* Draws of a random CmdSN on one connection are this far apart.
Stride == 100

\* iscsi_create_context with the fields reconnect() copies left as they are.
Fresh(x) ==
  [ x EXCEPT !.fd = "none", !.status_cb = NoCt, !.current_phase = "SECNEG",
             !.secneg_phase = "OFFER_CHAP", !.is_loggedin = FALSE,
             !.login_attempts = 0, !.chap_c = FALSE, !.proven = FALSE,
             !.skewed = FALSE,
             !.imm = TRUE, !.digest = "None", !.is_corked = FALSE,
             !.pending = FALSE, !.early = FALSE, !.deferred = FALSE,
             !.noauto = FALSE, !.out = << >>, !.wait = << >>, !.late = FALSE ]

Init ==
  /\ c = [ fd |-> "none", status_cb |-> NoCt, current_phase |-> "SECNEG",
           secneg_phase |-> "OFFER_CHAP", is_loggedin |-> FALSE,
           login_attempts |-> 0, chap_c |-> FALSE, proven |-> FALSE,
           skewed |-> FALSE, imm |-> TRUE, digest |-> "None", is_corked |-> FALSE,
           pending |-> FALSE, early |-> FALSE, deferred |-> FALSE,
           noauto |-> FALSE, out |-> << >>, wait |-> << >>, late |-> FALSE,
           want |-> HeaderDigest, cmdsn |-> 0, usn |-> "none",
           old |-> NoOld, tries |-> 0, forced |-> 0, room |-> TRUE,
           tgt |-> [expect |-> -1, digest |-> "None", imm |-> TRUE,
                    sent |-> {}, drawn |-> 0, strange |-> {}, mixed |-> FALSE],
           app |-> [started |-> FALSE, conn |-> << >>, asked |-> {},
                    done |-> [r \in Reqs |-> << >>], during |-> {},
                    astray |-> FALSE] ]
  /\ faults = MaxFaults

Reconnecting == c.old # NoOld

\* The callback of one of the application's requests.
Deliver(x, id, st) == [x EXCEPT !.app.done[id] = Append(@, st)]

-----------------------------------------------------------------------------
(* Queues. *)

\* The PDUs of s that are of one of these kinds, in their order.
OfKind(s, kinds) ==
  LET those[i \in 0 .. Len(s)] ==
        IF i = 0 THEN << >>
        ELSE IF s[i].kind \in kinds THEN Append(those[i - 1], s[i]) ELSE those[i - 1]
  IN  those[Len(s)]

\* Those that take a CmdSN of their own.
Commands(s) == OfKind(s, Kinds \ Immediates)

\* What the target makes of the PDUs s: login requests come first on a
\* connection and set the CmdSN it expects; after that commands come in CmdSN
\* order.
Arrive(t, s, loggedin) ==
  LET n == Commands(s)
      first == IF t.expect = -1 /\ s[1].kind = "login" THEN s[1].sn ELSE t.expect
      early == ~loggedin /\ \E i \in DOMAIN s : s[i].kind # "login"
      hole == \E i \in DOMAIN n : n[i].sn # first + i - 1
  IN  [t EXCEPT !.expect = first + Len(n),
                !.strange = @ \cup (IF early THEN {"early"} ELSE {})
                              \cup (IF hole THEN {"hole"} ELSE {})]

\* iscsi_write_to_socket on a connection that works: up to a Logout, which
\* corks it.
Drain(x) ==
  IF x.fd # "up" \/ ~x.room \/ x.is_corked \/ x.out = << >> THEN x
  ELSE LET n == SelectInSeq(x.out, LAMBDA p : p.kind = "logout")
           k == IF n = 0 THEN Len(x.out) ELSE n
           s == SubSeq(x.out, 1, k)
       IN  [ x EXCEPT !.out = SubSeq(@, k + 1, Len(@)),
                      !.wait = @ \o OfKind(s, Kinds \ {"pong"}),
                      !.tgt = Arrive(@, s, x.is_loggedin),
                      !.is_corked = n # 0 ]

\* iscsi_add_to_outqueue, the lock section.
Sorted(s, p) ==
  LET q == IF Immediate(p) /\ s # << >> THEN [p EXCEPT !.sn = Head(s).sn] ELSE p
      i == SelectInSeq(s, LAMBDA e : \/ q.sn < e.sn
                                     \/ Immediate(q) /\ ~Immediate(e))
  IN  IF i = 0 THEN Append(s, q) ELSE InsertAt(s, i, q)

\* iscsi_add_to_outqueue from a callback, with the writing that follows: by
\* the nested iscsi_service when the PDU is the head, by the service call that
\* ran the callback when it is not.
Enqueue(x, p) == Drain([x EXCEPT !.out = Sorted(@, p)])

\* A queue holds a PDU whose connect_task is freed, or an old context has been
\* forgotten: what follows is undefined, and here nothing follows.
Astray(x) == [x EXCEPT !.app.astray = TRUE]

\* The nested iscsi_service cannot write: it calls iscsi_reconnect.
WriteFails(x) == x.is_loggedin /\ x.out = << >> /\ x.fd = "dead" /\ ~x.is_corked

\* iscsi_scsi_command_async from a callback, while old_iscsi is NULL (or hidden
\* by the iscsi_*_connect wrappers): refused only without a session.  A nested
\* iscsi_reconnect is refused, or put off, or starts: then the wrapper puts
\* back an old_iscsi that is not the one just set aside; or it cancels every
\* PDU, and the one whose callback is running is still in waitpdu.
ScsiCommand(x, kind, id, ct) ==
  LET y == Enqueue([x EXCEPT !.cmdsn = @ + 1], Pdu(kind, id, x.cmdsn, ct))
  IN  CASE ~WriteFails(x) \/ x.deferred                             -> y
        [] WriteFails(x) /\ ~x.deferred /\ x.early /\ ~x.noauto     -> [y EXCEPT !.pending = TRUE]
        [] WriteFails(x) /\ ~x.deferred /\ (x.noauto \/ ~x.early)    -> Astray(y)

CanCommand(x) == x.is_loggedin \/ x.pending

-----------------------------------------------------------------------------
(* Callbacks of the connect sequence, innermost first. *)

\* The seconds to wait after the n-th failure; rand() % 10 = r.
Backoff(n, r) ==
  LET b == IF n > 10 THEN n + r - 5 ELSE n IN IF b > 30 THEN 30 ELSE b

Exceeded(n) == MaxRetries # Forever /\ n > MaxRetries

\* Does a command of s, when it becomes the head of the outqueue, make the
\* nested iscsi_service reconnect (or cancel everything)?  The callback of a
\* dropped Logout has set pending_reconnect, or the write fails.
Interrupted(x, s) ==
  /\ ~x.deferred /\ x.out = << >>
  /\ \E k \in DOMAIN s :
       /\ ~Immediate(s[k])
       /\ \/ /\ ~x.early
             /\ \E j \in 1 .. k - 1 : s[j].kind = "logout"
          \/ /\ x.noauto \/ ~x.early
             /\ x.fd = "dead" /\ ~x.is_corked
       /\ (\A j \in 1 .. k - 1 : Immediate(s[j])) \/ (x.room /\ ~x.is_corked)

\* Mutant of Reissue: the numbers given out are not counted.
ReissueUncounted(x, s) ==
  LET cmds == Commands(s)
      anew == [i \in DOMAIN cmds |-> [cmds[i] EXCEPT !.sn = x.cmdsn + i - 1]]
  IN  Drain([x EXCEPT !.out = @ \o anew, !.app.astray = @ \/ Interrupted(x, s)])

\* What iscsi_reconnect_cb does with the PDUs s of the old context: the
\* commands are issued again, with new numbers; of the others the callback is
\* run.  When it is interrupted, the answered PDU, whose connect_task is about
\* to be freed, goes into another old context, and the rest of s with it.
Reissue(x, s) ==
  LET cmds == Commands(s)
      dropped == {p.id : p \in {q \in Range(s) : q.kind = "tmf"}}
      anew == [i \in DOMAIN cmds |-> [cmds[i] EXCEPT !.sn = x.cmdsn + i - 1]]
  IN  Drain([x EXCEPT !.out = @ \o anew, !.cmdsn = @ + Len(cmds),
                      !.app.astray = @ \/ Interrupted(x, s),
                      !.app.done = [r \in Reqs |-> IF r \in dropped
                                                   THEN Append(@[r], "CANCELLED") ELSE @[r]]])

\* Mutants of Carried: the queue goes in front of the PDUs that wait; those
\* that wait are forgotten.
CarriedQueueFirst(old) == old.out \o old.wait

CarriedQueueOnly(old) == old.out

\* The PDUs of the old context, in the order they are taken.
Carried(old) == old.wait \o old.out

\* Mutant of iscsi_reconnect_cb: no other attempt is asked for.
ReconnectCbNotPending(x, st) ==
  IF st # "GOOD"
  THEN [x EXCEPT !.old.retry = @ + 1,
                 !.early = ~Exceeded(x.old.retry + 1) /\ Backoff(x.old.retry + 1, 0) > 0]
  ELSE [ Reissue([x EXCEPT !.old = NoOld], Carried(x.old))
           EXCEPT !.early = TRUE, !.pending = FALSE ]

iscsi_reconnect_cb(x, st) ==
  IF st # "GOOD"
  THEN LET n == x.old.retry + 1
       IN  [x EXCEPT !.old.retry = n,
                     !.early = ~Exceeded(n) /\ Backoff(n, 0) > 0,
                     !.pending = TRUE]
  ELSE [ Reissue([x EXCEPT !.old = NoOld], Carried(x.old))
           EXCEPT !.early = TRUE, !.pending = FALSE ]

\* ct->cb, after which ct is freed.
CtCb(x, ct, st) ==
  IF ct.cb = "user" THEN [x EXCEPT !.app.conn = Append(@, st)]
  ELSE iscsi_reconnect_cb(x, st)

\* A command of the connect sequence, or ct->cb(ERROR) if it is refused.
Ask(x, kind, ct) ==
  IF CanCommand(x) THEN ScsiCommand(x, kind, 0, ct) ELSE CtCb(x, ct, "ERROR")

\* iscsi_inquiry_page_0x80_cb; usn is what the page says, "none" if it
\* cannot be read.
iscsi_inquiry_page_0x80_cb(x, ct, usn) ==
  IF usn = "none" \/ x.usn \notin {"none", usn} THEN CtCb(x, ct, "ERROR")
  ELSE CtCb([x EXCEPT !.usn = usn], ct, "GOOD")

\* iscsi_inquiry_page_0x0_cb; dev is the kind of device, "none" on failure.
iscsi_inquiry_page_0x0_cb(x, ct, dev) ==
  CASE dev = "none"  -> CtCb(x, ct, "ERROR")
    [] dev = "disk"  -> Ask(x, "usn", ct)
    [] OTHER         -> CtCb(x, ct, "GOOD")

\* iscsi_testunitready_cb; the excused failures are "no medium", a
\* reservation conflict and a sanitize in progress.
iscsi_testunitready_cb(x, ct, st) ==
  CASE st = "UA" -> LET t == [ct EXCEPT !.uas = @ + 1]
                    IN  IF t.uas > UaLimit THEN CtCb(x, t, "ERROR")
                        ELSE Ask(x, "tur", t)
    [] st \in {"GOOD", "excused"} -> Ask(x, "inq", ct)
    [] OTHER -> CtCb(x, ct, "ERROR")

\* iscsi_connect_async: everything up to connect(2), which may fail at once.
iscsi_connect_async(x, ct, ok) ==
  [ x EXCEPT !.fd = IF ok THEN "connecting" ELSE "none",
             !.status_cb = IF ok THEN ct ELSE NoCt,
             !.tgt = [expect |-> -1, digest |-> "None", imm |-> TRUE,
                      sent |-> {}, drawn |-> 0, strange |-> {}, mixed |-> FALSE],
             !.room = TRUE ]

\* Mutant of iscsi_login_cb: a redirect calls back too.
LoginCbRedirectReports(x, ct, st, ok) ==
  IF st = "REDIRECT"
  THEN iscsi_connect_async(CtCb([x EXCEPT !.is_corked = FALSE], ct, "ERROR"), ct, ok)
  ELSE IF st # "GOOD" THEN CtCb(x, ct, "ERROR") ELSE Ask(x, "inq", ct)

\* iscsi_login_cb.  The context keeps its phases over a redirect; what the
\* target has proved it proved on the connection that is given up.
iscsi_login_cb(x, ct, st, ok) ==
  CASE st = "REDIRECT" ->
         iscsi_connect_async([x EXCEPT !.is_corked = FALSE, !.proven = FALSE,
                                       !.late = @ \/ x.secneg_phase # "OFFER_CHAP"],
                             ct, ok)
    [] st \notin {"REDIRECT", "GOOD"} -> CtCb(x, ct, "ERROR")
    [] st = "GOOD" /\ (NoUa \/ (Lun # -1 /\ x.old = NoOld)) -> Ask(x, "tur", ct)
    [] st = "GOOD" /\ ~NoUa /\ Lun # -1 /\ x.old # NoOld -> Ask(x, "inq", ct)
    [] OTHER -> CtCb(x, ct, "GOOD")

-----------------------------------------------------------------------------
(* Login. *)

\* The draw of a new itt and CmdSN.
Randomize(x) ==
  IF x.current_phase = "SECNEG" /\ x.secneg_phase = "OFFER_CHAP"
  THEN [x EXCEPT !.cmdsn = Stride * (x.tgt.drawn + 1), !.tgt.drawn = @ + 1]
  ELSE x

\* iscsi_login_async, on the way to iscsi_login_cb with ct.
LoginRefused(x) ==
  LET y == [Randomize(x) EXCEPT !.current_phase = IF User THEN @ ELSE "OPNEG"]
  IN  x.login_attempts > LoginLimit \/ x.is_loggedin \/ ChallengeMissing(y)

iscsi_login_async(x, ct) ==
  LET y == [Randomize(x) EXCEPT !.login_attempts = @ + 1,
                                !.current_phase = IF User THEN @ ELSE "OPNEG"]
  IN  IF LoginRefused(x)
      THEN [x EXCEPT !.login_attempts = @ + 1]
      ELSE [ Enqueue(y, Pdu("login", 0, y.cmdsn, ct))
               EXCEPT !.tgt.sent = @ \cup LoginKeys(y) ]

\* iscsi_process_login_reply for the request p.  The target puts its digest
\* choice into effect with the response that ends the login.
iscsi_process_login_reply(x, p, r, ok) ==
  LET v == Verdict(x, r)
      y == IF r.status = "garbled" THEN x ELSE ParseKeys(x, r)
      z == [y EXCEPT !.current_phase = IF r.transit THEN r.nsg ELSE @,
                     !.skewed = @ \/ Skewed(x, r)]
  IN  CASE v # "go on" -> iscsi_login_cb(y, p.ct, v, ok)
        [] v = "go on" /\ r.transit /\ z.current_phase = "FF" ->
             iscsi_login_cb([z EXCEPT !.is_loggedin = TRUE,
                                      !.digest = CHOOSE d \in z.want : TRUE,
                                      !.tgt.digest = r.digest, !.tgt.imm = r.imm],
                            p.ct, "GOOD", ok)
        [] v = "go on" /\ ~(r.transit /\ z.current_phase = "FF") ->
             IF LoginRefused(z)
             THEN iscsi_login_cb(iscsi_login_async(z, p.ct), p.ct, "ERROR", ok)
             ELSE iscsi_login_async(z, p.ct)

\* iscsi_connect_cb.
iscsi_connect_cb(x, ct, st) ==
  IF st # "GOOD" THEN CtCb(x, ct, "ERROR")
  ELSE LET y == iscsi_login_async(x, ct)
       IN  IF LoginRefused(x) THEN CtCb(y, ct, "ERROR") ELSE y

\* iscsi_full_connect_async.
iscsi_full_connect_async(x, cb, ok) == iscsi_connect_async(x, [cb |-> cb, uas |-> 0], ok)

-----------------------------------------------------------------------------
(* Reconnect. *)

\* The callback of a PDU that is cancelled or has timed out.
PduCb(x, p, st) ==
  CASE p.kind = "pong"            -> x
    [] p.kind \in {"scsi", "tmf"} -> Deliver(x, p.id, st)
    [] p.kind = "logout"          -> [x EXCEPT !.pending = TRUE]
    [] p.kind = "login"           -> iscsi_login_cb(x, p.ct, st, TRUE)
    [] p.kind = "tur"             -> iscsi_testunitready_cb(x, p.ct, st)
    [] p.kind = "inq"             -> iscsi_inquiry_page_0x0_cb(x, p.ct, "none")
    [] p.kind = "usn"             -> iscsi_inquiry_page_0x80_cb(x, p.ct, "none")

\* iscsi_cancel_pdus: the queue is emptied first, and its CmdSNs given back.
CancelPdus(x) ==
  LET s == x.out \o x.wait
      n == Len(Commands(x.out))
      after[i \in 0 .. Len(s)] ==
        IF i = 0 THEN [x EXCEPT !.out = << >>, !.wait = << >>, !.cmdsn = @ - n]
        ELSE PduCb(after[i - 1], s[i], "CANCELLED")
  IN  after[Len(s)]

iscsi_defer_reconnect(x) == CancelPdus([x EXCEPT !.deferred = TRUE])

\* The copy of the context that reconnect() puts aside.
Aside(x) == [ out |-> x.out, wait |-> x.wait, cmdsn |-> x.cmdsn, retry |-> 0,
              is_loggedin |-> x.is_loggedin, pending |-> x.pending,
              is_corked |-> x.is_corked ]

\* Does reconnect() get as far as a new connection?
Starts(x, force) ==
  /\ ~x.deferred /\ ~x.noauto /\ ~x.early
  /\ x.old = NoOld \/ x.pending \/ force
  /\ x.old = NoOld \/ ~Exceeded(x.old.retry)

\* Its return value is 0.
ReconnectOk(x, force, ok) ==
  /\ ~x.deferred
  /\ \/ x.noauto
     \/ x.old # NoOld /\ ~x.pending /\ ~force
     \/ x.early
     \/ Starts(x, force) /\ ok

reconnect(x, force, ok) ==
  CASE x.deferred                                  -> x
    [] ~x.deferred /\ x.noauto                     -> iscsi_defer_reconnect(x)
    [] Starts(x, force) ->
         iscsi_full_connect_async(
           [Fresh(x) EXCEPT !.old = IF x.old = NoOld THEN Aside(x) ELSE @,
                            !.tries = IF x.old = NoOld THEN 1 ELSE @ + 1,
                            !.forced = IF x.old = NoOld THEN 0 ELSE @],
           "reconnect", ok)
    [] OTHER ->
         CASE x.old # NoOld /\ ~x.pending /\ ~force -> x
           [] x.early -> [x EXCEPT !.pending = TRUE]
           [] OTHER   -> iscsi_defer_reconnect(x)

\* Mutant of ReportFailure: a failure is reported although the callback has
\* seen it.
ReportFailureTwice(y, done) ==
  IF ~done /\ y.old # NoOld THEN iscsi_reconnect_cb(y, "ERROR") ELSE y

\* What follows reconnect() in iscsi_service_reconnect_if_loggedin: a failure
\* that no callback has seen yet is one of the attempt under way.
ReportFailure(y, done) ==
  IF ~done /\ y.old # NoOld /\ ~y.pending THEN iscsi_reconnect_cb(y, "ERROR") ELSE y

\* iscsi_service_reconnect_if_loggedin.
iscsi_service_reconnect_if_loggedin(x, ok) ==
  ReportFailure(IF x.is_loggedin THEN reconnect(x, FALSE, ok) ELSE x,
                x.is_loggedin /\ ReconnectOk(x, FALSE, ok))

-----------------------------------------------------------------------------
(* The parts of iscsi_tcp_service. *)

\* It returns at once without a descriptor, and reconnects, or only scans for
\* timeouts, while a reconnect is pending.
PendingDue(x) == x.fd # "none" /\ x.pending /\ ~x.early

Serviced(x) == /\ x.fd # "none"
               /\ x.pending => x.early /\ x.old = NoOld

\* iscsi_service(POLLOUT) from iscsi_add_to_outqueue when the PDU is the head.
Kick(x, ok) ==
  CASE PendingDue(x)                     -> reconnect(x, FALSE, ok)
    [] Serviced(x) /\ x.fd = "dead" /\ ~x.is_corked ->
         iscsi_service_reconnect_if_loggedin(x, ok)
    [] Serviced(x) /\ x.fd # "dead"      -> Drain(x)
    [] OTHER                             -> x

\* The same on old_iscsi, whose descriptor is the one of the new connection:
\* the command is written there, or the write fails and the old context
\* starts a reconnect of its own, which loses its requests.
KickOld(x) ==
  LET p == Head(x.old.out)
      moved == [x EXCEPT !.old.out = Tail(@), !.old.wait = Append(@, p),
                         !.tgt.mixed = TRUE]
  IN  CASE x.old.pending                           -> Astray(x)
        [] ~x.old.pending /\ x.old.is_corked       -> x
        [] ~x.old.pending /\ ~x.old.is_corked /\ x.fd \in {"none", "dead"} ->
             Astray(moved)
        [] OTHER -> IF x.fd = "up" /\ x.room
                    THEN [moved EXCEPT !.tgt = Arrive(@, <<p>>, x.is_loggedin)] ELSE moved

\* iscsi_scsi_command_async by the application.
iscsi_scsi_command_async(x, id, ok) ==
  LET y == [x EXCEPT !.app.asked = @ \cup {id},
                     !.app.during = IF x.old = NoOld THEN @ ELSE @ \cup {id}]
  IN  IF x.old # NoOld
      THEN LET p == Pdu("scsi", id, x.old.cmdsn, NoCt)
               z == [y EXCEPT !.old.cmdsn = @ + 1, !.old.out = Sorted(@, p)]
           IN  IF Head(z.old.out) = p THEN KickOld(z) ELSE z
      ELSE LET p == Pdu("scsi", id, x.cmdsn, NoCt)
               z == [y EXCEPT !.cmdsn = @ + 1, !.out = Sorted(@, p)]
           IN  IF Head(z.out) = p THEN Kick(z, ok) ELSE z

\* iscsi_task_mgmt_async: on the new context, even while reconnecting.
iscsi_task_mgmt_async(x, id, ok) ==
  LET p == Pdu("tmf", id, x.cmdsn, NoCt)
      y == [x EXCEPT !.app.asked = @ \cup {id}, !.out = Sorted(@, p),
                     !.app.during = IF x.old = NoOld THEN @ ELSE @ \cup {id}]
  IN  IF Head(y.out).id = id THEN Kick(y, ok) ELSE y

\* iscsi_logout_async on behalf of the target, with iscsi_reconnect_after_logout.
\* If the nested write of a Logout or a NOP-Out fails, no PDU of ours is being
\* answered, and if that of a login request does, there is no session yet: that
\* is a Drop with the ServiceError that follows it.
iscsi_logout_async(x) ==
  IF ~x.is_loggedin THEN [x EXCEPT !.login_attempts = 0]
  ELSE Enqueue([x EXCEPT !.login_attempts = 0], Pdu("logout", 0, x.cmdsn, NoCt))

-----------------------------------------------------------------------------
(* Actions. *)

Cost(n) == faults >= n /\ faults' = faults - n

\* connect(2) succeeds or is under way, or fails on the spot.
Outcome(ok) == Cost(IF ok THEN 0 ELSE 1)

Live == ~c.app.astray

Connect ==
  /\ ~c.app.started
  /\ \E ok \in BOOLEAN :
       /\ Outcome(ok)
       /\ c' = IF ok THEN iscsi_full_connect_async([c EXCEPT !.app.started = TRUE], "user", ok)
               ELSE [c EXCEPT !.app.started = TRUE, !.app.conn = <<"refused">>]

Asked(id) == id \in c.app.asked

\* Commands differ in their numbers only; the lower one is sent first.
Submit ==
  /\ Live
  /\ \E id \in Cmds, ok \in BOOLEAN :
       /\ ~Asked(id) /\ \A k \in Cmds : k < id => Asked(k)
       /\ IF Reconnecting THEN c.old.is_loggedin \/ c.old.pending ELSE CanCommand(c)
       /\ Outcome(ok)
       /\ c' = iscsi_scsi_command_async(c, id, ok)

TaskMgmt ==
  /\ Live
  /\ \E id \in Tmfs, ok \in BOOLEAN :
       /\ ~Asked(id)
       /\ c.is_loggedin
       /\ Outcome(ok)
       /\ c' = iscsi_task_mgmt_async(c, id, ok)

\* iscsi_set_noautoreconnect.
SetNoAutoReconnect ==
  /\ Live /\ Cost(1)
  /\ \E state, ok \in BOOLEAN :
       LET y == [c EXCEPT !.noauto = state]
       IN  c' = IF ~state /\ c.deferred
                THEN reconnect([y EXCEPT !.deferred = FALSE], FALSE, ok) ELSE y

\* iscsi_force_reconnect, on a context that has had a session.
ForceReconnect ==
  /\ Live /\ Cost(1)
  /\ c.is_loggedin \/ Reconnecting
  /\ \E ok \in BOOLEAN :
       c' = reconnect([c EXCEPT !.forced = @ + 1], TRUE, ok)

\* iscsi_reset_next_reconnect.
ResetNextReconnect ==
  /\ Live /\ c.early /\ Cost(1)
  /\ c' = [c EXCEPT !.early = FALSE]

\* The socket is connected: socket_status_cb(GOOD).
Establish ==
  /\ Live /\ Serviced(c) /\ c.fd = "connecting"
  /\ c' = iscsi_connect_cb([c EXCEPT !.fd = "up", !.status_cb = NoCt], c.status_cb, "GOOD")
  /\ UNCHANGED faults

\* It is refused, or times out: socket_status_cb(ERROR).
Refuse ==
  /\ Live /\ Serviced(c) /\ c.fd = "connecting" /\ Cost(1)
  /\ \E ok \in BOOLEAN :
       c' = iscsi_service_reconnect_if_loggedin(
              iscsi_connect_cb([c EXCEPT !.fd = "dead", !.status_cb = NoCt],
                               c.status_cb, "ERROR"), ok)

\* The service of a connection that has failed.
ServiceError ==
  /\ Live /\ Serviced(c) /\ c.fd = "dead"
  /\ \E ok \in BOOLEAN :
       /\ Outcome(ok)
       /\ c' = iscsi_service_reconnect_if_loggedin(c, ok)

ServicePending ==
  /\ Live /\ PendingDue(c)
  /\ \E ok \in BOOLEAN :
       /\ Outcome(ok)
       /\ c' = reconnect(c, FALSE, ok)

Write ==
  /\ Live /\ Serviced(c) /\ c.fd = "up" /\ c.room /\ ~c.is_corked /\ c.out # << >>
  /\ c' = Drain(c)
  /\ UNCHANGED faults

\* iscsi_process_pdu takes the answered PDU off waitpdu after its callback.
\* What looks at it in between is a nested reconnect: see Astray.
Without(i) == [c EXCEPT !.wait = RemoveAt(@, i)]

Readable == Live /\ Serviced(c) /\ c.fd = "up"

\* The answer that takes the login one step on.
LoginReply ==
  /\ Readable
  /\ \E i \in DOMAIN c.wait :
       /\ c.wait[i].kind = "login"
       /\ \E r \in GoodReplies(c) :
            c' = iscsi_process_login_reply(Without(i), c.wait[i], r, TRUE)
  /\ UNCHANGED faults

\* Any other answer a target may give.
LoginSurprise ==
  /\ Readable /\ Cost(1)
  /\ \E i \in DOMAIN c.wait :
       /\ c.wait[i].kind = "login"
       /\ \E r \in OddReplies(c), ok \in BOOLEAN :
            LET y == iscsi_process_login_reply(Without(i), c.wait[i], r, ok)
            IN  /\ ok \/ r.status = "moved"
                /\ c' = IF r.status = "garbled"
                        THEN iscsi_service_reconnect_if_loggedin([y EXCEPT !.fd = "dead"], TRUE)
                        ELSE y

\* The callback of a command p of the connect sequence.
ProbeCb(x, p, st, dev, usn) ==
  CASE p.kind = "tur" -> iscsi_testunitready_cb(x, p.ct, st)
    [] p.kind = "inq" -> iscsi_inquiry_page_0x0_cb(x, p.ct, dev)
    [] p.kind = "usn" -> iscsi_inquiry_page_0x80_cb(x, p.ct, usn)

ProbeReply ==
  /\ Readable
  /\ \E i \in DOMAIN c.wait :
       /\ c.wait[i].kind \in Internal
       /\ c' = ProbeCb(Without(i), c.wait[i], "GOOD", "disk", "A")
  /\ UNCHANGED faults

ProbeSurprise ==
  /\ Readable /\ Cost(1)
  /\ \E i \in DOMAIN c.wait :
       /\ c.wait[i].kind \in Internal
       /\ \E st \in {"UA", "excused", "CHECK"}, dev \in {"other", "none"}, u \in {"B", "none"} :
            c' = ProbeCb(Without(i), c.wait[i], st, dev, u)

\* The target answers and closes the connection: the answer is read, and what
\* its callback sends cannot be written.
ResetReply ==
  /\ Readable /\ Cost(1)
  /\ \E i \in DOMAIN c.wait :
       LET p == c.wait[i]
           x == [Without(i) EXCEPT !.fd = "dead"]
       IN  \/ /\ p.kind = "login" /\ c.current_phase = "OPNEG"
              /\ \E r \in GoodReplies(c) : c' = iscsi_process_login_reply(x, p, r, TRUE)
           \/ /\ p.kind \in Internal
              /\ \E st \in {"GOOD", "UA"}, dev \in {"disk", "other"} :
                   c' = ProbeCb(x, p, st, dev, "A")

RequestReply ==
  /\ Readable
  /\ \E i \in DOMAIN c.wait :
       LET p == c.wait[i] IN
       \/ p.kind \in {"scsi", "tmf"} /\ c' = Deliver(Without(i), p.id, "GOOD")
       \/ /\ p.kind = "logout"
          /\ c' = [Without(i) EXCEPT !.is_loggedin = FALSE, !.pending = TRUE]
  /\ UNCHANGED faults

\* The target asks for a logout (AsyncMsg 1 or 4, REJECT), or says that the
\* connection goes away and when to come back (AsyncMsg 2 or 3).
AsyncMessage ==
  /\ Readable /\ c.is_loggedin /\ Cost(1)
  /\ \/ c' = iscsi_logout_async(c)
     \/ c' = [c EXCEPT !.early = TRUE]

\* A NOP-In that wants an answer.
Ping ==
  /\ Readable /\ c.is_loggedin /\ ~c.room /\ Cost(1)
  /\ c' = Enqueue(c, Pdu("pong", 0, c.cmdsn, NoCt))

\* iscsi_timeout_scan takes the i-th PDU off the queue, and those behind it
\* get the CmdSN before theirs.
ExpireOut(x, i) ==
  LET Renumbered(p) == [p EXCEPT !.sn = @ - 1]
  IN  [x EXCEPT !.out = [k \in 1 .. Len(@) - 1 |->
                           IF k < i THEN @[k] ELSE Renumbered(@[k + 1])],
                !.cmdsn = @ - 1]

\* Every PDU it may find expired, with what it leaves.
Expired(x) ==
  {<<x.out[i], ExpireOut(x, i)>> : i \in {k \in DOMAIN x.out : ~Immediate(x.out[k])}}
    \cup {<<x.wait[i], [x EXCEPT !.wait = RemoveAt(@, i)]>> : i \in DOMAIN x.wait}

Timeout ==
  /\ Live /\ c.fd # "none" /\ ~PendingDue(c) /\ Cost(1)
  /\ Serviced(c) => c.fd # "dead"
  /\ \/ \E e \in Expired(c) : c' = PduCb(e[2], e[1], "TIMEOUT")
     \/ Reconnecting /\ \E e \in Expired(c.old) :
          c' = IF e[1].kind = "logout" THEN [c EXCEPT !.old = [e[2] EXCEPT !.pending = TRUE]]
               ELSE PduCb([c EXCEPT !.old = e[2]], e[1], "TIMEOUT")

\* The connection breaks; after a logout the target closes it.
Drop ==
  /\ Live /\ c.fd = "up"
  /\ Cost(IF c.is_corked /\ ~c.is_loggedin THEN 0 ELSE 1)
  /\ c' = [c EXCEPT !.fd = "dead"]

\* The socket buffer or the command window is full for a while.
Block == Live /\ c.fd = "up" /\ c.room /\ c.is_loggedin /\ Cost(1) /\ c' = [c EXCEPT !.room = FALSE]

Unblock == Live /\ ~c.room /\ c' = [c EXCEPT !.room = TRUE] /\ UNCHANGED faults

\* Time passes next_reconnect.
Tick == Live /\ c.early /\ c' = [c EXCEPT !.early = FALSE] /\ UNCHANGED faults

Next ==
  \/ Connect \/ Submit \/ TaskMgmt \/ SetNoAutoReconnect \/ ForceReconnect
  \/ ResetNextReconnect \/ Establish \/ Refuse \/ ServiceError \/ ServicePending
  \/ Write \/ LoginReply \/ LoginSurprise \/ ProbeReply \/ ProbeSurprise
  \/ ResetReply \/ RequestReply \/ AsyncMessage \/ Ping \/ Timeout \/ Drop \/ Block \/ Unblock \/ Tick

Spec == Init /\ [][Next]_vars

\* Sockets become ready, the target answers, time passes and the service loop
\* is called: while any of this is possible, some of it happens.
Progress ==
  \/ Establish \/ ServiceError \/ ServicePending \/ Write \/ LoginReply
  \/ ProbeReply \/ RequestReply \/ Unblock \/ Tick

\* ENABLED <<Progress>>_vars in terms of the state.
CanProgress ==
  /\ Live
  /\ \/ c.early \/ ~c.room
     \/ PendingDue(c) /\ (faults > 0 \/ reconnect(c, FALSE, TRUE) # c)
     \/ /\ Serviced(c) /\ c.fd = "dead"
        /\ faults > 0 \/ iscsi_service_reconnect_if_loggedin(c, TRUE) # c
     \/ Serviced(c) /\ c.fd = "connecting"
     \/ /\ Serviced(c) /\ c.fd = "up"
        /\ (~c.is_corked /\ c.out # << >>) \/ c.wait # << >>

\* Weak fairness of Progress, with its guard written out.
FairSpec == Spec /\ (<>[]CanProgress => []<><<Progress>>_vars)

-----------------------------------------------------------------------------
(* Properties. *)

\* Every PDU of the context and of the one it replaces.
Queued == c.out \o c.wait \o c.old.out \o c.old.wait

\* How many still hold a connect_task with this callback.
Holders(cb) ==
  Cardinality({i \in DOMAIN Queued : Queued[i].ct.cb = cb})
    + (IF c.status_cb.cb = cb THEN 1 ELSE 0)

\* A redirect whose connect(2) failed at once: iscsi_login_cb frees the
\* connect_task and tells nobody.
RedirectFailed == c.fd = "none" /\ c.app.started /\ c.app.conn # <<"refused">>

\* The callback of iscsi_full_connect_async runs once and the connect_task,
\* which is freed after it, has one owner until then, over redirects, unit
\* attentions, timeouts and reconnects that carry the probe over; and
\* iscsi_reconnect_cb, which follows old_iscsi, can only run while there is an
\* old_iscsi.  (That it runs once is what the code does, not what iscsi.h
\* promises: a second call when the session is torn down.)
OneOwner ==
  c.app.started /\ Live =>
    /\ Len(c.app.conn) + Holders("user") <= 1
    /\ Len(c.app.conn) + Holders("user") = 1 \/ RedirectFailed
    /\ Holders("reconnect") <= (IF Reconnecting THEN 1 ELSE 0)

\* Every request is answered once or waits in one queue, whatever happens to
\* the connection: a reconnect moves it, and never drops or doubles it.  Task
\* management requests queued on the new context while a reconnect is under
\* way are excused: the next attempt overwrites that context.
NoneLost ==
  Live => \A id \in Reqs :
    LET n == Cardinality({i \in DOMAIN Queued : Queued[i].id = id}) + Len(c.app.done[id])
    IN  /\ n <= 1
        /\ Asked(id) /\ ~(id \in Tmfs /\ id \in c.app.during) => n = 1

InOrder(s) ==
  \A i, j \in DOMAIN s :
    i < j /\ {s[i].kind, s[j].kind} = {"scsi"} => s[i].id < s[j].id

\* The commands of the application stay in the order it gave them in, in the
\* queues of the old context and when they are re-issued on the new one.
OrderKept == Live => InOrder(c.wait \o c.out) /\ InOrder(c.old.wait \o c.old.out)

\* The target sees nothing but login requests before the login is over and
\* then the CmdSNs in sequence from the one of the login, except for two
\* causes: a command submitted while a reconnect is under way, and a target
\* that asks for another round before it has chosen an AuthMethod.
SessionInSequence ==
  c.tgt.strange # {} => c.tgt.mixed \/ c.tgt.drawn > 1

\* Once logged in, both ends use the same digests, immediate data is sent
\* only to a target that takes it, and the target has been told who the
\* initiator is and offered every parameter on the connection it runs on,
\* unless a redirect came after the security negotiation had begun; before,
\* a login is in the clear.  A target whose responses skip stages is excused.
NegotiatedAgree ==
  /\ c.is_loggedin /\ c.fd # "none" /\ ~c.skewed =>
       c.digest = c.tgt.digest /\ (c.imm => c.tgt.imm)
  /\ c.is_loggedin /\ ~c.late /\ ~c.skewed =>
       OperationalKeys \cup {"InitiatorName", "TargetName", "SessionType"} \subseteq c.tgt.sent
  /\ c.current_phase # "FF" => c.digest = "None"

\* With mutual CHAP no session exists that the target has not proved its name
\* and secret for on this very connection, provided its responses keep to the
\* stages the requests ask for, and no redirect came after the security
\* negotiation had begun (its stage is then kept).
MutualAuthentication ==
  User /\ TargetUser /\ c.is_loggedin => c.proven \/ c.late \/ c.skewed

\* A failure of an attempt to reconnect is counted once, although a socket
\* error may reach iscsi_reconnect_cb by way of socket_status_cb and once more
\* from the service loop: no step counts two, and after the failure has been
\* counted only the callback of the attempt itself can count again.  No
\* attempt is made once the application's limit is exceeded.  The step in
\* which a context goes astray is excused: the count of the old context is
\* then forgotten with it.
AttemptsCounted ==
  [][Reconnecting /\ Reconnecting' /\ Live' =>
       /\ c'.old.retry \in {c.old.retry, c.old.retry + 1}
       /\ c'.old.retry > c.old.retry => ~c.pending \/ Holders("reconnect") = 1
       /\ c'.tries > c.tries => ~Exceeded(c.old.retry)]_vars

\* The states of a reconnect that nothing but iscsi_force_reconnect leaves:
\* connect(2) failed on the spot, so there is no descriptor to service; or
\* the connection was lost between the end of the login and the end of the
\* probe, when reconnect() believes that an attempt is still under way.
Wedged == /\ Reconnecting
          /\ \/ c.fd = "none"
             \/ c.fd = "dead" /\ c.is_loggedin /\ ~c.pending

\* A reconnect ends, or is given up, or is wedged in one of these two ways.
ReconnectEnds == Reconnecting ~> (~Reconnecting \/ c.deferred \/ Wedged \/ ~Live)

\* Every command ends, unless the reconnect has been deferred (commands are
\* accepted after that as well) or is wedged.
CommandsEnd ==
  \A id \in Cmds :
    Asked(id) ~> (Len(c.app.done[id]) = 1 \/ c.deferred \/ Wedged \/ ~Live)

\* iscsi_reconnect: "Commands send to this connection will be queued and not
\* processed until we have successfully reconnected."
QueuedWhileReconnecting == Reconnecting => "early" \notin c.tgt.strange

=============================================================================
