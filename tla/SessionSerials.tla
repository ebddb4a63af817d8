--------------------------- MODULE SessionSerials ---------------------------
(***************************************************************************)
(* The counters by which initiator and target follow each other on one     *)
(* connection: iscsi->expcmdsn and iscsi->maxcmdsn (the target's command   *)
(* window), iscsi->statsn (the last status acknowledged by the ExpStatSN   *)
(* of every request) and iscsi->cmdsn, through the login and the full      *)
(* feature phase.  Numbers wrap; nothing bounds the length of a session.   *)
(*                                                                         *)
(* PDUs of the target are processed in the order in which they were sent   *)
(* (one TCP connection), so sending and processing one is a single step.   *)
(***************************************************************************)
EXTENDS Serials

CONSTANTS
  Window,        \* largest command window the target grants
  Chap,          \* a user name is set: the login starts in SECNEG
  InitStatSNs    \* the StatSNs a target may start from

ASSUME SessionAssumption ==
  /\ Window \in 1 .. (Half - 1)
  /\ Chap \in BOOLEAN
  /\ InitStatSNs \subseteq Serial

VARIABLES
  stage,       \* "login" (current_phase = secneg_phase = 0 at the reply), "phase2", "full", "failed"
  statsn, expcmdsn, maxcmdsn, cmdsn,     \* struct iscsi_context
  tgtStat,     \* the next StatSN of the target
  tgtExp,      \* the CmdSN the target expects
  tgtMax       \* the end of the largest window it has granted

vars == <<stage, statsn, expcmdsn, maxcmdsn, cmdsn, tgtStat, tgtExp, tgtMax>>

\* iscsi_login_async draws cmdsn and starts from an empty window.  Without
\* a user name it enters OPNEG before the first reply.  The target takes
\* its ExpCmdSN from the (immediate) login request.
Init ==
  /\ stage = IF Chap THEN "login" ELSE "phase2"
  /\ statsn = 0
  /\ cmdsn \in Serial
  /\ expcmdsn = cmdsn /\ maxcmdsn = cmdsn
  /\ tgtStat \in InitStatSNs
  /\ tgtExp = cmdsn /\ tgtMax = cmdsn

\* How many commands the target still takes when its window ends at max.
Room(max) == SNMinus(SNPlus(max, 1), tgtExp)

\* The window fields of iscsi_process_pdu_serials.  The target may at any
\* time announce a smaller window than it granted before, down to a closed
\* one; the initiator keeps the larger.
ProcessWindow ==
  \E n \in 0 .. Window :
    LET max == SNMinus(SNPlus(tgtExp, n), 1) IN
    /\ tgtMax' = IF n > Room(tgtMax) THEN max ELSE tgtMax
    /\ maxcmdsn' = Forward(maxcmdsn, max)
    /\ expcmdsn' = Forward(expcmdsn, tgtExp)
    /\ UNCHANGED <<cmdsn, tgtExp>>

\* Mutant of ProcessStatSN: the StatSN of a NOP-In counts as received.
ProcessStatSNAlways(sn, tag) == statsn' = Forward(statsn, sn)

\* The StatSN field of iscsi_process_pdu_serials.
ProcessStatSN(sn, tag) ==
  statsn' = Forward(statsn, IF tag = ReservedTag THEN SNMinus(sn, 1) ELSE sn)

\* A login reply of status class 0.  After iscsi_process_pdu_serials,
\* iscsi_process_login_reply takes the StatSN of the first one as it is.
LoginReply ==
  /\ stage \in {"login", "phase2"}
  /\ ProcessWindow
  /\ IF stage = "login" THEN statsn' = tgtStat ELSE ProcessStatSN(tgtStat, 0)
  /\ tgtStat' = SNPlus(tgtStat, 1)
  /\ stage' \in {"phase2", "full"}

\* A login reply of another status class: its serials are not looked at.
LoginFails ==
  /\ stage \in {"login", "phase2"}
  /\ stage' = "failed"
  /\ UNCHANGED <<statsn, expcmdsn, maxcmdsn, cmdsn, tgtStat, tgtExp, tgtMax>>

\* A command is numbered, sent inside the window and received.
Command ==
  /\ stage = "full"
  /\ SerialCompare(cmdsn, maxcmdsn) <= 0
  /\ cmdsn' = SNPlus(cmdsn, 1)
  /\ tgtExp' = SNPlus(tgtExp, 1)
  /\ UNCHANGED <<stage, statsn, expcmdsn, maxcmdsn, tgtStat, tgtMax>>

\* A PDU that carries a status for one of our task tags.
Response ==
  /\ stage = "full"
  /\ ProcessWindow
  /\ ProcessStatSN(tgtStat, 0)
  /\ tgtStat' = SNPlus(tgtStat, 1)
  /\ UNCHANGED stage

\* DATA-IN without the S bit: its StatSN field is reserved.
DataIn ==
  /\ stage = "full"
  /\ ProcessWindow
  /\ UNCHANGED <<stage, statsn, tgtStat>>

\* NOP-In of the target: no task tag, and StatSN is not advanced.
TargetNopIn ==
  /\ stage = "full"
  /\ ProcessWindow
  /\ ProcessStatSN(tgtStat, ReservedTag)
  /\ UNCHANGED <<stage, tgtStat>>

\* REJECT and Asynchronous Message: no task tag, but StatSN is advanced.
RejectOrAsync ==
  /\ stage = "full"
  /\ ProcessWindow
  /\ ProcessStatSN(tgtStat, ReservedTag)
  /\ tgtStat' = SNPlus(tgtStat, 1)
  /\ UNCHANGED stage

\* The connection is closed after a failed login.
Failed == stage = "failed" /\ UNCHANGED vars

Next == \/ LoginReply \/ LoginFails \/ Command \/ Response
        \/ DataIn \/ TargetNopIn \/ RejectOrAsync \/ Failed

Spec == Init /\ [][Next]_vars

-----------------------------------------------------------------------------

\* The type of every variable: uint32_t counters and a login stage.
TypeOK ==
  /\ stage \in {"login", "phase2", "full", "failed"}
  /\ {statsn, expcmdsn, maxcmdsn, cmdsn, tgtStat, tgtExp, tgtMax} \subseteq Serial

\* The acknowledgement sent with every request (iscsi->statsn + 1) is the
\* StatSN the target uses next, or the one before it when the last PDU was
\* a REJECT or an Asynchronous Message: no status is acknowledged that was
\* not received, across the wrap of the counter, wherever it started.
AckFollowsTarget ==
  stage = "full" => SNPlus(statsn, 1) \in {tgtStat, SNMinus(tgtStat, 1)}

\* The window kept by the initiator ends where the largest one the target
\* has granted ends, although smaller ones were announced since, and the
\* next command is inside it or just behind it.
WindowIsGranted ==
  /\ maxcmdsn = tgtMax
  /\ Room(maxcmdsn) <= Window
  /\ cmdsn = tgtExp

=============================================================================
