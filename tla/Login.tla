------------------------------- MODULE Login -------------------------------
(***************************************************************************)
(* What a login request says and what a login response changes             *)
(* (lib/login.c).  A context c is a record; the fields this module reads   *)
(* are current_phase, secneg_phase, chap_c, want and use.                  *)
(***************************************************************************)
EXTENDS Integers, SequencesExt

CONSTANTS
  User,         \* iscsi_set_initiator_username_pwd was called
  TargetUser,   \* iscsi_set_target_username_pwd was called (mutual CHAP)
  Iser,         \* the transport is iSER
  HeaderDigest  \* the digests iscsi_set_header_digest lets the target choose from

Digests == {"None", "CRC32C"}

ASSUME LoginAssumption ==
  /\ {User, TargetUser, Iser} \subseteq BOOLEAN
  /\ HeaderDigest \subseteq Digests /\ HeaderDigest # {}

Stages == {"SECNEG", "OPNEG", "FF"}

SecnegPhases == {"OFFER_CHAP", "SELECT_ALGORITHM", "SEND_RESPONSE"}

\* iscsi_login_add_initiatorname, _alias, _targetname and _sessiontype.
NamingKeys(c) ==
  IF c.secneg_phase = "OFFER_CHAP"
  THEN {"InitiatorName", "TargetName", "SessionType"} ELSE {}

\* iscsi_login_add_authmethod, _authalgorithm, _chap_username.
SecurityKeys(c) ==
  IF c.current_phase # "SECNEG" THEN {}
  ELSE CASE c.secneg_phase = "OFFER_CHAP"       -> {"AuthMethod"}
         [] c.secneg_phase = "SELECT_ALGORITHM" -> {"CHAP_A"}
         [] c.secneg_phase = "SEND_RESPONSE"    -> {"CHAP_N"}

\* iscsi_login_add_chap_response: our answer, and our challenge when the
\* target must prove itself too.
ResponseKeys(c) ==
  IF c.current_phase = "SECNEG" /\ c.secneg_phase = "SEND_RESPONSE"
  THEN {"CHAP_R"} \cup (IF TargetUser THEN {"CHAP_I", "CHAP_C"} ELSE {})
  ELSE {}

\* iscsi_login_add_headerdigest, _datadigest.
DigestKeys == {"HeaderDigest", "DataDigest"}

\* iscsi_login_add_initialr2t, _immediatedata, _maxburstlength,
\* _firstburstlength, _maxrecvdatasegmentlength, _datapduinorder.
BurstKeys == {"InitialR2T", "ImmediateData", "MaxBurstLength", "FirstBurstLength",
              "MaxRecvDataSegmentLength", "DataPDUInOrder"}

\* iscsi_login_add_defaulttime2wait, _defaulttime2retain, _ifmarker,
\* _ofmarker, _maxconnections, _maxoutstandingr2t.
SessionKeys == {"DefaultTime2Wait", "DefaultTime2Retain", "IFMarker", "OFMarker",
                "MaxConnections", "MaxOutstandingR2T"}

\* iscsi_login_add_errorrecoverylevel, _datasequenceinorder.
RecoveryKeys == {"ErrorRecoveryLevel", "DataSequenceInOrder"}

\* iscsi_login_add_rdma_extensions, _initiatorrecvdatasegmentlength,
\* _targetrecvdatasegmentlength.
RdmaKeys == IF Iser THEN {"RDMAExtensions", "InitiatorRecvDataSegmentLength",
                          "TargetRecvDataSegmentLength"} ELSE {}

OperationalKeys == DigestKeys \cup BurstKeys \cup SessionKeys \cup RecoveryKeys \cup RdmaKeys

LoginKeys(c) ==
  NamingKeys(c) \cup SecurityKeys(c) \cup ResponseKeys(c)
    \cup (IF c.current_phase = "OPNEG" THEN OperationalKeys ELSE {})

\* The challenge iscsi_login_add_chap_response cannot do without.
ChallengeMissing(c) == "CHAP_R" \in ResponseKeys(c) /\ ~c.chap_c

\* The T bit of the request.
Transit(c) ==
  \/ c.current_phase = "OPNEG"
  \/ /\ c.current_phase = "SECNEG"
     /\ c.secneg_phase \in {"OFFER_CHAP", "SEND_RESPONSE"}

\* next_phase of the request.
NextStage(c) == IF c.current_phase = "SECNEG" THEN "OPNEG" ELSE "FF"

-----------------------------------------------------------------------------
(* A response: status class, T bit, CSG and NSG, and the keys that matter. *)

Reply == [ status : {"ok", "moved", "error", "garbled"}, transit : BOOLEAN,
           csg : Stages, nsg : Stages,
           auth : {"no", "CHAP"}, chap : {"no", "part", "full"},
           proof : {"no", "right", "wrong"},
           digest : {"no"} \cup Digests, imm : BOOLEAN ]

Plain(c, t) == [ status |-> "ok", transit |-> t,
                 csg |-> c.current_phase, nsg |-> NextStage(c),
                 auth |-> "no", chap |-> "no", proof |-> "no",
                 digest |-> "no", imm |-> TRUE ]

\* The response leaves another stage than the request is in, or enters
\* another than it asks for.
Skewed(c, r) == r.transit /\ <<r.csg, r.nsg>> # <<c.current_phase, NextStage(c)>>

\* What a target that follows RFC 7143 may answer to the request of a context
\* in c's phases.  The first set is what lets the login advance; there
\* ImmediateData=No comes with HeaderDigest=CRC32C.
GoodReplies(c) ==
  CASE c.current_phase = "OPNEG" ->
         { [Plain(c, TRUE) EXCEPT !.digest = d, !.imm = d = "None"] : d \in c.want }
    [] c.current_phase = "SECNEG" /\ c.secneg_phase = "OFFER_CHAP" ->
         { [Plain(c, FALSE) EXCEPT !.auth = "CHAP"] }
    [] c.current_phase = "SECNEG" /\ c.secneg_phase = "SELECT_ALGORITHM" ->
         { [Plain(c, FALSE) EXCEPT !.chap = "full"] }
    [] OTHER ->
         { [Plain(c, TRUE) EXCEPT !.proof = IF TargetUser THEN "right" ELSE "no"] }

SkewedReplies(c) ==
  { r \in { [Plain(c, TRUE) EXCEPT !.csg = s, !.nsg = t] :
             s \in Stages \ {"FF"}, t \in Stages \ {"SECNEG"} } : Skewed(c, r) }

OddReplies(c) ==
  { [Plain(c, FALSE) EXCEPT !.status = s] : s \in {"moved", "error", "garbled"} }
  \cup SkewedReplies(c)
  \cup CASE c.current_phase = "OPNEG" ->
              { [Plain(c, FALSE) EXCEPT !.digest = d] : d \in c.want }
         [] c.current_phase = "SECNEG" /\ c.secneg_phase = "OFFER_CHAP" ->
              { Plain(c, TRUE), Plain(c, FALSE) }
         [] c.current_phase = "SECNEG" /\ c.secneg_phase = "SELECT_ALGORITHM" ->
              { [Plain(c, FALSE) EXCEPT !.chap = "part"] }
         [] OTHER -> { [Plain(c, TRUE) EXCEPT !.proof = p] : p \in {"no", "wrong"} }

\* Mutant of MustProve: only a proof that is there is looked at.
MustProveIfGiven(c, r) ==
  r.transit /\ r.csg = "SECNEG" /\ TargetUser /\ r.proof # "no"

\* A mutual login needs CHAP_N and CHAP_R in a response that says it ends
\* SECNEG; the stage the request was in is not looked at.
MustProve(c, r) == r.transit /\ r.csg = "SECNEG" /\ TargetUser

\* Mutant of ParseKeys: ImmediateData is not looked for.
ParseKeysNotImmediate(c, r) ==
  [ c EXCEPT
      !.want = IF r.digest = "no" THEN @ ELSE {r.digest},
      !.chap_c = @ \/ r.chap = "full",
      !.proven = @ \/ r.proof = "right",
      !.secneg_phase = IF r.chap # "no" THEN "SEND_RESPONSE"
                       ELSE IF r.auth = "CHAP" THEN "SELECT_ALGORITHM" ELSE @ ]

\* The loop over the keys, up to the checks that follow it.
ParseKeys(c, r) ==
  [ c EXCEPT
      !.want = IF r.digest = "no" THEN @ ELSE {r.digest},
      !.imm = @ /\ r.imm,
      !.chap_c = @ \/ r.chap = "full",
      !.proven = @ \/ r.proof = "right",
      !.secneg_phase = IF r.chap # "no" THEN "SEND_RESPONSE"
                       ELSE IF r.auth = "CHAP" THEN "SELECT_ALGORITHM" ELSE @ ]

\* Why a response ends the login, in the order of the checks; "go on" if not.
Verdict(c, r) ==
  CASE r.status = "garbled"                      -> "ERROR"
    [] r.proof = "wrong"                         -> "ERROR"
    [] r.status = "moved"                        -> "REDIRECT"
    [] r.status = "error"                        -> "ERROR"
    [] MustProve(c, r) /\ r.proof # "right"      -> "ERROR"
    [] OTHER                                     -> "go on"
=============================================================================
