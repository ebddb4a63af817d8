------------------------ MODULE SessionSerialsProofs ------------------------
(***************************************************************************)
(* Serial number arithmetic and the counters of a session, for every size  *)
(* of the number space (2^32 among them), every window smaller than half   *)
(* of it and sessions of any length.                                       *)
(***************************************************************************)
EXTENDS SessionSerials, TLAPS

\* uint32_t addition and subtraction stay in the number space and undo each
\* other.
LEMMA SNArithmetic ==
  ASSUME NEW s \in Serial, NEW n \in Serial
  PROVE  /\ SNPlus(s, n) \in Serial
         /\ SNMinus(s, n) \in Serial
         /\ SNMinus(SNPlus(s, n), n) = s
         /\ SNPlus(SNMinus(s, n), n) = s
BY HalfAssumption DEF Serial, Modulus, SNPlus, SNMinus

\* iscsi_serial32_compare against RFC 1982: a number is less than the
\* numbers up to Half - 1 after it, greater than those before it, and equal
\* to itself only, wherever the wrap lies.
THEOREM CompareCorrect ==
  ASSUME NEW s \in Serial, NEW n \in 1 .. (Half - 1)
  PROVE  /\ SerialCompare(s, SNPlus(s, n)) = -1
         /\ SerialCompare(SNPlus(s, n), s) = 1
         /\ SerialCompare(s, s) = 0
BY HalfAssumption DEF Serial, Modulus, SNPlus, SerialCompare

\* iscsi_itt_post_increment never leaves the reserved value in iscsi->itt
\* and gives different successors to different tags.
THEOREM TagsCorrect ==
  ASSUME NEW s \in Serial \ {ReservedTag}, NEW t \in Serial \ {ReservedTag}
  PROVE  /\ NextTag(s) \in Serial \ {ReservedTag}
         /\ s # t => NextTag(s) # NextTag(t)
BY HalfAssumption DEF Serial, Modulus, SNPlus, NextTag, ReservedTag

\* A counter moved by Forward stays a number, and takes a value that is
\* less than Half ahead of it.
LEMMA ForwardLemma ==
  ASSUME NEW old \in Serial, NEW new \in Serial
  PROVE  /\ Forward(old, new) \in Serial
         /\ \A n \in 0 .. (Half - 1) : new = SNPlus(old, n) => Forward(old, new) = new
         /\ \A n \in 0 .. (Half - 1) : old = SNPlus(new, n) => Forward(old, new) = old
BY HalfAssumption DEF Serial, Modulus, SNPlus, SerialCompare, Forward

-----------------------------------------------------------------------------
(* The inductive invariant of a session. *)

\* The acknowledgement is behind the target by what Forward can make up for:
\* after the login by one status, or two after a REJECT.
StatInv ==
  /\ stage = "phase2" => \E n \in 0 .. (Half - 1) : tgtStat = SNPlus(statsn, n)
  /\ stage = "full" => \E n \in 1 .. 2 : tgtStat = SNPlus(statsn, n)

WindowInv == maxcmdsn = tgtMax /\ cmdsn = tgtExp /\ Room(tgtMax) \in 0 .. Window

SessionInv == TypeOK /\ StatInv /\ WindowInv

\* Announcing a window that ends n commands after e - 1 to a counter whose
\* window ends k commands after it: the larger one stays.
LEMMA GrantLemma ==
  ASSUME NEW e \in Serial, NEW max \in Serial, NEW n \in 0 .. Window,
         SNMinus(SNPlus(max, 1), e) \in 0 .. Window
  PROVE  LET new == SNMinus(SNPlus(e, n), 1) IN
         /\ new \in Serial
         /\ SNMinus(SNPlus(new, 1), e) = n
         /\ Forward(max, new) = IF n > SNMinus(SNPlus(max, 1), e) THEN new ELSE max
<1>1. Half \in Nat /\ Half >= 3 /\ Window \in 1 .. (Half - 1)
  BY HalfAssumption, SessionAssumption
<1>2. SNMinus(SNPlus(e, n), 1) \in Serial
  BY <1>1 DEF SNPlus, SNMinus, Serial, Modulus
<1>3. SNMinus(SNPlus(SNMinus(SNPlus(e, n), 1), 1), e) = n
  BY <1>1 DEF SNPlus, SNMinus, Serial, Modulus
<1>4. Forward(max, SNMinus(SNPlus(e, n), 1)) =
        IF n > SNMinus(SNPlus(max, 1), e) THEN SNMinus(SNPlus(e, n), 1) ELSE max
  BY <1>1 DEF SNPlus, SNMinus, Serial, Modulus, Forward, SerialCompare
<1> QED
  BY <1>2, <1>3, <1>4

\* Whatever window a PDU announces, the initiator's follows the largest.
LEMMA ProcessWindowLemma ==
  ASSUME TypeOK, WindowInv, ProcessWindow
  PROVE  /\ {expcmdsn', maxcmdsn', cmdsn', tgtExp', tgtMax'} \subseteq Serial
         /\ WindowInv'
<1>1. PICK n \in 0 .. Window :
        LET max == SNMinus(SNPlus(tgtExp, n), 1) IN
        /\ tgtMax' = IF n > Room(tgtMax) THEN max ELSE tgtMax
        /\ maxcmdsn' = Forward(maxcmdsn, max)
        /\ expcmdsn' = Forward(expcmdsn, tgtExp)
        /\ UNCHANGED <<cmdsn, tgtExp>>
  BY DEF ProcessWindow
<1> DEFINE max == SNMinus(SNPlus(tgtExp, n), 1)
<1>2. /\ tgtExp \in Serial /\ tgtMax \in Serial /\ expcmdsn \in Serial
      /\ maxcmdsn = tgtMax /\ cmdsn = tgtExp
      /\ SNMinus(SNPlus(tgtMax, 1), tgtExp) \in 0 .. Window
  BY DEF TypeOK, WindowInv, Room
<1>3. /\ max \in Serial
      /\ SNMinus(SNPlus(max, 1), tgtExp) = n
      /\ Forward(tgtMax, max) = IF n > Room(tgtMax) THEN max ELSE tgtMax
  BY <1>2, GrantLemma DEF Room
<1>4. Forward(expcmdsn, tgtExp) \in Serial
  BY <1>2, ForwardLemma
<1>5. tgtMax' \in {max, tgtMax} /\ maxcmdsn' = tgtMax'
  BY <1>1, <1>2, <1>3
<1>6. Room(tgtMax)' \in 0 .. Window
  BY <1>1, <1>2, <1>3, <1>5 DEF Room
<1> QED
  BY <1>1, <1>2, <1>3, <1>4, <1>5, <1>6 DEF WindowInv

\* The StatSN of a PDU that is n after the last acknowledged one is taken
\* over; so is the one before it if the PDU has no task tag.
LEMMA StatLemma ==
  ASSUME NEW old \in Serial, NEW n \in 0 .. (Half - 1)
  PROVE  /\ Forward(old, SNPlus(old, n)) = SNPlus(old, n)
         /\ n >= 1 => Forward(old, SNMinus(SNPlus(old, n), 1)) = SNPlus(old, n - 1)
<1>1. Half \in Nat /\ Half >= 3
  BY HalfAssumption
<1>2. n >= 1 => SNMinus(SNPlus(old, n), 1) = SNPlus(old, n - 1)
  BY <1>1 DEF SNPlus, SNMinus, Serial, Modulus
<1> QED
  BY <1>1, <1>2 DEF SNPlus, Serial, Modulus, Forward, SerialCompare

\* Adding one after another.
LEMMA SNPlusAssoc ==
  ASSUME NEW s \in Serial, NEW n \in 0 .. 1
  PROVE  /\ SNPlus(SNPlus(s, n), 1) = SNPlus(s, n + 1)
         /\ SNPlus(s, 0) = s
BY HalfAssumption DEF SNPlus, Serial, Modulus

\* The invariant holds when the login starts, for a target whose first
\* StatSN is taken over.
LEMMA InitInv ==
  ASSUME Chap \/ InitStatSNs \subseteq 0 .. (Half - 1)
  PROVE  Init => SessionInv
<1> SUFFICES ASSUME Init PROVE SessionInv
  OBVIOUS
<1>1. TypeOK
  BY HalfAssumption, SessionAssumption DEF Init, TypeOK, Serial, Modulus
<1>2. StatInv
  <2>1. CASE Chap
    BY <2>1 DEF Init, StatInv
  <2>2. CASE ~Chap
    <3>1. tgtStat \in 0 .. (Half - 1) /\ statsn = 0 /\ stage = "phase2"
      BY <2>2 DEF Init
    <3>2. tgtStat = SNPlus(statsn, tgtStat)
      BY <3>1, HalfAssumption DEF SNPlus, Modulus
    <3> QED
      BY <3>1, <3>2 DEF StatInv
  <2> QED
    BY <2>1, <2>2
<1>3. WindowInv
  BY HalfAssumption, SessionAssumption
     DEF Init, WindowInv, Room, SNPlus, SNMinus, Serial, Modulus
<1> QED
  BY <1>1, <1>2, <1>3 DEF SessionInv

\* Every PDU of the target and every command keeps the invariant.
LEMMA NextInv == SessionInv /\ [Next]_vars => SessionInv'
<1> SUFFICES ASSUME SessionInv, [Next]_vars PROVE SessionInv'
  OBVIOUS
<1>0. /\ TypeOK /\ StatInv /\ WindowInv
      /\ statsn \in Serial /\ tgtStat \in Serial
      /\ Half \in Nat /\ Half >= 3
  BY HalfAssumption DEF SessionInv, TypeOK
<1>1. ASSUME ProcessWindow, statsn' \in Serial, tgtStat' \in Serial, StatInv',
             stage' \in {"login", "phase2", "full", "failed"}
      PROVE  SessionInv'
  BY <1>0, <1>1, ProcessWindowLemma DEF SessionInv, TypeOK
<1>2. stage = "full" => \E n \in 0 .. 1 : tgtStat = SNPlus(SNPlus(statsn, n), 1)
  BY <1>0, SNPlusAssoc DEF StatInv
<1>3. 0 \in Serial /\ 1 \in Serial /\ ReservedTag \in Serial /\ ReservedTag # 0
  BY <1>0 DEF Serial, Modulus, ReservedTag
<1>4. SNPlus(tgtStat, 1) \in Serial /\ SNPlus(tgtStat, 0) = tgtStat
  BY <1>0, <1>3, SNArithmetic, SNPlusAssoc
<1>5. CASE LoginReply
  <2>1. statsn' = tgtStat
    <3>1. CASE stage = "login"
      BY <1>5, <3>1 DEF LoginReply
    <3>2. CASE stage = "phase2"
      <4>1. PICK n \in 0 .. (Half - 1) : tgtStat = SNPlus(statsn, n)
        BY <1>0, <3>2 DEF StatInv
      <4>2. statsn' = Forward(statsn, tgtStat)
        BY <1>5, <3>2, <1>3 DEF LoginReply, ProcessStatSN
      <4> QED
        BY <1>0, <4>1, <4>2, StatLemma
    <3> QED
      BY <1>5, <3>1, <3>2 DEF LoginReply
  <2>2. tgtStat' = SNPlus(statsn', 1) /\ stage' \in {"phase2", "full"}
    BY <1>5, <2>1 DEF LoginReply
  <2>3. StatInv'
    BY <2>2, <1>0 DEF StatInv
  <2> QED
    BY <1>5, <1>1, <1>0, <1>4, <2>1, <2>2, <2>3 DEF LoginReply
<1>6. CASE LoginFails
  BY <1>0, <1>6 DEF LoginFails, SessionInv, TypeOK, StatInv, WindowInv, Room
<1>7. CASE Command
  <2>1. /\ cmdsn \in Serial /\ maxcmdsn \in Serial /\ tgtExp = cmdsn /\ tgtMax = maxcmdsn
        /\ Room(tgtMax) \in 0 .. Window /\ SerialCompare(cmdsn, maxcmdsn) <= 0
        /\ Window \in 1 .. (Half - 1)
    BY <1>0, <1>7, SessionAssumption DEF Command, TypeOK, WindowInv
  <2>2. cmdsn' \in Serial /\ cmdsn' = SNPlus(cmdsn, 1) /\ tgtExp' = cmdsn'
        /\ tgtMax' = tgtMax /\ maxcmdsn' = maxcmdsn
    BY <1>7, <2>1, <1>3, SNArithmetic DEF Command
  <2>3. Room(tgtMax)' \in 0 .. Window
    <3>1. SNMinus(SNPlus(maxcmdsn, 1), cmdsn) \in 0 .. Window
      BY <2>1 DEF Room
    <3>2. SNMinus(SNPlus(maxcmdsn, 1), SNPlus(cmdsn, 1)) \in 0 .. Window
      BY <2>1, <3>1, <1>0 DEF SNPlus, SNMinus, SerialCompare, Serial, Modulus
    <3> QED
      BY <2>1, <2>2, <3>2 DEF Room
  <2>4. StatInv'
    BY <1>0, <1>7 DEF Command, StatInv
  <2> QED
    BY <1>0, <1>7, <2>1, <2>2, <2>3, <2>4 DEF Command, SessionInv, TypeOK, WindowInv
<1>8. CASE Response
  <2>1. PICK n \in 1 .. 2 : tgtStat = SNPlus(statsn, n)
    BY <1>0, <1>8 DEF Response, StatInv
  <2>2. statsn' = Forward(statsn, tgtStat) /\ tgtStat' = SNPlus(tgtStat, 1) /\ stage' = "full"
    BY <1>8, <1>3 DEF Response, ProcessStatSN
  <2>3. statsn' = tgtStat
    BY <1>0, <2>1, <2>2, StatLemma
  <2>4. StatInv'
    BY <2>2, <2>3 DEF StatInv
  <2> QED
    BY <1>8, <1>1, <1>0, <1>4, <2>2, <2>3, <2>4 DEF Response
<1>9. CASE DataIn
  <2>1. StatInv'
    BY <1>0, <1>9 DEF DataIn, StatInv
  <2> QED
    BY <1>9, <1>1, <1>0, <2>1 DEF DataIn, TypeOK
<1>10. ASSUME stage = "full", ProcessStatSN(tgtStat, ReservedTag)
       PROVE  statsn' \in Serial /\ SNPlus(statsn', 1) = tgtStat
  <2>1. PICK n \in 1 .. 2 : tgtStat = SNPlus(statsn, n)
    BY <1>0, <1>10 DEF StatInv
  <2>2. statsn' = Forward(statsn, SNMinus(tgtStat, 1))
    BY <1>10 DEF ProcessStatSN
  <2>3. statsn' = SNPlus(statsn, n - 1) /\ n - 1 \in 0 .. 1
    BY <1>0, <2>1, <2>2, StatLemma
  <2>4. SNPlus(SNPlus(statsn, n - 1), 1) = SNPlus(statsn, n)
    BY <1>0, <2>3, SNPlusAssoc
  <2> QED
    BY <1>0, <1>3, <2>1, <2>3, <2>4, SNArithmetic
<1>11. CASE TargetNopIn
  <2>1. statsn' \in Serial /\ tgtStat' = SNPlus(statsn', 1) /\ stage' = "full"
    BY <1>10, <1>11 DEF TargetNopIn
  <2>2. StatInv'
    BY <2>1 DEF StatInv
  <2> QED
    BY <1>11, <1>1, <1>0, <2>1, <2>2 DEF TargetNopIn
<1>12. CASE RejectOrAsync
  <2>1. /\ statsn' \in Serial /\ tgtStat = SNPlus(statsn', 1)
        /\ tgtStat' = SNPlus(tgtStat, 1) /\ stage' = "full"
    BY <1>10, <1>12 DEF RejectOrAsync
  <2>2. tgtStat' = SNPlus(statsn', 2)
    BY <2>1, SNPlusAssoc
  <2>3. StatInv'
    BY <2>1, <2>2 DEF StatInv
  <2> QED
    BY <1>12, <1>1, <1>0, <1>4, <2>1, <2>3 DEF RejectOrAsync
<1>13. CASE Failed \/ UNCHANGED vars
  BY <1>0, <1>13 DEF Failed, vars, SessionInv, TypeOK, StatInv, WindowInv, Room
<1> QED
  BY <1>5, <1>6, <1>7, <1>8, <1>9, <1>11, <1>12, <1>13 DEF Next

\* The counters are numbers and the window kept by the initiator is the
\* largest the target has granted, in sessions of any length.
THEOREM SessionCorrect ==
  ASSUME Chap \/ InitStatSNs \subseteq 0 .. (Half - 1)
  PROVE  Spec => [](TypeOK /\ WindowIsGranted)
<1>1. SessionInv => TypeOK /\ WindowIsGranted
  BY SessionAssumption DEF SessionInv, WindowInv, WindowIsGranted, Room
<1> QED
  BY <1>1, InitInv, NextInv, PTL DEF Spec

\* The ExpStatSN the initiator sends follows the target's StatSN, if a user
\* name is set or the target starts below Half: iscsi_process_login_reply
\* takes over the first StatSN only in the first of these cases.
THEOREM AckCorrect ==
  ASSUME Chap \/ InitStatSNs \subseteq 0 .. (Half - 1)
  PROVE  Spec => []AckFollowsTarget
<1>1. SessionInv => AckFollowsTarget
  <2> SUFFICES ASSUME SessionInv, stage = "full"
               PROVE  SNPlus(statsn, 1) \in {tgtStat, SNMinus(tgtStat, 1)}
    BY DEF AckFollowsTarget
  <2>1. statsn \in Serial /\ \E n \in 1 .. 2 : tgtStat = SNPlus(statsn, n)
    BY DEF SessionInv, TypeOK, StatInv
  <2>2. SNMinus(SNPlus(statsn, 2), 1) = SNPlus(statsn, 1)
    BY <2>1, HalfAssumption DEF SNPlus, SNMinus, Serial, Modulus
  <2> QED
    BY <2>1, <2>2
<1> QED
  BY <1>1, InitInv, NextInv, PTL DEF Spec

=============================================================================
