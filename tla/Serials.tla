------------------------------ MODULE Serials ------------------------------
(***************************************************************************)
(* Serial number arithmetic of the initiator (lib/pdu.c).  CmdSN, StatSN   *)
(* and the initiator task tag are uint32_t in the code; here they are the  *)
(* residues modulo 2 * Half, with Half = 2^31 in the real program.  All    *)
(* the operators are linear in Half, so a small Half has every case of the *)
(* real one: equality, both sides of the wrap, and the distance Half at    *)
(* which RFC 1982 leaves the comparison undefined.                         *)
(***************************************************************************)
EXTENDS Integers

CONSTANT Half        \* half of the number space, 2^31 in the code

ASSUME HalfAssumption == Half \in Nat /\ Half >= 3

Modulus == 2 * Half

\* A uint32_t.
Serial == 0 .. (Modulus - 1)

\* Mutant of SNPlus: no wrap.
SNPlusUnbounded(s, n) == s + n

\* uint32_t addition and subtraction of at most one turn.
SNPlus(s, n) == IF s + n < Modulus THEN s + n ELSE s + n - Modulus

SNMinus(s, n) == IF s >= n THEN s - n ELSE s - n + Modulus

\* iscsi_serial32_compare: the chain of returns, the "undefined result" of
\* the last line (distance exactly Half) folded into the two branches.
SerialCompare(s1, s2) ==
  IF s1 = s2 THEN 0
  ELSE IF s1 < s2 THEN (IF s2 - s1 > Half THEN 1 ELSE -1)
  ELSE (IF s1 - s2 < Half THEN 1 ELSE -1)

\* The value reserved for "no task tag" (0xffffffff).
ReservedTag == Modulus - 1

\* iscsi_itt_post_increment: what iscsi->itt is after a tag was taken.
NextTag(itt) ==
  LET n == SNPlus(itt, 1) IN IF n = ReservedTag THEN 0 ELSE n

\* Mutant of Forward: the PDU's value is taken whatever it is.
ForwardAlways(old, new) == new

\* A counter that iscsi_process_pdu_serials moves only if the PDU's value
\* compares greater.
Forward(old, new) == IF SerialCompare(new, old) > 0 THEN new ELSE old

=============================================================================
