------------------------------- MODULE Lists --------------------------------
(***************************************************************************)
(* The lists of PDUs of the initiator (include/slist.h), as sequences.     *)
(***************************************************************************)
EXTENDS Integers, Sequences, FiniteSets

\* ISCSI_LIST_REMOVE of everything else: the elements of s at the indices I
\* in their order, read along the increasing enumeration of I.  The set has
\* exactly one element.
Retain(s, I) ==
  UNION {{[k \in 1 .. n |-> s[f[k]]] :
            f \in {g \in [1 .. n -> I] :
                     /\ \A a, b \in 1 .. n : a < b => g[a] < g[b]
                     /\ \A i \in I : \E a \in 1 .. n : g[a] = i}} :
         n \in {m \in 0 .. Len(s) : m = Cardinality(I)}}

\* The element of s at the smallest of the indices I, if there is one.
First(s, I) == {s[i] : i \in {j \in I : \A k \in I : j <= k}}

=============================================================================
