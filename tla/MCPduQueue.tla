---------------------------- MODULE MCPduQueue ----------------------------
(* Model-checking instance of PduQueue: requests are interchangeable. *)
EXTENDS PduQueue

Symmetry == Permutations(Reqs)

=============================================================================
