----------------------------- MODULE Discovery ------------------------------
(***************************************************************************)
(* What SendTargets returns (lib/discovery.c, lib/sync.c).  A reply is a   *)
(* sequence of strings, [key, value]; the key is TargetName, TargetAddress,*)
(* "" for an empty string, other for anything else, and cut for a last     *)
(* string without its NUL.                                                 *)
(***************************************************************************)
EXTENDS Sequences, Integers

Invalid == [valid |-> FALSE]

\* Targets, and the portals of each, are put in front of their lists.
iscsi_process_text_reply(flags, strings) ==
  LET parse[i \in Nat, targets \in Seq([name : Nat, portals : Seq(Nat)])] ==
        IF i > Len(strings) \/ strings[i].key = ""
        THEN [valid |-> TRUE, targets |-> targets]
        ELSE LET x == strings[i]
             IN  CASE x.key = "TargetName" ->
                        parse[i + 1, <<[name |-> x.value, portals |-> << >>]>>
                                     \o targets]
                   [] x.key = "TargetAddress" /\ targets # << >> ->
                        parse[i + 1,
                              [targets EXCEPT ![1].portals = <<x.value>> \o @]]
                   [] OTHER -> Invalid
  IN  IF flags # "final" THEN Invalid ELSE parse[1, << >>]

Backwards(s) == [i \in DOMAIN s |-> s[Len(s) + 1 - i]]

\* Mutant of iscsi_discovery_cb: the portals are appended.
DiscoveryPortalsAppended(r) ==
  IF ~r.valid THEN r ELSE [valid |-> TRUE, targets |-> Backwards(r.targets)]

\* The copy that outlives the callback is made the same way.
iscsi_discovery_cb(r) ==
  IF ~r.valid THEN r
  ELSE [ valid |-> TRUE,
         targets |-> [i \in DOMAIN r.targets |->
                        LET t == Backwards(r.targets)[i]
                        IN  [t EXCEPT !.portals = Backwards(@)]] ]

=============================================================================
