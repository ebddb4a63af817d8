-------------------------------- MODULE Wire --------------------------------
(***************************************************************************)
(* SCSI commands between an application and a target.  An application does *)
(* one of these jobs: it sends a command about blocks; it fetches a list   *)
(* of unknown length, first with a short reply and then with one of the    *)
(* size the first one announced, as the tools do, while the list at the    *)
(* target may change; it reads a mode page and writes it back with one bit *)
(* changed; or it discovers targets.  The target reads the commands and    *)
(* lays out its replies as the SCSI standards say; the operators named Std *)
(* are that reference.                                                     *)
(***************************************************************************)
EXTENDS ScsiCommands, Discovery

CONSTANTS BlockCalls,   \* commands about blocks: [name, args]
          Kinds,        \* the lists an application may fetch
          Lists,        \* the contents a list may have
          FirstSizes,   \* allocation lengths of the first request, 8 or more
          PageFields,   \* mode pages of the target: [page_code, fields]
          Senses,       \* sense data: [format, key, ascq, info, field]
          TargetLists   \* what a portal offers: [name, portals]s

VARIABLES job,     \* what the application does
          phase,   \* idle, sent, answered, done
          req,     \* the request that was sent last
          tgt,     \* the list, page or sense data of the target
          was,     \* what it was when the target answered
          reply,   \* the bytes of the answer
          tries,   \* requests sent
          result   \* what the application gets

vars == <<job, phase, req, tgt, was, reply, tries, result>>

Session == [session_type |-> "normal", is_loggedin |-> TRUE,
            pending_reconnect |-> FALSE]

Init ==
  /\ job = [kind |-> "none"]
  /\ phase = "idle"
  /\ req = NULL
  /\ tgt = << >>
  /\ was = << >>
  /\ reply = << >>
  /\ tries = 0
  /\ result = NULL

-----------------------------------------------------------------------------
(* Commands about blocks *)

BlockRequest(c) ==
  LET a == c.args
  IN  CASE c.name = "read6" -> iscsi_read6_task(Session, a)
        [] c.name = "read10" -> iscsi_read10_task(Session, a)
        [] c.name = "read12" -> iscsi_read12_task(Session, a)
        [] c.name = "read16" -> iscsi_read16_task(Session, a)
        [] c.name = "write10" -> iscsi_write10_task(Session, a)
        [] c.name = "write12" -> iscsi_write12_task(Session, a)
        [] c.name = "write16" -> iscsi_write16_task(Session, a)
        [] c.name = "writeatomic16" -> iscsi_writeatomic16_task(Session, a)
        [] c.name = "orwrite" -> iscsi_orwrite_task(Session, a)
        [] c.name = "compareandwrite" -> iscsi_compareandwrite_task(Session, a)
        [] c.name = "writeverify10" -> iscsi_writeverify10_task(Session, a)
        [] c.name = "writeverify12" -> iscsi_writeverify12_task(Session, a)
        [] c.name = "writeverify16" -> iscsi_writeverify16_task(Session, a)
        [] c.name = "verify10" -> iscsi_verify10_task(Session, a)
        [] c.name = "verify12" -> iscsi_verify12_task(Session, a)
        [] c.name = "verify16" -> iscsi_verify16_task(Session, a)
        [] c.name = "writesame10" -> iscsi_writesame10_task(Session, a)
        [] c.name = "writesame16" -> iscsi_writesame16_task(Session, a)
        [] c.name = "prefetch10" -> iscsi_prefetch10_task(Session, a)
        [] c.name = "prefetch16" -> iscsi_prefetch16_task(Session, a)
        [] c.name = "synchronizecache10" ->
             iscsi_synchronizecache10_task(Session, a)
        [] c.name = "synchronizecache16" ->
             iscsi_synchronizecache16_task(Session, a)

SendBlocks ==
  /\ phase = "idle"
  /\ \E c \in BlockCalls :
       /\ job' = [kind |-> "blocks", call |-> c]
       /\ req' = BlockRequest(c)
  /\ phase' = "done"
  /\ tries' = 1
  /\ UNCHANGED <<tgt, was, reply, result>>

-----------------------------------------------------------------------------
(* Lists *)

\* The request of an application for the list, with this allocation length.
ListRequest(kind, size) ==
  LET a == [ lun |-> 1, alloc_len |-> size, report_type |-> 0, evpd |-> TRUE,
             page_code |-> 0, sa |-> 0, rctd |-> TRUE, options |-> 0,
             opcode |-> 0, lba |-> <<0, 0>>, msf |-> FALSE, format |-> 0,
             track |-> 0, dbd |-> TRUE, llbaa |-> FALSE, pc |-> 0,
             sub_page_code |-> 0, list_id |-> 1 ]
  IN  CASE kind = "luns" -> iscsi_reportluns_task(Session, a)
        [] kind = "keys" -> iscsi_persistent_reserve_in_task(Session, a)
        [] kind = "groups" ->
             iscsi_scsi_command_async(Session, 1,
               scsi_cdb_report_target_port_groups(size), << >>)
        [] kind = "pages" -> iscsi_inquiry_task(Session, a)
        [] kind = "serial" ->
             iscsi_inquiry_task(Session, [a EXCEPT !.page_code = \h80])
        [] kind = "ids" ->
             iscsi_inquiry_task(Session, [a EXCEPT !.page_code = \h83])
        [] kind = "copy" ->
             iscsi_inquiry_task(Session, [a EXCEPT !.page_code = \h8F])
        [] kind = "opcodes" -> iscsi_report_supported_opcodes_task(Session, a)
        [] kind = "extents" -> iscsi_get_lba_status_task(Session, a)
        [] kind = "tracks" -> iscsi_readtoc_task(Session, a)
        [] kind = "segments" ->
             iscsi_receive_copy_results_task(Session, [a EXCEPT !.sa = 3])

Concat(f, list) ==
  LET all[i \in 0 .. Len(list)] ==
        IF i = 0 THEN << >> ELSE all[i - 1] \o f[list[i]]
  IN  all[Len(list)]

Rep(v, n) == [i \in 1 .. n |-> v]

\* The target's bytes for one element v of a list.
StdElement(kind) ==
  [v \in 1 .. 3 |->
     CASE kind = "luns" -> <<0, v>> \o Rep(0, 6)
       [] kind = "keys" -> Rep(0, 7) \o <<v>>
       [] kind = "groups" -> <<128, 0, 0, v, 0, 1, 0, v>>
                             \o Concat([p \in 1 .. 3 |-> <<0, 0, 0, p>>],
                                       [p \in 1 .. v |-> p])
       [] kind \in {"pages", "serial", "segments"} -> <<v>>
       [] kind = "ids" -> <<\h53, \h93, 0, v>> \o Rep(v, v)
       [] kind = "copy" -> <<v, v>> \o Rep(v, v)
       [] kind = "opcodes" ->
            IF v = 2
            THEN <<v, 0, 0, v, 0, 3, 0, 6>> \o <<0, 10, 0, v>> \o Rep(0, 8)
            ELSE <<v, 0, 0, v, 0, 1, 0, 6>>
       [] kind = "extents" -> Rep(0, 7) \o <<v, 0, 0, 0, v, v, 0, 0, 0>>
       [] kind = "tracks" -> <<0, 4, v, 0, 0, 0, 0, v>>]

\* The whole answer.
Std(kind, list) ==
  LET body == Concat(StdElement(kind), list)
      n == Len(body)
  IN  CASE kind = "luns" -> scsi_set_uint32(n) \o Rep(0, 4) \o body
        [] kind = "keys" -> scsi_set_uint32(7) \o scsi_set_uint32(n) \o body
        [] kind \in {"groups", "opcodes"} -> scsi_set_uint32(n) \o body
        [] kind = "pages" -> <<0, 0, 0, n>> \o body
        [] kind = "serial" -> <<0, \h80, 0, n>> \o body
        [] kind = "ids" -> <<0, \h83>> \o scsi_set_uint16(n) \o body
        [] kind = "copy" ->
             <<0, \h8F>> \o scsi_set_uint16(n + 5) \o <<0, 1>>
             \o scsi_set_uint16(n + 1) \o <<n>> \o body
        [] kind = "extents" -> scsi_set_uint32(n + 4) \o Rep(0, 4) \o body
        [] kind = "tracks" ->
             scsi_set_uint16(n + 10) \o <<1, Len(list)>> \o body
             \o <<0, 4, \hAA, 0, 0, 0, 0, 99>>
        [] kind = "segments" ->
             scsi_set_uint32(n + 40) \o Rep(0, 39) \o <<n>> \o body

\* The list an application reads out of a result.
ListOf(kind, r) ==
  CASE kind = "luns" -> r.luns
    [] kind = "keys" -> [i \in DOMAIN r.keys |-> r.keys[i][2]]
    [] kind = "groups" -> [i \in DOMAIN r.groups |-> r.groups[i].port_group]
    [] kind = "pages" -> r.pages
    [] kind = "serial" -> r.usn
    [] kind = "ids" -> [i \in DOMAIN r.designators |->
                          r.designators[i].designator_length]
    [] kind = "copy" -> [i \in DOMAIN r.supported_commands |->
                           r.supported_commands[i].operation_code]
    [] kind = "opcodes" -> [i \in DOMAIN r.descriptors |->
                              r.descriptors[i].sa]
    [] kind = "extents" -> [i \in DOMAIN r.descriptors |->
                              r.descriptors[i].lba[2]]
    [] kind = "tracks" -> [i \in DOMAIN r.desc |-> r.desc[i].lba]
    [] kind = "segments" -> r.codes

\* The library builds these two lists back to front.
InOrder(kind, list) ==
  IF kind \in {"ids", "copy"}
  THEN [i \in DOMAIN list |-> list[Len(list) + 1 - i]] ELSE list

StartFetch ==
  /\ phase = "idle"
  /\ \E kind \in Kinds, size \in FirstSizes, list \in Lists :
       /\ ListRequest(kind, size) # NULL
       /\ job' = [kind |-> kind, size |-> size, changed |-> FALSE]
       /\ req' = ListRequest(kind, size)
       /\ tgt' = list
  /\ phase' = "sent"
  /\ tries' = 1
  /\ UNCHANGED <<was, reply, result>>

\* Another initiator, or the target itself, changes the list.
TargetChanges ==
  /\ job.kind \in Kinds
  /\ phase \in {"sent", "answered"}
  /\ ~job.changed
  /\ tgt' \in Lists \ {tgt}
  /\ job' = [job EXCEPT !.changed = TRUE]
  /\ UNCHANGED <<phase, req, was, reply, tries, result>>

\* The target answers with as much as was asked for.
TargetAnswers ==
  /\ job.kind \in Kinds
  /\ phase = "sent"
  /\ reply' = SubSeq(Std(job.kind, tgt), 1,
                     Least(req.expxferlen, Len(Std(job.kind, tgt))))
  /\ was' = tgt
  /\ phase' = "answered"
  /\ UNCHANGED <<job, req, tgt, tries, result>>

\* The full size is more than came (for the port groups: more than was asked
\* for): ask again, once.
FullSize == scsi_datain_getfullsize(req.cdb, reply)
CutShort == FullSize > (IF job.kind = "groups" THEN job.size ELSE Len(reply))

AskAgain ==
  /\ job.kind \in Kinds
  /\ phase = "answered"
  /\ tries = 1
  /\ CutShort
  /\ req' = ListRequest(job.kind, FullSize)
  /\ job' = [job EXCEPT !.size = FullSize]
  /\ tries' = 2
  /\ phase' = "sent"
  /\ UNCHANGED <<tgt, was, reply, result>>

\* iscsi-rtpg gives up when the second answer is short as well; the others
\* take what they have.
Unmarshall ==
  /\ job.kind \in Kinds
  /\ phase = "answered"
  /\ tries = 2 \/ ~CutShort
  /\ result' = IF job.kind = "groups" /\ CutShort THEN NULL
               ELSE scsi_datain_unmarshall(req.cdb, reply)
  /\ phase' = "done"
  /\ UNCHANGED <<job, req, tgt, was, reply, tries>>

-----------------------------------------------------------------------------
(* Mode pages and sense data *)

\* A page as the target stores it: byte 0 and 1 its header.
StdPage(p) == <<p.page_code + 128, Len(p.bytes)>> \o p.bytes

\* iscsi-swp: MODE SENSE(10), take the page, clear PS, set one bit, MODE
\* SELECT(10).
RewritePage ==
  /\ phase = "idle"
  /\ \E p \in PageFields :
       LET d == <<0, 8 + Len(p.bytes), 0, 0, 0, 0, 0, 0>> \o StdPage(p)
           mp == scsi_modesense_get_page(
                   scsi_modesense_datain_unmarshall(d, FALSE), p.page_code, 0)
           new == [mp EXCEPT !.ps = 0, !.fields[p.flip] = 1 - @]
       IN  /\ job' = [kind |-> "page", page |-> p]
           /\ tgt' = p.bytes
           /\ req' = iscsi_modeselect10_task(Session,
                       [lun |-> 1, pf |-> TRUE, sp |-> FALSE, mp |-> new])
           /\ reply' = scsi_modesense_dataout_marshall(new, FALSE)
  /\ phase' = "done"
  /\ tries' = 2
  /\ UNCHANGED <<was, result>>

\* The sense data of the target: fixed format, or descriptor format with one
\* descriptor.
StdSense(x) ==
  IF x.format = "fixed"
  THEN <<\h70 + (IF x.info > 0 THEN 128 ELSE 0), 0, x.key>>
       \o scsi_set_uint32(x.info) \o <<10, 0, 0, 0, 0>>
       \o scsi_set_uint16(x.ascq) \o <<0>>
       \o (IF x.field > 0 THEN <<\hCB>> \o scsi_set_uint16(x.field)
                          ELSE <<0, 0, 0>>)
  ELSE LET desc == IF x.info > 0
                   THEN <<0, 10, 128, 0, 0, 0, 0, 0>> \o scsi_set_uint32(x.info)
                   ELSE IF x.field > 0
                   THEN <<2, 6, 0, 0, \hCB>> \o scsi_set_uint16(x.field) \o <<0>>
                   ELSE << >>
       IN  <<\h72, x.key>> \o scsi_set_uint16(x.ascq)
           \o <<0, 0, 0, Len(desc)>> \o desc

CheckCondition ==
  /\ phase = "idle"
  /\ \E x \in Senses :
       /\ job' = [kind |-> "sense", sense |-> x]
       /\ reply' = StdSense(x)
       /\ result' = scsi_parse_sense_data(StdSense(x))
  /\ phase' = "done"
  /\ UNCHANGED <<req, tgt, was, tries>>

\* SendTargets: a name and its portals, target after target; the last string
\* may lack its NUL.
StdText(targets) ==
  LET strings(t) == <<[key |-> "TargetName", value |-> t.name]>>
                    \o [i \in DOMAIN t.portals |->
                          [key |-> "TargetAddress", value |-> t.portals[i]]]
  IN  Concat([i \in DOMAIN targets |-> strings(targets[i])],
             [i \in DOMAIN targets |-> i])

Discover ==
  /\ phase = "idle"
  /\ \E targets \in TargetLists, flags \in {"final", "continue"},
        end \in {"", "cut"} :
       LET text == Append(StdText(targets), [key |-> end, value |-> 0])
       IN  /\ job' = [ kind |-> "discover", targets |-> targets,
                       whole |-> flags = "final" /\ end = "" ]
           /\ result' = iscsi_discovery_cb(
                          iscsi_process_text_reply(flags, text))
  /\ phase' = "done"
  /\ UNCHANGED <<req, tgt, was, reply, tries>>

Done == phase = "done" /\ UNCHANGED vars

Next == SendBlocks \/ StartFetch \/ TargetChanges \/ TargetAnswers \/ AskAgain
        \/ Unmarshall \/ RewritePage \/ CheckCondition \/ Discover \/ Done

Spec == Init /\ [][Next]_vars

-----------------------------------------------------------------------------
(* Properties *)

\* How SBC reads a CDB: the group code of the operation code gives the
\* layout.
StdBlocks(b) ==
  CASE b[0] \div 32 = 0 ->
         [ lba |-> <<0, (b[1] % 32) * 65536 + b[2] * 256 + b[3]>>,
           blocks |-> IF b[4] = 0 THEN 256 ELSE b[4] ]
    [] b[0] \div 32 \in {1, 2} ->
         [ lba |-> <<0, scsi_get_uint32(b, 2)>>,
           blocks |-> scsi_get_uint16(b, 7) ]
    [] b[0] \div 32 = 5 ->
         [ lba |-> <<0, scsi_get_uint32(b, 2)>>,
           blocks |-> scsi_get_uint32(b, 6) ]
    [] b[0] = Opcode.compareandwrite ->
         [lba |-> scsi_get_uint64(b, 2), blocks |-> b[13]]
    [] b[0] = Opcode.writeatomic16 ->
         [ lba |-> scsi_get_uint64(b, 2), blocks |-> scsi_get_uint16(b, 12) ]
    [] OTHER ->
         [ lba |-> scsi_get_uint64(b, 2), blocks |-> scsi_get_uint32(b, 10) ]

\* The number of blocks a call is about.
Asked(c) ==
  LET n == IF c.name \in {"writesame10", "writesame16", "prefetch10",
                          "prefetch16", "synchronizecache10",
                          "synchronizecache16"}
           THEN c.args.blocks ELSE Blocks(c.args)
  IN  IF c.name = "compareandwrite" THEN n \div 2 ELSE n

\* Whether the CDB has room for the number of blocks.  Only scsi_cdb_read6
\* refuses what it has no room for; the others send the low bits.
Fits(c) ==
  CASE req.cdb_size = 6 -> Asked(c) > 0
    [] c.name = "compareandwrite" -> Asked(c) < 256
    [] req.cdb_size = 10 \/ c.name = "writeatomic16" -> Asked(c) < 65536
    [] OTHER -> TRUE

Sent == job.kind = "blocks" /\ req # NULL

\* What the initiator announces to transfer is what the target will transfer
\* for the CDB: the two never wait for bytes the other does not send.
LengthsAgree ==
  req.expxferlen > 0 /\ job.call.name \notin {"writesame10", "writesame16"} =>
    req.expxferlen = StdBlocks(req.cdb).blocks * job.call.args.blocksize
                     * (IF job.call.name = "compareandwrite" THEN 2 ELSE 1)

\* scsi_cdb_unmarshall gives back the arguments of the call, flags included,
\* for every CDB it knows.
UnmarshallUndoesMarshall ==
  LET u == scsi_cdb_unmarshall(req)
      a == job.call.args
  IN  u # NULL =>
        /\ u.lba = a.lba
        /\ u.blocks = IF job.call.name = "read6" THEN Asked(job.call) % 256
                      ELSE Asked(job.call)
        /\ \A f \in {"protect", "dpo", "fua", "fua_nv", "bytchk"} \cap DOMAIN u :
             u[f] = a[f]

\* Whenever the CDB has room for what a scsi_cdb_* call was asked for, three
\* readers of it agree: the target reads the address and the number of blocks
\* of the call, the transfer announced beside the CDB has the length the
\* target will transfer, and scsi_cdb_unmarshall gives back the arguments.
CommandSaysWhatWasAsked ==
  Sent /\ Fits(job.call) =>
    /\ StdBlocks(req.cdb) = [lba |-> job.call.args.lba, blocks |-> Asked(job.call)]
    /\ LengthsAgree
    /\ UnmarshallUndoesMarshall

Fetched == job.kind \in Kinds /\ phase = "done" /\ result # NULL
Whole == reply = Std(job.kind, was)

\* A list that did not change while it was fetched is fetched whole, and in
\* the order of the target, whatever the size of the first request; page 8F,
\* GET LBA STATUS and RECEIVE COPY RESULTS have no full size to ask for.
StableListIsComplete ==
  job.kind \in Kinds /\ phase = "done" /\ ~job.changed
    /\ (FullSize # -1 \/ Whole) =>
      /\ result # NULL
      /\ InOrder(job.kind, ListOf(job.kind, result)) = tgt

\* When the list changes between the two requests the second answer may be
\* cut off.  For LUNs, keys and port groups the application then still gets a
\* beginning of the list as it was when the target answered, and nothing that
\* is not in it; for the others, bytes from behind the reply reach it only
\* when the reply was cut off, and never where task_get_uint* is used.
CutListIsPrefix ==
  Fetched =>
    LET l == ListOf(job.kind, result)
    IN  /\ job.kind \in {"luns", "keys", "groups"} =>
             Len(l) <= Len(was) /\ l = SubSeq(was, 1, Len(l))
        /\ (\E i \in DOMAIN l : l[i] = Wild) =>
             ~Whole /\ job.kind \in {"pages", "serial", "ids", "copy"}

\* iscsi-swp: the page that goes back to the target is the page that came,
\* but for the one bit, and its lengths are right.
RewriteKeepsPage ==
  job.kind = "page" =>
    LET p == job.page
        page == SubSeq(reply, 9, Len(reply))
        at == ParseLayout(p.page_code)[p.flip]
    IN  /\ Len(page) = Len(p.bytes) + 2
        /\ page[1] = p.page_code
        /\ page[2] = Len(p.bytes)
        /\ \A k \in DOMAIN p.bytes :
             page[k + 2] = p.bytes[k]
                           + (IF k # at[1] + 1 THEN 0
                              ELSE IF (p.bytes[k] \div 2 ^ at[2]) % 2 = 1
                              THEN -(2 ^ at[2]) ELSE 2 ^ at[2])
        /\ scsi_get_uint16(req.cdb, 7) = Len(reply)
        /\ req.expxferlen = Len(reply)
        /\ req.iov_out = <<Len(reply)>>

\* Fixed and descriptor format say the same: key, code, information and the
\* field pointer are what the target reported, and absent when it did not.
SenseSaysWhatHappened ==
  job.kind = "sense" =>
    LET x == job.sense
    IN  /\ result.key = x.key
        /\ result.ascq = scsi_set_uint16(x.ascq)
        /\ ("information" \in DOMAIN result) = (x.info > 0)
        /\ x.info > 0 =>
             result.information = scsi_set_uint64(<<0, x.info>>)
        /\ ("field_pointer" \in DOMAIN result) = (x.field > 0)
        /\ x.field > 0 => result.field_pointer = scsi_set_uint16(x.field)

\* The two reversals, of the parser and of the copy, cancel out for targets
\* and for portals: discovery gives the targets in the order of the portal,
\* each with its own portals, and nothing when the reply is not complete.
DiscoveryKeepsOrder ==
  job.kind = "discover" =>
    IF job.whole THEN result = [valid |-> TRUE, targets |-> job.targets]
    ELSE ~result.valid

=============================================================================
