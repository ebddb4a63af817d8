------------------------------ MODULE Transfer ------------------------------
(***************************************************************************)
(* The data of one SCSI command on its way between the buffers of the      *)
(* application and the target: how iscsi_scsi_command_async and            *)
(* iscsi_send_data_out cut it into PDUs (lib/iscsi-command.c), how         *)
(* iscsi_iovector_readv_writev finds the buffers for each piece, and how   *)
(* the socket takes and gives it in parts of any size (lib/socket.c), with *)
(* padding and data digests; and what is left of that when the connection  *)
(* is lost and the command goes out again (lib/connect.c).                 *)
(*                                                                         *)
(* A byte of the transfer is named by its position: byte k of the buffers  *)
(* of the application, all of them end to end, is the number k.  A digest  *)
(* is the sequence of the bytes it was computed over.                      *)
(***************************************************************************)
EXTENDS ScsiCommands

CONSTANTS Calls,          \* the calls the application makes: [name, args]
          Sessions,       \* what a login may negotiate
          MaxReconnects,  \* how often the connection is lost
          Pings           \* data lengths of the NOP-Outs sent on the side

\* Lengths are numbers; no limit is zero that a login negotiates as a positive
\* number.
ASSUME TransferAssumption ==
  /\ \A c \in Calls :
       /\ c.name \in {"read16", "write16", "verify16", "writesame16", "unmap"}
       /\ c.args.iov \in Seq(Nat) /\ c.args.data \in Seq(Nat)
       /\ c.args.xferlen \in Nat /\ c.args.datalen \in Nat
       /\ Len(c.args.list) \in Nat
  /\ \A n \in Sessions :
       /\ n.use_immediate_data \in BOOLEAN
       /\ n.use_initial_r2t \in BOOLEAN
       /\ n.data_digest \in BOOLEAN
       /\ n.first_burst_length \in Nat
       /\ n.target_max_recv_data_segment_length \in Nat \ {0}
       /\ n.initiator_max_recv_data_segment_length \in Nat \ {0}
       /\ n.max_burst_length \in Nat \ {0}
  /\ MaxReconnects \in Nat
  /\ Pings \subseteq Nat

VARIABLES
  s,        \* the session: negotiated limits and digest
  req,      \* the SCSI task, NULL before the call
  status,   \* idle, active, done, failed
  vec,      \* iovector.offset and iovector.consumed of the task
  outq,     \* the PDUs to send
  cur,      \* outqueue_current and how much of it was written
  got,      \* the PDUs the target has received on this connection
  incoming, \* the DATA-IN PDU that is being read
  indata,   \* pdu->indata: what was read without a buffer
  mem,      \* the buffers of the application, for reads
  answered, \* how much the target has sent, for reads
  pings, reconnects

vars == <<s, req, status, vec, outq, cur, got, incoming, indata, mem, answered,
          pings, reconnects>>

None == [kind |-> "none"]

\* The lengths of the first k buffers added up, for every k.
Sums(iov) ==
  LET sum[k \in 0 .. Len(iov)] == IF k = 0 THEN 0 ELSE sum[k - 1] + iov[k]
  IN  sum
Total(iov) == Sums(iov)[Len(iov)]

\* The number of bytes that fill n up to a multiple of four.
Padding(n) == (4 - (n % 4)) % 4
Pad == -1
Pads(n) == [i \in 1 .. n |-> Pad]

\* A byte of a buffer that nothing was read into.
Garbage == -2

-----------------------------------------------------------------------------
(* Cutting the data into PDUs *)

\* Mutant of iscsi_send_data_out: every sequence starts at buffer offset 0.
DataOutFromZero(n, ttt, offset, tot_len) ==
  LET size == n.target_max_recv_data_segment_length
      k == (tot_len + size - 1) \div size
  IN  [i \in 1 .. k |->
         [ kind |-> "data", ttt |-> ttt, datasn |-> i - 1,
           payload_offset |-> (i - 1) * size,
           payload_len |-> Least(size, tot_len - (i - 1) * size),
           inline |-> 0, final |-> i = k ]]

\* Data-Outs of at most target_max_recv_data_segment_length bytes, the last
\* one with the F bit; DataSN counts from 0.
iscsi_send_data_out(n, ttt, offset, tot_len) ==
  LET size == n.target_max_recv_data_segment_length
      k == (tot_len + size - 1) \div size
  IN  [i \in 1 .. k |->
         [ kind |-> "data", ttt |-> ttt, datasn |-> i - 1,
           payload_offset |-> offset + (i - 1) * size,
           payload_len |-> Least(size, tot_len - (i - 1) * size),
           inline |-> 0, final |-> i = k ]]

\* Mutant of FirstBurst: everything goes out unasked.
FirstBurstUnlimited(n, r) == r.expxferlen

\* The data that may go out before the target asks for it.
FirstBurst(n, r) == Least(r.expxferlen, n.first_burst_length)

\* The command PDU with its immediate data, and the unsolicited Data-Outs
\* that the F bit, when it is dropped, announces.
CommandPdus(n, r) ==
  LET write == r.xfer_dir = "write"
      burst == FirstBurst(n, r)
      len == IF write /\ n.use_immediate_data
             THEN Least(burst, n.target_max_recv_data_segment_length) ELSE 0
      more == /\ write
              /\ ~n.use_initial_r2t
              /\ len < r.expxferlen
              /\ len < n.first_burst_length
  IN  << [ kind |-> "command", ttt |-> "none", datasn |-> 0,
           payload_offset |-> 0, payload_len |-> len, inline |-> 0,
           final |-> ~more ] >>
      \o IF more THEN iscsi_send_data_out(n, "none", len, burst - len)
                 ELSE << >>

-----------------------------------------------------------------------------
(* Finding the buffers *)

\* The bytes that are passed to readv or writev for `count' bytes at position
\* pos: elements are skipped until pos is in the first one, which moves
\* v.offset and v.consumed for good, and added until count bytes are there.
iscsi_iovector_readv_writev(iov, v, pos, count) ==
  LET upto == Sums(iov)
      skipped == upto[v.consumed]
      heads == {k \in v.consumed .. (Len(iov) - 1) :
                  pos - v.offset < upto[k + 1] - skipped}
      head == IF heads = {} THEN Len(iov) ELSE Min(heads)
      w == [offset |-> v.offset + upto[head] - skipped, consumed |-> head]
      start == pos - w.offset
      tails == {k \in (head + 1) .. Len(iov) :
                  start + count <= upto[k] - upto[head]}
      EINVAL(x) == [ok |-> FALSE, vec |-> x, bytes |-> << >>]
  IN  CASE iov = << >> \/ pos < v.offset \/ v.consumed >= Len(iov) -> EINVAL(v)
        [] iov # << >> /\ pos >= v.offset /\ v.consumed < Len(iov)
           /\ (heads = {} \/ tails = {}) -> EINVAL(w)
        [] OTHER ->
             [ ok |-> TRUE, vec |-> w,
               bytes |-> [i \in 1 .. count |-> upto[head] + start + i - 1] ]

-----------------------------------------------------------------------------
(* The calls *)

Init ==
  /\ s \in Sessions
  /\ req = NULL
  /\ status = "idle"
  /\ vec = [offset |-> 0, consumed |-> 0]
  /\ outq = << >>
  /\ cur = None
  /\ got = << >>
  /\ incoming = None
  /\ indata = << >>
  /\ mem = << >>
  /\ answered = 0
  /\ pings = {}
  /\ reconnects = 0

Request(c) ==
  LET n == [session_type |-> "normal", is_loggedin |-> TRUE,
            pending_reconnect |-> FALSE]
      a == c.args
  IN  CASE c.name = "read16" -> iscsi_read16_task(n, a)
        [] c.name = "write16" -> iscsi_write16_task(n, a)
        [] c.name = "verify16" -> iscsi_verify16_task(n, a)
        [] c.name = "writesame16" -> iscsi_writesame16_task(n, a)
        [] c.name = "unmap" -> iscsi_unmap_task(n, a)

Command ==
  /\ status = "idle"
  /\ \E c \in Calls :
       /\ Request(c) # NULL
       /\ req' = Request(c)
       /\ outq' = CommandPdus(s, Request(c))
       /\ mem' = [i \in 1 .. Total(Request(c).iov_in) |-> Garbage]
  /\ status' = "active"
  /\ UNCHANGED <<s, vec, cur, got, incoming, indata, answered, pings,
                 reconnects>>

\* iscsi_nop_out_async: its data is part of the PDU, padded when it is added.
Ping(len) ==
  /\ status = "active"
  /\ len \in Pings \ pings
  /\ pings' = pings \union {len}
  /\ outq' = Append(outq, [ kind |-> "ping", ttt |-> "none", datasn |-> 0,
                            payload_offset |-> 0, payload_len |-> 0,
                            inline |-> len, final |-> TRUE ])
  /\ UNCHANGED <<s, req, status, vec, cur, got, incoming, indata, mem, answered,
                 reconnects>>

-----------------------------------------------------------------------------
(* iscsi_write_to_socket *)

\* The next PDU is popped and its header written; data that is part of the
\* PDU goes out with the header, and into the digest once.
WriteHeader ==
  /\ status = "active"
  /\ cur = None
  /\ outq # << >>
  /\ LET p == Head(outq)
         inline == [i \in 1 .. p.inline |-> i - 1] \o Pads(Padding(p.inline))
     IN  cur' = [ kind |-> "writing", pdu |-> p, payload_written |-> 0,
                  digest |-> IF s.data_digest THEN inline ELSE << >>,
                  wire |-> inline, trailer |-> << >> ]
  /\ outq' = Tail(outq)
  /\ UNCHANGED <<s, req, status, vec, got, incoming, indata, mem, answered,
                 pings, reconnects>>

\* The socket takes the first n bytes of what it was given.
Wrote(bytes, n, v) ==
  /\ cur' = [cur EXCEPT !.payload_written = @ + n,
                        !.wire = @ \o SubSeq(bytes, 1, n),
                        !.digest = IF s.data_digest
                                   THEN @ \o SubSeq(bytes, 1, n) ELSE @]
  /\ vec' = v
  /\ UNCHANGED <<s, req, status, outq, got, incoming, indata, mem, answered,
                 pings, reconnects>>

WritePayload ==
  /\ cur # None
  /\ status = "active"
  /\ cur.payload_written < cur.pdu.payload_len
  /\ LET w == iscsi_iovector_readv_writev(
                req.iov_out, vec,
                cur.pdu.payload_offset + cur.payload_written,
                cur.pdu.payload_len - cur.payload_written)
     IN  \/ w.ok /\ \E n \in 1 .. Len(w.bytes) : Wrote(w.bytes, n, w.vec)
         \/ /\ ~w.ok
            /\ status' = "failed"
            /\ vec' = w.vec
            /\ UNCHANGED <<s, req, outq, cur, got, incoming, indata, mem,
                           answered, pings, reconnects>>

\* The length of the payload with its padding.
Padded(p) == p.payload_len + Padding(p.payload_len)

WritePadding ==
  /\ cur # None
  /\ status = "active"
  /\ cur.payload_written \in cur.pdu.payload_len .. (Padded(cur.pdu) - 1)
  /\ LET left == Padded(cur.pdu) - cur.payload_written
     IN  \E n \in 1 .. left : Wrote(Pads(left), n, vec)

\* Mutant of HasDigest: the data of a NOP-Out is forgotten.
HasDigestPayload == s.data_digest /\ cur.payload_written > 0

\* Only PDUs with data have a data digest.
HasDigest ==
  s.data_digest /\ (cur.pdu.inline > 0 \/ cur.payload_written > 0)

\* Four bytes of it: byte i of the digest of everything chained so far.
WriteDigest ==
  /\ cur # None
  /\ status = "active"
  /\ HasDigest
  /\ cur.payload_written \in Padded(cur.pdu) .. (Padded(cur.pdu) + 3)
  /\ LET todo == Padded(cur.pdu) + 4 - cur.payload_written
     IN  \E n \in 1 .. todo :
           cur' = [cur EXCEPT
                     !.payload_written = @ + n,
                     !.trailer = @ \o [i \in 1 .. n |->
                                         [ of |-> cur.digest,
                                           byte |-> 4 - todo + i ]]]
  /\ UNCHANGED <<s, req, status, vec, outq, got, incoming, indata, mem,
                 answered, pings, reconnects>>

\* Everything is written: the PDU is with the target.
WriteDone ==
  /\ cur # None
  /\ status = "active"
  /\ cur.payload_written = Padded(cur.pdu) + (IF HasDigest THEN 4 ELSE 0)
  /\ got' = Append(got, Merged(cur.pdu, [ wire |-> cur.wire,
                                           trailer |-> cur.trailer ]))
  /\ cur' = None
  /\ UNCHANGED <<s, req, status, vec, outq, incoming, indata, mem, answered,
                 pings, reconnects>>

-----------------------------------------------------------------------------
(* The target *)

\* What it has of the data, and whether it may ask for more: the last PDU of
\* every sequence it knows of has come.
Lengths(pdus) == [i \in DOMAIN pdus |-> pdus[i].payload_len]
Received == Total(Lengths(got))
Quiet == /\ cur = None /\ outq = << >> /\ got # << >> /\ incoming = None
         /\ status = "active"

\* iscsi_process_r2t: the data the target asks for, as a sequence of its own.
R2T ==
  /\ Quiet
  /\ req.xfer_dir = "write"
  /\ Received < req.expxferlen
  /\ \E len \in 1 .. Least(s.max_burst_length, req.expxferlen - Received) :
       outq' = iscsi_send_data_out(s, "r2t", Received, len)
  /\ UNCHANGED <<s, req, status, vec, cur, got, incoming, indata, mem, answered,
                 pings, reconnects>>

\* A DATA-IN PDU arrives: the next bytes of the data.
DataIn ==
  /\ Quiet
  /\ req.xfer_dir = "read"
  /\ \E len \in 1 .. Least(s.initiator_max_recv_data_segment_length,
                           req.expxferlen - answered) :
       incoming' = [ kind |-> "data-in", offset |-> answered, len |-> len,
                     data_pos |-> 0, data |-> << >>, digest |-> << >> ]
  /\ UNCHANGED <<s, req, status, vec, outq, cur, got, indata, mem, answered,
                 pings, reconnects>>

\* The response: the command is done.
Status ==
  /\ Quiet
  /\ Received = (IF req.xfer_dir = "write" THEN req.expxferlen ELSE 0)
  /\ status' = "done"
  /\ UNCHANGED <<s, req, vec, outq, cur, got, incoming, indata, mem, answered,
                 pings, reconnects>>

-----------------------------------------------------------------------------
(* iscsi_read_from_socket *)

InSize == incoming.len + Padding(incoming.len)

\* The bytes of the PDU that are still to come.
Stream ==
  LET all == [i \in 1 .. incoming.len |-> incoming.offset + i - 1]
             \o Pads(Padding(incoming.len))
  IN  SubSeq(all, incoming.data_pos + 1, Len(all))

Took(n) ==
  [incoming EXCEPT !.data_pos = @ + n,
                   !.digest = IF s.data_digest
                              THEN @ \o SubSeq(Stream, 1, n) ELSE @]

\* Mutant of InPosition: the buffer offset of the PDU is forgotten.
InPositionOfPdu == incoming.data_pos

\* Where in the data of the command the next byte of the PDU belongs.
InPosition == incoming.data_pos + incoming.offset

\* Into the buffers of the application, as long as more than the padding is
\* to come.
ReadVector ==
  /\ incoming # None
  /\ status = "active"
  /\ req.iov_in # << >>
  /\ InSize - incoming.data_pos > Padding(incoming.len)
  /\ LET w == iscsi_iovector_readv_writev(
                req.iov_in, vec, InPosition,
                InSize - incoming.data_pos - Padding(incoming.len))
     IN  /\ vec' = w.vec
         /\ \/ /\ w.ok
               /\ \E n \in 1 .. Len(w.bytes) :
                    /\ incoming' = Took(n)
                    /\ mem' = [k \in DOMAIN mem |->
                                 IF \E i \in 1 .. n : w.bytes[i] = k - 1
                                 THEN Stream[CHOOSE i \in 1 .. n :
                                               w.bytes[i] = k - 1]
                                 ELSE mem[k]]
               /\ UNCHANGED status
            \/ ~w.ok /\ status' = "failed" /\ UNCHANGED <<incoming, mem>>
  /\ UNCHANGED <<s, req, outq, cur, got, indata, answered, pings, reconnects>>

\* Into a buffer of the library, or the padding into nowhere.
ReadPlain ==
  /\ incoming # None
  /\ status = "active"
  /\ incoming.data_pos < InSize
  /\ \/ req.iov_in = << >>
     \/ InSize - incoming.data_pos <= Padding(incoming.len)
  /\ \E n \in 1 .. (InSize - incoming.data_pos) :
       incoming' = [Took(n) EXCEPT !.data = IF req.iov_in = << >>
                                            THEN @ \o SubSeq(Stream, 1, n)
                                            ELSE @]
  /\ UNCHANGED <<s, req, status, vec, outq, cur, got, indata, mem, answered,
                 pings, reconnects>>

\* All of it is there: iscsi_process_pdu verifies the digest, which the
\* target computed over the data and the padding, and
\* iscsi_process_scsi_data_in keeps the data that has no buffer.
ReadDone ==
  /\ incoming # None
  /\ status = "active"
  /\ incoming.data_pos = InSize
  /\ LET sent == [i \in 1 .. incoming.len |-> incoming.offset + i - 1]
                 \o Pads(Padding(incoming.len))
     IN  IF s.data_digest /\ incoming.digest # sent
         THEN status' = "failed" /\ UNCHANGED <<indata, answered>>
         ELSE /\ indata' = IF req.iov_in = << >>
                           THEN indata \o SubSeq(incoming.data, 1, incoming.len)
                           ELSE indata
              /\ answered' = answered + incoming.len
              /\ UNCHANGED status
  /\ incoming' = None
  /\ UNCHANGED <<s, req, vec, outq, cur, got, mem, pings, reconnects>>

-----------------------------------------------------------------------------
(* iscsi_reconnect_cb *)

\* Mutant of Rewound: the iovector goes on where the old connection left it.
RewoundNot(v) == v

\* scsi_task_reset_iov.
Rewound(v) == [offset |-> 0, consumed |-> 0]

\* A new connection, maybe with other parameters: Data-Outs and NOPs are
\* dropped, the iovectors start again and the command is issued again.
Reconnect ==
  /\ status \in {"active", "failed"}
  /\ reconnects < MaxReconnects
  /\ reconnects' = reconnects + 1
  /\ s' \in Sessions
  /\ status' = "active"
  /\ vec' = Rewound(vec)
  /\ outq' = CommandPdus(s', req)
  /\ cur' = None
  /\ got' = << >>
  /\ incoming' = None
  /\ indata' = << >>
  /\ answered' = 0
  /\ UNCHANGED <<req, mem, pings>>

\* The task is answered, or its connection is gone for good.
Finished ==
  /\ \/ status = "done"
     \/ status = "failed" /\ reconnects = MaxReconnects
  /\ UNCHANGED vars

Next ==
  \/ Command
  \/ \E len \in Pings : Ping(len)
  \/ WriteHeader \/ WritePayload \/ WritePadding \/ WriteDigest \/ WriteDone
  \/ R2T \/ DataIn \/ Status
  \/ ReadVector \/ ReadPlain \/ ReadDone
  \/ Reconnect
  \/ Finished

Spec == Init /\ [][Next]_vars

\* The event loop goes on calling iscsi_service and the target goes on
\* answering.
FairSpec ==
  Spec /\ WF_vars(Command \/ WriteHeader \/ WritePayload \/ WritePadding
                    \/ WriteDigest \/ WriteDone \/ R2T \/ DataIn \/ Status
                    \/ ReadVector \/ ReadPlain \/ ReadDone)

-----------------------------------------------------------------------------
(* Properties *)

\* Whatever parts the socket takes a PDU in, the target gets exactly the bytes
\* its header announces: the data of the buffers at its buffer offset, the
\* padding, and a digest over both, in iscsi_write_to_socket.
FramesAreExact ==
  \A i \in DOMAIN got :
    LET p == got[i]
        data == IF p.inline > 0 THEN [k \in 1 .. p.inline |-> k - 1]
                ELSE [k \in 1 .. p.payload_len |-> p.payload_offset + k - 1]
        body == data \o Pads(Padding(Len(data)))
    IN  /\ p.wire = body
        /\ p.trailer = IF s.data_digest /\ body # << >>
                       THEN [k \in 1 .. 4 |-> [of |-> body, byte |-> k]]
                       ELSE << >>

\* The sequences of Data-Outs tile the transfer: every PDU goes on where the
\* one before it ended, also after a reconnect with other limits, and none is
\* beyond the transfer length.
DataTilesTransfer ==
  \A i \in DOMAIN got :
    got[i].payload_len > 0 =>
      /\ got[i].payload_offset = Sums(Lengths(got))[i - 1]
      /\ got[i].payload_offset + got[i].payload_len <= req.expxferlen

\* A PDU the target did not ask for: the command and unsolicited Data-Outs.
Unasked(p) == p.kind # "ping" /\ p.ttt = "none"
UnaskedLengths(pdus) ==
  [i \in DOMAIN pdus |-> IF Unasked(pdus[i]) THEN pdus[i].payload_len ELSE 0]

\* RFC 7143 as the negotiated session demands it of iscsi_scsi_command_async
\* and iscsi_send_data_out: no segment over the target's limit, no more
\* unsolicited data than FirstBurstLength, none at all when InitialR2T or
\* ImmediateData forbid it, and an F bit that ends what it ends.
UnsolicitedWithinLimits ==
  LET unasked == {i \in DOMAIN got : Unasked(got[i])}
  IN  /\ \A i \in DOMAIN got :
           got[i].payload_len <= s.target_max_recv_data_segment_length
      /\ Total(UnaskedLengths(got)) <= s.first_burst_length
      /\ ~s.use_immediate_data =>
           \A i \in unasked : got[i].kind = "command" => got[i].payload_len = 0
      /\ s.use_initial_r2t => \A i, j \in unasked : i = j
      /\ \A i, j \in unasked : got[i].final => j <= i
      /\ status = "done" => \E i \in unasked : got[i].final

\* A read that is done has put every byte the target sent where the
\* application wants it: in its buffers, in order, or all in task->datain.
ReadsLand ==
  status = "done" /\ req.xfer_dir = "read" =>
    IF req.iov_in = << >> THEN indata = [i \in 1 .. answered |-> i - 1]
    ELSE \A k \in 1 .. answered : mem[k] = k - 1

\* Every command is answered in the end, and iscsi_iovector_readv_writev
\* gives up only when the application gave too little room: never because of
\* where an earlier part ended, nor after the command was issued again.
TransfersEnd ==
  status = "active" ~>
    \/ status = "done"
    \/ /\ status = "failed"
       /\ Total(IF req.xfer_dir = "write" THEN req.iov_out ELSE req.iov_in)
            < req.expxferlen

=============================================================================
