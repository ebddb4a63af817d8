----------------------------- MODULE MCTransfer -----------------------------
(***************************************************************************)
(* Small transfers for TLC: blocks of two bytes, buffers that end inside   *)
(* PDUs and PDUs that end inside buffers, empty and missing buffers, and   *)
(* sessions on either side of every limit.                                 *)
(***************************************************************************)
EXTENDS Transfer

Args(len, iov, data) ==
  [ lun |-> 1, lba |-> <<0, 5>>, xferlen |-> len, blocksize |-> 2,
    protect |-> 0, dpo |-> FALSE, fua |-> FALSE, fua_nv |-> FALSE,
    bytchk |-> TRUE, group |-> 0, iov |-> iov, data |-> data,
    datalen |-> len, blocks |-> 1, anchor |-> FALSE, unmap |-> FALSE,
    list |-> << >> ]

MCCalls ==
  { [name |-> "read16", args |-> Args(6, << >>, << >>)],
    [name |-> "read16", args |-> Args(6, <<1, 0, 3, 2>>, << >>)],
    [name |-> "read16", args |-> Args(6, <<4, 1>>, << >>)],
    [name |-> "write16", args |-> Args(8, <<3, 0, 1, 4>>, << >>)],
    [name |-> "write16", args |-> Args(6, <<1, 1>>, <<6>>)],
    [name |-> "write16", args |-> Args(6, <<2, 3>>, << >>)],
    [name |-> "verify16",
     args |-> [Args(4, << >>, <<4>>) EXCEPT !.bytchk = FALSE]],
    [name |-> "writesame16", args |-> Args(2, <<2>>, << >>)],
    [name |-> "writesame16", args |-> Args(2, << >>, <<2>>)],
    [name |-> "unmap", args |-> Args(0, << >>, << >>)] }

Session(imm, r2t, first, mrdsl, digest) ==
  [ use_immediate_data |-> imm, use_initial_r2t |-> r2t,
    first_burst_length |-> first, target_max_recv_data_segment_length |-> mrdsl,
    initiator_max_recv_data_segment_length |-> 5, max_burst_length |-> 4,
    data_digest |-> digest ]

MCSessions ==
  { Session(TRUE, FALSE, 5, 3, TRUE), Session(FALSE, FALSE, 3, 2, FALSE),
    Session(TRUE, TRUE, 9, 4, TRUE), Session(FALSE, TRUE, 2, 3, FALSE) }

=============================================================================
