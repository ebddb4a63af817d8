------------------------------ MODULE ScsiData ------------------------------
(***************************************************************************)
(* The data that comes back from a command (lib/scsi-lowlevel.c): how long *)
(* the whole answer is (scsi_datain_getfullsize) and what it says          *)
(* (scsi_datain_unmarshall), mode pages in both directions, and sense data *)
(* (lib/iscsi-command.c).  A reply is a sequence of bytes, cut off where   *)
(* the target or the allocation length ended it.                           *)
(***************************************************************************)
EXTENDS ScsiCdb, FiniteSetsExt

Least(m, n) == IF m < n THEN m ELSE n

-----------------------------------------------------------------------------
(* Reading a reply.  task_get_uint8/16/32/64 check the size and return 0    *)
(* for what was not received; &task->datain.data[c] does not check.         *)

\* The w-bit number whose last bit is bit `shift' of its last byte, from byte
\* c on; w <= 8 stays in one byte, w = 64 is a pair.
Get(d, c, shift, w) ==
  LET n == IF w <= 8 THEN 1 ELSE IF w <= 16 THEN 2 ELSE IF w <= 32 THEN 4 ELSE 8
      word(k) == d[k + 1] * 16777216 + d[k + 2] * 65536 + d[k + 3] * 256
                 + d[k + 4]
  IN  IF c > Len(d) - n THEN IF w = 64 THEN <<0, 0>> ELSE 0
      ELSE IF w <= 8 THEN (d[c + 1] \div 2 ^ shift) % 2 ^ w
      ELSE IF w <= 16 THEN (d[c + 1] % 2 ^ (w - 8)) * 256 + d[c + 2]
      ELSE IF w <= 32
           THEN word(c) - (d[c + 1] - (d[c + 1] % 2 ^ (w - 24))) * 16777216
      ELSE <<word(c), word(c + 4)>>

task_get_uint64(d, c) == Get(d, c, 0, 64)
task_get_uint32(d, c) == Get(d, c, 0, 32)
task_get_uint16(d, c) == Get(d, c, 0, 16)
task_get_uint8(d, c) == Get(d, c, 0, 8)

\* A byte past the end of what was received, read without a check: memory
\* that holds anything.
Wild == -1

\* memcpy of n bytes from byte c on, and one such byte.
Raw(d, c) == IF c < Len(d) THEN d[c + 1] ELSE Wild
RawBytes(d, c, n) == [i \in 1 .. n |-> Raw(d, c + i - 1)]

\* A structure read from a reply: a layout gives every field its byte, the
\* shift and the number of bits.
Fields(d, c, layout) ==
  [f \in DOMAIN layout |->
     Get(d, c + layout[f][1], layout[f][2], layout[f][3])]

-----------------------------------------------------------------------------
(* REPORT LUNS *)

\* Mutant of scsi_reportluns_datain_getfullsize: without the header.
ReportlunsListSize(d) == task_get_uint32(d, 0)

scsi_reportluns_datain_getfullsize(d) == task_get_uint32(d, 0) + 8

\* Mutant of scsi_reportluns_datain_unmarshall: the announced length is
\* believed.
ReportlunsAnnounced(d) ==
  LET n == (scsi_reportluns_datain_getfullsize(d) \div 8) - 1
  IN  IF Len(d) < 4 THEN NULL
      ELSE [num |-> n, luns |-> [i \in 1 .. n |-> task_get_uint16(d, i * 8)]]

scsi_reportluns_datain_unmarshall(d) ==
  LET n == (Least(scsi_reportluns_datain_getfullsize(d), Len(d)) \div 8) - 1
  IN  IF Len(d) < 4 THEN NULL
      ELSE [num |-> n, luns |-> [i \in 1 .. n |-> task_get_uint16(d, i * 8)]]

-----------------------------------------------------------------------------
(* READ TOC *)

scsi_readtoc_datain_getfullsize(d) == (task_get_uint16(d, 0) + 2) % 65536

\* Formats 0 (TOC) and 1 (session information) have the same layout; format
\* 2 (full TOC) has descriptors of 11 bytes. The upper halves of the first
\* two bytes (session, adr), which the code masks without shifting, are left
\* out.
TocLayout(format) ==
  IF format = 2
  THEN [ control |-> <<1, 0, 4>>, tno |-> <<2, 0, 8>>,
         point |-> <<3, 0, 8>>, min |-> <<4, 0, 8>>, sec |-> <<5, 0, 8>>,
         frame |-> <<6, 0, 8>>, zero |-> <<7, 0, 8>>, pmin |-> <<8, 0, 8>>,
         psec |-> <<9, 0, 8>>, pframe |-> <<10, 0, 8>> ]
  ELSE [ control |-> <<1, 0, 4>>, track |-> <<2, 0, 8>>, lba |-> <<4, 0, 32>> ]

scsi_readtoc_desc_unmarshall(d, format, i) ==
  Fields(d, 4 + (IF format = 2 THEN 11 ELSE 8) * i, TocLayout(format))

\* data_len is the TOC Data Length, which does not count its own two bytes
\* but does count the two track numbers after it.
scsi_readtoc_datain_unmarshall(d, format) ==
  LET data_len == scsi_readtoc_datain_getfullsize(d) - 2
      n == IF data_len < 4 THEN 0 ELSE (data_len - 4) \div 8
  IN  IF Len(d) < 4 \/ Len(d) < data_len THEN NULL
      ELSE [ num |-> n, first |-> task_get_uint8(d, 2),
             last |-> task_get_uint8(d, 3),
             desc |-> [i \in 1 .. n |->
                         scsi_readtoc_desc_unmarshall(d, format, i - 1)] ]

-----------------------------------------------------------------------------
(* READ CAPACITY(10) and SERVICE ACTION IN(16) *)

scsi_readcapacity10_datain_unmarshall(d) ==
  IF Len(d) < 8 THEN NULL
  ELSE Fields(d, 0, [lba |-> <<0, 0, 32>>, block_size |-> <<4, 0, 32>>])

Rc16Layout ==
  [ returned_lba |-> <<0, 0, 64>>, block_length |-> <<8, 0, 32>>,
    p_type |-> <<12, 1, 3>>, prot_en |-> <<12, 0, 1>>,
    p_i_exp |-> <<13, 4, 4>>, lbppbe |-> <<13, 0, 4>>,
    lbpme |-> <<14, 7, 1>>, lbprz |-> <<14, 6, 1>>, lalba |-> <<14, 0, 14>> ]

\* READ CAPACITY(16) and GET LBA STATUS.
scsi_serviceactionin_datain_unmarshall(sa, d) ==
  LET n == IF Len(d) < 4 THEN 0
           ELSE Least(task_get_uint32(d, 0), Len(d) - 4) \div 16
  IN  CASE sa = \h10 -> Fields(d, 0, Rc16Layout)
        [] sa = \h12 ->
             [ num |-> n,
               descriptors |->
                 [i \in 1 .. n |->
                    Fields(d, 8 + 16 * (i - 1),
                           [ lba |-> <<0, 0, 64>>, num_blocks |-> <<8, 0, 32>>,
                             provisioning |-> <<12, 0, 4>> ])] ]
        [] OTHER -> NULL

-----------------------------------------------------------------------------
(* PERSISTENT RESERVE IN and RECEIVE COPY RESULTS *)

scsi_persistentreservein_datain_getfullsize(sa, d) ==
  CASE sa = 0 -> task_get_uint32(d, 4) + 8
    [] sa \in {1, 2} -> 8
    [] OTHER -> -1

PrCapabilities ==
  [ length |-> <<0, 0, 16>>, crh |-> <<2, 4, 1>>, sip_c |-> <<2, 3, 1>>,
    atp_c |-> <<2, 2, 1>>, ptpl_c |-> <<2, 0, 1>>, tmv |-> <<3, 7, 1>>,
    allow_commands |-> <<3, 4, 3>>,
    persistent_reservation_type_mask |-> <<4, 0, 16>> ]

\* READ KEYS, READ RESERVATION, REPORT CAPABILITIES.
scsi_persistentreservein_datain_unmarshall(sa, d) ==
  LET n == Least(task_get_uint32(d, 4), Len(d) - 8) \div 8
  IN  CASE sa = 0 /\ Len(d) < 8 -> NULL
        [] sa = 0 /\ Len(d) >= 8 ->
             [ prgeneration |-> task_get_uint32(d, 0), num |-> n,
               keys |-> [i \in 1 .. n |-> task_get_uint64(d, 8 * i)] ]
        [] sa = 1 ->
             IF task_get_uint32(d, 4) > 0
             THEN [reserved |-> 1]
                  @@ Fields(d, 0, [ prgeneration |-> <<0, 0, 32>>,
                                    reservation_key |-> <<8, 0, 64>>,
                                    pr_scope |-> <<21, 4, 4>>,
                                    pr_type |-> <<21, 0, 4>> ])
             ELSE [prgeneration |-> task_get_uint32(d, 0), reserved |-> 0]
        [] sa = 2 -> Fields(d, 0, PrCapabilities)
        [] OTHER -> NULL

CopyStatus ==
  [ available_data |-> <<0, 0, 32>>, copy_manager_status |-> <<4, 0, 7>>,
    hdd |-> <<4, 7, 1>>, segments_processed |-> <<5, 0, 16>>,
    transfer_count_units |-> <<7, 0, 8>>, transfer_count |-> <<8, 0, 32>> ]

CopyParameters ==
  [ available_data |-> <<0, 0, 32>>, max_target_desc_count |-> <<8, 0, 16>>,
    max_segment_desc_count |-> <<10, 0, 16>>,
    max_desc_list_length |-> <<12, 0, 32>>, max_segment_length |-> <<16, 0, 32>>,
    max_inline_data_length |-> <<20, 0, 32>>, held_data_limit |-> <<24, 0, 32>>,
    max_stream_device_transfer_size |-> <<28, 0, 32>>,
    total_concurrent_copies |-> <<34, 0, 16>>,
    max_concurrent_copies |-> <<36, 0, 8>>,
    data_segment_granularity |-> <<37, 0, 8>>,
    inline_data_granularity |-> <<38, 0, 8>>,
    held_data_granularity |-> <<39, 0, 8>>,
    impl_desc_list_length |-> <<43, 0, 8>> ]

scsi_receivecopyresults_datain_unmarshall(sa, d) ==
  LET len == task_get_uint32(d, 0)
  IN  CASE sa = 0 /\ len >= 8 -> Fields(d, 0, CopyStatus)
        [] sa = 3 /\ len >= 40 ->
             [ codes |-> [i \in 1 .. task_get_uint8(d, 43) |->
                            task_get_uint8(d, 43 + i)] ]
             @@ Fields(d, 0, CopyParameters)
        [] OTHER -> NULL

-----------------------------------------------------------------------------
(* MAINTENANCE IN: REPORT SUPPORTED OPERATION CODES, TARGET PORT GROUPS *)

scsi_maintenancein_datain_getfullsize(sa, options, d) ==
  CASE sa = \h0C /\ options = 0 -> task_get_uint32(d, 0) + 4
    [] sa = \h0C /\ options \in {1, 2} ->
         4 + 12 * Get(d, 1, 7, 1) + task_get_uint16(d, 2)
    [] sa = \h0A -> task_get_uint32(d, 0) + 4
    [] OTHER -> -1

\* The groups from byte i on; the ports of the last one may be cut off.
scsi_report_target_port_groups_unmarshal(d) ==
  LET groups[i \in Nat] ==
        LET count == task_get_uint8(d, i + 7)
            k == Least(count, (Len(d) - i - 8) \div 4)
        IN  IF Len(d) - i < 8 THEN << >>
            ELSE << [ port_count |-> count, retrieved_port_count |-> k,
                      byte0 |-> task_get_uint8(d, i),
                      flags |-> task_get_uint8(d, i + 1),
                      port_group |-> task_get_uint16(d, i + 2),
                      status_code |-> task_get_uint8(d, i + 5),
                      ports |-> [n \in 1 .. k |->
                                   task_get_uint16(d, i + 6 + 4 * n)] ] >>
                 \o groups[i + 8 + 4 * k]
  IN  IF Len(d) < 4 THEN NULL ELSE [groups |-> groups[4]]

Timeouts ==
  [ descriptor_length |-> <<0, 0, 16>>, command_specific |-> <<3, 0, 8>>,
    nominal_processing_timeout |-> <<4, 0, 32>>,
    recommended_timeout |-> <<8, 0, 32>> ]

\* All commands: the loop runs on the length the target announced, whatever
\* was received.  One command: the usage data is copied unchecked.
scsi_report_supported_opcodes_unmarshall(options, d) ==
  LET descriptors[i \in Nat] ==
        LET ctdp == Get(d, i + 5, 1, 1)
            next == i + 8 + ctdp * (task_get_uint16(d, i + 8) + 2)
        IN  IF task_get_uint32(d, 0) + 4 - i < 8 THEN << >>
            ELSE << Fields(d, i, [ opcode |-> <<0, 0, 8>>, sa |-> <<2, 0, 16>>,
                                   ctdp |-> <<5, 1, 1>>,
                                   servactv |-> <<5, 0, 1>>,
                                   cdb_len |-> <<6, 0, 16>> ])
                    @@ [to |-> IF ctdp = 1 THEN Fields(d, i + 8, Timeouts)
                                           ELSE << >>] >>
                 \o descriptors[next]
      cdb_length == task_get_uint16(d, 2)
  IN  CASE options = 0 /\ Len(d) < 4 -> NULL
        [] options = 0 /\ Len(d) >= 4 -> [descriptors |-> descriptors[4]]
        [] options \in {1, 2} ->
             [ ctdp |-> Get(d, 1, 7, 1), support |-> Get(d, 1, 0, 3),
               cdb_length |-> cdb_length,
               cdb_usage_data |->
                 RawBytes(d, 4, IF cdb_length <= 16 THEN cdb_length ELSE 0),
               to |-> IF Get(d, 1, 7, 1) = 1
                      THEN Fields(d, 4 + cdb_length, Timeouts) ELSE << >> ]
        [] OTHER -> NULL

scsi_maintenancein_datain_unmarshall(sa, options, d) ==
  CASE sa = \h0C -> scsi_report_supported_opcodes_unmarshall(options, d)
    [] sa = \h0A -> scsi_report_target_port_groups_unmarshal(d)
    [] OTHER -> NULL

-----------------------------------------------------------------------------
(* INQUIRY.  evpd = FALSE is the standard page. *)

\* The Third-party Copy page (8F) has no full size.
scsi_inquiry_datain_getfullsize(evpd, page, d) ==
  CASE ~evpd -> task_get_uint8(d, 4) + 5
    [] evpd /\ page \in {\h00, \h80, \hB1} -> task_get_uint8(d, 3) + 4
    [] evpd /\ page \in {\h83, \hB0, \hB2} -> task_get_uint16(d, 2) + 4
    [] OTHER -> -1

StandardInquiry ==
  [ qualifier |-> <<0, 5, 3>>, device_type |-> <<0, 0, 5>>, rmb |-> <<1, 7, 1>>,
    version |-> <<2, 0, 8>>, normaca |-> <<3, 5, 1>>, hisup |-> <<3, 4, 1>>,
    response_data_format |-> <<3, 0, 4>>, additional_length |-> <<4, 0, 8>>,
    sccs |-> <<5, 7, 1>>, acc |-> <<5, 6, 1>>, tpgs |-> <<5, 4, 2>>,
    threepc |-> <<5, 3, 1>>, protect |-> <<5, 0, 1>>, encserv |-> <<6, 6, 1>>,
    multip |-> <<6, 4, 1>>, addr16 |-> <<6, 0, 1>>, wbus16 |-> <<7, 5, 1>>,
    sync |-> <<7, 4, 1>>, cmdque |-> <<7, 1, 1>>, clocking |-> <<56, 2, 2>>,
    qas |-> <<56, 1, 1>>, ius |-> <<56, 0, 1>> ]

\* The three identifications are copied unchecked.
scsi_inquiry_unmarshall_standard(d) ==
  [ vendor_identification |-> RawBytes(d, 8, 8),
    product_identification |-> RawBytes(d, 16, 16),
    product_revision_level |-> RawBytes(d, 32, 4),
    version_descriptor |-> [i \in 1 .. 8 |-> task_get_uint16(d, 56 + 2 * i)] ]
  @@ Fields(d, 0, StandardInquiry)

VpdHeader == [ qualifier |-> <<0, 5, 3>>, device_type |-> <<0, 0, 5>>,
               pagecode |-> <<1, 0, 8>> ]

\* The lists of these pages are copied unchecked.
scsi_inquiry_unmarshall_supported_pages(d) ==
  [pages |-> RawBytes(d, 4, task_get_uint8(d, 3))] @@ Fields(d, 0, VpdHeader)

scsi_inquiry_unmarshall_unit_serial_number(d) ==
  [usn |-> RawBytes(d, 4, task_get_uint8(d, 3))] @@ Fields(d, 0, VpdHeader)

\* Half a byte read unchecked.
RawBits(d, c, shift, w) ==
  IF Raw(d, c) = Wild THEN Wild ELSE (Raw(d, c) \div 2 ^ shift) % 2 ^ w

\* Every designator is put in front of the list.  A designator whose length
\* was not received ends the model's walk: what the code does then depends on
\* the memory behind the reply.
scsi_inquiry_unmarshall_device_identification(d) ==
  LET end == 4 + task_get_uint16(d, 2)
      designators[i \in Nat] ==
        LET n == Raw(d, i + 3)
            dev == [ protocol_identifier |-> RawBits(d, i, 4, 4),
                     code_set |-> RawBits(d, i, 0, 4),
                     piv |-> RawBits(d, i + 1, 7, 1),
                     association |-> RawBits(d, i + 1, 4, 2),
                     designator_type |-> RawBits(d, i + 1, 0, 4),
                     designator_length |-> n ]
        IN  IF i >= end THEN << >>
            ELSE IF n = Wild THEN <<dev @@ [designator |-> << >>]>>
            ELSE designators[i + 4 + n]
                 \o <<dev @@ [designator |-> RawBytes(d, i + 4, n)]>>
  IN  [designators |-> designators[4]] @@ Fields(d, 0, VpdHeader)

\* The commands of a Supported Commands descriptor at byte c, last one first.
third_party_copy_unmarshall_supported_commands(d, c) ==
  LET end == c + 5 + Raw(d, c + 4)
      commands[i \in Nat] ==
        LET n == Raw(d, i + 1)
        IN  IF i >= end THEN << >>
            ELSE IF n = Wild THEN <<[operation_code |-> Raw(d, i), sa |-> << >>]>>
            ELSE commands[i + 2 + n]
                 \o <<[ operation_code |-> Raw(d, i),
                        sa |-> RawBytes(d, i + 2, n) ]>>
  IN  commands[c + 5]

\* The descriptors from byte 4 on; only type 1, Supported Commands, is read,
\* and the last one of that type wins.
scsi_inquiry_unmarshall_third_party_copy(d) ==
  LET end == 4 + task_get_uint16(d, 2)
      supported[i \in Nat] ==
        LET type == Raw(d, i) * 256 + Raw(d, i + 1)
            next == i + Raw(d, i + 2) * 256 + Raw(d, i + 3) + 4
            later == supported[next]
        IN  IF i >= end \/ Raw(d, i + 3) = Wild THEN << >>
            ELSE IF type = 1 /\ later = << >>
            THEN third_party_copy_unmarshall_supported_commands(d, i)
            ELSE later
  IN  [supported_commands |-> supported[4]] @@ Fields(d, 0, VpdHeader)

BlockLimits ==
  [ wsnz |-> <<4, 0, 1>>, max_cmp |-> <<5, 0, 8>>, opt_gran |-> <<6, 0, 16>>,
    max_xfer_len |-> <<8, 0, 32>>, opt_xfer_len |-> <<12, 0, 32>>,
    max_prefetch |-> <<16, 0, 32>>, max_unmap |-> <<20, 0, 32>>,
    max_unmap_bdc |-> <<24, 0, 32>>, opt_unmap_gran |-> <<28, 0, 32>>,
    ugavalid |-> <<32, 7, 1>>, unmap_gran_align |-> <<32, 0, 31>>,
    max_ws_len |-> <<36, 0, 64>>, max_atomic_xfer_len |-> <<44, 0, 32>>,
    atomic_align |-> <<48, 0, 32>>, atomic_gran |-> <<52, 0, 32>>,
    max_atomic_tl_with_atomic_boundary |-> <<56, 0, 32>>,
    max_atomic_boundary_size |-> <<60, 0, 32>> ]

scsi_inquiry_unmarshall_block_limits(d) == Fields(d, 0, VpdHeader @@ BlockLimits)

BlockDevice ==
  [ medium_rotation_rate |-> <<4, 0, 16>>, product_type |-> <<6, 0, 8>>,
    wabereq |-> <<7, 6, 2>>, wacereq |-> <<7, 4, 2>>,
    nominal_form_factor |-> <<7, 0, 4>>, fuab |-> <<8, 1, 1>>,
    vbuls |-> <<8, 0, 1>> ]

scsi_inquiry_unmarshall_block_device_characteristics(d) ==
  Fields(d, 0, VpdHeader @@ BlockDevice)

Provisioning ==
  [ threshold_exponent |-> <<4, 0, 8>>, lbpu |-> <<5, 7, 1>>,
    lbpws |-> <<5, 6, 1>>, lbpws10 |-> <<5, 5, 1>>, lbprz |-> <<5, 2, 1>>,
    anc_sup |-> <<5, 1, 1>>, dp |-> <<5, 0, 1>>,
    provisioning_type |-> <<6, 0, 3>> ]

scsi_inquiry_unmarshall_logical_block_provisioning(d) ==
  Fields(d, 0, VpdHeader @@ Provisioning)

scsi_inquiry_datain_unmarshall(evpd, page, d) ==
  CASE ~evpd -> scsi_inquiry_unmarshall_standard(d)
    [] evpd /\ page = \h00 -> scsi_inquiry_unmarshall_supported_pages(d)
    [] evpd /\ page = \h80 -> scsi_inquiry_unmarshall_unit_serial_number(d)
    [] evpd /\ page = \h83 -> scsi_inquiry_unmarshall_device_identification(d)
    [] evpd /\ page = \h8F -> scsi_inquiry_unmarshall_third_party_copy(d)
    [] evpd /\ page = \hB0 -> scsi_inquiry_unmarshall_block_limits(d)
    [] evpd /\ page = \hB1 ->
         scsi_inquiry_unmarshall_block_device_characteristics(d)
    [] evpd /\ page = \hB2 ->
         scsi_inquiry_unmarshall_logical_block_provisioning(d)
    [] OTHER -> NULL

=============================================================================
