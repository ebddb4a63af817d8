---------------------------- MODULE ScsiCommands ----------------------------
(***************************************************************************)
(* The calls that send a SCSI command (lib/iscsi-command.c).  A call is an *)
(* operator on the state s of the context and a record a of arguments; it  *)
(* returns the request that is queued, or NULL when the call fails.  The   *)
(* plain call and the one with an iovec are one operator: a.iov is the     *)
(* sequence of the lengths of the buffers, empty for the plain call, and   *)
(* a.data is empty for a NULL pointer and <<size>> for a buffer.           *)
(***************************************************************************)
EXTENDS ModePages

\* f @@ g, spelled out for the proofs.
Merged(f, g) ==
  [x \in DOMAIN f \union DOMAIN g |-> IF x \in DOMAIN f THEN f[x] ELSE g[x]]

\* scsi_task_set_iov_in and scsi_task_set_iov_out, when the iovec is not NULL.
SetIov(task, field, iov) ==
  IF task = NULL \/ iov = << >> THEN task
  ELSE Merged([x \in {field} |-> iov], task)

\* Only on a session that is, or is about to be again, logged in.
CanQueue(s) ==
  s.session_type = "normal" /\ (s.is_loggedin \/ s.pending_reconnect)

\* A buffer of the application takes the place of whatever iovec is set.
iscsi_scsi_command_async(s, lun, task, d) ==
  IF task = NULL \/ ~CanQueue(s) THEN NULL
  ELSE Merged(SetIov(task, "iov_out", d),
              [lun |-> lun, iov_in |-> << >>, iov_out |-> << >>])

-----------------------------------------------------------------------------
(* Commands that read and write blocks *)

\* The length must be a multiple of unit, or there is no command.
BlockCall(s, a, unit, task, field, d) ==
  IF a.xferlen % unit # 0 THEN NULL
  ELSE iscsi_scsi_command_async(s, a.lun, SetIov(task, field, a.iov), d)

ReadCall(s, a, task) == BlockCall(s, a, a.blocksize, task, "iov_in", << >>)
WriteCall(s, a, task) == BlockCall(s, a, a.blocksize, task, "iov_out", a.data)

iscsi_read6_task(s, a) == ReadCall(s, a, scsi_cdb_read6(a))
iscsi_read10_task(s, a) == ReadCall(s, a, scsi_cdb_read10(a))
iscsi_read12_task(s, a) == ReadCall(s, a, scsi_cdb_read12(a))
iscsi_read16_task(s, a) == ReadCall(s, a, scsi_cdb_read16(a))
iscsi_write10_task(s, a) == WriteCall(s, a, scsi_cdb_write10(a))
iscsi_write12_task(s, a) == WriteCall(s, a, scsi_cdb_write12(a))
iscsi_write16_task(s, a) == WriteCall(s, a, scsi_cdb_write16(a))
iscsi_writeatomic16_task(s, a) == WriteCall(s, a, scsi_cdb_writeatomic16(a))
iscsi_orwrite_task(s, a) == WriteCall(s, a, scsi_cdb_orwrite(a))
iscsi_compareandwrite_task(s, a) ==
  BlockCall(s, a, 2 * a.blocksize, scsi_cdb_compareandwrite(a), "iov_out",
            a.data)
iscsi_writeverify10_task(s, a) == WriteCall(s, a, scsi_cdb_writeverify10(a))
iscsi_writeverify12_task(s, a) == WriteCall(s, a, scsi_cdb_writeverify12(a))
iscsi_writeverify16_task(s, a) == WriteCall(s, a, scsi_cdb_writeverify16(a))
iscsi_verify10_task(s, a) == WriteCall(s, a, scsi_cdb_verify10(a))
iscsi_verify12_task(s, a) == WriteCall(s, a, scsi_cdb_verify12(a))
iscsi_verify16_task(s, a) == WriteCall(s, a, scsi_cdb_verify16(a))

-----------------------------------------------------------------------------
(* Commands about ranges of blocks *)

\* Without a data pointer nothing is sent, iovec or not, but NDOB stays as
\* the length said.
WriteSameCall(s, a, task) ==
  LET t == IF a.data # << >> THEN [task EXCEPT !.expxferlen = a.datalen]
           ELSE [task EXCEPT !.expxferlen = 0, !.xfer_dir = "none"]
  IN  iscsi_scsi_command_async(s, a.lun, SetIov(t, "iov_out", a.iov), a.data)

iscsi_writesame10_task(s, a) == WriteSameCall(s, a, scsi_cdb_writesame10(a))
iscsi_writesame16_task(s, a) == WriteSameCall(s, a, scsi_cdb_writesame16(a))

Call(s, a, task) == iscsi_scsi_command_async(s, a.lun, task, << >>)

iscsi_synchronizecache10_task(s, a) == Call(s, a, scsi_cdb_synchronizecache10(a))
iscsi_synchronizecache16_task(s, a) == Call(s, a, scsi_cdb_synchronizecache16(a))
iscsi_prefetch10_task(s, a) == Call(s, a, scsi_cdb_prefetch10(a))
iscsi_prefetch16_task(s, a) == Call(s, a, scsi_cdb_prefetch16(a))

\* The parameter list: two lengths, then the ranges <<lba, number>>.
UnmapParameters(list) ==
  LET n == 8 + 16 * Len(list)
      range(i) == scsi_set_uint64(list[i][1]) \o scsi_set_uint32(list[i][2])
                  \o <<0, 0, 0, 0>>
      header == scsi_set_uint16(n - 2) \o scsi_set_uint16(n - 8)
                \o <<0, 0, 0, 0>>
  IN  [k \in 1 .. n |-> IF k <= 8 THEN header[k]
                        ELSE range(((k - 9) \div 16) + 1)[((k - 9) % 16) + 1]]

iscsi_unmap_task(s, a) ==
  LET n == Len(UnmapParameters(a.list))
  IN  Call(s, a, SetIov(scsi_cdb_unmap(a.anchor, a.group, n), "iov_out", <<n>>))

-----------------------------------------------------------------------------
(* Commands that read or write a list *)

iscsi_testunitready_task(s, a) == Call(s, a, scsi_cdb_testunitready)

\* Always to LUN 0, and never for less than 16 bytes.
iscsi_reportluns_task(s, a) ==
  IF a.alloc_len < 16 THEN NULL
  ELSE Call(s, [a EXCEPT !.lun = 0],
            scsi_reportluns_cdb(a.report_type, a.alloc_len))

iscsi_inquiry_task(s, a) ==
  Call(s, a, scsi_cdb_inquiry(a.evpd, a.page_code, a.alloc_len))
iscsi_readcapacity10_task(s, a) ==
  Call(s, a, scsi_cdb_readcapacity10(a.lba[2], a.pmi))
iscsi_readcapacity16_task(s, a) == Call(s, a, scsi_cdb_readcapacity16)
iscsi_readdefectdata10_task(s, a) == Call(s, a, scsi_cdb_readdefectdata10(a))
iscsi_readdefectdata12_task(s, a) == Call(s, a, scsi_cdb_readdefectdata12(a))
iscsi_get_lba_status_task(s, a) ==
  Call(s, a, scsi_cdb_get_lba_status(a.lba, a.alloc_len))
iscsi_readtoc_task(s, a) == Call(s, a, scsi_cdb_readtoc(a))
iscsi_reserve6_task(s, a) == Call(s, a, scsi_cdb_reserve6)
iscsi_release6_task(s, a) == Call(s, a, scsi_cdb_release6)
iscsi_startstopunit_task(s, a) == Call(s, a, scsi_cdb_startstopunit(a))
iscsi_preventallow_task(s, a) == Call(s, a, scsi_cdb_preventallow(a.prevent))
iscsi_report_supported_opcodes_task(s, a) ==
  Call(s, a, scsi_cdb_report_supported_opcodes(a))
iscsi_persistent_reserve_in_task(s, a) ==
  Call(s, a, scsi_cdb_persistent_reserve_in(a.sa, a.alloc_len))

\* scsi_cdb_persistent_reserve_out itself sets the parameter list as iovec.
iscsi_persistent_reserve_out_task(s, a) ==
  Call(s, a, SetIov(scsi_cdb_persistent_reserve_out(a.sa, a.scope, a.type),
                    "iov_out", <<24>>))

iscsi_sanitize_task(s, a) ==
  iscsi_scsi_command_async(s, a.lun, scsi_cdb_sanitize(a), a.data)

\* BLOCK ERASE (2), CRYPTO ERASE (3), EXIT FAILURE MODE (1F).
SanitizeCall(s, a, sa) ==
  Call(s, a, scsi_cdb_sanitize([a EXCEPT !.sa = sa, !.param_len = 0]))
iscsi_sanitize_block_erase_task(s, a) == SanitizeCall(s, a, 2)
iscsi_sanitize_crypto_erase_task(s, a) == SanitizeCall(s, a, 3)
iscsi_sanitize_exit_failure_mode_task(s, a) == SanitizeCall(s, a, \h1F)

iscsi_receive_copy_results_task(s, a) ==
  Call(s, a, scsi_cdb_receive_copy_results(a.sa, a.list_id, a.alloc_len))
iscsi_extended_copy_task(s, a) ==
  iscsi_scsi_command_async(s, a.lun, scsi_cdb_extended_copy(a.data[1]), a.data)

\* The allocation length is an unsigned char for both.
iscsi_modesense6_task(s, a) ==
  Call(s, a, scsi_cdb_modesense6([a EXCEPT !.alloc_len = @ % 256]))
iscsi_modesense10_task(s, a) ==
  Call(s, a, scsi_cdb_modesense10([a EXCEPT !.alloc_len = @ % 256]))

\* The length of the parameter list is patched into the CDB.
iscsi_modeselect6_task(s, a) ==
  LET list == scsi_modesense_dataout_marshall(a.mp, TRUE)
      task == [scsi_cdb_modeselect6(a.pf, a.sp, 255)
                 EXCEPT !.cdb[4] = Len(list) % 256, !.expxferlen = Len(list)]
  IN  IF list = << >> THEN NULL
      ELSE iscsi_scsi_command_async(s, a.lun, task, <<Len(list)>>)

iscsi_modeselect10_task(s, a) ==
  LET list == scsi_modesense_dataout_marshall(a.mp, FALSE)
      task == [scsi_cdb_modeselect10(a.pf, a.sp, 255)
                 EXCEPT !.cdb[7] = Len(list) \div 256,
                        !.cdb[8] = Len(list) % 256, !.expxferlen = Len(list)]
  IN  IF list = << >> THEN NULL
      ELSE iscsi_scsi_command_async(s, a.lun, task, <<Len(list)>>)

-----------------------------------------------------------------------------
(* What comes back *)

\* The full size of a reply d to the command of this CDB, -1 when unknown.
scsi_datain_getfullsize(cdb, d) ==
  CASE cdb[0] \in {Opcode.testunitready, Opcode.synchronizecache10} -> 0
    [] cdb[0] = Opcode.inquiry ->
         scsi_inquiry_datain_getfullsize(cdb[1] % 2 = 1, cdb[2], d)
    [] cdb[0] = Opcode.modesense6 -> scsi_modesense_datain_getfullsize(d, TRUE)
    [] cdb[0] = Opcode.readcapacity10 -> 8
    [] cdb[0] = Opcode.readtoc -> scsi_readtoc_datain_getfullsize(d)
    [] cdb[0] = Opcode.reportluns -> scsi_reportluns_datain_getfullsize(d)
    [] cdb[0] = Opcode.persistent_reserve_in ->
         scsi_persistentreservein_datain_getfullsize(cdb[1] % 32, d)
    [] cdb[0] = Opcode.maintenancein ->
         scsi_maintenancein_datain_getfullsize(cdb[1], cdb[2] % 8, d)
    [] OTHER -> -1

scsi_datain_unmarshall(cdb, d) ==
  CASE d = << >> -> NULL
    [] d # << >> /\ cdb[0] = Opcode.inquiry ->
         scsi_inquiry_datain_unmarshall(cdb[1] % 2 = 1, cdb[2], d)
    [] d # << >> /\ cdb[0] = Opcode.modesense6 ->
         scsi_modesense_datain_unmarshall(d, TRUE)
    [] d # << >> /\ cdb[0] = Opcode.modesense10 ->
         scsi_modesense_datain_unmarshall(d, FALSE)
    [] d # << >> /\ cdb[0] = Opcode.readcapacity10 ->
         scsi_readcapacity10_datain_unmarshall(d)
    [] d # << >> /\ cdb[0] = Opcode.readtoc ->
         scsi_readtoc_datain_unmarshall(d, cdb[2] % 16)
    [] d # << >> /\ cdb[0] = Opcode.reportluns ->
         scsi_reportluns_datain_unmarshall(d)
    [] d # << >> /\ cdb[0] = Opcode.serviceactionin ->
         scsi_serviceactionin_datain_unmarshall(cdb[1], d)
    [] d # << >> /\ cdb[0] = Opcode.persistent_reserve_in ->
         scsi_persistentreservein_datain_unmarshall(cdb[1] % 32, d)
    [] d # << >> /\ cdb[0] = Opcode.maintenancein ->
         scsi_maintenancein_datain_unmarshall(cdb[1], cdb[2] % 8, d)
    [] d # << >> /\ cdb[0] = Opcode.receive_copy_results ->
         scsi_receivecopyresults_datain_unmarshall(cdb[1] % 32, d)
    [] OTHER -> NULL

\* Mutant of parse_sense_spec: SKSV is not tested.
SenseSpecAlways(d, c) ==
  [ sense_specific |-> 1, ill_param_in_cdb |-> RawBits(d, c, 6, 1),
    bit_pointer |-> IF RawBits(d, c, 3, 1) = 1 THEN RawBits(d, c, 0, 3)
                    ELSE "none",
    field_pointer |-> RawBytes(d, c + 1, 2) ]

\* The sense key specific bytes from byte c on: SKSV, C/D, BPV, field pointer.
parse_sense_spec(d, c) ==
  IF RawBits(d, c, 7, 1) # 1 THEN << >>
  ELSE [ sense_specific |-> 1, ill_param_in_cdb |-> RawBits(d, c, 6, 1),
         bit_pointer |-> IF RawBits(d, c, 3, 1) = 1 THEN RawBits(d, c, 0, 3)
                         ELSE "none",
         field_pointer |-> RawBytes(d, c + 1, 2) ]

\* Descriptors up to byte `end'; the step is the additional length itself,
\* two bytes less than the descriptor has.  What is set later wins.
parse_sense_descriptors(d, first, end) ==
  LET walk[p \in Nat] ==
        LET n == Raw(d, p + 1)
            this == CASE Raw(d, p) = 0 /\ n = \h0A /\ RawBits(d, p + 2, 7, 1) = 1 ->
                           [information |-> RawBytes(d, p + 4, 8)]
                      [] Raw(d, p) = 2 /\ n = 6 -> parse_sense_spec(d, p + 4)
                      [] OTHER -> << >>
        IN  IF p >= end \/ n < 4 THEN << >> ELSE walk[p + n] @@ this
  IN  walk[first]

scsi_parse_sense_data(d) ==
  LET type == RawBits(d, 0, 0, 7)
  IN  CASE type \in {\h70, \h71} ->
             parse_sense_spec(d, 15)
             @@ (IF RawBits(d, 0, 7, 1) = 1
                 THEN [information |-> <<0, 0, 0, 0>> \o RawBytes(d, 3, 4)]
                 ELSE << >>)
             @@ [ error_type |-> type, key |-> RawBits(d, 2, 0, 4),
                  ascq |-> RawBytes(d, 12, 2) ]
        [] type \in {\h72, \h73} ->
             parse_sense_descriptors(d, 8, 8 + Raw(d, 7))
             @@ [ error_type |-> type, key |-> RawBits(d, 1, 0, 4),
                  ascq |-> RawBytes(d, 2, 2) ]
        [] OTHER -> [error_type |-> type]

=============================================================================
