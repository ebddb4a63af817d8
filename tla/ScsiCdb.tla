------------------------------ MODULE ScsiCdb ------------------------------
(***************************************************************************)
(* The command descriptor blocks libiscsi builds and takes apart again     *)
(* (lib/scsi-lowlevel.c).  A CDB is a function from the byte numbers 0..15 *)
(* to bytes; a builder takes the arguments of the C function as a record   *)
(* and returns the scsi_task: the CDB, its size, the direction of the      *)
(* transfer and its expected length in bytes.  64-bit block addresses are  *)
(* pairs <<high word, low word>>, since TLC's integers have 32 bits.  A    *)
(* flag is TRUE when the C argument is not zero; the bits that the code    *)
(* ORs together are disjoint, so they are added here.                      *)
(***************************************************************************)
EXTENDS Integers, Sequences, TLC

\* enum scsi_opcode
Opcode ==
  [ testunitready |-> \h00, read6 |-> \h08, inquiry |-> \h12,
    modeselect6 |-> \h15, reserve6 |-> \h16, release6 |-> \h17,
    modesense6 |-> \h1A, startstopunit |-> \h1B, preventallow |-> \h1E,
    readcapacity10 |-> \h25, read10 |-> \h28, write10 |-> \h2A,
    writeverify10 |-> \h2E, verify10 |-> \h2F, prefetch10 |-> \h34,
    synchronizecache10 |-> \h35, readdefectdata10 |-> \h37,
    writesame10 |-> \h41, unmap |-> \h42, readtoc |-> \h43,
    sanitize |-> \h48, modeselect10 |-> \h55, modesense10 |-> \h5A,
    persistent_reserve_in |-> \h5E, persistent_reserve_out |-> \h5F,
    extended_copy |-> \h83, receive_copy_results |-> \h84,
    read16 |-> \h88, compareandwrite |-> \h89, write16 |-> \h8A,
    orwrite |-> \h8B, writeverify16 |-> \h8E, verify16 |-> \h8F,
    prefetch16 |-> \h90, synchronizecache16 |-> \h91,
    writesame16 |-> \h93, writeatomic16 |-> \h9C,
    serviceactionin |-> \h9E, reportluns |-> \hA0,
    maintenancein |-> \hA3, read12 |-> \hA8, write12 |-> \hAA,
    writeverify12 |-> \hAE, verify12 |-> \hAF,
    readdefectdata12 |-> \hB7 ]

-----------------------------------------------------------------------------
(* Big-endian numbers *)

scsi_set_uint16(v) == <<(v \div 256) % 256, v % 256>>

scsi_set_uint32(v) ==
  scsi_set_uint16(v \div 65536) \o scsi_set_uint16(v % 65536)

scsi_set_uint64(v) == scsi_set_uint32(v[1]) \o scsi_set_uint32(v[2])

\* b is a function on byte numbers, c the number of the first byte.
scsi_get_uint16(b, c) == b[c] * 256 + b[c + 1]

scsi_get_uint32(b, c) ==
  scsi_get_uint16(b, c) * 65536 + scsi_get_uint16(b, c + 2)

scsi_get_uint64(b, c) == <<scsi_get_uint32(b, c), scsi_get_uint32(b, c + 4)>>

-----------------------------------------------------------------------------
(* Tasks *)

\* The bytes s from byte number c on.
At(c, s) == [i \in c .. (c + Len(s) - 1) |-> s[i - c + 1]]

Bit(flag, weight) == IF flag THEN weight ELSE 0

\* The builder failed: the C function returns NULL.
NULL == [cdb_size |-> 0]

\* malloc, memset to zero, then the bytes that are set: scsi_create_task and
\* the same lines in every builder.
scsi_create_task(size, bytes, dir, len) ==
  [ cdb |-> [i \in 0 .. 15 |-> IF i \in DOMAIN bytes THEN bytes[i] ELSE 0],
    cdb_size |-> size, xfer_dir |-> dir, expxferlen |-> len ]

\* The direction of a transfer of len bytes.
Reads(len) == IF len # 0 THEN "read" ELSE "none"
Writes(len) == IF len # 0 THEN "write" ELSE "none"

Blocks(a) == a.xferlen \div a.blocksize

-----------------------------------------------------------------------------
(* Commands that read and write blocks *)

scsi_cdb_read6(a) ==
  IF Blocks(a) > 256 \/ a.lba[2] > \h1FFFFF THEN NULL
  ELSE scsi_create_task(6,
         At(0, <<Opcode.read6, (a.lba[2] \div 65536) % 32>>
               \o scsi_set_uint16(a.lba[2] % 65536)
               \o <<IF Blocks(a) < 256 THEN Blocks(a) ELSE 0>>),
         Reads(a.xferlen), a.xferlen)

\* Byte 1 of the commands with protection, DPO, FUA and FUA_NV.
RwFlags(a) == (a.protect % 8) * 32 + Bit(a.dpo, 16) + Bit(a.fua, 8)
              + Bit(a.fua_nv, 2)

\* Byte 1 of the commands with protection, DPO and BYTCHK.
VerifyFlags(a) == (a.protect % 8) * 32 + Bit(a.dpo, 16) + Bit(a.bytchk, 2)

\* The 10, 12 and 16 byte layouts: flags in byte 1, block address from byte
\* 2, number of blocks, group number.
Layout10(op, flags, a) ==
  At(0, <<op, flags>> \o scsi_set_uint32(a.lba[2]) \o <<a.group % 32>>
        \o scsi_set_uint16(Blocks(a)))

\* Mutant of Layout12: the group number where the 10 byte layout has it.
Layout12GroupFirst(op, flags, a) ==
  At(0, <<op, flags>> \o scsi_set_uint32(a.lba[2]) \o <<a.group % 32>>
        \o scsi_set_uint32(Blocks(a)))

Layout12(op, flags, a) ==
  At(0, <<op, flags>> \o scsi_set_uint32(a.lba[2])
        \o scsi_set_uint32(Blocks(a)) \o <<a.group % 32>>)

Layout16(op, flags, a) ==
  At(0, <<op, flags>> \o scsi_set_uint64(a.lba)
        \o scsi_set_uint32(Blocks(a)) \o <<a.group % 32>>)

scsi_cdb_read10(a) ==
  scsi_create_task(10, Layout10(Opcode.read10, RwFlags(a), a),
                   Reads(a.xferlen), a.xferlen)

scsi_cdb_read12(a) ==
  scsi_create_task(12, Layout12(Opcode.read12, RwFlags(a), a),
                   Reads(a.xferlen), a.xferlen)

scsi_cdb_read16(a) ==
  scsi_create_task(16, Layout16(Opcode.read16, RwFlags(a), a),
                   Reads(a.xferlen), a.xferlen)

scsi_cdb_write10(a) ==
  scsi_create_task(10, Layout10(Opcode.write10, RwFlags(a), a),
                   Writes(a.xferlen), a.xferlen)

scsi_cdb_write12(a) ==
  scsi_create_task(12, Layout12(Opcode.write12, RwFlags(a), a),
                   Writes(a.xferlen), a.xferlen)

scsi_cdb_write16(a) ==
  scsi_create_task(16, Layout16(Opcode.write16, RwFlags(a), a),
                   Writes(a.xferlen), a.xferlen)

\* No FUA_NV, and a 16-bit number of blocks in bytes 12 and 13.
scsi_cdb_writeatomic16(a) ==
  scsi_create_task(16,
    At(0, <<Opcode.writeatomic16, RwFlags([a EXCEPT !.fua_nv = FALSE])>>
          \o scsi_set_uint64(a.lba) \o <<0, 0>>
          \o scsi_set_uint16(Blocks(a)) \o <<a.group % 32>>),
    Writes(a.xferlen), a.xferlen)

scsi_cdb_orwrite(a) ==
  scsi_create_task(16, Layout16(Opcode.orwrite, RwFlags(a), a),
                   Writes(a.xferlen), a.xferlen)

\* Half of the transfer is compared, half written: one byte of count.
scsi_cdb_compareandwrite(a) ==
  scsi_create_task(16,
    At(0, <<Opcode.compareandwrite, RwFlags(a)>> \o scsi_set_uint64(a.lba)
          \o <<0, 0, 0, (Blocks(a) \div 2) % 256, a.group % 32>>),
    Writes(a.xferlen), a.xferlen)

\* Without BYTCHK a VERIFY has no data, whatever the length; none of the
\* three has a group number.
VerifyLen(a) == IF a.bytchk THEN a.xferlen ELSE 0

scsi_cdb_verify10(a) ==
  scsi_create_task(10,
    Layout10(Opcode.verify10, VerifyFlags(a), [a EXCEPT !.group = 0]),
    Writes(VerifyLen(a)), VerifyLen(a))

scsi_cdb_verify12(a) ==
  scsi_create_task(12,
    Layout12(Opcode.verify12, VerifyFlags(a), [a EXCEPT !.group = 0]),
    Writes(VerifyLen(a)), VerifyLen(a))

scsi_cdb_verify16(a) ==
  scsi_create_task(16,
    Layout16(Opcode.verify16, VerifyFlags(a), [a EXCEPT !.group = 0]),
    Writes(VerifyLen(a)), VerifyLen(a))

scsi_cdb_writeverify10(a) ==
  scsi_create_task(10, Layout10(Opcode.writeverify10, VerifyFlags(a), a),
                   Writes(a.xferlen), a.xferlen)

scsi_cdb_writeverify12(a) ==
  scsi_create_task(12, Layout12(Opcode.writeverify12, VerifyFlags(a), a),
                   Writes(a.xferlen), a.xferlen)

scsi_cdb_writeverify16(a) ==
  scsi_create_task(16, Layout16(Opcode.writeverify16, VerifyFlags(a), a),
                   Writes(a.xferlen), a.xferlen)

-----------------------------------------------------------------------------
(* Commands about ranges of blocks: a.blocks is their number *)

WriteSameFlags(a) == (a.protect % 8) * 32 + Bit(a.anchor, 16)
                     + Bit(a.unmap, 8)

scsi_cdb_writesame10(a) ==
  scsi_create_task(10,
    At(0, <<Opcode.writesame10, WriteSameFlags(a)>>
          \o scsi_set_uint32(a.lba[2]) \o <<a.group % 32>>
          \o scsi_set_uint16(a.blocks)),
    "write", a.datalen)

\* NDOB (bit 0) says that no block of data comes with the command.
scsi_cdb_writesame16(a) ==
  scsi_create_task(16,
    At(0, <<Opcode.writesame16, WriteSameFlags(a) + Bit(a.datalen = 0, 1)>>
          \o scsi_set_uint64(a.lba) \o scsi_set_uint32(a.blocks)
          \o <<a.group % 32>>),
    "write", a.datalen)

scsi_cdb_synchronizecache10(a) ==
  scsi_create_task(10,
    At(0, <<Opcode.synchronizecache10, Bit(a.syncnv, 4) + Bit(a.immed, 2)>>
          \o scsi_set_uint32(a.lba[2]) \o <<0>> \o scsi_set_uint16(a.blocks)),
    "none", 0)

scsi_cdb_synchronizecache16(a) ==
  scsi_create_task(16,
    At(0, <<Opcode.synchronizecache16, Bit(a.syncnv, 4) + Bit(a.immed, 2)>>
          \o scsi_set_uint64(a.lba) \o scsi_set_uint32(a.blocks)),
    "none", 0)

scsi_cdb_prefetch10(a) ==
  scsi_create_task(10,
    At(0, <<Opcode.prefetch10, Bit(a.immed, 2)>>
          \o scsi_set_uint32(a.lba[2]) \o <<a.group % 32>>
          \o scsi_set_uint16(a.blocks)),
    "none", 0)

scsi_cdb_prefetch16(a) ==
  scsi_create_task(16,
    At(0, <<Opcode.prefetch16, Bit(a.immed, 2)>> \o scsi_set_uint64(a.lba)
          \o scsi_set_uint32(a.blocks) \o <<a.group % 32>>),
    "none", 0)

-----------------------------------------------------------------------------
(* Commands without a block address, or that read a list of alloc_len bytes *)

scsi_cdb_testunitready ==
  scsi_create_task(6, At(0, <<Opcode.testunitready>>), "none", 0)

\* The expected length is the parameter length rounded up to a multiple of
\* four; the CDB has the length itself.
scsi_cdb_sanitize(a) ==
  scsi_create_task(10,
    At(0, <<Opcode.sanitize,
            (a.sa % 32) + Bit(a.immed, 128) + Bit(a.ause, 32)>>)
      @@ At(7, scsi_set_uint16(a.param_len)),
    Writes(a.param_len), (((a.param_len + 3) \div 4) * 4) % 65536)

scsi_reportluns_cdb(report_type, alloc_len) ==
  scsi_create_task(12,
    At(0, <<Opcode.reportluns, 0, report_type>>)
      @@ At(6, scsi_set_uint32(alloc_len)),
    Reads(alloc_len), alloc_len)

scsi_cdb_readcapacity10(lba, pmi) ==
  scsi_create_task(10,
    At(0, <<Opcode.readcapacity10, 0>> \o scsi_set_uint32(lba))
      @@ At(8, <<Bit(pmi, 1)>>),
    "read", 8)

DefectLists(a) == Bit(a.req_plist, 16) + Bit(a.req_glist, 8) + (a.format % 8)

scsi_cdb_readdefectdata10(a) ==
  scsi_create_task(10,
    At(0, <<Opcode.readdefectdata10, 0, DefectLists(a)>>)
      @@ At(7, scsi_set_uint16(a.alloc_len)),
    "read", a.alloc_len)

\* The lists wanted go to byte 2, and then scsi_set_uint32 stores the address
\* descriptor index over them.
scsi_cdb_readdefectdata12(a) ==
  scsi_create_task(12,
    At(2, scsi_set_uint32(a.index)) @@ At(6, scsi_set_uint32(a.alloc_len))
      @@ At(0, <<Opcode.readdefectdata12, 0, DefectLists(a)>>),
    "read", a.alloc_len)

scsi_cdb_readtoc(a) ==
  IF a.format \notin 0 .. 2 THEN NULL
  ELSE scsi_create_task(10,
         At(0, <<Opcode.readtoc, Bit(a.msf, 2), a.format % 16>>)
           @@ At(6, <<IF a.format # 1 THEN a.track % 256 ELSE 0>>)
           @@ At(7, scsi_set_uint16(a.alloc_len)),
         Reads(a.alloc_len), a.alloc_len)

scsi_cdb_reserve6 == scsi_create_task(6, At(0, <<Opcode.reserve6>>), "none", 0)

scsi_cdb_release6 == scsi_create_task(6, At(0, <<Opcode.release6>>), "none", 0)

scsi_cdb_report_target_port_groups(alloc_len) ==
  scsi_create_task(12,
    At(0, <<Opcode.maintenancein, \h0A>>) @@ At(6, scsi_set_uint32(alloc_len)),
    Reads(alloc_len), alloc_len)

scsi_cdb_report_supported_opcodes(a) ==
  scsi_create_task(12,
    At(0, <<Opcode.maintenancein, \h0C, (a.options % 8) + Bit(a.rctd, 128),
            a.opcode>> \o scsi_set_uint16(a.sa)
          \o scsi_set_uint32(a.alloc_len)),
    Reads(a.alloc_len), a.alloc_len)

scsi_cdb_inquiry(evpd, page_code, alloc_len) ==
  scsi_create_task(6,
    At(0, <<Opcode.inquiry, Bit(evpd, 1), page_code>>
          \o scsi_set_uint16(alloc_len)),
    Reads(alloc_len), alloc_len)

scsi_cdb_unmap(anchor, group, xferlen) ==
  scsi_create_task(10,
    At(0, <<Opcode.unmap, Bit(anchor, 1)>>) @@ At(6, <<group % 32>>)
      @@ At(7, scsi_set_uint16(xferlen)),
    Writes(xferlen), xferlen)

scsi_cdb_persistent_reserve_in(sa, xferlen) ==
  scsi_create_task(10,
    At(0, <<Opcode.persistent_reserve_in, sa % 32>>)
      @@ At(7, scsi_set_uint16(xferlen)),
    Reads(xferlen), xferlen)

\* The parameter list of PERSISTENT RESERVE OUT is 24 bytes for every service
\* action but REGISTER AND MOVE (7), which is not implemented.
PrOutParameters(p) ==
  At(0, scsi_set_uint64(p.key) \o scsi_set_uint64(p.sa_key)
        \o <<0, 0, 0, 0,
             Bit(p.spec_i_pt, 8) + Bit(p.all_tg_pt, 4) + Bit(p.aptpl, 1),
             0, 0, 0>>)

scsi_cdb_persistent_reserve_out(sa, scope, type) ==
  IF sa \notin 0 .. 6 THEN NULL
  ELSE scsi_create_task(10,
         At(0, <<Opcode.persistent_reserve_out, sa % 32,
                 (scope % 16) * 16 + (type % 16)>>)
           @@ At(5, scsi_set_uint32(24)),
         "write", 24)

scsi_cdb_modesense6(a) ==
  scsi_create_task(6,
    At(0, <<Opcode.modesense6, Bit(a.dbd, 8), a.pc * 64 + a.page_code,
            a.sub_page_code, a.alloc_len>>),
    Reads(a.alloc_len), a.alloc_len)

scsi_cdb_modesense10(a) ==
  scsi_create_task(10,
    At(0, <<Opcode.modesense10, Bit(a.llbaa, 16) + Bit(a.dbd, 8),
            a.pc * 64 + a.page_code, a.sub_page_code>>)
      @@ At(7, scsi_set_uint16(a.alloc_len)),
    Reads(a.alloc_len), a.alloc_len)

scsi_cdb_modeselect6(pf, sp, param_len) ==
  scsi_create_task(6,
    At(0, <<Opcode.modeselect6, Bit(pf, 16) + Bit(sp, 1), 0, 0,
            param_len % 256>>),
    Writes(param_len), param_len)

scsi_cdb_modeselect10(pf, sp, param_len) ==
  scsi_create_task(10,
    At(0, <<Opcode.modeselect10, Bit(pf, 16) + Bit(sp, 1)>>)
      @@ At(7, scsi_set_uint16(param_len)),
    Writes(param_len), param_len)

scsi_cdb_startstopunit(a) ==
  scsi_create_task(6,
    At(0, <<Opcode.startstopunit, Bit(a.immed, 1), 0, a.pcm % 16,
            (a.pc % 16) * 16 + Bit(a.no_flush, 4) + Bit(a.loej, 2)
              + Bit(a.start, 1)>>),
    "none", 0)

scsi_cdb_preventallow(prevent) ==
  scsi_create_task(6,
    At(0, <<Opcode.preventallow>>) @@ At(4, <<prevent % 4>>), "none", 0)

scsi_cdb_readcapacity16 ==
  scsi_create_task(16,
    At(0, <<Opcode.serviceactionin, \h10>>) @@ At(10, scsi_set_uint32(32)),
    "read", 32)

scsi_cdb_get_lba_status(lba, alloc_len) ==
  scsi_create_task(16,
    At(0, <<Opcode.serviceactionin, \h12>> \o scsi_set_uint64(lba)
          \o scsi_set_uint32(alloc_len)),
    Reads(alloc_len), alloc_len)

scsi_cdb_extended_copy(param_len) ==
  scsi_create_task(16,
    At(0, <<Opcode.extended_copy>>) @@ At(10, scsi_set_uint32(param_len)),
    Writes(param_len), param_len)

scsi_cdb_receive_copy_results(sa, list_id, xferlen) ==
  scsi_create_task(16,
    At(0, <<Opcode.receive_copy_results, sa % 32, list_id % 256>>)
      @@ At(10, scsi_set_uint32(xferlen)),
    Reads(xferlen), xferlen)

-----------------------------------------------------------------------------
(* Taking a CDB apart again.  Every reader returns the same fields, so that *)
(* they can be compared with the arguments of the builder.                  *)

RwFields(b) ==
  [ protect |-> (b[1] \div 32) % 8, dpo |-> (b[1] \div 16) % 2 = 1,
    fua |-> (b[1] \div 8) % 2 = 1, fua_nv |-> (b[1] \div 2) % 2 = 1 ]

VerifyFields(b) ==
  [ protect |-> (b[1] \div 32) % 8, dpo |-> (b[1] \div 16) % 2 = 1,
    bytchk |-> (b[1] \div 2) % 2 = 1 ]

Range10(b) == [ lba |-> <<0, scsi_get_uint32(b, 2)>>, group |-> b[6] % 32,
                blocks |-> scsi_get_uint16(b, 7) ]
Range12(b) == [ lba |-> <<0, scsi_get_uint32(b, 2)>>, group |-> b[10] % 32,
                blocks |-> scsi_get_uint32(b, 6) ]
Range16(b) == [ lba |-> scsi_get_uint64(b, 2), group |-> b[14] % 32,
                blocks |-> scsi_get_uint32(b, 10) ]

\* The address is read from the first four bytes, opcode and all, and cut to
\* 21 bits.
scsi_read6_cdb_unmarshall(b) ==
  [ lba |-> <<0, scsi_get_uint32(b, 0) % \h200000>>, blocks |-> b[4] ]

scsi_read10_cdb_unmarshall(b) == RwFields(b) @@ Range10(b)
scsi_read12_cdb_unmarshall(b) == RwFields(b) @@ Range12(b)
scsi_read16_cdb_unmarshall(b) == RwFields(b) @@ Range16(b)
scsi_verify10_cdb_unmarshall(b) == VerifyFields(b) @@ Range10(b)
scsi_verify12_cdb_unmarshall(b) == VerifyFields(b) @@ Range12(b)
scsi_verify16_cdb_unmarshall(b) == VerifyFields(b) @@ Range16(b)
scsi_write10_cdb_unmarshall(b) == RwFields(b) @@ Range10(b)
scsi_write12_cdb_unmarshall(b) == RwFields(b) @@ Range12(b)
scsi_write16_cdb_unmarshall(b) == RwFields(b) @@ Range16(b)
scsi_writeatomic16_cdb_unmarshall(b) ==
  [f \in {"protect", "dpo", "fua"} |-> RwFields(b)[f]]
    @@ [blocks |-> scsi_get_uint16(b, 12)] @@ Range16(b)

scsi_cdb_unmarshall(task) ==
  LET b == task.cdb
  IN  CASE b[0] = Opcode.read6 -> scsi_read6_cdb_unmarshall(b)
        [] b[0] = Opcode.read10 -> scsi_read10_cdb_unmarshall(b)
        [] b[0] = Opcode.read12 -> scsi_read12_cdb_unmarshall(b)
        [] b[0] = Opcode.read16 -> scsi_read16_cdb_unmarshall(b)
        [] b[0] = Opcode.verify10 -> scsi_verify10_cdb_unmarshall(b)
        [] b[0] = Opcode.verify12 -> scsi_verify12_cdb_unmarshall(b)
        [] b[0] = Opcode.verify16 -> scsi_verify16_cdb_unmarshall(b)
        [] b[0] = Opcode.write10 -> scsi_write10_cdb_unmarshall(b)
        [] b[0] = Opcode.write12 -> scsi_write12_cdb_unmarshall(b)
        [] b[0] = Opcode.write16 -> scsi_write16_cdb_unmarshall(b)
        [] b[0] = Opcode.writeatomic16 -> scsi_writeatomic16_cdb_unmarshall(b)
        [] OTHER -> NULL

=============================================================================
