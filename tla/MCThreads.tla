------------------------------ MODULE MCThreads -----------------------------
(***************************************************************************)
(* The calls of lib/sync.c on a session that is logged in, with arguments  *)
(* that are accepted and with ones that are not.                           *)
(***************************************************************************)
EXTENDS Threads

SC == INSTANCE SyncCalls

S == [session_type |-> "normal", is_loggedin |-> TRUE,
      pending_reconnect |-> FALSE]

Args(len) ==
  [ lun |-> 1, lba |-> <<0, 5>>, xferlen |-> len, datalen |-> len,
    blocksize |-> 2, blocks |-> 1, protect |-> 0, wrprotect |-> 0,
    dpo |-> FALSE, fua |-> FALSE, fua_nv |-> FALSE, bytchk |-> TRUE,
    group |-> 0, iov |-> << >>, data |-> <<len>>, anchor |-> FALSE,
    unmap |-> FALSE, list |-> << >>, alloc_len |-> 4 * len,
    report_type |-> 0, evpd |-> FALSE, page_code |-> 0, sub_page_code |-> 0,
    pc |-> 0, pcm |-> 0, dbd |-> TRUE, llbaa |-> FALSE, pmi |-> FALSE,
    req_plist |-> TRUE, req_glist |-> TRUE, format |-> 0, index |-> 0,
    sa |-> 1, scope |-> 0, type |-> 1, immed |-> TRUE, ause |-> FALSE,
    param_len |-> 0, syncnv |-> FALSE, num |-> 1, no_flush |-> FALSE,
    loej |-> FALSE, start |-> TRUE, prevent |-> 1, msf |-> FALSE,
    track |-> 0, options |-> 0, rctd |-> FALSE, opcode |-> 0, list_id |-> 1,
    pf |-> TRUE, sp |-> FALSE, task |-> SC!scsi_cdb_testunitready,
    mp |-> [ ps |-> 0, spf |-> 0, len |-> 10, page_code |-> 10,
             subpage_code |-> 0,
             fields |-> [f \in DOMAIN SC!scsi_parse_mode_control |-> 0] ] ]

ScsiCalls(a) ==
  {
    SC!iscsi_reportluns_sync(S, a), SC!iscsi_testunitready_sync(S, a),
    SC!iscsi_inquiry_sync(S, a), SC!iscsi_read6_sync(S, a),
    SC!iscsi_read10_sync(S, a), SC!iscsi_read12_sync(S, a),
    SC!iscsi_read16_sync(S, a), SC!iscsi_readcapacity10_sync(S, a),
    SC!iscsi_readcapacity16_sync(S, a), SC!iscsi_readdefectdata10_sync(S, a),
    SC!iscsi_readdefectdata12_sync(S, a), SC!iscsi_sanitize_sync(S, a),
    SC!iscsi_sanitize_block_erase_sync(S, a),
    SC!iscsi_sanitize_crypto_erase_sync(S, a),
    SC!iscsi_sanitize_exit_failure_mode_sync(S, a),
    SC!iscsi_get_lba_status_sync(S, a),
    SC!iscsi_synchronizecache10_sync(S, a), SC!iscsi_startstopunit_sync(S, a),
    SC!iscsi_preventallow_sync(S, a), SC!iscsi_synchronizecache16_sync(S, a),
    SC!iscsi_prefetch10_sync(S, a), SC!iscsi_prefetch16_sync(S, a),
    SC!iscsi_write10_sync(S, a), SC!iscsi_write12_sync(S, a),
    SC!iscsi_write16_sync(S, a), SC!iscsi_writeatomic16_sync(S, a),
    SC!iscsi_orwrite_sync(S, a), SC!iscsi_compareandwrite_sync(S, a),
    SC!iscsi_writeverify10_sync(S, a), SC!iscsi_writeverify12_sync(S, a),
    SC!iscsi_writeverify16_sync(S, a), SC!iscsi_verify10_sync(S, a),
    SC!iscsi_verify12_sync(S, a), SC!iscsi_verify16_sync(S, a),
    SC!iscsi_writesame10_sync(S, a), SC!iscsi_writesame16_sync(S, a),
    SC!iscsi_persistent_reserve_in_sync(S, a),
    SC!iscsi_persistent_reserve_out_sync(S, a), SC!iscsi_unmap_sync(S, a),
    SC!iscsi_readtoc_sync(S, a), SC!iscsi_reserve6_sync(S, a),
    SC!iscsi_release6_sync(S, a),
    SC!iscsi_report_supported_opcodes_sync(S, a),
    SC!iscsi_receive_copy_results_sync(S, a),
    SC!iscsi_extended_copy_sync(S, a), SC!iscsi_scsi_command_sync(S, a),
    SC!iscsi_modeselect6_sync(S, a), SC!iscsi_modeselect10_sync(S, a),
    SC!iscsi_modesense6_sync(S, a), SC!iscsi_modesense10_sync(S, a)
  }

MCCalls ==
  ScsiCalls(Args(4)) \cup ScsiCalls(Args(3))
    \cup { SC!iscsi_connect_sync(TRUE), SC!iscsi_connect_sync(FALSE),
           SC!iscsi_full_connect_sync(TRUE), SC!iscsi_login_sync(TRUE),
           SC!iscsi_logout_sync(S),
           SC!iscsi_task_mgmt_abort_task_sync(S),
           SC!iscsi_task_mgmt_abort_task_set_sync(S),
           SC!iscsi_task_mgmt_lun_reset_sync(S),
           SC!iscsi_task_mgmt_lun_reset_sync([S EXCEPT !.is_loggedin = FALSE]),
           SC!iscsi_task_mgmt_target_warm_reset_sync(S),
           SC!iscsi_task_mgmt_target_cold_reset_sync(S) }

=============================================================================
