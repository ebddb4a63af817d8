----------------------------- MODULE SyncCalls ------------------------------
(***************************************************************************)
(* The calls that wait (lib/sync.c).  Each of them starts an asynchronous  *)
(* call with a callback that writes into a frame on its stack, and waits   *)
(* for it in event_loop.  A call is the record of what differs: whether it *)
(* could be started, its callback, whether its PDU is immediate, whether   *)
(* everything outstanding is cancelled before it, and whether it is after  *)
(* it, when it fails.  The plain call and the one with an iovec are one    *)
(* operator, as in ScsiCommands; Threads gives the calls their behaviour.  *)
(***************************************************************************)
EXTENDS ScsiCommands

Waiting(cb, started) ==
  [ cb |-> cb, started |-> started, immediate |-> TRUE, cancels |-> FALSE,
    cleans |-> FALSE ]

\* Connecting ends in a login, which is immediate, and is cleaned up after.
iscsi_connect_sync(started) ==
  [Waiting("iscsi_sync_cb", started) EXCEPT !.cleans = TRUE]
iscsi_full_connect_sync(started) ==
  [Waiting("iscsi_sync_cb", started) EXCEPT !.cleans = TRUE]
iscsi_login_sync(started) == Waiting("iscsi_sync_cb", started)
iscsi_logout_sync(s) == Waiting("iscsi_sync_cb", s.is_loggedin)
iscsi_discovery_sync == Waiting("iscsi_discovery_cb", TRUE)

iscsi_task_mgmt_sync(s) == Waiting("iscsi_task_mgmt_sync_cb", s.is_loggedin)
iscsi_task_mgmt_abort_task_sync(s) == iscsi_task_mgmt_sync(s)

\* Whatever is outstanding is cancelled first, in the thread of the caller: for
\* a unit too, where iscsi_task_mgmt_lun_reset_async cancels less.
CancelsAll(s) == [iscsi_task_mgmt_sync(s) EXCEPT !.cancels = TRUE]
iscsi_task_mgmt_abort_task_set_sync(s) == CancelsAll(s)
iscsi_task_mgmt_lun_reset_sync(s) == CancelsAll(s)
iscsi_task_mgmt_target_warm_reset_sync(s) == CancelsAll(s)
iscsi_task_mgmt_target_cold_reset_sync(s) == CancelsAll(s)

-----------------------------------------------------------------------------
(* SCSI commands: the task that could be made is waited for *)

scsi_sync(task) ==
  [Waiting("scsi_sync_cb", task # NULL) EXCEPT !.immediate = FALSE]

iscsi_reportluns_sync(s, a) == scsi_sync(iscsi_reportluns_task(s, a))
iscsi_testunitready_sync(s, a) == scsi_sync(iscsi_testunitready_task(s, a))
iscsi_inquiry_sync(s, a) == scsi_sync(iscsi_inquiry_task(s, a))
iscsi_read6_sync(s, a) == scsi_sync(iscsi_read6_task(s, a))
iscsi_read10_sync(s, a) == scsi_sync(iscsi_read10_task(s, a))
iscsi_read12_sync(s, a) == scsi_sync(iscsi_read12_task(s, a))
iscsi_read16_sync(s, a) == scsi_sync(iscsi_read16_task(s, a))
iscsi_readcapacity10_sync(s, a) == scsi_sync(iscsi_readcapacity10_task(s, a))
iscsi_readcapacity16_sync(s, a) == scsi_sync(iscsi_readcapacity16_task(s, a))
iscsi_readdefectdata10_sync(s, a) ==
  scsi_sync(iscsi_readdefectdata10_task(s, a))
iscsi_readdefectdata12_sync(s, a) ==
  scsi_sync(iscsi_readdefectdata12_task(s, a))
iscsi_sanitize_sync(s, a) == scsi_sync(iscsi_sanitize_task(s, a))
iscsi_sanitize_block_erase_sync(s, a) ==
  scsi_sync(iscsi_sanitize_block_erase_task(s, a))
iscsi_sanitize_crypto_erase_sync(s, a) ==
  scsi_sync(iscsi_sanitize_crypto_erase_task(s, a))
iscsi_sanitize_exit_failure_mode_sync(s, a) ==
  scsi_sync(iscsi_sanitize_exit_failure_mode_task(s, a))
iscsi_get_lba_status_sync(s, a) == scsi_sync(iscsi_get_lba_status_task(s, a))
iscsi_synchronizecache10_sync(s, a) ==
  scsi_sync(iscsi_synchronizecache10_task(s, a))
iscsi_startstopunit_sync(s, a) == scsi_sync(iscsi_startstopunit_task(s, a))
iscsi_preventallow_sync(s, a) == scsi_sync(iscsi_preventallow_task(s, a))
iscsi_synchronizecache16_sync(s, a) ==
  scsi_sync(iscsi_synchronizecache16_task(s, a))
iscsi_prefetch10_sync(s, a) == scsi_sync(iscsi_prefetch10_task(s, a))
iscsi_prefetch16_sync(s, a) == scsi_sync(iscsi_prefetch16_task(s, a))
iscsi_write10_sync(s, a) == scsi_sync(iscsi_write10_task(s, a))
iscsi_write12_sync(s, a) == scsi_sync(iscsi_write12_task(s, a))
iscsi_write16_sync(s, a) == scsi_sync(iscsi_write16_task(s, a))
iscsi_writeatomic16_sync(s, a) == scsi_sync(iscsi_writeatomic16_task(s, a))
iscsi_orwrite_sync(s, a) == scsi_sync(iscsi_orwrite_task(s, a))
iscsi_compareandwrite_sync(s, a) ==
  scsi_sync(iscsi_compareandwrite_task(s, a))
iscsi_writeverify10_sync(s, a) == scsi_sync(iscsi_writeverify10_task(s, a))
iscsi_writeverify12_sync(s, a) == scsi_sync(iscsi_writeverify12_task(s, a))
iscsi_writeverify16_sync(s, a) == scsi_sync(iscsi_writeverify16_task(s, a))
iscsi_verify10_sync(s, a) == scsi_sync(iscsi_verify10_task(s, a))
iscsi_verify12_sync(s, a) == scsi_sync(iscsi_verify12_task(s, a))
iscsi_verify16_sync(s, a) == scsi_sync(iscsi_verify16_task(s, a))
iscsi_writesame10_sync(s, a) == scsi_sync(iscsi_writesame10_task(s, a))
iscsi_writesame16_sync(s, a) == scsi_sync(iscsi_writesame16_task(s, a))
iscsi_persistent_reserve_in_sync(s, a) ==
  scsi_sync(iscsi_persistent_reserve_in_task(s, a))
iscsi_persistent_reserve_out_sync(s, a) ==
  scsi_sync(iscsi_persistent_reserve_out_task(s, a))
iscsi_unmap_sync(s, a) == scsi_sync(iscsi_unmap_task(s, a))
iscsi_readtoc_sync(s, a) == scsi_sync(iscsi_readtoc_task(s, a))
iscsi_reserve6_sync(s, a) == scsi_sync(iscsi_reserve6_task(s, a))
iscsi_release6_sync(s, a) == scsi_sync(iscsi_release6_task(s, a))
iscsi_report_supported_opcodes_sync(s, a) ==
  scsi_sync(iscsi_report_supported_opcodes_task(s, a))
iscsi_receive_copy_results_sync(s, a) ==
  scsi_sync(iscsi_receive_copy_results_task(s, a))
iscsi_extended_copy_sync(s, a) == scsi_sync(iscsi_extended_copy_task(s, a))
iscsi_scsi_command_sync(s, a) ==
  scsi_sync(iscsi_scsi_command_async(s, a.lun, a.task, a.data))
iscsi_modeselect6_sync(s, a) == scsi_sync(iscsi_modeselect6_task(s, a))
iscsi_modeselect10_sync(s, a) == scsi_sync(iscsi_modeselect10_task(s, a))
iscsi_modesense6_sync(s, a) == scsi_sync(iscsi_modesense6_task(s, a))
iscsi_modesense10_sync(s, a) == scsi_sync(iscsi_modesense10_task(s, a))

=============================================================================
