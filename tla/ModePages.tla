----------------------------- MODULE ModePages ------------------------------
(***************************************************************************)
(* Mode pages in both directions (lib/scsi-lowlevel.c): MODE SENSE data to *)
(* a list of pages, and one page back to the parameter list of a MODE      *)
(* SELECT.  A layout gives every field the byte of the page it starts in,  *)
(* counted after the page header, its shift and its number of bits.        *)
(***************************************************************************)
EXTENDS ScsiData

scsi_parse_mode_caching ==
  [ ic |-> <<0, 7, 1>>, abpf |-> <<0, 6, 1>>, cap |-> <<0, 5, 1>>,
    disc |-> <<0, 4, 1>>, size |-> <<0, 3, 1>>, wce |-> <<0, 2, 1>>,
    mf |-> <<0, 1, 1>>, rcd |-> <<0, 0, 1>>,
    demand_read_retention_priority |-> <<1, 4, 4>>,
    write_retention_priority |-> <<1, 0, 4>>,
    disable_prefetch_transfer_length |-> <<2, 0, 16>>,
    minimum_prefetch |-> <<4, 0, 16>>, maximum_prefetch |-> <<6, 0, 16>>,
    maximum_prefetch_ceiling |-> <<8, 0, 16>>, fsw |-> <<10, 7, 1>>,
    lbcss |-> <<10, 6, 1>>, dra |-> <<10, 5, 1>>, nv_dis |-> <<10, 0, 1>>,
    number_of_cache_segments |-> <<11, 0, 8>>,
    cache_segment_size |-> <<12, 0, 16>> ]

\* ua_intlck_ctrl takes the two bits above it along; autoload_mode is only
\* tested for zero, see ParsePage.
scsi_parse_mode_control ==
  [ tst |-> <<0, 5, 3>>, tmf_only |-> <<0, 4, 1>>, dpicz |-> <<0, 3, 1>>,
    d_sense |-> <<0, 2, 1>>, gltsd |-> <<0, 1, 1>>, rlec |-> <<0, 0, 1>>,
    queue_algorithm_modifier |-> <<1, 4, 4>>, nuar |-> <<1, 3, 1>>,
    qerr |-> <<1, 1, 2>>, vs |-> <<2, 7, 1>>, rac |-> <<2, 6, 1>>,
    ua_intlck_ctrl |-> <<2, 4, 4>>, swp |-> <<2, 3, 1>>, ato |-> <<3, 7, 1>>,
    tas |-> <<3, 6, 1>>, atmpe |-> <<3, 5, 1>>, rwwp |-> <<3, 4, 1>>,
    autoload_mode |-> <<3, 0, 3>>, busy_timeout_period |-> <<6, 0, 16>>,
    extended_selftest_completion_time |-> <<8, 0, 16>> ]

scsi_parse_mode_power_condition ==
  [ pm_bg_precedence |-> <<0, 6, 2>>, standby_y |-> <<0, 0, 1>>,
    idle_c |-> <<1, 3, 1>>, idle_b |-> <<1, 2, 1>>, idle_a |-> <<1, 1, 1>>,
    standby_z |-> <<1, 0, 1>>, idle_a_condition_timer |-> <<2, 0, 32>>,
    standby_z_condition_timer |-> <<6, 0, 32>>,
    idle_b_condition_timer |-> <<10, 0, 32>>,
    idle_c_condition_timer |-> <<14, 0, 32>>,
    standby_y_condition_timer |-> <<18, 0, 32>>, ccf_idle |-> <<37, 6, 2>>,
    ccf_standby |-> <<37, 4, 2>>, ccf_stopped |-> <<37, 2, 2>> ]

\* fair_arbitration takes EMDP, the bit above it, along.
scsi_parse_mode_disconnect_reconnect ==
  [ buffer_full_ratio |-> <<0, 0, 8>>, buffer_empty_ratio |-> <<1, 0, 8>>,
    bus_inactivity_limit |-> <<2, 0, 16>>,
    disconnect_time_limit |-> <<4, 0, 16>>,
    connect_time_limit |-> <<6, 0, 16>>, maximum_burst_size |-> <<8, 0, 16>>,
    emdp |-> <<10, 7, 1>>, fair_arbitration |-> <<10, 4, 4>>,
    dimm |-> <<10, 3, 1>>, dtdc |-> <<10, 0, 3>>,
    first_burst_size |-> <<12, 0, 16>> ]

scsi_parse_mode_informational_exceptions_control ==
  [ perf |-> <<0, 7, 1>>, ebf |-> <<0, 5, 1>>, ewasc |-> <<0, 4, 1>>,
    dexcpt |-> <<0, 3, 1>>, test |-> <<0, 2, 1>>, ebackerr |-> <<0, 1, 1>>,
    logerr |-> <<0, 0, 1>>, mrie |-> <<1, 0, 4>>,
    interval_timer |-> <<2, 0, 32>>, report_count |-> <<6, 0, 32>> ]

\* The pages that are taken apart: caching, control, disconnect-reconnect,
\* informational exceptions control, power condition.
ParseLayout(page_code) ==
  CASE page_code = \h08 -> scsi_parse_mode_caching
    [] page_code = \h0A -> scsi_parse_mode_control
    [] page_code = \h02 -> scsi_parse_mode_disconnect_reconnect
    [] page_code = \h1C -> scsi_parse_mode_informational_exceptions_control
    [] page_code = \h1A -> scsi_parse_mode_power_condition
    [] OTHER -> << >>

\* The fields of the page whose contents start at byte pos.
ParsePage(d, pos, page_code) ==
  LET fields == Fields(d, pos, ParseLayout(page_code))
  IN  IF page_code = \h0A
      THEN [fields EXCEPT !.autoload_mode = IF @ # 0 THEN 1 ELSE 0]
      ELSE fields

\* There is no full size for MODE SENSE(10): scsi_datain_getfullsize does not
\* know it.
scsi_modesense_datain_getfullsize(d, is_modesense6) ==
  IF is_modesense6 THEN task_get_uint8(d, 0) + 1 ELSE task_get_uint16(d, 0) + 2

ModeHeader(is_modesense6) ==
  IF is_modesense6
  THEN [ mode_data_length |-> <<0, 0, 8>>, medium_type |-> <<1, 0, 8>>,
         device_specific_parameter |-> <<2, 0, 8>>,
         block_descriptor_length |-> <<3, 0, 8>> ]
  ELSE [ mode_data_length |-> <<0, 0, 16>>, medium_type |-> <<2, 0, 8>>,
         device_specific_parameter |-> <<3, 0, 8>>, longlba |-> <<4, 0, 1>>,
         block_descriptor_length |-> <<6, 0, 16>> ]

\* Every page is put in front of the list.
scsi_modesense_datain_unmarshall(d, is_modesense6) ==
  LET hdr_len == IF is_modesense6 THEN 4 ELSE 8
      ms == Fields(d, 0, ModeHeader(is_modesense6))
      pages[pos \in Nat] ==
        LET spf == Get(d, pos, 6, 1)
            start == pos + 2 + 2 * spf
            len == IF spf = 1 THEN task_get_uint16(d, pos + 2)
                              ELSE task_get_uint8(d, pos + 1)
        IN  IF pos >= Len(d) THEN << >>
            ELSE pages[start + len]
                 \o << [ ps |-> Get(d, pos, 7, 1), spf |-> spf, len |-> len,
                         page_code |-> Get(d, pos, 0, 6),
                         subpage_code |->
                           IF spf = 1 THEN task_get_uint8(d, pos + 1) ELSE 0,
                         fields |-> ParsePage(d, start, Get(d, pos, 0, 6)) ] >>
  IN  IF Len(d) < hdr_len \/ ms.mode_data_length + 1 > Len(d) THEN NULL
      ELSE [pages |-> pages[hdr_len + ms.block_descriptor_length]] @@ ms

\* The first page of the list with this code, which is the last one sent.
scsi_modesense_get_page(ms, page_code, subpage_code) ==
  LET found == {i \in DOMAIN ms.pages :
                  /\ ms.pages[i].page_code = page_code
                  /\ ms.pages[i].subpage_code = subpage_code}
  IN  IF found = {} THEN NULL ELSE ms.pages[Min(found)]

-----------------------------------------------------------------------------
(* Back to bytes *)

\* What a field with value v contributes to byte k of the page contents.
Put(v, at, k) ==
  LET bytes == IF at[3] <= 8 THEN <<(v % 2 ^ at[3]) * 2 ^ at[2]>>
               ELSE IF at[3] <= 16 THEN scsi_set_uint16(v)
               ELSE scsi_set_uint32(v)
  IN  IF k \in at[1] .. (at[1] + Len(bytes) - 1)
      THEN bytes[k - at[1] + 1] ELSE 0

\* The page of size bytes that holds the fields, zero elsewhere.
Marshall(fields, layout, size) ==
  [k \in 1 .. size |->
     MapThenSumSet(LAMBDA f : Put(fields[f], layout[f], k - 3),
                   DOMAIN layout)]

\* Mutant of scsi_modesense_marshall_caching: the short page of SBC-1.
MarshallCachingShort(mp) == Marshall(mp.fields, scsi_parse_mode_caching, 12)

scsi_modesense_marshall_caching(mp) ==
  Marshall(mp.fields, scsi_parse_mode_caching, 20)

scsi_modesense_marshall_control(mp) ==
  Marshall(mp.fields,
           [scsi_parse_mode_control EXCEPT !.ua_intlck_ctrl = <<2, 4, 2>>], 12)

scsi_modesense_marshall_power_condition(mp) ==
  Marshall(mp.fields, scsi_parse_mode_power_condition, 40)

scsi_modesense_marshall_disconnect_reconnect(mp) ==
  Marshall(mp.fields,
           [scsi_parse_mode_disconnect_reconnect
              EXCEPT !.fair_arbitration = <<10, 4, 3>>], 16)

scsi_modesense_marshall_informational_exceptions_control(mp) ==
  Marshall(mp.fields, scsi_parse_mode_informational_exceptions_control, 12)

MarshallPage(mp) ==
  CASE mp.page_code = \h08 -> scsi_modesense_marshall_caching(mp)
    [] mp.page_code = \h0A -> scsi_modesense_marshall_control(mp)
    [] mp.page_code = \h02 -> scsi_modesense_marshall_disconnect_reconnect(mp)
    [] mp.page_code = \h1C ->
         scsi_modesense_marshall_informational_exceptions_control(mp)
    [] mp.page_code = \h1A -> scsi_modesense_marshall_power_condition(mp)

\* A zero mode parameter header, then the page.  The header of a sub-page
\* takes four bytes, two of which are the first two of the contents.
scsi_modesense_dataout_marshall(mp, is_modeselect6) ==
  LET page == MarshallPage(mp)
      code == mp.page_code + 128 * mp.ps + 64 * mp.spf
      header == IF mp.spf = 1
                THEN <<code, mp.subpage_code>> \o scsi_set_uint16(Len(page) - 4)
                ELSE <<code, (Len(page) - 2) % 256>>
  IN  IF ParseLayout(mp.page_code) = << >> THEN << >>
      ELSE [i \in 1 .. (IF is_modeselect6 THEN 4 ELSE 8) |-> 0] \o header
           \o SubSeq(page, Len(header) + 1, Len(page))

=============================================================================
