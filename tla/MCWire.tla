------------------------------- MODULE MCWire -------------------------------
(***************************************************************************)
(* Arguments on both sides of every limit of a CDB, lists of up to three   *)
(* elements, first requests that cut them off everywhere, and one page and *)
(* one sense of every kind.                                                *)
(***************************************************************************)
EXTENDS Wire

Args(lba, blocks, bs, protect, flag) ==
  [ lun |-> 1, lba |-> lba, xferlen |-> blocks * bs, datalen |-> blocks * bs,
    blocksize |-> bs, blocks |-> blocks, protect |-> protect, dpo |-> TRUE,
    fua |-> flag, fua_nv |-> ~flag, bytchk |-> flag, group |-> 3,
    iov |-> << >>, data |-> <<blocks * bs>>,
    anchor |-> flag, unmap |-> ~flag, wrprotect |-> protect, syncnv |-> flag,
    immed |-> ~flag, num |-> blocks, list |-> << >> ]

MCNames == {"read6", "read10", "read12", "read16", "write10", "write12",
            "write16", "writeatomic16", "orwrite", "compareandwrite",
            "writeverify10", "writeverify12", "writeverify16", "verify10",
            "verify12", "verify16", "writesame10", "writesame16",
            "prefetch10", "prefetch16", "synchronizecache10",
            "synchronizecache16"}

\* Only the 16 byte CDBs take a 64-bit address.
MCBlockCalls ==
  { c \in [ name : MCNames,
            args : { Args(l, n, bs, p, f) :
                       l \in {<<0, 5>>, <<0, \h1FFFFF>>, <<0, \h200000>>,
                              <<1, 7>>},
                       n \in {0, 1, 255, 256, 257, 510, 512, 65535, 65536},
                       bs \in {1, 2}, p \in {0, 5}, f \in BOOLEAN } ] :
      c.args.lba[1] > 0 =>
        c.name \in {"read16", "write16", "writeatomic16", "orwrite",
                    "compareandwrite", "writeverify16", "verify16",
                    "writesame16", "prefetch16", "synchronizecache16"} }

MCLists == UNION {[1 .. n -> 1 .. 2] : n \in 1 .. 3} \cup {<<3>>, <<3, 1>>}

MCPages ==
  { [page_code |-> \h0A, flip |-> "swp",
     bytes |-> <<\h26, \h12, \h80, \hC1, 0, 0, 0, 30, 1, 44>>],
    [page_code |-> \h0A, flip |-> "swp",
     bytes |-> <<0, 0, \h48, 0, 0, 0, 255, 255, 0, 0>>],
    [page_code |-> \h08, flip |-> "wce",
     bytes |-> <<\hA4, \h52, 255, 255, 0, 1, 2, 3, 4, 5, \hE1, 7, 0, 9, 0, 0,
                 0, 0>>],
    [page_code |-> \h02, flip |-> "dimm",
     bytes |-> <<1, 2, 3, 4, 5, 6, 7, 8, 9, 10, \h75, 0, 11, 12>>],
    [page_code |-> \h1C, flip |-> "dexcpt",
     bytes |-> <<\h91, 6, 0, 0, 1, 44, 0, 0, 0, 2>>],
    [page_code |-> \h1A, flip |-> "idle_a",
     bytes |-> <<\h41, \h0D>> \o Rep(1, 20) \o Rep(0, 15) \o <<\h94>>] }

\* Descriptor sense with one descriptor at most: parse_sense_descriptors
\* steps into the first descriptor instead of behind it.
MCSenses ==
  { x \in [ format : {"fixed", "descriptor"}, key : {5, 6, 14},
            ascq : {\h2400, \h2903, \h1D00}, info : {0, 517},
            field : {0, 2} ] :
      x.format = "fixed" \/ x.info = 0 \/ x.field = 0 }

MCTargetLists ==
  LET t(n, p) == [name |-> n, portals |-> p]
  IN  { << >>, <<t(1, << >>)>>, <<t(1, <<1, 2>>), t(2, <<1>>)>>,
        <<t(1, <<3, 1, 2>>), t(3, << >>), t(2, <<2, 1>>)>> }

=============================================================================
