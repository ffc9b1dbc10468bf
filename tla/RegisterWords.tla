--------------------------- MODULE RegisterWords ---------------------------
(***************************************************************************)
(* The VT-d register words of intel-iommu/src/regs.rs that a driver needs  *)
(* to invalidate caches: the capability registers, GCMD and GSTS, CCMD,    *)
(* IVA, IOTLB and IQA.  Words and layouts are those of CommandCodec;       *)
(* register offsets are words too, since they are computed by shifts.      *)
(***************************************************************************)
EXTENDS CommandCodec

(* The getters of Cap: the field each one reads.  mgaw and num_fault_regs  *)
(* add one to theirs; domain_ids and max_amask_value compute as below.     *)
CapFigures ==
  [nd |-> At(0 .. 2, 0),
   rwbf |-> At(Bool, 4), plmr |-> At(Bool, 5), phmr |-> At(Bool, 6),
   caching_mode |-> At(Bool, 7), sagaw |-> At(0 .. 4, 8), mgaw |-> At(0 .. 5, 16),
   zlr |-> At(Bool, 22), dep |-> At(Bool, 23),
   fault_rec_offset_raw |-> At(0 .. 9, 24), sslps |-> At(0 .. 3, 34),
   page_selective_inval |-> At(Bool, 39), num_fault_regs |-> At(U8, 40),
   max_amask_value |-> At(0 .. 5, 48),
   write_drain |-> At(Bool, 54), read_drain |-> At(Bool, 55),
   fs_1g_pages |-> At(Bool, 56), posted_interrupts |-> At(Bool, 59),
   fs_5level |-> At(Bool, 60), enhanced_commands |-> At(Bool, 61),
   esirtps |-> At(Bool, 62), esrtps |-> At(Bool, 63)]

Cap(raw) == Decoded([get |-> CapFigures], raw)

(* Cap::domain_ids is 2^n domains for n = 4 + 2 * ND: ids of n bits. *)
domain_ids(raw) == SUBSET (0 .. (3 + 2 * Number(Cap(raw).nd)))

max_amask_value(raw) == Number(Cap(raw).max_amask_value)

(* The optional features, most of them one bit. *)
EcapFeatures ==
  [max_handle_mask |-> At(0 .. 3, 20), memory_type |-> At(Bool, 25), nested |-> At(Bool, 26),
   deferred_inval |-> At(Bool, 27), page_requests |-> At(Bool, 29),
   execute_requests |-> At(Bool, 30), supervisor_requests |-> At(Bool, 31),
   no_write_flag |-> At(Bool, 33), extended_accessed_flag |-> At(Bool, 34),
   pasid_size |-> At(0 .. 4, 35), pasid |-> At(Bool, 40),
   devtlb_inval_throttle |-> At(Bool, 41), pasid_devtlb |-> At(Bool, 42),
   scalable_mode |-> At(Bool, 43), virtual_commands |-> At(Bool, 44),
   ss_accessed_dirty |-> At(Bool, 45), second_stage |-> At(Bool, 46),
   first_stage |-> At(Bool, 47), sm_page_walk_coherency |-> At(Bool, 48),
   rid_pasid |-> At(Bool, 49), tdx_connect |-> At(Bool, 50)]

EcapLateFeatures ==
  [perf_monitoring |-> At(Bool, 51), abort_dma_mode |-> At(Bool, 52),
   rid_priv |-> At(Bool, 53), host_permission_table |-> At(Bool, 55),
   pasid_translated |-> At(Bool, 56), ss_io_rw_bits |-> At(Bool, 57),
   stop_marker |-> At(Bool, 58), hpt_1g_pages |-> At(Bool, 59),
   rdt_config |-> At(Bool, 60), eim_required |-> At(Bool, 61),
   ir_required |-> At(Bool, 62)]

(* The getters of Ecap. *)
EcapFigures ==
  Beside(
    [coherent |-> At(Bool, 0), queued_inval |-> At(Bool, 1), dev_tlb |-> At(Bool, 2),
     intr_remap |-> At(Bool, 3), extended_intr_mode |-> At(Bool, 4),
     pass_through |-> At(Bool, 6), snoop_control |-> At(Bool, 7),
     iotlb_offset_raw |-> At(0 .. 9, 8)],
    Beside(EcapFeatures, EcapLateFeatures))

Ecap(raw) == Decoded([get |-> EcapFigures], raw)

(* No capability is read from another one's bits. *)
FieldsApart(figures) ==
  \A f, g \in DOMAIN figures :
    f # g => {figures[f][b] : b \in DOMAIN figures[f]} \cap {figures[g][b] : b \in DOMAIN figures[g]} = {}

ASSUME CapabilityAssumption == FieldsApart(CapFigures) /\ FieldsApart(EcapFigures)

---------------------------------------------------------------------------
(* Offsets. *)
GCMD == BitsOf(24)
GSTS == BitsOf(28)
CCMD == BitsOf(40)

(* A slip: the field is taken to end at bit 16. *)
iotlb_offset_short(ecap) ==
  LET iva == ShiftLeft(extract_bits(ecap, 16, 8), 4)
  IN  [iva |-> iva, iotlb |-> iva \cup {3}]

(* The low bits of IVA's offset are zero, so that + 8 sets bit 3. *)
iotlb_offset(ecap) ==
  LET iva == ShiftLeft(extract_bits(ecap, 17, 8), 4)
  IN  [iva |-> iva, iotlb |-> iva \cup {3}]

---------------------------------------------------------------------------
(* Command words.  None of the builders sets the bit that starts the       *)
(* operation; the caller ors it in (see the tests of regs.rs).             *)

(* Gcmd and Gsts: the same bit in both registers. *)
Gcmd == [ENABLE |-> 31, SRTP |-> 30, SFL |-> 29, WBF |-> 28, EA |-> 27, QIE |-> 26,
         IRE |-> 25, SIRTP |-> 24, CFI |-> 23]
Gsts == [TES |-> 31, RTPS |-> 30, FLS |-> 29, WBFS |-> 28, EAS |-> 27, QIES |-> 26,
         IRES |-> 25, IRTPS |-> 24, CFIS |-> 23]

(* Ccmd::new; SID and FM share bits 33:32. *)
Ccmd ==
  [put |-> [granularity |-> Run(0, 0, 5, 4), did |-> Run(0, 0, 23, 8),
            sid |-> Run(0, 0, 47, 32), fm |-> Run(0, 0, 33, 32)],
   get |-> [initiate |-> At(Bool, 63), granularity |-> At(0 .. 1, 4), did |-> At(U16, 8),
            sid |-> At(U16, 32), fm |-> At(0 .. 1, 32)]]

(* IotlbInval::new. *)
IotlbInval ==
  [put |-> [granularity |-> Run(0, 0, 61, 60), did |-> Run(0, 0, 47, 32),
            drain_reads |-> Run(0, 0, 49, 49), drain_writes |-> Run(0, 0, 48, 48)],
   get |-> [initiate |-> At(Bool, 63), granularity |-> At(0 .. 1, 60), did |-> At(U16, 32)]]

(* Iva::new. *)
Iva ==
  [put |-> [addr |-> Run(12, 0, 63, 12), am |-> Run(0, 0, 5, 0)],
   get |-> [addr |-> At(12 .. 63, 0), am |-> At(0 .. 5, 0)]]

(* Iqa::new. *)
Iqa ==
  [put |-> [base |-> Run(12, 0, 63, 12), wide |-> Run(0, 0, 4, 4)],
   get |-> [base |-> At(12 .. 63, 0), wide_descriptors |-> At(Bool, 4)]]
===========================================================================
