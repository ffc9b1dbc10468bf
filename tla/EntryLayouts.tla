---------------------------- MODULE EntryLayouts ----------------------------
(***************************************************************************)
(* The masks and shifts of the builder types, read off their with_ methods *)
(* and getters.  Entry bit 64 * q + b is bit b of word q (low and high are *)
(* words 0 and 1).  See PackedEntry for what a layout record means.        *)
(***************************************************************************)
EXTENDS Bits, TLC

Word(q, hi, lo) == (WordBits * q + lo) .. (WordBits * q + hi)

(* Value bits lo, lo + 1, ... at the entry bits hi..=to. *)
Run(lo, q, hi, to) ==
  [b \in lo .. (lo + hi - to) |-> WordBits * q + to + b - lo]

(* A setter and a getter that agree on entry bits q[hi:to], the bits the   *)
(* comment above them gives the field.                                     *)
Plain(arg, lo, q, hi, to) ==
  [put |-> Run(lo, q, hi, to), clear |-> Word(q, hi, to), raise |-> {},
   get |-> Run(lo, q, hi, to), arg |-> arg, val |-> lo .. (lo + hi - to)]

(* A getter without a setter. *)
ReadOnly(lo, q, hi, to) ==
  [put |-> << >>, clear |-> {}, raise |-> {}, get |-> Run(lo, q, hi, to), arg |-> {},
   val |-> lo .. (lo + hi - to)]

Bool == {0}
U8 == 0 .. 7
U16 == 0 .. 15
U32 == 0 .. 31
U64 == 0 .. 63

(* Fields of an enum type go through its bits() and from_bits(), which are *)
(* inverse to each other on all codes of the field's width, so the code is *)
(* the value.  The sets below are the bits an argument can hand over: a    *)
(* variant Reserved(u8) or Other(u8) carries a whole byte, and bits() cuts *)
(* it to the field.                                                        *)
PagingMode == 0 .. 2
AddrWidth == U8
TransType == 0 .. 1
Pgtt == U8
Flpm == U8
DeliveryMode == U8
SourceValidationType == 0 .. 1
SourceQualifier == 0 .. 1
FaultReason == U8
AddrType == 0 .. 1

Flag(q, bit) == Plain(Bool, 0, q, bit, bit)

---------------------------------------------------------------------------
(* AMD DeviceTableEntry *)

(* with_host_page_table_root keeps only q0[11:0]: (q0 & 0xfff) | ... *)
DteRoot ==
  [Plain(U64, 12, 0, 51, 12) EXCEPT !.clear = Word(0, 63, 12)]

DteHost ==
  [f \in {"valid", "translation_valid"} |-> Flag(0, IF f = "valid" THEN 0 ELSE 1)]
    @@ "paging_mode" :> Plain(PagingMode, 0, 0, 11, 9)
    @@ "had" :> ReadOnly(0, 0, 8, 7)
    @@ "host_page_table_root" :> DteRoot

DteGuestControl ==
  "ppr_enable" :> Flag(0, 52)
    @@ "giov" :> ReadOnly(0, 0, 54, 54)
    @@ "guest_translation_valid" :> Flag(0, 55)
    @@ "glx" :> Plain(U8, 0, 0, 57, 56)
    @@ "ir" :> Flag(0, 61)
    @@ "iw" :> Flag(0, 62)
    @@ "snoop_disable" :> Flag(1, 38)

GuestCr3Bits == Run(12, 0, 60, 58) @@ Run(15, 1, 31, 16) @@ Run(31, 1, 63, 43)

(* A pointer cut in three: q0[60:58], q1[31:16] and q1[63:43]. *)
DteGuestCr3 ==
  "guest_cr3_table" :>
    [put |-> GuestCr3Bits, raise |-> {}, get |-> GuestCr3Bits, arg |-> U64, val |-> 12 .. 51,
     clear |-> Word(0, 60, 58) \cup Word(1, 31, 16) \cup Word(1, 63, 43)]

(* The pointer setter carries 34 bits of addr >> 7 and masks 38 off; the   *)
(* documented field, q2[51:6], has 46, and the getter reads them all.      *)
DteInterrupt ==
  "interrupt_map_valid" :> Flag(2, 0)
    @@ "interrupt_table_len" :> Plain(U8, 0, 2, 4, 1)
    @@ "interrupt_table_ptr" :>
         [put |-> Run(7, 2, 39, 6), clear |-> Word(2, 43, 6), raise |-> {},
          get |-> Run(7, 2, 51, 6), arg |-> U64, val |-> 7 .. 52]
    @@ "guest_paging_mode" :> Plain(U8, 0, 2, 55, 54)

DteIds ==
  "domain_id" :> Plain(U16, 0, 2, 15, 0)
    @@ "init_pass" :> ReadOnly(0, 2, 56, 56)
    @@ "extint_pass" :> ReadOnly(0, 2, 57, 57)
    @@ "nmi_pass" :> ReadOnly(0, 2, 58, 58)
    @@ "guest_device_id" :> Plain(U16, 0, 3, 31, 16)
    @@ "guest_id" :> Plain(U16, 0, 3, 47, 32)

DeviceTableEntry == DteHost @@ DteGuestControl @@ DteGuestCr3 @@ DteInterrupt @@ DteIds

(* q0[63:52] belongs to these fields, and with_host_page_table_root zeroes *)
(* it; q2[15:0] is the domain id and also IV, IntTabLen and the low bits   *)
(* of the interrupt table pointer.                                         *)
DteAboveRoot ==
  {"ppr_enable", "giov", "guest_translation_valid", "glx", "guest_cr3_table", "ir", "iw"}
DteInterruptFields == {"interrupt_map_valid", "interrupt_table_len", "interrupt_table_ptr"}

DteOverlaps ==
  ({"host_page_table_root"} \X DteAboveRoot)
    \cup ({"domain_id"} \X DteInterruptFields)
    \cup (DteInterruptFields \X {"domain_id"})

---------------------------------------------------------------------------
(* Intel context.rs *)

(* RootEntry::new and PasidDirEntry::new make a whole entry, present: a    *)
(* call replaces all that was there.                                       *)
PointerEntry == [Plain(U64, 12, 0, 63, 12) EXCEPT !.clear = Word(0, 63, 0), !.raise = {0}]

RootEntry == "context_table" :> PointerEntry @@ "present" :> ReadOnly(0, 0, 0, 0)

PasidDirEntry ==
  "pasid_table_ptr" :> PointerEntry
    @@ "present" :> ReadOnly(0, 0, 0, 0)
    @@ "fault_disable" :> ReadOnly(0, 0, 1, 1)

RootOverlaps == {<<"context_table", "present">>}
PasidDirOverlaps == {"pasid_table_ptr"} \X {"present", "fault_disable"}

ContextEntry ==
  "present" :> Flag(0, 0)
    @@ "fault_disable" :> Flag(0, 1)
    @@ "translation_type" :> Plain(TransType, 0, 0, 3, 2)
    @@ "second_stage_ptr" :> Plain(U64, 12, 0, 63, 12)
    @@ "address_width" :> Plain(AddrWidth, 0, 1, 2, 0)
    @@ "domain_id" :> Plain(U16, 0, 1, 23, 8)

ScalableContextEntry ==
  "present" :> Flag(0, 0)
    @@ "fault_disable" :> ReadOnly(0, 0, 1, 1)
    @@ "device_tlb_enable" :> ReadOnly(0, 0, 2, 2)
    @@ "pasid_enable" :> Flag(0, 3)
    @@ "page_request_enable" :> Flag(0, 4)
    @@ "hpt_enable" :> ReadOnly(0, 0, 5, 5)
    @@ "eptr_enable" :> ReadOnly(0, 0, 6, 6)
    @@ "pasid_dir_size" :> Plain(U8, 0, 0, 11, 9)
    @@ "pasid_dir_ptr" :> Plain(U64, 12, 0, 63, 12)
    @@ "rid_pasid" :> Plain(U32, 0, 1, 19, 0)
    @@ "rid_priv" :> Flag(1, 20)

PasidTableEntryQ0 ==
  "present" :> Flag(0, 0)
    @@ "fault_disable" :> ReadOnly(0, 0, 1, 1)
    @@ "ss_accessed_dirty" :> Flag(0, 9)
    @@ "pgtt" :> Plain(Pgtt, 0, 0, 8, 6)
    @@ "page_table_ptr" :> Plain(U64, 12, 0, 63, 12)

(* FLRTP is documented as q2[63:12]; setter and getter stop at bit 51. *)
FirstLevelPtr == [Plain(U64, 12, 2, 51, 12) EXCEPT !.val = 12 .. 63]

PasidTableEntryHigh ==
  "domain_id" :> Plain(U16, 0, 1, 15, 0)
    @@ "page_snoop" :> ReadOnly(0, 1, 24, 24)
    @@ "cache_disable" :> ReadOnly(0, 1, 25, 25)
    @@ "supervisor_requests" :> Flag(2, 0)
    @@ "flpm" :> Plain(Flpm, 0, 2, 3, 2)
    @@ "first_level_ptr" :> FirstLevelPtr
    @@ "write_protect_enable" :> ReadOnly(0, 2, 4, 4)
    @@ "ext_accessed_flag" :> ReadOnly(0, 2, 7, 7)

(* hpt[0..3] are words 4 to 7; nothing sets them. *)
PasidTableEntryHpt ==
  "hpt_size" :> ReadOnly(0, 5, 1, 0)
    @@ "hpt_domain_id" :> ReadOnly(0, 6, 15, 0)
    @@ "hpt_root_high" :> ReadOnly(0, 7, 63, 0)
    @@ "hpt_root_low" :> ReadOnly(0, 6, 11, 0)

PasidTableEntry == PasidTableEntryQ0 @@ PasidTableEntryHigh @@ PasidTableEntryHpt

---------------------------------------------------------------------------
(* Interrupt remapping entries of both crates, the fault record and the    *)
(* AMD control register.                                                   *)

PostedAddrBits == Run(6, 0, 63, 38) @@ Run(32, 1, 63, 32)

(* The posted descriptor address also sets IM (bit 15), and shares         *)
(* low[63:38] with the destination id of the remapped format.              *)
Irte ==
  "mode" :> ReadOnly(0, 0, 15, 15)
    @@ "present" :> Flag(0, 0)
    @@ "fault_disable" :> ReadOnly(0, 0, 1, 1)
    @@ "destination_mode_logical" :> ReadOnly(0, 0, 2, 2)
    @@ "redirection_hint" :> ReadOnly(0, 0, 3, 3)
    @@ "trigger_mode_level" :> Flag(0, 4)
    @@ "delivery_mode" :> Plain(DeliveryMode, 0, 0, 7, 5)
    @@ "vector" :> Plain(U8, 0, 0, 23, 16)
    @@ "destination" :> Plain(U32, 0, 0, 63, 32)
    @@ "source_id" :> Plain(U16, 0, 1, 15, 0)
    @@ "source_qualifier" :> Plain(SourceQualifier, 0, 1, 17, 16)
    @@ "source_validation" :> Plain(SourceValidationType, 0, 1, 19, 18)
    @@ "urgent" :> Flag(0, 14)
    @@ "posted_descriptor_addr" :>
         [put |-> PostedAddrBits, clear |-> Word(0, 63, 38) \cup Word(1, 63, 32),
          raise |-> {15}, get |-> PostedAddrBits, arg |-> U64, val |-> 6 .. 63]

IrteOverlaps ==
  {<<"destination", "posted_descriptor_addr">>, <<"posted_descriptor_addr", "destination">>,
   <<"posted_descriptor_addr", "mode">>}

(* new_remapped() and new_posted(). *)
IrteBlank == {{}, {15}}

(* Four dwords: destination id in d0[15:0] and d1[7:0], valid d1[16].  The *)
(* destination is documented as 32 bits wide; 24 have a place.             *)
AmdDestinationBits == Run(0, 0, 15, 0) @@ Run(16, 0, 39, 32)

AmdIrte ==
  "valid" :> Flag(0, 48)
    @@ "destination" :>
         [put |-> AmdDestinationBits, clear |-> Word(0, 15, 0) \cup Word(0, 39, 32),
          raise |-> {}, get |-> AmdDestinationBits, arg |-> U32, val |-> 0 .. 31]
    @@ "vector" :> Plain(U8, 0, 1, 7, 0)

(* with_pasid also sets PP (high bit 31). *)
FaultRecord ==
  "fault" :> Flag(1, 63)
    @@ "reason" :> Plain(FaultReason, 0, 1, 39, 32)
    @@ "source_id" :> Plain(U16, 0, 1, 15, 0)
    @@ "fault_info" :> Plain(U64, 12, 0, 63, 12)
    @@ "pasid_present" :> ReadOnly(0, 1, 31, 31)
    @@ "pasid" :> [Plain(U32, 0, 1, 59, 40) EXCEPT !.raise = Word(1, 31, 31)]
    @@ "privilege_requested" :> ReadOnly(0, 1, 30, 30)
    @@ "execute_requested" :> ReadOnly(0, 1, 29, 29)
    @@ "addr_type" :> Plain(AddrType, 0, 1, 61, 60)

FaultRecordOverlaps == {<<"pasid", "pasid_present">>}

Control ==
  "iommu_en" :> Flag(0, 0)
    @@ "cmd_buf_en" :> Flag(0, 12)
    @@ "evt_log_en" :> Flag(0, 2)
    @@ "ppr_en" :> Flag(0, 15)
    @@ "gt_en" :> Flag(0, 16)
    @@ "invalidation_timeout" :> Plain(U8, 0, 0, 7, 5)

---------------------------------------------------------------------------
EntryKinds ==
  {"DeviceTableEntry", "ContextEntry", "ScalableContextEntry", "PasidTableEntry",
   "RootEntry", "PasidDirEntry", "Irte", "AmdIrte", "FaultRecord", "Control"}

EntryLayout ==
  "DeviceTableEntry" :> DeviceTableEntry
    @@ "ContextEntry" :> ContextEntry
    @@ "ScalableContextEntry" :> ScalableContextEntry
    @@ "PasidTableEntry" :> PasidTableEntry
    @@ "RootEntry" :> RootEntry
    @@ "PasidDirEntry" :> PasidDirEntry
    @@ "Irte" :> Irte
    @@ "AmdIrte" :> AmdIrte
    @@ "FaultRecord" :> FaultRecord
    @@ "Control" :> Control

EntryOverlaps ==
  "DeviceTableEntry" :> DteOverlaps @@ "Irte" :> IrteOverlaps
    @@ "FaultRecord" :> FaultRecordOverlaps
    @@ "RootEntry" :> RootOverlaps @@ "PasidDirEntry" :> PasidDirOverlaps
    @@ [k \in EntryKinds |-> {}]

(* The setters that hold less than the documented field. *)
EntryNarrow ==
  "DeviceTableEntry" :> {"interrupt_table_ptr"}
    @@ "PasidTableEntry" :> {"first_level_ptr"}
    @@ "AmdIrte" :> {"destination"}
    @@ [k \in EntryKinds |-> {}]

EntryBlank == "Irte" :> IrteBlank @@ [k \in EntryKinds |-> {{}}]
===========================================================================
