--------------------------- MODULE CommandCodec ---------------------------
(***************************************************************************)
(* The words of AMD commands (cmd.rs), AMD log entries (events.rs, ppr.rs) *)
(* and Intel queued-invalidation descriptors (qi.rs).  A command or entry  *)
(* is a record of its operation and its arguments, each argument a word.   *)
(* As in EntryLayouts the shifts and masks of an encode function are data: *)
(* `put' sends an argument's bit to a bit of the command, and `get' says   *)
(* where the decoder looks for it.                                         *)
(* Bit 64 * q + b is bit b of qword q; AMD's dwords 0 and 1 are qword 0.   *)
(***************************************************************************)
EXTENDS EntryLayouts

(* Value bits lo, lo + 1, ... at bits hi..=to of dword d. *)
DRun(lo, d, hi, to) == [b \in lo .. (lo + hi - to) |-> 32 * d + to + b - lo]

DFlag(d, bit) == DRun(0, d, bit, bit)

(* Two parts of an argument, or two groups of fields. *)
Beside(f, g) == [x \in DOMAIN f \cup DOMAIN g |-> IF x \in DOMAIN f THEN f[x] ELSE g[x]]

---------------------------------------------------------------------------
(* AMD *)

(* A slip: the upper half of the store address is forgotten. *)
CompletionWaitLow ==
  [store |-> DFlag(0, 0),
   interrupt |-> DFlag(0, 1),
   flush |-> DFlag(0, 2),
   store_addr |-> DRun(3, 0, 31, 3),
   store_data |-> Beside(DRun(0, 2, 31, 0), DRun(32, 3, 31, 0))]

CompletionWait ==
  [store |-> DFlag(0, 0),
   interrupt |-> DFlag(0, 1),
   flush |-> DFlag(0, 2),
   store_addr |-> Beside(DRun(3, 0, 31, 3), DRun(32, 1, 19, 0)),
   store_data |-> Beside(DRun(0, 2, 31, 0), DRun(32, 3, 31, 0))]

InvalidateDevTabEntry == [device_id |-> DRun(0, 0, 15, 0)]

InvalidateIommuPages ==
  [pasid |-> DRun(0, 0, 19, 0),
   domain_id |-> DRun(0, 1, 15, 0),
   addr |-> Beside(DRun(12, 2, 31, 12), DRun(32, 3, 31, 0)),
   guest_nested |-> DFlag(2, 2),
   pde |-> DFlag(2, 1),
   size |-> DFlag(2, 0)]

(* A slip: the middle and low byte of the PASID change places. *)
InvalidateIotlbPagesSwapped ==
  [device_id |-> DRun(0, 0, 15, 0),
   max_pend |-> DRun(0, 0, 31, 24),
   pasid |-> Beside(Beside(DRun(8, 1, 23, 16), DRun(0, 0, 23, 16)), DRun(16, 1, 27, 24)),
   queue_id |-> DRun(0, 1, 15, 0),
   addr |-> Beside(DRun(12, 2, 31, 12), DRun(32, 3, 31, 0)),
   inv_type |-> DRun(0, 2, 5, 4),
   guest_nested |-> DFlag(2, 2),
   size |-> DFlag(2, 0)]

InvalidateIotlbPages ==
  [device_id |-> DRun(0, 0, 15, 0),
   max_pend |-> DRun(0, 0, 31, 24),
   pasid |-> Beside(Beside(DRun(8, 0, 23, 16), DRun(0, 1, 23, 16)), DRun(16, 1, 27, 24)),
   queue_id |-> DRun(0, 1, 15, 0),
   addr |-> Beside(DRun(12, 2, 31, 12), DRun(32, 3, 31, 0)),
   inv_type |-> DRun(0, 2, 5, 4),
   guest_nested |-> DFlag(2, 2),
   size |-> DFlag(2, 0)]

CompletePprRequest ==
  [device_id |-> DRun(0, 0, 15, 0),
   ppr_tag |-> DRun(0, 0, 31, 16),
   pasid |-> DRun(0, 1, 15, 0)]

(* Command::words: the opcode that ends up in dword 1 and the arguments'   *)
(* places.  InvalidateInterruptTable holds an InvalidateDevTabEntry and is *)
(* encoded by it, opcode included.                                         *)
AmdWords ==
  [CompletionWait |-> [code |-> BitsOf(1), put |-> CompletionWait],
   InvalidateDevTabEntry |-> [code |-> BitsOf(2), put |-> InvalidateDevTabEntry],
   InvalidateIommuPages |-> [code |-> BitsOf(3), put |-> InvalidateIommuPages],
   InvalidateIotlbPages |-> [code |-> BitsOf(4), put |-> InvalidateIotlbPages],
   InvalidateInterruptTable |-> [code |-> BitsOf(2), put |-> InvalidateDevTabEntry],
   CompletePprRequest |-> [code |-> BitsOf(7), put |-> CompletePprRequest],
   InvalidateIommuAll |-> [code |-> BitsOf(8), put |-> << >>]]

(* How the IOMMU reads a command: the opcode table and the dword figures   *)
(* that cmd.rs documents.                                                  *)
At(arg, first) == [b \in arg |-> first + b]

AmdAddress == [b \in 12 .. 63 |-> 64 + b]

AmdFigures ==
  [CompletionWait |-> [code |-> BitsOf(1), get |->
        [store |-> At(Bool, 0), interrupt |-> At(Bool, 1), flush |-> At(Bool, 2),
         store_addr |-> At(3 .. 51, 0), store_data |-> At(U64, 64)]],
   InvalidateDevTabEntry |-> [code |-> BitsOf(2), get |-> [device_id |-> At(U16, 0)]],
   InvalidateIommuPages |-> [code |-> BitsOf(3), get |->
        [pasid |-> At(0 .. 19, 0), domain_id |-> At(U16, 32), addr |-> AmdAddress,
         guest_nested |-> At(Bool, 66), pde |-> At(Bool, 65), size |-> At(Bool, 64)]],
   InvalidateIotlbPages |-> [code |-> BitsOf(4), get |->
        [max_pend |-> At(U8, 24), device_id |-> At(U16, 0),
         pasid |-> Beside(Beside(At(0 .. 7, 48), At(8 .. 15, 8)), At(16 .. 19, 40)),
         queue_id |-> At(U16, 32), addr |-> AmdAddress,
         inv_type |-> At(0 .. 1, 68), guest_nested |-> At(Bool, 66),
         size |-> At(Bool, 64)]],
   InvalidateInterruptTable |-> [code |-> BitsOf(5), get |-> [device_id |-> At(U16, 0)]],
   CompletePprRequest |-> [code |-> BitsOf(7), get |->
        [device_id |-> At(U16, 0), ppr_tag |-> At(U16, 16), pasid |-> At(U16, 32)]],
   InvalidateIommuAll |-> [code |-> BitsOf(8), get |-> << >>]]

(* Opcode::from_dword1. *)
AmdCode(bits) == extract_bits(bits, 63, 60)

---------------------------------------------------------------------------
(* Intel *)

type_bits(t) == ShiftLeft(ShiftRight(t, 4), 9) \cup (t \cap 0 .. 3)

(* QiType::from_word0. *)
QiCode(bits) == ShiftLeft(extract_bits(bits, 11, 9), 4) \cup extract_bits(bits, 3, 0)

Granularity == Run(0, 0, 5, 4)
Did == Run(0, 0, 31, 16)
Sid == Run(0, 0, 47, 32)
Pasid == Run(0, 0, 63, 32)
PageAddr == Run(12, 1, 63, 12)
AddressMask == Run(0, 1, 5, 0)

QiCc == [granularity |-> Granularity, did |-> Did, sid |-> Sid, fm |-> Run(0, 0, 49, 48)]

QiIotlb ==
  [granularity |-> Granularity, did |-> Did, addr |-> PageAddr, am |-> AddressMask]

QiDevTlb == [sid |-> Sid, addr |-> PageAddr, oversized |-> Run(0, 1, 0, 0)]

QiIec ==
  [global |-> Run(0, 0, 4, 4), index_mask |-> Run(0, 0, 31, 27),
   start_index |-> Run(0, 0, 47, 32)]

(* Slips: the fence bit is not set; the status address is masked as if it  *)
(* were aligned to a whole slot.                                           *)
QiWaitUnfenced ==
  [interrupt_flag |-> Run(0, 0, 4, 4), status_write |-> Run(0, 0, 5, 5),
   fence |-> << >>, status_data |-> Run(0, 0, 63, 32),
   status_addr |-> Run(3, 1, 63, 3)]

QiWaitCoarse ==
  [interrupt_flag |-> Run(0, 0, 4, 4), status_write |-> Run(0, 0, 5, 5),
   fence |-> Run(0, 0, 6, 6), status_data |-> Run(0, 0, 63, 32),
   status_addr |-> Run(4, 1, 63, 4)]

QiWait ==
  [interrupt_flag |-> Run(0, 0, 4, 4), status_write |-> Run(0, 0, 5, 5),
   fence |-> Run(0, 0, 6, 6), status_data |-> Run(0, 0, 63, 32),
   status_addr |-> Run(3, 1, 63, 3)]

QiPc == [granularity |-> Granularity, did |-> Did, pasid |-> Pasid]

QiPiotlb ==
  [granularity |-> Granularity, did |-> Did, pasid |-> Pasid,
   addr |-> PageAddr, am |-> AddressMask]

(* to_words4; `global' goes to bit 0, a bit of the type. *)
QiDevPiotlb ==
  [global |-> Run(0, 0, 0, 0), pasid |-> Pasid,
   addr |-> PageAddr, size_order |-> Run(0, 1, 11, 11),
   sid |-> Run(0, 2, 47, 32), pfsid |-> Run(0, 2, 31, 16)]

(* QiDesc::words and words4 with the types of QiDesc::ty. *)
QiWords ==
  [ContextCache |-> [code |-> BitsOf(1), put |-> QiCc],
   Iotlb |-> [code |-> BitsOf(2), put |-> QiIotlb],
   DevTlb |-> [code |-> BitsOf(3), put |-> QiDevTlb],
   Iec |-> [code |-> BitsOf(4), put |-> QiIec],
   Wait |-> [code |-> BitsOf(5), put |-> QiWait],
   PasidIotlb |-> [code |-> BitsOf(6), put |-> QiPiotlb],
   PasidCache |-> [code |-> BitsOf(7), put |-> QiPc],
   PasidDevTlb |-> [code |-> BitsOf(8), put |-> QiDevPiotlb]]

(* The from_words of each descriptor, as QiDesc::from_words picks them.    *)
QiFigures ==
  [ContextCache |-> [code |-> BitsOf(1), get |->
        [granularity |-> At(0 .. 1, 4), did |-> At(U16, 16), sid |-> At(U16, 32),
         fm |-> At(0 .. 1, 48)]],
   Iotlb |-> [code |-> BitsOf(2), get |->
        [granularity |-> At(0 .. 1, 4), did |-> At(U16, 16),
         addr |-> At(12 .. 63, 64), am |-> At(0 .. 5, 64)]],
   DevTlb |-> [code |-> BitsOf(3), get |->
        [sid |-> At(U16, 32), addr |-> At(12 .. 63, 64), oversized |-> At(Bool, 64)]],
   Iec |-> [code |-> BitsOf(4), get |->
        [global |-> At(Bool, 4), start_index |-> At(U16, 32), index_mask |-> At(0 .. 4, 27)]],
   Wait |-> [code |-> BitsOf(5), get |->
        [interrupt_flag |-> At(Bool, 4), status_write |-> At(Bool, 5), fence |-> At(Bool, 6),
         status_data |-> At(U32, 32), status_addr |-> At(3 .. 63, 64)]],
   PasidIotlb |-> [code |-> BitsOf(6), get |->
        [granularity |-> At(0 .. 1, 4), did |-> At(U16, 16), pasid |-> At(U32, 32),
         addr |-> At(12 .. 63, 64), am |-> At(0 .. 5, 64)]],
   PasidCache |-> [code |-> BitsOf(7), get |->
        [granularity |-> At(0 .. 1, 4), did |-> At(U16, 16), pasid |-> At(U32, 32)]]]

(* The reader of a 256-bit queue also knows type 8h (the crate decodes     *)
(* 128-bit descriptors only), with the words the comment of QiDevPiotlb    *)
(* gives: it has PFSID at 63:48 of word 2, where to_words4 does not put it.*)
QiWideFigures ==
  Beside(
    QiFigures,
    [PasidDevTlb |-> [code |-> BitsOf(8), get |->
        [global |-> At(Bool, 0), pasid |-> At(U32, 32), addr |-> At(12 .. 63, 64),
         size_order |-> At(Bool, 75), sid |-> At(U16, 160), pfsid |-> At(U16, 176)]]])

(* The bits of its value that each field of a descriptor holds, by the     *)
(* comment and the type of the field, whatever the functions keep of them. *)
QiValues ==
  [ContextCache |-> [granularity |-> 0 .. 1, did |-> U16, sid |-> U16, fm |-> 0 .. 1],
   Iotlb |-> [granularity |-> 0 .. 1, did |-> U16, addr |-> 12 .. 63, am |-> 0 .. 5],
   DevTlb |-> [sid |-> U16, addr |-> 12 .. 63, oversized |-> Bool],
   Iec |-> [global |-> Bool, start_index |-> U16, index_mask |-> 0 .. 4],
   Wait |-> [interrupt_flag |-> Bool, status_write |-> Bool, fence |-> Bool,
             status_data |-> U32, status_addr |-> 3 .. 63],
   PasidIotlb |-> [granularity |-> 0 .. 1, did |-> U16, pasid |-> U32,
                   addr |-> 12 .. 63, am |-> 0 .. 5],
   PasidCache |-> [granularity |-> 0 .. 1, did |-> U16, pasid |-> 0 .. 15],
   PasidDevTlb |-> [global |-> Bool, pasid |-> U32, addr |-> 12 .. 63,
                    size_order |-> Bool, sid |-> U16, pfsid |-> U16]]

---------------------------------------------------------------------------
(* AMD logs.  The entry's writer is the IOMMU, or an emulator of it using  *)
(* words(); its reader is the driver, using from_words().                  *)

LogAddress == Beside(DRun(12, 2, 19, 0), DRun(32, 3, 31, 0))

(* PageFaultEvent::words. *)
PageFaultEvent ==
  [device_id |-> DRun(0, 0, 15, 0),
   guest_nested |-> DFlag(0, 16), nx |-> DFlag(0, 17), rz |-> DFlag(0, 18),
   translation |-> DFlag(0, 19), reserved |-> DFlag(0, 20),
   permission |-> DFlag(0, 21), write |-> DFlag(0, 22), interrupt |-> DFlag(0, 23),
   domain_id |-> DRun(0, 1, 19, 0),
   addr |-> LogAddress]

(* PprEntry::words. *)
PprEntry ==
  [device_id |-> DRun(0, 0, 15, 0),
   pasid |-> Beside(DRun(0, 0, 31, 16), DRun(16, 1, 19, 16)),
   ppr_tag |-> DRun(0, 1, 15, 0),
   gn |-> DFlag(1, 26), rz |-> DFlag(1, 25), user |-> DFlag(1, 24),
   write |-> DFlag(1, 23), read |-> DFlag(1, 21), nx |-> DFlag(1, 20),
   addr |-> LogAddress]

LogAddressFigure == [b \in 12 .. 63 |-> IF b < 32 THEN 64 + b - 12 ELSE 96 + b - 32]

(* The PageFault arm of Event::from_words. *)
PageFaultFigures ==
  [code |-> BitsOf(2), get |->
    [device_id |-> At(U16, 0), guest_nested |-> At(Bool, 16), nx |-> At(Bool, 17),
     rz |-> At(Bool, 18), translation |-> At(Bool, 19), reserved |-> At(Bool, 20),
     permission |-> At(Bool, 21), write |-> At(Bool, 22), interrupt |-> At(Bool, 23),
     domain_id |-> At(0 .. 19, 32), addr |-> LogAddressFigure]]

(* PprEntry::from_words; it reads PASID bits 18:16, words() writes 19:16.  *)
PprFigures ==
  [code |-> BitsOf(1), get |->
    [device_id |-> At(U16, 0), pasid |-> Beside(At(0 .. 15, 16), [b \in 16 .. 18 |-> 32 + b]),
     ppr_tag |-> At(U16, 32), gn |-> At(Bool, 58), rz |-> At(Bool, 57),
     user |-> At(Bool, 56), write |-> At(Bool, 55), read |-> At(Bool, 53),
     nx |-> At(Bool, 52), addr |-> LogAddressFigure]]

(* The bits of its value that each field of an entry holds, by its comment *)
(* and type: the addresses are whole ones.                                 *)
PageFaultValues ==
  [device_id |-> U16, guest_nested |-> Bool, nx |-> Bool, rz |-> Bool, translation |-> Bool,
   reserved |-> Bool, permission |-> Bool, write |-> Bool, interrupt |-> Bool,
   domain_id |-> 0 .. 19, addr |-> U64]

PprValues ==
  [device_id |-> U16, pasid |-> 0 .. 19, ppr_tag |-> U16, gn |-> Bool, rz |-> Bool,
   user |-> Bool, write |-> Bool, read |-> Bool, nx |-> Bool, addr |-> U64]

(* EventCode::from_dword1 and PprCode::from_dword1. *)
LogCode(bits) == extract_bits(bits, 63, 60)

---------------------------------------------------------------------------
(* encode() of layout record w: code bits in place, then every argument.   *)
Encoded(w, code_bits, args) ==
  code_bits \cup UNION {{w.put[f][b] : b \in args[f] \cap DOMAIN w.put[f]} : f \in DOMAIN w.put}

(* The argument values the layout record g finds. *)
Decoded(g, bits) == [f \in DOMAIN g.get |-> {b \in DOMAIN g.get[f] : g.get[f][b] \in bits}]

NoCommand == [op |-> "None", args |-> << >>]

(* Decode by the type code, None for a code nobody knows. *)
DecodeBy(figures, code, bits) ==
  IF \E op \in DOMAIN figures : figures[op].code = code
  THEN LET op == CHOOSE o \in DOMAIN figures : figures[o].code = code
       IN  [op |-> op, args |-> Decoded(figures[op], bits)]
  ELSE NoCommand

AmdEncode(c) ==
  Encoded(AmdWords[c.op], ShiftLeft(AmdWords[c.op].code, 60), c.args)

AmdDecode(bits) == DecodeBy(AmdFigures, AmdCode(bits), bits)

(* QiDesc::words: zero for a descriptor that has no 128-bit form. *)
words(c) ==
  IF c.op = "PasidDevTlb" THEN {}
  ELSE Encoded(QiWords[c.op], type_bits(QiWords[c.op].code), c.args)

words4(c) ==
  IF c.op = "PasidDevTlb"
  THEN Encoded(QiWords[c.op], type_bits(QiWords[c.op].code), c.args)
  ELSE words(c)

from_words(bits) == DecodeBy(QiFigures, QiCode(bits), bits)

slot_count(c) == IF c.op = "PasidDevTlb" THEN 2 ELSE 1

(* Event::words: a Raw event is its words, whatever its `code' says. *)
EventEncode(c) ==
  IF c.op = "PageFault"
  THEN Encoded([put |-> PageFaultEvent], ShiftLeft(BitsOf(2), 60), c.args)
  ELSE c.args.words

(* Event::from_words. *)
EventDecode(bits) ==
  IF LogCode(bits) = PageFaultFigures.code
  THEN [op |-> "PageFault", args |-> Decoded(PageFaultFigures, bits)]
  ELSE [op |-> "Raw", args |-> [code |-> LogCode(bits), words |-> bits]]

PprEncode(c) == Encoded([put |-> PprEntry], ShiftLeft(BitsOf(1), 60), c.args)

(* The reader asks PprCode::from_dword1 first. *)
PprDecode(bits) == DecodeBy([PageServiceRequest |-> PprFigures], LogCode(bits), bits)

---------------------------------------------------------------------------
(* The word a register builder makes of its arguments. *)
Built(register, args) == Encoded(register, {}, args)

(* A small word as a number, for the getters that do arithmetic. *)
Number(bits) == CHOOSE n \in 0 .. 63 : BitsOf(n) = bits

(* BufferBase::new and its getters. *)
BufferBase ==
  [put |-> [base |-> Run(12, 0, 51, 12), length_order |-> Run(0, 0, 63, 56)],
   get |-> [base |-> At(12 .. 51, 0), length_order |-> At(U8, 56)]]

size_bytes(register) == 2 ^ (Number(Decoded(BufferBase, register).length_order) + 4)
===========================================================================
