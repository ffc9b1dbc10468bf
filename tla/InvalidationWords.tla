------------------------- MODULE InvalidationWords -------------------------
(***************************************************************************)
(* What a driver says to an IOMMU when translations change, and the words  *)
(* in which the crates make it say so: AMD commands, Intel descriptors, or *)
(* Intel registers.  The hardware hw is a record of                        *)
(*   vendor      "amd" or "intel"                                          *)
(*   cap, ecap   the capability registers the driver reads (intel)         *)
(* and of what is really built in, which the driver cannot see:            *)
(*   built       a set of                                                  *)
(*     "psi"     page-selective invalidation, of up to 2^mamv pages        *)
(*     "cm"      absent translations are cached too                        *)
(*     "rwbf"    stores to the tables reach memory late                    *)
(*   iva         where the IVA register is                                 *)
(***************************************************************************)
EXTENDS RegisterWords, Sequences

CONSTANT None

(* The commands. *)
Pages(did, base, order) == [op |-> "pages", did |-> did, base |-> base, order |-> order]
Domain(did) == [op |-> "domain", did |-> did]
Context(did, sid) == [op |-> "context", did |-> did, sid |-> sid]
Wait(addr, data) == [op |-> "wait", addr |-> addr, data |-> data]
Fence == [op |-> "fence"]
FlushWrites == [op |-> "flush"]
Nothing == [op |-> "nothing"]

(* Which pages a range of 2^order pages at base has. *)
InRange(page, base, order) ==
  page \ (12 .. (11 + order)) = base \ (12 .. (11 + order))

---------------------------------------------------------------------------
(* Which commands the driver needs, from what the getters of Cap and Ecap  *)
(* tell it.                                                                *)

Queued(hw) == hw.vendor = "amd" \/ Ecap(hw.ecap).queued_inval # {}

(* With caching mode a new mapping has to be invalidated as well. *)
InvalidateOnMap(hw) == hw.vendor = "intel" /\ Cap(hw.cap).caching_mode # {}

NeedsFlush(hw) == hw.vendor = "intel" /\ Cap(hw.cap).rwbf # {}

PageSelective(hw, order) ==
  \/ hw.vendor = "amd"
  \/ Cap(hw.cap).page_selective_inval # {} /\ order <= max_amask_value(hw.cap)

Flush(hw) == IF NeedsFlush(hw) THEN <<FlushWrites>> ELSE << >>

(* A wait at the end; through the registers the driver polls each command. *)
Done(hw, addr, data) == IF Queued(hw) THEN <<Wait(addr, data)>> ELSE << >>

RangePlan(hw, did, base, order, addr, data) ==
  Flush(hw)
    \o <<IF PageSelective(hw, order) THEN Pages(did, base, order) ELSE Domain(did)>>
    \o Done(hw, addr, data)

MapPlan(hw, did, page, addr, data) ==
  IF InvalidateOnMap(hw) THEN RangePlan(hw, did, page, 0, addr, data) ELSE Flush(hw)

(* The context first, or the IOTLB could be filled through it again. *)
DetachPlan(hw, did, sid, addr, data) ==
  Flush(hw) \o <<Context(did, sid)>> \o (IF Queued(hw) THEN <<Fence>> ELSE << >>)
    \o <<Domain(did)>> \o Done(hw, addr, data)

---------------------------------------------------------------------------
(* Queues.  AMD: a size bit and a run of ones in the address give the      *)
(* size of the range; 2^52 pages are the whole domain.                     *)

AmdPages(did, addr, size) ==
  [op |-> "InvalidateIommuPages",
   args |-> [pasid |-> {}, domain_id |-> did, addr |-> addr, guest_nested |-> {},
             pde |-> size, size |-> size]]

(* CompletionWait::new().with_store(addr, data) and .with_flush(). *)
with_store(addr, data) ==
  [op |-> "CompletionWait",
   args |-> [store |-> Bool, interrupt |-> {}, flush |-> {}, store_addr |-> addr \ 0 .. 2,
             store_data |-> data]]
with_flush ==
  [op |-> "CompletionWait",
   args |-> [store |-> {}, interrupt |-> {}, flush |-> Bool, store_addr |-> {},
             store_data |-> {}]]

(* QiWait::status_write and QiWait::fence. *)
status_write(addr, data) ==
  [op |-> "Wait",
   args |-> [interrupt_flag |-> {}, status_write |-> Bool, fence |-> {}, status_data |-> data,
             status_addr |-> addr \ 0 .. 2]]
fence ==
  [op |-> "Wait",
   args |-> [interrupt_flag |-> {}, status_write |-> {}, fence |-> Bool, status_data |-> {},
             status_addr |-> {}]]

(* Granularity, Cirg and Iirg have the same codes. *)
Selective == BitsOf(3)
DomainWide == BitsOf(2)
Global == BitsOf(1)

QiPages(granularity, did, addr, order) ==
  [op |-> "Iotlb",
   args |-> [granularity |-> granularity, did |-> did, addr |-> addr, am |-> BitsOf(order)]]

QiContext(did, sid) ==
  [op |-> "ContextCache",
   args |-> [granularity |-> Selective, did |-> did, sid |-> sid, fm |-> {}]]

AmdWord(c) ==
  AmdEncode(
    CASE c.op = "pages" ->
           AmdPages(c.did, c.base \cup (12 .. (10 + c.order)),
                    IF c.order = 0 THEN {} ELSE Bool)
      [] c.op = "domain" -> AmdPages(c.did, 12 .. 62, Bool)
      [] c.op = "context" -> [op |-> "InvalidateDevTabEntry", args |-> [device_id |-> c.sid]]
      [] c.op = "wait" -> with_store(c.addr, c.data)
      [] c.op = "fence" -> with_flush)

QiWord(c) ==
  words(
    CASE c.op = "pages" -> QiPages(Selective, c.did, c.base, c.order)
      [] c.op = "domain" -> QiPages(DomainWide, c.did, {}, 0)
      [] c.op = "context" -> QiContext(c.did, c.sid)
      [] c.op = "wait" -> status_write(c.addr, c.data)
      [] c.op = "fence" -> fence)

QueueWord(hw, c) == IF hw.vendor = "amd" THEN AmdWord(c) ELSE QiWord(c)

---------------------------------------------------------------------------
(* What the IOMMU understands: scopes of cached translations [did, page]   *)
(* and contexts [sid] to drop, data to store and whether to hold back what *)
(* follows.                                                                *)

(* The function mask takes low bits of the source id out of the match. *)
MaskedBits(fm) == CASE fm = {} -> {} [] fm = {0} -> {2} [] fm = {1} -> 1 .. 2 [] OTHER -> 0 .. 2

TranslationScope(hw, granularity, did, addr, order) ==
  CASE granularity = Global -> [op |-> "all"]
    [] granularity = DomainWide -> Domain(did)
    [] granularity = Selective /\ "psi" \in hw.built /\ order <= hw.mamv -> Pages(did, addr, order)
    [] OTHER -> Nothing

ContextScope(granularity, did, sid, fm) ==
  CASE granularity = Global -> [op |-> "contexts", masked |-> U16, sid |-> {}]
    [] granularity = Selective ->
         [op |-> "contexts", masked |-> MaskedBits(fm), sid |-> sid]
    [] OTHER -> Nothing

WaitScope(write, addr, data, holds) ==
  [op |-> "wait", write |-> write, addr |-> addr, data |-> data, holds |-> holds]

(* A wait may store its data, and it may hold back whatever follows. *)
Completes(c) == c.op = "wait" /\ c.write # {}
Holds(c) == c.op = "wait" /\ c.holds # {}

(* Which cached translations and contexts a scope takes with it. *)
Covers(c, did, page) ==
  CASE c.op = "all" -> TRUE
    [] c.op = "domain" -> did = c.did
    [] c.op = "pages" -> did = c.did /\ InRange(page, c.base, c.order)
    [] OTHER -> FALSE

DropsContext(c, sid) == c.op = "contexts" /\ sid \ c.masked = c.sid \ c.masked

(* The first zero above bit 11 ends the size; a whole address space above. *)
AmdRange(did, addr, size) ==
  IF size = {} THEN Pages(did, addr, 0)
  ELSE LET zero == CHOOSE b \in 12 .. 63 : b \notin addr /\ (12 .. (b - 1)) \subseteq addr
       IN  Pages(did, addr, zero - 11)

AmdScope(bits) ==
  LET c == AmdDecode(bits)
  IN  CASE c.op = "InvalidateIommuPages" -> AmdRange(c.args.domain_id, c.args.addr, c.args.size)
        [] c.op = "InvalidateDevTabEntry" -> ContextScope(Selective, {}, c.args.device_id, {})
        [] c.op = "CompletionWait" ->
             WaitScope(c.args.store, c.args.store_addr, c.args.store_data, c.args.flush)
        [] OTHER -> Nothing

QiScope(hw, bits) ==
  LET c == from_words(bits)
  IN  CASE c.op = "Iotlb" ->
             TranslationScope(hw, c.args.granularity, c.args.did, c.args.addr, Number(c.args.am))
        [] c.op = "ContextCache" ->
             ContextScope(c.args.granularity, c.args.did, c.args.sid, c.args.fm)
        [] c.op = "Wait" ->
             WaitScope(c.args.status_write, c.args.status_addr, c.args.status_data, c.args.fence)
        [] OTHER -> Nothing

QueueScope(hw, bits) == IF hw.vendor = "amd" THEN AmdScope(bits) ELSE QiScope(hw, bits)

---------------------------------------------------------------------------
(* Registers: a command is a sequence of stores; the last one carries the  *)
(* bit that starts it and that the driver polls until it is clear.         *)

Start == 63

RegisterWrites(hw, c) ==
  LET cap == Cap(hw.cap)
      at  == iotlb_offset(hw.ecap)
      iotlb(granularity) ==
        Built(IotlbInval, [granularity |-> granularity, did |-> c.did,
                           drain_reads |-> cap.read_drain, drain_writes |-> cap.write_drain])
      iva == Built(Iva, [addr |-> c.base, am |-> BitsOf(c.order)])
      ccmd == Built(Ccmd, [granularity |-> Selective, did |-> c.did, sid |-> c.sid, fm |-> {}])
  IN  CASE c.op = "pages" -> <<[at |-> at.iva, word |-> iva],
                               [at |-> at.iotlb, word |-> iotlb(Selective) \cup {Start}]>>
        [] c.op = "domain" -> <<[at |-> at.iotlb, word |-> iotlb(DomainWide) \cup {Start}]>>
        [] c.op = "context" -> <<[at |-> CCMD, word |-> ccmd \cup {Start}]>>
        [] c.op = "flush" -> <<[at |-> GCMD, word |-> {Gcmd.WBF}]>>

(* The register and the bit that tell that c is still in progress. *)
Busy(hw, c) ==
  CASE c.op \in {"pages", "domain"} -> [at |-> iotlb_offset(hw.ecap).iotlb, bit |-> Start]
    [] c.op = "context" -> [at |-> CCMD, bit |-> Start]
    [] c.op = "flush" -> [at |-> GSTS, bit |-> Gsts.WBFS]

(* What the driver prepares for command c: words for the queue, here       *)
(* already as the IOMMU will read them, or stores to registers and the bit *)
(* to poll.                                                                *)
Prepared(hw, c) ==
  IF c.op # "flush" /\ Queued(hw)
  THEN [via |-> "queue", op |-> c.op, scope |-> QueueScope(hw, QueueWord(hw, c))]
  ELSE [via |-> "registers", op |-> c.op, writes |-> RegisterWrites(hw, c), busy |-> Busy(hw, c)]

CcmdScope(word) ==
  LET g == Decoded(Ccmd, word) IN ContextScope(g.granularity, g.did, g.sid, g.fm)

IotlbScope(hw, iva, word) ==
  LET g == Decoded(IotlbInval, word)
      a == Decoded(Iva, iva)
  IN  TranslationScope(hw, g.granularity, g.did, a.addr, Number(a.am))
===========================================================================
