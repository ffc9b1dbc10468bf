---------------------------- MODULE CrateQueues ----------------------------
(***************************************************************************)
(* DescriptorQueue with the crates' own codecs.  A queue is a record of    *)
(*   family      "amd" and "qi", the command queues; "events" and "ppr",   *)
(*               AMD's logs                                                *)
(*   stride      slots of an entry: 2 in a queue of 256-bit descriptors    *)
(* and what else the model that uses it wants to tell apart.               *)
(***************************************************************************)
EXTENDS DescriptorQueue, CommandCodec

SlotBits == 128

(* What the fields of an operation hold by the repository's comments and   *)
(* types; AmdFigures has them for AMD's commands.                          *)
ValueBits(k, op) ==
  CASE k.family = "amd" -> [f \in DOMAIN AmdFigures[op].get |-> DOMAIN AmdFigures[op].get[f]]
    [] k.family = "qi" -> QiValues[op]
    [] k.family = "events" -> PageFaultValues
    [] k.family = "ppr" -> PprValues

(* Bits of an entry as slots and back. *)
Cut(bits, n) ==
  [j \in 1 .. n |->
    {b - SlotBits * (j - 1) : b \in bits \cap ((SlotBits * (j - 1)) .. (SlotBits * j - 1))}]
Joined(slots) == UNION {{b + SlotBits * (j - 1) : b \in slots[j]} : j \in DOMAIN slots}

EntryBits(k, c) ==
  CASE k.family = "amd" -> AmdEncode(c)
    [] k.family = "qi" /\ k.stride = 1 -> words(c)
    [] k.family = "qi" /\ k.stride = 2 -> words4(c)
    [] k.family = "events" -> EventEncode(c)
    [] k.family = "ppr" -> PprEncode(c)

CrateEncode(k, c) == Cut(EntryBits(k, c), k.stride)

CrateSlotCount(k, c) == IF k.family = "qi" THEN slot_count(c) ELSE 1

CrateDecode(k, slots) ==
  CASE k.family = "amd" -> AmdDecode(slots[1])
    [] k.family = "qi" /\ k.stride = 1 -> from_words(slots[1])
    [] k.family = "qi" /\ k.stride = 2 ->
         DecodeBy(QiWideFigures, QiCode(Joined(slots)), Joined(slots))
    [] k.family = "events" -> EventDecode(slots[1])
    [] k.family = "ppr" -> PprDecode(slots[1])

(* What a command says, as far as its fields are documented to hold it. *)
CrateMeaning(k, c) ==
  IF c.op = "Raw" THEN c
  ELSE LET val == ValueBits(k, c.op)
       IN  [op |-> c.op, args |-> [f \in DOMAIN val |-> c.args[f] \cap val[f]]]

---------------------------------------------------------------------------
(* What each queue can carry: every command of its family with any         *)
(* arguments whatever, save for the cases in which the crates' pieces do   *)
(* not fit together.                                                       *)

(* InvalidateInterruptTable is encoded with another command's opcode. *)
AmdCarries(c) == c.op \in DOMAIN AmdFigures \ {"InvalidateInterruptTable"}

(* The PASID of a PASID-cache invalidation is documented with 16 bits and  *)
(* encoded with 32.  A 256-bit queue counts two slots for a device-TLB     *)
(* invalidation of a PASID only; the `global' flag of that one is a bit of *)
(* its type, and its PFSID is not encoded where it is documented.          *)
QiCarries(k, c) ==
  \/ /\ k.stride = 1 /\ c.op \in DOMAIN QiFigures
     /\ c.op = "PasidCache" => c.args["pasid"] \cap (16 .. 31) = {}
  \/ /\ k.stride = 2 /\ c.op = "PasidDevTlb"
     /\ c.args["global"] = {} /\ c.args["pfsid"] = {}

(* The logs keep the page of an address, not its offset. *)
PageAligned(c) == c.args["addr"] \cap (0 .. 11) = {}

(* A raw event is not a page fault and four dwords long, and its code is   *)
(* the one in its words, which are all that is encoded.                    *)
EventCarries(c) ==
  \/ c.op = "PageFault" /\ PageAligned(c)
  \/ /\ c = [op |-> "Raw", args |-> [code |-> c.args["code"], words |-> c.args["words"]]]
     /\ c.args["words"] \subseteq 0 .. (SlotBits - 1)
     /\ c.args["code"] = LogCode(c.args["words"])
     /\ c.args["code"] # PageFaultFigures.code

(* The decoder of a page request reads 19 bits of the PASID's 20. *)
PprCarries(c) ==
  c.op = "PageServiceRequest" /\ PageAligned(c) /\ 19 \notin c.args["pasid"]

Carries(k, c) ==
  \/ k.family = "amd" /\ k.stride = 1 /\ AmdCarries(c)
  \/ k.family = "qi" /\ QiCarries(k, c)
  \/ k.family = "events" /\ k.stride = 1 /\ EventCarries(c)
  \/ k.family = "ppr" /\ k.stride = 1 /\ PprCarries(c)

(* Every queue is filled and read by the crates' functions, with commands  *)
(* that it can carry.                                                      *)
CrateCodec ==
  \A k \in Kinds :
    /\ Stride[k] = k.stride
    /\ \A c \in Commands[k] :
         /\ Carries(k, c)
         /\ Encode(k, c) = CrateEncode(k, c)
         /\ SlotCount(k, c) = CrateSlotCount(k, c)
         /\ Decode(k, CrateEncode(k, c)) = CrateDecode(k, CrateEncode(k, c))
         /\ Meaning(k, c) = CrateMeaning(k, c)
===========================================================================
