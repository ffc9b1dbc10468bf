------------------------ MODULE MCDescriptorQueue ------------------------
(***************************************************************************)
(* The queues and logs of both crates.  A small ring takes every command   *)
(* or entry with two patterns of arguments, so that every bit of every     *)
(* field is once zero next to ones and once one; a larger ring takes a few *)
(* commands and wraps around in every position.                            *)
(***************************************************************************)
EXTENDS CrateQueues, RegisterWords

(* The driver writes a base register and the IOMMU reads it: AMD's tells   *)
(* the size of the ring, Intel's the width of an entry.                    *)
BaseAddress == {12, 33, 51}
Buffer(family, order) ==
  [family |-> family, stride |-> 1,
   size |-> size_bytes(Built(BufferBase, [base |-> BaseAddress, length_order |-> BitsOf(order)]))
              \div 16]
Qi(wide, size) ==
  [family |-> "qi", size |-> size,
   stride |-> IF Decoded(Iqa, Built(Iqa, [base |-> BaseAddress, wide |-> wide])).wide_descriptors
                   = {} THEN 1 ELSE 2]

AmdSmall == Buffer("amd", 1)
AmdLarge == Buffer("amd", 2)
QiSmall  == Qi({}, 2)
QiLarge  == Qi({}, 4)
QiWide   == Qi(Bool, 4)
Events   == Buffer("events", 1)
Pprs     == Buffer("ppr", 1)

(* A command whose arguments hold every third bit, or all the others.  The *)
(* arguments are wider than the fields, as u32 and u64 parameters are.     *)
Stripe(k, op, odd) ==
  [op |-> op,
   args |-> [f \in DOMAIN ValueBits(k, op) |-> {b \in U64 : (b % 3 = 0) # odd}]]

Every(k, ops) == {Stripe(k, op, odd) : op \in ops, odd \in BOOLEAN}

(* An event of any code but 2h, kept as its code and its four dwords. *)
RawEvent(code, odd) ==
  [op |-> "Raw",
   args |-> [code |-> BitsOf(code),
             words |-> {b \in 0 .. 127 : b \notin 60 .. 63 /\ (b % 3 = 0) # odd}
                         \cup ShiftLeft(BitsOf(code), 60)]]

(* Faults of whole pages, and page requests of PASIDs below 2^19, which is *)
(* as far as PprEntry's decoder reads.                                     *)
PageFaults == {[c EXCEPT !.args.addr = @ \ 0 .. 11] : c \in Every(Events, {"PageFault"})}
PageRequests ==
  {[c EXCEPT !.args.addr = @ \ 0 .. 11, !.args.pasid = @ \cap 0 .. 18] :
     c \in Every(Pprs, {"PageServiceRequest"})}

(* PASID-cache invalidations of PASIDs below 2^16. *)
PasidCaches ==
  {[c EXCEPT !.args.pasid = @ \cap U16] : c \in Every(QiSmall, {"PasidCache"})}

(* Device-TLB invalidations for a physical function, of one PASID or of    *)
(* all its entries.                                                        *)
OfFunctions == {[c EXCEPT !.args.pfsid = {}] : c \in Every(QiWide, {"PasidDevTlb"})}
WideCommands == {[c EXCEPT !.args["global"] = {}] : c \in OfFunctions}

MCKinds == {AmdSmall, AmdLarge, QiSmall, QiLarge, QiWide, Events, Pprs}

MCCommands ==
  AmdSmall :> Every(AmdSmall, DOMAIN AmdFigures \ {"InvalidateInterruptTable"})
    @@ AmdLarge :> {Stripe(AmdLarge, op, TRUE) : op \in {"CompletionWait", "InvalidateIommuAll"}}
    @@ QiSmall :> Every(QiSmall, DOMAIN QiFigures \ {"PasidCache"}) \cup PasidCaches
    @@ QiLarge :> {Stripe(QiLarge, op, TRUE) : op \in {"Wait", "Iotlb"}}
    @@ QiWide :> WideCommands
    @@ Events :> PageFaults \cup {RawEvent(code, TRUE) : code \in {1, 3, 14}}
    @@ Pprs :> PageRequests

(* The runs that are expected to pass carry what the codec can carry. *)
ASSUME CarriedAssumption == Kinds = MCKinds => CrateCodec

AnyQueue == [family : {"amd", "qi", "events", "ppr"}, stride : 1 .. 2, size : 1 .. 4]
MCSize == [k \in AnyQueue |-> k.size]
MCStride == [k \in AnyQueue |-> k.stride]

---------------------------------------------------------------------------
(* The cases in which the crates' pieces do not fit together. *)

MCAmdOnly == {AmdLarge}
MCInterruptTable ==
  AmdLarge :> Every(AmdLarge, {"InvalidateInterruptTable", "InvalidateDevTabEntry"})

MCWideOnly == {QiWide}
MCWideNarrow == QiWide :> Every(QiWide, {"Wait"})
MCWideGlobal == QiWide :> OfFunctions
===========================================================================
