-------------------------- MODULE MCInvalidation --------------------------
(***************************************************************************)
(* One device, one domain with two pages, two frames and two threads, on   *)
(* IOMMUs that differ in what they can do and in how they are talked to.   *)
(***************************************************************************)
EXTENDS Invalidation

(* The capability registers of an IOMMU, as the tests of regs.rs lay the   *)
(* fields out: 16-bit domain ids, RWBF, CM, PSI, MAMV, drains.             *)
CapBit == [rwbf |-> 4, cm |-> 7, psi |-> 39]
CapWord(built, mamv) ==
  {1, 2, 54, 55} \cup {CapBit[f] : f \in built} \cup {48 + b : b \in BitsOf(mamv)}

(* IRO is 210h: IVA at 2100h. *)
EcapWord(qi) == {12, 17} \cup (IF qi THEN {1} ELSE {})

Intel(qi, built, mamv) ==
  [vendor |-> "intel", cap |-> CapWord(built, mamv), ecap |-> EcapWord(qi),
   built |-> built, mamv |-> mamv, iva |-> {8, 13}]

Amd ==
  [vendor |-> "amd", cap |-> {}, ecap |-> {}, built |-> {"psi"}, mamv |-> 52, iva |-> {8, 13}]

MCHardware ==
  {Amd,
   Intel(TRUE, {"psi"}, 0),            \* queue, single pages only
   Intel(TRUE, {"psi"}, 1),            \* queue, pairs of pages
   Intel(FALSE, {"psi", "rwbf"}, 1),   \* registers, write buffers
   Intel(FALSE, {"cm"}, 0)}            \* registers, whole domains, caching mode

MCSids == {{0, 3, 8, 15}}
MCDids == {{1, 8, 15}}

Low == {14, 31, 32, 47}
MCPageAddrs == {Low, Low \cup {12}}
MCRanges == {[base |-> p, order |-> 0] : p \in MCPageAddrs} \cup {[base |-> Low, order |-> 1]}

MCDrivers == {1, 2}
(* Two neighbouring qwords above 4 GiB. *)
MCSemaphore == 1 :> {4, 33} @@ 2 :> {3, 4, 33}
MCTickets == {{0, 31}, {5}}
===========================================================================
