-------------------------- MODULE DescriptorQueue --------------------------
(***************************************************************************)
(* AMD's command buffer and Intel's invalidation queue: a ring of 16-byte  *)
(* slots in memory with a head and a tail register.  The driver encodes a  *)
(* command, stores its words behind the tail and then moves the tail by    *)
(* the slots the crate says the command occupies; the IOMMU (or an         *)
(* emulator, which is what QiDesc::from_words is for) reads the slots of   *)
(* one entry at the head, decodes them and moves the head.  The crates     *)
(* supply the encodings, the decoder, the slot counts and the layout of    *)
(* the base register; the driver and the IOMMU around them are external.   *)
(* AMD's event and PPR logs are such rings with the parts exchanged: the   *)
(* IOMMU, or its emulator, stores entries and the driver takes them.       *)
(***************************************************************************)
EXTENDS Integers, Sequences

CONSTANTS
  Kinds,             \* the queues
  Commands,          \* Commands[k]: what is submitted to queue k
  Size,              \* Size[k]: its slots, 2^N
  Stride,            \* Stride[k]: slots of one entry, as its reader sees it
  Encode(_, _),      \* Encode(k, c): the slots written for command c
  SlotCount(_, _),   \* SlotCount(k, c): by how many slots the tail moves
  Decode(_, _),      \* Decode(k, s): the command that slots s hold
  Meaning(_, _),     \* Meaning(k, c): c as far as its fields can hold it
  None

VARIABLES
  kind,
  ring,              \* slot -> its bits
  head,              \* the registers, in slots (offset >> 4)
  tail,
  staged,            \* the command stored but not yet published, or None
  last,              \* the command published last
  read               \* the slots read last

vars == <<kind, ring, head, tail, staged, last, read>>

ASSUME SizeAssumption ==
  \A k \in Kinds : /\ Stride[k] \in {1, 2}
                   /\ Size[k] \in Nat /\ Size[k] > Stride[k]
                   /\ Size[k] % Stride[k] = 0

ASSUME SlotCountAssumption ==
  \A k \in Kinds : \A c \in Commands[k] : SlotCount(k, c) \in Nat

N == Size[kind]

Init ==
  /\ kind \in Kinds
  /\ ring = [i \in 0 .. (Size[kind] - 1) |-> {}]
  /\ head = 0 /\ tail = 0
  /\ staged = None
  /\ last = None
  /\ read = [j \in 1 .. Stride[kind] |-> {}]

Used == (tail - head + N) % N

(* The driver: room is left between tail and head, so that a full ring     *)
(* does not look empty.                                                    *)
Store(c) ==
  /\ staged = None
  /\ Used + Stride[kind] < N
  /\ ring' = [i \in DOMAIN ring |->
                LET d == (i - tail + N) % N
                IN  IF d < Len(Encode(kind, c)) THEN Encode(kind, c)[d + 1] ELSE ring[i]]
  /\ staged' = c
  /\ UNCHANGED <<kind, head, tail, last, read>>

(* A slip: the tail register is not wrapped. *)
PublishUnwrapped ==
  /\ staged # None
  /\ tail' = tail + SlotCount(kind, staged)
  /\ last' = Meaning(kind, staged)
  /\ staged' = None
  /\ UNCHANGED <<kind, ring, head, read>>

Publish ==
  /\ staged # None
  /\ tail' = (tail + SlotCount(kind, staged)) % N
  /\ last' = Meaning(kind, staged)
  /\ staged' = None
  /\ UNCHANGED <<kind, ring, head, read>>

(* The slots of the entry d slots behind the head. *)
SlotsAt(d) == [j \in 1 .. Stride[kind] |-> ring[(head + d + j - 1) % N]]

(* The IOMMU. *)
Take ==
  /\ head # tail
  /\ read' = SlotsAt(0)
  /\ head' = (head + Stride[kind]) % N
  /\ UNCHANGED <<kind, ring, tail, staged, last>>

Next ==
  \/ \E c \in Commands[kind] : Store(c)
  \/ Publish
  \/ Take

Spec == Init /\ [][Next]_vars

---------------------------------------------------------------------------
TypeOK ==
  /\ kind \in Kinds
  /\ DOMAIN ring = 0 .. (N - 1)
  /\ head \in 0 .. (N - 1)
  /\ tail \in 0 .. (N - 1)
  /\ staged \in Commands[kind] \cup {None}

(* What the ring holds for its reader. *)
Pending == [n \in 1 .. (Used \div Stride[kind]) |-> Decode(kind, SlotsAt((n - 1) * Stride[kind]))]

Channel ==
  INSTANCE CommandChannel
    WITH chan <- Pending, last <- last, got <- Decode(kind, read)

(* The crates' pieces fit together, one command at a time: an encoding     *)
(* fills the slots of one entry, slot_count() moves the tail past exactly  *)
(* these, and the decoder reads the command back as far as its fields can  *)
(* hold it.                                                                *)
CodecFits ==
  \A c \in Commands[kind] :
    /\ Encode(kind, c) = [j \in 1 .. Stride[kind] |-> Encode(kind, c)[j]]
    /\ SlotCount(kind, c) = Stride[kind]
    /\ Decode(kind, Encode(kind, c)) = Meaning(kind, c)

(* The encodings, the slot counts and the decoder fit together: a queue    *)
(* filled through them behaves as a channel of the commands themselves.    *)
(* Nothing is lost, changed, reordered, read twice or read half-written,   *)
(* across any number of wraparounds.                                       *)
DeliversCommands == Channel!Spec
===========================================================================
