# A TLA+ verification project for iommu-rs

iommu-rs is two `no_std` Rust crates, `amd-iommu` (AMD-Vi) and `intel-iommu`
(VT-d). They are format libraries: they keep no state of their own, never touch
MMIO, and start no thread. What can go wrong is therefore of five kinds:

* a builder call damages what an earlier call put into a packed entry;
* the pieces a driver combines (encoders, slot counts, decoders, register
  words) do not fit together once commands flow through a ring;
* the page-table walker runs while the tables it walks are being changed;
* a parser trusts a length that firmware wrote;
* a driver that believes an invalidation word, a fence, a completion or a
  capability getter reuses memory a device can still reach.

The specifications model the crates' functions at full bit width and put the
surroundings the crates are written for (a driver, an IOMMU, a table owner)
around them. Those surroundings are marked external.

## Inventory

| Component | State | Operations | Hard behaviour | Correct when |
|---|---|---|---|---|
| Packed entries: `dte.rs`, `context.rs`, both `irte.rs`, `fault.rs`, `Control` of `amd/regs.rs` | the words of one entry | constructors, `with_*`, getters | calls in any order, fields split over words, overlapping masks | every field reads back its last value; order of calls is irrelevant |
| Page-table walkers: both `pagetables.rs` | locals `table`, `level`; the tables are the caller's | `walk` with a `fetch` closure | the owner writes entries between two fetches; superpages; width of the address | one consistent answer; only tables are read; the call returns |
| Range mapper: `MapRange` | request, pages yielded | `page_count`, `leaves` | partial last page, caller that stops half-way | a prefix of the request is mapped, then all of it |
| Command buffer: `cmd.rs`, `BufferBase` | the ring is the caller's | seven command encoders | wraparound, publication order, scattered fields | the IOMMU receives the commands sent, in order |
| Queued invalidation: `qi.rs` | the ring is the caller's | eight descriptor encoders, decoder, `slot_count` | two queue widths, type field in two pieces | as above |
| Event log `events.rs`, PPR log `ppr.rs` | ring of the caller | encode, decode | fields spread over dwords | the driver reads the entries logged, in order |
| DMAR parser `dmar.rs`, IVRS parser `ivrs.rs` | cursors into a byte slice | table constructors, nested iterators, accessors | lengths taken from the table: zero, short, past the end | terminates, stays in bounds, yields every well-formed record once, with its fields |
| Register words: `intel/regs.rs`, `BufferBase` of `amd/regs.rs` | none; the registers are hardware | word builders, getters, computed offsets | overlapping fields (CCMD, IRTA), offsets read from ECAP | the hardware does what the driver asked for |
| Invalidation: `cmd.rs`, `qi.rs`, `regs.rs` together | caches of the IOMMU, semaphores, the driver's jobs | map, unmap, attach, detach; queue or registers; waits | caches refilled during an invalidation, reordering, two threads, reuse of semaphores, caching mode, write buffers | freed memory is unreachable, completed changes are visible, changes complete |
| Crate roots, `Display`, errors | none | re-exports, wording | none | not modelled |

Interaction: a driver builds packed entries and page tables in memory, maps
ranges through `MapRange`, and after a change submits invalidation commands
followed by a wait (`CompletionWait`, `QiWait`). An emulator uses the same
crates from the other side: `walk` for translations, `QiDesc::from_words` for
the queue, the event and PPR encoders for the logs.

## Modules

| Module | Models |
|---|---|
| `Bits` | 64-bit words as sets of bit positions; shifts and `extract_bits` |
| `PackedEntry` | a chain of builder calls on one entry, for any layout |
| `EntryLayouts` | the masks and shifts of ten entry types, as data |
| `PackedEntryProofs` | theorems about `PackedEntry` |
| `PageTables` | formats First, Second, V1, V2: indices, entry builders, what a walker reads |
| `PageWalk` | `walk()`, one action per loop iteration, beside a table owner |
| `PageWalkProofs` | theorems about `PageWalk` |
| `MapRange` | the leaf iterator and the caller that stores its leaves |
| `MapRangeProofs` | theorems about `MapRange` |
| `CommandChannel` | abstract: a FIFO channel of commands |
| `CommandCodec` | bit-level encoders and decoders of AMD commands, events and page requests, of Intel descriptors, and of AMD base registers |
| `CodecProofs` | lemmas: each encoder and decoder of `CommandCodec` fit together, for all arguments |
| `DescriptorQueue` | a ring of 16-byte slots between driver and IOMMU |
| `CrateQueues` | that ring filled and read by the functions of `CommandCodec`, and what each queue can carry |
| `DescriptorQueueProofs` | theorems about `DescriptorQueue` and `CrateQueues`, the refinement included |
| `TableParser` | `new` and the nested iterators of both ACPI parsers |
| `TableViews` | the accessors of what the parsers hand out |
| `TableParserProofs` | theorems about `TableParser` and `TableViews` |
| `RegisterWords` | VT-d register words: capabilities, GCMD/GSTS, CCMD, IVA, IOTLB, IQA |
| `InvalidationWords` | from a driver's intention to words, and from words to what the IOMMU drops |
| `Invalidation` | driver threads, IOMMU caches and devices around those words |
| `InvalidationAhead` | the inductive invariant of `Invalidation`, how what is still to happen survives each kind of step, and what the commands of a job are worth to it |
| `InvalidationProofs` | theorems about `Invalidation` and about the words it uses |
| `MC...` | instances for TLC |

**PackedEntry.** Each builder type differs from the others only in its masks, so the masks
are a constant: for field `f` of type `k`, `put` sends value bits to entry bits, `clear`
is what the setter masks off, `raise` what it sets besides, and `get` where the getter
looks. `WithField` is the assignment `q = (q & !mask) | bits`, `GetField` the getter,
`With` a call in a chain. `Overlaps` lists the pairs of fields where a setter legitimately
(Irte's posted and remapped formats, PP of a fault record) or wrongly (DTE root, DTE
domain id) touches another field; `LayoutAssumption` says that *nothing else* overlaps,
and TLC evaluates it on the real layouts in each run. History variables `want` and `fresh`
hold the last value given for each field and whether an overlapping setter ran since.
`want` is what the caller gave, cut to `val`, the width the comments of the source give
the field, and never to what the setter keeps: a setter that drops a bit of its argument
shows. Three do (`Narrow`: the DTE's interrupt table pointer, AMD's interrupt destination,
the PASID entry's first-level pointer); `HoldsWhatIsDocumented`, a part of
`LayoutAssumption`, says that every other setter has room for its whole field. A value too
wide for a narrow setter leaves `fresh`, any other value of these fields stays in it.
Enum-typed fields are their codes: each enum's `bits()` and `from_bits()` are inverse on
the codes of the field's width, and unknown codes are carried by a data variant.

**PageWalk.** `Enter`/`Reject` are the code before the loop, `Miss`, `Hit` and
`Descend` the three ways an iteration ends, `Return` the caller taking the
result. The owner writes one 64-bit entry at a time. It follows what any owner
of tables read without a lock has to: the tables form a tree with fixed levels,
and a table unlinked while a walk is in progress is neither written nor relinked
until that walk has returned (`Retired`). Superpage frames are aligned to their
size; the walkers or frame and offset together and so rely on it.

**MapRange.** `Yield` is one `next()` and the store of its entry. The caller has
made the upper levels present, so a walk ends at the stored leaf. A request asks for any set
of permissions; `Granted` is what its leaves carry, which is not the same thing (see the
divergences).

**DescriptorQueue.** `Store` writes the encoded words behind the tail, `Publish`
moves the tail by what the crate's `slot_count` says, `Take` is the IOMMU's
fetch. `Pending` decodes what lies between head and tail; with it as `chan`
the ring refines `CommandChannel`. For AMD the decoder is the opcode table and
the dword figures `cmd.rs` documents (the crate has no decoder for commands), for
Intel it is `QiDesc::from_words`. The event and PPR logs are the same ring in
the other direction: writer and reader both use the crate. The number of slots
comes from a `BufferBase` word through `size_bytes`, the width of an Intel slot from
`Iqa::wide_descriptors`. `CrateQueues` gives encoder, slot count and decoder of each queue
from the definitions of `CommandCodec`. What a command is expected to *mean* does not come
from the encoders: `CrateMeaning` cuts each argument to the bits its field is documented or
typed to hold (`ValueBits`, from `AmdFigures`, `QiValues`, `PageFaultValues`, `PprValues`), so a
bit that an encoder drops is missed by the reader. The reader of a 256-bit queue
(`QiWideFigures`) follows the words in the comment of `QiDevPiotlb`. `Carries` names what a
queue can transport, and with it every case in which the pieces do not fit:

* `InvalidateInterruptTable`, 128-bit and `global` descriptors in a 256-bit queue (each has
  a run of its own that shows the failure);
* a PFSID, which is not encoded where it is documented;
* a PASID-cache invalidation of a PASID above 16 bits, its documented width, and a page
  request with PASID bit 19, which the decoder loses;
* page faults and page requests with an address that is not page aligned, whose offset is not
  logged;
* raw events that have the code of a page fault, or a `code` that is not the one in their
  words, which are all that `words()` writes.

**TableParser.** The state is what the Rust values hold: the validated table, the slice
each of the two iterators has left, and, as history, what they yielded. One action per
`next()` that yields (`NextUnit`, `NextEntry`) and per `next()` that ends (`EndOfUnits`,
`EndOfEntries`); `New` is the constructor with its four errors in their order. The buffer
is a function from offsets to bytes, any bytes, and every read goes through it, so that
lengths are what the table claims. DMAR and IVRS share the actions and differ in
`HasUnit`/`HasEntry`, in the length of an entry and in `FixedPart`. `Body` is what the
iterators walk: the table to the length in its header, not the buffer it lies in.
`TableViews` gives, for a slice, all that its accessors return. Byte sums and
little-endian fields are computed, not abstracted.

**Invalidation.** Threads map, unmap, attach and detach; each change is a store to
the tables and a plan of commands chosen from `Cap` and `Ecap`
(`queued_inval`, `caching_mode`, `rwbf`, `page_selective_inval`,
`max_amask_value`). `InvalidationWords` turns each command into the bits
the crates build (`CompletionWait::with_store`, `QiWait::fence`, `Ccmd::new`,
...) and reads the bits back as the IOMMU would. So the IOMMU acts on the
words and never on the intention. The IOMMU may carry out queued commands in any order
that fences and waits permit (`Ready`), caches contexts and translations, may
evict at any time, and a page walk reads the tables in one step and caches the result
in a later one. Descriptors travel through an abstract FIFO here, because
`DescriptorQueue` is shown to implement one. `iva` of the hardware record is
where the register really is; the driver has to compute it from ECAP.

## Runs

| Run | Result | Shows |
|---|---|---|
| `packed_entry` | pass | 11,507 states. All ten types, chains of up to 3 calls, each with zero, all ones of the argument type, and the top bit the setter writes and the top bit of the documented field: `FreshReadsBack`, `OrderIrrelevant` (of the types without overlaps) |
| `page_walk` | pass | 97,602 states. All four formats, 3 levels, spare tables, 3 concurrent writes: `ReadsOnlyTables`, `Linearizable`, `Terminates` |
| `map_range` | pass | 900 states. 315 requests, five sets of permissions: `PrefixMapped`, `WholeRangeMapped` |
| `command_queue` | pass | 3,269 states. AMD command, event and PPR rings, 128-bit Intel rings and a 256-bit one: `CodecFits`, and `DeliversCommands` (refinement) |
| `table_parser` | pass | 60,906 states. Every table of up to three structures out of 16 (DMAR) and 13 (IVRS), with truncated structures, bad lengths and bad nested entries; every header fault: `UnitsTileTable`, `EntriesTileUnit`, `ReportsWhatWasWritten`, `Terminates` |
| `invalidation` | pass | 317,838 states. Five IOMMUs, two threads, no bound on the number of changes: `WordsFit`, `FreedFramesUnreachable`, `CompletedChangesVisible`, `ChangesComplete` |
| `dte_root` | violation | `with_host_page_table_root` clears q0[63:52] |
| `dte_domain` | violation | `with_domain_id` overwrites the interrupt fields in q2[15:0]: the interrupt map valid bit, set first, is gone |
| `v1_width` | violation | v1 walks are not width-checked, against the comment above the check |
| `interrupt_table_opcode` | violation | INVALIDATE_INTERRUPT_TABLE is encoded with opcode 02h |
| `wide_queue_slots` | violation | `slot_count` ignores the width of the queue |
| `wide_queue_type` | violation | `global` of `QiDevPiotlb` changes the descriptor's type |

### Bounds

* `MaxCalls = 3` (packed entries): a lost or leaked bit needs at most one call
  to set a field, one to disturb it and one to set it again. The theorems below
  remove the bound.
* Arguments (packed entries): with per-bit masks, all ones shows leaks and cuts, zero
  shows bits left behind, the top bits show shifts and bits dropped.
* `MaxWrites = 3` over 3 levels: enough to unlink a subtree, put another in its
  place and change it while a walk is inside; two addresses share the upper
  entries, one of them wider than the tree.
* Requests (range mapper): lengths 0, 1 and around one, three and four pages; permissions with and
  without read, write and execute;
  bases whose sums carry into bit 21 and beyond.
* Rings: two slots with every command and two complementary argument patterns
  (each field bit is once one and once zero, with bits beyond the field set),
  four slots with two commands for wraparound at every position. The 256-bit
  queue has two entries and carries device-TLB invalidations of one PASID. Every argument is
  within `Carries`.
* Tables: three structures show what a bad length does to its predecessors and
  successors; each stock holds every type, the longest and the shortest form of each
  that differs, and lengths 0, 3, past the end and cut in the length field itself. The
  expected views, and where each structure ends, are written beside the bytes in
  `MCTableParser`, not derived from them by the parser's definitions. The theorems below
  remove the bound.
* Invalidation: one device, one domain of two pages that form an aligned pair, two
  frames, two threads. Two threads are needed for the interleavings of waits, two
  pages for ranges beyond MAMV. The five IOMMUs are AMD; Intel with a queue and
  single-page or pairwise invalidation; Intel with registers and write buffers; and
  Intel with registers, caching mode and no page-selective invalidation. Semaphores take
  two values in turn, so that runs go on for ever in finitely many states.

### Fairness

`WF(Walk)` in `PageWalk`: `walk()` is straight-line code that waits for nothing, so
a call in progress keeps running; nothing is assumed of the owner or of the
caller. `WF(Next)` in `MapRange`: the caller that drains the iterator keeps
calling `next()`. `DescriptorQueue` states safety only and assumes no fairness.
`WF` of the iterator steps in `TableParser`: the loops over `structs()` and
`scopes()` are straight-line code. In `Invalidation` each thread has `SF(Continue)`:
it is scheduled, and a lock it asks for again and again is granted at some
point; the IOMMU has `WF(Oldest)`, the head of its queue is processed, and
`WF(Registers)`. Nothing is assumed of devices, walks, evictions or write
buffers.

`CHECK_DEADLOCK FALSE` is used where the program may stop: a chain of builder
calls ends, and so does an iterator. `table_parser` and `invalidation` check
deadlock.

## Proofs

`PackedEntryProofs` proves, for **every** layout satisfying `LayoutAssumption`
and every chain length and argument:

* `TypeCorrect`: `Spec => []TypeOK`;
* `LastValueKept`: `Spec => []FreshReadsBack`;
* `BuilderOrderIrrelevant`: `Spec => []OrderIrrelevant`.

`FreshReadsBack` is not inductive alone: where a getter reads further than its
setter writes (the DTE interrupt table pointer), the surplus bits must be
known to be zero, which follows from `TypeOK` (no bit is set that no setter
owns) with `UnwrittenReadsZero`. The step then splits on whether the field is
the one set, a field overlapping it (dropped from `fresh`) or another one
(untouched by `SettersApart`). `OrderIrrelevant` needs that the values in `want`
fit the fields and that the clear masks of different fields are disjoint from
each other's bits. The assumption is discharged for the real layouts by TLC.

`TableParserProofs` proves, for **every** set of buffers satisfying
`BuffersAssumption` (each is a function from offsets to bytes), hence for every
content of the table:

* `TypeCorrect`: `Spec => []TypeOK`, no iterator ever holds a slice that ends
  before it begins;
* `UnitsTile`: `Spec => []UnitsTileTable`, the structures and what is left for the iterator
  fill the table to the length in its header, whatever lies behind it in the buffer;
* `EntriesTile`: `Spec => []EntriesTileUnit`.

The inductive invariant joins these with `buf \in Buffers` and `Opening` (before a
successful `new` nothing was yielded). None of the three is inductive alone:
that a length byte may be read at all needs the slice to be inside the buffer,
and that the nested list ends with its structure needs the structure to be the
last tile. `TileAppend` is the core: cutting a non-empty slice off the front of
the rest extends a tiling.

For buffers in which firmware wrote a table it proves

* `TablesReported`: `Spec /\ AsWritten => []ReportsWhatWasWritten`,

for every number of structures and entries. `AsWritten` is a hypothesis about the buffer, not a
property: one structure or entry at a time, it lies where it was written, carries its length as
the *format* has it (`IsUnit`, `IsEntry`, stated apart from what the iterators test), has its
fields where the accessors look, and behind the last one there is no further one. `MCSpec`
asserts it of every buffer of the run, so that the run stops at a table on which the theorem would
say nothing. The theorem adds the iteration: `Follow` says that
both iterators have yielded a beginning of what was written and stand exactly behind it;
`UnitFound` and `EntryFound` show that the conditions in `next()` find a piece precisely where
the format has one. An iterator that takes types 28h to 2fh for short entries, for instance,
satisfies the hypothesis and not the theorem.

`PageWalkProofs` proves, for **every** set of tables, depth of the tree, address,
format and number of writes by the owner:

* `TypeCorrect`: `Spec => []TypeOK`;
* `WalkStaysInTables`: `Spec => []ReadsOnlyTables`;
* `WalkLinearizable`: `Spec => []Linearizable`.

The assumptions are those on the constants: the tables start as a tree
(`TreeShaped`), links lead to tables and superpages are aligned (`WellFormed`), the
owner's entries are made by the crates' builders. The inductive invariant keeps
both shapes true of the present memory and says where the walk is: a chain of
links from the root to the current table exists in *one* memory `m` seen during
the call, and either `m` is the present memory, or the table belongs to a set that
is *detached*: its tables still read as they did in `m`, they are reachable in
`m` and not now, and whatever they link to is in the set as well (`Detached`).
Without the set the invariant is not inductive: the owner may cut the tree far
above the walk, and the tables below the cut must be known not to change. `PathCut`
shows that a write to an entry on the walk's chain detaches all that hung below it,
`DetachedStays` that the owner's discipline (`Retired`) leaves a detached set
alone, `WalkInvDescend` that the next table is reached by the chain extended by
one link. An answer is then the answer for `m` (`AnswerResolves`), an instant of the
call. `HitMaps` is the bit arithmetic of frame and offset, for every level.

`MapRangeProofs` proves, for **every** set of requests:

* `TypeCorrect`: `Spec => []TypeOK`;
* `PrefixIsMapped`: `Spec => []PrefixMapped`.

The inductive invariant is that the leaves stored are those of the first `i`
pages (`LeavesStored`). The rest is arithmetic: page `n` of an aligned request
covers bytes `4096 n` to `4096 n + 4095` (`ByteAddress`), adding a page-aligned
address and an offset below 4096 is the same as joining their bits
(`LowBit`, `HighBit`), so that the walker's frame-and-offset gives the host address.
`PrefixMapped` says which permissions a leaf has for every set asked for.
Words are cut at 31 bits, which is as far as TLC can evaluate `2 ^ b`.

`DescriptorQueueProofs` proves, for **every** ring size that is a multiple of the
entry, every set of kinds and commands and **every** codec:

* `TypeCorrect`: `Spec => []TypeOK`;
* `Refinement`: `Spec /\ CodecFits => DeliversCommands`.

`CodecFits` speaks of one command at a time: its encoding fills one entry,
`slot_count` is the size of the entry, and the decoder inverts the encoder. It
mentions nothing that changes (`kind` is fixed). The inductive invariant adds that head
and tail are multiples of the entry size (`Strided`) and that a stored, unpublished entry
lies just behind the tail with the words of its command (`StagedBehindTail`).
`StoreStutters`, `PublishSends` and `TakeReceives` are the three steps of the refinement.

For the crates' own codec nothing is left to assume:

* `CrateCodecFits`: `Spec /\ CrateCodec => []CodecFits`;
* `CrateDelivers`: `Spec /\ CrateCodec => DeliversCommands`.

`CrateCodec` says that each queue is used with the functions of `CommandCodec` and with
commands it can carry (`Carries`), with any arguments within it; TLC evaluates it on the
queues of `command_queue` (`CarriedAssumption`). The three runs with expected violations
use commands that `Carries` leaves out. The argument is in `CodecProofs`: a layout *fits*
a figure when the figure reads each bit where the layout puts it, no two bits go to the
same place, and none to the bits of the type code (`Fitting`). `ReadsBack` and its
companions show once what follows from that: the code survives, the decoder finds the
operation, and every argument comes back as far as the layout has room for it. `Said` and
`HeldIsSaid` of `DescriptorQueueProofs` close the gap to what the command was to say: for
everything a queue can carry (`QiSays`, `FaultSays`, `PprSays`) the documented value has
no bit the layout drops. What remains is one lemma per command, descriptor and log entry
that its bit positions are as they have to be, and that the codes of a family differ
(`AmdCodes`, `QiCodes`). `OneSlot` and `TwoSlots` cut an entry into slots and put it
together again.

`InvalidationProofs` proves, for **every** number of threads, devices, domains, pages
and frames, every set of ranges and **every** honest hardware:

* `CrateWordsFit`: `Spec => WordsFit`;
* `TypeCorrect`: `Spec => []TypeOK`;
* `FreedUnreachable`: `Spec => []FreedFramesUnreachable`;
* `ChangesVisible`: `Spec => []CompletedChangesVisible`.

`WordsFit` speaks of one word at a time and of nothing that changes (`hw` is
fixed): the capability getters report what is built in; the registers computed
from ECAP are where the hardware has them, apart from each other; each word for
a domain, a range or a context is read back by the IOMMU as covering at least that domain,
range or device; the fence holds back what follows and stores nothing; a wait stores its
value at its semaphore. A register offset that is off by a bit breaks it.
It is proved bit by bit from the layouts: `CapGetters` and `Offsets` for what the driver
reads, `IotlbReads`, `IvaReads`, `CcmdReads` for the registers, `AmdCommands` and
`QiCommands` (with the lemmas of `CodecProofs`) for the queues, `AmdRangeCovers` for the size
an AMD range has in its address, `ScopeCovers` for the mask an Intel one has beside it. The
other theorems are proved from `WordsFit` alone (`InvAlways`): words with
these meanings are *enough*, and the protocol around them is right in every interleaving.

The assumptions are about the constants, and TLC evaluates them on the run's:
`InvalidationAssumption` (two tickets, one semaphore per thread, at least one page,
`None` is nobody's name), `HardwareAssumption` (`Honest`: RWBF and CM are reported when built
in, PSI and MAMV not beyond what is built, IRO says where IVA is; IVA and IOTLB do not
lie on CCMD; AMD's has neither write buffers nor caching mode) and `WidthAssumption` (ids of 16
bits, page and range addresses aligned, semaphores qword aligned below 2^52, tickets of 32
bits for `QiWait` and 64 for `CompletionWait`). None of them mentions a layout.

The properties are far from inductive: while a job runs its translations are
stale, and what makes that harmless lies in the future. So the invariant `Inv` (in
`InvalidationAhead`) says what is *ahead*. `Pipe(d, n)` is the queue with, behind it, what
thread `d` has still to append. Each stale translation in a cache or a walk
belongs to a page some thread claims, its frame is among those that thread will give back,
and the thread has ahead a command that covers it *followed by the
completion it waits for* (`QueueDrops`), or a register command not yet issued, or
issued and still shown in the register it polls (`RegistersDrop`); that is `Stale`. `Seen`
says the same of stores not yet visible to walks: a flush is ahead, and the
drop after it. `Contexts` says of a domain given up that the context's drop
is ahead, behind it something that holds the queue, behind that the drop of all its
translations (`WillForget`): a walk through the stale context then still finds the second
drop ahead. `Apart` and `Owned` say that no page is claimed twice and that each
frame is free, mapped once, or kept by one job. These need `Waits` (only a job's last
command is a wait, and it carries the ticket not used last), `Semaphores` (a
polling thread's completion is in the queue at most once and its ticket not yet in
memory; without this a stale completion of an earlier job could end a poll too
early) and `Locked` (from its first store a thread holds the registers, so that IVA
keeps its value until the IOTLB register is written).

`InvalidationAhead` shows what each kind of step does to what is ahead: appending moves a
command from a thread's list to the queue and leaves its place in the pipe (`SubmitKeepsQueue`),
carrying out a command removes it from the middle, which breaks a
chain only if the translation in question is dropped by that very step
(`ExecuteKeepsQueue`: a wait is carried out last, a fence only after what is before it),
polling ends only after the registers or the semaphore say so (`AdvanceKeepsQueue`,
`AdvanceKeepsRegisters`), and stores by other threads are excluded by the lock
(`WriteKeepsRegisters`). Its second part computes the positions of flush, context,
fence, domain and wait in each plan and concludes that a fresh job has ahead what it needs
(`MapTodo`, `RangeTodo`, `DetachTodo`). `InvalidationProofs` puts them together:
most steps are `Quiet` (they add nothing to caches and change no claim), and the rest
(`StartWalk`, `CacheContext`, `Attach`, a job's begin and end) have a lemma each.
A thread with nothing left to do has nothing ahead (`DoneAhead`), so at `Finish` no stale
translation of its pages is left.

Every safety property of a passing run is stated by a theorem. Liveness (`Terminates` of
both modules, `WholeRangeMapped`, `ChangesComplete`) is out of the prover's reach and
stays with TLC. `CapabilityAssumption` (no two capability getters share a bit) and the
layouts' `LayoutAssumption` are evaluated by TLC. What the recursive function in
`Checksum` computes is not proved; the theorems hold whatever it is.

## Divergences without a run of their own

Packed entries:

* `dte.rs:384` documents the interrupt table pointer as 46 bits, DTE 179:134;
  `with_interrupt_table_ptr` (393) writes 34 of them.
* `amd/irte.rs:72` documents a destination of 32 bits; 24 are stored and read.
* `context.rs:763` gives FLRTP as q2[63:12]; setter and getter use 51:12.
* `dte.rs:344` calls the guest CR3 pointer 8-byte aligned; the setter keeps bits 51:12.
* `PasidTableEntry::hpt_size` is documented as entry bits 257:256 and reads `hpt[1]`,
  which is bits 321:320.

Page tables:

* `SecondStagePte::page` (`pagetables.rs:192`) takes two bits of `perms` and forces the present
  bit, which is the read bit: of the leaf permissions of a `MapRange` (268), execute is lost and
  read cannot be left out.

Queues and logs:

* The comment of `QiDevPiotlb` (`qi.rs:500-501`) has PFSID, with a question mark, at 63:48 of
  word 2; `to_words4` writes it to 31:16.
* The comment of `QiPc` (`qi.rs:398`) has PASID at 47:32; the code uses 63:32.
* `Event::words` (`events.rs:134`) ignores the `code` of a raw event (113), though `Event::code`
  returns it.
* `PageFaultEvent::words` (`events.rs:98`) and `PprEntry::words` drop the low 12 bits of the
  address.
* `ppr.rs:89` decodes PASID[18:16], `words()` encodes PASID[19:16].

Tables:

* `ivrs.rs:46` says a table is too short below 48 bytes; `new` accepts 44, and the run has such
  tables.
* `dmar.rs:360` gives RHSA 20 bytes, and a sum of fields that is 24; `proximity_domain` is read
  at byte 20, and the RHSA structures of the run have 24.
* `ivrs.rs:8-10` says that types 21h and 22h are IVMD blocks; `EntryType::from` makes
  only 20h one, the others are `Unknown`.
* The header sizes in the comment in `Ivhd::devices` (`4 + 4 + 12`, plus 4) add up to 20 and 24;
  the code skips 24 and 28.
* `Ivhd::iommu_id`, `Ivhd::segment` and `Ivmd::segment` index bytes 4 to 6 of blocks that may
  have only 4.
* A structure with a bad length ends the iteration silently, while a bad table length
  is an error.

Registers:

* `Gsts::WBFS` is commented 'Write buffer flushed' (`regs.rs:653`); the model polls it as the
  hardware's sign that a flush is still in progress.
* `Irta::new` puts the size into bits 15:14 of the base; `Ccmd::new` puts FM over SID[1:0]: a
  context is named rightly only with FM = 0, the only mask the model's driver uses, so that
  neither `WordsFit` nor the protocol says anything of other masks.
* `Ccmd::new` and `IotlbInval::new` leave the start bit clear.

## Not modelled

Byte order dumps and zerocopy overlays (`into_bytes`, `from_bytes`), the raw bytes of a table
and its header (`raw`, `signature`, `flags_raw`), `Display` and
error texts, the remaining register offsets and the tock-registers block, AMD `Status`,
`Irta`, `Rtaddr`, `Version`, FSTS: constants or single masks without an
operation that uses them. `drhd_units`, `ivhd_units` and `ivmd_units` are filters over
the iterators modelled. In `Invalidation`: PASID-granular and device-TLB
invalidation, interrupt entry caches, page requests; the AMD command buffer's own
fetch (see `DescriptorQueue`); invalidation time-outs, which the crates leave to
the driver entirely. A device table entry stored qword by qword under a
reading IOMMU is not modelled: the crate builds entries by value and leaves the
stores to the caller.

## Plan

Done: packed entries, walker, range mapper, queues and logs, table parsers and
invalidation, all with proofs; the crates' codecs and register words proved to fit.

Possible extensions: an `Irta` layout, invalidation by PASID, function masks other than 0.
