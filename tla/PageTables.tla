---------------------------- MODULE PageTables ----------------------------
(***************************************************************************)
(* The page-table formats of both crates (pagetables.rs): how an address   *)
(* is cut into indices, how entries are built and how the walkers read     *)
(* them.  Addresses and entries are words of module Bits, at full width.   *)
(* The formats are "First" and "Second" (Intel, Stage) and "V1" and "V2"   *)
(* (AMD, Format).                                                          *)
(***************************************************************************)
EXTENDS Bits

Formats == {"First", "Second", "V1", "V2"}
IntelFormats == {"First", "Second"}

LEVEL_SHIFT == <<12, 21, 30, 39, 48>>

(* Bits 51:12. *)
PA_MASK == 12 .. 51

(* The address bits a table of that many levels translates. *)
addr_bits(levels) == LEVEL_SHIFT[levels] + 9

index_at(vaddr, level) ==
  extract_bits(vaddr, LEVEL_SHIFT[level] + 8, LEVEL_SHIFT[level])

---------------------------------------------------------------------------
(* Entry bits. *)
P == 0
W == 1
X == 2
IR == 4
IW == 5
V2Accessed == 5
V2Dirty == 6
PS == 7
Accessed == 8
Dirty == 9

(* The flags declared by Intel's Perm, all from_bits_truncate keeps. *)
IntelPerm == {P, W, X, PS, Accessed, Dirty, 10, 63}

EMPTY == {}

(* SecondStagePte::page and huge_page; only R and W of perms are kept. *)
page(paddr, perms) == (paddr \cap PA_MASK) \cup (perms \cap {P, W}) \cup {P}
huge_page(paddr, perms) == page(paddr, perms) \cup {PS}

(* SecondStagePte::table. *)
table_entry(next) == (next \cap PA_MASK) \cup {P, W, X}

first_stage_leaf(paddr, user, writable) ==
  (paddr \cap PA_MASK) \cup {Accessed, Dirty, P}
    \cup (IF writable THEN {W} ELSE {}) \cup (IF user THEN {X} ELSE {})

v2_page(paddr, rw, user) ==
  (paddr \cap PA_MASK) \cup {P, V2Accessed, V2Dirty}
    \cup (IF rw THEN {W} ELSE {}) \cup (IF user THEN {X} ELSE {})

v2_table(next) == (next \cap PA_MASK) \cup {P, W, X, V2Accessed}

v1_page(paddr, read, write) ==
  (paddr \cap PA_MASK) \cup {P}
    \cup (IF read THEN {IR} ELSE {}) \cup (IF write THEN {IW} ELSE {})

(* A leaf, a superpage and a link of each format, as a table owner builds  *)
(* them.  Where the crates have no builder (links of First and V1, and     *)
(* superpages other than Second's) the owner ors the flags itself, as the  *)
(* crates' tests do.                                                       *)
Leaf(format, paddr, write) ==
  CASE format = "First"  -> first_stage_leaf(paddr, TRUE, write)
    [] format = "Second" -> page(paddr, {P} \cup (IF write THEN {W} ELSE {}))
    [] format = "V1"     -> v1_page(paddr, TRUE, write)
    [] format = "V2"     -> v2_page(paddr, write, FALSE)

Superpage(format, paddr, write) ==
  IF format = "Second" THEN huge_page(paddr, {P} \cup (IF write THEN {W} ELSE {}))
  ELSE Leaf(format, paddr, write) \cup {PS}

Link(format, next) ==
  CASE format = "First"  -> (next \cap PA_MASK) \cup {P, W}
    [] format = "Second" -> table_entry(next)
    [] format = "V1"     -> v2_table(next)
    [] format = "V2"     -> v2_table(next)

---------------------------------------------------------------------------
(* What the walkers read off an entry. *)
Present(entry) == P \in entry

IsLeaf(entry, level) == PS \in entry \/ level = 1

Frame(entry) == entry \cap PA_MASK

Perms(format, entry) ==
  IF format \in IntelFormats THEN entry \cap IntelPerm ELSE entry

NotPresent(level) == [err |-> "NotPresent", level |-> level]

AddressTooLarge(levels) == [err |-> "AddressTooLarge", bits |-> addr_bits(levels)]

(* A slip: a superpage keeps only the offset of a 4 KiB page. *)
WalkResultSmallOffset(format, vaddr, entry, level) ==
  [physical |-> Frame(entry) \cup (vaddr \cap (0 .. (LEVEL_SHIFT[1] - 1))),
   level    |-> level,
   perms    |-> Perms(format, entry),
   huge     |-> PS \in entry /\ level > 1]

WalkResult(format, vaddr, entry, level) ==
  [physical |-> Frame(entry) \cup (vaddr \cap (0 .. (LEVEL_SHIFT[level] - 1))),
   level    |-> level,
   perms    |-> Perms(format, entry),
   huge     |-> PS \in entry /\ level > 1]
===========================================================================
