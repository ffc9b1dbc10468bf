---------------------------- MODULE TableParser ----------------------------
(***************************************************************************)
(* The ACPI table parsers: DmarTable (dmar.rs) and IvrsTable (ivrs.rs).    *)
(* `new' validates a buffer the firmware left in memory; structs() or      *)
(* blocks() walks the structures of the table, and scopes() or devices()   *)
(* walks the list nested in one of them.  All of them hand out slices of   *)
(* the buffer, cut by length bytes that come from the buffer itself.       *)
(*                                                                         *)
(* A slice is the record of its bounds: the bytes lo, ..., hi - 1.  An     *)
(* iterator is the slice it has left.  A field of several bytes is a word. *)
(***************************************************************************)
EXTENDS Bits, Sequences

CONSTANTS
  Buffers      \* the buffers: records of format, len and byte

VARIABLES
  buf,         \* the buffer being parsed
  result,      \* of `new': "None" (not called), "Ok" or an error
  rest,        \* StructIter / BlockIter: the bytes it has left
  units,       \* what it yielded
  ended,       \* its next() returned None
  inner,       \* DeviceScopeIter / DeviceEntryIter of the last unit
  entries,     \* what that one yielded
  inner_ended

vars == <<buf, result, rest, units, ended, inner, entries, inner_ended>>

ASSUME BuffersAssumption ==
  \A b \in Buffers : /\ b.format \in {"DMAR", "IVRS"}
                     /\ b.len \in Nat
                     /\ b.byte \in [0 .. (b.len - 1) -> 0 .. 255]

Slice(lo, hi) == [lo |-> lo, hi |-> hi]

Empty == Slice(0, 0)

Size(s) == s.hi - s.lo

(* bytes[i] of a slice that is known to be longer. *)
At(s, i) == buf.byte[s.lo + i]

U16At(s, i) == At(s, i) + 256 * At(s, i + 1)

(* le16, le32, le64 and raw.get(..): the n bytes at off, or zero when the  *)
(* slice ends before.                                                      *)
Le(s, off, n) ==
  IF off + n <= Size(s)
  THEN UNION {{8 * i + b : b \in BitsOf(At(s, off + i))} : i \in 0 .. (n - 1)}
  ELSE {}

(* STRUCTS_OFFSET and BLOCKS_OFFSET. *)
FirstOffset == IF buf.format = "DMAR" THEN 48 ELSE 44

Signature == IF buf.format = "DMAR" THEN <<68, 77, 65, 82>> ELSE <<73, 86, 82, 83>>

---------------------------------------------------------------------------
(* DmarTable::new, IvrsTable::new *)

(* The length in the header. *)
Total ==
  buf.byte[4] + 256 * buf.byte[5] + 65536 * buf.byte[6] + 16777216 * buf.byte[7]

(* raw[..total].iter().fold(0u8, wrapping_add) *)
Checksum ==
  LET sum[n \in 0 .. Total] == IF n = 0 THEN 0 ELSE (sum[n - 1] + buf.byte[n - 1]) % 256
  IN  sum[Total]

Verdict ==
  IF buf.len < FirstOffset THEN "TooShort"
  ELSE IF \E i \in 0 .. 3 : buf.byte[i] # Signature[i + 1] THEN "BadSignature"
  ELSE IF Total < FirstOffset \/ Total > buf.len THEN "BadLength"
  ELSE IF Checksum # 0 THEN "BadChecksum"
  ELSE "Ok"

(* What structs() and blocks() walk: the table behind its header, of the   *)
(* view raw[..total]; the slip walks to the end of the buffer.             *)
BodyUncut == Slice(FirstOffset, buf.len)

Body == Slice(FirstOffset, Total)

---------------------------------------------------------------------------
(* The iterators: what next() checks, and the length it splits off. *)

(* StructIter::next with peek_len, BlockIter::next. *)
UnitLen(s) == U16At(s, 2)

HasUnit(s) == Size(s) >= 4 /\ UnitLen(s) >= 4 /\ UnitLen(s) <= Size(s)

(* DeviceScopeIter::next; the slip forgets that the list may be cut short. *)
HasScopeUnbounded(s) == Size(s) >= 6 /\ At(s, 1) >= 6

HasScope(s) == Size(s) >= 6 /\ At(s, 1) >= 6 /\ At(s, 1) <= Size(s)

(* DeviceEntryIter::next: types 40h, 41h, 42h and 48h carry their length,  *)
(* 03h and 28h to 2fh are long.                                            *)
VariableTypes == {64, 65, 66, 72}

NeededAliasOnly(type) == IF type = 3 THEN 8 ELSE 4

Needed(type) == IF type = 3 \/ type \in 40 .. 47 THEN 8 ELSE 4

DeviceEntryLen(s) == IF At(s, 0) \in VariableTypes THEN At(s, 1) ELSE Needed(At(s, 0))

HasDeviceEntry(s) ==
  /\ Size(s) >= 1
  /\ At(s, 0) \in VariableTypes => Size(s) >= 2 /\ At(s, 1) >= 4
  /\ DeviceEntryLen(s) <= Size(s)

HasEntry(s) == IF buf.format = "DMAR" THEN HasScope(s) ELSE HasDeviceEntry(s)

EntryLen(s) == IF buf.format = "DMAR" THEN At(s, 1) ELSE DeviceEntryLen(s)

(* The size of the fixed part before the nested list, for the types that   *)
(* have scopes() or devices().                                             *)
FixedPart(type) ==
  IF buf.format = "DMAR"
  THEN CASE type = 0 -> 16
         [] type = 1 -> 24
         [] type \in {2, 5, 6} -> 8
         [] OTHER -> 0
  ELSE CASE type = 16 -> 24
         [] type \in {17, 64} -> 28
         [] OTHER -> 0

(* raw.get(fixed..).unwrap_or(&[]); the slip takes raw[fixed..] for granted. *)
NestedInUnchecked(s) ==
  LET fixed == FixedPart(At(s, 0))
  IN  IF fixed # 0 THEN Slice(s.lo + fixed, s.hi) ELSE Empty

NestedIn(s) ==
  LET fixed == FixedPart(At(s, 0))
  IN  IF fixed # 0 /\ fixed <= Size(s) THEN Slice(s.lo + fixed, s.hi) ELSE Empty

---------------------------------------------------------------------------
Init ==
  /\ buf \in Buffers
  /\ result = "None"
  /\ rest = Empty /\ units = << >> /\ ended = TRUE
  /\ inner = Empty /\ entries = << >> /\ inner_ended = TRUE

(* T::new(raw), and structs() or blocks() on the view of the first `total' *)
(* bytes that it returns.                                                  *)
New ==
  /\ result = "None"
  /\ result' = Verdict
  /\ IF Verdict = "Ok"
     THEN rest' = Body /\ ended' = FALSE
     ELSE UNCHANGED <<rest, ended>>
  /\ UNCHANGED <<buf, units, inner, entries, inner_ended>>

(* next() is Some: split_at(len).  The caller asks the new unit for its    *)
(* nested list and drops the iterator it had, finished or not.             *)
NextUnit ==
  /\ ~ended /\ HasUnit(rest)
  /\ LET mid == rest.lo + UnitLen(rest)
     IN  /\ units' = Append(units, Slice(rest.lo, mid))
         /\ rest' = Slice(mid, rest.hi)
         /\ inner' = NestedIn(Slice(rest.lo, mid))
  /\ entries' = << >> /\ inner_ended' = FALSE
  /\ UNCHANGED <<buf, result, ended>>

(* A slip: None only at the very end, so that a bad length spins. *)
EndOfUnitsWhenEmpty ==
  /\ ~ended /\ ~HasUnit(rest)
  /\ ended' = (Size(rest) = 0)
  /\ UNCHANGED <<buf, result, rest, units, inner, entries, inner_ended>>

EndOfUnits ==
  /\ ~ended /\ ~HasUnit(rest)
  /\ ended' = TRUE
  /\ UNCHANGED <<buf, result, rest, units, inner, entries, inner_ended>>

(* The same of the nested iterator. *)
NextEntry ==
  /\ ~inner_ended /\ HasEntry(inner)
  /\ LET mid == inner.lo + EntryLen(inner)
     IN  /\ entries' = Append(entries, Slice(inner.lo, mid))
         /\ inner' = Slice(mid, inner.hi)
  /\ UNCHANGED <<buf, result, rest, units, ended, inner_ended>>

EndOfEntries ==
  /\ ~inner_ended /\ ~HasEntry(inner)
  /\ inner_ended' = TRUE
  /\ UNCHANGED <<buf, result, rest, units, ended, inner, entries>>

(* Nothing is left to ask. *)
Done ==
  /\ result # "None" /\ ended /\ inner_ended
  /\ UNCHANGED vars

Next == New \/ NextUnit \/ EndOfUnits \/ NextEntry \/ EndOfEntries \/ Done

(* The caller's loops go on until they see None. *)
Fairness == WF_vars(New \/ NextUnit \/ EndOfUnits \/ NextEntry \/ EndOfEntries)

Spec == Init /\ [][Next]_vars

FairSpec == Spec /\ Fairness

---------------------------------------------------------------------------
Slices == {s \in [lo : Nat, hi : Nat] : s.lo <= s.hi}

TypeOK ==
  /\ result \in {"None", "Ok", "TooShort", "BadSignature", "BadLength", "BadChecksum"}
  /\ rest \in Slices /\ inner \in Slices
  /\ units \in Seq(Slices) /\ entries \in Seq(Slices)
  /\ ended \in BOOLEAN /\ inner_ended \in BOOLEAN

(* The slices of q lie end to end from `first' up to where s begins. *)
Tile(q, first, s) ==
  /\ q = << >> => s.lo = first
  /\ q # << >> => q[1].lo = first /\ q[Len(q)].hi = s.lo
  /\ \A i \in 1 .. Len(q) : q[i].lo < q[i].hi
  /\ \A i \in 1 .. (Len(q) - 1) : q[i].hi = q[i + 1].lo

(* Whatever lengths the bytes claim, the structures handed out follow each *)
(* other without gap or overlap from the end of the header and, like what  *)
(* is left for the iterator, stay in the table, whose length the header    *)
(* gives: bytes that follow it in the buffer are never taken for part of it*)
UnitsTileTable ==
  result = "Ok" =>
    /\ Tile(units, FirstOffset, rest)
    /\ rest.lo <= rest.hi /\ rest.hi = Total /\ Total <= buf.len

(* The structure yielded last, and where its nested list begins. *)
Current == units[Len(units)]

NestedFrom == Current.lo + FixedPart(At(Current, 0))

(* The entries of a nested list follow each other the same way and none    *)
(* reaches past its structure into the next one.                           *)
EntriesTileUnit ==
  units # << >> =>
    \/ inner = Empty /\ entries = << >>
    \/ /\ Tile(entries, NestedFrom, inner)
       /\ inner.lo <= inner.hi /\ inner.hi = Current.hi
===========================================================================
