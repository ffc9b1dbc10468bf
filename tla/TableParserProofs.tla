------------------------- MODULE TableParserProofs -------------------------
(***************************************************************************)
(* The parsers never leave the buffer, whatever its bytes are: the type    *)
(* invariant and the two tiling invariants of TableParser hold for every   *)
(* set of buffers, well-formed or not.  Of a table that firmware wrote     *)
(* they report all there is.                                               *)
(***************************************************************************)
EXTENDS TableViews, TLAPS

(* Before a successful `new' there is nothing to iterate over, and before  *)
(* the first structure no nested list.                                     *)
Opening ==
  /\ result # "Ok" => units = << >> /\ ended
  /\ units = << >> => inner_ended

Inv == buf \in Buffers /\ TypeOK /\ UnitsTileTable /\ EntriesTileUnit /\ Opening

---------------------------------------------------------------------------
(* A byte of the buffer is a byte (raw: &[u8]). *)
LEMMA ByteRange ==
  ASSUME buf \in Buffers, NEW k \in Int, 0 <= k, k < buf.len
  PROVE  buf.byte[k] \in 0 .. 255
<1>1. buf.len \in Nat /\ buf.byte \in [0 .. (buf.len - 1) -> 0 .. 255]
  BY BuffersAssumption, Zenon
<1>2. k \in 0 .. (buf.len - 1)
  BY <1>1
<1> QED BY <1>1, <1>2, Zenon

(* A slice with a positive offset into its own bounds reads a byte. *)
LEMMA AtRange ==
  ASSUME buf \in Buffers, NEW s \in Slices, s.hi <= buf.len,
         NEW i \in Nat, i < Size(s)
  PROVE  At(s, i) \in 0 .. 255
<1>1. s.lo + i \in Int /\ 0 <= s.lo + i /\ s.lo + i < buf.len
  <2>1. buf.len \in Nat
    BY BuffersAssumption, Zenon
  <2> QED BY <2>1 DEF Slices, Size
<1> QED BY <1>1, ByteRange DEF At

(* FirstOffset is one of the two header sizes. *)
LEMMA FirstOffsetNat == FirstOffset \in {44, 48}
  BY DEF FirstOffset

(* split_at: what lies end to end still does after the next slice is cut   *)
(* off the front of the rest.                                              *)
LEMMA TileAppend ==
  ASSUME NEW q \in Seq(Slices), NEW first \in Nat, NEW s \in Slices,
         NEW mid \in Nat, s.lo < mid, Tile(q, first, s)
  PROVE  Tile(Append(q, Slice(s.lo, mid)), first, Slice(mid, s.hi))
<1> DEFINE r == Append(q, Slice(s.lo, mid))
<1>1. /\ Len(q) \in Nat
      /\ Len(r) = Len(q) + 1
      /\ r[Len(q) + 1] = Slice(s.lo, mid)
      /\ \A i \in 1 .. Len(q) : r[i] = q[i]
  BY DEF Slice, Slices
<1>2. r # << >>
  BY <1>1
<1>3. r[1].lo = first
  <2>1. CASE q = << >>
    BY <1>1, <2>1 DEF Tile, Slice
  <2>2. CASE q # << >>
    BY <1>1, <2>2 DEF Tile
  <2> QED BY <2>1, <2>2
<1>4. r[Len(r)].hi = mid
  BY <1>1 DEF Slice
<1>5. \A i \in 1 .. Len(r) : r[i].lo < r[i].hi
  <2> TAKE i \in 1 .. Len(r)
  <2>1. CASE i = Len(q) + 1
    BY <1>1, <2>1 DEF Slice
  <2>2. CASE i \in 1 .. Len(q)
    BY <1>1, <2>2 DEF Tile
  <2> QED BY <1>1, <2>1, <2>2
<1>6. \A i \in 1 .. (Len(r) - 1) : r[i].hi = r[i + 1].lo
  <2> TAKE i \in 1 .. (Len(r) - 1)
  <2>1. CASE i = Len(q)
    <3>1. q # << >> /\ r[i] = q[Len(q)] /\ r[i + 1] = Slice(s.lo, mid)
      BY <1>1, <2>1
    <3> QED BY <3>1 DEF Tile, Slice
  <2>2. CASE i \in 1 .. (Len(q) - 1)
    BY <1>1, <2>2 DEF Tile
  <2> QED BY <1>1, <2>1, <2>2
<1>7. Slice(mid, s.hi).lo = mid
  BY DEF Slice
<1> HIDE DEF r
<1> QED BY <1>2, <1>3, <1>4, <1>5, <1>6, <1>7 DEF Tile, r

---------------------------------------------------------------------------
(* A table that passes `new' holds its header and ends inside the buffer.  *)
LEMMA AcceptedTable ==
  ASSUME buf \in Buffers, Verdict = "Ok"
  PROVE  Slice(FirstOffset, Total) \in Slices /\ Total <= buf.len
<1>1. buf.len \in Nat /\ FirstOffset \in {44, 48}
  BY BuffersAssumption, FirstOffsetNat, Zenon
<1>2. ~(buf.len < FirstOffset) /\ ~(Total < FirstOffset \/ Total > buf.len)
  BY DEF Verdict
<1>3. \A k \in 4 .. 7 : buf.byte[k] \in 0 .. 255
  <2> TAKE k \in 4 .. 7
  <2>1. k \in Int /\ 0 <= k /\ k < buf.len
    BY <1>1, <1>2
  <2> QED BY <2>1, ByteRange
<1>4. Total \in Nat
  <2> DEFINE a == buf.byte[4]
             b == buf.byte[5]
             c == buf.byte[6]
             d == buf.byte[7]
  <2>1. a \in 0 .. 255 /\ b \in 0 .. 255 /\ c \in 0 .. 255 /\ d \in 0 .. 255
    BY <1>3
  <2> HIDE DEF a, b, c, d
  <2>2. a + 256 * b + 65536 * c + 16777216 * d \in Nat
    BY <2>1
  <2> QED BY <2>2 DEF Total, a, b, c, d
<1> QED BY <1>1, <1>2, <1>4 DEF Slices, Slice

(* What next() of the outer iterator is about to cut off. *)
LEMMA UnitFits ==
  ASSUME Inv, ~ended, HasUnit(rest)
  PROVE  /\ result = "Ok"
         /\ UnitLen(rest) \in Nat
         /\ UnitLen(rest) >= 4
         /\ UnitLen(rest) <= rest.hi - rest.lo
         /\ rest.lo \in Nat /\ rest.hi \in Nat
<1>1. result = "Ok" /\ rest \in Slices /\ rest.hi <= buf.len
  <2>1. result = "Ok" /\ rest \in Slices
    BY DEF Inv, Opening, TypeOK
  <2> QED BY <2>1 DEF Inv, UnitsTileTable
<1>2. rest.lo \in Nat /\ rest.hi \in Nat /\ 2 < Size(rest) /\ 3 < Size(rest)
  BY <1>1 DEF Slices, HasUnit, Size
<1>3. At(rest, 2) \in 0 .. 255 /\ At(rest, 2 + 1) \in 0 .. 255
  BY <1>1, <1>2, AtRange DEF Inv
<1>4. UnitLen(rest) \in Nat
  <2> DEFINE a == At(rest, 2)
             b == At(rest, 2 + 1)
  <2>1. a \in 0 .. 255 /\ b \in 0 .. 255
    BY <1>3
  <2> HIDE DEF a, b
  <2>2. a + 256 * b \in Nat
    BY <2>1
  <2> QED BY <2>2 DEF UnitLen, U16At, a, b
<1> QED BY <1>1, <1>2, <1>4 DEF HasUnit, Size

(* And the nested one. *)
LEMMA EntryFits ==
  ASSUME Inv, ~inner_ended, HasEntry(inner)
  PROVE  /\ units # << >> /\ inner # Empty
         /\ EntryLen(inner) \in Nat
         /\ EntryLen(inner) >= 4
         /\ EntryLen(inner) <= inner.hi - inner.lo
         /\ inner.lo \in Nat /\ inner.hi \in Nat
<1>1. units # << >> /\ result = "Ok"
  BY DEF Inv, Opening
<1>2. inner \in Slices /\ inner.lo \in Nat /\ inner.hi \in Nat
  BY DEF Inv, TypeOK, Slices
<1>3. Size(inner) >= 1
  BY <1>2 DEF HasEntry, HasScope, HasDeviceEntry, Size
<1>4. inner # Empty
  BY <1>3 DEF Empty, Slice, Size
<1>5. inner.hi = units[Len(units)].hi
  BY <1>1, <1>4 DEF Inv, EntriesTileUnit, Current
<1>6. inner.hi <= buf.len
  <2>1. units \in Seq(Slices) /\ rest \in Slices /\ buf.len \in Nat
    BY BuffersAssumption, Zenon DEF Inv, TypeOK
  <2>2. units[Len(units)].hi = rest.lo /\ rest.lo <= rest.hi /\ rest.hi <= buf.len
    BY <1>1 DEF Inv, UnitsTileTable, Tile
  <2> QED BY <1>2, <1>5, <2>1, <2>2 DEF Slices
<1>7. At(inner, 0) \in 0 .. 255
  <2>1. 0 \in Nat /\ 0 < Size(inner)
    BY <1>2, <1>3 DEF Size
  <2> QED BY <1>2, <1>6, <2>1, AtRange DEF Inv
<1>8. Size(inner) >= 2 => At(inner, 1) \in 0 .. 255
  <2> SUFFICES ASSUME Size(inner) >= 2 PROVE At(inner, 1) \in 0 .. 255
    OBVIOUS
  <2>1. 1 < Size(inner)
    BY <1>2 DEF Size
  <2> QED BY <1>2, <1>6, <2>1, AtRange DEF Inv
<1>9. EntryLen(inner) \in Nat /\ EntryLen(inner) >= 4 /\ EntryLen(inner) <= Size(inner)
  <2>1. CASE buf.format = "DMAR"
    BY <1>2, <1>8, <2>1 DEF HasEntry, EntryLen, HasScope, Size
  <2>2. CASE buf.format # "DMAR" /\ At(inner, 0) \in VariableTypes
    BY <1>2, <1>8, <2>2 DEF HasEntry, EntryLen, HasDeviceEntry, DeviceEntryLen, Size
  <2>3. CASE buf.format # "DMAR" /\ At(inner, 0) \notin VariableTypes
    BY <1>2, <2>3 DEF HasEntry, EntryLen, HasDeviceEntry, DeviceEntryLen, Needed, Size
  <2> QED BY <2>1, <2>2, <2>3
<1> QED BY <1>1, <1>2, <1>4, <1>9 DEF Size

---------------------------------------------------------------------------
(* Init establishes the invariant. *)
LEMMA InitInv == Init => Inv
  BY DEF Init, Inv, TypeOK, UnitsTileTable, EntriesTileUnit, Opening, Empty, Slice, Slices

(* `new' opens the outer iterator on a table that fits. *)
LEMMA NewInv == Inv /\ New => Inv'
<1> SUFFICES ASSUME Inv, New PROVE Inv'
  OBVIOUS
<1>1. units = << >> /\ inner_ended /\ inner \in Slices
  BY DEF Inv, Opening, New, TypeOK
<1>2. buf' = buf /\ units' = units /\ inner' = inner /\ entries' = entries
      /\ inner_ended' = inner_ended /\ result' = Verdict
  BY DEF New
<1>3. CASE Verdict = "Ok"
  <2>1. rest' = Slice(FirstOffset, Total) /\ ended' = FALSE
    BY <1>3 DEF New, Body
  <2>2. /\ rest' \in Slices /\ rest'.lo = FirstOffset
        /\ rest'.hi = Total /\ Total <= buf.len
    BY <1>3, <2>1, AcceptedTable DEF Inv, Slice
  <2>3. TypeOK'
    BY <1>1, <1>2, <1>3, <2>1, <2>2 DEF Inv, TypeOK
  <2>4. UnitsTileTable'
    <3>1. rest'.lo <= rest'.hi
      BY <2>2 DEF Slices
    <3>2. FirstOffset' = FirstOffset /\ Total' = Total
      BY <1>2 DEF FirstOffset, Total
    <3>3. units' = << >> /\ Len(units') = 0
      BY <1>1, <1>2
    <3> QED BY <1>2, <2>2, <3>1, <3>2, <3>3 DEF UnitsTileTable, Tile
  <2>5. EntriesTileUnit' /\ Opening'
    BY <1>1, <1>2, <1>3, <2>1 DEF EntriesTileUnit, Opening
  <2> QED BY <1>2, <2>3, <2>4, <2>5 DEF Inv
<1>4. CASE Verdict # "Ok"
  <2>1. rest' = rest /\ ended' = ended
    BY <1>4 DEF New
  <2>2. ended
    BY DEF Inv, Opening, New
  <2>3. Verdict \in {"TooShort", "BadSignature", "BadLength", "BadChecksum"}
    BY <1>4 DEF Verdict
  <2> QED BY <1>1, <1>2, <1>4, <2>1, <2>2, <2>3
           DEF Inv, TypeOK, UnitsTileTable, EntriesTileUnit, Opening
<1> QED BY <1>3, <1>4

(* Next structure: its slice is cut off the rest, its nested list starts. *)
LEMMA NextUnitInv == Inv /\ NextUnit => Inv'
<1> SUFFICES ASSUME Inv, NextUnit PROVE Inv'
  OBVIOUS
<1> DEFINE mid == rest.lo + UnitLen(rest)
           unit == Slice(rest.lo, mid)
<1>1. /\ result = "Ok" /\ mid \in Nat /\ rest.lo < mid /\ mid <= rest.hi
      /\ rest.lo \in Nat /\ rest.hi \in Nat
  BY UnitFits DEF NextUnit
<1>2. /\ units' = Append(units, unit) /\ rest' = Slice(mid, rest.hi)
      /\ inner' = NestedIn(unit) /\ entries' = << >> /\ inner_ended' = FALSE
      /\ buf' = buf /\ result' = result /\ ended' = ended
  BY DEF NextUnit
<1> HIDE DEF mid
<1>3. units \in Seq(Slices) /\ rest \in Slices /\ ended \in BOOLEAN
  BY DEF Inv, TypeOK
<1>4. unit \in Slices /\ rest' \in Slices
  BY <1>1, <1>2 DEF Slice, Slices
<1>5. units' \in Seq(Slices) /\ units' # << >> /\ units'[Len(units')] = unit
  BY <1>2, <1>3, <1>4
<1>6. inner' = Empty \/ (inner' = Slice(rest.lo + FixedPart(At(unit, 0)), mid)
                           /\ FixedPart(At(unit, 0)) \in Nat
                           /\ rest.lo + FixedPart(At(unit, 0)) <= mid)
  <2>1. FixedPart(At(unit, 0)) \in Nat
    BY DEF FixedPart
  <2>2. unit.lo = rest.lo /\ unit.hi = mid /\ Size(unit) = mid - rest.lo
    BY DEF Slice, Size
  <2> QED BY <1>1, <1>2, <2>1, <2>2 DEF NestedIn
<1>7. inner' \in Slices
  BY <1>1, <1>6 DEF Slice, Slices, Empty
<1>8. TypeOK'
  <2>1. entries' \in Seq(Slices) /\ inner_ended' \in BOOLEAN /\ ended' \in BOOLEAN
    <3>1. entries' \in Seq(Slices)
      BY <1>2
    <3> QED BY <1>2, <1>3, <3>1, Zenon
  <2>2. result' = "Ok"
    BY <1>1, <1>2
  <2> QED BY <1>4, <1>5, <1>7, <2>1, <2>2 DEF TypeOK
<1>9. UnitsTileTable'
  <2>1. FirstOffset' = FirstOffset /\ FirstOffset \in Nat /\ Total' = Total
    BY <1>2, FirstOffsetNat DEF FirstOffset, Total
  <2>2. Tile(units, FirstOffset, rest) /\ rest.hi = Total /\ Total <= buf.len
    BY <1>1 DEF Inv, UnitsTileTable
  <2>3. Tile(units', FirstOffset, rest')
    BY <1>1, <1>2, <1>3, <2>1, <2>2, TileAppend
  <2>4. rest'.lo <= rest'.hi /\ rest'.hi = Total /\ Total <= buf'.len
    BY <1>1, <1>2, <2>2 DEF Slice
  <2> QED BY <2>1, <2>3, <2>4 DEF UnitsTileTable
<1>10. EntriesTileUnit'
  <2>1. CASE inner' = Empty
    BY <1>2, <2>1 DEF EntriesTileUnit, Empty
  <2>2. CASE inner' = Slice(rest.lo + FixedPart(At(unit, 0)), mid)
              /\ rest.lo + FixedPart(At(unit, 0)) <= mid
    <3>1. NestedFrom' = rest.lo + FixedPart(At(unit, 0)) /\ Current' = unit
      <4>1. Current' = unit /\ unit.lo = rest.lo
        BY <1>5 DEF Current, Slice
      <4> QED BY <1>2, <4>1 DEF NestedFrom, FixedPart, At
    <3>2. /\ inner'.lo = rest.lo + FixedPart(At(unit, 0))
          /\ inner'.lo <= inner'.hi /\ inner'.hi = unit.hi
      BY <1>1, <2>2 DEF Slice
    <3>3. entries' = << >> /\ Len(entries') = 0
      BY <1>2
    <3> QED BY <3>1, <3>2, <3>3 DEF EntriesTileUnit, Tile
  <2> QED BY <1>6, <2>1, <2>2
<1>11. Opening'
  BY <1>1, <1>2, <1>5 DEF Opening
<1> QED BY <1>2, <1>8, <1>9, <1>10, <1>11 DEF Inv

(* Next entry of the nested list: cut off what is left of its structure.   *)
LEMMA NextEntryInv == Inv /\ NextEntry => Inv'
<1> SUFFICES ASSUME Inv, NextEntry PROVE Inv'
  OBVIOUS
<1> DEFINE mid == inner.lo + EntryLen(inner)
<1>1. /\ units # << >> /\ inner # Empty /\ mid \in Nat
      /\ inner.lo < mid /\ mid <= inner.hi
      /\ inner.lo \in Nat /\ inner.hi \in Nat
  BY EntryFits DEF NextEntry
<1>2. /\ entries' = Append(entries, Slice(inner.lo, mid)) /\ inner' = Slice(mid, inner.hi)
      /\ buf' = buf /\ result' = result /\ rest' = rest /\ units' = units
      /\ ended' = ended /\ inner_ended' = inner_ended
  BY DEF NextEntry
<1> HIDE DEF mid
<1>3. entries \in Seq(Slices) /\ inner \in Slices /\ units \in Seq(Slices)
  BY DEF Inv, TypeOK
<1>4. inner' \in Slices /\ Slice(inner.lo, mid) \in Slices
  BY <1>1, <1>2 DEF Slice, Slices
<1>5. TypeOK'
  <2>1. entries' \in Seq(Slices)
    BY <1>2, <1>3, <1>4
  <2> QED BY <1>2, <1>4, <2>1 DEF Inv, TypeOK
<1>6. UnitsTileTable'
  BY <1>2 DEF Inv, UnitsTileTable, FirstOffset, Total
<1>7. EntriesTileUnit'
  <2>1. NestedFrom' = NestedFrom /\ Current' = Current
    BY <1>2 DEF NestedFrom, Current, FixedPart, At
  <2>2. Tile(entries, NestedFrom, inner) /\ inner.hi = Current.hi
    BY <1>1 DEF Inv, EntriesTileUnit
  <2>3. NestedFrom \in Nat
    <3>1. Current \in Slices
      BY <1>1, <1>3 DEF Current
    <3>2. FixedPart(At(Current, 0)) \in Nat
      BY DEF FixedPart
    <3> QED BY <3>1, <3>2 DEF NestedFrom, Slices
  <2>4. Tile(entries', NestedFrom, inner')
    BY <1>1, <1>2, <1>3, <2>2, <2>3, TileAppend
  <2>5. inner'.lo <= inner'.hi /\ inner'.hi = Current.hi
    BY <1>1, <1>2, <2>2 DEF Slice
  <2> QED BY <2>1, <2>4, <2>5 DEF EntriesTileUnit
<1>8. Opening'
  BY <1>2 DEF Inv, Opening
<1> QED BY <1>2, <1>5, <1>6, <1>7, <1>8 DEF Inv

(* The steps in which an iterator ends, or in which nothing happens, leave *)
(* every slice as it is.                                                   *)
LEMMA EndInv == Inv /\ (EndOfUnits \/ EndOfEntries \/ UNCHANGED vars) => Inv'
<1> SUFFICES ASSUME Inv, EndOfUnits \/ EndOfEntries \/ UNCHANGED vars PROVE Inv'
  OBVIOUS
<1>1. /\ buf' = buf /\ result' = result /\ rest' = rest /\ units' = units
      /\ inner' = inner /\ entries' = entries
  BY DEF EndOfUnits, EndOfEntries, vars
<1>2. ended' \in {ended, TRUE} /\ inner_ended' \in {inner_ended, TRUE}
  BY DEF EndOfUnits, EndOfEntries, vars
<1>3. TypeOK'
  <2>1. ended' \in BOOLEAN /\ inner_ended' \in BOOLEAN
    BY <1>2, Zenon DEF Inv, TypeOK
  <2> QED BY <1>1, <2>1 DEF Inv, TypeOK
<1>4. UnitsTileTable'
  BY <1>1 DEF Inv, UnitsTileTable, FirstOffset, Total
<1>5. EntriesTileUnit'
  <2>1. NestedFrom' = NestedFrom /\ Current' = Current
    BY <1>1 DEF NestedFrom, Current, FixedPart, At
  <2> QED BY <1>1, <2>1 DEF Inv, EntriesTileUnit
<1>6. Opening'
  <2>1. (ended => ended') /\ (inner_ended => inner_ended')
    BY DEF EndOfUnits, EndOfEntries, vars
  <2> QED BY <1>1, <2>1 DEF Inv, Opening
<1> QED BY <1>1, <1>3, <1>4, <1>5, <1>6 DEF Inv

(* The invariant is inductive. *)
LEMMA Inductive == Spec => []Inv
<1>1. Init => Inv
  BY InitInv
<1>2. Inv /\ [Next]_vars => Inv'
  BY NewInv, NextUnitInv, NextEntryInv, EndInv DEF Next, Done
<1> QED BY <1>1, <1>2, PTL DEF Spec

---------------------------------------------------------------------------
(* Every slice the parsers keep or hand out is a slice: no subtraction of  *)
(* lengths goes below zero (dmar.rs and ivrs.rs, every split_at and get).  *)
THEOREM TypeCorrect == Spec => []TypeOK
<1>1. Inv => TypeOK
  BY DEF Inv
<1> QED BY <1>1, Inductive, PTL

(* For every buffer: the structures of StructIter and BlockIter lie end to *)
(* end behind the header and inside the table.                             *)
THEOREM UnitsTile == Spec => []UnitsTileTable
<1>1. Inv => UnitsTileTable
  BY DEF Inv
<1> QED BY <1>1, Inductive, PTL

(* For every buffer: the entries of DeviceScopeIter and DeviceEntryIter    *)
(* lie end to end behind the fixed part and inside their structure.        *)
THEOREM EntriesTile == Spec => []EntriesTileUnit
<1>1. Inv => EntriesTileUnit
  BY DEF Inv
<1> QED BY <1>1, Inductive, PTL

---------------------------------------------------------------------------
(* Tables that firmware wrote: both iterators follow the list of pieces.   *)

(* While the buffer stays, so does all that is read from it. *)
LEMMA SameBytes ==
  ASSUME buf' = buf
  PROVE  /\ Verdict' = Verdict /\ Total' = Total /\ FirstOffset' = FirstOffset
         /\ HeaderView' = HeaderView
         /\ \A s : IsUnit(s)' <=> IsUnit(s)
         /\ \A s : IsEntry(s)' <=> IsEntry(s)
         /\ \A s : UnitView(s)' = UnitView(s)
         /\ \A s : EntryView(s)' = EntryView(s)
         /\ \A s : NestedIn(s)' = NestedIn(s)
<1>1. Total' = Total /\ FirstOffset' = FirstOffset /\ HeaderView' = HeaderView
  BY DEF Total, FirstOffset, HeaderView
<1>2. Verdict' = Verdict
  BY DEF Verdict, Total, Checksum, FirstOffset, Signature
<1>3. \A s : IsUnit(s)' <=> IsUnit(s)
  BY DEF IsUnit, U16At, At
<1>4. \A s : IsEntry(s)' <=> IsEntry(s)
  BY DEF IsEntry, At
<1>5. \A s : NestedIn(s)' = NestedIn(s)
  BY DEF NestedIn, FixedPart, At
<1>6. \A s, off, n : Le(s, off, n)' = Le(s, off, n)
  BY DEF Le, At
<1>7. \A s, off : NameAt(s, off)' = NameAt(s, off)
  BY DEF NameAt, At
<1>8. \A s, off : U16At(s, off)' = U16At(s, off) /\ At(s, off)' = At(s, off)
  BY DEF U16At, At
<1>9. \A s : UnitView(s)' = UnitView(s)
  <2>1. \A s : /\ Drhd(s)' = Drhd(s) /\ Rmrr(s)' = Rmrr(s) /\ Atsr(s)' = Atsr(s)
               /\ Satc(s)' = Satc(s) /\ Sidp(s)' = Sidp(s) /\ Rhsa(s)' = Rhsa(s)
    BY <1>6 DEF Drhd, Rmrr, Atsr, Satc, Sidp, Rhsa, IncludeFlag
  <2>2. \A s : Andd(s)' = Andd(s) /\ Ivmd(s)' = Ivmd(s)
    BY <1>6, <1>7, <1>8 DEF Andd, Ivmd
  <2>3. \A s : Unknown(s)' = Unknown(s)
    BY DEF Unknown, At
  <2>4. \A s : Ivhd(s)' = Ivhd(s)
    BY <1>6, <1>8 DEF Ivhd, LeOption
  <2>5. \A s : RemapStruct(s)' = RemapStruct(s)
    BY <1>8, <2>1, <2>2, <2>3 DEF RemapStruct
  <2>6. \A s : Block(s)' = Block(s)
    BY <1>8, <2>2, <2>3, <2>4 DEF Block
  <2> QED BY <2>5, <2>6 DEF UnitView
<1>10. \A s : EntryView(s)' = EntryView(s)
  <2>1. \A s : PathPairs(s)' = PathPairs(s)
    BY DEF PathPairs, At
  <2>2. \A s : FirstSourceId(s)' = FirstSourceId(s)
    BY <1>8, <2>1 DEF FirstSourceId
  <2>3. \A s : DeviceScope(s)' = DeviceScope(s)
    BY <1>8, <2>1, <2>2 DEF DeviceScope
  <2>4. \A s : DeviceEntry(s)' = DeviceEntry(s)
    BY DEF DeviceEntry, U16At, At, DeviceType
  <2> QED BY <2>3, <2>4 DEF EntryView
<1> QED BY <1>1, <1>2, <1>3, <1>4, <1>5, <1>9, <1>10

(* `some' are the first pieces of `all', and `left' is what follows them;  *)
(* at the end there is nothing to follow.                                  *)
Track(some, all, lo, hi, left, over) ==
  /\ Len(some) <= Len(all)
  /\ \A i \in 1 .. Len(some) : some[i] = Piece(all, lo, i)
  /\ left = Slice(From(all, lo, Len(some) + 1), hi)
  /\ over => Len(some) = Len(all)

(* The structures written, the nested list of the current one, and the     *)
(* entries written there.                                                  *)
Written == buf.wrote.units

NestedHere == NestedIn(Piece(Written, FirstOffset, Len(units)))

EntriesHere == Written[Len(units)].entries

TrackUnits == Track(units, Written, FirstOffset, Total, rest, ended)

TrackEntries ==
  Track(entries, EntriesHere, NestedHere.lo, NestedHere.hi, inner, inner_ended)

(* Both iterators follow what was written. *)
Follow ==
  /\ AsWritten
  /\ result \in {"None", Verdict}
  /\ result = "Ok" => TrackUnits /\ (units # << >> => TrackEntries)

(* split_at at the end of the next piece. *)
LEMMA TrackCut ==
  ASSUME NEW some \in Seq(Slices), NEW all, NEW lo, NEW hi, NEW left, NEW over,
         Track(some, all, lo, hi, left, over), Len(all) \in Nat, Len(some) < Len(all),
         NEW mid, mid = lo + all[Len(some) + 1].end, Slice(left.lo, mid) \in Slices
  PROVE  Track(Append(some, Slice(left.lo, mid)), all, lo, hi, Slice(mid, left.hi), FALSE)
<1> DEFINE r == Append(some, Slice(left.lo, mid))
<1>1. /\ Len(some) \in Nat /\ Len(r) = Len(some) + 1
      /\ \A i \in 1 .. Len(some) : r[i] = some[i]
      /\ r[Len(some) + 1] = Slice(left.lo, mid)
  OBVIOUS
<1> HIDE DEF r
<1>2. left.lo = From(all, lo, Len(some) + 1) /\ left.hi = hi
  BY DEF Track, Slice
<1>3. From(all, lo, Len(r) + 1) = mid
  <2>1. Len(r) + 1 # 1 /\ (Len(r) + 1) - 1 = Len(some) + 1
    BY <1>1
  <2> QED BY <2>1 DEF From
<1>4. r[Len(some) + 1] = Piece(all, lo, Len(some) + 1)
  BY <1>1, <1>2 DEF Piece
<1>5. \A i \in 1 .. Len(r) : r[i] = Piece(all, lo, i)
  <2> TAKE i \in 1 .. Len(r)
  <2>1. CASE i \in 1 .. Len(some)
    BY <1>1, <2>1 DEF Track
  <2>2. CASE i = Len(some) + 1
    BY <1>4, <2>2
  <2> QED BY <1>1, <2>1, <2>2
<1>6. Len(r) <= Len(all)
  BY <1>1
<1>7. Track(r, all, lo, hi, Slice(mid, left.hi), FALSE)
  BY <1>2, <1>3, <1>5, <1>6 DEF Track
<1> QED BY <1>7 DEF r

(* What is left, and the next piece. *)
LEMMA TrackLeft ==
  ASSUME NEW some \in Seq(Slices), NEW all, NEW lo, NEW hi, NEW left \in Slices, NEW over,
         Track(some, all, lo, hi, left, over), Len(all) \in Nat,
         \A i \in 1 .. Len(all) : lo + all[i].end \in From(all, lo, i) .. hi
  PROVE  /\ Len(some) \in Nat /\ Len(some) <= Len(all)
         /\ left.lo = From(all, lo, Len(some) + 1) /\ left.hi = hi
         /\ Len(some) < Len(all) =>
              LET p == Piece(all, lo, Len(some) + 1)
              IN  /\ Len(some) + 1 \in 1 .. Len(all)
                  /\ p = Slice(left.lo, lo + all[Len(some) + 1].end)
                  /\ p.lo = left.lo /\ p.hi = lo + all[Len(some) + 1].end
                  /\ p.hi \in Nat /\ left.lo <= p.hi /\ p.hi <= left.hi
<1>1. Len(some) \in Nat /\ Len(some) <= Len(all)
  BY DEF Track
<1>2. left.lo = From(all, lo, Len(some) + 1) /\ left.hi = hi /\ left.lo \in Nat /\ left.hi \in Nat
  BY DEF Track, Slice, Slices
<1>3. ASSUME Len(some) < Len(all), NEW p, p = Piece(all, lo, Len(some) + 1)
      PROVE  /\ Len(some) + 1 \in 1 .. Len(all)
             /\ p = Slice(left.lo, lo + all[Len(some) + 1].end)
             /\ p.lo = left.lo /\ p.hi = lo + all[Len(some) + 1].end
             /\ p.hi \in Nat /\ left.lo <= p.hi /\ p.hi <= left.hi
  <2>1. Len(some) + 1 \in 1 .. Len(all)
    BY <1>1, <1>3
  <2>2. lo + all[Len(some) + 1].end \in left.lo .. left.hi
    BY <1>2, <2>1
  <2>3. p = Slice(left.lo, lo + all[Len(some) + 1].end)
    BY <1>2, <1>3 DEF Piece
  <2>4. p.lo = left.lo /\ p.hi = lo + all[Len(some) + 1].end
    BY <2>3 DEF Slice
  <2> QED BY <1>2, <2>1, <2>2, <2>3, <2>4
<1> QED BY <1>1, <1>2, <1>3

(* next() of the outer iterator finds a structure where one was written,   *)
(* all of it, and nothing anywhere else.                                   *)
LEMMA UnitFound ==
  ASSUME Inv, Follow, result = "Ok"
  PROVE  /\ Len(Written) \in Nat
         /\ HasUnit(rest) => /\ Len(units) < Len(Written)
                             /\ rest.lo + UnitLen(rest) = FirstOffset + Written[Len(units) + 1].end
         /\ ~ HasUnit(rest) => Len(units) = Len(Written)
<1>1. LaidOut(Written, FirstOffset, Total, IsUnit, UnitView)
  BY DEF Follow, AsWritten, Written
<1>2. /\ Len(Written) \in Nat
      /\ \A i \in 1 .. Len(Written) :
           FirstOffset + Written[i].end \in From(Written, FirstOffset, i) .. Total
      /\ \A i \in 1 .. Len(Written) : IsUnit(Piece(Written, FirstOffset, i))
      /\ \A n \in From(Written, FirstOffset, Len(Written) + 1) .. Total :
           ~ IsUnit(Slice(From(Written, FirstOffset, Len(Written) + 1), n))
  BY <1>1 DEF LaidOut
<1>3. units \in Seq(Slices) /\ rest \in Slices /\ TrackUnits
  BY DEF Inv, TypeOK, Follow
<1>4. rest.lo \in Nat /\ rest.hi \in Nat
  BY <1>3 DEF Slices
<1> DEFINE p == Piece(Written, FirstOffset, Len(units) + 1)
<1>5. /\ Len(units) \in Nat /\ Len(units) <= Len(Written)
      /\ rest.lo = From(Written, FirstOffset, Len(units) + 1) /\ rest.hi = Total
      /\ Len(units) < Len(Written) =>
           /\ Len(units) + 1 \in 1 .. Len(Written)
           /\ p = Slice(rest.lo, FirstOffset + Written[Len(units) + 1].end)
           /\ p.lo = rest.lo /\ p.hi = FirstOffset + Written[Len(units) + 1].end
           /\ p.hi \in Nat /\ rest.lo <= p.hi /\ p.hi <= rest.hi
  BY <1>2, <1>3, TrackLeft DEF TrackUnits
<1>6. Len(units) < Len(Written) => UnitLen(rest) = p.hi - rest.lo /\ p.hi - rest.lo >= 4
  <2> SUFFICES ASSUME Len(units) < Len(Written)
               PROVE  UnitLen(rest) = p.hi - rest.lo /\ p.hi - rest.lo >= 4
    OBVIOUS
  <2>1. IsUnit(p)
    BY <1>2, <1>5
  <2>2. p.lo = rest.lo
    BY <1>5
  <2> HIDE DEF p
  <2> QED BY <2>1, <2>2 DEF IsUnit, UnitLen, U16At, At, Size
<1> HIDE DEF p
<1>7. HasUnit(rest) => Len(units) < Len(Written)
  <2> SUFFICES ASSUME HasUnit(rest), Len(units) = Len(Written) PROVE FALSE
    BY <1>2, <1>5
  <2>1. UnitLen(rest) \in Nat /\ UnitLen(rest) >= 4 /\ UnitLen(rest) <= rest.hi - rest.lo
    <3>1. rest.hi <= buf.len
      BY DEF Inv, UnitsTileTable
    <3>2. 2 < Size(rest) /\ 3 < Size(rest)
      BY <1>4 DEF HasUnit, Size
    <3>3. At(rest, 2) \in 0 .. 255 /\ At(rest, 2 + 1) \in 0 .. 255
      BY <1>3, <3>1, <3>2, AtRange DEF Inv
    <3>4. ASSUME NEW a \in 0 .. 255, NEW b \in 0 .. 255 PROVE a + 256 * b \in Nat
      OBVIOUS
    <3>5. UnitLen(rest) \in Nat
      BY <3>3, <3>4 DEF UnitLen, U16At
    <3> QED BY <3>5 DEF HasUnit, Size
  <2>2. PICK n, s : n = rest.lo + UnitLen(rest) /\ s = Slice(rest.lo, n)
    OBVIOUS
  <2>3. s.lo = rest.lo /\ s.hi = n
    BY <2>2 DEF Slice
  <2>4. IsUnit(s)
    <3>1. Size(s) = UnitLen(rest)
      BY <1>4, <2>1, <2>2, <2>3 DEF Size
    <3>2. U16At(s, 2) = UnitLen(rest)
      BY <2>3 DEF UnitLen, U16At, At
    <3> QED BY <2>1, <3>1, <3>2 DEF IsUnit
  <2>5. n \in rest.lo .. Total
    BY <1>4, <1>5, <2>1, <2>2
  <2> QED BY <1>2, <1>5, <2>2, <2>4, <2>5
<1>8. HasUnit(rest) => rest.lo + UnitLen(rest) = FirstOffset + Written[Len(units) + 1].end
  BY <1>4, <1>5, <1>6, <1>7
<1>9. ~ HasUnit(rest) => Len(units) = Len(Written)
  <2> SUFFICES ASSUME Len(units) < Len(Written) PROVE HasUnit(rest)
    BY <1>2, <1>5
  <2> QED BY <1>4, <1>5, <1>6 DEF HasUnit, Size
<1> QED BY <1>2, <1>7, <1>8, <1>9

(* An entry at the front of a slice: what the reader finds, and what the   *)
(* format says.                                                            *)
LEMMA EntryIs ==
  ASSUME NEW s, s.lo \in Nat, s.hi \in Nat, NEW p, p.lo = s.lo, p.hi \in Nat, p.hi <= s.hi
  PROVE  /\ IsEntry(p) => HasEntry(s) /\ EntryLen(s) = p.hi - p.lo
         /\ HasEntry(s) /\ EntryLen(s) = p.hi - p.lo => IsEntry(p)
<1>1. Size(p) = p.hi - s.lo /\ Size(s) = s.hi - s.lo /\ Size(p) \in Int /\ Size(p) <= Size(s)
  BY DEF Size
<1>2. \A i : At(p, i) = At(s, i)
  BY DEF At
<1>3. CASE buf.format = "DMAR"
  BY <1>1, <1>2, <1>3 DEF IsEntry, HasEntry, EntryLen, HasScope
<1>4. CASE buf.format # "DMAR"
  <2>1. CASE At(s, 0) \in VariableTypes
    BY <1>1, <1>2, <1>4, <2>1
       DEF IsEntry, HasEntry, EntryLen, HasDeviceEntry, DeviceEntryLen, VariableTypes
  <2>2. CASE At(s, 0) \notin VariableTypes
    <3>1. At(s, 0) \in {3} \cup 40 .. 47 <=> At(s, 0) = 3 \/ At(s, 0) \in 40 .. 47
      OBVIOUS
    <3>2. DeviceEntryLen(s) = IF At(s, 0) = 3 \/ At(s, 0) \in 40 .. 47 THEN 8 ELSE 4
      BY <2>2 DEF DeviceEntryLen, Needed
    <3>3. IsEntry(p) <=> Size(p) >= 4 /\ Size(p) = DeviceEntryLen(s)
      BY <1>2, <1>4, <2>2, <3>1, <3>2 DEF IsEntry, VariableTypes
    <3>4. HasEntry(s) <=> Size(s) >= 1 /\ DeviceEntryLen(s) <= Size(s)
      BY <1>4, <2>2 DEF HasEntry, HasDeviceEntry
    <3>5. EntryLen(s) = DeviceEntryLen(s) /\ DeviceEntryLen(s) \in {4, 8}
      BY <1>4, <3>2 DEF EntryLen
    <3> QED BY <1>1, <3>3, <3>4, <3>5
  <2> QED BY <2>1, <2>2
<1> QED BY <1>3, <1>4

(* The same of the nested iterator. *)
LEMMA EntryFound ==
  ASSUME Inv, Follow, units # << >>
  PROVE  /\ Len(EntriesHere) \in Nat
         /\ ~ inner_ended /\ HasEntry(inner) =>
              /\ Len(entries) < Len(EntriesHere)
              /\ inner.lo + EntryLen(inner) = NestedHere.lo + EntriesHere[Len(entries) + 1].end
         /\ ~ HasEntry(inner) => Len(entries) = Len(EntriesHere)
<1>0. result = "Ok" /\ TrackUnits /\ TrackEntries
  BY DEF Inv, Opening, Follow
<1>1. LaidOut(EntriesHere, NestedHere.lo, NestedHere.hi, IsEntry, EntryView)
  <2>1. units \in Seq(Slices) /\ Len(units) <= Len(Written) /\ Len(Written) \in Nat
    BY <1>0, UnitFound DEF Inv, TypeOK, TrackUnits, Track
  <2>2. Len(units) \in 1 .. Len(Written)
    BY <2>1
  <2>3. Verdict = "Ok"
    BY <1>0 DEF Follow
  <2> QED BY <2>2, <2>3 DEF Follow, AsWritten, Written, EntriesHere, NestedHere
<1> DEFINE all == EntriesHere
           lo == NestedHere.lo
           hi == NestedHere.hi
           p == Piece(all, lo, Len(entries) + 1)
<1>2. /\ Len(all) \in Nat
      /\ \A i \in 1 .. Len(all) : lo + all[i].end \in From(all, lo, i) .. hi
      /\ \A i \in 1 .. Len(all) : IsEntry(Piece(all, lo, i))
      /\ \A n \in From(all, lo, Len(all) + 1) .. hi :
           ~ IsEntry(Slice(From(all, lo, Len(all) + 1), n))
  BY <1>1 DEF LaidOut
<1>3. entries \in Seq(Slices) /\ inner \in Slices /\ Track(entries, all, lo, hi, inner, inner_ended)
  BY <1>0 DEF Inv, TypeOK, TrackEntries
<1>4. inner.lo \in Nat /\ inner.hi \in Nat
  BY <1>3 DEF Slices
<1> HIDE DEF all, lo, hi
<1>5. /\ Len(entries) \in Nat /\ Len(entries) <= Len(all)
      /\ inner.lo = From(all, lo, Len(entries) + 1) /\ inner.hi = hi
      /\ Len(entries) < Len(all) =>
           /\ Len(entries) + 1 \in 1 .. Len(all)
           /\ p = Slice(inner.lo, lo + all[Len(entries) + 1].end)
           /\ p.lo = inner.lo /\ p.hi = lo + all[Len(entries) + 1].end
           /\ p.hi \in Nat /\ inner.lo <= p.hi /\ p.hi <= inner.hi
  BY <1>2, <1>3, TrackLeft
<1>6. Len(entries) < Len(all) => HasEntry(inner) /\ EntryLen(inner) = p.hi - inner.lo
  <2> SUFFICES ASSUME Len(entries) < Len(all)
               PROVE  HasEntry(inner) /\ EntryLen(inner) = p.hi - inner.lo
    OBVIOUS
  <2>1. IsEntry(p)
    BY <1>2, <1>5
  <2>2. p.lo = inner.lo /\ p.hi \in Nat /\ p.hi <= inner.hi
    BY <1>5
  <2> HIDE DEF p
  <2> QED BY <1>4, <2>1, <2>2, EntryIs
<1> HIDE DEF p
<1>7. ~ inner_ended /\ HasEntry(inner) => Len(entries) < Len(all)
  <2> SUFFICES ASSUME ~ inner_ended, HasEntry(inner), Len(entries) = Len(all) PROVE FALSE
    BY <1>2, <1>5
  <2>1. EntryLen(inner) \in Nat /\ EntryLen(inner) <= inner.hi - inner.lo
    BY EntryFits
  <2>2. PICK n, s : n = inner.lo + EntryLen(inner) /\ s = Slice(inner.lo, n)
    OBVIOUS
  <2>3. s.lo = inner.lo /\ s.hi = n /\ n \in Nat /\ n <= inner.hi /\ EntryLen(inner) = n - inner.lo
    BY <1>4, <2>1, <2>2 DEF Slice
  <2>4. IsEntry(s)
    BY <1>4, <2>3, EntryIs
  <2>5. n \in inner.lo .. hi
    BY <1>4, <1>5, <2>1, <2>2
  <2> QED BY <1>2, <1>5, <2>2, <2>4, <2>5
<1>8. ~ inner_ended /\ HasEntry(inner) => inner.lo + EntryLen(inner) = lo + all[Len(entries) + 1].end
  BY <1>4, <1>5, <1>6, <1>7
<1>9. ~ HasEntry(inner) => Len(entries) = Len(all)
  BY <1>2, <1>5, <1>6
<1> QED BY <1>2, <1>7, <1>8, <1>9 DEF all, lo

(* The firmware's side stays as it is. *)
LEMMA WrittenStays ==
  ASSUME buf' = buf
  PROVE  /\ AsWritten' <=> AsWritten
         /\ Written' = Written /\ FirstOffset' = FirstOffset /\ Total' = Total
         /\ Verdict' = Verdict
         /\ units' = units => NestedHere' = NestedHere /\ EntriesHere' = EntriesHere
<1>1. AsWritten' <=> AsWritten
  <2>1. \A all, lo, hi : LaidOut(all, lo, hi, IsUnit, UnitView)'
                         <=> LaidOut(all, lo, hi, IsUnit, UnitView)
    BY SameBytes DEF LaidOut
  <2>2. \A all, lo, hi : LaidOut(all, lo, hi, IsEntry, EntryView)'
                         <=> LaidOut(all, lo, hi, IsEntry, EntryView)
    BY SameBytes DEF LaidOut
  <2> QED BY <2>1, <2>2, SameBytes DEF AsWritten
<1>2. Written' = Written
  BY DEF Written
<1>3. units' = units => NestedHere' = NestedHere /\ EntriesHere' = EntriesHere
  <2> SUFFICES ASSUME units' = units
               PROVE  NestedHere' = NestedHere /\ EntriesHere' = EntriesHere
    OBVIOUS
  <2>1. EntriesHere' = EntriesHere
    BY <1>2 DEF EntriesHere
  <2>2. FirstOffset' = FirstOffset
    BY SameBytes
  <2>3. NestedHere' = NestedHere
    BY <1>2, <2>2, SameBytes DEF NestedHere
  <2> QED BY <2>1, <2>3
<1> QED BY <1>1, <1>2, <1>3, SameBytes

(* The outer iterator starts at the first structure. *)
LEMMA NewFollows == Inv /\ Follow /\ New => Follow'
<1> SUFFICES ASSUME Inv, Follow, New PROVE Follow'
  OBVIOUS
<1>1. buf' = buf /\ units' = units /\ units = << >> /\ result' = Verdict
  BY DEF Inv, Opening, New
<1>2. AsWritten' /\ Written' = Written /\ FirstOffset' = FirstOffset /\ Total' = Total /\ Verdict' = Verdict
  BY <1>1, WrittenStays DEF Follow
<1>3. Verdict = "Ok" => TrackUnits'
  <2> SUFFICES ASSUME Verdict = "Ok" PROVE TrackUnits'
    OBVIOUS
  <2>1. rest' = Slice(FirstOffset, Total) /\ ended' = FALSE
    BY DEF New, Body
  <2>2. Len(Written) \in Nat
    BY DEF Follow, AsWritten, LaidOut, Written
  <2>3. From(Written, FirstOffset, 1) = FirstOffset
    BY DEF From
  <2>4. Len(units') = 0
    BY <1>1
  <2> QED BY <1>2, <2>1, <2>2, <2>3, <2>4 DEF TrackUnits, Track
<1> QED BY <1>1, <1>2, <1>3 DEF Follow

(* The next structure was written next, and its list is at its beginning. *)
LEMMA NextUnitFollows == Inv /\ Follow /\ NextUnit => Follow'
<1> SUFFICES ASSUME Inv, Follow, NextUnit PROVE Follow'
  OBVIOUS
<1> DEFINE mid == rest.lo + UnitLen(rest)
           unit == Slice(rest.lo, mid)
<1>1. /\ units' = Append(units, unit) /\ rest' = Slice(mid, rest.hi)
      /\ inner' = NestedIn(unit) /\ entries' = << >> /\ inner_ended' = FALSE
      /\ buf' = buf /\ result' = result /\ ended' = ended /\ ended = FALSE
  <2>1. ended = FALSE
    BY Zenon DEF Inv, TypeOK, NextUnit
  <2> QED BY <2>1 DEF NextUnit
<1>2. /\ result = "Ok" /\ UnitLen(rest) \in Nat /\ UnitLen(rest) >= 4
      /\ rest.lo \in Nat /\ rest.hi \in Nat
  BY UnitFits DEF NextUnit
<1>3. /\ Len(Written) \in Nat /\ Len(units) < Len(Written)
      /\ mid = FirstOffset + Written[Len(units) + 1].end
  BY <1>2, UnitFound DEF NextUnit
<1>4. AsWritten' /\ Written' = Written /\ FirstOffset' = FirstOffset /\ Total' = Total /\ Verdict' = Verdict
  BY <1>1, WrittenStays DEF Follow
<1>5. units \in Seq(Slices) /\ Track(units, Written, FirstOffset, Total, rest, ended)
  BY <1>2 DEF Inv, TypeOK, Follow, TrackUnits
<1>6. unit \in Slices
  BY <1>2 DEF Slice, Slices
<1> HIDE DEF mid
<1>7. Track(units', Written, FirstOffset, Total, rest', FALSE)
  BY <1>1, <1>3, <1>5, <1>6, TrackCut
<1>8. TrackUnits'
  BY <1>1, <1>4, <1>7 DEF TrackUnits
<1>9. TrackEntries'
  <2>1. Len(units') \in 1 .. Len(Written) /\ unit = Piece(Written, FirstOffset, Len(units'))
    <3>1. Len(units) \in Nat /\ Len(units') = Len(units) + 1 /\ units'[Len(units')] = unit
      BY <1>1, <1>5, <1>6
    <3> QED BY <1>3, <1>7, <3>1 DEF Track
  <2>2. inner' = NestedHere'
    <3>1. NestedHere' = NestedIn(Piece(Written, FirstOffset, Len(units')))
      BY <1>1, <1>4, SameBytes DEF NestedHere, Piece, From, Slice
    <3> QED BY <1>1, <2>1, <3>1
  <2>3. Len(EntriesHere') \in Nat
    <3>1. Verdict = "Ok"
      BY <1>2 DEF Follow
    <3> QED BY <1>4, <2>1, <3>1 DEF Follow, AsWritten, LaidOut, EntriesHere, Written
  <2>4. inner' = Slice(inner'.lo, inner'.hi)
    BY <1>1 DEF NestedIn, Slice, Empty
  <2>5. From(EntriesHere', NestedHere'.lo, 1) = NestedHere'.lo
    BY DEF From
  <2>6. Len(entries') = 0
    BY <1>1
  <2> QED BY <1>1, <2>2, <2>3, <2>4, <2>5, <2>6 DEF TrackEntries, Track
<1> QED BY <1>1, <1>2, <1>4, <1>8, <1>9 DEF Follow

(* The next entry was written next. *)
LEMMA NextEntryFollows == Inv /\ Follow /\ NextEntry => Follow'
<1> SUFFICES ASSUME Inv, Follow, NextEntry PROVE Follow'
  OBVIOUS
<1> DEFINE mid == inner.lo + EntryLen(inner)
<1>1. /\ entries' = Append(entries, Slice(inner.lo, mid)) /\ inner' = Slice(mid, inner.hi)
      /\ buf' = buf /\ result' = result /\ rest' = rest /\ units' = units
      /\ ended' = ended /\ inner_ended' = inner_ended /\ ~ inner_ended /\ HasEntry(inner)
  BY DEF NextEntry
<1>2. /\ units # << >> /\ EntryLen(inner) \in Nat /\ inner.lo \in Nat /\ inner.hi \in Nat
  BY <1>1, EntryFits
<1>3. /\ Len(EntriesHere) \in Nat /\ Len(entries) < Len(EntriesHere)
      /\ mid = NestedHere.lo + EntriesHere[Len(entries) + 1].end
  BY <1>1, <1>2, EntryFound
<1>4. /\ AsWritten' /\ Written' = Written /\ FirstOffset' = FirstOffset /\ Total' = Total
      /\ Verdict' = Verdict /\ NestedHere' = NestedHere /\ EntriesHere' = EntriesHere
  BY <1>1, WrittenStays DEF Follow
<1>5. /\ entries \in Seq(Slices) /\ result = "Ok" /\ TrackUnits
      /\ Track(entries, EntriesHere, NestedHere.lo, NestedHere.hi, inner, inner_ended)
  BY <1>2 DEF Inv, TypeOK, Opening, Follow, TrackEntries
<1>6. Slice(inner.lo, mid) \in Slices
  BY <1>2 DEF Slice, Slices
<1> HIDE DEF mid
<1>7. Track(entries', EntriesHere, NestedHere.lo, NestedHere.hi, inner', FALSE)
  BY <1>1, <1>3, <1>5, <1>6, TrackCut
<1>8. TrackEntries'
  <2>1. ~ inner_ended'
    BY <1>1
  <2> QED BY <1>4, <1>7, <2>1 DEF TrackEntries, Track
<1>9. TrackUnits'
  BY <1>1, <1>4, <1>5 DEF TrackUnits
<1> QED BY <1>1, <1>4, <1>5, <1>8, <1>9 DEF Follow

(* An iterator that ends has yielded all that was written. *)
LEMMA EndFollows ==
  Inv /\ Follow /\ (EndOfUnits \/ EndOfEntries \/ UNCHANGED vars) => Follow'
<1> SUFFICES ASSUME Inv, Follow, EndOfUnits \/ EndOfEntries \/ UNCHANGED vars PROVE Follow'
  OBVIOUS
<1>1. /\ buf' = buf /\ result' = result /\ rest' = rest /\ units' = units
      /\ inner' = inner /\ entries' = entries
  BY DEF EndOfUnits, EndOfEntries, vars
<1>2. /\ AsWritten' /\ Written' = Written /\ FirstOffset' = FirstOffset /\ Total' = Total
      /\ Verdict' = Verdict /\ NestedHere' = NestedHere /\ EntriesHere' = EntriesHere
  BY <1>1, WrittenStays DEF Follow
<1>3. result = "Ok" => TrackUnits'
  <2> SUFFICES ASSUME result = "Ok" PROVE TrackUnits'
    OBVIOUS
  <2>1. TrackUnits
    BY DEF Follow
  <2>2. ended' => ended \/ ~ HasUnit(rest)
    BY DEF EndOfUnits, EndOfEntries, vars
  <2>3. ended' => Len(units) = Len(Written)
    BY <2>1, <2>2, UnitFound DEF TrackUnits, Track
  <2> QED BY <1>1, <1>2, <2>1, <2>3 DEF TrackUnits, Track
<1>4. result = "Ok" /\ units # << >> => TrackEntries'
  <2> SUFFICES ASSUME result = "Ok", units # << >> PROVE TrackEntries'
    OBVIOUS
  <2>1. TrackEntries
    BY DEF Follow
  <2>2. inner_ended' => inner_ended \/ ~ HasEntry(inner)
    BY DEF EndOfUnits, EndOfEntries, vars
  <2>3. inner_ended' => Len(entries) = Len(EntriesHere)
    BY <2>1, <2>2, EntryFound DEF TrackEntries, Track
  <2> QED BY <1>1, <1>2, <2>1, <2>3 DEF TrackEntries, Track
<1> QED BY <1>1, <1>2, <1>3, <1>4 DEF Follow

(* In whatever buffer firmware wrote a table, of any number of structures  *)
(* and entries, laid out as AsWritten says, the parsers report the table:  *)
(* each structure and entry once, in order, none skipped.                  *)
THEOREM TablesReported == Spec /\ AsWritten => []ReportsWhatWasWritten
<1>1. Init /\ AsWritten => Follow
  BY DEF Init, Follow
<1>2. Inv /\ Follow /\ [Next]_vars => Follow'
  BY NewFollows, NextUnitFollows, NextEntryFollows, EndFollows DEF Next, Done
<1>3. Inv /\ Follow => ReportsWhatWasWritten
  <2> SUFFICES ASSUME Inv, Follow PROVE ReportsWhatWasWritten
    OBVIOUS
  <2>1. result \in {"None", buf.wrote.result} /\ (result = "Ok" => HeaderView = buf.wrote.header)
    BY DEF Follow, AsWritten
  <2>2. ASSUME result = "Ok" PROVE Shows(units, UnitView, Written, ended)
    <3>1. TrackUnits /\ LaidOut(Written, FirstOffset, Total, IsUnit, UnitView)
      BY <2>2 DEF Follow, AsWritten, Written
    <3>2. units \in Seq(Slices)
      BY DEF Inv, TypeOK
    <3>3. \A i \in 1 .. Len(Written) : UnitView(Piece(Written, FirstOffset, i)) = Written[i].view
      BY <3>1 DEF LaidOut
    <3>4. Len(Written) \in Nat
      BY <3>1 DEF LaidOut
    <3>5. \A i \in 1 .. Len(units) : UnitView(units[i]) = Written[i].view
      BY <3>1, <3>2, <3>3, <3>4 DEF TrackUnits, Track
    <3> QED BY <3>1, <3>5 DEF TrackUnits, Track, Shows
  <2>3. ASSUME result = "Ok", units # << >>
        PROVE  Shows(entries, EntryView, EntriesHere, inner_ended)
    <3>1. TrackUnits /\ TrackEntries /\ Verdict = "Ok"
      BY <2>3 DEF Follow
    <3>2. units \in Seq(Slices) /\ entries \in Seq(Slices) /\ Len(Written) \in Nat
      BY <2>3, UnitFound DEF Inv, TypeOK
    <3>3. Len(units) \in 1 .. Len(Written)
      BY <2>3, <3>1, <3>2 DEF TrackUnits, Track
    <3>4. LaidOut(EntriesHere, NestedHere.lo, NestedHere.hi, IsEntry, EntryView)
      BY <3>1, <3>3 DEF Follow, AsWritten, Written, EntriesHere, NestedHere
    <3>5. /\ Len(EntriesHere) \in Nat
          /\ \A i \in 1 .. Len(EntriesHere) :
               EntryView(Piece(EntriesHere, NestedHere.lo, i)) = EntriesHere[i].view
      BY <3>4 DEF LaidOut
    <3>6. \A i \in 1 .. Len(entries) : EntryView(entries[i]) = EntriesHere[i].view
      BY <3>1, <3>2, <3>5 DEF TrackEntries, Track
    <3> QED BY <3>1, <3>6 DEF TrackEntries, Track, Shows
  <2> QED BY <2>1, <2>2, <2>3 DEF ReportsWhatWasWritten, Written, EntriesHere
<1> QED BY <1>1, <1>2, <1>3, Inductive, PTL DEF Spec
===========================================================================
