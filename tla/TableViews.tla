----------------------------- MODULE TableViews -----------------------------
(***************************************************************************)
(* What the accessors of the parsed structures say about the slices that   *)
(* TableParser yields.  A view is the record of all that a caller can ask  *)
(* of a structure or of an entry.                                          *)
(***************************************************************************)
EXTENDS TableParser

(* An Option that is None. *)
NoValue == "None"

(* raw.get(off..off + n)? of an accessor that returns an Option. *)
LeOption(s, off, n) == IF off + n <= Size(s) THEN Le(s, off, n) ELSE NoValue

---------------------------------------------------------------------------
(* dmar.rs *)

(* The flag of several structures. *)
IncludeFlag(s) == Le(s, 4, 1) \cap {0}

Drhd(s) ==
  [ty |-> "Drhd", include_pci_all |-> IncludeFlag(s),
   register_size_order |-> Le(s, 5, 1) \cap 0 .. 3,
   segment |-> Le(s, 6, 2), register_base |-> Le(s, 8, 8)]

Rmrr(s) ==
  [ty |-> "Rmrr", segment |-> Le(s, 6, 2), base |-> Le(s, 8, 8), limit |-> Le(s, 16, 8)]

Atsr(s) == [ty |-> "Atsr", all_ports |-> IncludeFlag(s), segment |-> Le(s, 6, 2)]

Satc(s) == [ty |-> "Satc", atc_required |-> IncludeFlag(s), segment |-> Le(s, 6, 2)]

Sidp(s) == [ty |-> "Sidp", segment |-> Le(s, 6, 2)]

Rhsa(s) ==
  [ty |-> "Rhsa", segment |-> Le(s, 8, 4), base |-> Le(s, 12, 8),
   proximity_domain |-> Le(s, 20, 4)]

(* The bytes from off on, up to a NUL or the end of the structure. *)
NameAt(s, off) ==
  LET stop == {n \in off .. Size(s) : n = Size(s) \/ At(s, n) = 0}
      end  == IF stop = {} THEN off ELSE CHOOSE n \in stop : \A m \in stop : n <= m
  IN  [i \in 1 .. (end - off) |-> At(s, off + i - 1)]

Andd(s) ==
  [ty |-> "Andd", acpi_device_number |-> Le(s, 7, 1), segment |-> Le(s, 8, 2),
   object_name |-> NameAt(s, 10)]

Unknown(s) == [ty |-> At(s, 0), raw |-> [i \in 1 .. Size(s) |-> At(s, i - 1)]]

RemapStruct(s) ==
  CASE At(s, 0) = 0 -> Drhd(s)
    [] At(s, 0) = 1 -> Rmrr(s)
    [] At(s, 0) = 2 -> Atsr(s)
    [] At(s, 0) = 3 -> Rhsa(s)
    [] At(s, 0) = 4 -> Andd(s)
    [] At(s, 0) = 5 -> Satc(s)
    [] At(s, 0) = 6 -> Sidp(s)
    [] OTHER -> Unknown(s)

(* path_pairs(): chunks_exact(2) drops a last odd byte. *)
PathPairs(s) ==
  [i \in 1 .. ((Size(s) - 6) \div 2) |-> <<At(s, 4 + 2 * i), At(s, 5 + 2 * i)>>]

FirstSourceId(s) ==
  IF PathPairs(s) = << >> THEN NoValue
  ELSE ShiftLeft(BitsOf(At(s, 5)), 8) \cup ShiftLeft(BitsOf(PathPairs(s)[1][1]), 3)
         \cup (BitsOf(PathPairs(s)[1][2]) \cap 0 .. 2)

(* ScopeType::from(u8): code 1 to 5, the others Reserved. *)
DeviceScope(s) ==
  [ty |-> At(s, 0), bus |-> At(s, 5), enumeration_id |-> At(s, 4), flags |-> U16At(s, 2),
   path |-> PathPairs(s), first_source_id |-> FirstSourceId(s)]

---------------------------------------------------------------------------
(* ivrs.rs.  The fields of bytes 4 to 6 are indexed without a check: the   *)
(* views of shorter blocks (length 4, 5, 6) are never asked for here.      *)

Ivhd(s) ==
  [ty |-> IF At(s, 0) = 16 THEN "IvhdType10" ELSE IF At(s, 0) = 17 THEN "IvhdType11" ELSE "IvhdType40",
   flags |-> At(s, 1), iommu_id |-> At(s, 4), segment |-> U16At(s, 5),
   base_address |-> Le(s, 7, 8),
   device_range |-> IF Size(s) < 17 THEN NoValue ELSE <<At(s, 15), At(s, 16)>>,
   capability |-> LeOption(s, 17, 4),
   extended_features |-> IF At(s, 0) = 16 THEN NoValue ELSE LeOption(s, 21, 4)]

Ivmd(s) ==
  [ty |-> "Ivmd", flags |-> At(s, 1), segment |-> U16At(s, 4),
   base |-> Le(s, 8, 8), length |-> Le(s, 16, 8)]

(* EntryType::from and BlockIter::next. *)
Block(s) ==
  CASE At(s, 0) \in {16, 17, 64} -> Ivhd(s)
    [] At(s, 0) = 32 -> Ivmd(s)
    [] OTHER -> Unknown(s)

(* DeviceType::from; Reserved keeps the code. *)
DeviceType(code) ==
  CASE code = 1 -> <<"All", 0>>
    [] code = 2 -> <<"Select", 0>>
    [] code = 3 -> <<"AliasSelect", 0>>
    [] code \in 64 .. 66 -> <<"Special", 0>>
    [] code = 72 -> <<"AcpiHid", 0>>
    [] OTHER -> <<"Reserved", code>>

DeviceEntry(s) ==
  IF At(s, 0) \in VariableTypes
  THEN [ty |-> DeviceType(At(s, 0)), raw |-> [i \in 1 .. Size(s) |-> At(s, i - 1)]]
  ELSE IF Size(s) = 4
       THEN [ty |-> DeviceType(At(s, 0)), data |-> At(s, 2), data2 |-> At(s, 3)]
       ELSE [ty |-> DeviceType(At(s, 0)), bus |-> At(s, 2), devfn |-> At(s, 3),
             source_id |-> U16At(s, 6)]

---------------------------------------------------------------------------
UnitView(s) == IF buf.format = "DMAR" THEN RemapStruct(s) ELSE Block(s)

EntryView(s) == IF buf.format = "DMAR" THEN DeviceScope(s) ELSE DeviceEntry(s)

(* The accessors of the header: revision() and checksum() of an IVRS       *)
(* table; revision(), oem_id(), host_address_width() (which wraps in a     *)
(* release build), intr_remap_required() and x2apic_opt_out() of a DMAR    *)
(* table.                                                                  *)
HeaderView ==
  IF buf.format = "IVRS"
  THEN [revision |-> buf.byte[8], checksum |-> buf.byte[9]]
  ELSE [revision |-> buf.byte[8],
        oem_id |-> [i \in 1 .. 6 |-> buf.byte[9 + i]],
        host_address_width |-> (buf.byte[36] + 1) % 256,
        flags |-> BitsOf(buf.byte[37]) \cap {0, 1}]

---------------------------------------------------------------------------
(* A structure and an entry as the formats define them, length included:   *)
(* what firmware writes.                                                   *)
IsUnit(s) == Size(s) >= 4 /\ U16At(s, 2) = Size(s)

IsEntry(s) ==
  IF buf.format = "DMAR" THEN Size(s) >= 6 /\ At(s, 1) = Size(s)
  ELSE /\ Size(s) >= 4
       /\ Size(s) = CASE At(s, 0) \in {64, 65, 66, 72} -> At(s, 1)
                      [] At(s, 0) \in {3} \cup 40 .. 47 -> 8
                      [] OTHER -> 4

(* Piece i of a list that begins at lo; `end' counts from there. *)
From(all, lo, i) == IF i = 1 THEN lo ELSE lo + all[i - 1].end

Piece(all, lo, i) == Slice(From(all, lo, i), lo + all[i].end)

(* The pieces lie one behind the other, the accessors show of each what    *)
(* was written, and what follows the last one before hi is no piece.       *)
LaidOut(all, lo, hi, Is(_), View(_)) ==
  /\ Len(all) \in Nat
  /\ \A i \in 1 .. Len(all) :
       /\ lo + all[i].end \in From(all, lo, i) .. hi
       /\ Is(Piece(all, lo, i)) /\ View(Piece(all, lo, i)) = all[i].view
  /\ \A n \in From(all, lo, Len(all) + 1) .. hi : ~ Is(Slice(From(all, lo, Len(all) + 1), n))

(* The buffer holds the table that firmware wrote, in the layout in which  *)
(* the accessors read it: `wrote' is what `new', the header's accessors    *)
(* and those of every piece, each asked by itself, are expected to say.    *)
AsWritten ==
  /\ Verdict = buf.wrote.result
  /\ Verdict = "Ok" =>
       /\ HeaderView = buf.wrote.header
       /\ LaidOut(buf.wrote.units, FirstOffset, Total, IsUnit, UnitView)
       /\ \A i \in 1 .. Len(buf.wrote.units) :
            LET nested == NestedIn(Piece(buf.wrote.units, FirstOffset, i))
            IN  LaidOut(buf.wrote.units[i].entries, nested.lo, nested.hi, IsEntry, EntryView)

(* `some', a growing list of slices, shows what `all' says was written     *)
(* there, and all of it once the iterator has ended.                       *)
Shows(some, View(_), all, over) ==
  /\ Len(some) <= Len(all)
  /\ \A i \in 1 .. Len(some) : View(some[i]) = all[i].view
  /\ over => Len(some) = Len(all)

(* A buffer in which the firmware wrote a table is taken for that table:   *)
(* the verdict of `new', the header, every structure with its fields and   *)
(* every entry of its list come out as they were written, in that order,   *)
(* none is skipped, and a structure or an entry whose length is wrong ends *)
(* its own list and no other.  The tables are in the layout the accessors  *)
(* and the constants of `new' have, which two comments contradict: an RHSA *)
(* has 24 bytes here, for its proximity domain is read at byte 20          *)
(* (dmar.rs:360 says 20 bytes in all), and an IVRS table of 44 bytes is    *)
(* not too short (ivrs.rs:46 says 48).                                     *)
ReportsWhatWasWritten ==
  /\ result \in {"None", buf.wrote.result}
  /\ result = "Ok" =>
       /\ HeaderView = buf.wrote.header
       /\ Shows(units, UnitView, buf.wrote.units, ended)
       /\ units # << >> =>
            Shows(entries, EntryView, buf.wrote.units[Len(units)].entries, inner_ended)

(* Both loops of a caller end on every buffer, zero lengths included.      *)
Terminates == <>(result # "None" /\ ended /\ inner_ended)
===========================================================================
