--------------------------- MODULE MCTableParser ---------------------------
(***************************************************************************)
(* Tables as firmware lays them out: every list of up to three structures  *)
(* out of a stock that has each type, short ones, nested lists with a bad  *)
(* entry in the middle and structures with a bad length; and one table per *)
(* fault of the header.  A piece of a table is its bytes together with the *)
(* view and the nested views a reader of the format expects of it.         *)
(***************************************************************************)
EXTENDS TableViews, TLC

LE16(n) == <<n % 256, n \div 256>>
WordOf(bytes) == UNION {{8 * (i - 1) + b : b \in BitsOf(bytes[i])} : i \in DOMAIN bytes}
Zeros(n) == [i \in 1 .. n |-> 0]

RECURSIVE Join(_)
Join(pieces) == IF pieces = << >> THEN << >> ELSE Head(pieces).bytes \o Join(Tail(pieces))

(* The pieces up to the first whose length cannot be believed, and where   *)
(* each one ends.                                                          *)
RECURSIVE SoundFrom(_, _)
SoundFrom(pieces, at) ==
  IF pieces = << >> \/ Head(pieces).broken THEN << >>
  ELSE LET end == at + Len(Head(pieces).bytes)
       IN  <<[view |-> Head(pieces).view, entries |-> Head(pieces).entries, end |-> end]>>
             \o SoundFrom(Tail(pieces), end)
Sound(pieces) == SoundFrom(pieces, 0)

Broken(bytes) == [bytes |-> bytes, broken |-> TRUE]
Leaf(bytes, view) == [bytes |-> bytes, broken |-> FALSE, view |-> view, entries |-> << >>]
Unit(type, byte1, fixed, list, view) ==
  [bytes |-> <<type, byte1>> \o LE16(4 + Len(fixed) + Len(Join(list))) \o fixed \o Join(list),
   broken |-> FALSE, view |-> view, entries |-> Sound(list)]

Seg == <<52, 18>>
Base == <<0, 16, 217, 254, 1, 2, 4, 128>>
Limit == <<255, 31, 217, 254, 1, 2, 4, 129>>

---------------------------------------------------------------------------
Scope(type, path, pairs, sid) ==
  Leaf(<<type, 6 + Len(path), 33, 67, 9, 5>> \o path,
       [ty |-> type, bus |-> 5, enumeration_id |-> 9, flags |-> 33 + 256 * 67,
        path |-> pairs, first_source_id |-> sid])

Endpoint == Scope(1, <<31, 7>>, <<<<31, 7>>>>, {0, 1, 2, 3, 4, 5, 6, 7, 8, 10})
Bridge == Scope(2, <<2, 0, 1, 3>>, <<<<2, 0>>, <<1, 3>>>>, {4, 8, 10})
Hpet == Scope(4, <<1>>, << >>, NoValue)
ShortScope == Broken(<<3, 5, 0, 0, 1, 2, 3, 4>>)
LongScope == Broken(<<3, 9, 0, 0, 1, 2, 3, 4>>)

DrhdUnit(list) ==
  Unit(0, 0, <<255, 243>> \o Seg \o Base, list,
       [ty |-> "Drhd", include_pci_all |-> {0}, register_size_order |-> {0, 1},
        segment |-> WordOf(Seg), register_base |-> WordOf(Base)])

WithSeg(type, name, flag, list) ==
  Unit(type, 0, <<1, 255>> \o Seg, list, flag @@ [ty |-> name, segment |-> WordOf(Seg)])

Dmar ==
  { DrhdUnit(<<Endpoint, Hpet, Bridge>>),
    DrhdUnit(<<Bridge, ShortScope, Endpoint>>),
    DrhdUnit(<<Endpoint, LongScope>>),
    \* cut inside the base address
    Unit(0, 0, <<254, 0>> \o Seg \o <<7, 7>>, << >>,
         [ty |-> "Drhd", include_pci_all |-> {}, register_size_order |-> {},
          segment |-> WordOf(Seg), register_base |-> {}]),
    Unit(1, 0, <<0, 0>> \o Seg \o Base \o Limit, <<Endpoint>>,
         [ty |-> "Rmrr", segment |-> WordOf(Seg), base |-> WordOf(Base), limit |-> WordOf(Limit)]),
    WithSeg(2, "Atsr", [all_ports |-> {0}], <<Bridge>>),
    WithSeg(5, "Satc", [atc_required |-> {0}], << >>),
    WithSeg(6, "Sidp", << >>, <<Hpet, Endpoint>>),
    Unit(3, 0, <<0, 0, 0, 0, 1, 2, 3, 4>> \o Base \o <<5, 6, 7, 8>>, << >>,
         [ty |-> "Rhsa", segment |-> WordOf(<<1, 2, 3, 4>>), base |-> WordOf(Base),
          proximity_domain |-> WordOf(<<5, 6, 7, 8>>)]),
    Unit(4, 0, <<0, 0, 0, 77>> \o Seg \o <<65, 66, 0, 67>>, << >>,
         [ty |-> "Andd", acpi_device_number |-> WordOf(<<77>>), segment |-> WordOf(Seg),
          object_name |-> <<65, 66>>]),
    Unit(4, 0, <<0, 0, 0>>, << >>,
         [ty |-> "Andd", acpi_device_number |-> {}, segment |-> {}, object_name |-> << >>]),
    Unit(9, 1, <<2, 3>>, << >>, [ty |-> 9, raw |-> <<9, 1, 6, 0, 2, 3>>]),
    Broken(Zeros(4)), Broken(<<0, 0, 3, 0>>), Broken(<<1, 0, 200, 0>>), Broken(<<1, 0, 255>>) }

---------------------------------------------------------------------------
All == Leaf(<<1, 0, 6, 7>>, [ty |-> <<"All", 0>>, data |-> 6, data2 |-> 7])
Select == Leaf(<<2, 0, 8, 9>>, [ty |-> <<"Select", 0>>, data |-> 8, data2 |-> 9])
Alias ==
  Leaf(<<3, 0, 1, 2, 0, 0, 3, 4>>, [ty |-> <<"AliasSelect", 0>>, bus |-> 1, devfn |-> 2, source_id |-> 1027])
Lapic ==
  Leaf(<<47, 0, 1, 2, 0, 0, 3, 4>>, [ty |-> <<"Reserved", 47>>, bus |-> 1, devfn |-> 2, source_id |-> 1027])
Pad == Leaf(<<0, 0, 0, 0>>, [ty |-> <<"Reserved", 0>>, data |-> 0, data2 |-> 0])
Special ==
  Leaf(<<66, 5, 1, 2, 3>>, [ty |-> <<"Special", 0>>, raw |-> <<66, 5, 1, 2, 3>>])
AcpiHid ==
  Leaf(<<72, 4, 1, 2>>, [ty |-> <<"AcpiHid", 0>>, raw |-> <<72, 4, 1, 2>>])
ShortSpecial == Broken(<<64, 3, 1, 2>>)
LoneByte == Broken(<<72>>)
HalfAlias == Broken(<<3, 0, 1, 2>>)

IvhdView(name, ext) ==
  [ty |-> name, flags |-> 3, iommu_id |-> 7, segment |-> 52 + 256 * 18,
   base_address |-> WordOf(Base), device_range |-> <<1, 2>>,
   capability |-> WordOf(<<255, 24, 0, 1>>), extended_features |-> ext]

IvhdFixed == <<7>> \o Seg \o Base \o <<1, 2, 255, 24, 0, 1>>

Ivrs ==
  { \* the 21 bytes of the example in the documentation of ivrs.rs
    Unit(16, 3, IvhdFixed, << >>, IvhdView("IvhdType10", NoValue)),
    Unit(16, 3, IvhdFixed \o Zeros(3), <<All, Alias, Select, Pad>>, IvhdView("IvhdType10", NoValue)),
    Unit(16, 3, IvhdFixed \o Zeros(3), <<Select, ShortSpecial, All>>, IvhdView("IvhdType10", NoValue)),
    Unit(17, 3, IvhdFixed \o <<1, 2, 3, 4>> \o Zeros(3), <<Special, AcpiHid, Lapic>>,
         IvhdView("IvhdType11", WordOf(<<1, 2, 3, 4>>))),
    Unit(64, 3, IvhdFixed \o <<1, 2, 3, 4>> \o Zeros(3), <<AcpiHid, HalfAlias>>,
         IvhdView("IvhdType40", WordOf(<<1, 2, 3, 4>>))),
    Unit(64, 3, IvhdFixed \o <<1, 2, 3, 4>> \o Zeros(3), <<Special, LoneByte>>,
         IvhdView("IvhdType40", WordOf(<<1, 2, 3, 4>>))),
    Unit(32, 1, Seg \o <<0, 0>> \o Base \o Limit, << >>,
         [ty |-> "Ivmd", flags |-> 1, segment |-> 52 + 256 * 18, base |-> WordOf(Base),
          length |-> WordOf(Limit)]),
    Unit(32, 1, Seg \o <<0, 0>> \o Base, << >>,
         [ty |-> "Ivmd", flags |-> 1, segment |-> 52 + 256 * 18, base |-> WordOf(Base), length |-> {}]),
    Unit(80, 1, <<2>>, << >>, [ty |-> 80, raw |-> <<80, 1, 5, 0, 2>>]),
    Broken(Zeros(4)), Broken(<<16, 0, 3, 0>>), Broken(<<16, 0, 200, 0>>), Broken(<<32, 0, 255>>) }

---------------------------------------------------------------------------
RECURSIVE Sum(_)
Sum(bytes) == IF bytes = << >> THEN 0 ELSE (Head(bytes) + Sum(Tail(bytes))) % 256

Magic(format) == IF format = "DMAR" THEN <<68, 77, 65, 82>> ELSE <<73, 86, 82, 83>>

(* Header and body with a given signature and length, checksum short by    *)
(* `off'.                                                                  *)
Bytes(format, magic, length, off, body) ==
  LET front == magic \o LE16(length) \o <<0, 0, 1>>
      back  == <<65, 77, 68, 32, 32, 33>> \o Zeros(20)
                 \o (IF format = "DMAR" THEN <<51, 253>> \o Zeros(10) ELSE Zeros(8)) \o body
  IN  front \o <<(256 - Sum(front \o back) + off) % 256>> \o back

Image(format, bytes, verdict, list) ==
  [format |-> format, len |-> Len(bytes), byte |-> [i \in 0 .. (Len(bytes) - 1) |-> bytes[i + 1]],
   wrote |-> [result |-> verdict, units |-> Sound(list),
              header |->
                IF format = "IVRS" THEN [revision |-> 1, checksum |-> bytes[10]]
                ELSE [revision |-> 1, oem_id |-> <<65, 77, 68, 32, 32, 33>>,
                      host_address_width |-> 52, flags |-> {0}]]]

HeaderLen(format) == IF format = "DMAR" THEN 48 ELSE 44

Good(format, list) ==
  Image(format,
        Bytes(format, Magic(format), HeaderLen(format) + Len(Join(list)), 0, Join(list)),
        "Ok", list)

(* One fault of the header each, and a buffer longer than the table. *)
Bad(format, list) ==
  LET body == Join(list)
      n    == HeaderLen(format) + Len(body)
      m    == Magic(format)
  IN  { Image(format, [i \in 1 .. (HeaderLen(format) - 1) |->
                         Bytes(format, m, HeaderLen(format) - 1, 0, << >>)[i]], "TooShort", list),
        Image(format, Bytes(format, Magic(IF format = "DMAR" THEN "IVRS" ELSE "DMAR"), n, 0, body),
              "BadSignature", list),
        Image(format, Bytes(format, m, n + 1, 0, body), "BadLength", list),
        Image(format, Bytes(format, m, HeaderLen(format) - 1, 0, body), "BadLength", list),
        Image(format, Bytes(format, m, n, 1, body), "BadChecksum", list),
        Image(format, Bytes(format, m, n, 0, body) \o body, "Ok", list) }

Lists(stock) == {<< >>} \cup {<<u>> : u \in stock} \cup {<<u, v>> : u \in stock, v \in stock}
  \cup {<<u, v, w>> : u \in stock, v \in stock, w \in stock}

MCBuffers ==
  {Good("DMAR", list) : list \in Lists(Dmar)} \cup {Good("IVRS", list) : list \in Lists(Ivrs)}
    \cup Bad("DMAR", <<DrhdUnit(<<Endpoint>>)>>)
    \cup Bad("IVRS", <<Unit(16, 3, IvhdFixed \o Zeros(3), <<All>>, IvhdView("IvhdType10", NoValue))>>)

(* The run stops at a buffer that is not laid out as the theorem on        *)
(* reports, TablesReported, assumes.                                       *)
MCInit == Init /\ Assert(AsWritten, <<"not as written", buf>>)

MCSpec == MCInit /\ [][Next]_vars /\ Fairness
===========================================================================
