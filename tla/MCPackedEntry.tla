--------------------------- MODULE MCPackedEntry ---------------------------
(***************************************************************************)
(* PackedEntry over the layouts of EntryLayouts.                           *)
(***************************************************************************)
EXTENDS PackedEntry, EntryLayouts

(* Arguments that tell masks apart: nothing, every bit the argument type   *)
(* has, the top bit of what the setter writes, and the top bit of the      *)
(* documented field.                                                       *)
Top(bits) == {b \in bits : \A c \in bits : b >= c}
Patterns(f) == {{}, f.arg, Top(DOMAIN f.put), Top(f.val \cap f.arg)}

MCDte == {"DeviceTableEntry"}
MCValues ==
  [k \in EntryKinds |-> [f \in DOMAIN EntryLayout[k] |-> Patterns(EntryLayout[k][f])]]

(* dte.rs lists the root pointer as bits 51:12 of q0, apart from PPR (52)  *)
(* up to IW (62): setting the root leaves those fields as they were.       *)
RootKeepsFieldsAbove ==
  [][Keeps("host_page_table_root", DteAboveRoot)]_vars

(* dte.rs lists IV, IntTabLen and the interrupt table pointer in the low   *)
(* bits of q2: tagging an entry with a domain id leaves them as they were. *)
DomainIdKeepsInterruptFields ==
  [][Keeps("domain_id", DteInterruptFields)]_vars
===========================================================================
