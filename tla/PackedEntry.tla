---------------------------- MODULE PackedEntry ----------------------------
(***************************************************************************)
(* The builder types of both crates: DeviceTableEntry, ContextEntry,       *)
(* ScalableContextEntry, PasidTableEntry, Irte, FaultRecord, Control.      *)
(* Each packs named fields into fixed words; every `with_f(v)' masks some  *)
(* bits of the words off and ors the shifted bits of v in, every getter    *)
(* gathers bits of the words back.  The masks are all that tells one type  *)
(* from another, so they are data here (the constant Layout, filled in by  *)
(* EntryLayouts) and the builder chain is one specification.               *)
(*                                                                         *)
(* A field's layout is a record of                                         *)
(*   put    value bit -> entry bit the setter writes it to                 *)
(*   clear  entry bits the setter masks off first                          *)
(*   raise  entry bits the setter also sets                                *)
(*   get    value bit -> entry bit the getter reads it from                *)
(*   arg    the bits an argument of the setter's Rust type can have        *)
(*   val    the value bits the comments of the source give the field       *)
(***************************************************************************)
EXTENDS Integers

CONSTANTS
  Kinds,     \* the builder types
  Layout,    \* Layout[k][f]: the layout of field f of type k
  Blank,     \* Blank[k]: the entries the constructors of k return
  Overlaps,  \* Overlaps[k]: pairs <<f, g>> where with_f may change what g() reads
  Narrow,    \* Narrow[k]: fields whose setter holds fewer bits than documented
  Values,    \* Values[k][f]: the arguments with_f is called with
  MaxCalls   \* bound on the length of a builder chain

VARIABLES
  kind,      \* the type being built
  entry,     \* its words, as a set of entry bits
  want,      \* history: per field, the last value the caller gave it
  fresh,     \* history: the fields that must read back what is in want
  calls      \* length of the chain so far

vars == <<kind, entry, want, fresh, calls>>

Fields(k) == DOMAIN Layout[k]

(* The fields that have a with_ method. *)
Setters(k) == {f \in Fields(k) : DOMAIN Layout[k][f].put # {}}

(* The entry bits with_f may write. *)
Written(k, f) ==
  {Layout[k][f].put[b] : b \in DOMAIN Layout[k][f].put} \cup Layout[k][f].raise

(* The entry bits f() reads. *)
Footprint(k, f) == {Layout[k][f].get[b] : b \in DOMAIN Layout[k][f].get}

(***************************************************************************)
(* What the masks must satisfy for a chain of calls to mean what it says,  *)
(* one named part per way a mask can be wrong.                             *)
(***************************************************************************)
PutsWhatItGets ==
  \A k \in Kinds : \A f \in Fields(k) :
    /\ DOMAIN Layout[k][f].put \subseteq DOMAIN Layout[k][f].get
    /\ \A b \in DOMAIN Layout[k][f].put :
         /\ Layout[k][f].get[b] = Layout[k][f].put[b]
         /\ Layout[k][f].put[b] \in Layout[k][f].clear
    /\ \A b, c \in DOMAIN Layout[k][f].get :
         Layout[k][f].get[b] = Layout[k][f].get[c] => b = c

(* Unless the pair is listed as overlapping, no setter touches a bit that  *)
(* another field's getter reads, and none raises a bit of its own field.   *)
SettersApart ==
  \A k \in Kinds : \A f \in Setters(k) :
    /\ Layout[k][f].raise \cap Footprint(k, f) = {}
    /\ \A g \in Fields(k) \ {f} :
         <<f, g>> \notin Overlaps[k] =>
           (Layout[k][f].clear \cup Layout[k][f].raise) \cap Footprint(k, g) = {}

(* Where a getter reads further than its own setter writes (the interrupt  *)
(* table pointer of a DTE), nobody else writes those bits either.          *)
UnwrittenReadsZero ==
  \A k \in Kinds : \A f \in Setters(k) :
    \A b \in DOMAIN Layout[k][f].get \ DOMAIN Layout[k][f].put :
      \A g \in Setters(k) : Layout[k][f].get[b] \notin Written(k, g)

BlankIsWritable ==
  \A k \in Kinds : \A e \in Blank[k] :
    \A i \in e : \E g \in Setters(k) : i \in Written(k, g)

(* A setter has room for the whole documented field, unless it is listed   *)
(* as narrow, and for nothing besides.                                     *)
HoldsWhatIsDocumented ==
  \A k \in Kinds : \A f \in Setters(k) :
    /\ DOMAIN Layout[k][f].put \subseteq Layout[k][f].val
    /\ f \notin Narrow[k] => Layout[k][f].val \subseteq DOMAIN Layout[k][f].put

ASSUME LayoutAssumption ==
  /\ PutsWhatItGets
  /\ SettersApart
  /\ UnwrittenReadsZero
  /\ BlankIsWritable
  /\ HoldsWhatIsDocumented

ASSUME MaxCallsAssumption == MaxCalls \in Nat

---------------------------------------------------------------------------
(* Slips a setter could contain: the old bits are not masked off, the      *)
(* argument is not cut to the width of the field before it is shifted into *)
(* place, or it is cut one bit too short.                                  *)
WithFieldNoMask(k, e, f, v) ==
  e \cup {Layout[k][f].put[b] : b \in v \cap DOMAIN Layout[k][f].put}
    \cup Layout[k][f].raise

WithFieldUncut(k, e, f, v) ==
  LET room == DOMAIN Layout[k][f].put
      low  == CHOOSE b \in room : \A c \in room : b <= c
  IN  (e \ Layout[k][f].clear)
        \cup {Layout[k][f].put[low] + b - low : b \in {c \in v : c >= low}}
        \cup Layout[k][f].raise

WithFieldCutShort(k, e, f, v) ==
  LET room == DOMAIN Layout[k][f].put
  IN  (e \ Layout[k][f].clear)
        \cup {Layout[k][f].put[b] : b \in {c \in v \cap room : \E d \in room : d > c}}
        \cup Layout[k][f].raise

(* self.q = (self.q & !mask) | bits, for every word the setter assigns.    *)
WithField(k, e, f, v) ==
  (e \ Layout[k][f].clear)
    \cup {Layout[k][f].put[b] : b \in v \cap DOMAIN Layout[k][f].put}
    \cup Layout[k][f].raise

(* extract_bits / masking, as the getters do. *)
GetField(k, e, f) == {b \in DOMAIN Layout[k][f].get : Layout[k][f].get[b] \in e}

(* The value an argument gives the field, by the documented width of the   *)
(* field, and the part of a value that the setter has room for.            *)
Documented(k, f, v) == v \cap Layout[k][f].val
Held(k, f, v) == v \cap DOMAIN Layout[k][f].put

(* The setter is known to be narrow and this value is too wide for it. *)
CutShort(k, f, v) == f \in Narrow[k] /\ Documented(k, f, v) # Held(k, f, v)

---------------------------------------------------------------------------
(* T::new(), or another constructor of the type. *)
Init ==
  /\ kind \in Kinds
  /\ entry \in Blank[kind]
  /\ want = [f \in Fields(kind) |-> GetField(kind, entry, f)]
  /\ fresh = Fields(kind)
  /\ calls = 0

(* entry = entry.with_f(v) *)
With(f, v) ==
  /\ calls < MaxCalls
  /\ entry' = WithField(kind, entry, f, v)
  /\ want' = [want EXCEPT ![f] = Documented(kind, f, v)]
  /\ fresh' = {g \in fresh : g # f /\ <<f, g>> \notin Overlaps[kind]}
                \cup {g \in {f} : ~CutShort(kind, f, v)}
  /\ calls' = calls + 1
  /\ UNCHANGED kind

Next == \E f \in Setters(kind) : \E v \in Values[kind][f] : With(f, v)

Spec == Init /\ [][Next]_vars

---------------------------------------------------------------------------
TypeOK ==
  /\ kind \in Kinds
  /\ entry \subseteq UNION {Written(kind, f) : f \in Setters(kind)}
  /\ DOMAIN want = Fields(kind)
  /\ fresh \subseteq Fields(kind)
  /\ calls \in 0 .. MaxCalls

(* Whatever the order and number of builder calls, a field reads back the  *)
(* last value the caller gave it, all of its documented bits: no mask      *)
(* drops a bit, shifts it, leaks it into a neighbour or leaves an old bit  *)
(* behind.  Two cases are known not to: a field some overlapping setter    *)
(* ran on since (Overlaps), and a value too wide for a narrow setter       *)
(* (Narrow).                                                               *)
FreshReadsBack == \A f \in fresh : GetField(kind, entry, f) = want[f]

(* The fields of type k share no bit and no setter sets a bit besides. *)
Independent(k) ==
  Overlaps[k] = {} /\ \A f \in Setters(k) : Layout[k][f].raise = {}

(* In a type whose fields are independent the packed words are a function  *)
(* of the last values alone: reordering or repeating calls does not matter *)
(* and no reserved bit is ever set.                                        *)
OrderIrrelevant ==
  Independent(kind) =>
    entry = UNION {{Layout[kind][f].put[b] : b \in Held(kind, f, want[f])}
                   : f \in Setters(kind)}

(* A call of with_f leaves what the caller has put into others unchanged. *)
Keeps(f, others) ==
  want'[f] # want[f] =>
    \A g \in others :
      want[g] # {} => GetField(kind, entry', g) = GetField(kind, entry, g)
===========================================================================
