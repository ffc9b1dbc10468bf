------------------------- MODULE PackedEntryProofs -------------------------
(***************************************************************************)
(* The properties of PackedEntry for every layout that satisfies           *)
(* LayoutAssumption, every argument and every length of the chain.         *)
(***************************************************************************)
EXTENDS PackedEntry, TLAPS

USE LayoutAssumption, MaxCallsAssumption

(* A setter writes no bit outside Written. *)
LEMMA WithWritesWritten ==
  ASSUME NEW k \in Kinds, NEW f \in Setters(k), NEW e, NEW v, NEW W,
         e \subseteq W, Written(k, f) \subseteq W
  PROVE  WithField(k, e, f, v) \subseteq W
BY DEF WithField, Written

(* A setter that is not listed as overlapping g does not change what the   *)
(* getter of g returns.                                                    *)
LEMMA WithKeepsOthers ==
  ASSUME NEW k \in Kinds, NEW f \in Setters(k), NEW g \in Fields(k), NEW e, NEW v,
         f # g, <<f, g>> \notin Overlaps[k]
  PROVE  GetField(k, WithField(k, e, f, v), g) = GetField(k, e, g)
<1> DEFINE Puts == {Layout[k][f].put[b] : b \in v \cap DOMAIN Layout[k][f].put}
<1>1. f \in Fields(k)
  BY DEF Setters
<1>2. Puts \subseteq Layout[k][f].clear
  BY <1>1 DEF LayoutAssumption, PutsWhatItGets
<1>3. (Layout[k][f].clear \cup Layout[k][f].raise) \cap Footprint(k, g) = {}
  BY DEF LayoutAssumption, SettersApart
<1>4. ASSUME NEW b \in DOMAIN Layout[k][g].get
      PROVE  Layout[k][g].get[b] \in WithField(k, e, f, v) <=> Layout[k][g].get[b] \in e
  <2>1. Layout[k][g].get[b] \in Footprint(k, g)
    BY <1>4 DEF Footprint
  <2>2. /\ Layout[k][g].get[b] \notin Layout[k][f].clear
        /\ Layout[k][g].get[b] \notin Layout[k][f].raise
        /\ Layout[k][g].get[b] \notin Puts
    BY <2>1, <1>2, <1>3
  <2>3. QED
    BY <2>2 DEF WithField
<1>5. QED
  BY <1>4 DEF GetField

(* A field reads back the part of the argument its setter has room for. *)
LEMMA WithReadsBack ==
  ASSUME NEW k \in Kinds, NEW f \in Setters(k), NEW e, NEW v,
         e \subseteq UNION {Written(k, g) : g \in Setters(k)}
  PROVE  GetField(k, WithField(k, e, f, v), f) = Held(k, f, v)
<1> DEFINE L == Layout[k][f]
           Puts == {L.put[b] : b \in v \cap DOMAIN L.put}
<1>0. f \in Fields(k)
  BY DEF Setters
<1>1. /\ DOMAIN L.put \subseteq DOMAIN L.get
      /\ \A b \in DOMAIN L.put : L.get[b] = L.put[b] /\ L.put[b] \in L.clear
      /\ \A b, c \in DOMAIN L.get : L.get[b] = L.get[c] => b = c
  BY <1>0 DEF LayoutAssumption, PutsWhatItGets
<1>2. L.raise \cap Footprint(k, f) = {}
  BY DEF LayoutAssumption, SettersApart
<1>3. ASSUME NEW b \in DOMAIN L.get
      PROVE  L.get[b] \in WithField(k, e, f, v) <=> b \in Held(k, f, v)
  <2>1. L.get[b] \notin L.raise
    BY <1>2, <1>3 DEF Footprint
  <2>2. CASE b \in DOMAIN L.put
    <3>1. L.get[b] \in Puts <=> b \in v
      BY <1>1, <2>2
    <3>2. L.get[b] \notin e \ L.clear
      BY <1>1, <2>2
    <3>3. QED
      BY <2>1, <2>2, <3>1, <3>2 DEF WithField, Held
  <2>3. CASE b \notin DOMAIN L.put
    <3>1. \A g \in Setters(k) : L.get[b] \notin Written(k, g)
      BY <1>3, <2>3 DEF LayoutAssumption, UnwrittenReadsZero
    <3>2. L.get[b] \notin e
      BY <3>1
    <3>3. L.get[b] \notin Puts
      BY <3>1 DEF Written
    <3>4. QED
      BY <2>1, <2>3, <3>2, <3>3 DEF WithField, Held
  <2>4. QED
    BY <2>2, <2>3
<1>4. Held(k, f, v) \subseteq DOMAIN L.get
  BY <1>1 DEF Held
<1>5. QED
  BY <1>3, <1>4 DEF GetField

(* Unless the value is cut short by a narrow setter, what it has room for  *)
(* is the whole value the caller gave the field.                           *)
LEMMA HeldIsDocumented ==
  ASSUME NEW k \in Kinds, NEW f \in Setters(k), NEW v, ~CutShort(k, f, v)
  PROVE  Held(k, f, v) = Documented(k, f, v)
<1>1. CASE f \in Narrow[k]
  BY <1>1 DEF CutShort
<1>2. CASE f \notin Narrow[k]
  BY <1>2 DEF LayoutAssumption, HoldsWhatIsDocumented, Held, Documented
<1>3. QED
  BY <1>1, <1>2

(* Taking the documented bits of an argument first costs the setter        *)
(* nothing it has room for.                                                *)
LEMMA HeldOfDocumented ==
  ASSUME NEW k \in Kinds, NEW f \in Setters(k), NEW v
  PROVE  Held(k, f, Documented(k, f, v)) = Held(k, f, v)
BY DEF LayoutAssumption, HoldsWhatIsDocumented, Held, Documented

---------------------------------------------------------------------------
(* A builder chain starts from a type-correct entry. *)
LEMMA TypeOKInit == Init => TypeOK
<1> SUFFICES ASSUME Init PROVE TypeOK
  OBVIOUS
<1>1. entry \subseteq UNION {Written(kind, f) : f \in Setters(kind)}
  BY DEF Init, LayoutAssumption, BlankIsWritable
<1>2. QED
  BY <1>1 DEF Init, TypeOK

(* Every setter call keeps the entry inside the bits its type defines. *)
LEMMA TypeOKStep == TypeOK /\ [Next]_vars => TypeOK'
<1> SUFFICES ASSUME TypeOK, [Next]_vars PROVE TypeOK'
  OBVIOUS
<1>1. CASE UNCHANGED vars
  BY <1>1 DEF TypeOK, vars
<1>2. ASSUME NEW f \in Setters(kind), NEW v \in Values[kind][f], With(f, v)
      PROVE  TypeOK'
  <2> DEFINE W == UNION {Written(kind, g) : g \in Setters(kind)}
  <2>1. Written(kind, f) \subseteq W
    OBVIOUS
  <2>2. entry' \subseteq W
    <3>1. kind \in Kinds /\ entry \subseteq W
      BY DEF TypeOK
    <3> HIDE DEF W
    <3>2. WithField(kind, entry, f, v) \subseteq W
      BY <2>1, <3>1, WithWritesWritten
    <3>3. QED
      BY <1>2, <3>2 DEF With
  <2>3. DOMAIN want' = Fields(kind)
    BY <1>2 DEF With, TypeOK
  <2>4. fresh' \subseteq Fields(kind)
    BY <1>2 DEF With, TypeOK, Setters
  <2>5. calls' \in 0 .. MaxCalls
    BY <1>2 DEF With, TypeOK
  <2>6. kind' = kind
    BY <1>2 DEF With
  <2>7. QED
    BY <2>2, <2>3, <2>4, <2>5, <2>6 DEF TypeOK
<1>3. QED
  BY <1>1, <1>2 DEF Next

(* Type correctness of every builder chain: no call sets a bit outside the *)
(* bits the fields of the type define.                                     *)
THEOREM TypeCorrect == Spec => []TypeOK
<1>1. QED
  BY TypeOKInit, TypeOKStep, PTL DEF Spec

(* The step that FreshReadsBack rests on: the field set reads back, and    *)
(* the others that stay fresh are untouched.                               *)
LEMMA FreshStep == TypeOK /\ FreshReadsBack /\ [Next]_vars => FreshReadsBack'
<1> SUFFICES ASSUME TypeOK, FreshReadsBack, [Next]_vars PROVE FreshReadsBack'
  OBVIOUS
<1>1. CASE UNCHANGED vars
  BY <1>1 DEF FreshReadsBack, vars
<1>2. ASSUME NEW f \in Setters(kind), NEW v \in Values[kind][f], With(f, v),
             NEW g \in fresh'
      PROVE  GetField(kind, entry', g) = want'[g]
  <2>1. kind \in Kinds /\ entry' = WithField(kind, entry, f, v)
    BY <1>2 DEF With, TypeOK
  <2>2. f \in DOMAIN want
    BY DEF TypeOK, Setters
  <2>3. CASE g = f
    <3>1. want'[f] = Documented(kind, f, v)
      BY <1>2, <2>2 DEF With
    <3>2. GetField(kind, WithField(kind, entry, f, v), f) = Held(kind, f, v)
      BY <2>1, WithReadsBack DEF TypeOK
    <3>3. ~CutShort(kind, f, v)
      BY <1>2, <2>3 DEF With
    <3>4. QED
      BY <2>1, <2>3, <3>1, <3>2, <3>3, HeldIsDocumented
  <2>4. CASE g # f
    <3>1. g \in fresh /\ g \in Fields(kind) /\ <<f, g>> \notin Overlaps[kind]
      BY <1>2, <2>4 DEF With, TypeOK
    <3>2. want'[g] = want[g]
      BY <1>2, <2>4, <3>1 DEF With, TypeOK
    <3>3. GetField(kind, WithField(kind, entry, f, v), g) = GetField(kind, entry, g)
      BY <2>1, <2>4, <3>1, WithKeepsOthers
    <3>4. QED
      BY <2>1, <3>1, <3>2, <3>3 DEF FreshReadsBack
  <2>5. QED
    BY <2>3, <2>4
<1>3. ASSUME NEW f \in Setters(kind), NEW v \in Values[kind][f], With(f, v)
      PROVE  FreshReadsBack'
  <2>1. kind' = kind
    BY <1>3 DEF With
  <2>2. QED
    BY <1>2, <1>3, <2>1 DEF FreshReadsBack
<1>4. QED
  BY <1>1, <1>3 DEF Next

(* For every layout whose masks satisfy LayoutAssumption, every sequence   *)
(* of setter calls leaves each field with the last value the caller gave   *)
(* it, all of its documented bits, unless an overlapping setter ran since  *)
(* or the value was too wide for a setter listed as narrow.                *)
THEOREM LastValueKept == Spec => []FreshReadsBack
<1>1. Init => FreshReadsBack
  BY DEF Init, FreshReadsBack
<1>2. QED
  BY <1>1, TypeCorrect, FreshStep, PTL DEF Spec

---------------------------------------------------------------------------
(* In a type whose fields are independent every field reads what its       *)
(* setter has room for of the last value.                                  *)
AllHeld ==
  Independent(kind) =>
    \A f \in Setters(kind) : GetField(kind, entry, f) = Held(kind, f, want[f])

(* The strengthening that OrderIrrelevant needs is inductive. *)
LEMMA AllHeldInvariant == Spec => []AllHeld
<1>1. Init => AllHeld
  <2> SUFFICES ASSUME Init, NEW f \in Setters(kind), NEW b \in want[f]
               PROVE  b \in DOMAIN Layout[kind][f].put
    BY DEF AllHeld, Init, Held, Setters
  <2>1. kind \in Kinds /\ entry \in Blank[kind] /\ f \in Fields(kind)
    BY DEF Init, Setters
  <2>2. b \in DOMAIN Layout[kind][f].get /\ Layout[kind][f].get[b] \in entry
    BY <2>1 DEF Init, GetField
  <2>3. PICK g \in Setters(kind) : Layout[kind][f].get[b] \in Written(kind, g)
    BY <2>1, <2>2 DEF LayoutAssumption, BlankIsWritable
  <2>4. QED
    BY <2>1, <2>2, <2>3 DEF LayoutAssumption, UnwrittenReadsZero
<1>2. TypeOK /\ AllHeld /\ [Next]_vars => AllHeld'
  <2> SUFFICES ASSUME TypeOK, AllHeld, [Next]_vars PROVE AllHeld'
    OBVIOUS
  <2>1. CASE UNCHANGED vars
    BY <2>1 DEF AllHeld, vars
  <2>2. ASSUME NEW f \in Setters(kind), NEW v \in Values[kind][f], With(f, v),
               Independent(kind), NEW g \in Setters(kind)
        PROVE  GetField(kind, entry', g) = Held(kind, g, want'[g])
    <3>1. kind \in Kinds /\ entry' = WithField(kind, entry, f, v)
      BY <2>2 DEF With, TypeOK
    <3>2. g \in DOMAIN want /\ g \in Fields(kind)
      BY DEF TypeOK, Setters
    <3>3. CASE g = f
      <4>1. want'[f] = Documented(kind, f, v)
        BY <2>2, <3>2, <3>3 DEF With
      <4>2. GetField(kind, WithField(kind, entry, f, v), f) = Held(kind, f, v)
        BY <3>1, WithReadsBack DEF TypeOK
      <4>3. Held(kind, f, Documented(kind, f, v)) = Held(kind, f, v)
        BY <3>1, HeldOfDocumented
      <4>4. QED
        BY <3>1, <3>3, <4>1, <4>2, <4>3
    <3>4. CASE g # f
      <4>1. want'[g] = want[g]
        BY <2>2, <3>2, <3>4 DEF With
      <4>2. <<f, g>> \notin Overlaps[kind]
        BY <2>2 DEF Independent
      <4>3. GetField(kind, WithField(kind, entry, f, v), g) = GetField(kind, entry, g)
        BY <3>1, <3>2, <3>4, <4>2, WithKeepsOthers
      <4>4. QED
        BY <2>2, <3>1, <4>1, <4>3 DEF AllHeld
    <3>5. QED
      BY <3>3, <3>4
  <2>3. ASSUME NEW f \in Setters(kind), NEW v \in Values[kind][f], With(f, v)
        PROVE  AllHeld'
    <3>1. kind' = kind
      BY <2>3 DEF With
    <3>2. QED
      BY <2>2, <2>3, <3>1 DEF AllHeld
  <2>4. QED
    BY <2>1, <2>3 DEF Next
<1>3. QED
  BY <1>1, <1>2, TypeCorrect, PTL DEF Spec

(* The packed words of a type with independent fields depend on the last   *)
(* values only: builder calls commute and are idempotent, and no reserved  *)
(* bit is ever set.                                                        *)
THEOREM BuilderOrderIrrelevant == Spec => []OrderIrrelevant
<1>1. TypeOK /\ AllHeld => OrderIrrelevant
  <2> SUFFICES ASSUME TypeOK, AllHeld, Independent(kind)
               PROVE  entry = UNION {{Layout[kind][f].put[b] : b \in Held(kind, f, want[f])}
                                      : f \in Setters(kind)}
    BY DEF OrderIrrelevant
  <2> DEFINE Img(f) == {Layout[kind][f].put[b] : b \in Held(kind, f, want[f])}
  <2>1. kind \in Kinds
    BY DEF TypeOK
  <2>2. ASSUME NEW f \in Setters(kind)
        PROVE  /\ Held(kind, f, want[f]) = GetField(kind, entry, f)
               /\ Held(kind, f, want[f]) \subseteq DOMAIN Layout[kind][f].put
               /\ \A b \in DOMAIN Layout[kind][f].put :
                    /\ b \in DOMAIN Layout[kind][f].get
                    /\ Layout[kind][f].get[b] = Layout[kind][f].put[b]
    <3>1. f \in Fields(kind)
      BY DEF Setters
    <3>2. Held(kind, f, want[f]) \subseteq DOMAIN Layout[kind][f].put
      BY DEF Held
    <3>3. QED
      BY <2>1, <3>1, <3>2 DEF AllHeld, LayoutAssumption, PutsWhatItGets
  <2>3. ASSUME NEW i \in entry PROVE \E f \in Setters(kind) : i \in Img(f)
    <3>1. PICK f \in Setters(kind) : i \in Written(kind, f)
      BY DEF TypeOK
    <3>2. PICK b \in DOMAIN Layout[kind][f].put : i = Layout[kind][f].put[b]
      BY <3>1 DEF Written, Independent
    <3>3. b \in Held(kind, f, want[f])
      BY <2>2, <2>3, <3>2 DEF GetField
    <3>4. QED
      BY <3>2, <3>3
  <2>4. ASSUME NEW f \in Setters(kind), NEW b \in Held(kind, f, want[f])
        PROVE  Layout[kind][f].put[b] \in entry
    BY <2>2 DEF GetField
  <2>5. QED
    BY <2>3, <2>4
<1>2. QED
  BY <1>1, TypeCorrect, AllHeldInvariant, PTL
===========================================================================
