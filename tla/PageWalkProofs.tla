-------------------------- MODULE PageWalkProofs --------------------------
(***************************************************************************)
(* walk() is linearizable for trees of up to five levels with any number   *)
(* of tables, any entries and any number of writes: PageWalk's invariants, *)
(* proved for every value of its constants.                                *)
(*                                                                         *)
(* The argument.  While the walk is inside `table', some memory m that     *)
(* existed during the call leads from the root to it.  Either m is still   *)
(* the current memory, or the owner has cut a link of the walk's path.     *)
(* Then `table' belongs to a set D of tables cut off from the tree: the    *)
(* root is not in D, no link leads into D or out of it, and since the      *)
(* owner leaves what it has unlinked alone until the walk is over, the     *)
(* tables of D are still as they were in m.  What the walk reads there is  *)
(* what m holds.                                                           *)
(***************************************************************************)
EXTENDS PageWalk, TLAPS

(* The tables D are out of the tree, and as they were in m. *)
Detached(m, D) ==
  /\ Root \notin D
  /\ \A t \in D : t \in DOMAIN m /\ m[t] = mem[t] /\ Reachable(m, t)
  /\ \A t, u \in Tables : Linked(mem, t, u) => (t \in D <=> u \in D)

(* Memory m leads the walk from the root along c to table c[n]. *)
LeadsTo(m, c, n) ==
  \A k \in (n + 1) .. Levels : PointsTo(m, c[k], index_at(vaddr, k), c[k - 1])

WalkInv ==
  pc = "walking" =>
    \E m \in seen : \E c \in Chains :
      /\ c[level] = table
      /\ LeadsTo(m, c, level)
      /\ \/ m = mem
         \/ \E D \in SUBSET Tables : table \in D /\ Detached(m, D)

Inv ==
  /\ TypeOK
  /\ TreeShaped(mem)
  /\ WellFormed(mem)
  /\ WalkInv
  /\ Linearizable

---------------------------------------------------------------------------
(* Levels. *)

(* Induction over levels, downwards and upwards; there are at most five,   *)
(* so the cases can be listed.                                             *)
LEMMA LevelsDown ==
  ASSUME NEW S, NEW a \in 1 .. 5, NEW b \in 1 .. 5, b \in S,
         \A k \in a .. (b - 1) : k + 1 \in S => k \in S
  PROVE  \A k \in a .. b : k \in S
<1>1. SUFFICES ASSUME NEW k \in a .. b PROVE k \in S
  OBVIOUS
<1>2. \A j \in a .. b : j = b \/ j + 1 \in a .. b
  OBVIOUS
<1>3. \A j \in a .. b : j + 1 \in S => j \in S
  BY <1>2
<1>4. 5 \in a .. b => 5 \in S
  BY <1>3
<1>5. 4 \in a .. b => 4 \in S
  BY <1>3, <1>4
<1>6. 3 \in a .. b => 3 \in S
  BY <1>3, <1>5
<1>7. 2 \in a .. b => 2 \in S
  BY <1>3, <1>6
<1>8. 1 \in a .. b => 1 \in S
  BY <1>3, <1>7
<1>9. k \in {1, 2, 3, 4, 5}
  OBVIOUS
<1> QED BY <1>4, <1>5, <1>6, <1>7, <1>8, <1>9

LEMMA LevelsUp ==
  ASSUME NEW S, NEW a \in 1 .. 5, NEW b \in 1 .. 5, a <= b, a \in S,
         \A k \in a .. (b - 1) : k \in S => k + 1 \in S
  PROVE  b \in S
<1>1. 1 \in a .. b => 1 \in S
  OBVIOUS
<1>2. 2 \in a .. b => 2 \in S
  BY <1>1
<1>3. 3 \in a .. b => 3 \in S
  BY <1>2
<1>4. 4 \in a .. b => 4 \in S
  BY <1>3
<1>5. 5 \in a .. b => 5 \in S
  BY <1>4
<1>6. b \in {1, 2, 3, 4, 5} /\ b \in a .. b
  OBVIOUS
<1> QED BY <1>1, <1>2, <1>3, <1>4, <1>5, <1>6

LEMMA LevelType ==
  ASSUME NEW t \in Tables
  PROVE  LevelOf[t] \in 1 .. Levels /\ Levels \in 1 .. 5 /\ t \subseteq PA_MASK
  BY TreeAssumption

(* A chain with another table of the right level put in. *)
LEMMA ChainExcept ==
  ASSUME NEW c \in Chains, NEW t \in Tables, t # Root => LevelOf[t] # Levels
  PROVE  /\ [c EXCEPT ![LevelOf[t]] = t] \in Chains
         /\ [c EXCEPT ![LevelOf[t]] = t][LevelOf[t]] = t
         /\ \A n \in 1 .. Levels : n # LevelOf[t] => [c EXCEPT ![LevelOf[t]] = t][n] = c[n]
<1>1. LevelOf[t] \in 1 .. Levels /\ c \in [1 .. Levels -> Tables] /\ Levels \in 1 .. Levels
  BY LevelType DEF Chains
<1>2. c[Levels] = Root /\ \A n \in 1 .. Levels : LevelOf[c[n]] = n
  BY DEF Chains
<1> DEFINE d == [c EXCEPT ![LevelOf[t]] = t]
<1>3. /\ d \in [1 .. Levels -> Tables]
      /\ d[LevelOf[t]] = t
      /\ \A n \in 1 .. Levels : n # LevelOf[t] => d[n] = c[n]
  BY <1>1
<1> HIDE DEF d
<1>4. d \in Chains
  BY <1>1, <1>2, <1>3 DEF Chains
<1> QED BY <1>3, <1>4 DEF d

(* There is a table for every level, so there is a chain. *)
LEMMA SomeChain == \E c \in Chains : TRUE
<1> DEFINE c == [n \in 1 .. Levels |->
                   IF n = Levels THEN Root ELSE CHOOSE t \in Tables : LevelOf[t] = n]
<1>1. \A n \in 1 .. Levels : c[n] \in Tables /\ LevelOf[c[n]] = n
  BY TreeAssumption
<1>2. Levels \in 1 .. Levels /\ c[Levels] = Root
  BY TreeAssumption
<1>3. c \in [1 .. Levels -> Tables]
  BY <1>1
<1>4. c \in Chains
  BY <1>1, <1>2, <1>3 DEF Chains
<1> QED BY <1>4

LEMMA RootReachable == \A m : Reachable(m, Root)
<1> SUFFICES ASSUME NEW m PROVE Reachable(m, Root)
  OBVIOUS
<1>1. PICK c \in Chains : TRUE
  BY SomeChain
<1>2. LevelOf[Root] = Levels /\ c[Levels] = Root /\ (Levels + 1) .. Levels = {}
  BY TreeAssumption DEF Chains
<1> QED BY <1>1, <1>2 DEF Reachable

---------------------------------------------------------------------------
(* The shape of the tree. *)

(* Only an entry that is there can be a link. *)
LEMMA LinkedIffPoints ==
  ASSUME NEW m, NEW t, t \in DOMAIN m, NEW i, NEW u, PointsTo(m, t, i, u)
  PROVE  i \in DOMAIN m[t] /\ Linked(m, t, u)
<1>1. i \in DOMAIN m[t]
  BY DEF PointsTo, fetch, EMPTY, Present
<1> QED BY <1>1 DEF Linked

(* A table is linked by at most one table, of the level above. *)
LEMMA OneParent ==
  ASSUME NEW m, TreeShaped(m), NEW s \in Tables, NEW t \in Tables, NEW u \in Tables,
         Linked(m, s, u), Linked(m, t, u)
  PROVE  s = t /\ LevelOf[u] = LevelOf[t] - 1
  BY DEF TreeShaped, Linked

(* A table is reachable just when the one that links it is. *)
LEMMA ReachUp ==
  ASSUME NEW m, TreeShaped(m), NEW s \in Tables, NEW u \in Tables, Linked(m, s, u)
  PROVE  Reachable(m, u) <=> Reachable(m, s)
<1> DEFINE l == LevelOf[u]
<1>1. /\ LevelOf[s] = l + 1 /\ l \in 1 .. Levels /\ l + 1 \in 1 .. Levels /\ l # Levels
      /\ Levels \in 1 .. 5
  BY OneParent, LevelType
<1>2. ASSUME Reachable(m, u) PROVE Reachable(m, s)
  <2>1. PICK c \in Chains : /\ c[l] = u
                            /\ \A n \in (l + 1) .. Levels : Linked(m, c[n], c[n - 1])
    BY <1>2 DEF Reachable
  <2>2. l + 1 \in (l + 1) .. Levels /\ l + 1 - 1 = l
    BY <1>1
  <2>3. Linked(m, c[l + 1], u) /\ c[l + 1] \in Tables
    BY <1>1, <2>1, <2>2 DEF Chains
  <2>4. c[l + 1] = s
    BY <2>3, OneParent
  <2>5. \A n \in (l + 1 + 1) .. Levels : n \in (l + 1) .. Levels
    BY <1>1
  <2> QED BY <1>1, <2>1, <2>4, <2>5 DEF Reachable
<1>3. ASSUME Reachable(m, s) PROVE Reachable(m, u)
  <2>1. PICK c \in Chains : /\ c[l + 1] = s
                            /\ \A n \in (l + 1 + 1) .. Levels : Linked(m, c[n], c[n - 1])
    BY <1>1, <1>3 DEF Reachable
  <2> DEFINE d == [c EXCEPT ![LevelOf[u]] = u]
  <2>2. d \in Chains /\ d[l] = u /\ \A n \in 1 .. Levels : n # l => d[n] = c[n]
    BY <1>1, ChainExcept
  <2> HIDE DEF d
  <2>3. ASSUME NEW n \in (l + 1) .. Levels PROVE Linked(m, d[n], d[n - 1])
    <3>1. CASE n = l + 1
      <4>1. d[n] = s /\ d[n - 1] = u
        BY <1>1, <2>1, <2>2, <3>1
      <4> QED BY <4>1
    <3>2. CASE n # l + 1
      <4>1. n \in (l + 1 + 1) .. Levels /\ n \in 1 .. Levels /\ n - 1 \in 1 .. Levels
            /\ n # l /\ n - 1 # l
        BY <1>1, <3>2
      <4>2. d[n] = c[n] /\ d[n - 1] = c[n - 1]
        BY <2>2, <4>1
      <4> QED BY <2>1, <4>1, <4>2
    <3> QED BY <3>1, <3>2
  <2> QED BY <2>2, <2>3 DEF Reachable
<1> QED BY <1>2, <1>3

(* What is cut off is retired: the owner neither writes to it nor links it *)
(* again while the walk is on.                                             *)
LEMMA DetachedRetired ==
  ASSUME NEW m \in seen, NEW D \in SUBSET Tables, Detached(m, D), NEW t \in D
  PROVE  Retired(t)
<1>1. Reachable(m, t) /\ t \in Tables
  BY DEF Detached
<1>2. ASSUME Reachable(mem, t) PROVE FALSE
  <2> DEFINE l == LevelOf[t]
  <2>1. PICK c \in Chains : /\ c[l] = t
                            /\ \A n \in (l + 1) .. Levels : Linked(mem, c[n], c[n - 1])
    BY <1>2 DEF Reachable
  <2>2. l \in 1 .. Levels /\ Levels \in 1 .. 5
    BY <1>1, LevelType
  <2>3. c[Levels] = Root /\ \A n \in 1 .. Levels : c[n] \in Tables
    BY DEF Chains
  <2> DEFINE S == {n \in 1 .. 5 : c[n] \in D}
  <2>4. l \in S
    BY <2>1, <2>2
  <2>5. \A k \in l .. (Levels - 1) : k \in S => k + 1 \in S
    <3>1. SUFFICES ASSUME NEW k \in l .. (Levels - 1), k \in S PROVE k + 1 \in S
      OBVIOUS
    <3>2. k + 1 \in (l + 1) .. Levels /\ k + 1 - 1 = k /\ k \in 1 .. Levels
          /\ k + 1 \in 1 .. Levels /\ k + 1 \in 1 .. 5
      BY <2>2
    <3>3. Linked(mem, c[k + 1], c[k])
      BY <2>1, <3>2
    <3>4. c[k + 1] \in D
      BY <3>1, <3>2, <3>3, <2>3 DEF Detached
    <3> QED BY <3>2, <3>4
  <2> HIDE DEF S
  <2>6. Levels \in S
    BY <2>2, <2>4, <2>5, LevelsUp
  <2> QED BY <2>3, <2>6 DEF S, Detached
<1> QED BY <1>1, <1>2 DEF Retired

---------------------------------------------------------------------------
(* The entries. *)

LEMMA ShiftType ==
  ASSUME NEW n \in 1 .. 5
  PROVE  LEVEL_SHIFT[n] \in 12 .. 48
<1>1. n \in {1, 2, 3, 4, 5}
  OBVIOUS
<1> QED BY <1>1 DEF LEVEL_SHIFT

(* A leaf of any format is present and maps the frame it was built from; a *)
(* superpage has PS as well.                                               *)
LEMMA LeafIs ==
  ASSUME NEW f \in Formats, NEW p, p \subseteq 12 .. 51
  PROVE  /\ Leaf(f, p, FALSE) \subseteq 0 .. 63
         /\ Superpage(f, p, FALSE) \subseteq 0 .. 63
         /\ Frame(Leaf(f, p, FALSE)) = p
         /\ Frame(Superpage(f, p, FALSE)) = p
         /\ PS \in Superpage(f, p, FALSE)
<1> USE DEF Frame, Superpage, Leaf, first_stage_leaf, huge_page, page, v1_page, v2_page,
            PA_MASK, P, W, X, IR, IW, V2Accessed, V2Dirty, PS, Accessed, Dirty
<1>1. CASE f = "First"
  BY <1>1
<1>2. CASE f = "Second"
  BY <1>2
<1>3. CASE f = "V1"
  BY <1>3
<1>4. CASE f = "V2"
  BY <1>4
<1> QED BY <1>1, <1>2, <1>3, <1>4 DEF Formats

(* A link of any format is present, has no PS and leads to its table. *)
LEMMA LinkIs ==
  ASSUME NEW f \in Formats, NEW u, u \subseteq PA_MASK
  PROVE  /\ Link(f, u) \subseteq 0 .. 63
         /\ Frame(Link(f, u)) = u
         /\ PS \notin Link(f, u)
<1> USE DEF Frame, Link, table_entry, v2_table, PA_MASK, P, W, X, V2Accessed, PS
<1>1. CASE f = "First"
  BY <1>1
<1>2. CASE f = "Second"
  BY <1>2
<1>3. CASE f \in {"V1", "V2"}
  BY <1>3
<1> QED BY <1>1, <1>2, <1>3 DEF Formats

(* What the owner writes is well formed; a link leads to a table of the    *)
(* level below that nothing links and that is not retired.                 *)
LEMMA EntryIs ==
  ASSUME format \in Walkers, NEW t \in Tables, NEW e \in Entries(t)
  PROVE  /\ e \subseteq 0 .. 63
         /\ IsLeaf(e, LevelOf[t]) => Frame(e) \subseteq LEVEL_SHIFT[LevelOf[t]] .. 51
         /\ Present(e) /\ ~ IsLeaf(e, LevelOf[t]) =>
              /\ Frame(e) \in Tables
              /\ LevelOf[Frame(e)] = LevelOf[t] - 1
              /\ \A s \in Tables : ~ Linked(mem, s, Frame(e))
              /\ ~ Retired(Frame(e))
<1> DEFINE n == LevelOf[t]
<1>1. n \in 1 .. Levels /\ n \in 1 .. 5 /\ format \in Formats
  BY LevelType, TreeAssumption
<1>2. CASE e = EMPTY
  BY <1>2 DEF EMPTY, Frame, Present
<1>3. ASSUME NEW p \in Frames[n],
             e = IF n = 1 THEN Leaf(format, p, FALSE) ELSE Superpage(format, p, FALSE)
      PROVE  /\ e \subseteq 0 .. 63
             /\ IsLeaf(e, n) /\ Frame(e) \subseteq LEVEL_SHIFT[n] .. 51
  <2>1. p \subseteq LEVEL_SHIFT[n] .. 51 /\ LEVEL_SHIFT[n] \in 12 .. 48
    BY <1>1, FrameAssumption, ShiftType
  <2>2. p \subseteq 12 .. 51
    BY <2>1
  <2> QED BY <1>1, <1>3, <2>1, <2>2, LeafIs DEF IsLeaf
<1>4. ASSUME NEW u \in Tables, LevelOf[u] = n - 1, e = Link(format, u)
      PROVE  e \subseteq 0 .. 63 /\ Frame(e) = u /\ ~ IsLeaf(e, n)
  <2>1. u \subseteq PA_MASK /\ LevelOf[u] \in 1 .. Levels
    BY LevelType
  <2>2. e \subseteq 0 .. 63 /\ Frame(e) = u /\ PS \notin e
    BY <1>1, <1>4, <2>1, LinkIs
  <2>3. n # 1
    BY <1>1, <1>4, <2>1
  <2> QED BY <2>2, <2>3 DEF IsLeaf
<1>5. \/ e = EMPTY
      \/ \E p \in Frames[n] :
           e = IF n = 1 THEN Leaf(format, p, FALSE) ELSE Superpage(format, p, FALSE)
      \/ \E u \in Tables : /\ LevelOf[u] = n - 1
                           /\ \A s \in Tables : ~ Linked(mem, s, u)
                           /\ ~ Retired(u)
                           /\ e = Link(format, u)
  BY DEF Entries
<1> QED BY <1>2, <1>3, <1>4, <1>5

---------------------------------------------------------------------------
(* The owner's writes. *)

Stores(t, i, e) == mem' = [mem EXCEPT ![t][i] = e]

LEMMA FetchWrite ==
  ASSUME DOMAIN mem = Tables, NEW t \in Tables, NEW i \in DOMAIN mem[t], NEW e,
         Stores(t, i, e)
  PROVE  /\ DOMAIN mem' = Tables
         /\ \A s \in Tables : DOMAIN mem'[s] = DOMAIN mem[s]
         /\ \A s \in Tables : s # t => mem'[s] = mem[s]
         /\ \A s \in Tables : \A j :
              fetch(mem', s, j) = IF s = t /\ j = i THEN e ELSE fetch(mem, s, j)
<1>1. DOMAIN mem' = Tables
  BY DEF Stores
<1>2. \A s \in Tables : s # t => mem'[s] = mem[s]
  BY DEF Stores
<1>3. mem'[t] = [mem[t] EXCEPT ![i] = e]
  BY DEF Stores
<1>4. DOMAIN mem'[t] = DOMAIN mem[t]
  BY <1>3
<1>5. ASSUME NEW s \in Tables, NEW j
      PROVE  fetch(mem', s, j) = IF s = t /\ j = i THEN e ELSE fetch(mem, s, j)
  <2>1. CASE s = t
    BY <1>1, <1>3, <1>4, <2>1 DEF fetch
  <2>2. CASE s # t
    BY <1>1, <1>2, <2>2 DEF fetch
  <2> QED BY <2>1, <2>2
<1> QED BY <1>1, <1>2, <1>4, <1>5

(* A link after the write is one from before or the entry written. *)
LEMMA PointsWrite ==
  ASSUME DOMAIN mem = Tables, NEW t \in Tables, NEW i \in DOMAIN mem[t], NEW e,
         Stores(t, i, e), NEW s \in Tables, NEW j, NEW u
  PROVE  /\ ~ (s = t /\ j = i) => (PointsTo(mem', s, j, u) <=> PointsTo(mem, s, j, u))
         /\ s = t /\ j = i =>
              (PointsTo(mem', s, j, u) <=>
                 Present(e) /\ ~ IsLeaf(e, LevelOf[t]) /\ Frame(e) = u)
<1>1. fetch(mem', s, j) = IF s = t /\ j = i THEN e ELSE fetch(mem, s, j)
  BY FetchWrite
<1> QED BY <1>1 DEF PointsTo

LEMMA ShapeWrite ==
  ASSUME TypeOK, TreeShaped(mem), WellFormed(mem), NEW t \in Tables,
         NEW i \in DOMAIN mem[t], NEW e \in Entries(t), Write(t, i, e)
  PROVE  TreeShaped(mem') /\ WellFormed(mem')
<1>1. DOMAIN mem = Tables /\ Stores(t, i, e) /\ format \in Walkers
  BY DEF TypeOK, Write, Stores
<1> DEFINE n == LevelOf[t]
<1>2. /\ e \subseteq 0 .. 63
      /\ IsLeaf(e, n) => Frame(e) \subseteq LEVEL_SHIFT[n] .. 51
      /\ Present(e) /\ ~ IsLeaf(e, n) =>
           /\ Frame(e) \in Tables
           /\ LevelOf[Frame(e)] = n - 1
           /\ \A s \in Tables : ~ Linked(mem, s, Frame(e))
  BY <1>1, EntryIs
<1>3. /\ DOMAIN mem' = Tables
      /\ \A s \in Tables : DOMAIN mem'[s] = DOMAIN mem[s]
      /\ \A s \in Tables : \A j :
           fetch(mem', s, j) = IF s = t /\ j = i THEN e ELSE fetch(mem, s, j)
  BY <1>1, FetchWrite
<1>4. WellFormed(mem')
  <2>1. SUFFICES ASSUME NEW s \in Tables, NEW j \in DOMAIN mem[s]
        PROVE  /\ mem'[s][j] \subseteq 0 .. 63
               /\ Present(mem'[s][j]) =>
                    IF IsLeaf(mem'[s][j], LevelOf[s])
                    THEN Frame(mem'[s][j]) \subseteq LEVEL_SHIFT[LevelOf[s]] .. 51
                    ELSE Frame(mem'[s][j]) \in Tables
    BY <1>3 DEF WellFormed
  <2>2. mem'[s][j] = IF s = t /\ j = i THEN e ELSE mem[s][j]
    BY <1>1, <1>3 DEF fetch
  <2>3. CASE s = t /\ j = i
    BY <1>2, <2>2, <2>3
  <2>4. CASE ~ (s = t /\ j = i)
    <3>1. mem'[s][j] = mem[s][j]
      BY <2>2, <2>4
    <3> QED BY <3>1 DEF WellFormed
  <2> QED BY <2>3, <2>4
<1>5. TreeShaped(mem')
  <2>1. SUFFICES ASSUME NEW r \in Tables, NEW s \in Tables,
                        NEW k \in DOMAIN mem[r], NEW j \in DOMAIN mem[s], NEW u \in Tables,
                        PointsTo(mem', r, k, u)
                 PROVE  /\ LevelOf[u] = LevelOf[r] - 1
                        /\ PointsTo(mem', s, j, u) => s = r /\ k = j
    BY <1>3 DEF TreeShaped
  <2>2. CASE ~ (r = t /\ k = i)
    <3>1. PointsTo(mem, r, k, u)
      BY <1>1, <2>1, <2>2, PointsWrite
    <3>2. LevelOf[u] = LevelOf[r] - 1
      BY <3>1 DEF TreeShaped
    <3>3. ASSUME PointsTo(mem', s, j, u) PROVE s = r /\ k = j
      <4>1. CASE ~ (s = t /\ j = i)
        <5>1. PointsTo(mem, s, j, u)
          BY <1>1, <3>3, <4>1, PointsWrite
        <5> QED BY <3>1, <5>1 DEF TreeShaped
      <4>2. CASE s = t /\ j = i
        <5>1. Present(e) /\ ~ IsLeaf(e, n) /\ Frame(e) = u
          BY <1>1, <3>3, <4>2, PointsWrite
        <5>2. Linked(mem, r, u)
          BY <3>1 DEF Linked
        <5> QED BY <1>2, <5>1, <5>2
      <4> QED BY <4>1, <4>2
    <3> QED BY <3>2, <3>3
  <2>3. CASE r = t /\ k = i
    <3>1. Present(e) /\ ~ IsLeaf(e, n) /\ Frame(e) = u
      BY <1>1, <2>1, <2>3, PointsWrite
    <3>2. LevelOf[u] = LevelOf[r] - 1
      BY <1>2, <2>3, <3>1
    <3>3. ASSUME PointsTo(mem', s, j, u) PROVE s = r /\ k = j
      <4>1. CASE ~ (s = t /\ j = i)
        <5>1. PointsTo(mem, s, j, u)
          BY <1>1, <3>3, <4>1, PointsWrite
        <5>2. Linked(mem, s, u)
          BY <5>1 DEF Linked
        <5> QED BY <1>2, <3>1, <5>2
      <4> QED BY <2>3, <4>1
    <3> QED BY <3>2, <3>3
  <2> QED BY <2>2, <2>3
<1> QED BY <1>4, <1>5

(* What is cut off stays cut off and unchanged. *)
LEMMA DetachedStays ==
  ASSUME TypeOK, NEW t \in Tables, ~ Retired(t), NEW i \in DOMAIN mem[t],
         NEW e \in Entries(t), Write(t, i, e),
         NEW m \in seen, NEW D \in SUBSET Tables, Detached(m, D)
  PROVE  Detached(m, D)'
<1>1. DOMAIN mem = Tables /\ Stores(t, i, e) /\ format \in Walkers
  BY DEF TypeOK, Write, Stores
<1>2. t \notin D
  BY DetachedRetired
<1>3. ASSUME NEW s \in D PROVE s \in DOMAIN m /\ m[s] = mem'[s] /\ Reachable(m, s)
  <2>1. s \in DOMAIN m /\ m[s] = mem[s] /\ Reachable(m, s) /\ s \in Tables
    BY DEF Detached
  <2> QED BY <1>1, <1>2, <2>1, FetchWrite
<1>4. ASSUME NEW r \in Tables, NEW u \in Tables, Linked(mem', r, u)
      PROVE  r \in D <=> u \in D
  <2>1. PICK j \in DOMAIN mem'[r] : PointsTo(mem', r, j, u)
    BY <1>4 DEF Linked
  <2>2. CASE ~ (r = t /\ j = i)
    <3>1. PointsTo(mem, r, j, u)
      BY <1>1, <2>1, <2>2, PointsWrite
    <3>2. Linked(mem, r, u)
      BY <1>1, <3>1, LinkedIffPoints
    <3> QED BY <3>2 DEF Detached
  <2>3. CASE r = t /\ j = i
    <3>1. Present(e) /\ ~ IsLeaf(e, LevelOf[t]) /\ Frame(e) = u
      BY <1>1, <2>1, <2>3, PointsWrite
    <3>2. ~ Retired(u)
      BY <1>1, <3>1, EntryIs
    <3>3. u \notin D
      BY <3>2, DetachedRetired
    <3> QED BY <1>2, <2>3, <3>3
  <2> QED BY <2>2, <2>3
<1>5. Root \notin D
  BY DEF Detached
<1> QED BY <1>3, <1>4, <1>5 DEF Detached

(* Overwriting a link of the walk's path cuts off the table it is in: the  *)
(* tables that were reachable and no longer are.                           *)
LEMMA PathCut ==
  ASSUME TypeOK, TreeShaped(mem), WellFormed(mem),
         NEW t \in Tables, NEW i \in DOMAIN mem[t],
         NEW e \in Entries(t), Write(t, i, e),
         NEW m, m = mem, NEW c \in Chains, LeadsTo(m, c, level),
         NEW k \in (level + 1) .. Levels, t = c[k], i = index_at(vaddr, k)
  PROVE  \E D \in SUBSET Tables : c[level] \in D /\ Detached(m, D)'
<1>1. DOMAIN mem = Tables /\ Stores(t, i, e) /\ format \in Walkers
  BY DEF TypeOK, Write, Stores
<1>2. TreeShaped(mem')
  BY ShapeWrite
<1>3. level \in 1 .. Levels /\ Levels \in 1 .. 5
  BY TreeAssumption DEF TypeOK
<1>4. /\ c[Levels] = Root
      /\ \A n \in 1 .. Levels : c[n] \in Tables /\ LevelOf[c[n]] = n
  BY DEF Chains
<1>5. \A n \in (level + 1) .. Levels :
        /\ n \in 1 .. Levels /\ n - 1 \in 1 .. Levels
        /\ PointsTo(mem, c[n], index_at(vaddr, n), c[n - 1])
        /\ Linked(mem, c[n], c[n - 1])
  <2>1. SUFFICES ASSUME NEW n \in (level + 1) .. Levels
        PROVE  /\ n \in 1 .. Levels /\ n - 1 \in 1 .. Levels
               /\ PointsTo(mem, c[n], index_at(vaddr, n), c[n - 1])
               /\ Linked(mem, c[n], c[n - 1])
    OBVIOUS
  <2>2. n \in 1 .. Levels /\ n - 1 \in 1 .. Levels
    BY <1>3
  <2>3. PointsTo(mem, c[n], index_at(vaddr, n), c[n - 1])
    BY DEF LeadsTo
  <2> QED BY <1>1, <1>4, <2>2, <2>3, LinkedIffPoints
<1>6. \A n \in (level + 1) .. Levels : n # k => Linked(mem', c[n], c[n - 1])
  <2>1. SUFFICES ASSUME NEW n \in (level + 1) .. Levels, n # k
                 PROVE  Linked(mem', c[n], c[n - 1])
    OBVIOUS
  <2>2. c[n] # t /\ c[n] \in Tables
    BY <1>4, <1>5, <2>1
  <2>3. PointsTo(mem', c[n], index_at(vaddr, n), c[n - 1])
    BY <1>1, <1>5, <2>2, PointsWrite
  <2> QED BY <1>1, <2>2, <2>3, FetchWrite, LinkedIffPoints
<1>7. LevelOf[t] = k /\ Reachable(mem, t) /\ Reachable(mem', t)
  <2>1. LevelOf[t] = k /\ k \in 1 .. Levels
    BY <1>4, <1>5
  <2>2. \A n \in (k + 1) .. Levels : n \in (level + 1) .. Levels /\ n # k
    BY <1>3
  <2>3. \A n \in (k + 1) .. Levels : Linked(mem, c[n], c[n - 1]) /\ Linked(mem', c[n], c[n - 1])
    BY <1>5, <1>6, <2>2
  <2> QED BY <2>1, <2>3 DEF Reachable
<1>8. ~ Reachable(mem', c[k - 1])
  <2>1. SUFFICES ASSUME Reachable(mem', c[k - 1]) PROVE FALSE
    OBVIOUS
  <2>2. /\ k - 1 \in 1 .. Levels /\ k \in 1 .. Levels /\ LevelOf[c[k - 1]] = k - 1
        /\ c[k - 1] \in Tables /\ PointsTo(mem, t, i, c[k - 1]) /\ Linked(mem, t, c[k - 1])
    BY <1>4, <1>5
  <2>3. PICK d \in Chains :
          /\ d[k - 1] = c[k - 1]
          /\ \A n \in (k - 1 + 1) .. Levels : Linked(mem', d[n], d[n - 1])
    BY <2>1, <2>2 DEF Reachable
  <2>4. k \in (k - 1 + 1) .. Levels
    BY <1>3
  <2>5. Linked(mem', d[k], c[k - 1]) /\ d[k] \in Tables
    BY <2>2, <2>3, <2>4 DEF Chains
  <2>6. PICK j \in DOMAIN mem'[d[k]] : PointsTo(mem', d[k], j, c[k - 1])
    BY <2>5 DEF Linked
  <2>7. CASE d[k] = t /\ j = i
    <3>1. Present(e) /\ ~ IsLeaf(e, LevelOf[t]) /\ Frame(e) = c[k - 1]
      BY <1>1, <2>6, <2>7, PointsWrite
    <3> QED BY <1>1, <2>2, <3>1, EntryIs
  <2>8. CASE ~ (d[k] = t /\ j = i)
    <3>1. PointsTo(mem, d[k], j, c[k - 1])
      BY <1>1, <2>5, <2>6, <2>8, PointsWrite
    <3>2. j \in DOMAIN mem[d[k]]
      BY <1>1, <2>5, <3>1, LinkedIffPoints
    <3> QED BY <2>2, <2>5, <2>8, <3>1, <3>2 DEF TreeShaped
  <2> QED BY <2>7, <2>8
<1>9. ~ Reachable(mem', c[level])
  <2> DEFINE S == {n \in 1 .. 5 : ~ Reachable(mem', c[n])}
  <2>1. k - 1 \in S /\ k - 1 \in 1 .. 5 /\ level \in 1 .. 5 /\ level \in level .. (k - 1)
    BY <1>3, <1>8
  <2>2. \A n \in level .. (k - 1 - 1) : n + 1 \in S => n \in S
    <3>1. SUFFICES ASSUME NEW n \in level .. (k - 1 - 1), n + 1 \in S PROVE n \in S
      OBVIOUS
    <3>2. n + 1 \in (level + 1) .. Levels /\ n + 1 # k /\ n + 1 - 1 = n
          /\ n \in 1 .. Levels /\ n + 1 \in 1 .. Levels /\ n \in 1 .. 5
      BY <1>3
    <3>3. Linked(mem', c[n + 1], c[n]) /\ c[n] \in Tables /\ c[n + 1] \in Tables
      BY <1>4, <1>6, <3>2
    <3>4. Reachable(mem', c[n]) <=> Reachable(mem', c[n + 1])
      BY <1>2, <3>3, ReachUp
    <3> QED BY <3>1, <3>2, <3>4
  <2> HIDE DEF S
  <2>3. level \in S
    BY <2>1, <2>2, LevelsDown
  <2> QED BY <2>3 DEF S
<1>0. PICK D : D = {x \in Tables : Reachable(m, x) /\ ~ Reachable(mem', x)}
  OBVIOUS
<1>10. c[level] \in D
  <2>1. \A n \in (level + 1) .. Levels : Linked(mem, c[n], c[n - 1])
    BY <1>5
  <2>2. Reachable(mem, c[level])
    BY <1>3, <1>4, <2>1 DEF Reachable
  <2> QED BY <1>0, <1>3, <1>4, <1>9, <2>2
<1>11. ASSUME NEW s \in D PROVE s \in DOMAIN m /\ m[s] = mem'[s] /\ Reachable(m, s)
  BY <1>0, <1>1, <1>7, FetchWrite
<1>12. ASSUME NEW r \in Tables, NEW u \in Tables, Linked(mem', r, u)
       PROVE  r \in D <=> u \in D
  <2>1. Reachable(mem', u) <=> Reachable(mem', r)
    BY <1>2, <1>12, ReachUp
  <2>2. CASE r = t
    BY <1>0, <1>7, <2>1, <2>2
  <2>3. CASE r # t
    <3>1. PICK j \in DOMAIN mem'[r] : PointsTo(mem', r, j, u)
      BY <1>12 DEF Linked
    <3>2. PointsTo(mem, r, j, u)
      BY <1>1, <2>3, <3>1, PointsWrite
    <3>3. Linked(mem, r, u)
      BY <1>1, <3>2, LinkedIffPoints
    <3>4. Reachable(mem, u) <=> Reachable(mem, r)
      BY <3>3, ReachUp
    <3> QED BY <1>0, <2>1, <3>4
  <2> QED BY <2>2, <2>3
<1>13. Root \notin D
  BY <1>0, RootReachable
<1>14. Detached(m, D)'
  BY <1>11, <1>12, <1>13 DEF Detached
<1>15. D \in SUBSET Tables
  BY <1>0
<1> QED BY <1>10, <1>14, <1>15

---------------------------------------------------------------------------
LEMMA TypeInit == Init => TypeOK
<1> SUFFICES ASSUME Init PROVE TypeOK
  OBVIOUS
<1>1. format \in Walkers /\ mem = StartMem[format]
  BY DEF Init
<1>2. DOMAIN mem = Tables /\ WellFormed(mem)
  BY <1>1, StartAssumption
<1>3. \A t \in Tables : \A i \in DOMAIN mem[t] : mem[t][i] \subseteq 0 .. 63
  BY <1>2 DEF WellFormed
<1>4. Levels \in 1 .. Levels /\ 0 \in 0 .. MaxWrites
  BY TreeAssumption, MaxWritesAssumption
<1> QED BY <1>1, <1>2, <1>3, <1>4 DEF Init, TypeOK

LEMMA TypeStep == TypeOK /\ [Next]_vars => TypeOK'
<1> SUFFICES ASSUME TypeOK, [Next]_vars PROVE TypeOK'
  OBVIOUS
<1>0. Levels \in 1 .. 5 /\ level \in 1 .. Levels /\ MaxWrites \in Nat
  BY TreeAssumption, MaxWritesAssumption DEF TypeOK
<1>1. ASSUME NEW t \in Tables, NEW i \in DOMAIN mem[t], NEW e \in Entries(t), Write(t, i, e)
      PROVE  TypeOK'
  <2>1. DOMAIN mem = Tables /\ Stores(t, i, e) /\ format \in Walkers
    BY <1>1 DEF TypeOK, Write, Stores
  <2>2. e \subseteq 0 .. 63
    BY <2>1, EntryIs
  <2>3. /\ DOMAIN mem' = Tables
        /\ \A s \in Tables : DOMAIN mem'[s] = DOMAIN mem[s]
        /\ \A s \in Tables : \A j :
             fetch(mem', s, j) = IF s = t /\ j = i THEN e ELSE fetch(mem, s, j)
    BY <2>1, FetchWrite
  <2>4. ASSUME NEW s \in Tables, NEW j \in DOMAIN mem'[s] PROVE mem'[s][j] \subseteq 0 .. 63
    <3>1. mem'[s][j] = IF s = t /\ j = i THEN e ELSE mem[s][j]
      BY <2>1, <2>3 DEF fetch
    <3>2. mem[s][j] \subseteq 0 .. 63
      BY <2>3 DEF TypeOK
    <3> QED BY <2>2, <3>1, <3>2
  <2>5. writes' \in 0 .. MaxWrites
    BY <1>0, <1>1 DEF TypeOK, Write
  <2> QED BY <1>1, <2>3, <2>4, <2>5 DEF TypeOK, Write
<1>2. ASSUME NEW v \in Addrs, Reject(v) PROVE TypeOK'
  BY <1>2, TreeAssumption DEF TypeOK, Reject
<1>3. ASSUME NEW v \in Addrs, Enter(v) PROVE TypeOK'
  BY <1>0, <1>3, TreeAssumption DEF TypeOK, Enter
<1>4. CASE Miss
  BY <1>4 DEF TypeOK, Miss, Answer
<1>5. CASE Hit
  BY <1>5 DEF TypeOK, Hit, Answer
<1>6. CASE Descend
  <2>1. level - 1 \in 1 .. Levels
    BY <1>0, <1>6 DEF Descend, IsLeaf
  <2> QED BY <1>6, <2>1 DEF TypeOK, Descend
<1>7. CASE Return
  BY <1>0, <1>7 DEF TypeOK, Return
<1>8. CASE UNCHANGED vars
  BY <1>8 DEF TypeOK, vars
<1> QED BY <1>1, <1>2, <1>3, <1>4, <1>5, <1>6, <1>7, <1>8 DEF Next, Owner

(* PageWalk.TypeOK: entries stay words, and the loop of walk() ends before *)
(* level 0, where the code has its unreachable!().                         *)
THEOREM TypeCorrect == Spec => []TypeOK
  BY TypeInit, TypeStep, PTL DEF Spec

---------------------------------------------------------------------------
(* An owner's write during a call keeps the walk's position explicable. *)
LEMMA WalkInvOwner ==
  ASSUME Inv, NEW t \in Tables, ~ Retired(t), NEW i \in DOMAIN mem[t],
         NEW e \in Entries(t), Write(t, i, e)
  PROVE  WalkInv'
<1> SUFFICES ASSUME pc = "walking" PROVE WalkInv'
  BY DEF WalkInv, Write
<1>1. /\ DOMAIN mem = Tables /\ Stores(t, i, e) /\ format \in Walkers
      /\ TypeOK /\ TreeShaped(mem) /\ WellFormed(mem)
  BY DEF Inv, TypeOK, Write, Stores
<1>2. pc' = "walking" /\ vaddr' = vaddr /\ table' = table /\ level' = level
      /\ seen' = seen \cup {mem'}
  BY DEF Write
<1>3. PICK m \in seen, c \in Chains :
        /\ c[level] = table
        /\ LeadsTo(m, c, level)
        /\ \/ m = mem
           \/ \E D \in SUBSET Tables : table \in D /\ Detached(m, D)
  BY DEF Inv, WalkInv
<1>4. \A x : LeadsTo(x, c, level)' <=>
             \A k \in (level + 1) .. Levels : PointsTo(x, c[k], index_at(vaddr, k), c[k - 1])
  BY <1>2 DEF LeadsTo
<1>5. LeadsTo(m, c, level)'
  BY <1>3, <1>4 DEF LeadsTo
<1>6. CASE \E D \in SUBSET Tables : table \in D /\ Detached(m, D)
  <2>1. PICK D \in SUBSET Tables : table \in D /\ Detached(m, D)
    BY <1>6
  <2>2. Detached(m, D)'
    BY <1>1, <2>1, DetachedStays
  <2> QED BY <1>2, <1>3, <1>5, <2>1, <2>2 DEF WalkInv
<1>7. CASE m = mem /\ \E k \in (level + 1) .. Levels : t = c[k] /\ i = index_at(vaddr, k)
  <2>1. PICK k \in (level + 1) .. Levels : t = c[k] /\ i = index_at(vaddr, k)
    BY <1>7
  <2>2. PICK D \in SUBSET Tables : c[level] \in D /\ Detached(m, D)'
    BY <1>1, <1>3, <1>7, <2>1, PathCut
  <2> QED BY <1>2, <1>3, <1>5, <2>2 DEF WalkInv
<1>8. CASE m = mem /\ ~ \E k \in (level + 1) .. Levels : t = c[k] /\ i = index_at(vaddr, k)
  <2>1. ASSUME NEW k \in (level + 1) .. Levels
        PROVE  PointsTo(mem', c[k], index_at(vaddr, k), c[k - 1])
    <3>1. PointsTo(mem, c[k], index_at(vaddr, k), c[k - 1])
      BY <1>3, <1>8 DEF LeadsTo
    <3>2. level \in 1 .. Levels /\ Levels \in 1 .. 5
      BY <1>1, TreeAssumption DEF TypeOK
    <3>3. k \in 1 .. Levels
      BY <3>2
    <3>4. c[k] \in Tables
      BY <3>3 DEF Chains
    <3> QED BY <1>1, <1>8, <3>1, <3>4, PointsWrite
  <2>2. PICK x : x = mem'
    OBVIOUS
  <2>3. LeadsTo(x, c, level)'
    BY <1>4, <2>1, <2>2
  <2> QED BY <1>2, <1>3, <2>2, <2>3 DEF WalkInv
<1> QED BY <1>3, <1>6, <1>7, <1>8

(* What the walk reads now is what memory m holds. *)
LEMMA ReadsOneMemory ==
  ASSUME Inv, pc = "walking"
  PROVE  \E m \in seen : \E c \in Chains :
           /\ c[level] = table /\ table \in Tables /\ LevelOf[table] = level
           /\ LeadsTo(m, c, level)
           /\ Entry = fetch(m, table, index_at(vaddr, level))
           /\ \/ m = mem
              \/ \E D \in SUBSET Tables : table \in D /\ Detached(m, D)
<1>1. PICK m \in seen, c \in Chains :
        /\ c[level] = table
        /\ LeadsTo(m, c, level)
        /\ \/ m = mem
           \/ \E D \in SUBSET Tables : table \in D /\ Detached(m, D)
  BY DEF Inv, WalkInv
<1>2. level \in 1 .. Levels /\ DOMAIN mem = Tables
  BY DEF Inv, TypeOK
<1>3. table \in Tables /\ LevelOf[table] = level
  BY <1>1, <1>2 DEF Chains
<1>4. Entry = fetch(m, table, index_at(vaddr, level))
  <2>1. CASE m = mem
    BY <2>1 DEF Entry
  <2>2. CASE \E D \in SUBSET Tables : table \in D /\ Detached(m, D)
    <3>1. table \in DOMAIN m /\ m[table] = mem[table]
      BY <2>2 DEF Detached
    <3> QED BY <1>2, <1>3, <3>1 DEF Entry, fetch
  <2> QED BY <1>1, <2>1, <2>2
<1> QED BY <1>1, <1>3, <1>4

(* A present entry is a word of the table the walk is in. *)
LEMMA EntryWellFormed ==
  ASSUME Inv, table \in Tables, LevelOf[table] = level, Present(Entry)
  PROVE  IF IsLeaf(Entry, level)
         THEN Frame(Entry) \subseteq LEVEL_SHIFT[level] .. 51
         ELSE Frame(Entry) \in Tables /\ Linked(mem, table, Frame(Entry))
                /\ LevelOf[Frame(Entry)] = level - 1
<1> DEFINE i == index_at(vaddr, level)
<1>1. i \in DOMAIN mem[table] /\ Entry = mem[table][i]
  BY DEF Entry, fetch, EMPTY, Present
<1>2. IF IsLeaf(Entry, level)
      THEN Frame(Entry) \subseteq LEVEL_SHIFT[level] .. 51
      ELSE Frame(Entry) \in Tables
  BY <1>1 DEF Inv, WellFormed
<1>3. CASE ~ IsLeaf(Entry, level)
  <2>1. Frame(Entry) \in Tables
    BY <1>2, <1>3
  <2>2. PointsTo(mem, table, i, Frame(Entry))
    BY <1>3 DEF PointsTo, Entry
  <2>3. Linked(mem, table, Frame(Entry))
    BY <1>1, <2>2 DEF Linked
  <2>4. LevelOf[Frame(Entry)] = level - 1
    BY <2>1, <2>3, OneParent DEF Inv
  <2> QED BY <1>3, <2>1, <2>3, <2>4
<1> QED BY <1>2, <1>3

(* A leaf's result is what the leaf maps. *)
LEMMA HitMaps ==
  ASSUME NEW n \in 1 .. 5, NEW e, NEW v, NEW f \in Formats,
         Present(e), IsLeaf(e, n), Frame(e) \subseteq LEVEL_SHIFT[n] .. 51
  PROVE  /\ "physical" \in DOMAIN WalkResult(f, v, e, n)
         /\ Maps(v, e, n, WalkResult(f, v, e, n))
<1> DEFINE a == WalkResult(f, v, e, n)
<1>1. /\ DOMAIN a = {"physical", "level", "perms", "huge"}
      /\ a.physical = Frame(e) \cup (v \cap (0 .. (LEVEL_SHIFT[n] - 1)))
      /\ a.level = n
      /\ a.perms = Perms(f, e)
      /\ a.huge = (PS \in e /\ n > 1)
  BY DEF WalkResult
<1>2. LEVEL_SHIFT[n] \in 12 .. 48
  BY ShiftType
<1>3. n = 1 \/ PS \in e
  BY DEF IsLeaf
<1>4. ASSUME NEW b \in 0 .. 63
      PROVE  b \in a.physical <=>
               IF b < LEVEL_SHIFT[n] THEN b \in v ELSE b \in e \cap PA_MASK
  <2>1. b \in a.physical <=> b \in Frame(e) \/ (b \in v /\ b \in 0 .. (LEVEL_SHIFT[n] - 1))
    BY <1>1
  <2>2. b \in Frame(e) => ~ (b < LEVEL_SHIFT[n])
    BY <1>2
  <2>3. b \in 0 .. (LEVEL_SHIFT[n] - 1) <=> b < LEVEL_SHIFT[n]
    BY <1>2
  <2> QED BY <2>1, <2>2, <2>3 DEF Frame
<1>5. a.huge = (n > 1)
  BY <1>1, <1>3
<1>6. a.perms \cap IntelPerm = e \cap IntelPerm
  BY <1>1 DEF Perms
<1> HIDE DEF a
<1>7. Maps(v, e, n, a)
  BY <1>1, <1>3, <1>4, <1>5, <1>6 DEF Maps
<1> QED BY <1>1, <1>7 DEF a

(* The answer is what that memory gives. *)
LEMMA AnswerResolves ==
  ASSUME Inv, Miss \/ Hit
  PROVE  \E m \in seen : Resolves(m, vaddr, answer')
<1>1. pc = "walking" /\ level \in 1 .. Levels /\ Levels \in 1 .. 5 /\ format \in Formats
  BY TreeAssumption DEF Inv, TypeOK, Miss, Hit
<1>2. PICK m \in seen, c \in Chains :
        /\ c[level] = table /\ table \in Tables /\ LevelOf[table] = level
        /\ LeadsTo(m, c, level)
        /\ Entry = fetch(m, table, index_at(vaddr, level))
  BY <1>1, ReadsOneMemory
<1>3. \/ ~ Present(Entry) /\ answer' = NotPresent(level)
      \/ "physical" \in DOMAIN answer' /\ Maps(vaddr, Entry, level, answer')
  <2>1. CASE Miss
    BY <2>1 DEF Miss, Answer
  <2>2. CASE Hit
    <3>1. Present(Entry) /\ IsLeaf(Entry, level)
          /\ answer' = WalkResult(format, vaddr, Entry, level)
      BY <2>2 DEF Hit, Answer
    <3>2. Frame(Entry) \subseteq LEVEL_SHIFT[level] .. 51
      BY <1>2, <3>1, EntryWellFormed
    <3>3. level \in 1 .. 5
      BY <1>1
    <3> QED BY <1>1, <3>1, <3>2, <3>3, HitMaps
  <2> QED BY <2>1, <2>2
<1>4. Resolves(m, vaddr, answer')
  BY <1>1, <1>2, <1>3 DEF Resolves, LeadsTo
<1> QED BY <1>4

LEMMA WalkInvDescend ==
  ASSUME Inv, Descend
  PROVE  WalkInv'
<1>1. /\ pc = "walking" /\ pc' = "walking" /\ vaddr' = vaddr /\ mem' = mem /\ seen' = seen
      /\ Present(Entry) /\ ~ IsLeaf(Entry, level)
      /\ table' = Frame(Entry) /\ level' = level - 1
  BY DEF Descend
<1>2. level \in 1 .. Levels /\ Levels \in 1 .. 5
  BY TreeAssumption DEF Inv, TypeOK
<1>3. PICK m \in seen, c \in Chains :
        /\ c[level] = table /\ table \in Tables /\ LevelOf[table] = level
        /\ LeadsTo(m, c, level)
        /\ Entry = fetch(m, table, index_at(vaddr, level))
        /\ \/ m = mem
           \/ \E D \in SUBSET Tables : table \in D /\ Detached(m, D)
  BY <1>1, ReadsOneMemory
<1>4. PICK u : u = Frame(Entry)
  OBVIOUS
<1>5. u \in Tables /\ Linked(mem, table, u) /\ LevelOf[u] = level - 1
  BY <1>1, <1>3, <1>4, EntryWellFormed
<1>6. level - 1 \in 1 .. Levels /\ level - 1 # Levels
  BY <1>2, <1>5, LevelType
<1>7. PICK d \in Chains : d[level - 1] = u /\ \A n \in 1 .. Levels : n # level - 1 => d[n] = c[n]
  <2>1. u # Root => LevelOf[u] # Levels
    BY <1>5, <1>6
  <2>2. /\ [c EXCEPT ![LevelOf[u]] = u] \in Chains
        /\ [c EXCEPT ![LevelOf[u]] = u][LevelOf[u]] = u
        /\ \A n \in 1 .. Levels : n # LevelOf[u] => [c EXCEPT ![LevelOf[u]] = u][n] = c[n]
    BY <1>5, <2>1, ChainExcept
  <2> QED BY <1>5, <2>2, Zenon
<1>8. ASSUME NEW k \in level .. Levels
      PROVE  PointsTo(m, d[k], index_at(vaddr, k), d[k - 1])
  <2>1. CASE k = level
    <3>1. d[k] = table /\ d[k - 1] = u
      BY <1>2, <1>3, <1>7, <2>1
    <3>2. PointsTo(m, table, index_at(vaddr, level), u)
      BY <1>1, <1>3, <1>4 DEF PointsTo
    <3> QED BY <2>1, <3>1, <3>2
  <2>2. CASE k # level
    <3>1. k \in (level + 1) .. Levels /\ k \in 1 .. Levels /\ k - 1 \in 1 .. Levels
          /\ k # level - 1 /\ k - 1 # level - 1
      BY <1>2, <2>2
    <3>2. d[k] = c[k] /\ d[k - 1] = c[k - 1]
      BY <1>7, <3>1
    <3> QED BY <1>3, <3>1, <3>2 DEF LeadsTo
  <2> QED BY <2>1, <2>2
<1>9. LeadsTo(m, d, level)'
  <2>1. level - 1 + 1 = level
    BY <1>2
  <2> QED BY <1>1, <1>8, <2>1 DEF LeadsTo
<1>10. d[level]' = table'
  BY <1>1, <1>4, <1>7
<1>11. \/ m = mem'
       \/ \E D \in SUBSET Tables : table' \in D /\ Detached(m, D)'
  <2>1. CASE m = mem
    BY <1>1, <2>1
  <2>2. CASE \E D \in SUBSET Tables : table \in D /\ Detached(m, D)
    <3>1. PICK D \in SUBSET Tables : table \in D /\ Detached(m, D)
      BY <2>2
    <3>2. u \in D
      BY <1>3, <1>5, <3>1 DEF Detached
    <3>3. Detached(m, D)'
      BY <1>1, <3>1 DEF Detached
    <3> QED BY <1>1, <1>4, <3>2, <3>3
  <2> QED BY <1>3, <2>1, <2>2
<1> QED BY <1>1, <1>3, <1>9, <1>10, <1>11 DEF WalkInv

LEMMA WalkInvEnter ==
  ASSUME NEW v, Enter(v)
  PROVE  WalkInv'
<1>1. pc' = "walking" /\ table' = Root /\ level' = Levels /\ seen' = {mem} /\ mem' = mem
  BY DEF Enter
<1>2. PICK c \in Chains : TRUE
  BY SomeChain
<1>3. c[Levels] = Root /\ Levels \in 1 .. 5 /\ (Levels + 1) .. Levels = {}
  BY TreeAssumption DEF Chains
<1>4. PICK m : m = mem
  OBVIOUS
<1>5. LeadsTo(m, c, level)'
  BY <1>1, <1>3 DEF LeadsTo
<1> QED BY <1>1, <1>3, <1>4, <1>5 DEF WalkInv

---------------------------------------------------------------------------
LEMMA InvInit == Init => Inv
<1> SUFFICES ASSUME Init PROVE Inv
  OBVIOUS
<1>1. format \in Walkers /\ mem = StartMem[format] /\ pc = "idle"
  BY DEF Init
<1>2. TreeShaped(mem) /\ WellFormed(mem)
  BY <1>1, StartAssumption
<1>3. WalkInv /\ Linearizable
  BY <1>1 DEF WalkInv, Linearizable
<1> QED BY <1>2, <1>3, TypeInit DEF Inv

LEMMA InvStep == Inv /\ [Next]_vars => Inv'
<1> SUFFICES ASSUME Inv, [Next]_vars PROVE Inv'
  OBVIOUS
<1>0. TypeOK'
  BY TypeStep DEF Inv
<1>1. ASSUME NEW t \in Tables, ~ Retired(t), NEW i \in DOMAIN mem[t],
             NEW e \in Entries(t), Write(t, i, e)
      PROVE  Inv'
  <2>1. TreeShaped(mem') /\ WellFormed(mem')
    BY <1>1, ShapeWrite DEF Inv
  <2>2. WalkInv'
    BY <1>1, WalkInvOwner
  <2>3. Linearizable'
    BY <1>1 DEF Inv, Linearizable, Write
  <2> QED BY <1>0, <2>1, <2>2, <2>3 DEF Inv
<1>2. ASSUME NEW v \in Addrs, Reject(v) PROVE Inv'
  <2>1. mem' = mem /\ pc' = "done" /\ answer' = AddressTooLarge(Levels)
    BY <1>2 DEF Reject
  <2> QED BY <1>0, <2>1 DEF Inv, WalkInv, Linearizable
<1>3. ASSUME NEW v \in Addrs, Enter(v) PROVE Inv'
  <2>1. mem' = mem /\ pc' = "walking" /\ WalkInv'
    BY <1>3, WalkInvEnter DEF Enter
  <2> QED BY <1>0, <2>1 DEF Inv, Linearizable
<1>4. CASE Miss \/ Hit
  <2>1. mem' = mem /\ pc' = "done" /\ seen' = seen /\ vaddr' = vaddr
    BY <1>4 DEF Miss, Hit, Answer
  <2>2. \E m \in seen : Resolves(m, vaddr, answer')
    BY <1>4, AnswerResolves
  <2>3. Linearizable'
    BY <2>1, <2>2 DEF Linearizable
  <2> QED BY <1>0, <2>1, <2>3 DEF Inv, WalkInv
<1>5. CASE Descend
  <2>1. mem' = mem /\ pc' = "walking" /\ WalkInv'
    BY <1>5, WalkInvDescend DEF Descend
  <2> QED BY <1>0, <2>1 DEF Inv, Linearizable
<1>6. CASE Return
  <2>1. mem' = mem /\ pc' = "idle"
    BY <1>6 DEF Return
  <2> QED BY <1>0, <2>1 DEF Inv, WalkInv, Linearizable
<1>7. CASE UNCHANGED vars
  <2>1. WalkInv'
    BY <1>7 DEF Inv, WalkInv, vars, LeadsTo, Detached
  <2>2. Linearizable'
    BY <1>7 DEF Inv, Linearizable, vars
  <2> QED BY <1>0, <1>7, <2>1, <2>2 DEF Inv, vars
<1> QED BY <1>1, <1>2, <1>3, <1>4, <1>5, <1>6, <1>7 DEF Next, Owner

(* Inv holds throughout, for every tree and every interleaving. *)
LEMMA Inductive == Spec => []Inv
  BY InvInit, InvStep, PTL DEF Spec

(* PageWalk.ReadsOnlyTables: however the owner interleaves its writes,     *)
(* walk() never takes a mapped frame, or a table of another level, for the *)
(* next table.                                                             *)
THEOREM WalkStaysInTables == Spec => []ReadsOnlyTables
<1>1. Inv => ReadsOnlyTables
  BY ReadsOneMemory DEF ReadsOnlyTables
<1> QED BY <1>1, Inductive, PTL

(* PageWalk.Linearizable: walk() answers what some single memory, current  *)
(* at an instant of the call, gives for the address.                       *)
THEOREM WalkLinearizable == Spec => []Linearizable
<1>1. Inv => Linearizable
  BY DEF Inv
<1> QED BY <1>1, Inductive, PTL
=============================================================================
