----------------------------- MODULE PageWalk -----------------------------
(***************************************************************************)
(* walk() of both crates against tables that their owner is changing.      *)
(* walk() keeps nothing but the current table and level and calls `fetch'  *)
(* once per level, each time for the entry's current value, so the owner   *)
(* can change the tree between two fetches.  One action per iteration of   *)
(* the loop; the owner writes one 64-bit entry at a time.                  *)
(*                                                                         *)
(* The owner is the caller of the crates ("the caller owns table           *)
(* storage").  It keeps the tables a tree and leaves a table that it has   *)
(* unlinked alone until the walk that may still be inside it has returned. *)
(***************************************************************************)
EXTENDS PageTables

CONSTANTS
  Walkers,    \* the formats walked
  Levels,     \* depth of the tree (the argument `levels')
  Tables,     \* addresses of the tables
  Root,       \* the argument `root'
  LevelOf,    \* LevelOf[t]: the level table t is used at
  Addrs,      \* addresses to translate
  Frames,     \* Frames[n]: addresses a leaf of level n may map
  StartMem,   \* StartMem[f]: the entries when the model starts
  MaxWrites   \* bound on the owner's writes

VARIABLES
  format,     \* format of the tree
  mem,        \* mem[t][i]: entry i of table t
  writes,     \* writes so far
  pc,         \* "idle", "walking" or "done"
  vaddr,      \* argument of the current call
  table,      \* local variables of walk()
  level,
  answer,     \* its result
  seen        \* history: the memories that existed during the call

vars == <<format, mem, writes, pc, vaddr, table, level, answer, seen>>

ASSUME TreeAssumption ==
  /\ Levels \in 1 .. 5
  /\ Walkers \subseteq Formats
  /\ Root \in Tables /\ LevelOf[Root] = Levels
  /\ \A n \in 1 .. Levels : \E t \in Tables : LevelOf[t] = n
  /\ \A t \in Tables : LevelOf[t] \in 1 .. Levels /\ t \subseteq PA_MASK
  /\ \A v \in Addrs : v \subseteq 0 .. 63

(* A leaf of level n maps 2^LEVEL_SHIFT[n] bytes at a multiple of that. *)
ASSUME FrameAssumption ==
  \A n \in 1 .. Levels : \A p \in Frames[n] : p \subseteq LEVEL_SHIFT[n] .. 51

ASSUME MaxWritesAssumption == MaxWrites \in Nat

(* fetch(table + (index << 3)): tables are 4 KiB aligned and an index has  *)
(* nine bits, so the address is as good as the pair of the two.            *)
fetch(m, t, index) ==
  IF t \in DOMAIN m /\ index \in DOMAIN m[t] THEN m[t][index] ELSE EMPTY

---------------------------------------------------------------------------
(* The owner's view of the tree. *)

(* Entry i of table t links table u. *)
PointsTo(m, t, i, u) ==
  /\ Present(fetch(m, t, i))
  /\ ~ IsLeaf(fetch(m, t, i), LevelOf[t])
  /\ Frame(fetch(m, t, i)) = u

Linked(m, t, u) == \E i \in DOMAIN m[t] : PointsTo(m, t, i, u)

(* Each table is linked from at most one entry, and only by a table of the *)
(* level above.                                                            *)
TreeShaped(m) ==
  \A t, s \in Tables : \A i \in DOMAIN m[t], j \in DOMAIN m[s] : \A u \in Tables :
    PointsTo(m, t, i, u) =>
      /\ LevelOf[u] = LevelOf[t] - 1
      /\ PointsTo(m, s, j, u) => s = t /\ i = j

(* Entries are words; a link leads to a table and a leaf of level n maps   *)
(* an address that its size divides.                                       *)
WellFormed(m) ==
  \A t \in Tables : \A i \in DOMAIN m[t] :
    /\ m[t][i] \subseteq 0 .. 63
    /\ Present(m[t][i]) =>
         IF IsLeaf(m[t][i], LevelOf[t])
         THEN Frame(m[t][i]) \subseteq LEVEL_SHIFT[LevelOf[t]] .. 51
         ELSE Frame(m[t][i]) \in Tables

ASSUME StartAssumption ==
  \A f \in Walkers :
    DOMAIN StartMem[f] = Tables /\ TreeShaped(StartMem[f]) /\ WellFormed(StartMem[f])

(* The chains of tables, one per level, that a walk could go through. *)
Chains ==
  {c \in [1 .. Levels -> Tables] : c[Levels] = Root /\ \A n \in 1 .. Levels : LevelOf[c[n]] = n}

(* Some chain of links leads from the root to t. *)
Reachable(m, t) ==
  \E c \in Chains :
    /\ c[LevelOf[t]] = t
    /\ \A n \in (LevelOf[t] + 1) .. Levels : Linked(m, c[n], c[n - 1])

(* A walk in progress may have entered t before t was unlinked. *)
Retired(t) ==
  /\ ~ Reachable(mem, t)
  /\ \E m \in seen : Reachable(m, t)

(* What the owner may write to an entry of table t.  Its leaves are        *)
(* read-only; the walkers report the write bit and never look at it.       *)
Entries(t) ==
  LET n == LevelOf[t]
      free == {u \in Tables : /\ LevelOf[u] = n - 1
                              /\ \A s \in Tables : ~ Linked(mem, s, u)
                              /\ ~ Retired(u)}
  IN  {EMPTY}
        \cup {IF n = 1 THEN Leaf(format, p, FALSE) ELSE Superpage(format, p, FALSE) :
                p \in Frames[n]}
        \cup {Link(format, u) : u \in free}

Write(t, i, e) ==
  /\ writes < MaxWrites
  /\ e # mem[t][i]
  /\ mem' = [mem EXCEPT ![t][i] = e]
  /\ writes' = writes + 1
  /\ seen' = IF pc = "walking" THEN seen \cup {mem'} ELSE seen
  /\ UNCHANGED <<format, pc, vaddr, table, level, answer>>

---------------------------------------------------------------------------
(* walk() *)

TooWide(v) == \E b \in v : b >= addr_bits(Levels)

(* The width check is made for these formats only. *)
Checked == {"Second", "V2"}

Reject(v) ==
  /\ pc = "idle"
  /\ TooWide(v) /\ format \in Checked
  /\ pc' = "done"
  /\ vaddr' = v
  /\ answer' = AddressTooLarge(Levels)
  /\ UNCHANGED <<format, mem, writes, table, level, seen>>

Enter(v) ==
  /\ pc = "idle"
  /\ ~ (TooWide(v) /\ format \in Checked)
  /\ pc' = "walking"
  /\ vaddr' = v
  /\ table' = Root
  /\ level' = Levels
  /\ seen' = {mem}
  /\ UNCHANGED <<format, mem, writes, answer>>

Entry == fetch(mem, table, index_at(vaddr, level))

Answer(a) ==
  /\ pc' = "done"
  /\ answer' = a
  /\ UNCHANGED <<format, mem, writes, vaddr, table, level, seen>>

Miss ==
  /\ pc = "walking" /\ level > 0
  /\ ~ Present(Entry)
  /\ Answer(NotPresent(level))

(* A slip: PS alone makes a leaf. *)
HitPageSizeOnly ==
  /\ pc = "walking" /\ level > 0
  /\ Present(Entry) /\ PS \in Entry
  /\ Answer(WalkResult(format, vaddr, Entry, level))

Hit ==
  /\ pc = "walking" /\ level > 0
  /\ Present(Entry) /\ IsLeaf(Entry, level)
  /\ Answer(WalkResult(format, vaddr, Entry, level))

(* A slip: every present entry is taken for the address of a table. *)
DescendAnyway ==
  /\ pc = "walking" /\ level > 0
  /\ Present(Entry)
  /\ table' = Frame(Entry)
  /\ level' = level - 1
  /\ UNCHANGED <<format, mem, writes, pc, vaddr, answer, seen>>

Descend ==
  /\ pc = "walking" /\ level > 0
  /\ Present(Entry) /\ ~ IsLeaf(Entry, level)
  /\ table' = Frame(Entry)
  /\ level' = level - 1
  /\ UNCHANGED <<format, mem, writes, pc, vaddr, answer, seen>>

Walk == Miss \/ Hit \/ Descend

(* The caller takes the answer, the locals die, and what the owner has     *)
(* unlinked it may reuse from now on.                                      *)
Return ==
  /\ pc = "done"
  /\ pc' = "idle"
  /\ vaddr' = {} /\ table' = Root /\ level' = Levels
  /\ answer' = NotPresent(Levels)
  /\ seen' = {}
  /\ UNCHANGED <<format, mem, writes>>

---------------------------------------------------------------------------
Init ==
  /\ format \in Walkers
  /\ mem = StartMem[format]
  /\ writes = 0
  /\ pc = "idle"
  /\ vaddr = {}
  /\ table = Root
  /\ level = Levels
  /\ answer = NotPresent(Levels)
  /\ seen = {}

Owner ==
  \E t \in Tables :
    /\ ~ Retired(t)
    /\ \E i \in DOMAIN mem[t], e \in Entries(t) : Write(t, i, e)

Next ==
  \/ Owner
  \/ \E v \in Addrs : Reject(v)
  \/ \E v \in Addrs : Enter(v)
  \/ Miss
  \/ Hit
  \/ Descend
  \/ Return

(* walk() is a loop that nothing blocks: a started call keeps running. *)
Fairness == WF_vars(Walk)

Spec == Init /\ [][Next]_vars /\ Fairness

---------------------------------------------------------------------------
TypeOK ==
  /\ format \in Walkers
  /\ DOMAIN mem = Tables
  /\ \A t \in Tables : \A i \in DOMAIN mem[t] : mem[t][i] \subseteq 0 .. 63
  /\ writes \in 0 .. MaxWrites
  /\ pc \in {"idle", "walking", "done"}
  /\ vaddr \subseteq 0 .. 63
  /\ level \in 1 .. Levels

(* However the owner interleaves its writes, walk() reads entries only of  *)
(* tables, at the level the table belongs to: it never takes a mapped      *)
(* frame, or a table of another level, for the next table.                 *)
ReadsOnlyTables ==
  pc = "walking" => table \in Tables /\ LevelOf[table] = level

(* What an address translates to, stated without the loop: a leaf of level *)
(* n replaces the bits from LEVEL_SHIFT[n] up and keeps those below.       *)
Maps(v, e, n, a) ==
  /\ Present(e)
  /\ n = 1 \/ PS \in e
  /\ \A b \in 0 .. 63 :
       b \in a.physical <=> IF b < LEVEL_SHIFT[n] THEN b \in v ELSE b \in e \cap PA_MASK
  /\ a.level = n /\ a.huge = (n > 1)
  /\ a.perms \cap IntelPerm = e \cap IntelPerm

Resolves(m, v, a) ==
  \E c \in Chains : \E n \in 1 .. Levels :
    /\ \A k \in (n + 1) .. Levels : PointsTo(m, c[k], index_at(v, k), c[k - 1])
    /\ LET e == fetch(m, c[n], index_at(v, n))
       IN  \/ ~ Present(e) /\ a = NotPresent(n)
           \/ "physical" \in DOMAIN a /\ Maps(v, e, n, a)

(* walk() is linearizable: although it reads the levels one by one, its    *)
(* answer is the one that some single memory, current at an instant of the *)
(* call, gives for the address.  It is never a mixture of an old and a new *)
(* tree.                                                                   *)
Linearizable ==
  pc = "done" =>
    \/ answer = AddressTooLarge(Levels)
    \/ \E m \in seen : Resolves(m, vaddr, answer)

(* Every call returns: the loop never reaches its unreachable!(), not even *)
(* while the owner keeps writing.                                          *)
Terminates == pc = "walking" ~> pc = "done"

(* amd-iommu says of walk() that it keeps the width check for v1 as well   *)
(* as for v2: an address beyond the tree's width is always refused.        *)
WideAddressesRefused ==
  pc = "done" /\ TooWide(vaddr) => answer = AddressTooLarge(Levels)
===========================================================================
