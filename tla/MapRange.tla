----------------------------- MODULE MapRange -----------------------------
(***************************************************************************)
(* MapRange (intel-iommu pagetables.rs): the iterator that cuts a mapping  *)
(* request into 4 KiB leaf entries, and the caller that stores each one in *)
(* the lowest-level table before it asks for the next.  The caller has     *)
(* made the tables above present, so a walk of guest address a ends at the *)
(* entry the caller stored for a's page.                                   *)
(*                                                                         *)
(* Addresses are numbers here, because the iterator adds; ToWord gives the *)
(* word that the entry builders and the walker work on.                    *)
(***************************************************************************)
EXTENDS PageTables

CONSTANT Requests   \* records [guest_base, host_base, len, perms]

VARIABLES
  req,      \* the request
  i,        \* pages the iterator has yielded
  leaf      \* guest page number -> entry stored by the caller

vars == <<req, i, leaf>>

PageSize == 4096

ASSUME RequestAssumption ==
  \A r \in Requests :
    /\ r.guest_base \in Nat /\ r.host_base \in Nat /\ r.len \in Nat
    /\ r.perms \subseteq IntelPerm

(* Bit b of number n. *)
Bit(n, b) == (n \div 2 ^ b) % 2

ToWord(n) == {b \in 0 .. 30 : Bit(n, b) = 1}

(* A slip: a length that is not a multiple of 4 KiB is rounded down. *)
page_count_floor(r) == r.len \div PageSize

(* self.len.div_ceil(4096) *)
page_count(r) == (r.len + PageSize - 1) \div PageSize

(* A slip: the entry is written before the host address is advanced. *)
LeafAtLag(r, n) ==
  [guest |-> r.guest_base + n * PageSize,
   pte   |-> page(ToWord(r.host_base + (IF n = 0 THEN 0 ELSE n - 1) * PageSize), r.perms)]

(* The n-th triple of leaves(), without the host page it repeats. *)
LeafAt(r, n) ==
  [guest |-> r.guest_base + n * PageSize,
   pte   |-> page(ToWord(r.host_base + n * PageSize), r.perms)]

Init ==
  /\ req \in Requests
  /\ i = 0
  /\ leaf = << >>

(* leaf after the caller has stored pte for guest page g. *)
Stored(g, pte) == [h \in DOMAIN leaf \cup {g} |-> IF h = g THEN pte ELSE leaf[h]]

(* A slip: the range 0..=pages. *)
YieldOneMore ==
  /\ i <= page_count(req)
  /\ LET l == LeafAt(req, i)
     IN  leaf' = Stored(l.guest \div PageSize, l.pte)
  /\ i' = i + 1
  /\ UNCHANGED req

(* One next() of the iterator and the store of what it yields. *)
Yield ==
  /\ i < page_count(req)
  /\ LET l == LeafAt(req, i)
     IN  leaf' = Stored(l.guest \div PageSize, l.pte)
  /\ i' = i + 1
  /\ UNCHANGED req

Next == Yield

Spec == Init /\ [][Next]_vars /\ WF_vars(Next)

---------------------------------------------------------------------------
(* What a walk of guest address a answers now. *)
Translation(a) ==
  LET g == a \div PageSize
  IN  IF g \in DOMAIN leaf /\ Present(leaf[g])
      THEN WalkResult("Second", ToWord(a), leaf[g], 1)
      ELSE NotPresent(1)

Aligned(r) == r.guest_base % PageSize = 0 /\ r.host_base % PageSize = 0

(* The first and last bytes of every page the request touches, and their   *)
(* neighbours outside.                                                     *)
Bytes(r) ==
  UNION {{k * PageSize, k * PageSize + 1, (k + 1) * PageSize - 1} :
           k \in 0 .. (page_count(r) + 1)}

(* The flags a request can ask for that a leaf of the iterator does not    *)
(* carry: execute, which Perm::RWX includes, and the state flags.  Read is *)
(* the present bit and cannot be left out.                                 *)
NotCarried == {X, PS, Accessed, Dirty, 10, 63}

Granted(perms) == (perms \ NotCarried) \cup {P}

TypeOK ==
  /\ req \in Requests
  /\ i \in 0 .. page_count(req)
  /\ \A g \in DOMAIN leaf : leaf[g] \subseteq 0 .. 63

(* If the caller stops after any number of entries, exactly the first i    *)
(* pages of the request are mapped, each byte at its distance from the     *)
(* host base, carries into higher address bits included, and nothing       *)
(* beyond them.  The page is writable exactly if the request says so, but  *)
(* always readable and never executable, whatever the request says.        *)
PrefixMapped ==
  Aligned(req) =>
    \A d \in Bytes(req) :
      Translation(req.guest_base + d) =
        IF d < i * PageSize
        THEN [physical |-> ToWord(req.host_base + d), level |-> 1,
              perms |-> Granted(req.perms), huge |-> FALSE]
        ELSE NotPresent(1)

(* When the iterator is exhausted every byte of the request is mapped: the *)
(* last, partial page is not lost and the loop ends.                       *)
WholeRangeMapped ==
  Aligned(req) =>
    <>[](\A d \in Bytes(req) : d < req.len =>
           "physical" \in DOMAIN Translation(req.guest_base + d))
===========================================================================
