-------------------------- MODULE MapRangeProofs --------------------------
(***************************************************************************)
(* The leaves of MapRange map exactly a prefix of the request, for every   *)
(* base and every length: the arithmetic of div_ceil, of the advancing     *)
(* page addresses and of the bits they carry into.                         *)
(***************************************************************************)
EXTENDS MapRange, TLAPS

(* The caller has stored the first i leaves and no others. *)
LeavesStored ==
  /\ DOMAIN leaf = {req.guest_base \div PageSize + n : n \in 0 .. (i - 1)}
  /\ \A n \in 0 .. (i - 1) : leaf[req.guest_base \div PageSize + n] = LeafAt(req, n).pte

Inv == TypeOK /\ LeavesStored

---------------------------------------------------------------------------
LEMMA RequestType ==
  ASSUME req \in Requests
  PROVE  /\ req.guest_base \in Nat /\ req.host_base \in Nat /\ req.len \in Nat
         /\ req.perms \subseteq IntelPerm
         /\ page_count(req) \in Nat
<1>1. /\ req.guest_base \in Nat /\ req.host_base \in Nat /\ req.len \in Nat
      /\ req.perms \subseteq IntelPerm
  BY RequestAssumption
<1> QED BY <1>1 DEF page_count, PageSize

(* An entry is a word, whatever address it was built from. *)
LEMMA PteType ==
  ASSUME NEW x, NEW perms
  PROVE  page(x, perms) \subseteq 0 .. 63
  BY DEF page, PA_MASK, P, W

LEMMA TypeStep == TypeOK /\ [Next]_vars => TypeOK'
<1> SUFFICES ASSUME TypeOK, [Next]_vars PROVE TypeOK'
  OBVIOUS
<1>1. CASE Next
  <2> DEFINE l == LeafAt(req, i)
  <2>1. /\ i < page_count(req) /\ i' = i + 1 /\ req' = req
        /\ leaf' = Stored(l.guest \div PageSize, l.pte)
    BY <1>1 DEF Next, Yield
  <2>2. i' \in 0 .. page_count(req)
    BY <2>1, RequestType DEF TypeOK
  <2>3. l.pte \subseteq 0 .. 63
    BY PteType DEF LeafAt
  <2> HIDE DEF l
  <2>4. \A g \in DOMAIN leaf' : leaf'[g] \subseteq 0 .. 63
    BY <2>1, <2>3 DEF TypeOK, Stored
  <2> QED BY <2>1, <2>2, <2>4 DEF TypeOK
<1>2. CASE UNCHANGED vars
  BY <1>2 DEF TypeOK, vars
<1> QED BY <1>1, <1>2

LEMMA TypeInit == Init => TypeOK
<1> SUFFICES ASSUME Init PROVE TypeOK
  OBVIOUS
<1>1. 0 \in 0 .. page_count(req)
  BY RequestType DEF Init
<1>2. DOMAIN leaf = {}
  BY DEF Init
<1> QED BY <1>1, <1>2 DEF Init, TypeOK

(* MapRange.TypeOK: the iterator yields no more pages than div_ceil says,  *)
(* for every length, and every entry stored is a word.                     *)
THEOREM TypeCorrect == Spec => []TypeOK
  BY TypeInit, TypeStep, PTL DEF Spec

---------------------------------------------------------------------------
LEMMA InvStep == Inv /\ [Next]_vars => Inv'
<1> SUFFICES ASSUME Inv, [Next]_vars PROVE Inv'
  OBVIOUS
<1>1. TypeOK'
  BY TypeStep DEF Inv
<1>2. CASE Next
  <2> DEFINE l == LeafAt(req, i)
  <2> DEFINE G == req.guest_base \div PageSize
  <2>1. /\ i' = i + 1 /\ req' = req /\ i \in Nat
        /\ leaf' = Stored(l.guest \div PageSize, l.pte)
    BY <1>2, RequestType DEF Inv, TypeOK, Next, Yield
  <2>2. l.guest \div PageSize = G + i /\ G \in Nat
    <3>1. req.guest_base \in Nat /\ l.guest = req.guest_base + i * 4096
      BY RequestType DEF Inv, TypeOK, LeafAt, PageSize
    <3>2. (req.guest_base + i * 4096) \div 4096 = req.guest_base \div 4096 + i
      BY <2>1, <3>1
    <3> QED BY <3>1, <3>2 DEF PageSize
  <2> HIDE DEF l, G
  <2>3. /\ DOMAIN leaf = {G + n : n \in 0 .. (i - 1)}
        /\ \A n \in 0 .. (i - 1) : leaf[G + n] = LeafAt(req, n).pte
    BY DEF Inv, LeavesStored, G
  <2>4. leaf' = [h \in DOMAIN leaf \cup {G + i} |-> IF h = G + i THEN l.pte ELSE leaf[h]]
    BY <2>1, <2>2 DEF Stored
  <2>5. DOMAIN leaf' = {G + n : n \in 0 .. (i + 1 - 1)}
    <3>1. \A n \in 0 .. (i + 1 - 1) : n = i \/ n \in 0 .. (i - 1)
      BY <2>1
    <3>2. i \in 0 .. (i + 1 - 1) /\ \A n \in 0 .. (i - 1) : n \in 0 .. (i + 1 - 1)
      BY <2>1
    <3> QED BY <2>3, <2>4, <3>1, <3>2
  <2>6. ASSUME NEW n \in 0 .. (i + 1 - 1) PROVE leaf'[G + n] = LeafAt(req, n).pte
    <3>1. CASE n = i
      BY <2>4, <3>1 DEF l
    <3>2. CASE n # i
      <4>1. n \in 0 .. (i - 1) /\ G + n # G + i /\ G + n \in DOMAIN leaf
        BY <2>1, <2>2, <2>3, <3>2
      <4> QED BY <2>3, <2>4, <4>1
    <3> QED BY <3>1, <3>2
  <2>7. LeavesStored'
    BY <2>1, <2>5, <2>6 DEF LeavesStored, G
  <2> QED BY <1>1, <2>7 DEF Inv
<1>3. CASE UNCHANGED vars
  BY <1>1, <1>3 DEF Inv, LeavesStored, vars
<1> QED BY <1>2, <1>3

LEMMA InvInit == Init => Inv
<1> SUFFICES ASSUME Init PROVE LeavesStored
  BY TypeInit DEF Inv
<1>1. i = 0 /\ leaf = << >> /\ 0 .. (0 - 1) = {}
  BY DEF Init
<1> QED BY <1>1 DEF LeavesStored

---------------------------------------------------------------------------
(* Bits. *)

(* Bits below 12 depend on the offset in the page, the others on the page. *)
LEMMA LowBit ==
  ASSUME NEW x \in Nat, NEW y \in Nat, x % 4096 = y % 4096,
         NEW b \in 0 .. 11
  PROVE  Bit(x, b) = Bit(y, b)
<1> DEFINE Same(k) == Bit(x, k) = Bit(y, k)
<1>1. Same(0)
  BY (x \div 2 ^ 0) % 2 = ((x % 4096) \div 2 ^ 0) % 2,
     (y \div 2 ^ 0) % 2 = ((y % 4096) \div 2 ^ 0) % 2 DEF Bit
<1>2. Same(1)
  BY (x \div 2 ^ 1) % 2 = ((x % 4096) \div 2 ^ 1) % 2,
     (y \div 2 ^ 1) % 2 = ((y % 4096) \div 2 ^ 1) % 2 DEF Bit
<1>3. Same(2)
  BY (x \div 2 ^ 2) % 2 = ((x % 4096) \div 2 ^ 2) % 2,
     (y \div 2 ^ 2) % 2 = ((y % 4096) \div 2 ^ 2) % 2 DEF Bit
<1>4. Same(3)
  BY (x \div 2 ^ 3) % 2 = ((x % 4096) \div 2 ^ 3) % 2,
     (y \div 2 ^ 3) % 2 = ((y % 4096) \div 2 ^ 3) % 2 DEF Bit
<1>5. Same(4)
  BY (x \div 2 ^ 4) % 2 = ((x % 4096) \div 2 ^ 4) % 2,
     (y \div 2 ^ 4) % 2 = ((y % 4096) \div 2 ^ 4) % 2 DEF Bit
<1>6. Same(5)
  BY (x \div 2 ^ 5) % 2 = ((x % 4096) \div 2 ^ 5) % 2,
     (y \div 2 ^ 5) % 2 = ((y % 4096) \div 2 ^ 5) % 2 DEF Bit
<1>7. Same(6)
  BY (x \div 2 ^ 6) % 2 = ((x % 4096) \div 2 ^ 6) % 2,
     (y \div 2 ^ 6) % 2 = ((y % 4096) \div 2 ^ 6) % 2 DEF Bit
<1>8. Same(7)
  BY (x \div 2 ^ 7) % 2 = ((x % 4096) \div 2 ^ 7) % 2,
     (y \div 2 ^ 7) % 2 = ((y % 4096) \div 2 ^ 7) % 2 DEF Bit
<1>9. Same(8)
  BY (x \div 2 ^ 8) % 2 = ((x % 4096) \div 2 ^ 8) % 2,
     (y \div 2 ^ 8) % 2 = ((y % 4096) \div 2 ^ 8) % 2 DEF Bit
<1>10. Same(9)
  BY (x \div 2 ^ 9) % 2 = ((x % 4096) \div 2 ^ 9) % 2,
     (y \div 2 ^ 9) % 2 = ((y % 4096) \div 2 ^ 9) % 2 DEF Bit
<1>11. Same(10)
  BY (x \div 2 ^ 10) % 2 = ((x % 4096) \div 2 ^ 10) % 2,
     (y \div 2 ^ 10) % 2 = ((y % 4096) \div 2 ^ 10) % 2 DEF Bit
<1>12. Same(11)
  BY (x \div 2 ^ 11) % 2 = ((x % 4096) \div 2 ^ 11) % 2,
     (y \div 2 ^ 11) % 2 = ((y % 4096) \div 2 ^ 11) % 2 DEF Bit
<1> HIDE DEF Same
<1>13. b \in {0, 1, 2, 3, 4, 5, 6, 7, 8, 9, 10, 11}
  OBVIOUS
<1>14. Same(b)
  BY <1>1, <1>2, <1>3, <1>4, <1>5, <1>6, <1>7, <1>8, <1>9, <1>10, <1>11, <1>12, <1>13
<1> QED BY <1>14 DEF Same

LEMMA HighBit ==
  ASSUME NEW x \in Nat, NEW y \in Nat, x \div 4096 = y \div 4096,
         NEW b \in 12 .. 30
  PROVE  Bit(x, b) = Bit(y, b)
<1> DEFINE Same(k) == Bit(x, k) = Bit(y, k)
<1>12. Same(12)
  BY x \div 2 ^ 12 = (x \div 4096) \div 2 ^ 0,
     y \div 2 ^ 12 = (y \div 4096) \div 2 ^ 0 DEF Bit
<1>13. Same(13)
  BY x \div 2 ^ 13 = (x \div 4096) \div 2 ^ 1,
     y \div 2 ^ 13 = (y \div 4096) \div 2 ^ 1 DEF Bit
<1>14. Same(14)
  BY x \div 2 ^ 14 = (x \div 4096) \div 2 ^ 2,
     y \div 2 ^ 14 = (y \div 4096) \div 2 ^ 2 DEF Bit
<1>15. Same(15)
  BY x \div 2 ^ 15 = (x \div 4096) \div 2 ^ 3,
     y \div 2 ^ 15 = (y \div 4096) \div 2 ^ 3 DEF Bit
<1>16. Same(16)
  BY x \div 2 ^ 16 = (x \div 4096) \div 2 ^ 4,
     y \div 2 ^ 16 = (y \div 4096) \div 2 ^ 4 DEF Bit
<1>17. Same(17)
  BY x \div 2 ^ 17 = (x \div 4096) \div 2 ^ 5,
     y \div 2 ^ 17 = (y \div 4096) \div 2 ^ 5 DEF Bit
<1>18. Same(18)
  BY x \div 2 ^ 18 = (x \div 4096) \div 2 ^ 6,
     y \div 2 ^ 18 = (y \div 4096) \div 2 ^ 6 DEF Bit
<1>19. Same(19)
  BY x \div 2 ^ 19 = (x \div 4096) \div 2 ^ 7,
     y \div 2 ^ 19 = (y \div 4096) \div 2 ^ 7 DEF Bit
<1>20. Same(20)
  BY x \div 2 ^ 20 = (x \div 4096) \div 2 ^ 8,
     y \div 2 ^ 20 = (y \div 4096) \div 2 ^ 8 DEF Bit
<1>21. Same(21)
  BY x \div 2 ^ 21 = (x \div 4096) \div 2 ^ 9,
     y \div 2 ^ 21 = (y \div 4096) \div 2 ^ 9 DEF Bit
<1>22. Same(22)
  BY x \div 2 ^ 22 = (x \div 4096) \div 2 ^ 10,
     y \div 2 ^ 22 = (y \div 4096) \div 2 ^ 10 DEF Bit
<1>23. Same(23)
  BY x \div 2 ^ 23 = (x \div 4096) \div 2 ^ 11,
     y \div 2 ^ 23 = (y \div 4096) \div 2 ^ 11 DEF Bit
<1>24. Same(24)
  BY x \div 2 ^ 24 = (x \div 4096) \div 2 ^ 12,
     y \div 2 ^ 24 = (y \div 4096) \div 2 ^ 12 DEF Bit
<1>25. Same(25)
  BY x \div 2 ^ 25 = (x \div 4096) \div 2 ^ 13,
     y \div 2 ^ 25 = (y \div 4096) \div 2 ^ 13 DEF Bit
<1>26. Same(26)
  BY x \div 2 ^ 26 = (x \div 4096) \div 2 ^ 14,
     y \div 2 ^ 26 = (y \div 4096) \div 2 ^ 14 DEF Bit
<1>27. Same(27)
  BY x \div 2 ^ 27 = (x \div 4096) \div 2 ^ 15,
     y \div 2 ^ 27 = (y \div 4096) \div 2 ^ 15 DEF Bit
<1>28. Same(28)
  BY x \div 2 ^ 28 = (x \div 4096) \div 2 ^ 16,
     y \div 2 ^ 28 = (y \div 4096) \div 2 ^ 16 DEF Bit
<1>29. Same(29)
  BY x \div 2 ^ 29 = (x \div 4096) \div 2 ^ 17,
     y \div 2 ^ 29 = (y \div 4096) \div 2 ^ 17 DEF Bit
<1>30. Same(30)
  BY x \div 2 ^ 30 = (x \div 4096) \div 2 ^ 18,
     y \div 2 ^ 30 = (y \div 4096) \div 2 ^ 18 DEF Bit
<1> HIDE DEF Same
<1>31. b \in {12, 13, 14, 15, 16, 17, 18, 19, 20, 21, 22, 23, 24, 25, 26, 27, 28, 29, 30}
  OBVIOUS
<1>32. Same(b)
  BY <1>12, <1>13, <1>14, <1>15, <1>16, <1>17, <1>18, <1>19, <1>20, <1>21,
     <1>22, <1>23, <1>24, <1>25, <1>26, <1>27, <1>28, <1>29, <1>30, <1>31
<1> QED BY <1>32 DEF Same

(* Byte r of guest page a and of host page h: the offset comes from the    *)
(* guest address and the page from the entry.                              *)
LEMMA ByteAddress ==
  ASSUME NEW g \in Nat, NEW h \in Nat, NEW x \in Nat,
         g % 4096 = x % 4096, h \div 4096 = x \div 4096
  PROVE  (ToWord(h) \cap PA_MASK) \cup (ToWord(g) \cap (0 .. 11)) = ToWord(x)
<1>1. ASSUME NEW b
      PROVE  b \in (ToWord(h) \cap PA_MASK) \cup (ToWord(g) \cap (0 .. 11)) <=> b \in ToWord(x)
  <2>1. CASE b \in 0 .. 11
    <3>1. b \notin PA_MASK /\ b \in 0 .. 30
      BY <2>1 DEF PA_MASK
    <3>2. Bit(g, b) = Bit(x, b)
      BY <2>1, LowBit
    <3>3. b \in ToWord(g) <=> b \in ToWord(x)
      BY <3>1, <3>2 DEF ToWord
    <3> QED BY <2>1, <3>1, <3>3
  <2>2. CASE b \in 12 .. 30
    <3>1. b \in PA_MASK /\ b \notin 0 .. 11 /\ b \in 0 .. 30
      BY <2>2 DEF PA_MASK
    <3>2. Bit(h, b) = Bit(x, b)
      BY <2>2, HighBit
    <3>3. b \in ToWord(h) <=> b \in ToWord(x)
      BY <3>1, <3>2 DEF ToWord
    <3> QED BY <3>1, <3>3
  <2>3. CASE b \notin 0 .. 11 /\ b \notin 12 .. 30
    <3>1. b \notin 0 .. 30
      BY <2>3
    <3>2. b \notin ToWord(h) /\ b \notin ToWord(g) /\ b \notin ToWord(x)
      BY <3>1 DEF ToWord
    <3> QED BY <3>2
  <2> QED BY <2>1, <2>2, <2>3
<1> QED BY <1>1

(* The result of a walk that ends at a 4 KiB leaf. *)
PageResult(physical, perms) ==
  [physical |-> physical, level |-> 1, perms |-> perms, huge |-> FALSE]

Physical(v, e) == Frame(e) \cup (v \cap (0 .. (LEVEL_SHIFT[1] - 1)))

LEMMA LeafResult ==
  ASSUME NEW v, NEW e
  PROVE  WalkResult("Second", v, e, 1) = PageResult(Physical(v, e), Perms("Second", e))
<1> DEFINE huge == PS \in e /\ 1 > 1
<1>1. WalkResult("Second", v, e, 1)
        = [physical |-> Physical(v, e), level |-> 1, perms |-> Perms("Second", e), huge |-> huge]
  BY DEF WalkResult, Physical
<1>2. huge = FALSE
  OBVIOUS
<1> HIDE DEF huge
<1> QED BY <1>1, <1>2, Zenon DEF PageResult

(* A walk through the entry for host page h. *)
LEMMA PageTranslates ==
  ASSUME NEW g, NEW h, NEW x, NEW perms, NEW pte,
         perms \subseteq IntelPerm,
         pte = page(ToWord(h), perms),
         (ToWord(h) \cap PA_MASK) \cup (ToWord(g) \cap (0 .. 11)) = ToWord(x)
  PROVE  /\ Present(pte)
         /\ WalkResult("Second", ToWord(g), pte, 1) = PageResult(ToWord(x), Granted(perms))
<1>1. Present(pte)
  BY DEF Present, page
<1>2. Frame(pte) = ToWord(h) \cap PA_MASK
  BY DEF Frame, page, PA_MASK, P, W
<1>3. Perms("Second", pte) = Granted(perms)
  <2>1. Perms("Second", pte) = pte \cap IntelPerm
    BY DEF Perms, IntelFormats
  <2>2. IntelPerm = {P, W} \cup NotCarried /\ {P, W} \cap NotCarried = {}
    BY DEF IntelPerm, NotCarried, P, W, X, PS, Accessed, Dirty
  <2>3. PA_MASK \cap IntelPerm = {}
    BY DEF PA_MASK, IntelPerm, P, W, X, PS, Accessed, Dirty
  <2> QED BY <2>1, <2>2, <2>3 DEF page, Granted
<1>4. Physical(ToWord(g), pte) = ToWord(x)
  <2>1. 0 .. (LEVEL_SHIFT[1] - 1) = 0 .. 11
    BY DEF LEVEL_SHIFT
  <2> QED BY <1>2, <2>1 DEF Physical
<1>5. WalkResult("Second", ToWord(g), pte, 1) = PageResult(ToWord(x), Granted(perms))
  BY <1>3, <1>4, LeafResult
<1> QED BY <1>1, <1>5

(* What a walk answers once i leaves are stored. *)
LEMMA Translates ==
  ASSUME Inv, Aligned(req), NEW d \in Nat
  PROVE  Translation(req.guest_base + d) =
           IF d < i * PageSize
           THEN PageResult(ToWord(req.host_base + d), Granted(req.perms))
           ELSE NotPresent(1)
<1> DEFINE G == req.guest_base \div PageSize
<1> DEFINE a == req.guest_base + d
<1> DEFINE n == d \div PageSize
<1> DEFINE h == req.host_base + n * PageSize
<1>1. /\ req.guest_base \in Nat /\ req.host_base \in Nat /\ i \in Nat
      /\ req.perms \subseteq IntelPerm
  BY RequestType DEF Inv, TypeOK
<1>2. req.guest_base % PageSize = 0 /\ req.host_base % PageSize = 0
  BY DEF Aligned
<1>3. n \in Nat /\ G \in Nat /\ a \in Nat /\ h \in Nat
  BY <1>1 DEF PageSize
<1>4. a \div PageSize = G + n
  BY <1>1, <1>2 DEF PageSize
<1>5. (n \in 0 .. (i - 1)) <=> d < i * PageSize
  BY <1>1 DEF PageSize
<1>6. (ToWord(h) \cap PA_MASK) \cup (ToWord(a) \cap (0 .. 11)) = ToWord(req.host_base + d)
  <2>1. a % 4096 = (req.host_base + d) % 4096
    BY <1>1, <1>2 DEF PageSize
  <2>2. h \div 4096 = (req.host_base + d) \div 4096
    BY <1>1, <1>2 DEF PageSize
  <2>3. req.host_base + d \in Nat
    BY <1>1
  <2> HIDE DEF a, h
  <2> QED BY <1>3, <2>1, <2>2, <2>3, ByteAddress
<1> HIDE DEF G, a, n, h
<1>7. /\ DOMAIN leaf = {G + k : k \in 0 .. (i - 1)}
      /\ \A k \in 0 .. (i - 1) : leaf[G + k] = LeafAt(req, k).pte
  BY DEF Inv, LeavesStored, G
<1>8. CASE d < i * PageSize
  <2>1. G + n \in DOMAIN leaf /\ leaf[G + n] = LeafAt(req, n).pte
    BY <1>5, <1>7, <1>8
  <2>2. leaf[G + n] = page(ToWord(h), req.perms)
    BY <2>1 DEF LeafAt, h
  <2>3. /\ Present(leaf[G + n])
        /\ WalkResult("Second", ToWord(a), leaf[G + n], 1)
             = PageResult(ToWord(req.host_base + d), Granted(req.perms))
    BY <1>1, <1>6, <2>2, PageTranslates
  <2>4. Translation(a) = WalkResult("Second", ToWord(a), leaf[G + n], 1)
    BY <1>4, <2>1, <2>3, Zenon DEF Translation
  <2> QED BY <1>8, <2>3, <2>4, Zenon DEF a
<1>9. CASE ~ (d < i * PageSize)
  <2>1. G + n \notin DOMAIN leaf
    <3>1. \A k \in 0 .. (i - 1) : G + k # G + n
      BY <1>1, <1>3, <1>5, <1>9
    <3> QED BY <1>7, <3>1
  <2>2. Translation(a) = NotPresent(1)
    BY <1>4, <2>1, Zenon DEF Translation
  <2> QED BY <1>9, <2>2, Zenon DEF a
<1> QED BY <1>8, <1>9, Zenon

(* MapRange.PrefixMapped, for every request: after any number of leaves    *)
(* exactly the first pages are mapped, each byte at its distance from the  *)
(* host base, carries into higher address bits included, and nothing       *)
(* beyond them.  Of the permissions asked for, write is taken over, read   *)
(* is always given and execute never.                                      *)
THEOREM PrefixIsMapped == Spec => []PrefixMapped
<1>1. Inv => PrefixMapped
  <2>1. SUFFICES ASSUME Inv, Aligned(req), NEW d \in Bytes(req)
        PROVE  Translation(req.guest_base + d) =
                 IF d < i * PageSize
                 THEN PageResult(ToWord(req.host_base + d),
                                 Granted(req.perms))
                 ELSE NotPresent(1)
    BY Zenon DEF PrefixMapped, PageResult
  <2>2. d \in Nat
    BY RequestType DEF Inv, TypeOK, Bytes, PageSize
  <2> QED BY <2>1, <2>2, Translates, Zenon
<1> QED BY <1>1, InvInit, InvStep, PTL DEF Spec
=============================================================================
