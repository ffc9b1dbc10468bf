---------------------------- MODULE CodecProofs ----------------------------
(***************************************************************************)
(* Whatever its arguments, a command, descriptor or log entry that the     *)
(* crates encode is read back as it was written: the round trip of         *)
(* CommandCodec for every operation that has one.  The fields of a layout  *)
(* are shown to lie apart from each other and from the type code, and the  *)
(* reader to look where the writer writes; the rest follows for any layout *)
(* with these properties.                                                  *)
(***************************************************************************)
EXTENDS CommandCodec, TLAPS

(* A reader looks for every bit where the writer puts it, in 0 .. top and  *)
(* outside the type code.                                                  *)
Agree(put, get, Code, top) ==
  \A f \in DOMAIN get :
    /\ f \in DOMAIN put /\ DOMAIN get[f] \subseteq DOMAIN put[f]
    /\ \A b \in DOMAIN get[f] : get[f][b] = put[f][b]
    /\ \A b \in DOMAIN put[f] : put[f][b] \in 0 .. top /\ put[f][b] \notin Code

(* No two bits of the fields F go to the same place. *)
PlacesApart(put, F) ==
  \A f, g \in F : \A b \in DOMAIN put[f] : \A c \in DOMAIN put[g] :
    put[f][b] = put[g][c] => f = g /\ b = c

Fitting(put, get, Code, top) == Agree(put, get, Code, top) /\ PlacesApart(put, DOMAIN get)

Places(map, lo, hi, first) == DOMAIN map = lo .. hi /\ \A b \in lo .. hi : map[b] = first + b

AmdCodeBits == 60 .. 63
QiCodeBits == 0 .. 3 \cup 9 .. 11

(* The written fields: `full' arguments are read back, others are empty. *)
Legible(put, get, args) ==
  /\ \A f \in DOMAIN put \ DOMAIN get : args[f] = {}
  /\ \A f \in DOMAIN get : args[f] \cap DOMAIN put[f] \subseteq DOMAIN get[f]

---------------------------------------------------------------------------
(* Layouts that fit *)

(* The arguments as far as their fields hold them. *)
Held(put, get, args) == [f \in DOMAIN get |-> args[f] \cap DOMAIN put[f]]

(* All bits are those of an entry of top + 1 bits. *)
Within(bits, top) == bits \subseteq 0 .. top

(* The bits Code of an entry hold this type code. *)
HasCode(bits, Code, code) == bits \cap Code = code

(* Bit x of an entry is set by one of its fields. *)
Written(put, get, args, x) ==
  \E f \in DOMAIN get : \E b \in args[f] \cap DOMAIN put[f] : put[f][b] = x

(* The bits of an encoding are those of its code and of its fields. *)
LEMMA EncodedBits ==
  ASSUME NEW w, NEW g, NEW code, NEW args, NEW x, Legible(w.put, g.get, args),
         DOMAIN g.get \subseteq DOMAIN w.put
  PROVE  x \in Encoded(w, code, args) <=>
           x \in code \/ Written(w.put, g.get, args, x)
<1> DEFINE put == w.put
           Field(f) == {put[f][b] : b \in args[f] \cap DOMAIN put[f]}
<1>0. DOMAIN g.get \subseteq DOMAIN put
  OBVIOUS
<1>1. x \in Encoded(w, code, args) <=> x \in code \/ \E f \in DOMAIN put : x \in Field(f)
  BY DEF Encoded
<1>2. \A f \in DOMAIN put \ DOMAIN g.get : Field(f) = {}
  BY DEF Legible
<1>3. \A f : x \in Field(f) <=> \E b \in args[f] \cap DOMAIN put[f] : put[f][b] = x
  OBVIOUS
<1> HIDE DEF Field
<1> QED BY <1>0, <1>1, <1>2, <1>3 DEF Written

(* A decoder of a layout that fits reads the arguments back. *)
LEMMA ReadsBack ==
  ASSUME NEW w, NEW g, NEW Code, NEW top, NEW code, NEW args,
         Fitting(w.put, g.get, Code, top), code \subseteq Code, Legible(w.put, g.get, args)
  PROVE  Decoded(g, Encoded(w, code, args)) = Held(w.put, g.get, args)
<1> DEFINE put == w.put
           get == g.get
           bits == Encoded(w, code, args)
<1>0. DOMAIN get \subseteq DOMAIN put
  BY DEF Fitting, Agree
<1>1. ASSUME NEW f \in DOMAIN get
      PROVE  {b \in DOMAIN get[f] : get[f][b] \in bits} = args[f] \cap DOMAIN put[f]
  <2>1. ASSUME NEW b \in DOMAIN get[f], get[f][b] \in bits PROVE b \in args[f] \cap DOMAIN put[f]
    <3>1. get[f][b] = put[f][b] /\ b \in DOMAIN put[f] /\ put[f][b] \notin Code
      BY DEF Fitting, Agree
    <3>2. Written(put, get, args, put[f][b])
      BY <2>1, <3>1, <1>0, EncodedBits
    <3>3. PICK h \in DOMAIN get : \E c \in args[h] \cap DOMAIN put[h] : put[h][c] = put[f][b]
      BY <3>2 DEF Written
    <3>4. PICK c \in args[h] \cap DOMAIN put[h] : put[h][c] = put[f][b]
      BY <3>3
    <3>5. h = f /\ c = b
      BY <3>1, <3>4 DEF Fitting, PlacesApart
    <3> QED BY <3>1, <3>4, <3>5
  <2>2. ASSUME NEW b \in args[f] \cap DOMAIN put[f] PROVE b \in DOMAIN get[f] /\ get[f][b] \in bits
    <3>1. b \in DOMAIN get[f]
      BY DEF Legible
    <3>2. get[f][b] = put[f][b]
      BY <3>1 DEF Fitting, Agree
    <3>3. Written(put, get, args, get[f][b])
      BY <3>2 DEF Written
    <3> QED BY <3>1, <3>3, <1>0, EncodedBits
  <2> QED BY <2>1, <2>2
<1> QED BY <1>1 DEF Decoded, Held

(* The type code is not disturbed, and all bits are within the entry. *)
LEMMA KeepsCode ==
  ASSUME NEW w, NEW g, NEW Code, NEW top, NEW code, NEW args,
         Fitting(w.put, g.get, Code, top), code \subseteq Code, Legible(w.put, g.get, args)
  PROVE  HasCode(Encoded(w, code, args), Code, code)
<1>0. DOMAIN g.get \subseteq DOMAIN w.put
  BY DEF Fitting, Agree
<1>1. ASSUME NEW x PROVE x \in Encoded(w, code, args) \cap Code <=> x \in code
  <2>1. \A f \in DOMAIN g.get : \A b \in DOMAIN w.put[f] : w.put[f][b] \notin Code
    BY DEF Fitting, Agree
  <2>2. x \in Encoded(w, code, args) <=> x \in code \/ Written(w.put, g.get, args, x)
    BY <1>0, EncodedBits
  <2> QED BY <2>1, <2>2 DEF Written
<1> QED BY <1>1 DEF HasCode

(* No bit goes past the end of the entry. *)
LEMMA StaysInside ==
  ASSUME NEW w, NEW g, NEW Code, NEW top, NEW code, NEW args,
         Fitting(w.put, g.get, Code, top), code \subseteq Code, Legible(w.put, g.get, args),
         Within(code, top)
  PROVE  Within(Encoded(w, code, args), top)
<1>0. DOMAIN g.get \subseteq DOMAIN w.put
  BY DEF Fitting, Agree
<1>1. ASSUME NEW x \in Encoded(w, code, args) PROVE x \in 0 .. top
  <2>1. \A f \in DOMAIN g.get : \A b \in DOMAIN w.put[f] : w.put[f][b] \in 0 .. top
    BY DEF Fitting, Agree
  <2>2. x \in Encoded(w, code, args) <=> x \in code \/ Written(w.put, g.get, args, x)
    BY <1>0, EncodedBits
  <2> QED BY <2>1, <2>2 DEF Written, Within
<1> QED BY <1>1 DEF Within

---------------------------------------------------------------------------
(* Type codes *)

(* The bits of the small numbers that are type codes. *)
Bit(n, b) == (n \div (2 ^ b)) % 2 = 1

(* Numbers below 64 have six bits. *)
LEMMA BitsOfSmall ==
  ASSUME NEW n \in 0 .. 63
  PROVE  BitsOf(n) = {b \in 0 .. 5 : Bit(n, b)}
<1>1. ~Bit(n, 6) /\ ~Bit(n, 7) /\ ~Bit(n, 8) /\ ~Bit(n, 9) /\ ~Bit(n, 10)
  BY DEF Bit
<1>2. ~Bit(n, 11) /\ ~Bit(n, 12) /\ ~Bit(n, 13) /\ ~Bit(n, 14) /\ ~Bit(n, 15)
  BY DEF Bit
<1>3. \A b \in 6 .. 15 : ~Bit(n, b)
  BY <1>1, <1>2, \A b \in 6 .. 15 : b \in {6, 7, 8, 9, 10, 11, 12, 13, 14, 15}
<1>4. BitsOf(n) = {b \in 0 .. 15 : Bit(n, b)}
  BY DEF BitsOf, Bit
<1> QED BY <1>3, <1>4

(* The codes in bits. *)
LEMMA CodeValues ==
  /\ BitsOf(1) = {0} /\ BitsOf(2) = {1} /\ BitsOf(3) = {0, 1} /\ BitsOf(4) = {2}
  /\ BitsOf(5) = {0, 2} /\ BitsOf(6) = {1, 2} /\ BitsOf(7) = {0, 1, 2} /\ BitsOf(8) = {3}
<1>0. \A b \in 0 .. 5 : b \in {0, 1, 2, 3, 4, 5}
  OBVIOUS
<1>1. BitsOf(1) = {0}
  <2>1. Bit(1, 0) /\ ~Bit(1, 1) /\ ~Bit(1, 2) /\ ~Bit(1, 3) /\ ~Bit(1, 4) /\ ~Bit(1, 5)
    BY DEF Bit
  <2> QED BY <1>0, <2>1, BitsOfSmall
<1>2. BitsOf(2) = {1}
  <2>1. ~Bit(2, 0) /\ Bit(2, 1) /\ ~Bit(2, 2) /\ ~Bit(2, 3) /\ ~Bit(2, 4) /\ ~Bit(2, 5)
    BY DEF Bit
  <2> QED BY <1>0, <2>1, BitsOfSmall
<1>3. BitsOf(3) = {0, 1}
  <2>1. Bit(3, 0) /\ Bit(3, 1) /\ ~Bit(3, 2) /\ ~Bit(3, 3) /\ ~Bit(3, 4) /\ ~Bit(3, 5)
    BY DEF Bit
  <2> QED BY <1>0, <2>1, BitsOfSmall
<1>4. BitsOf(4) = {2}
  <2>1. ~Bit(4, 0) /\ ~Bit(4, 1) /\ Bit(4, 2) /\ ~Bit(4, 3) /\ ~Bit(4, 4) /\ ~Bit(4, 5)
    BY DEF Bit
  <2> QED BY <1>0, <2>1, BitsOfSmall
<1>5. BitsOf(5) = {0, 2}
  <2>1. Bit(5, 0) /\ ~Bit(5, 1) /\ Bit(5, 2) /\ ~Bit(5, 3) /\ ~Bit(5, 4) /\ ~Bit(5, 5)
    BY DEF Bit
  <2> QED BY <1>0, <2>1, BitsOfSmall
<1>6. BitsOf(6) = {1, 2}
  <2>1. ~Bit(6, 0) /\ Bit(6, 1) /\ Bit(6, 2) /\ ~Bit(6, 3) /\ ~Bit(6, 4) /\ ~Bit(6, 5)
    BY DEF Bit
  <2> QED BY <1>0, <2>1, BitsOfSmall
<1>7. BitsOf(7) = {0, 1, 2}
  <2>1. Bit(7, 0) /\ Bit(7, 1) /\ Bit(7, 2) /\ ~Bit(7, 3) /\ ~Bit(7, 4) /\ ~Bit(7, 5)
    BY DEF Bit
  <2> QED BY <1>0, <2>1, BitsOfSmall
<1>8. BitsOf(8) = {3}
  <2>1. ~Bit(8, 0) /\ ~Bit(8, 1) /\ ~Bit(8, 2) /\ Bit(8, 3) /\ ~Bit(8, 4) /\ ~Bit(8, 5)
    BY DEF Bit
  <2> QED BY <1>0, <2>1, BitsOfSmall
<1> QED BY <1>1, <1>2, <1>3, <1>4, <1>5, <1>6, <1>7, <1>8

(* Opcode::from_dword1, EventCode::from_dword1 and PprCode::from_dword1    *)
(* find a code shifted to bits 63:60.                                      *)
LEMMA TopCode ==
  ASSUME NEW code \in SUBSET (0 .. 3), NEW bits \in SUBSET Nat,
         bits \cap AmdCodeBits = ShiftLeft(code, 60)
  PROVE  extract_bits(bits, 63, 60) = code
<1>1. ASSUME NEW b \in 0 .. 3 PROVE b \in extract_bits(bits, 63, 60) <=> b + 60 \in bits
  BY DEF extract_bits, ShiftRight
<1>2. ASSUME NEW b \in 0 .. 3 PROVE b + 60 \in ShiftLeft(code, 60) <=> b \in code
  BY DEF ShiftLeft, WordBits
<1>3. ASSUME NEW b \in 0 .. 3 PROVE b + 60 \in bits <=> b \in code
  BY <1>2 DEF AmdCodeBits
<1>4. extract_bits(bits, 63, 60) \subseteq 0 .. 3
  BY DEF extract_bits
<1> QED BY <1>1, <1>3, <1>4

(* A type of four bits fills the top of the first qword at most. *)
LEMMA TopCodeBits ==
  ASSUME NEW code \in SUBSET (0 .. 3)
  PROVE  ShiftLeft(code, 60) \subseteq AmdCodeBits
  BY DEF ShiftLeft, WordBits, AmdCodeBits

(* QiType::from_word0 finds the code that type_bits places. *)
LEMMA TypeBits ==
  ASSUME NEW code \in SUBSET (0 .. 3)
  PROVE  type_bits(code) = code /\ code \subseteq QiCodeBits
<1>1. ShiftRight(code, 4) = {}
  <2>1. \A c \in code : ~(c >= 4)
    OBVIOUS
  <2>2. {c \in code : c >= 4} = {}
    BY <2>1
  <2> QED BY <2>2 DEF ShiftRight
<1>2. ShiftLeft({}, 9) = {}
  BY DEF ShiftLeft
<1> QED BY <1>1, <1>2 DEF type_bits, QiCodeBits

(* ... and nothing but that code. *)
LEMMA LowCode ==
  ASSUME NEW code \in SUBSET (0 .. 3), NEW bits \in SUBSET Nat,
         HasCode(bits, QiCodeBits, code)
  PROVE  QiCode(bits) = code
<1>0. bits \cap QiCodeBits = code
  BY DEF HasCode
<1>1. ASSUME NEW b \in 9 .. 11 PROVE b \notin bits
  BY <1>0 DEF QiCodeBits
<1>2. extract_bits(bits, 11, 9) = {}
  BY <1>1 DEF extract_bits, ShiftRight
<1>3. ShiftLeft({}, 4) = {}
  BY DEF ShiftLeft
<1>4. ASSUME NEW b \in 0 .. 3 PROVE b \in extract_bits(bits, 3, 0) <=> b \in code
  BY <1>0 DEF extract_bits, ShiftRight, QiCodeBits
<1>5. extract_bits(bits, 3, 0) \subseteq 0 .. 3
  BY DEF extract_bits
<1>6. extract_bits(bits, 3, 0) = code
  BY <1>4, <1>5
<1> QED BY <1>2, <1>3, <1>6 DEF QiCode

---------------------------------------------------------------------------
(* The layouts *)

(* What the reader of a wide queue knows of type 8h. *)
LEMMA WideFigure ==
  /\ DOMAIN QiWideFigures = DOMAIN QiFigures \cup {"PasidDevTlb"}
  /\ \A op \in DOMAIN QiFigures : QiWideFigures[op] = QiFigures[op]
  /\ QiWideFigures["PasidDevTlb"] =
       [code |-> BitsOf(8),
        get |-> [global |-> At(Bool, 0), pasid |-> At(U32, 32), addr |-> At(12 .. 63, 64),
                 size_order |-> At(Bool, 75), sid |-> At(U16, 160), pfsid |-> At(U16, 176)]]
<1>1. "PasidDevTlb" \notin DOMAIN QiFigures
  BY DEF QiFigures
<1> QED BY <1>1 DEF QiWideFigures, Beside

(* The fields of type 8h that are written where they are read. *)
DevPiotlbFigure ==
  [get |-> [pasid |-> At(U32, 32), addr |-> At(12 .. 63, 64), size_order |-> At(Bool, 75),
            sid |-> At(U16, 160)]]

(* CompletionWait::words. *)
LEMMA CompletionWaitFits ==
  ASSUME NEW args
  PROVE  /\ Fitting(CompletionWait, AmdFigures["CompletionWait"].get, AmdCodeBits, 127)
         /\ Legible(CompletionWait, AmdFigures["CompletionWait"].get, args)
<1> DEFINE p == CompletionWait
           g == AmdFigures["CompletionWait"].get
<1>1. /\ DOMAIN p = {"store", "interrupt", "flush", "store_addr",
                     "store_data"}
      /\ DOMAIN g = DOMAIN p
  BY DEF CompletionWait, AmdFigures
<1>2. /\ Places(p["store"], 0, 0, 0) /\ Places(p["interrupt"], 0, 0, 1)
      /\ Places(p["flush"], 0, 0, 2) /\ Places(p["store_addr"], 3, 51, 0)
      /\ Places(p["store_data"], 0, 63, 64)
  BY DEF CompletionWait, DRun, DFlag, Beside, Places
<1>3. /\ Places(g["store"], 0, 0, 0) /\ Places(g["interrupt"], 0, 0, 1)
      /\ Places(g["flush"], 0, 0, 2) /\ Places(g["store_addr"], 3, 51, 0)
      /\ Places(g["store_data"], 0, 63, 64)
  BY DEF AmdFigures, At, Bool, U64, Places
<1> HIDE DEF p, g
<1>4. Agree(p, g, AmdCodeBits, 127)
  <2> SUFFICES ASSUME NEW f \in DOMAIN g
               PROVE  /\ f \in DOMAIN p /\ DOMAIN g[f] \subseteq DOMAIN p[f]
                      /\ \A b \in DOMAIN g[f] : g[f][b] = p[f][b]
                      /\ \A b \in DOMAIN p[f] : p[f][b] \in 0 .. 127 /\ p[f][b] \notin AmdCodeBits
    BY DEF Agree
  <2> QED BY <1>1, <1>2, <1>3 DEF Places, AmdCodeBits
<1>5. PlacesApart(p, DOMAIN g)
  <2> SUFFICES ASSUME NEW f \in DOMAIN g, NEW h \in DOMAIN g,
                      NEW b \in DOMAIN p[f], NEW c \in DOMAIN p[h], p[f][b] = p[h][c]
               PROVE  f = h /\ b = c
    BY DEF PlacesApart
  <2> QED BY <1>1, <1>2 DEF Places
<1>6. Legible(p, g, args)
  <2>1. ASSUME NEW f \in DOMAIN g PROVE args[f] \cap DOMAIN p[f] \subseteq DOMAIN g[f]
    BY <1>1, <1>2, <1>3 DEF Places
  <2> QED BY <1>1, <2>1 DEF Legible
<1> QED BY <1>4, <1>5, <1>6 DEF Fitting, p, g

(* InvalidateDevTabEntry::words. *)
LEMMA DevTabEntryFits ==
  ASSUME NEW args
  PROVE  /\ Fitting(InvalidateDevTabEntry, AmdFigures["InvalidateDevTabEntry"].get, AmdCodeBits, 127)
         /\ Legible(InvalidateDevTabEntry, AmdFigures["InvalidateDevTabEntry"].get, args)
<1> DEFINE p == InvalidateDevTabEntry
           g == AmdFigures["InvalidateDevTabEntry"].get
<1>1. /\ DOMAIN p = {"device_id"}
      /\ DOMAIN g = DOMAIN p
  BY DEF InvalidateDevTabEntry, AmdFigures
<1>2. /\ Places(p["device_id"], 0, 15, 0)
  BY DEF InvalidateDevTabEntry, DRun, Places
<1>3. /\ Places(g["device_id"], 0, 15, 0)
  BY DEF AmdFigures, At, U16, Places
<1> HIDE DEF p, g
<1>4. Agree(p, g, AmdCodeBits, 127)
  <2> SUFFICES ASSUME NEW f \in DOMAIN g
               PROVE  /\ f \in DOMAIN p /\ DOMAIN g[f] \subseteq DOMAIN p[f]
                      /\ \A b \in DOMAIN g[f] : g[f][b] = p[f][b]
                      /\ \A b \in DOMAIN p[f] : p[f][b] \in 0 .. 127 /\ p[f][b] \notin AmdCodeBits
    BY DEF Agree
  <2> QED BY <1>1, <1>2, <1>3 DEF Places, AmdCodeBits
<1>5. PlacesApart(p, DOMAIN g)
  <2> SUFFICES ASSUME NEW f \in DOMAIN g, NEW h \in DOMAIN g,
                      NEW b \in DOMAIN p[f], NEW c \in DOMAIN p[h], p[f][b] = p[h][c]
               PROVE  f = h /\ b = c
    BY DEF PlacesApart
  <2> QED BY <1>1, <1>2 DEF Places
<1>6. Legible(p, g, args)
  <2>1. ASSUME NEW f \in DOMAIN g PROVE args[f] \cap DOMAIN p[f] \subseteq DOMAIN g[f]
    BY <1>1, <1>2, <1>3 DEF Places
  <2> QED BY <1>1, <2>1 DEF Legible
<1> QED BY <1>4, <1>5, <1>6 DEF Fitting, p, g

(* InvalidateIommuPages::words. *)
LEMMA IommuPagesFits ==
  ASSUME NEW args
  PROVE  /\ Fitting(InvalidateIommuPages, AmdFigures["InvalidateIommuPages"].get, AmdCodeBits, 127)
         /\ Legible(InvalidateIommuPages, AmdFigures["InvalidateIommuPages"].get, args)
<1> DEFINE p == InvalidateIommuPages
           g == AmdFigures["InvalidateIommuPages"].get
<1>1. /\ DOMAIN p = {"pasid", "domain_id", "addr", "guest_nested", "pde",
                     "size"}
      /\ DOMAIN g = DOMAIN p
  BY DEF InvalidateIommuPages, AmdFigures
<1>2. /\ Places(p["pasid"], 0, 19, 0) /\ Places(p["domain_id"], 0, 15, 32)
      /\ Places(p["addr"], 12, 63, 64) /\ Places(p["guest_nested"], 0, 0, 66)
      /\ Places(p["pde"], 0, 0, 65) /\ Places(p["size"], 0, 0, 64)
  BY DEF InvalidateIommuPages, DRun, DFlag, Beside, Places
<1>3. /\ Places(g["pasid"], 0, 19, 0) /\ Places(g["domain_id"], 0, 15, 32)
      /\ Places(g["addr"], 12, 63, 64) /\ Places(g["guest_nested"], 0, 0, 66)
      /\ Places(g["pde"], 0, 0, 65) /\ Places(g["size"], 0, 0, 64)
  BY DEF AmdFigures, At, AmdAddress, Bool, U16, Places
<1> HIDE DEF p, g
<1>4. Agree(p, g, AmdCodeBits, 127)
  <2> SUFFICES ASSUME NEW f \in DOMAIN g
               PROVE  /\ f \in DOMAIN p /\ DOMAIN g[f] \subseteq DOMAIN p[f]
                      /\ \A b \in DOMAIN g[f] : g[f][b] = p[f][b]
                      /\ \A b \in DOMAIN p[f] : p[f][b] \in 0 .. 127 /\ p[f][b] \notin AmdCodeBits
    BY DEF Agree
  <2> QED BY <1>1, <1>2, <1>3 DEF Places, AmdCodeBits
<1>5. PlacesApart(p, DOMAIN g)
  <2> SUFFICES ASSUME NEW f \in DOMAIN g, NEW h \in DOMAIN g,
                      NEW b \in DOMAIN p[f], NEW c \in DOMAIN p[h], p[f][b] = p[h][c]
               PROVE  f = h /\ b = c
    BY DEF PlacesApart
  <2> QED BY <1>1, <1>2 DEF Places
<1>6. Legible(p, g, args)
  <2>1. ASSUME NEW f \in DOMAIN g PROVE args[f] \cap DOMAIN p[f] \subseteq DOMAIN g[f]
    BY <1>1, <1>2, <1>3 DEF Places
  <2> QED BY <1>1, <2>1 DEF Legible
<1> QED BY <1>4, <1>5, <1>6 DEF Fitting, p, g

(* InvalidateIotlbPages::words: the PASID is in three pieces. *)
LEMMA IotlbPagesFits ==
  ASSUME NEW args
  PROVE  /\ Fitting(InvalidateIotlbPages, AmdFigures["InvalidateIotlbPages"].get, AmdCodeBits, 127)
         /\ Legible(InvalidateIotlbPages, AmdFigures["InvalidateIotlbPages"].get, args)
<1> DEFINE p == InvalidateIotlbPages
           g == AmdFigures["InvalidateIotlbPages"].get
<1>1. /\ DOMAIN p = {"device_id", "max_pend", "pasid", "queue_id", "addr",
                     "inv_type", "guest_nested", "size"}
      /\ DOMAIN g = DOMAIN p
  BY DEF InvalidateIotlbPages, AmdFigures
<1>2. /\ Places(p["device_id"], 0, 15, 0) /\ Places(p["max_pend"], 0, 7, 24)
      /\ Places(p["queue_id"], 0, 15, 32) /\ Places(p["addr"], 12, 63, 64)
      /\ Places(p["inv_type"], 0, 1, 68) /\ Places(p["guest_nested"], 0, 0, 66)
      /\ Places(p["size"], 0, 0, 64)
  BY DEF InvalidateIotlbPages, DRun, DFlag, Beside, Places
<1>3. /\ DOMAIN p["pasid"] = 0 .. 19
      /\ \A b \in 0 .. 19 :
           p["pasid"][b] = IF b < 8 THEN 48 + b ELSE IF b < 16 THEN 8 + b ELSE 40 + b
  BY DEF InvalidateIotlbPages, DRun, Beside
<1>4. /\ Places(g["device_id"], 0, 15, 0) /\ Places(g["max_pend"], 0, 7, 24)
      /\ Places(g["queue_id"], 0, 15, 32) /\ Places(g["addr"], 12, 63, 64)
      /\ Places(g["inv_type"], 0, 1, 68) /\ Places(g["guest_nested"], 0, 0, 66)
      /\ Places(g["size"], 0, 0, 64)
  BY DEF AmdFigures, At, AmdAddress, Bool, U8, U16, Places
<1>5. /\ DOMAIN g["pasid"] = 0 .. 19
      /\ \A b \in 0 .. 19 :
           g["pasid"][b] = IF b < 8 THEN 48 + b ELSE IF b < 16 THEN 8 + b ELSE 40 + b
  BY DEF AmdFigures, Beside, At
<1> HIDE DEF p, g
<1>6. Agree(p, g, AmdCodeBits, 127)
  <2> SUFFICES ASSUME NEW f \in DOMAIN g
               PROVE  /\ f \in DOMAIN p /\ DOMAIN g[f] \subseteq DOMAIN p[f]
                      /\ \A b \in DOMAIN g[f] : g[f][b] = p[f][b]
                      /\ \A b \in DOMAIN p[f] : p[f][b] \in 0 .. 127 /\ p[f][b] \notin AmdCodeBits
    BY DEF Agree
  <2> QED BY <1>1, <1>2, <1>3, <1>4, <1>5 DEF Places, AmdCodeBits
<1>7. PlacesApart(p, DOMAIN g)
  <2> SUFFICES ASSUME NEW f \in DOMAIN g, NEW h \in DOMAIN g,
                      NEW b \in DOMAIN p[f], NEW c \in DOMAIN p[h], p[f][b] = p[h][c]
               PROVE  f = h /\ b = c
    BY DEF PlacesApart
  <2> QED BY <1>1, <1>2, <1>3 DEF Places
<1>8. Legible(p, g, args)
  <2>1. ASSUME NEW f \in DOMAIN g PROVE args[f] \cap DOMAIN p[f] \subseteq DOMAIN g[f]
    BY <1>1, <1>2, <1>3, <1>4, <1>5 DEF Places
  <2> QED BY <1>1, <2>1 DEF Legible
<1> QED BY <1>6, <1>7, <1>8 DEF Fitting, p, g

(* CompletePprRequest::words. *)
LEMMA PprRequestFits ==
  ASSUME NEW args
  PROVE  /\ Fitting(CompletePprRequest, AmdFigures["CompletePprRequest"].get, AmdCodeBits, 127)
         /\ Legible(CompletePprRequest, AmdFigures["CompletePprRequest"].get, args)
<1> DEFINE p == CompletePprRequest
           g == AmdFigures["CompletePprRequest"].get
<1>1. /\ DOMAIN p = {"device_id", "ppr_tag", "pasid"}
      /\ DOMAIN g = DOMAIN p
  BY DEF CompletePprRequest, AmdFigures
<1>2. /\ Places(p["device_id"], 0, 15, 0) /\ Places(p["ppr_tag"], 0, 15, 16)
      /\ Places(p["pasid"], 0, 15, 32)
  BY DEF CompletePprRequest, DRun, Places
<1>3. /\ Places(g["device_id"], 0, 15, 0) /\ Places(g["ppr_tag"], 0, 15, 16)
      /\ Places(g["pasid"], 0, 15, 32)
  BY DEF AmdFigures, At, U16, Places
<1> HIDE DEF p, g
<1>4. Agree(p, g, AmdCodeBits, 127)
  <2> SUFFICES ASSUME NEW f \in DOMAIN g
               PROVE  /\ f \in DOMAIN p /\ DOMAIN g[f] \subseteq DOMAIN p[f]
                      /\ \A b \in DOMAIN g[f] : g[f][b] = p[f][b]
                      /\ \A b \in DOMAIN p[f] : p[f][b] \in 0 .. 127 /\ p[f][b] \notin AmdCodeBits
    BY DEF Agree
  <2> QED BY <1>1, <1>2, <1>3 DEF Places, AmdCodeBits
<1>5. PlacesApart(p, DOMAIN g)
  <2> SUFFICES ASSUME NEW f \in DOMAIN g, NEW h \in DOMAIN g,
                      NEW b \in DOMAIN p[f], NEW c \in DOMAIN p[h], p[f][b] = p[h][c]
               PROVE  f = h /\ b = c
    BY DEF PlacesApart
  <2> QED BY <1>1, <1>2 DEF Places
<1>6. Legible(p, g, args)
  <2>1. ASSUME NEW f \in DOMAIN g PROVE args[f] \cap DOMAIN p[f] \subseteq DOMAIN g[f]
    BY <1>1, <1>2, <1>3 DEF Places
  <2> QED BY <1>1, <2>1 DEF Legible
<1> QED BY <1>4, <1>5, <1>6 DEF Fitting, p, g

(* QiCc. *)
LEMMA CcFits ==
  ASSUME NEW args
  PROVE  /\ Fitting(QiCc, QiFigures["ContextCache"].get, QiCodeBits, 127)
         /\ Legible(QiCc, QiFigures["ContextCache"].get, args)
<1> DEFINE p == QiCc
           g == QiFigures["ContextCache"].get
<1>1. /\ DOMAIN p = {"granularity", "did", "sid", "fm"}
      /\ DOMAIN g = DOMAIN p
  BY DEF QiCc, QiFigures
<1>2. /\ Places(p["granularity"], 0, 1, 4) /\ Places(p["did"], 0, 15, 16)
      /\ Places(p["sid"], 0, 15, 32) /\ Places(p["fm"], 0, 1, 48)
  BY DEF QiCc, Run, WordBits, Granularity, Did, Sid, Places
<1>3. /\ Places(g["granularity"], 0, 1, 4) /\ Places(g["did"], 0, 15, 16)
      /\ Places(g["sid"], 0, 15, 32) /\ Places(g["fm"], 0, 1, 48)
  BY DEF QiFigures, At, U16, Places
<1> HIDE DEF p, g
<1>4. Agree(p, g, QiCodeBits, 127)
  <2> SUFFICES ASSUME NEW f \in DOMAIN g
               PROVE  /\ f \in DOMAIN p /\ DOMAIN g[f] \subseteq DOMAIN p[f]
                      /\ \A b \in DOMAIN g[f] : g[f][b] = p[f][b]
                      /\ \A b \in DOMAIN p[f] : p[f][b] \in 0 .. 127 /\ p[f][b] \notin QiCodeBits
    BY DEF Agree
  <2> QED BY <1>1, <1>2, <1>3 DEF Places, QiCodeBits
<1>5. PlacesApart(p, DOMAIN g)
  <2> SUFFICES ASSUME NEW f \in DOMAIN g, NEW h \in DOMAIN g,
                      NEW b \in DOMAIN p[f], NEW c \in DOMAIN p[h], p[f][b] = p[h][c]
               PROVE  f = h /\ b = c
    BY DEF PlacesApart
  <2> QED BY <1>1, <1>2 DEF Places
<1>6. Legible(p, g, args)
  <2>1. ASSUME NEW f \in DOMAIN g PROVE args[f] \cap DOMAIN p[f] \subseteq DOMAIN g[f]
    BY <1>1, <1>2, <1>3 DEF Places
  <2> QED BY <1>1, <2>1 DEF Legible
<1> QED BY <1>4, <1>5, <1>6 DEF Fitting, p, g

(* QiIotlb. *)
LEMMA IotlbFits ==
  ASSUME NEW args
  PROVE  /\ Fitting(QiIotlb, QiFigures["Iotlb"].get, QiCodeBits, 127)
         /\ Legible(QiIotlb, QiFigures["Iotlb"].get, args)
<1> DEFINE p == QiIotlb
           g == QiFigures["Iotlb"].get
<1>1. /\ DOMAIN p = {"granularity", "did", "addr", "am"}
      /\ DOMAIN g = DOMAIN p
  BY DEF QiIotlb, QiFigures
<1>2. /\ Places(p["granularity"], 0, 1, 4) /\ Places(p["did"], 0, 15, 16)
      /\ Places(p["addr"], 12, 63, 64) /\ Places(p["am"], 0, 5, 64)
  BY DEF QiIotlb, Run, WordBits, Granularity, Did, PageAddr, AddressMask,
         Places
<1>3. /\ Places(g["granularity"], 0, 1, 4) /\ Places(g["did"], 0, 15, 16)
      /\ Places(g["addr"], 12, 63, 64) /\ Places(g["am"], 0, 5, 64)
  BY DEF QiFigures, At, U16, Places
<1> HIDE DEF p, g
<1>4. Agree(p, g, QiCodeBits, 127)
  <2> SUFFICES ASSUME NEW f \in DOMAIN g
               PROVE  /\ f \in DOMAIN p /\ DOMAIN g[f] \subseteq DOMAIN p[f]
                      /\ \A b \in DOMAIN g[f] : g[f][b] = p[f][b]
                      /\ \A b \in DOMAIN p[f] : p[f][b] \in 0 .. 127 /\ p[f][b] \notin QiCodeBits
    BY DEF Agree
  <2> QED BY <1>1, <1>2, <1>3 DEF Places, QiCodeBits
<1>5. PlacesApart(p, DOMAIN g)
  <2> SUFFICES ASSUME NEW f \in DOMAIN g, NEW h \in DOMAIN g,
                      NEW b \in DOMAIN p[f], NEW c \in DOMAIN p[h], p[f][b] = p[h][c]
               PROVE  f = h /\ b = c
    BY DEF PlacesApart
  <2> QED BY <1>1, <1>2 DEF Places
<1>6. Legible(p, g, args)
  <2>1. ASSUME NEW f \in DOMAIN g PROVE args[f] \cap DOMAIN p[f] \subseteq DOMAIN g[f]
    BY <1>1, <1>2, <1>3 DEF Places
  <2> QED BY <1>1, <2>1 DEF Legible
<1> QED BY <1>4, <1>5, <1>6 DEF Fitting, p, g

(* QiDevTlb. *)
LEMMA DevTlbFits ==
  ASSUME NEW args
  PROVE  /\ Fitting(QiDevTlb, QiFigures["DevTlb"].get, QiCodeBits, 127)
         /\ Legible(QiDevTlb, QiFigures["DevTlb"].get, args)
<1> DEFINE p == QiDevTlb
           g == QiFigures["DevTlb"].get
<1>1. /\ DOMAIN p = {"sid", "addr", "oversized"}
      /\ DOMAIN g = DOMAIN p
  BY DEF QiDevTlb, QiFigures
<1>2. /\ Places(p["sid"], 0, 15, 32) /\ Places(p["addr"], 12, 63, 64)
      /\ Places(p["oversized"], 0, 0, 64)
  BY DEF QiDevTlb, Run, WordBits, Sid, PageAddr, Places
<1>3. /\ Places(g["sid"], 0, 15, 32) /\ Places(g["addr"], 12, 63, 64)
      /\ Places(g["oversized"], 0, 0, 64)
  BY DEF QiFigures, At, Bool, U16, Places
<1> HIDE DEF p, g
<1>4. Agree(p, g, QiCodeBits, 127)
  <2> SUFFICES ASSUME NEW f \in DOMAIN g
               PROVE  /\ f \in DOMAIN p /\ DOMAIN g[f] \subseteq DOMAIN p[f]
                      /\ \A b \in DOMAIN g[f] : g[f][b] = p[f][b]
                      /\ \A b \in DOMAIN p[f] : p[f][b] \in 0 .. 127 /\ p[f][b] \notin QiCodeBits
    BY DEF Agree
  <2> QED BY <1>1, <1>2, <1>3 DEF Places, QiCodeBits
<1>5. PlacesApart(p, DOMAIN g)
  <2> SUFFICES ASSUME NEW f \in DOMAIN g, NEW h \in DOMAIN g,
                      NEW b \in DOMAIN p[f], NEW c \in DOMAIN p[h], p[f][b] = p[h][c]
               PROVE  f = h /\ b = c
    BY DEF PlacesApart
  <2> QED BY <1>1, <1>2 DEF Places
<1>6. Legible(p, g, args)
  <2>1. ASSUME NEW f \in DOMAIN g PROVE args[f] \cap DOMAIN p[f] \subseteq DOMAIN g[f]
    BY <1>1, <1>2, <1>3 DEF Places
  <2> QED BY <1>1, <2>1 DEF Legible
<1> QED BY <1>4, <1>5, <1>6 DEF Fitting, p, g

(* QiIec. *)
LEMMA IecFits ==
  ASSUME NEW args
  PROVE  /\ Fitting(QiIec, QiFigures["Iec"].get, QiCodeBits, 127)
         /\ Legible(QiIec, QiFigures["Iec"].get, args)
<1> DEFINE p == QiIec
           g == QiFigures["Iec"].get
<1>1. /\ DOMAIN p = {"global", "index_mask", "start_index"}
      /\ DOMAIN g = DOMAIN p
  BY DEF QiIec, QiFigures
<1>2. /\ Places(p["global"], 0, 0, 4) /\ Places(p["index_mask"], 0, 4, 27)
      /\ Places(p["start_index"], 0, 15, 32)
  BY DEF QiIec, Run, WordBits, Places
<1>3. /\ Places(g["global"], 0, 0, 4) /\ Places(g["index_mask"], 0, 4, 27)
      /\ Places(g["start_index"], 0, 15, 32)
  BY DEF QiFigures, At, Bool, U16, Places
<1> HIDE DEF p, g
<1>4. Agree(p, g, QiCodeBits, 127)
  <2> SUFFICES ASSUME NEW f \in DOMAIN g
               PROVE  /\ f \in DOMAIN p /\ DOMAIN g[f] \subseteq DOMAIN p[f]
                      /\ \A b \in DOMAIN g[f] : g[f][b] = p[f][b]
                      /\ \A b \in DOMAIN p[f] : p[f][b] \in 0 .. 127 /\ p[f][b] \notin QiCodeBits
    BY DEF Agree
  <2> QED BY <1>1, <1>2, <1>3 DEF Places, QiCodeBits
<1>5. PlacesApart(p, DOMAIN g)
  <2> SUFFICES ASSUME NEW f \in DOMAIN g, NEW h \in DOMAIN g,
                      NEW b \in DOMAIN p[f], NEW c \in DOMAIN p[h], p[f][b] = p[h][c]
               PROVE  f = h /\ b = c
    BY DEF PlacesApart
  <2> QED BY <1>1, <1>2 DEF Places
<1>6. Legible(p, g, args)
  <2>1. ASSUME NEW f \in DOMAIN g PROVE args[f] \cap DOMAIN p[f] \subseteq DOMAIN g[f]
    BY <1>1, <1>2, <1>3 DEF Places
  <2> QED BY <1>1, <2>1 DEF Legible
<1> QED BY <1>4, <1>5, <1>6 DEF Fitting, p, g

(* QiWait. *)
LEMMA WaitFits ==
  ASSUME NEW args
  PROVE  /\ Fitting(QiWait, QiFigures["Wait"].get, QiCodeBits, 127)
         /\ Legible(QiWait, QiFigures["Wait"].get, args)
<1> DEFINE p == QiWait
           g == QiFigures["Wait"].get
<1>1. /\ DOMAIN p = {"interrupt_flag", "status_write", "fence",
                     "status_data", "status_addr"}
      /\ DOMAIN g = DOMAIN p
  BY DEF QiWait, QiFigures
<1>2. /\ Places(p["interrupt_flag"], 0, 0, 4)
      /\ Places(p["status_write"], 0, 0, 5) /\ Places(p["fence"], 0, 0, 6)
      /\ Places(p["status_data"], 0, 31, 32)
      /\ Places(p["status_addr"], 3, 63, 64)
  BY DEF QiWait, Run, WordBits, Places
<1>3. /\ Places(g["interrupt_flag"], 0, 0, 4)
      /\ Places(g["status_write"], 0, 0, 5) /\ Places(g["fence"], 0, 0, 6)
      /\ Places(g["status_data"], 0, 31, 32)
      /\ Places(g["status_addr"], 3, 63, 64)
  BY DEF QiFigures, At, Bool, U32, Places
<1> HIDE DEF p, g
<1>4. Agree(p, g, QiCodeBits, 127)
  <2> SUFFICES ASSUME NEW f \in DOMAIN g
               PROVE  /\ f \in DOMAIN p /\ DOMAIN g[f] \subseteq DOMAIN p[f]
                      /\ \A b \in DOMAIN g[f] : g[f][b] = p[f][b]
                      /\ \A b \in DOMAIN p[f] : p[f][b] \in 0 .. 127 /\ p[f][b] \notin QiCodeBits
    BY DEF Agree
  <2> QED BY <1>1, <1>2, <1>3 DEF Places, QiCodeBits
<1>5. PlacesApart(p, DOMAIN g)
  <2> SUFFICES ASSUME NEW f \in DOMAIN g, NEW h \in DOMAIN g,
                      NEW b \in DOMAIN p[f], NEW c \in DOMAIN p[h], p[f][b] = p[h][c]
               PROVE  f = h /\ b = c
    BY DEF PlacesApart
  <2> QED BY <1>1, <1>2 DEF Places
<1>6. Legible(p, g, args)
  <2>1. ASSUME NEW f \in DOMAIN g PROVE args[f] \cap DOMAIN p[f] \subseteq DOMAIN g[f]
    BY <1>1, <1>2, <1>3 DEF Places
  <2> QED BY <1>1, <2>1 DEF Legible
<1> QED BY <1>4, <1>5, <1>6 DEF Fitting, p, g

(* QiPiotlb. *)
LEMMA PiotlbFits ==
  ASSUME NEW args
  PROVE  /\ Fitting(QiPiotlb, QiFigures["PasidIotlb"].get, QiCodeBits, 127)
         /\ Legible(QiPiotlb, QiFigures["PasidIotlb"].get, args)
<1> DEFINE p == QiPiotlb
           g == QiFigures["PasidIotlb"].get
<1>1. /\ DOMAIN p = {"granularity", "did", "pasid", "addr", "am"}
      /\ DOMAIN g = DOMAIN p
  BY DEF QiPiotlb, QiFigures
<1>2. /\ Places(p["granularity"], 0, 1, 4) /\ Places(p["did"], 0, 15, 16)
      /\ Places(p["pasid"], 0, 31, 32) /\ Places(p["addr"], 12, 63, 64)
      /\ Places(p["am"], 0, 5, 64)
  BY DEF QiPiotlb, Run, WordBits, Granularity, Did, Pasid, PageAddr,
         AddressMask, Places
<1>3. /\ Places(g["granularity"], 0, 1, 4) /\ Places(g["did"], 0, 15, 16)
      /\ Places(g["pasid"], 0, 31, 32) /\ Places(g["addr"], 12, 63, 64)
      /\ Places(g["am"], 0, 5, 64)
  BY DEF QiFigures, At, U16, U32, Places
<1> HIDE DEF p, g
<1>4. Agree(p, g, QiCodeBits, 127)
  <2> SUFFICES ASSUME NEW f \in DOMAIN g
               PROVE  /\ f \in DOMAIN p /\ DOMAIN g[f] \subseteq DOMAIN p[f]
                      /\ \A b \in DOMAIN g[f] : g[f][b] = p[f][b]
                      /\ \A b \in DOMAIN p[f] : p[f][b] \in 0 .. 127 /\ p[f][b] \notin QiCodeBits
    BY DEF Agree
  <2> QED BY <1>1, <1>2, <1>3 DEF Places, QiCodeBits
<1>5. PlacesApart(p, DOMAIN g)
  <2> SUFFICES ASSUME NEW f \in DOMAIN g, NEW h \in DOMAIN g,
                      NEW b \in DOMAIN p[f], NEW c \in DOMAIN p[h], p[f][b] = p[h][c]
               PROVE  f = h /\ b = c
    BY DEF PlacesApart
  <2> QED BY <1>1, <1>2 DEF Places
<1>6. Legible(p, g, args)
  <2>1. ASSUME NEW f \in DOMAIN g PROVE args[f] \cap DOMAIN p[f] \subseteq DOMAIN g[f]
    BY <1>1, <1>2, <1>3 DEF Places
  <2> QED BY <1>1, <2>1 DEF Legible
<1> QED BY <1>4, <1>5, <1>6 DEF Fitting, p, g

(* QiPc. *)
LEMMA PcFits ==
  ASSUME NEW args
  PROVE  /\ Fitting(QiPc, QiFigures["PasidCache"].get, QiCodeBits, 127)
         /\ Legible(QiPc, QiFigures["PasidCache"].get, args)
<1> DEFINE p == QiPc
           g == QiFigures["PasidCache"].get
<1>1. /\ DOMAIN p = {"granularity", "did", "pasid"}
      /\ DOMAIN g = DOMAIN p
  BY DEF QiPc, QiFigures
<1>2. /\ Places(p["granularity"], 0, 1, 4) /\ Places(p["did"], 0, 15, 16)
      /\ Places(p["pasid"], 0, 31, 32)
  BY DEF QiPc, Run, WordBits, Granularity, Did, Pasid, Places
<1>3. /\ Places(g["granularity"], 0, 1, 4) /\ Places(g["did"], 0, 15, 16)
      /\ Places(g["pasid"], 0, 31, 32)
  BY DEF QiFigures, At, U16, U32, Places
<1> HIDE DEF p, g
<1>4. Agree(p, g, QiCodeBits, 127)
  <2> SUFFICES ASSUME NEW f \in DOMAIN g
               PROVE  /\ f \in DOMAIN p /\ DOMAIN g[f] \subseteq DOMAIN p[f]
                      /\ \A b \in DOMAIN g[f] : g[f][b] = p[f][b]
                      /\ \A b \in DOMAIN p[f] : p[f][b] \in 0 .. 127 /\ p[f][b] \notin QiCodeBits
    BY DEF Agree
  <2> QED BY <1>1, <1>2, <1>3 DEF Places, QiCodeBits
<1>5. PlacesApart(p, DOMAIN g)
  <2> SUFFICES ASSUME NEW f \in DOMAIN g, NEW h \in DOMAIN g,
                      NEW b \in DOMAIN p[f], NEW c \in DOMAIN p[h], p[f][b] = p[h][c]
               PROVE  f = h /\ b = c
    BY DEF PlacesApart
  <2> QED BY <1>1, <1>2 DEF Places
<1>6. Legible(p, g, args)
  <2>1. ASSUME NEW f \in DOMAIN g PROVE args[f] \cap DOMAIN p[f] \subseteq DOMAIN g[f]
    BY <1>1, <1>2, <1>3 DEF Places
  <2> QED BY <1>1, <2>1 DEF Legible
<1> QED BY <1>4, <1>5, <1>6 DEF Fitting, p, g

(* QiDevPiotlb, without its global flag and its PFSID. *)
LEMMA DevPiotlbFits ==
  ASSUME NEW args, args["global"] = {}, args["pfsid"] = {}
  PROVE  /\ Fitting(QiDevPiotlb, DevPiotlbFigure.get, QiCodeBits, 175)
         /\ Legible(QiDevPiotlb, DevPiotlbFigure.get, args)
<1> DEFINE p == QiDevPiotlb
           g == DevPiotlbFigure.get
<1>1. /\ DOMAIN p = {"global", "pasid", "addr", "size_order", "sid",
                     "pfsid"}
      /\ DOMAIN g = DOMAIN p \ {"global", "pfsid"}
  BY DEF QiDevPiotlb, DevPiotlbFigure
<1>2. /\ Places(p["pasid"], 0, 31, 32) /\ Places(p["addr"], 12, 63, 64)
      /\ Places(p["size_order"], 0, 0, 75) /\ Places(p["sid"], 0, 15, 160)
  BY DEF QiDevPiotlb, Run, WordBits, Pasid, PageAddr, Places
<1>3. /\ Places(g["pasid"], 0, 31, 32) /\ Places(g["addr"], 12, 63, 64)
      /\ Places(g["size_order"], 0, 0, 75) /\ Places(g["sid"], 0, 15, 160)
  BY DEF DevPiotlbFigure, At, Bool, U16, U32, Places
<1> HIDE DEF p, g
<1>4. Agree(p, g, QiCodeBits, 175)
  <2> SUFFICES ASSUME NEW f \in DOMAIN g
               PROVE  /\ f \in DOMAIN p /\ DOMAIN g[f] \subseteq DOMAIN p[f]
                      /\ \A b \in DOMAIN g[f] : g[f][b] = p[f][b]
                      /\ \A b \in DOMAIN p[f] : p[f][b] \in 0 .. 175 /\ p[f][b] \notin QiCodeBits
    BY DEF Agree
  <2> QED BY <1>1, <1>2, <1>3 DEF Places, QiCodeBits
<1>5. PlacesApart(p, DOMAIN g)
  <2> SUFFICES ASSUME NEW f \in DOMAIN g, NEW h \in DOMAIN g,
                      NEW b \in DOMAIN p[f], NEW c \in DOMAIN p[h], p[f][b] = p[h][c]
               PROVE  f = h /\ b = c
    BY DEF PlacesApart
  <2> QED BY <1>1, <1>2 DEF Places
<1>6. Legible(p, g, args)
  <2>1. ASSUME NEW f \in DOMAIN g PROVE args[f] \cap DOMAIN p[f] \subseteq DOMAIN g[f]
    BY <1>1, <1>2, <1>3 DEF Places
  <2> QED BY <1>1, <2>1 DEF Legible
<1> QED BY <1>4, <1>5, <1>6 DEF Fitting, p, g

(* PageFaultEvent. *)
LEMMA PageFaultFits ==
  ASSUME NEW args
  PROVE  /\ Fitting(PageFaultEvent, PageFaultFigures.get, AmdCodeBits, 127)
         /\ Legible(PageFaultEvent, PageFaultFigures.get, args)
<1> DEFINE p == PageFaultEvent
           g == PageFaultFigures.get
<1>1. /\ DOMAIN p = {"device_id", "guest_nested", "nx", "rz",
                     "translation", "reserved", "permission", "write",
                     "interrupt", "domain_id", "addr"}
      /\ DOMAIN g = DOMAIN p
  BY DEF PageFaultEvent, PageFaultFigures
<1>2. /\ Places(p["device_id"], 0, 15, 0)
      /\ Places(p["guest_nested"], 0, 0, 16) /\ Places(p["nx"], 0, 0, 17)
      /\ Places(p["rz"], 0, 0, 18) /\ Places(p["translation"], 0, 0, 19)
      /\ Places(p["reserved"], 0, 0, 20) /\ Places(p["permission"], 0, 0, 21)
      /\ Places(p["write"], 0, 0, 22) /\ Places(p["interrupt"], 0, 0, 23)
      /\ Places(p["domain_id"], 0, 19, 32)
  BY DEF PageFaultEvent, DRun, DFlag, Places
<1>3. /\ DOMAIN p["addr"] = 12 .. 63
      /\ \A b \in 12 .. 63 :
           p["addr"][b] = IF b < 32 THEN 52 + b ELSE 64 + b
  BY DEF PageFaultEvent, DRun, Beside, LogAddress
<1>4. /\ Places(g["device_id"], 0, 15, 0)
      /\ Places(g["guest_nested"], 0, 0, 16) /\ Places(g["nx"], 0, 0, 17)
      /\ Places(g["rz"], 0, 0, 18) /\ Places(g["translation"], 0, 0, 19)
      /\ Places(g["reserved"], 0, 0, 20) /\ Places(g["permission"], 0, 0, 21)
      /\ Places(g["write"], 0, 0, 22) /\ Places(g["interrupt"], 0, 0, 23)
      /\ Places(g["domain_id"], 0, 19, 32)
  BY DEF PageFaultFigures, At, Bool, U16, Places
<1>5. /\ DOMAIN g["addr"] = 12 .. 63
      /\ \A b \in 12 .. 63 :
           g["addr"][b] = IF b < 32 THEN 52 + b ELSE 64 + b
  BY DEF PageFaultFigures, LogAddressFigure
<1> HIDE DEF p, g
<1>6. Agree(p, g, AmdCodeBits, 127)
  <2> SUFFICES ASSUME NEW f \in DOMAIN g
               PROVE  /\ f \in DOMAIN p /\ DOMAIN g[f] \subseteq DOMAIN p[f]
                      /\ \A b \in DOMAIN g[f] : g[f][b] = p[f][b]
                      /\ \A b \in DOMAIN p[f] : p[f][b] \in 0 .. 127 /\ p[f][b] \notin AmdCodeBits
    BY DEF Agree
  <2> QED BY <1>1, <1>2, <1>3, <1>4, <1>5 DEF Places, AmdCodeBits
<1>7. PlacesApart(p, DOMAIN g)
  <2> SUFFICES ASSUME NEW f \in DOMAIN g, NEW h \in DOMAIN g,
                      NEW b \in DOMAIN p[f], NEW c \in DOMAIN p[h], p[f][b] = p[h][c]
               PROVE  f = h /\ b = c
    BY DEF PlacesApart
  <2> QED BY <1>1, <1>2, <1>3 DEF Places
<1>8. Legible(p, g, args)
  <2>1. ASSUME NEW f \in DOMAIN g PROVE args[f] \cap DOMAIN p[f] \subseteq DOMAIN g[f]
    BY <1>1, <1>2, <1>3, <1>4, <1>5 DEF Places
  <2> QED BY <1>1, <2>1 DEF Legible
<1> QED BY <1>6, <1>7, <1>8 DEF Fitting, p, g

(* The nineteen bits that PprEntry::from_words reads. *)
LEMMA PprPasid ==
  /\ DOMAIN PprFigures.get["pasid"] = 0 .. 18
  /\ \A b \in 0 .. 18 :
       PprFigures.get["pasid"][b] = IF b < 16 THEN 16 + b ELSE 32 + b
  BY DEF PprFigures, Beside, At

(* PprEntry: nineteen bits of the PASID are read, twenty written. *)
LEMMA PprEntryFits ==
  ASSUME NEW args, 19 \notin args["pasid"]
  PROVE  /\ Fitting(PprEntry, PprFigures.get, AmdCodeBits, 127)
         /\ Legible(PprEntry, PprFigures.get, args)
<1> DEFINE p == PprEntry
           g == PprFigures.get
<1>1. /\ DOMAIN p = {"device_id", "pasid", "ppr_tag", "gn", "rz", "user",
                     "write", "read", "nx", "addr"}
      /\ DOMAIN g = DOMAIN p
  BY DEF PprEntry, PprFigures
<1>2. /\ Places(p["device_id"], 0, 15, 0) /\ Places(p["ppr_tag"], 0, 15, 32)
      /\ Places(p["gn"], 0, 0, 58) /\ Places(p["rz"], 0, 0, 57)
      /\ Places(p["user"], 0, 0, 56) /\ Places(p["write"], 0, 0, 55)
      /\ Places(p["read"], 0, 0, 53) /\ Places(p["nx"], 0, 0, 52)
  BY DEF PprEntry, DRun, DFlag, Places
<1>3. /\ DOMAIN p["pasid"] = 0 .. 19
      /\ \A b \in 0 .. 19 :
           p["pasid"][b] = IF b < 16 THEN 16 + b ELSE 32 + b
  BY DEF PprEntry, DRun, Beside
<1>4. /\ DOMAIN p["addr"] = 12 .. 63
      /\ \A b \in 12 .. 63 :
           p["addr"][b] = IF b < 32 THEN 52 + b ELSE 64 + b
  BY DEF PprEntry, DRun, Beside, LogAddress
<1>5. /\ Places(g["device_id"], 0, 15, 0) /\ Places(g["ppr_tag"], 0, 15, 32)
      /\ Places(g["gn"], 0, 0, 58) /\ Places(g["rz"], 0, 0, 57)
      /\ Places(g["user"], 0, 0, 56) /\ Places(g["write"], 0, 0, 55)
      /\ Places(g["read"], 0, 0, 53) /\ Places(g["nx"], 0, 0, 52)
  BY DEF PprFigures, At, Bool, U16, Places
<1>6. /\ DOMAIN g["pasid"] = 0 .. 18
      /\ \A b \in 0 .. 18 :
           g["pasid"][b] = IF b < 16 THEN 16 + b ELSE 32 + b
  BY PprPasid
<1>7. /\ DOMAIN g["addr"] = 12 .. 63
      /\ \A b \in 12 .. 63 :
           g["addr"][b] = IF b < 32 THEN 52 + b ELSE 64 + b
  BY DEF PprFigures, LogAddressFigure
<1> HIDE DEF p, g
<1>8. Agree(p, g, AmdCodeBits, 127)
  <2> SUFFICES ASSUME NEW f \in DOMAIN g
               PROVE  /\ f \in DOMAIN p /\ DOMAIN g[f] \subseteq DOMAIN p[f]
                      /\ \A b \in DOMAIN g[f] : g[f][b] = p[f][b]
                      /\ \A b \in DOMAIN p[f] : p[f][b] \in 0 .. 127 /\ p[f][b] \notin AmdCodeBits
    BY DEF Agree
  <2> QED BY <1>1, <1>2, <1>3, <1>4, <1>5, <1>6, <1>7 DEF Places, AmdCodeBits
<1>9. PlacesApart(p, DOMAIN g)
  <2> SUFFICES ASSUME NEW f \in DOMAIN g, NEW h \in DOMAIN g,
                      NEW b \in DOMAIN p[f], NEW c \in DOMAIN p[h], p[f][b] = p[h][c]
               PROVE  f = h /\ b = c
    BY DEF PlacesApart
  <2> QED BY <1>1, <1>2, <1>3, <1>4 DEF Places
<1>10. Legible(p, g, args)
  <2>1. ASSUME NEW f \in DOMAIN g PROVE args[f] \cap DOMAIN p[f] \subseteq DOMAIN g[f]
    BY <1>1, <1>2, <1>3, <1>4, <1>5, <1>6, <1>7 DEF Places
  <2> QED BY <1>1, <2>1 DEF Legible
<1> QED BY <1>8, <1>9, <1>10 DEF Fitting, p, g

(* InvalidateIommuAll has no arguments. *)
LEMMA IommuAllFits ==
  ASSUME NEW args
  PROVE  /\ Fitting(<< >>, << >>, AmdCodeBits, 127)
         /\ Legible(<< >>, << >>, args)
<1>1. DOMAIN << >> = {}
  OBVIOUS
<1> QED BY <1>1 DEF Fitting, Agree, PlacesApart, Legible

---------------------------------------------------------------------------
(* Round trips *)

(* No two operations have the same type code. *)
Distinct(figures) ==
  \A o, p \in DOMAIN figures : figures[o].code = figures[p].code => o = p

(* DecodeBy finds the operation whose code it is. *)
LEMMA DecodesTo ==
  ASSUME NEW figures, NEW op \in DOMAIN figures, NEW bits, Distinct(figures)
  PROVE  DecodeBy(figures, figures[op].code, bits) =
           [op |-> op, args |-> Decoded(figures[op], bits)]
<1> DEFINE code == figures[op].code
           o == CHOOSE p \in DOMAIN figures : figures[p].code = code
<1>1. o \in DOMAIN figures /\ figures[o].code = code
  OBVIOUS
<1>2. o = op
  BY <1>1 DEF Distinct
<1> QED BY <1>2 DEF DecodeBy

(* The operations of cmd.rs whose opcode is their own. *)
AmdOps == DOMAIN AmdFigures \ {"InvalidateInterruptTable"}

(* Writer and reader of AMD's commands use the same codes, all different. *)
LEMMA AmdCodes ==
  /\ Distinct(AmdFigures)
  /\ \A op \in AmdOps : op \in DOMAIN AmdWords /\ AmdFigures[op].code = AmdWords[op].code
  /\ \A op \in AmdOps : AmdWords[op].code \in SUBSET (0 .. 3)
<1>1. DOMAIN AmdFigures =
        {"CompletionWait", "InvalidateDevTabEntry", "InvalidateIommuPages",
         "InvalidateIotlbPages", "InvalidateInterruptTable", "CompletePprRequest",
         "InvalidateIommuAll"}
  BY DEF AmdFigures
<1>2. DOMAIN AmdWords = DOMAIN AmdFigures
  BY DEF AmdFigures, AmdWords
<1>3. /\ AmdFigures["CompletionWait"].code = {0}
      /\ AmdFigures["InvalidateDevTabEntry"].code = {1}
      /\ AmdFigures["InvalidateIommuPages"].code = {0, 1}
      /\ AmdFigures["InvalidateIotlbPages"].code = {2}
      /\ AmdFigures["InvalidateInterruptTable"].code = {0, 2}
      /\ AmdFigures["CompletePprRequest"].code = {0, 1, 2}
      /\ AmdFigures["InvalidateIommuAll"].code = {3}
  BY CodeValues DEF AmdFigures
<1>4. /\ AmdWords["CompletionWait"].code = {0}
      /\ AmdWords["InvalidateDevTabEntry"].code = {1}
      /\ AmdWords["InvalidateIommuPages"].code = {0, 1}
      /\ AmdWords["InvalidateIotlbPages"].code = {2}
      /\ AmdWords["CompletePprRequest"].code = {0, 1, 2}
      /\ AmdWords["InvalidateIommuAll"].code = {3}
  BY CodeValues DEF AmdWords
<1>5. Distinct(AmdFigures)
  BY <1>1, <1>3 DEF Distinct
<1>6. ASSUME NEW op \in AmdOps
      PROVE  /\ op \in DOMAIN AmdWords /\ AmdFigures[op].code = AmdWords[op].code
             /\ AmdWords[op].code \subseteq 0 .. 3
  <2>1. op \in DOMAIN AmdWords /\ AmdFigures[op].code = AmdWords[op].code
    BY <1>1, <1>2, <1>3, <1>4 DEF AmdOps
  <2>2. AmdWords[op].code \in {{0}, {1}, {0, 1}, {2}, {0, 1, 2}, {3}}
    BY <1>1, <1>4 DEF AmdOps
  <2> QED BY <2>1, <2>2
<1> QED BY <1>5, <1>6

(* The layouts of AMD's commands fit. *)
LEMMA AmdFits ==
  ASSUME NEW op \in AmdOps, NEW args
  PROVE  /\ Fitting(AmdWords[op].put, AmdFigures[op].get, AmdCodeBits, 127)
         /\ Legible(AmdWords[op].put, AmdFigures[op].get, args)
<1>0. AmdOps = {"CompletionWait", "InvalidateDevTabEntry", "InvalidateIommuPages",
                "InvalidateIotlbPages", "CompletePprRequest", "InvalidateIommuAll"}
  BY DEF AmdOps, AmdFigures
<1>1. CASE op = "CompletionWait"
  <2>1. AmdWords[op].put = CompletionWait
    BY <1>1 DEF AmdWords
  <2> QED BY <1>1, <2>1, CompletionWaitFits
<1>2. CASE op = "InvalidateDevTabEntry"
  <2>1. AmdWords[op].put = InvalidateDevTabEntry
    BY <1>2 DEF AmdWords
  <2> QED BY <1>2, <2>1, DevTabEntryFits
<1>3. CASE op = "InvalidateIommuPages"
  <2>1. AmdWords[op].put = InvalidateIommuPages
    BY <1>3 DEF AmdWords
  <2> QED BY <1>3, <2>1, IommuPagesFits
<1>4. CASE op = "InvalidateIotlbPages"
  <2>1. AmdWords[op].put = InvalidateIotlbPages
    BY <1>4 DEF AmdWords
  <2> QED BY <1>4, <2>1, IotlbPagesFits
<1>5. CASE op = "CompletePprRequest"
  <2>1. AmdWords[op].put = CompletePprRequest
    BY <1>5 DEF AmdWords
  <2> QED BY <1>5, <2>1, PprRequestFits
<1>6. CASE op = "InvalidateIommuAll"
  <2>1. AmdWords[op].put = << >> /\ AmdFigures[op].get = << >>
    BY <1>6 DEF AmdWords, AmdFigures
  <2> QED BY <2>1, IommuAllFits
<1> QED BY <1>0, <1>1, <1>2, <1>3, <1>4, <1>5, <1>6

(* A layout whose type code is at bits 63:60. *)
LEMMA TopTrip ==
  ASSUME NEW w, NEW g, NEW args, NEW type \in SUBSET (0 .. 3),
         Fitting(w.put, g.get, AmdCodeBits, 127), Legible(w.put, g.get, args)
  PROVE  /\ Within(Encoded(w, ShiftLeft(type, 60), args), 127)
         /\ extract_bits(Encoded(w, ShiftLeft(type, 60), args), 63, 60) = type
         /\ Decoded(g, Encoded(w, ShiftLeft(type, 60), args)) = Held(w.put, g.get, args)
<1>0. PICK code : code = ShiftLeft(type, 60)
  OBVIOUS
<1> DEFINE bits == Encoded(w, code, args)
<1>1. code \subseteq AmdCodeBits
  BY <1>0, TopCodeBits
<1>2. Within(code, 127)
  BY <1>1 DEF AmdCodeBits, Within
<1>3. Within(bits, 127)
  BY <1>1, <1>2, StaysInside
<1>4. HasCode(bits, AmdCodeBits, code)
  BY <1>1, KeepsCode
<1>5. extract_bits(bits, 63, 60) = type
  <2>1. bits \in SUBSET Nat /\ bits \cap AmdCodeBits = ShiftLeft(type, 60)
    BY <1>0, <1>3, <1>4 DEF Within, HasCode
  <2> HIDE DEF bits
  <2> QED BY <2>1, TopCode
<1>6. Decoded(g, bits) = Held(w.put, g.get, args)
  BY <1>1, ReadsBack
<1> QED BY <1>0, <1>3, <1>5, <1>6

(* AMD commands, all but InvalidateInterruptTable: what the IOMMU reads in *)
(* the four dwords is the command, for every value of its arguments.       *)
LEMMA AmdRoundTrip ==
  ASSUME NEW c, c.op \in AmdOps
  PROVE  /\ Within(AmdEncode(c), 127)
         /\ AmdDecode(AmdEncode(c)) =
              [op |-> c.op, args |-> Held(AmdWords[c.op].put, AmdFigures[c.op].get, c.args)]
<1>0. PICK op, w, g, args :
        op = c.op /\ w = AmdWords[op] /\ g = AmdFigures[op] /\ args = c.args
  OBVIOUS
<1> DEFINE bits == Encoded(w, ShiftLeft(w.code, 60), args)
<1>1. Fitting(w.put, g.get, AmdCodeBits, 127) /\ Legible(w.put, g.get, args)
  BY <1>0, AmdFits
<1>2. w.code \in SUBSET (0 .. 3) /\ AmdFigures[op].code = w.code /\ op \in DOMAIN AmdFigures
  BY <1>0, AmdCodes DEF AmdOps
<1>3. /\ Within(bits, 127) /\ AmdCode(bits) = w.code
      /\ Decoded(g, bits) = Held(w.put, g.get, args)
  <2>1. w.code \in SUBSET (0 .. 3)
    BY <1>2
  <2>2. /\ Within(bits, 127) /\ extract_bits(bits, 63, 60) = w.code
        /\ Decoded(g, bits) = Held(w.put, g.get, args)
    BY <1>1, <2>1, TopTrip
  <2> QED BY <2>2 DEF AmdCode
<1>4. AmdEncode(c) = bits
  BY <1>0 DEF AmdEncode
<1> HIDE DEF bits
<1>5. DecodeBy(AmdFigures, AmdFigures[op].code, bits) =
        [op |-> op, args |-> Decoded(AmdFigures[op], bits)]
  BY <1>2, DecodesTo, AmdCodes
<1>6. AmdDecode(bits) = [op |-> op, args |-> Decoded(g, bits)]
  BY <1>0, <1>2, <1>3, <1>5 DEF AmdDecode
<1> QED BY <1>0, <1>3, <1>4, <1>6

(* The operations that have a 128-bit form. *)
LEMMA QiCodes ==
  /\ Distinct(QiWideFigures)
  /\ \A op \in DOMAIN QiWideFigures :
       /\ op \in DOMAIN QiWords /\ QiWideFigures[op].code = QiWords[op].code
       /\ QiWords[op].code \in SUBSET (0 .. 3)
<1>1. DOMAIN QiFigures =
        {"ContextCache", "Iotlb", "DevTlb", "Iec", "Wait", "PasidIotlb", "PasidCache"}
  BY DEF QiFigures
<1>2. DOMAIN QiWords = DOMAIN QiFigures \cup {"PasidDevTlb"}
  BY DEF QiFigures, QiWords
<1>3. /\ QiFigures["ContextCache"].code = {0} /\ QiFigures["Iotlb"].code = {1}
      /\ QiFigures["DevTlb"].code = {0, 1} /\ QiFigures["Iec"].code = {2}
      /\ QiFigures["Wait"].code = {0, 2} /\ QiFigures["PasidIotlb"].code = {1, 2}
      /\ QiFigures["PasidCache"].code = {0, 1, 2}
  BY CodeValues DEF QiFigures
<1>4. /\ QiWords["ContextCache"].code = {0} /\ QiWords["Iotlb"].code = {1}
      /\ QiWords["DevTlb"].code = {0, 1} /\ QiWords["Iec"].code = {2}
      /\ QiWords["Wait"].code = {0, 2} /\ QiWords["PasidIotlb"].code = {1, 2}
      /\ QiWords["PasidCache"].code = {0, 1, 2} /\ QiWords["PasidDevTlb"].code = {3}
  BY CodeValues DEF QiWords
<1>5. QiWideFigures["PasidDevTlb"].code = {3}
  BY WideFigure, CodeValues
<1>6. DOMAIN QiWideFigures =
        {"ContextCache", "Iotlb", "DevTlb", "Iec", "Wait", "PasidIotlb", "PasidCache",
         "PasidDevTlb"}
  BY <1>1, WideFigure
<1>7. /\ QiWideFigures["ContextCache"].code = {0} /\ QiWideFigures["Iotlb"].code = {1}
      /\ QiWideFigures["DevTlb"].code = {0, 1} /\ QiWideFigures["Iec"].code = {2}
      /\ QiWideFigures["Wait"].code = {0, 2} /\ QiWideFigures["PasidIotlb"].code = {1, 2}
      /\ QiWideFigures["PasidCache"].code = {0, 1, 2}
  BY <1>1, <1>3, WideFigure
<1>8. Distinct(QiWideFigures)
  BY <1>5, <1>6, <1>7 DEF Distinct
<1>9. ASSUME NEW op \in DOMAIN QiWideFigures
      PROVE  /\ op \in DOMAIN QiWords /\ QiWideFigures[op].code = QiWords[op].code
             /\ QiWords[op].code \subseteq 0 .. 3
  <2>1. op \in DOMAIN QiWords /\ QiWideFigures[op].code = QiWords[op].code
    BY <1>1, <1>2, <1>4, <1>5, <1>6, <1>7
  <2>2. QiWords[op].code \in {{0}, {1}, {0, 1}, {2}, {0, 2}, {1, 2}, {0, 1, 2}, {3}}
    BY <1>4, <1>6
  <2> QED BY <2>1, <2>2
<1> QED BY <1>8, <1>9

(* The layouts of the descriptors fit. *)
LEMMA QiFits ==
  ASSUME NEW op \in DOMAIN QiFigures, NEW args
  PROVE  /\ Fitting(QiWords[op].put, QiFigures[op].get, QiCodeBits, 127)
         /\ Legible(QiWords[op].put, QiFigures[op].get, args)
<1>0. DOMAIN QiFigures =
        {"ContextCache", "Iotlb", "DevTlb", "Iec", "Wait", "PasidIotlb", "PasidCache"}
  BY DEF QiFigures
<1>1. CASE op = "ContextCache"
  <2>1. QiWords[op].put = QiCc
    BY <1>1 DEF QiWords
  <2> QED BY <1>1, <2>1, CcFits
<1>2. CASE op = "Iotlb"
  <2>1. QiWords[op].put = QiIotlb
    BY <1>2 DEF QiWords
  <2> QED BY <1>2, <2>1, IotlbFits
<1>3. CASE op = "DevTlb"
  <2>1. QiWords[op].put = QiDevTlb
    BY <1>3 DEF QiWords
  <2> QED BY <1>3, <2>1, DevTlbFits
<1>4. CASE op = "Iec"
  <2>1. QiWords[op].put = QiIec
    BY <1>4 DEF QiWords
  <2> QED BY <1>4, <2>1, IecFits
<1>5. CASE op = "Wait"
  <2>1. QiWords[op].put = QiWait
    BY <1>5 DEF QiWords
  <2> QED BY <1>5, <2>1, WaitFits
<1>6. CASE op = "PasidIotlb"
  <2>1. QiWords[op].put = QiPiotlb
    BY <1>6 DEF QiWords
  <2> QED BY <1>6, <2>1, PiotlbFits
<1>7. CASE op = "PasidCache"
  <2>1. QiWords[op].put = QiPc
    BY <1>7 DEF QiWords
  <2> QED BY <1>7, <2>1, PcFits
<1> QED BY <1>0, <1>1, <1>2, <1>3, <1>4, <1>5, <1>6, <1>7

(* A layout whose type code is at the bottom of the descriptor. *)
LEMMA QiTrip ==
  ASSUME NEW w, NEW g, NEW top \in {127, 175}, NEW args, w.code \in SUBSET (0 .. 3),
         Fitting(w.put, g.get, QiCodeBits, top), Legible(w.put, g.get, args)
  PROVE  /\ Within(Encoded(w, type_bits(w.code), args), top)
         /\ HasCode(Encoded(w, type_bits(w.code), args), QiCodeBits, w.code)
         /\ QiCode(Encoded(w, type_bits(w.code), args)) = w.code
         /\ Decoded(g, Encoded(w, type_bits(w.code), args)) = Held(w.put, g.get, args)
<1>0. PICK code : code = type_bits(w.code)
  OBVIOUS
<1> DEFINE bits == Encoded(w, code, args)
<1>1. code \subseteq QiCodeBits
  BY <1>0, TypeBits
<1>2. code = w.code /\ code \in SUBSET (0 .. 3)
  BY <1>0, TypeBits
<1>3. Within(code, top)
  BY <1>2 DEF Within
<1>4. Within(bits, top)
  BY <1>1, <1>3, StaysInside
<1>5. HasCode(bits, QiCodeBits, code)
  BY <1>1, KeepsCode
<1>6. QiCode(bits) = w.code
  <2>1. bits \in SUBSET Nat
    BY <1>4 DEF Within
  <2> HIDE DEF bits
  <2>2. QiCode(bits) = code
    BY <2>1, <1>2, <1>5, LowCode
  <2> QED BY <2>2, <1>2
<1>7. Decoded(g, bits) = Held(w.put, g.get, args)
  BY <1>1, ReadsBack
<1> QED BY <1>0, <1>2, <1>4, <1>5, <1>6, <1>7

(* Descriptors of 128 bits: QiDesc::from_words of QiDesc::words.           *)
LEMMA QiRoundTrip ==
  ASSUME NEW c, c.op \in DOMAIN QiFigures
  PROVE  /\ Within(words(c), 127)
         /\ from_words(words(c)) =
              [op |-> c.op, args |-> Held(QiWords[c.op].put, QiFigures[c.op].get, c.args)]
<1>0. PICK op, w, g, args :
        op = c.op /\ w = QiWords[op] /\ g = QiFigures[op] /\ args = c.args
  OBVIOUS
<1> DEFINE bits == Encoded(w, type_bits(w.code), args)
<1>1. Fitting(w.put, g.get, QiCodeBits, 127) /\ Legible(w.put, g.get, args)
  BY <1>0, QiFits
<1>2. op \in DOMAIN QiFigures /\ w.code \in SUBSET (0 .. 3) /\ QiFigures[op].code = w.code
  BY <1>0, QiCodes, WideFigure
<1>3. Distinct(QiFigures)
  BY QiCodes, WideFigure DEF Distinct
<1>4. Within(bits, 127) /\ QiCode(bits) = w.code /\ Decoded(g, bits) = Held(w.put, g.get, args)
  BY <1>1, <1>2, QiTrip
<1>5. words(c) = bits
  <2>1. op # "PasidDevTlb"
    BY <1>2 DEF QiFigures
  <2> QED BY <1>0, <2>1 DEF words
<1> HIDE DEF bits
<1>6. DecodeBy(QiFigures, QiFigures[op].code, bits) =
        [op |-> op, args |-> Decoded(QiFigures[op], bits)]
  BY <1>2, <1>3, DecodesTo
<1>7. from_words(bits) = [op |-> op, args |-> Decoded(g, bits)]
  BY <1>0, <1>2, <1>4, <1>6 DEF from_words
<1> QED BY <1>0, <1>4, <1>5, <1>7

(* QiDevPiotlb in a queue of 256-bit descriptors: with `global' clear its  *)
(* type is intact, and without a PFSID nothing is written where none is    *)
(* read.                                                                   *)
LEMMA WideRoundTrip ==
  ASSUME NEW c, c.op = "PasidDevTlb", c.args["global"] = {}, c.args["pfsid"] = {}
  PROVE  /\ Within(words4(c), 255)
         /\ DecodeBy(QiWideFigures, QiCode(words4(c)), words4(c)) =
              [op |-> c.op,
               args |-> [f \in DOMAIN QiValues[c.op] |-> c.args[f] \cap QiValues[c.op][f]]]
<1>0. PICK op, w, g, args :
        op = c.op /\ w = QiWords[op] /\ g = QiWideFigures[op] /\ args = c.args
  OBVIOUS
<1>a. PICK n : n = DevPiotlbFigure
  OBVIOUS
<1> DEFINE bits == Encoded(w, type_bits(w.code), args)
           val == QiValues["PasidDevTlb"]
<1>1. Fitting(w.put, n.get, QiCodeBits, 175) /\ Legible(w.put, n.get, args)
  <2>1. w.put = QiDevPiotlb
    BY <1>0 DEF QiWords
  <2> QED BY <1>0, <1>a, <2>1, DevPiotlbFits
<1>2. /\ op \in DOMAIN QiWideFigures
      /\ w.code \in SUBSET (0 .. 3) /\ QiWideFigures[op].code = w.code
  BY <1>0, QiCodes, WideFigure
<1>3. /\ Within(bits, 175) /\ HasCode(bits, QiCodeBits, w.code) /\ QiCode(bits) = w.code
      /\ Decoded(n, bits) = Held(w.put, n.get, args)
  BY <1>1, <1>2, QiTrip
<1>4. words4(c) = bits
  BY <1>0 DEF words4
<1> HIDE DEF bits
<1>5. DecodeBy(QiWideFigures, QiWideFigures[op].code, bits) =
        [op |-> op, args |-> Decoded(QiWideFigures[op], bits)]
  BY <1>2, QiCodes, DecodesTo
<1>6. Within(bits, 255)
  BY <1>3 DEF Within
<1>7. Decoded(g, bits) = [f \in DOMAIN val |-> args[f] \cap val[f]]
  <2>1. /\ DOMAIN g.get = {"global", "pasid", "addr", "size_order", "sid", "pfsid"}
        /\ DOMAIN val = DOMAIN g.get
        /\ DOMAIN n.get = {"pasid", "addr", "size_order", "sid"}
    BY <1>0, <1>a, WideFigure DEF QiValues, DevPiotlbFigure
  <2>2. \A f \in DOMAIN n.get : g.get[f] = n.get[f] /\ val[f] = DOMAIN n.get[f]
    <3>1. \A f \in DOMAIN n.get : g.get[f] = n.get[f]
      BY <1>0, <1>a, <2>1, WideFigure DEF DevPiotlbFigure
    <3>2. /\ val["pasid"] = U32 /\ val["addr"] = 12 .. 63
          /\ val["size_order"] = Bool /\ val["sid"] = U16
      BY DEF QiValues
    <3>3. /\ n.get["pasid"] = At(U32, 32) /\ n.get["addr"] = At(12 .. 63, 64)
          /\ n.get["size_order"] = At(Bool, 75) /\ n.get["sid"] = At(U16, 160)
      BY <1>a DEF DevPiotlbFigure
    <3>4. /\ DOMAIN n.get["pasid"] = U32 /\ DOMAIN n.get["addr"] = 12 .. 63
          /\ DOMAIN n.get["size_order"] = Bool /\ DOMAIN n.get["sid"] = U16
      BY <3>3 DEF At
    <3> HIDE DEF val
    <3> QED BY <2>1, <3>1, <3>2, <3>4
  <2>3. ASSUME NEW f \in DOMAIN n.get
        PROVE  {b \in DOMAIN g.get[f] : g.get[f][b] \in bits} = args[f] \cap val[f]
    <3>1. Decoded(n, bits)[f] = {b \in DOMAIN n.get[f] : n.get[f][b] \in bits}
      BY DEF Decoded
    <3>2. Held(w.put, n.get, args)[f] = args[f] \cap DOMAIN w.put[f]
      BY DEF Held
    <3>3. /\ DOMAIN n.get[f] \subseteq DOMAIN w.put[f]
          /\ args[f] \cap DOMAIN w.put[f] \subseteq DOMAIN n.get[f]
      BY <1>1 DEF Fitting, Agree, Legible
    <3> QED BY <1>3, <2>2, <3>1, <3>2, <3>3
  <2>4. {b \in DOMAIN g.get["global"] : g.get["global"][b] \in bits} = {}
    <3>1. w.code = {3}
      BY <1>0, CodeValues DEF QiWords
    <3>2. 0 \notin bits
      BY <1>3, <3>1 DEF HasCode, QiCodeBits
    <3>3. g.get["global"] = At(Bool, 0)
      BY <1>0, WideFigure
    <3> QED BY <3>2, <3>3 DEF At, Bool
  <2>5. {b \in DOMAIN g.get["pfsid"] : g.get["pfsid"][b] \in bits} = {}
    <3>1. g.get["pfsid"] = At(U16, 176)
      BY <1>0, WideFigure
    <3>2. \A b \in U16 : 176 + b \notin bits
      BY <1>3 DEF Within, U16
    <3> QED BY <3>1, <3>2 DEF At
  <2>6. args["global"] = {} /\ args["pfsid"] = {}
    BY <1>0
  <2>7. \A f \in DOMAIN g.get :
          {b \in DOMAIN g.get[f] : g.get[f][b] \in bits} = args[f] \cap val[f]
    BY <2>1, <2>3, <2>4, <2>5, <2>6
  <2> HIDE DEF val
  <2> QED BY <2>1, <2>7 DEF Decoded
<1> QED BY <1>0, <1>2, <1>3, <1>4, <1>5, <1>6, <1>7

(* Page fault events: Event::from_words of PageFaultEvent::words. *)
LEMMA PageFaultRoundTrip ==
  ASSUME NEW c, c.op = "PageFault"
  PROVE  /\ Within(EventEncode(c), 127)
         /\ EventDecode(EventEncode(c)) =
              [op |-> c.op, args |-> Held(PageFaultEvent, PageFaultFigures.get, c.args)]
<1>0. PICK w, g, type, args :
        w = [put |-> PageFaultEvent] /\ g = PageFaultFigures /\ type = BitsOf(2)
        /\ args = c.args
  OBVIOUS
<1> DEFINE bits == Encoded(w, ShiftLeft(type, 60), args)
<1>1. Fitting(w.put, g.get, AmdCodeBits, 127) /\ Legible(w.put, g.get, args)
  BY <1>0, PageFaultFits
<1>2. type \in SUBSET (0 .. 3) /\ g.code = type
  <2>1. type = {1}
    BY <1>0, CodeValues
  <2>2. g.code = type
    BY <1>0 DEF PageFaultFigures
  <2> QED BY <2>1, <2>2
<1>3. /\ Within(bits, 127) /\ LogCode(bits) = type
      /\ Decoded(g, bits) = Held(w.put, g.get, args)
  <2>1. type \in SUBSET (0 .. 3)
    BY <1>2
  <2>2. /\ Within(bits, 127) /\ extract_bits(bits, 63, 60) = type
        /\ Decoded(g, bits) = Held(w.put, g.get, args)
    BY <1>1, <2>1, TopTrip
  <2> QED BY <2>2 DEF LogCode
<1>4. EventEncode(c) = bits
  BY <1>0 DEF EventEncode
<1> HIDE DEF bits
<1>5. EventDecode(bits) = [op |-> "PageFault", args |-> Decoded(g, bits)]
  BY <1>0, <1>2, <1>3 DEF EventDecode
<1> QED BY <1>0, <1>3, <1>4, <1>5

(* Events of any other code are kept as they are, code included if it is  *)
(* the one in the words.                                                   *)
LEMMA RawRoundTrip ==
  ASSUME NEW c, c.op = "Raw", c.args["code"] = LogCode(c.args["words"]),
         c.args["code"] # PageFaultFigures.code
  PROVE  /\ EventEncode(c) = c.args["words"]
         /\ EventDecode(EventEncode(c)) =
              [op |-> "Raw", args |-> [code |-> c.args["code"], words |-> c.args["words"]]]
  BY DEF EventEncode, EventDecode

(* Page requests of PASIDs below 2^19: PprEntry::from_words of words. *)
LEMMA PprRoundTrip ==
  ASSUME NEW c, c.op = "PageServiceRequest", 19 \notin c.args["pasid"]
  PROVE  /\ Within(PprEncode(c), 127)
         /\ PprDecode(PprEncode(c)) =
              [op |-> c.op, args |-> Held(PprEntry, PprFigures.get, c.args)]
<1>0. PICK w, g, type, args :
        w = [put |-> PprEntry] /\ g = PprFigures /\ type = BitsOf(1) /\ args = c.args
  OBVIOUS
<1> DEFINE bits == Encoded(w, ShiftLeft(type, 60), args)
           figures == [PageServiceRequest |-> PprFigures]
           op == "PageServiceRequest"
<1>1. Fitting(w.put, g.get, AmdCodeBits, 127) /\ Legible(w.put, g.get, args)
  BY <1>0, PprEntryFits
<1>2. type \in SUBSET (0 .. 3) /\ g.code = type
  <2>1. type = {0}
    BY <1>0, CodeValues
  <2>2. g.code = type
    BY <1>0 DEF PprFigures
  <2> QED BY <2>1, <2>2
<1>3. /\ Within(bits, 127) /\ LogCode(bits) = type
      /\ Decoded(g, bits) = Held(w.put, g.get, args)
  <2>1. type \in SUBSET (0 .. 3)
    BY <1>2
  <2>2. /\ Within(bits, 127) /\ extract_bits(bits, 63, 60) = type
        /\ Decoded(g, bits) = Held(w.put, g.get, args)
    BY <1>1, <2>1, TopTrip
  <2> QED BY <2>2 DEF LogCode
<1>4. PprEncode(c) = bits
  BY <1>0 DEF PprEncode
<1>5. op \in DOMAIN figures /\ figures[op] = g /\ Distinct(figures)
  BY <1>0 DEF Distinct
<1>6. PprDecode(bits) = DecodeBy(figures, LogCode(bits), bits)
  BY DEF PprDecode
<1> HIDE DEF bits, figures, op
<1>7. DecodeBy(figures, figures[op].code, bits) = [op |-> op, args |-> Decoded(figures[op], bits)]
  BY <1>5, DecodesTo
<1>8. PprDecode(bits) = [op |-> op, args |-> Decoded(g, bits)]
  BY <1>2, <1>3, <1>5, <1>6, <1>7
<1> QED BY <1>0, <1>3, <1>4, <1>8 DEF op
===========================================================================
