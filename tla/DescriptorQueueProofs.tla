----------------------- MODULE DescriptorQueueProofs -----------------------
(***************************************************************************)
(* A ring of any size filled through any codec that fits is a channel of   *)
(* commands: DescriptorQueue implements CommandChannel for every queue,    *)
(* every set of commands and every number of wraparounds.  The codecs of   *)
(* the crates do fit (CodecProofs), for every command a queue can carry    *)
(* and whatever its arguments.                                             *)
(***************************************************************************)
EXTENDS CrateQueues, CodecProofs, SequenceTheorems, TLAPS

(* Entries start at multiples of the stride. *)
Strided == head % Stride[kind] = 0 /\ tail % Stride[kind] = 0

(* A stored command sits whole behind the tail, and publishing it will not *)
(* make the ring look empty.                                               *)
StagedBehindTail ==
  staged # None =>
    /\ Used + Stride[kind] < N
    /\ \A j \in 1 .. Stride[kind] : ring[(tail + j - 1) % N] = Encode(kind, staged)[j]

Inv == TypeOK /\ CodecFits /\ Strided /\ StagedBehindTail

---------------------------------------------------------------------------
(* Offsets around the ring exceed its size at most once. *)
LEMMA Wrap ==
  ASSUME NEW n \in Nat, n > 0, NEW x \in Nat, x < 2 * n
  PROVE  x % n = IF x < n THEN x ELSE x - n
  OBVIOUS

(* The constants of the queue in use. *)
LEMMA QueueType ==
  ASSUME kind \in Kinds
  PROVE  Stride[kind] \in {1, 2} /\ N \in Nat /\ N > Stride[kind] /\ N % Stride[kind] = 0
  BY SizeAssumption DEF N

(* How far a tail is behind a head. *)
LEMMA Distance ==
  ASSUME NEW n \in Nat, n > 0, NEW h \in 0 .. (n - 1), NEW t \in 0 .. (n - 1)
  PROVE  (t - h + n) % n = IF h <= t THEN t - h ELSE t - h + n
<1>1. t - h + n \in Nat /\ t - h + n < 2 * n
  OBVIOUS
<1>2. (t - h + n) % n = IF t - h + n < n THEN t - h + n ELSE t - h + n - n
  BY <1>1, Wrap
<1> QED BY <1>2

(* Used counts the slots from head to tail. *)
LEMMA UsedIs ==
  ASSUME TypeOK
  PROVE  /\ Used = IF head <= tail THEN tail - head ELSE tail - head + N
         /\ Used \in 0 .. (N - 1)
<1>1. N \in Nat /\ N > 0 /\ head \in 0 .. (N - 1) /\ tail \in 0 .. (N - 1)
  BY QueueType DEF TypeOK
<1>2. Used = IF head <= tail THEN tail - head ELSE tail - head + N
  BY <1>1, Distance DEF Used
<1> QED BY <1>1, <1>2

(* A published command is one of the queue's, with as many slots as an     *)
(* entry has.                                                              *)
LEMMA TypeStep == TypeOK /\ [Next]_vars => TypeOK'
<1> SUFFICES ASSUME TypeOK, [Next]_vars PROVE TypeOK'
  OBVIOUS
<1> USE DEF TypeOK
<1>0. kind \in Kinds /\ N \in Nat /\ N > 0 /\ Stride[kind] \in {1, 2}
  BY QueueType
<1>1. ASSUME NEW c \in Commands[kind], Store(c) PROVE TypeOK'
  BY <1>1 DEF Store, N
<1>2. CASE Publish
  <2>1. SlotCount(kind, staged) \in Nat
    BY <1>2, <1>0, SlotCountAssumption DEF Publish
  <2>2. (tail + SlotCount(kind, staged)) % N \in 0 .. (N - 1)
    BY <2>1, <1>0
  <2> QED BY <1>2, <2>2 DEF Publish, N
<1>3. CASE Take
  <2>1. (head + Stride[kind]) % N \in 0 .. (N - 1)
    BY <1>0
  <2> QED BY <1>3, <2>1 DEF Take, N
<1>4. CASE UNCHANGED vars
  BY <1>4 DEF vars, N
<1> QED BY <1>1, <1>2, <1>3, <1>4 DEF Next

(* DescriptorQueue.TypeOK: the head and tail registers stay inside the     *)
(* ring, across every wraparound, and what is staged is a command.         *)
THEOREM TypeCorrect == Spec => []TypeOK
<1>1. Init => TypeOK
  <2> SUFFICES ASSUME Init PROVE TypeOK
    OBVIOUS
  <2>1. kind \in Kinds /\ N \in Nat /\ N > 0
    BY QueueType DEF Init
  <2> QED BY <2>1 DEF Init, TypeOK, N
<1> QED BY <1>1, TypeStep, PTL DEF Spec

---------------------------------------------------------------------------
(* An encoding has the slots of one entry. *)
LEMMA EncodeLen ==
  ASSUME CodecFits, kind \in Kinds, NEW c \in Commands[kind]
  PROVE  Len(Encode(kind, c)) = Stride[kind]
<1> DEFINE f == [j \in 1 .. Stride[kind] |-> Encode(kind, c)[j]]
<1>1. Stride[kind] \in Nat
  BY QueueType
<1>2. Len(f) = Stride[kind]
  BY <1>1
<1> QED BY <1>2, Zenon DEF CodecFits

(* Where the reader and the writer find the slots of an entry. *)
LEMMA SlotIs ==
  ASSUME TypeOK, NEW r \in 0 .. (N - 1), NEW d \in 0 .. (N - 1)
  PROVE  /\ (r + d) % N = IF r + d < N THEN r + d ELSE r + d - N
         /\ (r + d) % N \in 0 .. (N - 1)
         /\ (((r + d) % N) - tail + N) % N
              = IF tail <= (r + d) % N THEN ((r + d) % N) - tail ELSE ((r + d) % N) - tail + N
<1>1. N \in Nat /\ N > 0 /\ tail \in 0 .. (N - 1)
  BY QueueType DEF TypeOK
<1>2. (r + d) % N = IF r + d < N THEN r + d ELSE r + d - N
  BY <1>1, Wrap
<1>3. (r + d) % N \in 0 .. (N - 1)
  BY <1>1, <1>2
<1> DEFINE s == (r + d) % N
<1>4. s \in 0 .. (N - 1)
  BY <1>3
<1> HIDE DEF s
<1>5. (s - tail + N) % N = IF s - tail + N < N THEN s - tail + N ELSE s - tail
  BY <1>1, <1>4, Wrap
<1>6. (s - tail + N) % N = IF tail <= s THEN s - tail ELSE s - tail + N
  BY <1>1, <1>4, <1>5
<1> QED BY <1>2, <1>3, <1>6 DEF s

(* A multiple of the stride that is less than another leaves room for a    *)
(* whole entry.                                                            *)
LEMMA Entries ==
  ASSUME Inv
  PROVE  /\ Used % Stride[kind] = 0
         /\ head # tail => Used >= Stride[kind]
<1>1. Stride[kind] \in {1, 2} /\ N \in Nat /\ N % Stride[kind] = 0
  BY QueueType DEF Inv, TypeOK
<1>2. head \in 0 .. (N - 1) /\ tail \in 0 .. (N - 1)
  BY DEF Inv, TypeOK
<1>3. Used = IF head <= tail THEN tail - head ELSE tail - head + N
  BY UsedIs DEF Inv
<1>4. CASE Stride[kind] = 1
  BY <1>1, <1>2, <1>3, <1>4
<1>5. CASE Stride[kind] = 2
  <2>1. N % 2 = 0 /\ head % 2 = 0 /\ tail % 2 = 0
    BY <1>1, <1>5 DEF Inv, Strided
  <2>2. Used % 2 = 0 /\ (head # tail => Used >= 2)
    BY <1>1, <1>2, <1>3, <2>1
  <2> QED BY <2>2, <1>5
<1> QED BY <1>1, <1>4, <1>5

---------------------------------------------------------------------------
(* Advancing a register by one entry keeps it on an entry. *)
LEMMA StrideStep ==
  ASSUME kind \in Kinds, NEW r \in 0 .. (N - 1), r % Stride[kind] = 0
  PROVE  /\ (r + Stride[kind]) % N
              = IF r + Stride[kind] < N THEN r + Stride[kind] ELSE r + Stride[kind] - N
         /\ ((r + Stride[kind]) % N) % Stride[kind] = 0
<1>1. Stride[kind] \in {1, 2} /\ N \in Nat /\ N > Stride[kind] /\ N % Stride[kind] = 0
  BY QueueType
<1>2. (r + Stride[kind]) % N
        = IF r + Stride[kind] < N THEN r + Stride[kind] ELSE r + Stride[kind] - N
  BY <1>1, Wrap
<1> DEFINE s == (r + Stride[kind]) % N
<1>3. s = IF r + Stride[kind] < N THEN r + Stride[kind] ELSE r + Stride[kind] - N
  BY <1>2
<1> HIDE DEF s
<1>4. s % Stride[kind] = 0
  <2>1. CASE Stride[kind] = 1
    BY <1>1, <1>3, <2>1
  <2>2. CASE Stride[kind] = 2
    <3>1. N % 2 = 0 /\ r % 2 = 0
      BY <1>1, <2>2
    <3>2. s % 2 = 0
      BY <1>1, <1>3, <3>1, <2>2
    <3> QED BY <3>2, <2>2
  <2> QED BY <1>1, <2>1, <2>2
<1> QED BY <1>2, <1>4 DEF s

(* What Store writes: the encoding behind the tail, and nothing between    *)
(* head and tail.                                                          *)
LEMMA StoreRing ==
  ASSUME Inv, NEW c \in Commands[kind], Store(c)
  PROVE  /\ \A j \in 1 .. Stride[kind] : ring'[(tail + j - 1) % N] = Encode(kind, c)[j]
         /\ \A d \in 0 .. (Used - 1) : ring'[(head + d) % N] = ring[(head + d) % N]
<1>1. Stride[kind] \in {1, 2} /\ N \in Nat /\ N > Stride[kind]
  BY QueueType DEF Inv, TypeOK
<1>2. head \in 0 .. (N - 1) /\ tail \in 0 .. (N - 1) /\ DOMAIN ring = 0 .. (N - 1)
  BY DEF Inv, TypeOK
<1>3. /\ Used = IF head <= tail THEN tail - head ELSE tail - head + N
      /\ Used \in 0 .. (N - 1)
  BY UsedIs DEF Inv
<1>4. Used + Stride[kind] < N
  BY DEF Store
<1>5. \A i \in 0 .. (N - 1) :
        ring'[i] = IF (i - tail + N) % N < Stride[kind]
                   THEN Encode(kind, c)[((i - tail + N) % N) + 1] ELSE ring[i]
  <2>1. Len(Encode(kind, c)) = Stride[kind]
    BY EncodeLen DEF Inv, TypeOK
  <2> QED BY <1>2, <2>1 DEF Store
<1>6. ASSUME NEW j \in 1 .. Stride[kind]
      PROVE  ring'[(tail + j - 1) % N] = Encode(kind, c)[j]
  <2>1. j - 1 \in 0 .. (N - 1) /\ tail + j - 1 = tail + (j - 1)
    BY <1>1, <1>2
  <2> DEFINE s == (tail + j - 1) % N
  <2>2. /\ s = IF tail + j - 1 < N THEN tail + j - 1 ELSE tail + j - 1 - N
        /\ s \in 0 .. (N - 1)
        /\ (s - tail + N) % N = IF tail <= s THEN s - tail ELSE s - tail + N
    BY <2>1, <1>2, SlotIs DEF Inv
  <2> HIDE DEF s
  <2>3. (s - tail + N) % N = j - 1
    BY <2>2, <1>1, <1>2
  <2>4. ring'[s] = Encode(kind, c)[j - 1 + 1]
    BY <1>1, <1>5, <2>2, <2>3
  <2>5. j - 1 + 1 = j
    BY <1>1
  <2> QED BY <2>4, <2>5 DEF s
<1>7. ASSUME NEW d \in 0 .. (Used - 1)
      PROVE  ring'[(head + d) % N] = ring[(head + d) % N]
  <2>1. d \in 0 .. (N - 1)
    BY <1>1, <1>3
  <2> DEFINE s == (head + d) % N
  <2>2. /\ s = IF head + d < N THEN head + d ELSE head + d - N
        /\ s \in 0 .. (N - 1)
        /\ (s - tail + N) % N = IF tail <= s THEN s - tail ELSE s - tail + N
    BY <2>1, <1>2, SlotIs DEF Inv
  <2> DEFINE q == (s - tail + N) % N
  <2>3. q = IF tail <= s THEN s - tail ELSE s - tail + N
    BY <2>2
  <2>4. ring'[s] = IF q < Stride[kind] THEN Encode(kind, c)[q + 1] ELSE ring[s]
    BY <1>5, <2>2
  <2>5. s = (IF head + d < N THEN head + d ELSE head + d - N) /\ s \in 0 .. (N - 1)
    BY <2>2
  <2> HIDE DEF s, q
  <2>6. ~ (q < Stride[kind])
    BY <2>3, <2>5, <1>1, <1>2, <1>3, <1>4
  <2> QED BY <2>4, <2>6 DEF s
<1> QED BY <1>6, <1>7

(* How far head and tail are apart after each step. *)
LEMMA UsedPublish ==
  ASSUME Inv, Publish
  PROVE  Used' = Used + Stride[kind] /\ staged \in Commands[kind] /\ Used + Stride[kind] < N
         /\ tail' = (tail + Stride[kind]) % N
<1>1. kind \in Kinds /\ Stride[kind] \in {1, 2} /\ N \in Nat /\ N > Stride[kind] /\ N' = N
  BY QueueType DEF Inv, TypeOK, N, Publish
<1>2. head \in 0 .. (N - 1) /\ tail \in 0 .. (N - 1) /\ tail % Stride[kind] = 0
  BY DEF Inv, TypeOK, Strided
<1>3. Used = IF head <= tail THEN tail - head ELSE tail - head + N
  BY UsedIs DEF Inv
<1>4. staged \in Commands[kind] /\ Used + Stride[kind] < N
  BY DEF Inv, TypeOK, StagedBehindTail, Publish
<1>5. tail' = (tail + Stride[kind]) % N
  BY <1>4 DEF Inv, CodecFits, Publish
<1>6. tail' = IF tail + Stride[kind] < N THEN tail + Stride[kind] ELSE tail + Stride[kind] - N
  BY <1>1, <1>2, <1>5, StrideStep
<1>7. TypeOK'
  BY TypeStep DEF Inv, Next
<1>8. Used' = IF head' <= tail' THEN tail' - head' ELSE tail' - head' + N'
  <2>1. N' \in Nat /\ N' > 0 /\ head' \in 0 .. (N' - 1) /\ tail' \in 0 .. (N' - 1)
    BY <1>1, <1>7 DEF TypeOK
  <2> QED BY <2>1, Distance DEF Used
<1>9. head' = head
  BY DEF Publish
<1> QED BY <1>1, <1>2, <1>3, <1>4, <1>5, <1>6, <1>8, <1>9

LEMMA UsedTake ==
  ASSUME Inv, Take
  PROVE  Used' = Used - Stride[kind]
<1>1. kind \in Kinds /\ Stride[kind] \in {1, 2} /\ N \in Nat /\ N > Stride[kind] /\ N' = N
  BY QueueType DEF Inv, TypeOK, N, Take
<1>2. head \in 0 .. (N - 1) /\ tail \in 0 .. (N - 1) /\ head % Stride[kind] = 0
  BY DEF Inv, TypeOK, Strided
<1>3. Used = IF head <= tail THEN tail - head ELSE tail - head + N
  BY UsedIs DEF Inv
<1>4. Used >= Stride[kind]
  BY Entries DEF Take
<1>5. head' = IF head + Stride[kind] < N THEN head + Stride[kind] ELSE head + Stride[kind] - N
  BY <1>1, <1>2, StrideStep DEF Take
<1>6. TypeOK'
  BY TypeStep DEF Inv, Next
<1>7. Used' = IF head' <= tail' THEN tail' - head' ELSE tail' - head' + N'
  <2>1. N' \in Nat /\ N' > 0 /\ head' \in 0 .. (N' - 1) /\ tail' \in 0 .. (N' - 1)
    BY <1>1, <1>6 DEF TypeOK
  <2> QED BY <2>1, Distance DEF Used
<1>8. tail' = tail
  BY DEF Take
<1> QED BY <1>1, <1>2, <1>3, <1>4, <1>5, <1>7, <1>8

---------------------------------------------------------------------------
(* Inv is inductive. *)
LEMMA InvStep == Inv /\ [Next]_vars => Inv'
<1> SUFFICES ASSUME Inv, [Next]_vars PROVE Inv'
  OBVIOUS
<1>1. TypeOK'
  BY TypeStep DEF Inv
<1>2. kind' = kind /\ N' = N
  BY DEF Next, Store, Publish, Take, vars, N
<1>3. CodecFits'
  BY <1>2 DEF Inv, CodecFits
<1>4. kind \in Kinds /\ head \in 0 .. (N - 1) /\ tail \in 0 .. (N - 1)
  BY DEF Inv, TypeOK
<1>5. head % Stride[kind] = 0 /\ tail % Stride[kind] = 0
  BY DEF Inv, Strided
<1> SUFFICES Strided' /\ StagedBehindTail'
  BY <1>1, <1>3 DEF Inv
<1>6. ASSUME NEW c \in Commands[kind], Store(c) PROVE Strided' /\ StagedBehindTail'
  <2>1. head' = head /\ tail' = tail /\ staged' = c /\ Used + Stride[kind] < N
    BY <1>6 DEF Store
  <2>2. \A j \in 1 .. Stride[kind] : ring'[(tail + j - 1) % N] = Encode(kind, c)[j]
    BY <1>6, StoreRing
  <2>3. Used' = Used
    BY <2>1, <1>2 DEF Used
  <2>4. Strided'
    BY <1>2, <1>5, <2>1 DEF Strided
  <2>5. StagedBehindTail'
    BY <1>2, <2>1, <2>2, <2>3 DEF StagedBehindTail
  <2> QED BY <2>4, <2>5
<1>7. CASE Publish
  <2>1. tail' = (tail + Stride[kind]) % N /\ head' = head /\ staged' = None
    BY <1>7, UsedPublish DEF Publish
  <2>2. Strided'
    BY <1>2, <1>4, <1>5, <2>1, StrideStep DEF Strided
  <2>3. StagedBehindTail'
    BY <2>1 DEF StagedBehindTail
  <2> QED BY <2>2, <2>3
<1>8. CASE Take
  <2>1. head' = (head + Stride[kind]) % N /\ tail' = tail /\ staged' = staged /\ ring' = ring
    BY <1>8 DEF Take
  <2>2. Strided'
    BY <1>2, <1>4, <1>5, <2>1, StrideStep DEF Strided
  <2>3. Used' = Used - Stride[kind]
    BY <1>8, UsedTake
  <2>4. Used \in Int /\ Stride[kind] \in {1, 2} /\ N \in Nat
    BY UsedIs, QueueType DEF Inv, TypeOK
  <2>5. Used + Stride[kind] < N => Used' + Stride[kind] < N
    BY <2>3, <2>4
  <2>6. StagedBehindTail'
    BY <1>2, <2>1, <2>5 DEF Inv, StagedBehindTail
  <2> QED BY <2>2, <2>6
<1>9. CASE UNCHANGED vars
  <2>1. Strided'
    BY <1>9 DEF Inv, Strided, vars
  <2>2. StagedBehindTail'
    BY <1>9 DEF Inv, StagedBehindTail, Used, N, vars
  <2> QED BY <2>1, <2>2
<1> QED BY <1>6, <1>7, <1>8, <1>9 DEF Next

LEMMA InvInit == Init /\ CodecFits => Inv
<1> SUFFICES ASSUME Init, CodecFits PROVE Inv
  OBVIOUS
<1>1. kind \in Kinds /\ N \in Nat /\ N > 0 /\ Stride[kind] \in {1, 2}
  BY QueueType DEF Init
<1>2. TypeOK
  BY <1>1 DEF Init, TypeOK, N
<1>3. Strided
  BY <1>1 DEF Init, Strided
<1>4. StagedBehindTail
  BY DEF Init, StagedBehindTail
<1> QED BY <1>2, <1>3, <1>4 DEF Inv

---------------------------------------------------------------------------
(* A function on 1 .. k is a sequence of its values. *)
LEMMA FunctionIsSeq ==
  ASSUME NEW k \in Nat, NEW f, f = [i \in 1 .. k |-> f[i]], NEW V,
         \A i \in 1 .. k : f[i] \in V
  PROVE  f \in Seq(V) /\ Len(f) = k
  OBVIOUS

(* The entries in the ring. *)
LEMMA PendingIs ==
  ASSUME Inv
  PROVE  \E k \in Nat :
           /\ Used = k * Stride[kind] /\ k = Used \div Stride[kind]
           /\ Pending = [n \in 1 .. k |-> Decode(kind, SlotsAt((n - 1) * Stride[kind]))]
<1>1. Stride[kind] \in {1, 2} /\ N \in Nat
  BY QueueType DEF Inv, TypeOK
<1>2. Used \in 0 .. (N - 1) /\ Used % Stride[kind] = 0
  BY UsedIs, Entries DEF Inv
<1> DEFINE k == Used \div Stride[kind]
<1>3. k \in Nat /\ Used = k * Stride[kind]
  <2>1. CASE Stride[kind] = 1
    BY <1>1, <1>2, <2>1
  <2>2. CASE Stride[kind] = 2
    BY <1>1, <1>2, <2>2
  <2> QED BY <1>1, <2>1, <2>2
<1>4. Pending = [n \in 1 .. k |-> Decode(kind, SlotsAt((n - 1) * Stride[kind]))]
  BY DEF Pending
<1> QED BY <1>3, <1>4

(* Every slot of a pending entry lies between head and tail. *)
LEMMA PendingSlot ==
  ASSUME Inv, NEW k \in Nat, Used = k * Stride[kind],
         NEW n \in 1 .. k, NEW j \in 1 .. Stride[kind]
  PROVE  (n - 1) * Stride[kind] + j - 1 \in 0 .. (Used - 1)
<1>1. Stride[kind] \in {1, 2}
  BY QueueType DEF Inv, TypeOK
<1>2. CASE Stride[kind] = 1
  BY <1>2
<1>3. CASE Stride[kind] = 2
  BY <1>3
<1> QED BY <1>1, <1>2, <1>3

(* Storing a command does not show. *)
LEMMA StoreStutters ==
  ASSUME Inv, NEW c \in Commands[kind], Store(c)
  PROVE  UNCHANGED Channel!vars
<1>1. /\ kind' = kind /\ head' = head /\ tail' = tail /\ last' = last /\ read' = read
      /\ N' = N
  BY DEF Store, N
<1>2. Used' = Used
  BY <1>1 DEF Used
<1>3. PICK k \in Nat :
        /\ Used = k * Stride[kind] /\ k = Used \div Stride[kind]
        /\ Pending = [n \in 1 .. k |-> Decode(kind, SlotsAt((n - 1) * Stride[kind]))]
  BY PendingIs
<1>4. Pending' = [n \in 1 .. k |-> Decode(kind, SlotsAt((n - 1) * Stride[kind])')]
  BY <1>1, <1>2, <1>3 DEF Pending
<1>5. ASSUME NEW n \in 1 .. k
      PROVE  SlotsAt((n - 1) * Stride[kind])' = SlotsAt((n - 1) * Stride[kind])
  <2> DEFINE d == (n - 1) * Stride[kind]
  <2>1. ASSUME NEW j \in 1 .. Stride[kind]
        PROVE  ring'[(head + d + j - 1) % N] = ring[(head + d + j - 1) % N]
    <3>1. d + j - 1 \in 0 .. (Used - 1)
      BY <1>3, PendingSlot
    <3>2. head + (d + j - 1) = head + d + j - 1
      <4>1. head \in Int /\ Stride[kind] \in Int /\ d \in Int
        BY QueueType DEF Inv, TypeOK
      <4> QED BY <4>1
    <3>3. ring'[(head + (d + j - 1)) % N] = ring[(head + (d + j - 1)) % N]
      BY <3>1, StoreRing
    <3> QED BY <3>2, <3>3
  <2>2. SlotsAt(d)' = [j \in 1 .. Stride[kind] |-> ring'[(head + d + j - 1) % N]]
    BY <1>1 DEF SlotsAt
  <2>3. SlotsAt(d) = [j \in 1 .. Stride[kind] |-> ring[(head + d + j - 1) % N]]
    BY DEF SlotsAt
  <2> HIDE DEF d
  <2>4. SlotsAt(d)' = SlotsAt(d)
    BY <2>1, <2>2, <2>3
  <2> QED BY <2>4 DEF d
<1>6. Pending' = Pending
  BY <1>3, <1>4, <1>5
<1> QED BY <1>1, <1>6 DEF Channel!vars

(* Moving the tail sends the staged command. *)
LEMMA PublishSends ==
  ASSUME Inv, Publish
  PROVE  Channel!Send
<1> DEFINE S == Stride[kind]
<1>1. /\ kind' = kind /\ ring' = ring /\ head' = head /\ read' = read
      /\ last' = Meaning(kind, staged) /\ N' = N /\ staged # None
  BY DEF Publish, N
<1>2. /\ S \in {1, 2} /\ N \in Nat /\ N > S
      /\ head \in 0 .. (N - 1) /\ tail \in 0 .. (N - 1)
  BY QueueType DEF Inv, TypeOK
<1>3. Used' = Used + S /\ Used + S < N /\ staged \in Commands[kind]
  BY UsedPublish
<1>4. PICK k \in Nat :
        /\ Used = k * S /\ k = Used \div S
        /\ Pending = [n \in 1 .. k |-> Decode(kind, SlotsAt((n - 1) * S))]
  BY PendingIs
<1>5. Used' \div S = k + 1
  <2>1. CASE S = 1
    BY <1>3, <1>4, <2>1
  <2>2. CASE S = 2
    BY <1>3, <1>4, <2>2
  <2> QED BY <1>2, <2>1, <2>2
<1>6. \A d : SlotsAt(d)' = SlotsAt(d)
  BY <1>1 DEF SlotsAt
<1>7. Pending' = [n \in 1 .. (k + 1) |-> Decode(kind, SlotsAt((n - 1) * S))]
  BY <1>1, <1>5, <1>6 DEF Pending
<1>8. SlotsAt(k * S) = Encode(kind, staged)
  <2>1. Used = IF head <= tail THEN tail - head ELSE tail - head + N
    BY UsedIs DEF Inv
  <2>2. ASSUME NEW j \in 1 .. S
        PROVE  ring[(head + k * S + j - 1) % N] = Encode(kind, staged)[j]
    <3>1. (head + Used + j - 1) % N = (tail + j - 1) % N
      <4> DEFINE x == head + Used + j - 1
      <4>1. x \in Nat /\ x < 2 * N /\ x = IF head <= tail THEN tail + j - 1 ELSE tail + j - 1 + N
        BY <1>2, <1>3, <2>1
      <4>2. x % N = IF x < N THEN x ELSE x - N
        BY <4>1, <1>2, Wrap
      <4>3. tail + j - 1 \in Nat /\ tail + j - 1 < 2 * N
        BY <1>2
      <4>4. (tail + j - 1) % N = IF tail + j - 1 < N THEN tail + j - 1 ELSE tail + j - 1 - N
        BY <4>3, <1>2, Wrap
      <4>5. CASE head <= tail
        BY <4>1, <4>5
      <4>6. CASE ~ (head <= tail)
        <5>1. x >= N /\ x - N = tail + j - 1 /\ tail + j - 1 < N
          BY <4>1, <4>6, <1>2, <1>3, <2>1
        <5> HIDE DEF x
        <5>2. x % N = tail + j - 1 /\ (tail + j - 1) % N = tail + j - 1
          BY <5>1, <4>1, <4>2, <4>4, <1>2
        <5> QED BY <5>2 DEF x
      <4> QED BY <4>5, <4>6
    <3>2. ring[(tail + j - 1) % N] = Encode(kind, staged)[j]
      BY <1>1 DEF Inv, StagedBehindTail
    <3> QED BY <1>4, <3>1, <3>2
  <2>3. Encode(kind, staged) = [j \in 1 .. S |-> Encode(kind, staged)[j]]
    BY <1>3, Zenon DEF Inv, CodecFits
  <2>4. SlotsAt(k * S) = [j \in 1 .. S |-> ring[(head + k * S + j - 1) % N]]
    BY DEF SlotsAt
  <2> QED BY <2>2, <2>3, <2>4
<1>9. Decode(kind, SlotsAt(k * S)) = last'
  BY <1>1, <1>3, <1>8 DEF Inv, CodecFits
<1>10. Pending' = Append(Pending, last')
  <2> DEFINE V == {Pending'[n] : n \in 1 .. (k + 1)}
  <2>1. k + 1 \in 1 .. (k + 1) /\ (k + 1 - 1) * S = k * S
    BY <1>2
  <2>2. Pending'[k + 1] = last'
    BY <1>7, <1>9, <2>1
  <2>3. \A n \in 1 .. k : n \in 1 .. (k + 1) /\ Pending'[n] = Pending[n]
    BY <1>4, <1>7
  <2>4. Pending = [n \in 1 .. k |-> Pending[n]]
    BY <1>4
  <2>5. Pending' = [n \in 1 .. (k + 1) |-> Pending'[n]]
    BY <1>7
  <2>6. Pending' \in Seq(V) /\ Len(Pending') = k + 1
    BY <2>5, FunctionIsSeq
  <2>7. Pending \in Seq(V) /\ Len(Pending) = k
    BY <2>3, <2>4, FunctionIsSeq
  <2>8. last' \in V
    BY <2>1, <2>2
  <2> HIDE DEF V
  <2>9. /\ Append(Pending, last') \in Seq(V)
        /\ Len(Append(Pending, last')) = k + 1
        /\ \A n \in 1 .. k : Append(Pending, last')[n] = Pending[n]
        /\ Append(Pending, last')[k + 1] = last'
    BY <2>7, <2>8, AppendProperties
  <2>10. \A n \in 1 .. (k + 1) : Pending'[n] = Append(Pending, last')[n]
    BY <2>2, <2>3, <2>9
  <2> QED BY <2>6, <2>9, <2>10, SeqEqual
<1>11. UNCHANGED Decode(kind, read)
  BY <1>1
<1> QED BY <1>10, <1>11 DEF Channel!Send

(* Taking the entry at the head receives the oldest command. *)
LEMMA TakeReceives ==
  ASSUME Inv, Take
  PROVE  Channel!Receive
<1> DEFINE S == Stride[kind]
<1>1. /\ kind' = kind /\ ring' = ring /\ tail' = tail /\ last' = last /\ N' = N
      /\ head # tail /\ read' = SlotsAt(0) /\ head' = (head + S) % N
  BY DEF Take, N
<1>2. /\ S \in {1, 2} /\ N \in Nat /\ N > S
      /\ head \in 0 .. (N - 1) /\ tail \in 0 .. (N - 1) /\ head % S = 0
  BY QueueType DEF Inv, TypeOK, Strided
<1>3. Used' = Used - S /\ Used >= S /\ Used \in 0 .. (N - 1)
  BY <1>1, UsedTake, UsedIs, Entries DEF Inv
<1>4. PICK k \in Nat :
        /\ Used = k * S /\ k = Used \div S
        /\ Pending = [n \in 1 .. k |-> Decode(kind, SlotsAt((n - 1) * S))]
  BY PendingIs
<1>5. k >= 1 /\ Used' \div S = k - 1
  <2>1. CASE S = 1
    BY <1>3, <1>4, <2>1
  <2>2. CASE S = 2
    BY <1>3, <1>4, <2>2
  <2> QED BY <1>2, <2>1, <2>2
<1>6. head' = IF head + S < N THEN head + S ELSE head + S - N
  BY <1>1, <1>2, StrideStep DEF Inv, TypeOK
<1>7. ASSUME NEW n \in 1 .. (k - 1)
      PROVE  SlotsAt((n - 1) * S)' = SlotsAt(n * S)
  <2>1. ASSUME NEW j \in 1 .. S
        PROVE  (head' + (n - 1) * S + j - 1) % N = (head + n * S + j - 1) % N
    <3> DEFINE x == head + n * S + j - 1
    <3> DEFINE y == head' + (n - 1) * S + j - 1
    <3>1. n * S + j - 1 \in 0 .. (N - 1) /\ (n - 1) * S + j - 1 \in 0 .. (N - 1)
          /\ (n - 1) * S + S = n * S /\ n * S \in Int
      <4>1. CASE S = 1
        BY <1>2, <1>3, <1>4, <4>1
      <4>2. CASE S = 2
        BY <1>2, <1>3, <1>4, <4>2
      <4> QED BY <1>2, <4>1, <4>2
    <3>2. x \in Nat /\ x < 2 * N /\ y \in Nat /\ y < 2 * N
      BY <1>2, <1>6, <3>1
    <3>3. y = IF head + S < N THEN x ELSE x - N
      BY <1>2, <1>6, <3>1
    <3> HIDE DEF x, y
    <3>4. x % N = (IF x < N THEN x ELSE x - N) /\ y % N = (IF y < N THEN y ELSE y - N)
      BY <1>2, <3>2, Wrap
    <3>5. y % N = x % N
      BY <1>2, <3>2, <3>3, <3>4
    <3> QED BY <3>5 DEF x, y
  <2>2. SlotsAt((n - 1) * S)' = [j \in 1 .. S |-> ring[(head' + (n - 1) * S + j - 1) % N]]
    BY <1>1 DEF SlotsAt
  <2>3. SlotsAt(n * S) = [j \in 1 .. S |-> ring[(head + n * S + j - 1) % N]]
    BY DEF SlotsAt
  <2> QED BY <2>1, <2>2, <2>3
<1>8. Pending' = [n \in 1 .. (k - 1) |-> Decode(kind, SlotsAt((n - 1) * S)')]
  BY <1>1, <1>5 DEF Pending
<1>9. Pending[1] = Decode(kind, read)'
  <2>1. 1 \in 1 .. k /\ (1 - 1) * S = 0
    BY <1>2, <1>5
  <2> QED BY <1>1, <1>4, <2>1
<1>10. \A n \in 1 .. (k - 1) : n + 1 \in 1 .. k /\ Pending'[n] = Pending[n + 1]
  <2>1. \A n \in 1 .. (k - 1) : n + 1 \in 1 .. k /\ n + 1 - 1 = n
    OBVIOUS
  <2> QED BY <1>4, <1>7, <1>8, <2>1
<1> DEFINE V == {Pending[n] : n \in 1 .. k}
<1>11. Pending \in Seq(V) /\ Len(Pending) = k
  <2>1. Pending = [n \in 1 .. k |-> Pending[n]]
    BY <1>4
  <2> QED BY <2>1, FunctionIsSeq
<1>12. Pending' \in Seq(V) /\ Len(Pending') = k - 1
  <2>1. Pending' = [n \in 1 .. (k - 1) |-> Pending'[n]]
    BY <1>8
  <2>2. k - 1 \in Nat /\ \A n \in 1 .. (k - 1) : Pending'[n] \in V
    BY <1>5, <1>10
  <2> HIDE DEF V
  <2> QED BY <2>1, <2>2, FunctionIsSeq
<1>13. Pending # << >>
  BY <1>5, <1>11
<1> HIDE DEF V
<1>14. Head(Pending) = Pending[1]
  BY <1>11, <1>13
<1>15. Pending' = Tail(Pending)
  <2>1. /\ Tail(Pending) \in Seq(V)
        /\ Len(Tail(Pending)) = k - 1
        /\ \A i \in 1 .. (k - 1) : Tail(Pending)[i] = Pending[i + 1]
    BY <1>11, <1>13, HeadTailProperties
  <2>2. \A n \in 1 .. Len(Pending') : Pending'[n] = Tail(Pending)[n]
    BY <1>10, <1>12, <2>1
  <2> QED BY <1>12, <2>1, <2>2, SeqEqual
<1> QED BY <1>1, <1>9, <1>13, <1>14, <1>15 DEF Channel!Receive

(* DescriptorQueue.DeliversCommands, for rings of every size: whenever the *)
(* encodings, slot counts and decoder fit together command by command, the *)
(* ring with its wrapping registers is a channel of commands, in which     *)
(* nothing is lost, changed, reordered, read twice or read half-written.   *)
THEOREM Refinement == Spec /\ CodecFits => DeliversCommands
<1>1. Init => Channel!Init
  <2> SUFFICES ASSUME Init PROVE Pending = << >>
    BY DEF Channel!Init
  <2>1. kind \in Kinds /\ N \in Nat /\ N > 0 /\ Stride[kind] \in {1, 2}
    BY QueueType DEF Init
  <2>2. Used = 0
    <3>1. Used = N % N
      BY <2>1 DEF Init, Used
    <3> QED BY <2>1, <3>1, Wrap
  <2>3. Used \div Stride[kind] = 0
    BY <2>1, <2>2
  <2> QED BY <2>3 DEF Pending
<1>2. Inv /\ [Next]_vars => [Channel!Next]_(Channel!vars)
  <2> SUFFICES ASSUME Inv, [Next]_vars PROVE Channel!Next \/ UNCHANGED Channel!vars
    OBVIOUS
  <2>1. CASE UNCHANGED vars
    BY <2>1 DEF vars, Channel!vars, Pending, Used, SlotsAt, N
  <2> QED BY <2>1, StoreStutters, PublishSends, TakeReceives DEF Next, Channel!Next
<1> QED BY <1>1, <1>2, InvInit, InvStep, PTL DEF Spec, DeliversCommands, Channel!Spec

---------------------------------------------------------------------------
(* The crates' codecs *)

(* Slots of one entry and back. *)
LEMMA OneSlot ==
  ASSUME NEW bits, Within(bits, 127)
  PROVE  /\ Cut(bits, 1) = [j \in 1 .. 1 |-> Cut(bits, 1)[j]]
         /\ Cut(bits, 1)[1] = bits
<1>1. SlotBits * (1 - 1) = 0 /\ SlotBits * 1 - 1 = 127
  BY DEF SlotBits
<1>2. \A b \in bits : b \in 0 .. 127 /\ b - 0 = b
  BY DEF Within
<1>3. {b - 0 : b \in bits \cap (0 .. 127)} = bits
  BY <1>2
<1> QED BY <1>1, <1>3 DEF Cut

LEMMA TwoSlots ==
  ASSUME NEW bits, Within(bits, 255)
  PROVE  /\ Cut(bits, 2) = [j \in 1 .. 2 |-> Cut(bits, 2)[j]]
         /\ Joined(Cut(bits, 2)) = bits
<1> DEFINE s == Cut(bits, 2)
<1>1. DOMAIN s = {1, 2}
  BY DEF Cut
<1>2. s[1] = {b \in bits : b < 128}
  <2>1. SlotBits * (1 - 1) = 0 /\ SlotBits * 1 - 1 = 127
    BY DEF SlotBits
  <2>2. s[1] = {b - 0 : b \in bits \cap (0 .. 127)}
    BY <2>1 DEF Cut
  <2>3. \A b \in bits : b \in Int /\ b - 0 = b /\ (b < 128 <=> b \in 0 .. 127)
    BY DEF Within
  <2> QED BY <2>2, <2>3
<1>3. s[2] = {b - 128 : b \in {c \in bits : c >= 128}}
  <2>1. SlotBits * (2 - 1) = 128 /\ SlotBits * 2 - 1 = 255
    BY DEF SlotBits
  <2>2. s[2] = {b - 128 : b \in bits \cap (128 .. 255)}
    BY <2>1 DEF Cut
  <2>3. \A c \in bits : c \in 128 .. 255 <=> c >= 128
    BY DEF Within
  <2>4. bits \cap (128 .. 255) = {c \in bits : c >= 128}
    BY <2>3
  <2> QED BY <2>2, <2>4
<1> HIDE DEF s
<1>4. SlotBits * (1 - 1) = 0 /\ SlotBits * (2 - 1) = 128
  BY DEF SlotBits
<1>5. Joined(s) = {b + 0 : b \in s[1]} \cup {b + 128 : b \in s[2]}
  BY <1>1, <1>4 DEF Joined
<1>6. \A b \in bits : b \in Int
  BY DEF Within
<1>7. {b + 0 : b \in s[1]} = {b \in bits : b < 128}
  BY <1>2, <1>6
<1>8. {b + 128 : b \in s[2]} = {c \in bits : c >= 128}
  <2> DEFINE high == {c \in bits : c >= 128}
  <2>1. \A c \in high : (c - 128) + 128 = c
    BY <1>6
  <2>2. s[2] = {b - 128 : b \in high}
    BY <1>3
  <2> HIDE DEF high
  <2>3. {b + 128 : b \in s[2]} = high
    BY <2>1, <2>2
  <2> QED BY <2>3 DEF high
<1>9. Joined(s) = bits
  BY <1>5, <1>6, <1>7, <1>8
<1> QED BY <1>9 DEF s, Cut

(* CodecFits for one command. *)
Fits(k, c) ==
  /\ CrateEncode(k, c) = [j \in 1 .. k.stride |-> CrateEncode(k, c)[j]]
  /\ CrateSlotCount(k, c) = k.stride
  /\ CrateDecode(k, CrateEncode(k, c)) = CrateMeaning(k, c)

(* Arguments as far as fields are documented to hold them. *)
Said(val, args) == [f \in DOMAIN val |-> args[f] \cap val[f]]

(* What a layout that fits keeps of these arguments is all they say, if    *)
(* they have no other documented bits than its reader reads.               *)
LEMMA HeldIsSaid ==
  ASSUME NEW put, NEW get, NEW Code, NEW top, NEW val, NEW args,
         Fitting(put, get, Code, top), Legible(put, get, args),
         DOMAIN val = DOMAIN get,
         \A f \in DOMAIN get : args[f] \cap val[f] = args[f] \cap DOMAIN get[f]
  PROVE  Held(put, get, args) = Said(val, args)
<1>1. ASSUME NEW f \in DOMAIN get PROVE args[f] \cap DOMAIN put[f] = args[f] \cap val[f]
  <2>1. /\ DOMAIN get[f] \subseteq DOMAIN put[f]
        /\ args[f] \cap DOMAIN put[f] \subseteq DOMAIN get[f]
    BY DEF Fitting, Agree, Legible
  <2> QED BY <2>1
<1> QED BY <1>1 DEF Held, Said

(* The fields of the descriptors hold what their decoders read ... *)
LEMMA QiSays ==
  ASSUME NEW op \in DOMAIN QiFigures, NEW args,
         op = "PasidCache" => args["pasid"] \cap (16 .. 31) = {}
  PROVE  /\ DOMAIN QiValues[op] = DOMAIN QiFigures[op].get
         /\ \A f \in DOMAIN QiFigures[op].get :
              args[f] \cap QiValues[op][f] = args[f] \cap DOMAIN QiFigures[op].get[f]
<1>0. DOMAIN QiFigures =
        {"ContextCache", "Iotlb", "DevTlb", "Iec", "Wait", "PasidIotlb", "PasidCache"}
  BY DEF QiFigures
<1>1. CASE op = "ContextCache"
  <2>1. /\ DOMAIN QiValues[op] = {"granularity", "did", "sid", "fm"}
        /\ DOMAIN QiFigures[op].get = {"granularity", "did", "sid", "fm"}
    BY <1>1 DEF QiValues, QiFigures
  <2>2. /\ QiValues[op]["granularity"] = 0 .. 1 /\ QiValues[op]["did"] = U16
        /\ QiValues[op]["sid"] = U16 /\ QiValues[op]["fm"] = 0 .. 1
    BY <1>1 DEF QiValues
  <2>3. /\ DOMAIN QiFigures[op].get["granularity"] = 0 .. 1
        /\ DOMAIN QiFigures[op].get["did"] = U16 /\ DOMAIN QiFigures[op].get["sid"] = U16
        /\ DOMAIN QiFigures[op].get["fm"] = 0 .. 1
    BY <1>1 DEF QiFigures, At
  <2> QED BY <2>1, <2>2, <2>3
<1>2. CASE op = "Iotlb"
  <2>1. /\ DOMAIN QiValues[op] = {"granularity", "did", "addr", "am"}
        /\ DOMAIN QiFigures[op].get = {"granularity", "did", "addr", "am"}
    BY <1>2 DEF QiValues, QiFigures
  <2>2. /\ QiValues[op]["granularity"] = 0 .. 1 /\ QiValues[op]["did"] = U16
        /\ QiValues[op]["addr"] = 12 .. 63 /\ QiValues[op]["am"] = 0 .. 5
    BY <1>2 DEF QiValues
  <2>3. /\ DOMAIN QiFigures[op].get["granularity"] = 0 .. 1
        /\ DOMAIN QiFigures[op].get["did"] = U16
        /\ DOMAIN QiFigures[op].get["addr"] = 12 .. 63
        /\ DOMAIN QiFigures[op].get["am"] = 0 .. 5
    BY <1>2 DEF QiFigures, At
  <2> QED BY <2>1, <2>2, <2>3
<1>3. CASE op = "DevTlb"
  <2>1. /\ DOMAIN QiValues[op] = {"sid", "addr", "oversized"}
        /\ DOMAIN QiFigures[op].get = {"sid", "addr", "oversized"}
    BY <1>3 DEF QiValues, QiFigures
  <2>2. /\ QiValues[op]["sid"] = U16 /\ QiValues[op]["addr"] = 12 .. 63
        /\ QiValues[op]["oversized"] = Bool
    BY <1>3 DEF QiValues
  <2>3. /\ DOMAIN QiFigures[op].get["sid"] = U16
        /\ DOMAIN QiFigures[op].get["addr"] = 12 .. 63
        /\ DOMAIN QiFigures[op].get["oversized"] = Bool
    BY <1>3 DEF QiFigures, At
  <2> QED BY <2>1, <2>2, <2>3
<1>4. CASE op = "Iec"
  <2>1. /\ DOMAIN QiValues[op] = {"global", "start_index", "index_mask"}
        /\ DOMAIN QiFigures[op].get = {"global", "start_index", "index_mask"}
    BY <1>4 DEF QiValues, QiFigures
  <2>2. /\ QiValues[op]["global"] = Bool /\ QiValues[op]["start_index"] = U16
        /\ QiValues[op]["index_mask"] = 0 .. 4
    BY <1>4 DEF QiValues
  <2>3. /\ DOMAIN QiFigures[op].get["global"] = Bool
        /\ DOMAIN QiFigures[op].get["start_index"] = U16
        /\ DOMAIN QiFigures[op].get["index_mask"] = 0 .. 4
    BY <1>4 DEF QiFigures, At
  <2> QED BY <2>1, <2>2, <2>3
<1>5. CASE op = "Wait"
  <2>1. /\ DOMAIN QiValues[op] =
             {"interrupt_flag", "status_write", "fence", "status_data", "status_addr"}
        /\ DOMAIN QiFigures[op].get =
             {"interrupt_flag", "status_write", "fence", "status_data", "status_addr"}
    BY <1>5 DEF QiValues, QiFigures
  <2>2. /\ QiValues[op]["interrupt_flag"] = Bool /\ QiValues[op]["status_write"] = Bool
        /\ QiValues[op]["fence"] = Bool /\ QiValues[op]["status_data"] = U32
        /\ QiValues[op]["status_addr"] = 3 .. 63
    BY <1>5 DEF QiValues
  <2>3. /\ DOMAIN QiFigures[op].get["interrupt_flag"] = Bool
        /\ DOMAIN QiFigures[op].get["status_write"] = Bool
        /\ DOMAIN QiFigures[op].get["fence"] = Bool
        /\ DOMAIN QiFigures[op].get["status_data"] = U32
        /\ DOMAIN QiFigures[op].get["status_addr"] = 3 .. 63
    BY <1>5 DEF QiFigures, At
  <2> QED BY <2>1, <2>2, <2>3
<1>6. CASE op = "PasidIotlb"
  <2>1. /\ DOMAIN QiValues[op] = {"granularity", "did", "pasid", "addr", "am"}
        /\ DOMAIN QiFigures[op].get = {"granularity", "did", "pasid", "addr", "am"}
    BY <1>6 DEF QiValues, QiFigures
  <2>2. /\ QiValues[op]["granularity"] = 0 .. 1 /\ QiValues[op]["did"] = U16
        /\ QiValues[op]["pasid"] = U32 /\ QiValues[op]["addr"] = 12 .. 63
        /\ QiValues[op]["am"] = 0 .. 5
    BY <1>6 DEF QiValues
  <2>3. /\ DOMAIN QiFigures[op].get["granularity"] = 0 .. 1
        /\ DOMAIN QiFigures[op].get["did"] = U16 /\ DOMAIN QiFigures[op].get["pasid"] = U32
        /\ DOMAIN QiFigures[op].get["addr"] = 12 .. 63
        /\ DOMAIN QiFigures[op].get["am"] = 0 .. 5
    BY <1>6 DEF QiFigures, At
  <2> QED BY <2>1, <2>2, <2>3
<1>7. CASE op = "PasidCache"
  <2>1. /\ DOMAIN QiValues[op] = {"granularity", "did", "pasid"}
        /\ DOMAIN QiFigures[op].get = {"granularity", "did", "pasid"}
    BY <1>7 DEF QiValues, QiFigures
  <2>2. /\ QiValues[op]["granularity"] = 0 .. 1 /\ QiValues[op]["did"] = U16
        /\ QiValues[op]["pasid"] = 0 .. 15
    BY <1>7 DEF QiValues
  <2>3. /\ DOMAIN QiFigures[op].get["granularity"] = 0 .. 1
        /\ DOMAIN QiFigures[op].get["did"] = U16 /\ DOMAIN QiFigures[op].get["pasid"] = U32
    BY <1>7 DEF QiFigures, At
  <2>4. args["pasid"] \cap (0 .. 15) = args["pasid"] \cap U32
    BY <1>7 DEF U32
  <2> QED BY <2>1, <2>2, <2>3, <2>4
<1> QED BY <1>0, <1>1, <1>2, <1>3, <1>4, <1>5, <1>6, <1>7

(* ... and so do those of a page fault, *)
LEMMA FaultSays ==
  ASSUME NEW args, args["addr"] \cap (0 .. 11) = {}
  PROVE  /\ DOMAIN PageFaultValues = DOMAIN PageFaultFigures.get
         /\ \A f \in DOMAIN PageFaultFigures.get :
              args[f] \cap PageFaultValues[f] = args[f] \cap DOMAIN PageFaultFigures.get[f]
<1>1. /\ DOMAIN PageFaultValues =
             {"device_id", "guest_nested", "nx", "rz", "translation",
              "reserved", "permission", "write", "interrupt", "domain_id",
              "addr"}
      /\ DOMAIN PageFaultFigures.get = DOMAIN PageFaultValues
  BY DEF PageFaultValues, PageFaultFigures
<1>2. /\ PageFaultValues["device_id"] = U16 /\ PageFaultValues["guest_nested"] = Bool
      /\ PageFaultValues["nx"] = Bool /\ PageFaultValues["rz"] = Bool
      /\ PageFaultValues["translation"] = Bool /\ PageFaultValues["reserved"] = Bool
      /\ PageFaultValues["permission"] = Bool /\ PageFaultValues["write"] = Bool
      /\ PageFaultValues["interrupt"] = Bool /\ PageFaultValues["domain_id"] = 0 .. 19
      /\ PageFaultValues["addr"] = U64
  BY DEF PageFaultValues
<1>3. /\ DOMAIN PageFaultFigures.get["device_id"] = U16
      /\ DOMAIN PageFaultFigures.get["guest_nested"] = Bool
      /\ DOMAIN PageFaultFigures.get["nx"] = Bool
      /\ DOMAIN PageFaultFigures.get["rz"] = Bool
      /\ DOMAIN PageFaultFigures.get["translation"] = Bool
      /\ DOMAIN PageFaultFigures.get["reserved"] = Bool
      /\ DOMAIN PageFaultFigures.get["permission"] = Bool
      /\ DOMAIN PageFaultFigures.get["write"] = Bool
      /\ DOMAIN PageFaultFigures.get["interrupt"] = Bool
      /\ DOMAIN PageFaultFigures.get["domain_id"] = 0 .. 19
      /\ DOMAIN PageFaultFigures.get["addr"] = 12 .. 63
  BY DEF PageFaultFigures, LogAddressFigure, At
<1>4. args["addr"] \cap U64 = args["addr"] \cap (12 .. 63)
  BY DEF U64
<1> QED BY <1>1, <1>2, <1>3, <1>4

(* ... and of a page request. *)
LEMMA PprSays ==
  ASSUME NEW args, args["addr"] \cap (0 .. 11) = {}, 19 \notin args["pasid"]
  PROVE  /\ DOMAIN PprValues = DOMAIN PprFigures.get
         /\ \A f \in DOMAIN PprFigures.get :
              args[f] \cap PprValues[f] = args[f] \cap DOMAIN PprFigures.get[f]
<1>1. /\ DOMAIN PprValues =
             {"device_id", "pasid", "ppr_tag", "gn", "rz", "user", "write",
              "read", "nx", "addr"}
      /\ DOMAIN PprFigures.get = DOMAIN PprValues
  BY DEF PprValues, PprFigures
<1>2. /\ PprValues["device_id"] = U16 /\ PprValues["pasid"] = 0 .. 19
      /\ PprValues["ppr_tag"] = U16 /\ PprValues["gn"] = Bool /\ PprValues["rz"] = Bool
      /\ PprValues["user"] = Bool /\ PprValues["write"] = Bool /\ PprValues["read"] = Bool
      /\ PprValues["nx"] = Bool /\ PprValues["addr"] = U64
  BY DEF PprValues
<1>3. /\ DOMAIN PprFigures.get["device_id"] = U16 /\ DOMAIN PprFigures.get["ppr_tag"] = U16
      /\ DOMAIN PprFigures.get["gn"] = Bool /\ DOMAIN PprFigures.get["rz"] = Bool
      /\ DOMAIN PprFigures.get["user"] = Bool /\ DOMAIN PprFigures.get["write"] = Bool
      /\ DOMAIN PprFigures.get["read"] = Bool /\ DOMAIN PprFigures.get["nx"] = Bool
      /\ DOMAIN PprFigures.get["addr"] = 12 .. 63
  BY DEF PprFigures, LogAddressFigure, At
<1>4. args["addr"] \cap U64 = args["addr"] \cap (12 .. 63)
  BY DEF U64
<1>5. args["pasid"] \cap (0 .. 19) = args["pasid"] \cap (0 .. 18)
  OBVIOUS
<1> QED BY <1>1, <1>2, <1>3, <1>4, <1>5, PprPasid

(* CodecFits for the AMD command buffer, *)
LEMMA AmdQueueFits ==
  ASSUME NEW k, k.family = "amd", k.stride = 1, NEW c, AmdCarries(c)
  PROVE  Fits(k, c)
<1>1. c.op \in AmdOps
  BY DEF AmdCarries, AmdOps
<1>2. CrateEncode(k, c) = Cut(AmdEncode(c), 1)
  BY DEF CrateEncode, EntryBits
<1>3. \A s : CrateDecode(k, s) = AmdDecode(s[1])
  BY DEF CrateDecode
<1>4. c.op # "Raw"
  BY <1>1 DEF AmdOps, AmdFigures
<1>5. CrateMeaning(k, c) =
        [op |-> c.op, args |-> Held(AmdWords[c.op].put, AmdFigures[c.op].get, c.args)]
  <2> DEFINE get == AmdFigures[c.op].get
             val == [f \in DOMAIN get |-> DOMAIN get[f]]
  <2>1. ValueBits(k, c.op) = val
    BY DEF ValueBits
  <2>2. CrateMeaning(k, c) = [op |-> c.op, args |-> Said(val, c.args)]
    BY <1>4, <2>1 DEF CrateMeaning, Said
  <2>3. Held(AmdWords[c.op].put, get, c.args) = Said(val, c.args)
    <3>1. /\ Fitting(AmdWords[c.op].put, get, AmdCodeBits, 127)
          /\ Legible(AmdWords[c.op].put, get, c.args)
      BY <1>1, AmdFits
    <3>2. /\ DOMAIN val = DOMAIN get
          /\ \A f \in DOMAIN get : c.args[f] \cap val[f] = c.args[f] \cap DOMAIN get[f]
      OBVIOUS
    <3> HIDE DEF get, val
    <3> QED BY <3>1, <3>2, HeldIsSaid
  <2> QED BY <2>2, <2>3
<1>6. CrateSlotCount(k, c) = 1
  BY DEF CrateSlotCount
<1> QED BY <1>1, <1>2, <1>3, <1>5, <1>6, AmdRoundTrip, OneSlot DEF Fits

(* ... the queue of 128-bit descriptors, *)
LEMMA QiQueueFits ==
  ASSUME NEW k, k.family = "qi", k.stride = 1, NEW c, c.op \in DOMAIN QiFigures,
         c.op = "PasidCache" => c.args["pasid"] \cap (16 .. 31) = {}
  PROVE  Fits(k, c)
<1>1. CrateEncode(k, c) = Cut(words(c), 1)
  BY DEF CrateEncode, EntryBits
<1>2. \A s : CrateDecode(k, s) = from_words(s[1])
  BY DEF CrateDecode
<1>3. c.op # "Raw" /\ c.op # "PasidDevTlb"
  BY DEF QiFigures
<1>4. CrateMeaning(k, c) =
        [op |-> c.op, args |-> Held(QiWords[c.op].put, QiFigures[c.op].get, c.args)]
  <2>1. CrateMeaning(k, c) = [op |-> c.op, args |-> Said(QiValues[c.op], c.args)]
    BY <1>3 DEF CrateMeaning, ValueBits, Said
  <2>2. Held(QiWords[c.op].put, QiFigures[c.op].get, c.args) = Said(QiValues[c.op], c.args)
    <3> DEFINE put == QiWords[c.op].put
               get == QiFigures[c.op].get
               val == QiValues[c.op]
    <3>1. Fitting(put, get, QiCodeBits, 127) /\ Legible(put, get, c.args)
      BY QiFits
    <3>2. /\ DOMAIN val = DOMAIN get
          /\ \A f \in DOMAIN get : c.args[f] \cap val[f] = c.args[f] \cap DOMAIN get[f]
      BY QiSays
    <3> HIDE DEF put, get, val
    <3>3. Held(put, get, c.args) = Said(val, c.args)
      BY <3>1, <3>2, HeldIsSaid
    <3> QED BY <3>3 DEF put, get, val
  <2> QED BY <2>1, <2>2
<1>5. CrateSlotCount(k, c) = 1
  BY <1>3 DEF CrateSlotCount, slot_count
<1> QED BY <1>1, <1>2, <1>4, <1>5, QiRoundTrip, OneSlot DEF Fits

(* ... the queue of 256-bit descriptors, *)
LEMMA WideQueueFits ==
  ASSUME NEW k, k.family = "qi", k.stride = 2,
         NEW c, c.op = "PasidDevTlb", c.args["global"] = {}, c.args["pfsid"] = {}
  PROVE  Fits(k, c)
<1>1. CrateEncode(k, c) = Cut(words4(c), 2)
  BY DEF CrateEncode, EntryBits
<1>2. \A s : CrateDecode(k, s) = DecodeBy(QiWideFigures, QiCode(Joined(s)), Joined(s))
  BY DEF CrateDecode
<1>3. CrateMeaning(k, c) =
        [op |-> c.op,
         args |-> [f \in DOMAIN QiValues[c.op] |-> c.args[f] \cap QiValues[c.op][f]]]
  BY DEF CrateMeaning, ValueBits
<1>4. CrateSlotCount(k, c) = 2
  BY DEF CrateSlotCount, slot_count
<1> QED BY <1>1, <1>2, <1>3, <1>4, WideRoundTrip, TwoSlots DEF Fits

(* ... the event log *)
LEMMA EventQueueFits ==
  ASSUME NEW k, k.family = "events", k.stride = 1, NEW c, EventCarries(c)
  PROVE  Fits(k, c)
<1>1. CrateEncode(k, c) = Cut(EventEncode(c), 1)
  BY DEF CrateEncode, EntryBits
<1>2. \A s : CrateDecode(k, s) = EventDecode(s[1])
  BY DEF CrateDecode
<1>3. CrateSlotCount(k, c) = 1
  BY DEF CrateSlotCount
<1>4. Within(EventEncode(c), 127) /\ EventDecode(EventEncode(c)) = CrateMeaning(k, c)
  <2>1. CASE c.op = "PageFault"
    <3>1. CrateMeaning(k, c) =
            [op |-> c.op, args |-> Held(PageFaultEvent, PageFaultFigures.get, c.args)]
      <4>1. CrateMeaning(k, c) = [op |-> c.op, args |-> Said(PageFaultValues, c.args)]
        BY <2>1 DEF CrateMeaning, ValueBits, Said
      <4>2. c.args["addr"] \cap (0 .. 11) = {}
        BY <2>1 DEF EventCarries, PageAligned
      <4>3. Held(PageFaultEvent, PageFaultFigures.get, c.args) = Said(PageFaultValues, c.args)
        BY <4>2, FaultSays, PageFaultFits, HeldIsSaid
      <4> QED BY <4>1, <4>3
    <3> QED BY <2>1, <3>1, PageFaultRoundTrip
  <2>2. CASE c.op # "PageFault"
    <3>1. PICK raw, code : raw = c.args["words"] /\ code = c.args["code"]
      OBVIOUS
    <3>2. /\ c = [op |-> "Raw", args |-> [code |-> code, words |-> raw]]
          /\ code = LogCode(raw) /\ code # PageFaultFigures.code
      BY <2>2, <3>1 DEF EventCarries
    <3>3. Within(raw, 127)
      BY <2>2, <3>1 DEF EventCarries, Within, SlotBits
    <3>4. c.op = "Raw"
      BY <3>2
    <3>5. CrateMeaning(k, c) = c
      BY <3>4 DEF CrateMeaning
    <3> QED BY <3>1, <3>2, <3>3, <3>4, <3>5, RawRoundTrip
  <2> QED BY <2>1, <2>2
<1> QED BY <1>1, <1>2, <1>3, <1>4, OneSlot DEF Fits

(* ... and the PPR log, *)
LEMMA PprQueueFits ==
  ASSUME NEW k, k.family = "ppr", k.stride = 1, NEW c, PprCarries(c)
  PROVE  Fits(k, c)
<1>1. CrateEncode(k, c) = Cut(PprEncode(c), 1)
  BY DEF CrateEncode, EntryBits
<1>2. \A s : CrateDecode(k, s) = PprDecode(s[1])
  BY DEF CrateDecode
<1>3. /\ c.op = "PageServiceRequest" /\ 19 \notin c.args["pasid"]
      /\ c.args["addr"] \cap (0 .. 11) = {}
  BY DEF PprCarries, PageAligned
<1>4. CrateMeaning(k, c) =
        [op |-> c.op, args |-> Held(PprEntry, PprFigures.get, c.args)]
  <2>1. CrateMeaning(k, c) = [op |-> c.op, args |-> Said(PprValues, c.args)]
    BY <1>3 DEF CrateMeaning, ValueBits, Said
  <2>2. Held(PprEntry, PprFigures.get, c.args) = Said(PprValues, c.args)
    BY <1>3, PprSays, PprEntryFits, HeldIsSaid
  <2> QED BY <2>1, <2>2
<1>5. CrateSlotCount(k, c) = 1
  BY DEF CrateSlotCount
<1> QED BY <1>1, <1>2, <1>3, <1>4, <1>5, PprRoundTrip, OneSlot DEF Fits

(* Every command that a queue can carry fits. *)
LEMMA CarriedFits ==
  ASSUME NEW k, NEW c, Carries(k, c)
  PROVE  Fits(k, c)
<1>1. CASE k.family = "amd" /\ k.stride = 1 /\ AmdCarries(c)
  BY <1>1, AmdQueueFits
<1>2. CASE k.family = "qi" /\ QiCarries(k, c)
  BY <1>2, QiQueueFits, WideQueueFits DEF QiCarries
<1>3. CASE k.family = "events" /\ k.stride = 1 /\ EventCarries(c)
  BY <1>3, EventQueueFits
<1>4. CASE k.family = "ppr" /\ k.stride = 1 /\ PprCarries(c)
  BY <1>4, PprQueueFits
<1> QED BY <1>1, <1>2, <1>3, <1>4 DEF Carries

LEMMA CrateFits ==
  ASSUME CrateCodec, kind \in Kinds
  PROVE  CodecFits
<1> SUFFICES ASSUME NEW c \in Commands[kind]
             PROVE  /\ Encode(kind, c) = [j \in 1 .. Stride[kind] |-> Encode(kind, c)[j]]
                    /\ SlotCount(kind, c) = Stride[kind]
                    /\ Decode(kind, Encode(kind, c)) = Meaning(kind, c)
  BY DEF CodecFits
<1>1. /\ Stride[kind] = kind.stride /\ Carries(kind, c)
      /\ Encode(kind, c) = CrateEncode(kind, c)
      /\ SlotCount(kind, c) = CrateSlotCount(kind, c)
      /\ Decode(kind, CrateEncode(kind, c)) = CrateDecode(kind, CrateEncode(kind, c))
      /\ Meaning(kind, c) = CrateMeaning(kind, c)
  BY DEF CrateCodec
<1>2. Fits(kind, c)
  BY <1>1, CarriedFits
<1> QED BY <1>1, <1>2 DEF Fits

(* CodecFits for the functions of the crates: in AMD command buffers, in   *)
(* Intel queues of either width and in AMD's logs, every operation that    *)
(* the queue can carry (Carries), with any arguments whatever, is encoded  *)
(* in one entry's slots, counted as such and decoded to what was written.  *)
THEOREM CrateCodecFits == Spec /\ CrateCodec => []CodecFits
<1>1. TypeOK /\ CrateCodec => CodecFits
  BY CrateFits DEF TypeOK
<1>2. CrateCodec => []CrateCodec
  OBVIOUS
<1> QED BY <1>1, <1>2, TypeCorrect, PTL

(* DeliversCommands without a hypothesis on the codec: the encoders, the   *)
(* decoders and slot_count() of the crates make of every ring, whatever    *)
(* its size and whatever commands it is given of those it can carry, a     *)
(* channel of these commands.                                              *)
THEOREM CrateDelivers == Spec /\ CrateCodec => DeliversCommands
<1>1. CrateCodec /\ Init => CodecFits
  BY CrateFits DEF Init
<1> QED BY <1>1, Refinement, PTL DEF Spec
=============================================================================
