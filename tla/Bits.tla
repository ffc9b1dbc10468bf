------------------------------- MODULE Bits -------------------------------
(***************************************************************************)
(* Machine words as sets of bit positions.  The word whose bits i, j, ...  *)
(* are one is the set {i, j, ...}; `a | b' is a \cup b, `a & m' is         *)
(* a \cap m, `a & !m' is a \ m.  A structure of several words is one set:  *)
(* bit b of word q is position WordBits * q + b, the byte order in which   *)
(* into_bytes() lays the words out.                                        *)
(***************************************************************************)
EXTENDS Integers

(* u64::BITS. *)
WordBits == 64

(* The word `(v << n)' of type u64: bits shifted past the top are lost. *)
ShiftLeft(v, n) == {b + n : b \in {c \in v : c + n < WordBits}}

(* The word `(v >> n)'. *)
ShiftRight(v, n) == {b - n : b \in {c \in v : c >= n}}

(* bits.rs, extract_bits(value, hi, lo): bits hi..=lo, right-aligned. *)
extract_bits(value, hi, lo) == ShiftRight(value, lo) \cap (0 .. (hi - lo))

(* A small number as the word that holds it. *)
BitsOf(n) == {b \in 0 .. 15 : (n \div (2 ^ b)) % 2 = 1}
===========================================================================
