----------------------------- MODULE CanonCode -----------------------------
(***************************************************************************)
(* What a set of code lengths means in the deflate format: the reference   *)
(* against which HuffTree (the compressor's side) and InfTable (the        *)
(* decompressor's side) are checked.  len is a function from symbols to    *)
(* lengths, 0 for a symbol without a code.                                 *)
(***************************************************************************)
EXTENDS Integers, FiniteSetsExt

Used(len) == {n \in DOMAIN len : len[n] # 0}

\* Shorter codes come first, and codes of one length in the order of symbols.
Earlier(len, m, n) == len[m] < len[n] \/ (len[m] = len[n] /\ m < n)

\* The code of n, its first bit the most significant one.
CanonValue(len, n) ==
  MapThenSumSet(LAMBDA m : 2 ^ (len[n] - len[m]), {m \in Used(len) : Earlier(len, m, n)})

\* How many of the 2^w words of w bits the codes take.
Space(len, w) == MapThenSumSet(LAMBDA n : 2 ^ (w - len[n]), Used(len))

\* Bit i of v, from the least significant one.
Bit(v, i) == (v \div 2 ^ i) % 2

\* The n bits of v in the opposite order: how a code lies in the bit stream.
Mirror(v, n) == MapThenSumSet(LAMBDA i : Bit(v, i) * 2 ^ (n - 1 - i), 0 .. n - 1)

=============================================================================
