------------------------------ MODULE HuffTree ------------------------------
(***************************************************************************)
(* build_tree of the zlib copy AWS builds (include/zlib/trees.c): from the *)
(* frequencies of the symbols of a block to code lengths and codes, by a   *)
(* heap, a tree written into the same array, a first pass that gives every *)
(* node its depth and a second one that brings codes that have become too  *)
(* long back under the limit.  One step is one turn of a loop.             *)
(***************************************************************************)
EXTENDS CanonCode

CONSTANTS
  MAX_BITS,     \* longest code of any tree
  Descs         \* the trees: symbols (elems), longest code allowed (max_length),
                \* extra bits of the symbols from 3 on (extra), length of a code
                \* of the static tree, 0 if there is none (static), and the
                \* frequencies that symbols of a block may have (freqs)

VARIABLES
  pc,
  desc,       \* the tree being built, tree_desc
  given,      \* the frequencies counted in the block
  freq,       \* tree[n].Freq
  dl,         \* tree[n].Dad or tree[n].Len, which share a field; -1 if not set
  code,       \* tree[n].Code
  heap,       \* the heap, and from heap_max on the nodes of the tree
  heap_len, heap_max, depth, bl_count, max_code, opt_len, static_len,
  l           \* local variables of the loops

vars == <<pc, desc, given, freq, dl, code, heap, heap_len, heap_max, depth, bl_count, max_code,
          opt_len, static_len, l>>

ELEMS == desc.elems
MAX_LENGTH == desc.max_length
StaticLen == desc.static
HEAP_SIZE == 2 * ELEMS + 1
Symbols == 0 .. ELEMS - 1
Nodes == 0 .. HEAP_SIZE - 1
Extra(n) == IF n >= 3 THEN desc.extra ELSE 0

\* Tree d of a block with the frequencies f.
Begin(d, f) ==
  /\ desc = d /\ given = f
  /\ freq = [n \in 0 .. 2 * d.elems |-> IF n < d.elems THEN f[n] ELSE 0]
  /\ dl = [n \in 0 .. 2 * d.elems |-> -1]
  /\ code = [n \in 0 .. d.elems - 1 |-> 0]
  /\ heap = [k \in 0 .. 2 * d.elems |-> 0]
  /\ heap_len = 0 /\ heap_max = 2 * d.elems + 1
  /\ depth = [n \in 0 .. 2 * d.elems |-> 0]
  /\ bl_count = [b \in 0 .. MAX_BITS |-> 0]
  /\ max_code = -1 /\ opt_len = 0 /\ static_len = 0
  /\ l = [n |-> 0, h |-> 2 * d.elems + 1, overflow |-> 0, bits |-> 0]

Init == \E d \in Descs : \E f \in [0 .. d.elems - 1 -> d.freqs] : pc = "fill" /\ Begin(d, f)

\* No tree is being built.
Idle == pc = "idle" /\ Begin([elems |-> 0, max_length |-> 1, extra |-> 0, static |-> 0], <<>>)

-----------------------------------------------------------------------------
(* The heap.                                                               *)

\* Mutant: more frequent.
smallerReversed(f, dep, n, m) == f[n] > f[m] \/ (f[n] = f[m] /\ dep[n] <= dep[m])

\* Less frequent, or as frequent and not deeper.
smaller(f, dep, n, m) == f[n] < f[m] \/ (f[n] = f[m] /\ dep[n] <= dep[m])

\* v moves down from k until it is smaller than both sons.
RECURSIVE pqdownheap(_, _, _, _, _, _)
pqdownheap(hp, len, f, dep, k, v) ==
  LET j == IF 2 * k < len /\ smaller(f, dep, hp[2 * k + 1], hp[2 * k]) THEN 2 * k + 1 ELSE 2 * k
  IN  IF 2 * k > len \/ smaller(f, dep, v, hp[j]) THEN [hp EXCEPT ![k] = v]
      ELSE pqdownheap([hp EXCEPT ![k] = hp[j]], len, f, dep, j, v)

-----------------------------------------------------------------------------
(* build_tree.                                                             *)

\* The symbols that occur, in order; the others get no code.
Fill ==
  /\ pc = "fill" /\ l.n < ELEMS
  /\ IF freq[l.n] # 0
     THEN /\ heap_len' = heap_len + 1 /\ heap' = [heap EXCEPT ![heap_len + 1] = l.n]
          /\ max_code' = l.n /\ UNCHANGED dl
     ELSE dl' = [dl EXCEPT ![l.n] = 0] /\ UNCHANGED <<heap, heap_len, max_code>>
  /\ l' = [l EXCEPT !.n = @ + 1]
  /\ UNCHANGED <<pc, desc, given, freq, code, heap_max, depth, bl_count, opt_len, static_len>>

\* At least two codes, one of them perhaps of a symbol that does not occur.
Force ==
  /\ pc = "fill" /\ l.n = ELEMS /\ heap_len < 2
  /\ \E node \in {IF max_code < 2 THEN max_code + 1 ELSE 0} :
       /\ max_code' = IF max_code < 2 THEN node ELSE max_code
       /\ heap_len' = heap_len + 1 /\ heap' = [heap EXCEPT ![heap_len + 1] = node]
       /\ freq' = [freq EXCEPT ![node] = 1]
  /\ opt_len' = opt_len - 1
  /\ static_len' = static_len - StaticLen
  /\ UNCHANGED <<pc, desc, given, dl, code, heap_max, depth, bl_count, l>>

Filled ==
  /\ pc = "fill" /\ l.n = ELEMS /\ heap_len >= 2
  /\ pc' = "heapify" /\ l' = [l EXCEPT !.n = heap_len \div 2]
  /\ UNCHANGED <<desc, given, freq, dl, code, heap, heap_len, heap_max, depth, bl_count, max_code,
                 opt_len, static_len>>

\* Mutant: the root of the heap is left as it is.
HeapifyNotRoot ==
  /\ pc = "heapify"
  /\ IF l.n > 1
     THEN /\ heap' = pqdownheap(heap, heap_len, freq, depth, l.n, heap[l.n])
          /\ l' = [l EXCEPT !.n = @ - 1] /\ UNCHANGED pc
     ELSE pc' = "combine" /\ l' = [l EXCEPT !.n = ELEMS] /\ UNCHANGED heap
  /\ UNCHANGED <<desc, given, freq, dl, code, heap_len, heap_max, depth, bl_count, max_code,
                 opt_len, static_len>>

Heapify ==
  /\ pc = "heapify"
  /\ IF l.n >= 1
     THEN /\ heap' = pqdownheap(heap, heap_len, freq, depth, l.n, heap[l.n])
          /\ l' = [l EXCEPT !.n = @ - 1] /\ UNCHANGED pc
     ELSE pc' = "combine" /\ l' = [l EXCEPT !.n = ELEMS] /\ UNCHANGED heap
  /\ UNCHANGED <<desc, given, freq, dl, code, heap_len, heap_max, depth, bl_count, max_code,
                 opt_len, static_len>>

Deeper(a, b) == 1 + (IF a >= b THEN a ELSE b)

\* The two least frequent nodes get a father, which takes their place.
Combine ==
  /\ pc = "combine" /\ heap_len >= 2
  /\ \E hp1 \in {pqdownheap(heap, heap_len - 1, freq, depth, 1, heap[heap_len])} :
     \E n \in {heap[1]}, m \in {hp1[1]} :
       /\ freq' = [freq EXCEPT ![l.n] = freq[n] + freq[m]]
       /\ depth' = [depth EXCEPT ![l.n] = Deeper(depth[n], depth[m])]
       /\ dl' = [dl EXCEPT ![n] = l.n, ![m] = l.n]
       /\ heap' = pqdownheap([hp1 EXCEPT ![heap_max - 1] = n, ![heap_max - 2] = m],
                             heap_len - 1, freq', depth', 1, l.n)
  /\ heap_len' = heap_len - 1 /\ heap_max' = heap_max - 2
  /\ l' = [l EXCEPT !.n = @ + 1]
  /\ UNCHANGED <<pc, desc, given, code, bl_count, max_code, opt_len, static_len>>

\* The root; its length is 0.
Root ==
  /\ pc = "combine" /\ heap_len < 2
  /\ heap_max' = heap_max - 1
  /\ heap' = [heap EXCEPT ![heap_max - 1] = heap[1]]
  /\ dl' = [dl EXCEPT ![heap[1]] = 0]
  /\ pc' = "lens" /\ l' = [l EXCEPT !.h = heap_max]
  /\ UNCHANGED <<desc, given, freq, code, heap_len, depth, bl_count, max_code, opt_len, static_len>>

-----------------------------------------------------------------------------
(* gen_bitlen.                                                             *)

\* From the root on: one more than the father, but not over the limit.
Lens ==
  /\ pc = "lens" /\ l.h < HEAP_SIZE
  /\ \E n \in {heap[l.h]} : \E deep \in {dl[dl[heap[l.h]]] + 1} :
     \E b \in {IF deep > MAX_LENGTH THEN MAX_LENGTH ELSE deep} :
       /\ dl' = [dl EXCEPT ![n] = b]
       /\ l' = [l EXCEPT !.h = @ + 1, !.overflow = @ + (IF deep > MAX_LENGTH THEN 1 ELSE 0)]
       /\ IF n > max_code THEN UNCHANGED <<bl_count, opt_len, static_len>>
          ELSE /\ bl_count' = [bl_count EXCEPT ![b] = @ + 1]
               /\ opt_len' = opt_len + freq[n] * (b + Extra(n))
               /\ static_len' = IF StaticLen = 0 THEN static_len
                                ELSE static_len + freq[n] * (StaticLen + Extra(n))
  /\ UNCHANGED <<pc, desc, given, freq, code, heap, heap_len, heap_max, depth, max_code>>

LensEnd ==
  /\ pc = "lens" /\ l.h = HEAP_SIZE
  /\ pc' = IF l.overflow = 0 THEN "codes" ELSE "overflow"
  /\ UNCHANGED <<desc, given, freq, dl, code, heap, heap_len, heap_max, depth, bl_count, max_code,
                 opt_len, static_len, l>>

\* Mutant: the leaf that moves down leaves its place behind.
OverflowKeeps ==
  /\ pc = "overflow" /\ l.overflow > 0
  /\ \E b \in 1 .. MAX_LENGTH - 1 :
       /\ bl_count[b] # 0 /\ \A x \in b + 1 .. MAX_LENGTH - 1 : bl_count[x] = 0
       /\ bl_count' = [bl_count EXCEPT ![b] = @ - 1, ![b + 1] = @ + 1]
  /\ l' = [l EXCEPT !.overflow = @ - 2]
  /\ UNCHANGED <<pc, desc, given, freq, dl, code, heap, heap_len, heap_max, depth, max_code, opt_len,
                 static_len>>

\* Mutant: the ones that were too long are not counted down.
OverflowForever ==
  /\ pc = "overflow" /\ l.overflow > 0
  /\ \E b \in 1 .. MAX_LENGTH - 1 :
       /\ bl_count[b] # 0 /\ \A x \in b + 1 .. MAX_LENGTH - 1 : bl_count[x] = 0
       /\ bl_count' = [bl_count EXCEPT ![b] = @ - 1, ![b + 1] = @ + 1]
  /\ UNCHANGED <<pc, desc, given, freq, dl, code, heap, heap_len, heap_max, depth, max_code, opt_len,
                 static_len, l>>

\* The longest code that can grow moves down, with one that was too long as
\* its brother.
Overflow ==
  /\ pc = "overflow" /\ l.overflow > 0
  /\ \E b \in 1 .. MAX_LENGTH - 1 :
       /\ bl_count[b] # 0 /\ \A x \in b + 1 .. MAX_LENGTH - 1 : bl_count[x] = 0
       /\ \E moved \in {[bl_count EXCEPT ![b] = @ - 1, ![b + 1] = @ + 2]} :
            bl_count' = [moved EXCEPT ![MAX_LENGTH] = @ - 1]
  /\ l' = [l EXCEPT !.overflow = @ - 2]
  /\ UNCHANGED <<pc, desc, given, freq, dl, code, heap, heap_len, heap_max, depth, max_code, opt_len,
                 static_len>>

OverflowEnd ==
  /\ pc = "overflow" /\ l.overflow <= 0
  /\ pc' = "again"
  /\ l' = [l EXCEPT !.bits = MAX_LENGTH, !.n = bl_count[MAX_LENGTH]]
  /\ UNCHANGED <<desc, given, freq, dl, code, heap, heap_len, heap_max, depth, bl_count, max_code,
                 opt_len, static_len>>

\* Mutant: opt_len keeps the old length.
AgainKeeps ==
  /\ pc = "again" /\ l.bits # 0 /\ l.n # 0
  /\ \E m \in {heap[l.h - 1]} :
       IF m > max_code THEN l' = [l EXCEPT !.h = @ - 1] /\ UNCHANGED <<opt_len, dl>>
       ELSE /\ dl' = [dl EXCEPT ![m] = l.bits]
            /\ l' = [l EXCEPT !.h = @ - 1, !.n = @ - 1] /\ UNCHANGED opt_len
  /\ UNCHANGED <<pc, desc, given, freq, code, heap, heap_len, heap_max, depth, bl_count, max_code,
                 static_len>>

\* The lengths are given out again, the longest to the least frequent.
Again ==
  /\ pc = "again" /\ l.bits # 0 /\ l.n # 0
  /\ \E m \in {heap[l.h - 1]} :
       IF m > max_code THEN l' = [l EXCEPT !.h = @ - 1] /\ UNCHANGED <<opt_len, dl>>
       ELSE /\ opt_len' = opt_len + (l.bits - dl[m]) * freq[m]
            /\ dl' = [dl EXCEPT ![m] = l.bits]
            /\ l' = [l EXCEPT !.h = @ - 1, !.n = @ - 1]
  /\ UNCHANGED <<pc, desc, given, freq, code, heap, heap_len, heap_max, depth, bl_count, max_code,
                 static_len>>

Shorter ==
  /\ pc = "again" /\ l.bits # 0 /\ l.n = 0
  /\ l' = [l EXCEPT !.bits = @ - 1, !.n = bl_count[l.bits - 1]]
  /\ UNCHANGED <<pc, desc, given, freq, dl, code, heap, heap_len, heap_max, depth, bl_count, max_code,
                 opt_len, static_len>>

AgainEnd ==
  /\ pc = "again" /\ l.bits = 0
  /\ pc' = "codes"
  /\ UNCHANGED <<desc, given, freq, dl, code, heap, heap_len, heap_max, depth, bl_count, max_code,
                 opt_len, static_len, l>>

-----------------------------------------------------------------------------
(* gen_codes.                                                              *)

bi_reverse(v, len) ==
  LET res[k \in 0 .. len] == IF k = 0 THEN 0 ELSE (res[k - 1] + Bit(v, k - 1)) * 2
  IN  res[len] \div 2

\* The first code of every length.
NextCode ==
  LET next[b \in 0 .. MAX_BITS] == IF b = 0 THEN 0 ELSE (next[b - 1] + bl_count[b - 1]) * 2
  IN  next

\* Mutant: the codes are not reversed.
CodesStraight ==
  /\ pc = "codes"
  /\ \E next \in {NextCode} :
       code' = [n \in Symbols |->
                  IF n > max_code \/ dl[n] = 0 THEN code[n]
                  ELSE next[dl[n]] + Cardinality({m \in 0 .. n - 1 : dl[m] = dl[n]})]
  /\ pc' = "done"
  /\ UNCHANGED <<desc, given, freq, dl, heap, heap_len, heap_max, depth, bl_count, max_code, opt_len,
                 static_len, l>>

Codes ==
  /\ pc = "codes"
  /\ \E next \in {NextCode} :
       code' = [n \in Symbols |->
                  IF n > max_code \/ dl[n] = 0 THEN code[n]
                  ELSE bi_reverse(next[dl[n]] + Cardinality({m \in 0 .. n - 1 : dl[m] = dl[n]}),
                                  dl[n])]
  /\ pc' = "done"
  /\ UNCHANGED <<desc, given, freq, dl, heap, heap_len, heap_max, depth, bl_count, max_code, opt_len,
                 static_len, l>>

Next ==
  \/ Fill \/ Force \/ Filled \/ Heapify \/ Combine \/ Root
  \/ Lens \/ LensEnd \/ Overflow \/ OverflowEnd \/ Again \/ Shorter \/ AgainEnd \/ Codes

-----------------------------------------------------------------------------
(* Properties.                                                             *)

Done == pc = "done"
Leaves == {n \in Symbols : freq[n] # 0}
Lengths == [n \in Leaves |-> dl[n]]

\* The state stays within its arrays: heap and tree share one without meeting.
TypeOK ==
  /\ heap \in [Nodes -> Nodes] /\ dl \in [Nodes -> -1 .. HEAP_SIZE]
  /\ heap_len < heap_max /\ heap_max \in 1 .. HEAP_SIZE
  /\ l.h \in heap_max .. HEAP_SIZE /\ max_code \in -1 .. ELEMS - 1
  /\ bl_count \in [0 .. MAX_BITS -> 0 .. ELEMS]

\* trees.c:448: while nodes are combined, "each father [is] smaller than its
\* two sons": the least frequent node is on top of the heap.
HeapOrder ==
  pc = "combine" => \A k \in 2 .. heap_len : smaller(freq, depth, heap[k \div 2], heap[k])

\* trees.c:479: when gen_bitlen starts, "heap[heap_max] and above are the tree
\* nodes sorted", and a father comes before its sons, so that its length is
\* known when theirs is computed.
TreeSorted ==
  pc = "lens" =>
    /\ \A h \in heap_max .. HEAP_SIZE - 2 : freq[heap[h]] >= freq[heap[h + 1]]
    /\ \A h \in l.h .. HEAP_SIZE - 1 : \E k \in heap_max .. h - 1 : heap[k] = dl[heap[h]]

\* trees.c:592: the codes fill the code space exactly, none is longer than the
\* limit, and bl_count counts them: "The last code must be all ones."
Complete ==
  pc \in {"codes", "done"} =>
    /\ Space(Lengths, MAX_LENGTH) = 2 ^ MAX_LENGTH
    /\ \A n \in Leaves : dl[n] \in 1 .. MAX_LENGTH
    /\ \A b \in 1 .. MAX_BITS : bl_count[b] = Cardinality({n \in Leaves : dl[n] = b})

\* trees.c:541: more frequent symbols never get longer codes, also after the
\* lengths were given out again.
Monotone ==
  Done => \A m, n \in Leaves : freq[m] > freq[n] => dl[m] <= dl[n]

\* trees.c:481: "the field len is set to the optimal bit length", as long as
\* no code was too long: the repair, which moves h back, need not be optimal.
Repaired == l.h # HEAP_SIZE
Cost(len) == MapThenSumSet(LAMBDA n : freq[n] * len[n], Leaves)
Optimal ==
  Done /\ ~Repaired =>
    LET mine == Cost(Lengths)
    IN  \A x \in [Leaves -> 1 .. MAX_LENGTH] :
          Cost(x) < mine => Space(x, MAX_LENGTH) > 2 ^ MAX_LENGTH

\* trees.c:523, 556, 650: opt_len is what the block's own symbols take, codes
\* that were forced left out; _tr_flush_block chooses the kind of block by it.
Bits(len(_)) == MapThenSumSet(LAMBDA n : given[n] * (len(n) + Extra(n)), Symbols)
OptLenExact ==
  Done => /\ opt_len = Bits(LAMBDA n : dl[n])
          /\ StaticLen # 0 => static_len = Bits(LAMBDA n : StaticLen)

\* trees.c:600: every code is the canonical one, in the order in which the
\* decompressor reads its bits, and symbols that do not occur have none.
CodesCanonical ==
  Done => \A n \in Symbols :
            IF n \in Leaves THEN code[n] = Mirror(CanonValue(Lengths, n), dl[n])
            ELSE dl[n] = 0

=============================================================================
