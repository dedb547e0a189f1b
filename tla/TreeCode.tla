------------------------------ MODULE TreeCode ------------------------------
(***************************************************************************)
(* How the code lengths of a dynamic block travel in the zlib copy AWS     *)
(* builds: trees.c counts the run length codes (scan_tree), builds a code  *)
(* for them, and sends them (send_tree, send_all_trees); inflate.c reads   *)
(* the counts, the lengths of that code and the lengths themselves (TABLE, *)
(* LENLENS, CODELENS).  One step is one length or one code.                *)
(*                                                                         *)
(* A tree is the sequence of its code lengths up to max_code.  What is     *)
(* sent is a sequence of codes, each with the extra bits behind it.  The   *)
(* code for them is what build_tree makes (HuffTree): here some complete   *)
(* code of the symbols in use.  END_BLOCK, 256 in trees.c, scales the      *)
(* alphabet: the counts are sent relative to it.                           *)
(***************************************************************************)
EXTENDS Integers, Sequences, FiniteSetsExt

CONSTANTS
  LitTrees,   \* <<END_BLOCK, literal/length tree>>
  DistTrees   \* distance trees

BL_CODES == 19
D_CODES == 30
REP_3_6 == 16
REPZ_3_10 == 17
REPZ_11_138 == 18
GUARD == 65535
bl_order == <<16, 17, 18, 0, 8, 7, 9, 6, 10, 5, 11, 4, 12, 3, 13, 2, 14, 1, 15>>
BlSymbols == 0 .. BL_CODES - 1
extra_blbits(c) == CASE c = REP_3_6 -> 2 [] c = REPZ_3_10 -> 3 [] c = REPZ_11_138 -> 7 [] OTHER -> 0

VARIABLES
  pc, lit, dist,
  END_BLOCK, \* the end of block code
  which,     \* the tree being scanned or sent
  r,         \* n, prevlen, count, max_count, min_count of the loop over it
  blfreq,    \* bl_tree[c].Freq
  bllen,     \* bl_tree[c].Len
  max_blindex,
  opt_len,   \* what the header is computed to take
  sent,      \* codes sent, with their extra bits
  sentbits,  \* the bits sent
  rbl,       \* lens of the code for the lengths, as inflate() read them
  lens,      \* the lengths inflate() has read
  pos        \* the next code it reads

vars == <<pc, lit, dist, END_BLOCK, which, r, blfreq, bllen, max_blindex, opt_len, sent, sentbits, rbl,
          lens, pos>>

L_CODES == END_BLOCK + 30
Tree == IF which = "lit" THEN lit ELSE dist
Start(t) == [n |-> 0, prevlen |-> -1, count |-> 0, max |-> IF t[1] = 0 THEN 138 ELSE 7,
             min |-> IF t[1] = 0 THEN 3 ELSE 4]

\* The trees l and d of a block, in an alphabet with the end of block code e.
Begin(e, l, d) ==
  /\ END_BLOCK = e /\ lit = l /\ dist = d /\ which = "lit"
  /\ r = Start(l)
  /\ blfreq = [c \in BlSymbols |-> 0] /\ bllen = [c \in BlSymbols |-> 0]
  /\ max_blindex = -1 /\ opt_len = 0 /\ sent = <<>> /\ sentbits = 0
  /\ rbl = [c \in BlSymbols |-> 0] /\ lens = <<>> /\ pos = 1

Init == \E t \in LitTrees, d \in DistTrees : pc = "scan" /\ Begin(t[1], t[2], d)

\* No trees are being sent.
Idle == pc = "idle" /\ Begin(0, <<0>>, <<0>>)

-----------------------------------------------------------------------------
(* The loop of scan_tree and send_tree.                                    *)

Cur == Tree[r.n + 1]
Nxt == IF r.n + 1 < Len(Tree) THEN Tree[r.n + 2] ELSE GUARD
Count == r.count + 1

\* The run goes on.
RunOn == Count < r.max /\ Cur = Nxt

\* Mutant: the limits of a run are not those of the length that follows.
RestartKeeps == [r EXCEPT !.n = @ + 1, !.prevlen = Cur, !.count = 0]

\* The run ends; the limits of the next one.
Restart ==
  [n |-> r.n + 1, prevlen |-> Cur, count |-> 0,
   max |-> CASE Nxt = 0 -> 138 [] Nxt # 0 /\ Cur = Nxt -> 6 [] OTHER -> 7,
   min |-> IF Nxt = 0 \/ Cur = Nxt THEN 3 ELSE 4]

\* Mutant: the length itself is always counted.
RunFreqAlways(c) ==
  CASE Count < r.min -> IF c = Cur THEN Count ELSE 0
    [] Count >= r.min /\ Cur # 0 -> IF c \in {REP_3_6, Cur} THEN 1 ELSE 0
    [] Count >= r.min /\ Cur = 0 /\ Count <= 10 -> IF c = REPZ_3_10 THEN 1 ELSE 0
    [] OTHER -> IF c = REPZ_11_138 THEN 1 ELSE 0

\* How often scan_tree counts code c for a run.
RunFreq(c) ==
  CASE Count < r.min -> IF c = Cur THEN Count ELSE 0
    [] Count >= r.min /\ Cur # 0 ->
         IF c = REP_3_6 \/ (c = Cur /\ Cur # r.prevlen) THEN 1 ELSE 0
    [] Count >= r.min /\ Cur = 0 /\ Count <= 10 -> IF c = REPZ_3_10 THEN 1 ELSE 0
    [] OTHER -> IF c = REPZ_11_138 THEN 1 ELSE 0

Item(c, v) == [c |-> c, v |-> v, n |-> extra_blbits(c)]

\* Mutant: the first of a repeated length is sent and counted as repeated, too.
RunItemsTwice ==
  CASE Count < r.min -> [i \in 1 .. Count |-> Item(Cur, 0)]
    [] Count >= r.min /\ Cur # 0 ->
         (IF Cur # r.prevlen THEN <<Item(Cur, 0)>> ELSE <<>>) \o <<Item(REP_3_6, Count - 3)>>
    [] Count >= r.min /\ Cur = 0 /\ Count <= 10 -> <<Item(REPZ_3_10, Count - 3)>>
    [] OTHER -> <<Item(REPZ_11_138, Count - 11)>>

\* What send_tree sends for a run.
RunItems ==
  CASE Count < r.min -> [i \in 1 .. Count |-> Item(Cur, 0)]
    [] Count >= r.min /\ Cur # 0 ->
         IF Cur # r.prevlen THEN <<Item(Cur, 0), Item(REP_3_6, Count - 4)>>
         ELSE <<Item(REP_3_6, Count - 3)>>
    [] Count >= r.min /\ Cur = 0 /\ Count <= 10 -> <<Item(REPZ_3_10, Count - 3)>>
    [] OTHER -> <<Item(REPZ_11_138, Count - 11)>>

More == r.n < Len(Tree)
ToDist == which = "lit" /\ which' = "dist" /\ r' = Start(dist)

Scan ==
  /\ pc = "scan" /\ More
  /\ IF RunOn THEN r' = [r EXCEPT !.n = @ + 1, !.count = Count] /\ UNCHANGED blfreq
     ELSE r' = Restart /\ blfreq' = [c \in BlSymbols |-> blfreq[c] + RunFreq(c)]
  /\ UNCHANGED <<pc, lit, dist, END_BLOCK, which, bllen, max_blindex, opt_len, sent, sentbits, rbl, lens, pos>>

ScanNext ==
  /\ pc = "scan" /\ ~More
  /\ \/ ToDist /\ UNCHANGED pc
     \/ which = "dist" /\ pc' = "bl" /\ UNCHANGED <<which, r>>
  /\ UNCHANGED <<lit, dist, END_BLOCK, blfreq, bllen, max_blindex, opt_len, sent, sentbits, rbl, lens, pos>>

-----------------------------------------------------------------------------
(* build_bl_tree and send_all_trees.                                       *)

UsedBl == {c \in BlSymbols : blfreq[c] # 0}

\* build_tree gives a code to two symbols at least.
CodedBl ==
  IF Cardinality(UsedBl) >= 2 THEN UsedBl
  ELSE UsedBl \cup {IF Max(UsedBl) < 2 THEN Max(UsedBl) + 1 ELSE 0}

\* What build_tree makes of them, abstracted: a complete code for the symbols in
\* use within 7 bits (HuffTree shows that it is one).  Two such codes stand for
\* it, the short ones at either end; which one it is does not matter below.
BlLengths ==
  LET k == Cardinality(CodedBl)
      e == Min({x \in 0 .. 7 : 2 ^ x >= k})
      Rank(c) == Cardinality({x \in CodedBl : x < c})
      Code(short) == [c \in BlSymbols |->
                        IF c \notin CodedBl THEN 0 ELSE IF Rank(c) \in short THEN e - 1 ELSE e]
      d == 2 ^ e - k
  IN {Code(0 .. d - 1), Code(k - d .. k - 1)}

\* Mutant: the last one is missed.
LastRankMissed(b) == Max({i \in 2 .. BL_CODES - 2 : i = 2 \/ b[bl_order[i + 2]] # 0})

\* The last rank of bl_order with a code; three ranks are sent in any case.
LastRank(b) == Max({i \in 2 .. BL_CODES - 1 : i = 2 \/ b[bl_order[i + 1]] # 0})

BuildBl ==
  /\ pc = "bl"
  /\ \E b \in BlLengths :
       /\ bllen' = b /\ max_blindex' = LastRank(b)
       /\ opt_len' = opt_len + MapThenSumSet(LAMBDA c : blfreq[c] * (b[c] + extra_blbits(c)), BlSymbols)
                     + 3 * (LastRank(b) + 1) + 5 + 5 + 4
  /\ pc' = "counts"
  /\ UNCHANGED <<lit, dist, END_BLOCK, which, r, blfreq, sent, sentbits, rbl, lens, pos>>

\* The counts, and the lengths of the code; inflate() takes the ones that are
\* not sent for 0 (TABLE, LENLENS).
SendCounts ==
  /\ pc = "counts"
  /\ sentbits' = sentbits + 5 + 5 + 4 + 3 * (max_blindex + 1)
  /\ rbl' = [c \in BlSymbols |->
               IF \E i \in 1 .. max_blindex + 1 : bl_order[i] = c THEN bllen[c] ELSE 0]
  /\ which' = "lit" /\ r' = Start(lit)
  /\ pc' = "send"
  /\ UNCHANGED <<lit, dist, END_BLOCK, blfreq, bllen, max_blindex, opt_len, sent, lens, pos>>

BitsOf(items) ==
  MapThenSumSet(LAMBDA i : bllen[items[i].c] + items[i].n, DOMAIN items)

\* The counts as inflate() reads them from the 5 bits each is sent in (TABLE).
Nlen == END_BLOCK + 1 + ((Len(lit) - (END_BLOCK + 1)) % 32)
Ndist == 1 + ((Len(dist) - 1) % 32)

\* inflate_table(CODES) refuses a code that is not complete (LENLENS).
Refused ==
  LET used == {c \in BlSymbols : rbl[c] # 0}
  IN  used # {} /\ MapThenSumSet(LAMBDA c : 2 ^ (7 - rbl[c]), used) # 2 ^ 7

Send ==
  /\ pc = "send" /\ More
  /\ IF RunOn THEN r' = [r EXCEPT !.n = @ + 1, !.count = Count] /\ UNCHANGED <<sent, sentbits>>
     ELSE r' = Restart /\ sent' = sent \o RunItems /\ sentbits' = sentbits + BitsOf(RunItems)
  /\ UNCHANGED <<pc, lit, dist, END_BLOCK, which, blfreq, bllen, max_blindex, opt_len, rbl, lens, pos>>

SendNext ==
  /\ pc = "send" /\ ~More
  /\ \/ ToDist /\ UNCHANGED pc
     \/ /\ which = "dist" /\ UNCHANGED <<which, r>>
        /\ pc' = IF Nlen > L_CODES \/ Ndist > D_CODES \/ Refused THEN "BAD" ELSE "receive"
  /\ UNCHANGED <<lit, dist, END_BLOCK, blfreq, bllen, max_blindex, opt_len, sent, sentbits, rbl, lens, pos>>

-----------------------------------------------------------------------------
(* CODELENS.                                                               *)

Total == Nlen + Ndist

\* The lengths a code stands for.
Run(it) ==
  CASE it.c < 16 -> <<it.c>>
    [] it.c = REP_3_6 -> [i \in 1 .. 3 + it.v |-> IF lens = <<>> THEN 0 ELSE lens[Len(lens)]]
    [] it.c = REPZ_3_10 -> [i \in 1 .. 3 + it.v |-> 0]
    [] OTHER -> [i \in 1 .. 11 + it.v |-> 0]

\* A code that is not there, a repeat of nothing, a run over the end.
Invalid(it) ==
  \/ rbl[it.c] = 0
  \/ it.c = REP_3_6 /\ lens = <<>>
  \/ it.c >= 16 /\ Len(lens) + Len(Run(it)) > Total

Receive ==
  /\ pc = "receive" /\ Len(lens) < Total /\ pos <= Len(sent)
  /\ pos' = pos + 1
  /\ IF Invalid(sent[pos]) THEN pc' = "BAD" /\ UNCHANGED lens
     ELSE lens' = lens \o Run(sent[pos]) /\ UNCHANGED pc
  /\ UNCHANGED <<lit, dist, END_BLOCK, which, r, blfreq, bllen, max_blindex, opt_len, sent, sentbits, rbl>>

\* All lengths are there; there has to be an end of block code.
Received ==
  /\ pc = "receive" /\ Len(lens) >= Total
  /\ pc' = IF lens[END_BLOCK + 1] = 0 THEN "BAD" ELSE "end"
  /\ UNCHANGED <<lit, dist, END_BLOCK, which, r, blfreq, bllen, max_blindex, opt_len, sent, sentbits, rbl,
                 lens, pos>>

Next == Scan \/ ScanNext \/ BuildBl \/ SendCounts \/ Send \/ SendNext \/ Receive \/ Received

-----------------------------------------------------------------------------
(* Properties.                                                             *)

\* The state stays within its types.
TypeOK ==
  /\ r.n \in 0 .. Len(Tree) /\ r.count \in 0 .. r.max - 1 /\ pos \in 1 .. Len(sent) + 1
  /\ blfreq \in [BlSymbols -> Nat] /\ rbl \in [BlSymbols -> 0 .. 7]

\* trees.c:775, inflate.c:997: the decompressor reads exactly the lengths the
\* compressor has, all that was sent and nothing more, and never an error.
LengthsArrive ==
  /\ pc # "BAD"
  /\ pc = "end" => lens = lit \o dist /\ pos = Len(sent) + 1

\* trees.c:721, 766: scan_tree counts every code as often as send_tree sends
\* it, so that each of them has a code.
ScanMatchesSend ==
  pc = "receive" =>
    \A c \in BlSymbols : blfreq[c] = Cardinality({i \in DOMAIN sent : sent[i].c = c})

\* trees.c:775, "Assert(count >= 3 && count <= 6, " 3_6?")": every repeat count
\* fits in its extra bits.
ExtraFits == \A i \in DOMAIN sent : sent[i].v \in 0 .. 2 ^ sent[i].n - 1

\* trees.c:822: the length computed for the header, by which the kind of block
\* is chosen, is the length it really has.
HeaderLenExact == pc \in {"receive", "end"} => opt_len = sentbits

=============================================================================
