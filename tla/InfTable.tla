------------------------------ MODULE InfTable ------------------------------
(***************************************************************************)
(* inflate_table of the zlib copy AWS builds (include/zlib/inftrees.c):    *)
(* from code lengths to the decoding table, a root table with links to     *)
(* sub-tables for the codes that are longer than its index; and how        *)
(* inflate() looks a code up in it.  One step is one code.                 *)
(***************************************************************************)
EXTENDS CanonCode

CONSTANTS
  MAXBITS,    \* longest code
  Asked,      \* <<type, symbols, root table bits>> of the calls
  END_BLOCK,  \* the end of block symbol of a LENS code
  LAST,       \* the last length and distance symbols with a meaning
  ENOUGH      \* entries there is space for, per type

VARIABLES
  pc,
  type,      \* CODES, LENS or DISTS
  lens, bits,
  count,     \* codes of each length still to be entered
  work,      \* the symbols with a code, sorted
  table,     \* the entries written
  ret,
  v          \* max, root, huff, sym, len, next, curr, drop, low, used

vars == <<pc, type, lens, bits, count, work, table, ret, v>>

\* An entry: the kind of op, its number (sub-table bits), bits and val.
Entry(op, n, b, val) == [op |-> op, n |-> n, bits |-> b, val |-> val]

\* A call for a table of type t with root bits b.
Begin(t, b, ls) ==
  /\ type = t /\ bits = b /\ lens = ls
  /\ count = [len \in 0 .. MAXBITS |-> 0]
  /\ work = <<>> /\ table = <<>> /\ ret = "none"
  /\ v = [max |-> 0, root |-> 0, huff |-> 0, sym |-> 0, len |-> 0, next |-> 0, curr |-> 0,
          drop |-> 0, low |-> -1, used |-> 0]

Init == \E a \in Asked : \E ls \in [0 .. a[2] - 1 -> 0 .. MAXBITS] :
          pc = "count" /\ Begin(a[1], a[3], ls)

\* No table is being built.
Idle == pc = "idle" /\ Begin("CODES", 1, <<>>)

-----------------------------------------------------------------------------
(* Counting and checking.                                                  *)

Counted == [len \in 0 .. MAXBITS |-> Cardinality({s \in DOMAIN lens : lens[s] = len})]
Longest(c) == Max({len \in 0 .. MAXBITS : len = 0 \/ c[len] # 0})
Shortest(c) == Min({len \in 1 .. MAXBITS : len = Longest(c) \/ c[len] # 0})

\* What is left of the code space after each length.
Left(c) ==
  LET left[len \in 0 .. MAXBITS] == IF len = 0 THEN 1 ELSE 2 * left[len - 1] - c[len]
  IN  left

\* Mutant: an incomplete set is accepted for any type of code.
RejectedOver(c) == \E len \in 1 .. MAXBITS : Left(c)[len] < 0

\* Over-subscribed, or incomplete except for a single code of one bit.
Rejected(c) ==
  \/ \E len \in 1 .. MAXBITS : Left(c)[len] < 0
  \/ Left(c)[MAXBITS] > 0 /\ (type = "CODES" \/ Longest(c) # 1)

\* The root table is within the code lengths.
RootBits(c) ==
  LET most == IF bits > Longest(c) THEN Longest(c) ELSE bits
  IN  IF most < Shortest(c) THEN Shortest(c) ELSE most

\* Mutant: the space is not checked.
EnoughAlways(n) == TRUE

\* There is space only for so many entries.
Enough(n) == type # "CODES" => n <= ENOUGH

\* No symbols at all: a table of two entries that makes decoding fail.
CountNone ==
  /\ pc = "count" /\ Longest(Counted) = 0
  /\ table' = [i \in 0 .. 1 |-> Entry("invalid", 0, 1, 0)]
  /\ bits' = 1 /\ ret' = "0" /\ pc' = "done"
  /\ v' = [v EXCEPT !.used = 2]
  /\ UNCHANGED <<type, lens, count, work>>

CountRejected ==
  /\ pc = "count" /\ Longest(Counted) # 0
  /\ \/ Rejected(Counted) /\ ret' = "-1"
     \/ ~Rejected(Counted) /\ ~Enough(2 ^ RootBits(Counted)) /\ ret' = "1"
  /\ pc' = "done"
  /\ UNCHANGED <<type, lens, bits, count, work, table, v>>

\* The symbol with i others before it, by length and in order within one length.
SortedAt(i) ==
  CHOOSE s \in Used(lens) : Cardinality({t \in Used(lens) : Earlier(lens, t, s)}) = i

CountOk ==
  /\ pc = "count" /\ Longest(Counted) # 0
  /\ ~Rejected(Counted) /\ Enough(2 ^ RootBits(Counted))
  /\ count' = Counted
  /\ work' = [i \in 0 .. Cardinality(Used(lens)) - 1 |-> SortedAt(i)]
  /\ \E root \in {RootBits(Counted)} :
       v' = [v EXCEPT !.max = Longest(Counted), !.root = root, !.len = Shortest(Counted),
                      !.curr = root, !.used = 2 ^ root]
  /\ pc' = "enter"
  /\ UNCHANGED <<type, lens, bits, table, ret>>

-----------------------------------------------------------------------------
(* Entering the codes.                                                     *)

\* What the entry of a symbol says, with b bits to drop.
Here(s, b) ==
  CASE type = "CODES" \/ (type = "LENS" /\ s < END_BLOCK) -> Entry("literal", 0, b, s)
    [] type = "LENS" /\ s = END_BLOCK -> Entry("end", 0, b, 0)
    [] OTHER -> LET i == IF type = "LENS" THEN s - END_BLOCK - 1 ELSE s
                IN  Entry(IF i > LAST THEN "invalid" ELSE "base", 0, b, i)

\* Writes over table: entries e at the positions S.
Write(t, S, e) == [i \in DOMAIN t \cup S |-> IF i \in S THEN e ELSE t[i]]

\* Mutant: only one entry, not one for every value of the bits behind the code.
PlacesOne == {v.next + v.huff \div 2 ^ v.drop}

\* Where a code goes: all indices of the current table that end in it.
Places == {v.next + v.huff \div 2 ^ v.drop + k * 2 ^ (v.len - v.drop) :
             k \in 0 .. 2 ^ (v.curr - (v.len - v.drop)) - 1}

\* Mutant: the code is incremented at its other end.
BackwardsForward(huff, len) == (huff + 1) % 2 ^ len

\* The code after huff, incremented from its last bit, which is the highest.
Backwards(huff, len) ==
  LET zeros == {i \in 0 .. len - 1 : Bit(huff, i) = 0}
  IN  IF zeros = {} THEN 0 ELSE (huff % (2 ^ Max(zeros))) + 2 ^ Max(zeros)

\* The index bits of the next sub-table: enough for all codes that may be in it.
SubBits(c, len) ==
  LET left[b \in len - v.root .. v.max - v.root] ==
        (IF b = len - v.root THEN 2 ^ b ELSE 2 * left[b - 1]) - c[b + v.root]
      ends == {b \in len - v.root .. v.max - v.root : b + v.root = v.max \/ left[b] <= 0}
  IN  Min(ends)

Enter ==
  /\ pc = "enter"
  /\ \E written \in {Write(table, Places, Here(work[v.sym], v.len - v.drop))},
        huff \in {Backwards(v.huff, v.len)},
        c \in {[count EXCEPT ![v.len] = @ - 1]} :
       /\ count' = c
       /\ IF c[v.len] = 0 /\ v.len = v.max
          THEN /\ table' = written /\ pc' = "rest" /\ ret' = ret
               /\ v' = [v EXCEPT !.huff = huff, !.sym = @ + 1]
          ELSE LET len == IF c[v.len] = 0 THEN lens[work[v.sym + 1]] ELSE v.len
                   low == huff % 2 ^ v.root
                   sub == SubBits(c, len)
                   next == v.next + 2 ^ v.curr
                   u == [v EXCEPT !.huff = huff, !.sym = @ + 1, !.len = len]
               IN  IF len > v.root /\ low # v.low
                   THEN LET used == v.used + 2 ^ sub IN
                        /\ v' = [u EXCEPT !.drop = v.root, !.next = next, !.curr = sub,
                                          !.used = used, !.low = IF Enough(used) THEN low ELSE @]
                        /\ IF Enough(used)
                           THEN /\ table' = Write(written, {low},
                                                  Entry("sub", sub, v.root, next))
                                /\ UNCHANGED <<pc, ret>>
                           ELSE table' = written /\ pc' = "done" /\ ret' = "1"
                   ELSE v' = u /\ table' = written /\ UNCHANGED <<pc, ret>>
  /\ UNCHANGED <<type, lens, bits, work>>

\* The one entry that is left when the code is incomplete.
Rest ==
  /\ pc = "rest"
  /\ table' = IF v.huff = 0 THEN table
              ELSE Write(table, {v.next + v.huff}, Entry("invalid", 0, v.len - v.drop, 0))
  /\ bits' = v.root /\ ret' = "0" /\ pc' = "done"
  /\ UNCHANGED <<type, lens, count, work, v>>

Next == CountNone \/ CountRejected \/ CountOk \/ Enter \/ Rest

-----------------------------------------------------------------------------
(* Properties.                                                             *)

\* How inflate() looks up the code in front of the bits w.
Lookup(w) ==
  LET at(i) == IF i \in DOMAIN table THEN table[i] ELSE Entry("unset", 0, 0, 0)
      root == at(w % 2 ^ bits)
      sub == at(root.val + ((w \div 2 ^ root.bits) % 2 ^ root.n))
  IN  IF root.op = "sub" THEN [sub EXCEPT !.bits = @ + root.bits] ELSE root

Done == pc = "done"
Words == 0 .. 2 ^ MAXBITS - 1

\* The symbol whose code is in front of w, by the definition of the format.
Fits(s, w) == w % 2 ^ lens[s] = Mirror(CanonValue(lens, s), lens[s])

\* The state stays within its types.
TypeOK ==
  /\ pc \in {"idle", "count", "enter", "rest", "done"} /\ ret \in {"none", "0", "-1", "1"}
  /\ \A len \in 0 .. MAXBITS : count[len] >= 0
  /\ v.huff \in Words /\ v.sym \in 0 .. Cardinality(DOMAIN lens)

\* inftrees.c:21: the table decodes what the format says: every code gives its
\* symbol and its length, every other word an error.
TableDecodes ==
  Done /\ ret = "0" =>
    \A w \in Words : LET e == Lookup(w) IN
      IF \E s \in Used(lens) : Fits(s, w)
      THEN LET s == CHOOSE s \in Used(lens) : Fits(s, w) IN e = Here(s, lens[s])
      ELSE e.op = "invalid"

\* inftrees.c:131: exactly the sets that leave no word without a code and give
\* no word two codes are accepted, besides a single code or none at all.
AcceptsExactly ==
  Done => (ret = "-1" <=>
             /\ Used(lens) # {} /\ Space(lens, MAXBITS) # 2 ^ MAXBITS
             /\ ~(type # "CODES" /\ Space(lens, MAXBITS) < 2 ^ MAXBITS
                  /\ \A s \in Used(lens) : lens[s] = 1))

\* inftrees.c:208, 277: nothing is written outside the space there is for the
\* table, nor outside the entries that are counted as used.
TableInSpace ==
  \A i \in DOMAIN table : i < v.used /\ (type # "CODES" => i < ENOUGH)

=============================================================================
