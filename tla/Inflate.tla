------------------------------- MODULE Inflate -------------------------------
(***************************************************************************)
(* The decompressor of the zlib copy AWS builds (include/zlib/inflate.c,   *)
(* inffast.c, inflate.h): one inflate stream, fed with input and room in   *)
(* pieces of any size.                                                     *)
(*                                                                         *)
(* A compressed stream is a sequence of elements (headers, block types,    *)
(* codes, extra bits, stored bytes, check values), each of so many bits:   *)
(* its layout says which element starts at which bit.  The values of the   *)
(* bits are left out, their number is not: every NEEDBITS, PULLBYTE,       *)
(* DROPBITS and BYTEBITS of the code is there, and a decoder that loses a  *)
(* bit finds no element where it looks.  Output bytes are values; the      *)
(* literals of a stream are all different, so every copy can be followed.  *)
(***************************************************************************)
EXTENDS Integers, Sequences, SequencesExt

CONSTANTS
  Dictionary, \* the preset dictionary the application has
  WSIZE,      \* 1 << wbits
  MAXLEN,     \* longest match
  Uses,       \* ways an application uses a stream, by name
  Streams     \* the streams for each of them, as Prepared below

VARIABLES
  stream,  \* the stream that is decoded
  z,       \* inflate_state and z_stream
  pc,      \* where the call is
  loc,     \* its locals
  ret,     \* what the last call returned
  app      \* how the application uses the stream, and its bounded calls so far

vars == <<stream, z, pc, loc, ret, app>>

Wraps == Uses[app.use].wraps        \* what inflateInit2 is asked for
Flushes == Uses[app.use].flushes    \* flush values of the application
InSizes == Uses[app.use].inSizes    \* bytes it adds
OutSizes == Uses[app.use].outSizes  \* room it makes
Others == Uses[app.use].others      \* the other functions it calls
MaxCalls == Uses[app.use].maxCalls  \* bound on those calls

ASSUME SizesAssumption ==
  /\ WSIZE \in Nat /\ WSIZE > 0
  /\ MAXLEN \in Nat /\ MAXLEN >= 3
  /\ Dictionary \in Seq(Nat) /\ Dictionary # <<>>
  /\ \A u \in DOMAIN Uses :
       /\ \A w \in Uses[u].wraps : w \subseteq {"zlib", "gzip", "validate"}
       /\ Uses[u].inSizes \subseteq Nat /\ Uses[u].outSizes \subseteq Nat

\* What the deflate format says of the element at bit p of a stream s, damaged
\* or not: codes have at most 15 bits (7, with 7 extra bits, those of the code
\* lengths), a length has at most 5 extra bits and a distance 13, a match is no
\* longer than MAXLEN, and so many bytes follow the length of a stored block.
Format(s, p) ==
  LET e == s.at[p]
      After(n) == s.at[p + n].v
      Known(n) == p + n \in DOMAIN s.at
  IN  /\ e.n \in Nat
      /\ e.k \in {"lit", "len", "eob", "dist"} => e.n <= 15
      /\ e.k \in {"lit", "sbyte", "exlen", "slen", "lext", "dext"} => e.v \in Nat
      /\ e.k = "lens" => e.n <= 14 /\ e.x \in 0 .. e.n
      /\ e.k = "len" => /\ e.x \in 0 .. 5 /\ e.v \in 0 .. MAXLEN
                        /\ e.x > 0 /\ Known(e.n) => After(e.n) \in 0 .. MAXLEN - e.v
      /\ e.k = "dist" => /\ e.x \in 0 .. 13 /\ e.v \in Nat \ {0}
                         /\ e.x > 0 /\ Known(e.n) => After(e.n) \in Nat
      /\ e.k = "slen" => \A i \in 0 .. e.v - 1 :
                           Known(32 + 8 * i) => After(32 + 8 * i) \in Nat

ASSUME StreamsAssumption ==
  \A u \in DOMAIN Uses : \A s \in Streams[u] :
    s.bytes \in Nat /\ \A p \in DOMAIN s.at : Format(s, p)

MIN(a, b) == IF a > b THEN b ELSE a
Uninit == -1

NoLocals == [flush |-> "NO_FLUSH", in |-> 0, out |-> 0, ret |-> "OK",
             last |-> 0, end |-> 0]

HeaderModes == {"HEAD", "FLAGS", "TIME", "OS", "EXLEN", "EXTRA", "NAME", "COMMENT",
                "HCRC", "DICTID", "DICT"}
BlockModes == {"TYPE", "TYPEDO", "STORED", "COPY_", "COPY", "TABLE", "LENLENS",
               "CODELENS", "LEN_", "LEN", "LENEXT", "DIST", "DISTEXT", "MATCH", "LIT"}
EndModes == {"CHECK", "LENGTH", "DONE"}
Modes == HeaderModes \cup BlockModes \cup EndModes \cup {"BAD", "SYNC", "LOST", "freed"}

-----------------------------------------------------------------------------
(* A stream and what it stands for.                                        *)

\* An element may have to start at a byte boundary.
RoundUp(p) == 8 * ((p + 7) \div 8)

\* Every element with the bit it starts at.
Layout(elems) ==
  LET Place(acc, e) ==
        LET p == IF e.k \in {"slen", "check"} THEN RoundUp(acc.end) ELSE acc.end
        IN  [at |-> Append(acc.at, <<p, e>>), end |-> p + e.n]
      placed[i \in 0 .. Len(elems)] ==
        IF i = 0 THEN [at |-> <<>>, end |-> 0] ELSE Place(placed[i - 1], elems[i])
  IN  placed[Len(elems)]

\* The n bytes that lie dist back, the copy overlapping itself if need be.
Back(h, dist, n) == [i \in 1 .. n |-> h[Len(h) - dist + 1 + ((i - 1) % dist)]]

\* What the elements decode to, one after the other, until one is invalid.
RefStep(r, e) ==
  CASE ~r.ok -> r
    [] r.ok /\ ~e.ok -> [r EXCEPT !.ok = FALSE]
    [] r.ok /\ e.ok /\ e.k \in {"lit", "sbyte"} -> [r EXCEPT !.h = Append(@, e.v)]
    [] r.ok /\ e.ok /\ e.k = "len" -> [r EXCEPT !.len = e.v]
    [] r.ok /\ e.ok /\ e.k = "lext" -> [r EXCEPT !.len = @ + e.v]
    [] r.ok /\ e.ok /\ e.k = "dist" -> [r EXCEPT !.dist = e.v]
    [] OTHER -> r

\* A distance is complete when its extra bits, if any, have been added.
RefDist(r, e) ==
  LET s == RefStep(r, e)
      d == IF e.k = "dext" THEN r.dist + e.v ELSE s.dist
      now == s.ok /\ (e.k = "dext" \/ (e.k = "dist" /\ e.x = 0))
  IN  CASE ~now -> s
        [] now /\ d > Len(s.h) -> [s EXCEPT !.ok = FALSE]
        [] OTHER -> [s EXCEPT !.h = @ \o Back(@, d, s.len), !.dist = 0]

Reference(elems) ==
  LET dict == \E i \in DOMAIN elems : elems[i].k = "dictid"
      after[i \in 0 .. Len(elems)] ==
        IF i = 0 THEN [h |-> IF dict THEN Dictionary ELSE <<>>, ok |-> TRUE, len |-> 0, dist |-> 0]
        ELSE RefDist(after[i - 1], elems[i])
  IN  after[Len(elems)]

\* The marker of a flush: the lengths of an empty stored block, or bytes that
\* look so (element "mark", after byte v).
Pattern == <<0, 0, 255, 255>>
MarkerByte(lay, b) ==
  LET kind(k) == {lay.at[i] : i \in {j \in DOMAIN lay.at : lay.at[j][2].k = k}}
      marks == {pe[1] \div 8 : pe \in {q \in kind("slen") : q[2].v = 0}}
               \cup {pe[2].v : pe \in kind("mark")}
      in == {p \in marks : b - p \in 1 .. 4}
  IN  IF in = {} THEN 1 ELSE Pattern[b - CHOOSE p \in in : TRUE]

\* What is known of a stream: its bytes, the element at each bit, the output
\* before each block, the output of all, whether all of it is valid.
Prepared(elems) ==
  LET lay == Layout(elems)
      real == {i \in DOMAIN elems : elems[i].n > 0}
      n == RoundUp(lay.end) \div 8
      r == Reference(elems)
      dict == \E i \in DOMAIN elems : elems[i].k = "dictid"
      h0 == IF dict THEN Len(Dictionary) ELSE 0
      nth(p) == CHOOSE i \in real : lay.at[i][1] = p
      starts == {i \in real : elems[i].k = "type"}
  IN  [bytes |-> n,
       at |-> [p \in {lay.at[i][1] : i \in real} |-> elems[nth(p)]],
       marker |-> [b \in 1 .. n |-> MarkerByte(lay, b)],
       done |-> [p \in {lay.at[i][1] : i \in starts} |->
                   Len(Reference(SubSeq(elems, 1, nth(p) - 1)).h) - h0],
       out |-> SubSeq(r.h, h0 + 1, Len(r.h)), ok |-> r.ok, dict |-> dict]

-----------------------------------------------------------------------------
(* The bit accumulator.                                                    *)

\* The bit the decoder looks at.
Pos(t) == 8 * t.next - t.bits

NoElement == [k |-> "none", n |-> 0, ok |-> FALSE, v |-> 0, x |-> 0]
Here(t) == IF Pos(t) \in DOMAIN stream.at THEN stream.at[Pos(t)] ELSE NoElement

PULLBYTES(t, n) == [t EXCEPT !.next = @ + n, !.avail_in = @ - n, !.bits = @ + 8 * n]
DROPBITS(t, n) == [t EXCEPT !.bits = @ - n]
BYTEBITS(t) == [t EXCEPT !.bits = @ - (@ % 8)]
INITBITS(t) == [t EXCEPT !.bits = 0]

\* The call ends with this code; inf_leave is next.
Leave(t, code) ==
  /\ z' = t
  /\ loc' = [loc EXCEPT !.ret = code]
  /\ pc' = "leave"

Stay(t) == z' = t /\ pc' = "loop" /\ UNCHANGED loc

Mode(t, m) == Stay([t EXCEPT !.mode = m])

\* What is taken for a code is looked up in 15 bits at most.
CodeBits(e) == MIN(e.n, 15)

\* How many bits the mode asks for before it does anything.
Wanted(t) ==
  CASE t.mode \in {"FLAGS", "OS"} -> 16
    [] t.mode \in {"TIME", "DICTID", "STORED"} -> 32
    [] t.mode = "HEAD" -> IF t.wrap = {} THEN 0 ELSE 16
    [] t.mode = "EXLEN" -> IF t.flags.extra THEN 16 ELSE 0
    [] t.mode = "HCRC" -> IF t.flags.hcrc THEN 16 ELSE 0
    [] t.mode = "TYPEDO" -> IF t.last THEN 0 ELSE 3
    [] t.mode = "TABLE" -> 14
    [] t.mode = "LENLENS" -> 3
    [] t.mode \in {"CODELENS", "LEN", "DIST"} -> CodeBits(Here(t))
    [] t.mode \in {"LENEXT", "DISTEXT"} -> t.extra
    [] t.mode = "CHECK" -> IF t.wrap = {} THEN 0 ELSE 32
    [] t.mode = "LENGTH" -> IF t.wrap # {} /\ t.flags.gz THEN 32 ELSE 0
    [] OTHER -> 0

\* What the encoder must have put there.
Kinds ==
  [HEAD |-> {"head"}, FLAGS |-> {"flags"}, TIME |-> {"time"}, OS |-> {"os"},
   EXLEN |-> {"exlen"}, HCRC |-> {"hcrc"}, DICTID |-> {"dictid"}, TYPEDO |-> {"type"},
   STORED |-> {"slen"}, TABLE |-> {"table"}, LENLENS |-> {"clen"}, CODELENS |-> {"lens"},
   LEN |-> {"lit", "len", "eob"}, LENEXT |-> {"lext"}, DIST |-> {"dist"},
   DISTEXT |-> {"dext"}, CHECK |-> {"check"}, LENGTH |-> {"length"}]

\* A stored block starts at a byte boundary.
Aligned(t) == IF t.mode = "STORED" THEN BYTEBITS(t) ELSE t

BytesWanted(t) == IF t.bits >= Wanted(t) THEN 0 ELSE (Wanted(t) - t.bits + 7) \div 8

\* The accumulator with the bits the mode asks for.
Filled(t) == PULLBYTES(Aligned(t), BytesWanted(Aligned(t)))
Enough(t) == BytesWanted(Aligned(t)) <= t.avail_in

In(m) == pc = "loop" /\ z.mode = m /\ UNCHANGED <<stream, ret, app>>

\* Does the mode look at the input at all?
Looks(t) == Wanted(t) > 0 \/ t.mode \in {"CODELENS", "LEN", "DIST"}

\* Mutant: one byte too few.
FastPossibleShort(t) == t.avail_in >= 5 /\ t.avail_out >= MAXLEN

\* Is there enough of both for inflate_fast?
FastPossible(t) == t.avail_in >= 6 /\ t.avail_out >= MAXLEN

\* Mutant: what was pulled is forgotten.
PullAllForgets(t) == [PULLBYTES(t, t.avail_in) EXCEPT !.bits = t.bits]

\* NEEDBITS without enough input: what there is stays in the accumulator.
PullAll(t) == PULLBYTES(t, t.avail_in)

Starve ==
  /\ pc = "loop" /\ ~Enough(z)
  /\ Leave(PullAll(Aligned(z)), "OK")
  /\ UNCHANGED <<stream, ret, app>>

\* The bits are not what the encoder wrote as one element.
Astray(e) ==
  /\ Looks(z) /\ e.k \notin Kinds[z.mode]
  /\ Mode(z, "LOST")
  /\ UNCHANGED <<stream, ret, app>>

validate == "validate" \in z.wrap

\* CRC2, CRC4: the check value takes in the last n bytes of input.
CRC(t, n) == [t EXCEPT !.check = @ \o [i \in 1 .. n |-> t.next - n + i]]
HeadCRC(t, n) == IF t.flags.hcrc /\ "validate" \in t.wrap THEN CRC(t, n) ELSE t

-----------------------------------------------------------------------------
(* Headers.                                                                *)

NoFlags == [gz |-> FALSE, hcrc |-> FALSE, extra |-> FALSE, name |-> FALSE,
            comment |-> FALSE]

HeadMode(f, e) ==
  /\ In("HEAD")
  /\ CASE z.wrap = {} -> Mode(z, "TYPEDO")
       [] z.wrap # {} /\ e.v = "gzip" /\ "gzip" \in z.wrap ->
            Mode(INITBITS(CRC([f EXCEPT !.check = <<>>], 2)), "FLAGS")
       [] z.wrap # {} /\ e.v # "gzip" /\ "zlib" \in z.wrap /\ e.ok ->
            Mode(INITBITS([f EXCEPT !.flags = NoFlags, !.check = <<>>]),
                 IF e.v = "zlibdict" THEN "DICTID" ELSE "TYPE")
       [] OTHER -> Mode([f EXCEPT !.flags = NoFlags], "BAD")

Flags(f, e) ==
  /\ In("FLAGS")
  /\ LET t == [f EXCEPT !.flags = e.v]
     IN  IF e.ok THEN Mode(INITBITS(HeadCRC(t, 2)), "TIME")
         ELSE Mode(t, "BAD")

Time(f, e) ==
  /\ In("TIME")
  /\ Mode(INITBITS(HeadCRC(f, 4)), "OS")

Os(f, e) ==
  /\ In("OS")
  /\ Mode(INITBITS(HeadCRC(f, 2)), "EXLEN")

Exlen(f, e) ==
  /\ In("EXLEN")
  /\ Mode(IF z.flags.extra
          THEN INITBITS(HeadCRC([f EXCEPT !.length = e.v], 2))
          ELSE z, "EXTRA")

\* Mutant: only what comes through the accumulator enters the check value.
HeadBytesUnchecked(n) == [z EXCEPT !.next = @ + n, !.avail_in = @ - n]

\* Take n whole bytes of the header straight from the input.
HeadBytes(n) == HeadCRC([z EXCEPT !.next = @ + n, !.avail_in = @ - n], n)

Extra ==
  /\ In("EXTRA")
  /\ LET copy == MIN(z.length, z.avail_in)
         t == [HeadBytes(copy) EXCEPT !.length = @ - copy]
     IN  IF z.flags.extra /\ z.length > copy THEN Leave(t, "OK")
         ELSE Mode(IF z.flags.extra THEN [t EXCEPT !.length = 0]
                   ELSE [z EXCEPT !.length = 0], "NAME")

\* A string of the header ends with the first zero byte, element "nul".
HeadString(next) ==
  LET ends == {i \in 1 .. z.avail_in :
                 8 * (z.next + i - 1) \in DOMAIN stream.at
                 /\ stream.at[8 * (z.next + i - 1)].k = "nul"}
      copy == IF ends = {} THEN z.avail_in
              ELSE CHOOSE i \in ends : \A j \in ends : i <= j
  IN  IF ends = {} THEN Leave(HeadBytes(copy), "OK") ELSE Mode(HeadBytes(copy), next)

Name ==
  /\ In("NAME")
  /\ IF z.flags.name THEN HeadString("COMMENT") ELSE Mode(z, "COMMENT")

Comment ==
  /\ In("COMMENT")
  /\ IF z.flags.comment THEN HeadString("HCRC") ELSE Mode(z, "HCRC")

\* The check value of the header is right when it covers all of it.
Hcrc(f, e) ==
  /\ In("HCRC")
  /\ IF z.flags.hcrc /\ validate /\ ~(e.ok /\ f.check = [i \in 1 .. f.next - 2 |-> i])
     THEN Mode(f, "BAD")
     ELSE Mode([(IF z.flags.hcrc THEN INITBITS(f) ELSE z) EXCEPT !.check = <<>>], "TYPE")

Dictid(f, e) ==
  /\ In("DICTID")
  /\ Mode(INITBITS([f EXCEPT !.check = e.v]), "DICT")

\* Without a dictionary inflate returns at once, not through inf_leave.
Dict ==
  /\ In("DICT") /\ z.havedict
  /\ Mode([z EXCEPT !.check = <<>>], "TYPE")

NeedDict ==
  /\ pc = "loop" /\ z.mode = "DICT" /\ ~z.havedict
  /\ pc' = "idle" /\ ret' = "NEED_DICT" /\ loc' = NoLocals
  /\ UNCHANGED <<stream, z, app>>

-----------------------------------------------------------------------------
(* Blocks.                                                                 *)

Type ==
  /\ In("TYPE")
  /\ IF loc.flush \in {"BLOCK", "TREES"} THEN Leave(z, "OK") ELSE Mode(z, "TYPEDO")

Typedo(f, e) ==
  /\ In("TYPEDO")
  /\ LET t == DROPBITS([f EXCEPT !.last = e.last], 3)
     IN  CASE z.last -> Mode(BYTEBITS(z), "CHECK")
           [] ~z.last /\ ~e.ok -> Mode(t, "BAD")
           [] ~z.last /\ e.ok /\ e.v = "stored" -> Mode(t, "STORED")
           [] ~z.last /\ e.ok /\ e.v = "dynamic" -> Mode(t, "TABLE")
           [] OTHER -> IF loc.flush = "TREES" THEN Leave([t EXCEPT !.mode = "LEN_"], "OK")
                       ELSE Mode(t, "LEN_")

Stored(f, e) ==
  /\ In("STORED")
  /\ LET t == INITBITS([f EXCEPT !.length = e.v, !.mode = "COPY_"])
     IN  CASE ~e.ok -> Mode(f, "BAD")
           [] e.ok /\ loc.flush = "TREES" -> Leave(t, "OK")
           [] OTHER -> Stay(t)

Copy_ ==
  /\ In("COPY_")
  /\ Mode(z, "COPY")

\* Stored bytes go straight from input to output.
Copy ==
  /\ In("COPY")
  /\ LET copy == MIN(MIN(z.length, z.avail_in), z.avail_out)
         byte(i) == IF 8 * (z.next + i - 1) \in DOMAIN stream.at
                    THEN stream.at[8 * (z.next + i - 1)] ELSE NoElement
     IN  CASE z.length = 0 -> Mode(z, "TYPE")
           [] z.length # 0 /\ copy = 0 -> Leave(z, "OK")
           [] OTHER -> Stay([z EXCEPT !.next = @ + copy, !.avail_in = @ - copy,
                                      !.avail_out = @ - copy, !.length = @ - copy,
                                      !.out = @ \o [i \in 1 .. copy |-> byte(i).v]])

\* The sizes of the three codes; how many lengths follow.
Table(f, e) ==
  /\ In("TABLE")
  /\ LET t == DROPBITS(f, 14)
     IN  IF e.ok THEN Mode([t EXCEPT !.ncode = e.v, !.nlens = e.x, !.have = 0], "LENLENS")
         ELSE Mode(t, "BAD")

\* One code length code length per step; the last completes the code, which
\* inflate_table accepts or not.
Lenlens(f, e) ==
  /\ In("LENLENS")
  /\ LET t == [DROPBITS(f, 3) EXCEPT !.have = @ + 1]
     IN  CASE t.have < t.ncode -> Stay(t)
           [] t.have = t.ncode /\ e.ok -> Mode([t EXCEPT !.have = 0], "CODELENS")
           [] OTHER -> Mode(t, "BAD")

\* One code length or repeat of it per step: e.x extra bits, e.v lengths.  A
\* repeat needs a length before it and may not reach past the end; the codes
\* must be complete.
Codelens(f, e) ==
  /\ In("CODELENS")
  /\ LET t == [DROPBITS(f, e.n) EXCEPT !.have = @ + e.v]
         first == e.rep /\ z.have = 0
     IN  CASE first -> Mode(DROPBITS(f, e.n - e.x), "BAD")
           [] ~first /\ t.have > t.nlens -> Mode(DROPBITS(f, e.n), "BAD")
           [] ~first /\ t.have < t.nlens -> Stay(t)
           [] ~first /\ t.have = t.nlens /\ ~e.ok -> Mode(t, "BAD")
           [] OTHER -> IF loc.flush = "TREES" THEN Leave([t EXCEPT !.mode = "LEN_"], "OK")
                       ELSE Mode(t, "LEN_")

Len_ ==
  /\ In("LEN_")
  /\ Mode(z, "LEN")

\* The next literal, length or end of block, a byte of input at a time.
Len1(f, e) ==
  /\ In("LEN")
  /\ LET t == DROPBITS(f, e.n)
     IN  CASE ~e.ok -> Mode(t, "BAD")
           [] e.ok /\ e.k = "lit" -> Mode([t EXCEPT !.length = e.v], "LIT")
           [] e.ok /\ e.k = "eob" -> Mode(t, "TYPE")
           [] OTHER -> Mode([t EXCEPT !.length = e.v, !.extra = e.x], "LENEXT")

\* The extra bits, or nothing when there are none.
ExtraBits(e) == IF z.extra = 0 THEN 0 ELSE e.v

Lenext(f, e) ==
  /\ In("LENEXT")
  /\ Mode([DROPBITS(f, z.extra) EXCEPT !.length = @ + ExtraBits(e)], "DIST")

Dist(f, e) ==
  /\ In("DIST")
  /\ LET t == DROPBITS(f, e.n)
     IN  IF e.ok THEN Mode([t EXCEPT !.offset = e.v, !.extra = e.x], "DISTEXT")
         ELSE Mode(t, "BAD")

Distext(f, e) ==
  /\ In("DISTEXT")
  /\ Mode([DROPBITS(f, z.extra) EXCEPT !.offset = @ + ExtraBits(e)], "MATCH")

\* Mutant: the part at the start of the window is not left out.
FromWindowFlat(t, copy) ==
  IF copy > t.wnext THEN [from |-> t.wsize - copy, n |-> copy - t.wnext]
  ELSE [from |-> t.wnext - copy, n |-> copy]

\* Where in the window the bytes copy back of the output buffer lie, and how
\* many are in one piece there.
FromWindow(t, copy) ==
  IF copy > t.wnext THEN [from |-> t.wsize - (copy - t.wnext), n |-> copy - t.wnext]
  ELSE [from |-> t.wnext - copy, n |-> copy]

WindowBytes(t, from, n) == [i \in 1 .. n |-> t.window[from + i - 1]]

\* Copy a match, as far as there is room and from one piece of memory.
Match ==
  /\ In("MATCH")
  /\ LET written == loc.out - z.avail_out
         w == FromWindow(z, z.offset - written)
         inOutput == z.offset <= written
         copy == MIN(IF inOutput THEN z.length ELSE MIN(w.n, z.length), z.avail_out)
         bytes == IF inOutput THEN Back(z.out, z.offset, copy)
                  ELSE WindowBytes(z, w.from, copy)
     IN  CASE z.avail_out = 0 -> Leave(z, "OK")
           [] z.avail_out # 0 /\ z.offset - written > z.whave -> Mode(z, "BAD")
           [] OTHER -> Stay([z EXCEPT !.out = @ \o bytes, !.avail_out = @ - copy,
                                      !.length = @ - copy,
                                      !.mode = IF z.length = copy THEN "LEN" ELSE @])

Lit ==
  /\ In("LIT")
  /\ IF z.avail_out = 0 THEN Leave(z, "OK")
     ELSE Mode([z EXCEPT !.out = Append(@, z.length), !.avail_out = @ - 1], "LEN")

-----------------------------------------------------------------------------
(* inflate_fast: whole symbols, without checks of the room in between.     *)

FastEnter ==
  /\ In("LEN") /\ FastPossible(z)
  /\ loc' = [loc EXCEPT !.last = z.next + z.avail_in - 5,
                        !.end = Len(z.out) + z.avail_out - (MAXLEN - 1)]
  /\ pc' = "fast"
  /\ UNCHANGED z

Fill15(t) == IF t.bits < 15 THEN PULLBYTES(t, 2) ELSE t

\* A byte for extra bits, when they are not all there.
FillByte(t, n) == IF t.bits < n THEN PULLBYTES(t, 1) ELSE t

\* The bytes of a match: from the window in up to two pieces, then from the
\* output.
FastCopy(t, dist, len) ==
  LET op == dist - (loc.out - t.avail_out)
      first == IF t.wnext = 0 THEN [from |-> t.wsize - op, n |-> op]
               ELSE IF t.wnext < op
               THEN [from |-> t.wsize + t.wnext - op, n |-> op - t.wnext]
               ELSE [from |-> t.wnext - op, n |-> op]
      n1 == MIN(first.n, len)
      h1 == t.out \o WindowBytes(t, first.from, n1)
      n2 == IF t.wnext # 0 /\ t.wnext < op THEN MIN(t.wnext, len - n1) ELSE 0
      h2 == h1 \o WindowBytes(t, 0, n2)
      n3 == len - n1 - n2
  IN  IF op <= 0 THEN t.out \o Back(t.out, dist, len)
      ELSE h2 \o (IF n3 = 0 THEN <<>> ELSE Back(h2, dist, n3))

\* On with the loop while there is enough of both; or out of it.
FastNext(t) ==
  /\ z' = t
  /\ pc' = IF t.next < loc.last /\ Len(t.out) < loc.end THEN "fast" ELSE "fastEnd"
FastStop(t, mode) == z' = [t EXCEPT !.mode = mode] /\ pc' = "fastEnd"

\* The distance is complete: copy the match.
FastMatch(t, dist, len) ==
  IF dist - (loc.out - t.avail_out) > t.whave THEN FastStop(t, "BAD")
  ELSE FastNext([t EXCEPT !.out = FastCopy(t, dist, len), !.avail_out = @ - len])

\* A distance code at the front of the accumulator, then its extra bits.
FastDist(t, e, len) ==
  LET b == DROPBITS(t, e.n)
  IN  CASE e.k # "dist" -> FastStop(t, "LOST")
        [] e.k = "dist" /\ ~e.ok -> FastStop(b, "BAD")
        [] OTHER -> FastMatch(DROPBITS(FillByte(FillByte(b, e.x), e.x), e.x),
                              e.v + (IF e.x = 0 THEN 0 ELSE Here(b).v), len)

\* The length is complete: on to the distance.
FastLen(t, len) == FastDist(t, Here(t), len)

\* A literal, length or end of block.  (Astray, what lies there is taken for a
\* code.)
FastSymbol(t, e) ==
  LET b == DROPBITS(t, e.n)
  IN  CASE e.k = "lit" /\ e.ok ->
             FastNext([b EXCEPT !.out = Append(@, e.v), !.avail_out = @ - 1])
        [] e.k = "eob" /\ e.ok -> FastStop(b, "TYPE")
        [] e.k = "len" /\ e.ok ->
             FastLen(Fill15(DROPBITS(FillByte(b, e.x), e.x)),
                     e.v + (IF e.x = 0 THEN 0 ELSE Here(b).v))
        [] e.k \in {"lit", "eob", "len"} /\ ~e.ok -> FastStop(b, "BAD")
        [] OTHER -> FastStop(DROPBITS(t, CodeBits(e)), "LOST")

FastFilled(t) == FastSymbol(t, Here(t))

\* One turn of the loop.
FastStep ==
  /\ pc = "fast"
  /\ FastFilled(Fill15(z))
  /\ UNCHANGED <<stream, loc, ret, app>>

\* Give back the bytes that were not used.
ReturnUnused(t) ==
  LET n == t.bits \div 8
  IN  [t EXCEPT !.next = @ - n, !.avail_in = @ + n, !.bits = @ - 8 * n]

FastEnd ==
  /\ pc = "fastEnd"
  /\ z' = ReturnUnused(z)
  /\ pc' = "loop"
  /\ UNCHANGED <<stream, loc, ret, app>>

-----------------------------------------------------------------------------
(* The trailer, and the return from inflate.                               *)

\* The output since loc.out is counted and enters the check value.
Account(t, n) ==
  [t EXCEPT !.total = @ + n,
            !.check = IF "validate" \in t.wrap
                      THEN @ \o SubSeq(t.out, Len(t.out) - n + 1, Len(t.out)) ELSE @]

Check(f, e) ==
  /\ In("CHECK")
  /\ LET t == Account(f, loc.out - z.avail_out)
     IN  IF z.wrap = {} THEN Mode(z, "LENGTH")
         ELSE /\ loc' = [loc EXCEPT !.out = t.avail_out]
              /\ pc' = "loop"
              /\ z' = IF validate /\ ~(e.ok /\ t.check = stream.out)
                      THEN [t EXCEPT !.mode = "BAD"]
                      ELSE INITBITS([t EXCEPT !.mode = "LENGTH"])

Length(f, e) ==
  /\ In("LENGTH")
  /\ CASE z.wrap = {} \/ ~z.flags.gz -> Mode(z, "DONE")
       [] z.wrap # {} /\ z.flags.gz /\ e.ok /\ f.total = Len(stream.out) ->
            Mode(INITBITS(f), "DONE")
       [] OTHER -> Mode(f, "BAD")

Done ==
  /\ In("DONE")
  /\ Leave(z, "STREAM_END")

\* (A decoder that is astray reads garbage: nothing more is said of it.)
Bad ==
  /\ In("BAD") \/ In("LOST")
  /\ Leave(z, "DATA_ERROR")

\* In mode SYNC inflate refuses to work.
Refuse ==
  /\ pc = "loop" /\ z.mode = "SYNC"
  /\ pc' = "idle" /\ ret' = "STREAM_ERROR" /\ loc' = NoLocals
  /\ UNCHANGED <<stream, z, app>>

\* Mutant: what does not fit at the end is dropped.
updatewindowOnePiece(t, hist, copy) ==
  LET u == IF t.wsize = 0 THEN [t EXCEPT !.wsize = WSIZE, !.wnext = 0, !.whave = 0] ELSE t
      dist == MIN(u.wsize - u.wnext, copy)
      next == u.wnext + dist
  IN  [u EXCEPT !.window = [i \in DOMAIN @ |->
                  IF i \in u.wnext .. next - 1 THEN hist[Len(hist) - copy + 1 + i - u.wnext]
                  ELSE @[i]],
                !.wnext = IF next = u.wsize THEN 0 ELSE next,
                !.whave = IF @ < u.wsize THEN @ + dist ELSE @]

\* updatewindow: the last copy bytes before end go to the circular window.
updatewindow(t, hist, copy) ==
  LET u == IF t.wsize = 0 THEN [t EXCEPT !.wsize = WSIZE, !.wnext = 0, !.whave = 0] ELSE t
      n == Len(hist)
      dist == MIN(u.wsize - u.wnext, copy)
      rest == copy - dist
      next == u.wnext + dist
  IN  IF copy >= u.wsize
      THEN [u EXCEPT !.window = [i \in DOMAIN @ |-> hist[n - u.wsize + 1 + i]],
                     !.wnext = 0, !.whave = u.wsize]
      ELSE [u EXCEPT !.window = [i \in DOMAIN @ |->
                       IF i \in u.wnext .. u.wnext + dist - 1
                       THEN hist[n - copy + 1 + i - u.wnext]
                       ELSE IF i < rest THEN hist[n - rest + 1 + i] ELSE @[i]],
                     !.wnext = IF rest > 0 THEN rest ELSE IF next = u.wsize THEN 0 ELSE next,
                     !.whave = IF rest > 0 THEN u.wsize
                               ELSE IF @ < u.wsize THEN @ + dist ELSE @]

\* The window is kept only when it may be needed again.
KeepsWindow(t) ==
  \/ t.wsize # 0
  \/ /\ loc.out # t.avail_out
     /\ t.mode \notin {"BAD", "SYNC"}
     /\ t.mode \in EndModes => loc.flush # "FINISH"

InfLeave ==
  /\ pc = "leave"
  /\ LET wrote == loc.out - z.avail_out
         t == IF KeepsWindow(z) THEN updatewindow(z, z.out, wrote) ELSE z
         idle == loc.in = z.avail_in /\ wrote = 0
     IN  /\ z' = IF wrote = 0 THEN t ELSE Account(t, wrote)
         /\ ret' = IF (idle \/ loc.flush = "FINISH") /\ loc.ret = "OK"
                   THEN "BUF_ERROR" ELSE loc.ret
  /\ pc' = "idle" /\ loc' = NoLocals
  /\ UNCHANGED <<stream, app>>

-----------------------------------------------------------------------------
(* The application.                                                        *)

NoStream ==
  [mode |-> "freed", last |-> FALSE, wrap |-> {}, havedict |-> FALSE,
   flags |-> NoFlags, check |-> <<>>, total |-> 0, wsize |-> 0, whave |-> 0,
   wnext |-> 0, window |-> [i \in 0 .. WSIZE - 1 |-> Uninit], bits |-> 0,
   next |-> 0, length |-> 0, offset |-> 0, extra |-> 0, ncode |-> 0, nlens |-> 0,
   have |-> 0, avail_in |-> 0, avail_out |-> 0, out |-> <<>>,
   skipped |-> <<>>, start |-> [out |-> 0, ref |-> 0]]

\* inflateReset; the application starts its stream again.
ResetKeep(t) ==
  [t EXCEPT !.total = 0, !.mode = "HEAD", !.last = FALSE, !.havedict = FALSE,
            !.bits = 0]
inflateReset(t) == ResetKeep([t EXCEPT !.wsize = 0, !.whave = 0, !.wnext = 0])

Init ==
  /\ app \in {[use |-> u, calls |-> 0] : u \in DOMAIN Uses}
  /\ stream \in Streams[app.use]
  /\ z = NoStream /\ pc = "idle" /\ loc = NoLocals /\ ret = "none"

\* The memory of the state is not cleared: flags holds anything until a header
\* has been read.
inflateInit2 ==
  /\ pc = "idle" /\ z.mode = "freed"
  /\ \E w \in Wraps, garbage \in BOOLEAN :
       z' = inflateReset([NoStream EXCEPT !.wrap = w, !.flags.gz = garbage])
  /\ ret' = "OK"
  /\ UNCHANGED <<stream, pc, loc, app>>

Idle == pc = "idle" /\ z.mode # "freed"
Other(f) == Idle /\ f \in Others /\ app.calls < MaxCalls /\ app' = [app EXCEPT !.calls = @ + 1]

\* How much input the application may add: a piece of its sizes, or the rest.
Pieces ==
  LET rest == stream.bytes - z.next - z.avail_in
  IN  {MIN(k, rest) : k \in InSizes \cup {0}}

\* Mutant: the call stops where the last one did.
StopAgain(t) == t

\* A call that starts at a block boundary does not stop there again.
SkipCheck(t) == [t EXCEPT !.mode = IF @ = "TYPE" THEN "TYPEDO" ELSE @]

\* The application adds input and makes room.
inflate(flush) ==
  /\ Idle
  /\ \E n \in Pieces, m \in OutSizes :
       /\ LET t == SkipCheck([z EXCEPT !.avail_in = @ + n, !.avail_out = m])
          IN  /\ z' = t
              /\ loc' = [loc EXCEPT !.flush = flush, !.in = t.avail_in, !.out = m,
                                    !.ret = "OK"]
  /\ pc' = "loop"
  /\ UNCHANGED <<stream, ret, app>>

Reset ==
  /\ Other("Reset")
  /\ z' = [inflateReset(z) EXCEPT !.next = 0, !.avail_in = 0, !.out = <<>>,
                                  !.skipped = <<>>, !.start = NoStream.start]
  /\ ret' = "OK"
  /\ UNCHANGED <<stream, pc, loc>>

inflateEnd ==
  /\ Other("End")
  /\ z' = NoStream
  /\ ret' = "OK"
  /\ UNCHANGED <<stream, pc, loc>>

inflateValidate ==
  /\ Other("Validate")
  /\ \E on \in BOOLEAN : z' = [z EXCEPT !.wrap = IF on THEN @ \cup {"validate"}
                                                 ELSE @ \ {"validate"}]
  /\ ret' = "OK"
  /\ UNCHANGED <<stream, pc, loc>>

\* The dictionary the application has, or a wrong one where that is detected.
\* A raw stream takes one at any time (inflate.c:1326); it is for the application
\* to hand over the one used for compression, here where the stream starts.
inflateSetDictionary ==
  /\ Other("SetDictionary")
  /\ z.wrap = {} => z.next = 0 /\ z.avail_in = 0 /\ ~z.havedict
  /\ \E right \in IF z.wrap = {} THEN {TRUE} ELSE BOOLEAN :
       LET d == IF right THEN Dictionary ELSE Tail(Dictionary)
       IN  CASE z.wrap # {} /\ z.mode # "DICT" -> ret' = "STREAM_ERROR" /\ UNCHANGED z
             [] z.wrap # {} /\ z.mode = "DICT" /\ d # z.check ->
                  ret' = "DATA_ERROR" /\ UNCHANGED z
             [] OTHER -> /\ z' = [updatewindow(z, d, Len(d)) EXCEPT !.havedict = TRUE]
                         /\ ret' = "OK"
  /\ UNCHANGED <<stream, pc, loc>>

\* Mutant: a mismatch starts again from nothing.
SyncGotNaive(got, byte) ==
  CASE got = 4 -> 4
    [] got < 4 /\ byte = (IF got < 2 THEN 0 ELSE 255) -> got + 1
    [] got < 4 /\ byte # (IF got < 2 THEN 0 ELSE 255) -> 0

\* syncsearch: have is how much of 00 00 FF FF was found so far.
SyncGot(got, byte) ==
  CASE got = 4 -> 4
    [] got < 4 /\ byte = (IF got < 2 THEN 0 ELSE 255) -> got + 1
    [] got < 4 /\ byte # (IF got < 2 THEN 0 ELSE 255) -> IF byte # 0 THEN 0 ELSE 4 - got

\* The bytes of the accumulator as inflateSync takes them out: it shifts the
\* wrong way when they are not aligned, and the bytes it sees are others.
HoldBytes(t) ==
  LET n == t.bits \div 8
      first == t.next - n
  IN  IF t.bits % 8 = 0 \/ n = 0 THEN {[i \in 1 .. n |-> stream.marker[first + i]]}
      ELSE {b \in [1 .. n -> {0, 1, 255}] : b[1] # 255}

\* How much of the output lies before the byte t is at; -1 where the encoder
\* put no boundary.
MarkedOutput(t) == IF 8 * t.next \in DOMAIN stream.done THEN stream.done[8 * t.next] ELSE -1

\* The bytes looked at up to the one that completes the pattern, or all.
syncsearch(have, bytes) ==
  LET got(n) == FoldLeft(SyncGot, have, SubSeq(bytes, 1, n))
      ends == {n \in 0 .. Len(bytes) : got(n) = 4}
      len == IF ends = {} THEN Len(bytes) ELSE CHOOSE n \in ends : \A k \in ends : n <= k
  IN  [have |-> got(len), len |-> len]

\* t with its input searched, have of the pattern found in what comes before.
SyncInput(t, have, skipped) ==
  LET bytes == [i \in 1 .. t.avail_in |-> stream.marker[t.next + i]]
      found == syncsearch(have, bytes)
  IN  [t EXCEPT !.mode = "SYNC", !.bits = 0, !.have = found.have,
                !.next = @ + found.len, !.avail_in = @ - found.len,
                !.skipped = skipped \o SubSeq(bytes, 1, found.len)]

\* t after the whole pattern: a block begins here.
Resynced(t) ==
  [inflateReset(t) EXCEPT !.mode = "TYPE",
                          !.start = [out |-> Len(t.out), ref |-> MarkedOutput(t)]]

\* The application may add input before it calls.
inflateSync ==
  /\ Other("Sync")
  /\ \E n \in Pieces :
       LET y == [z EXCEPT !.avail_in = @ + n]
           first == z.mode # "SYNC"
       IN  IF y.avail_in = 0 /\ y.bits < 8
           THEN ret' = "BUF_ERROR" /\ UNCHANGED z
           ELSE \E hold \in IF first THEN HoldBytes(y) ELSE {<<>>} :
                  LET t == IF first THEN SyncInput(y, syncsearch(0, hold).have, hold)
                           ELSE SyncInput(y, y.have, y.skipped)
                  IN  IF t.have # 4 THEN z' = t /\ ret' = "DATA_ERROR"
                      ELSE z' = Resynced(t) /\ ret' = "OK"
  /\ UNCHANGED <<stream, pc, loc>>

-----------------------------------------------------------------------------
\* The modes that look at f, the accumulator with what they asked for, and at
\* e, what lies there.
Header(f, e) ==
  \/ HeadMode(f, e) \/ Flags(f, e) \/ Time(f, e) \/ Os(f, e) \/ Exlen(f, e)
  \/ Hcrc(f, e) \/ Dictid(f, e)
Block(f, e) ==
  \/ Typedo(f, e) \/ Stored(f, e) \/ Table(f, e) \/ Lenlens(f, e) \/ Codelens(f, e)
  \/ Len1(f, e) \/ Lenext(f, e) \/ Dist(f, e) \/ Distext(f, e)
  \/ Check(f, e) \/ Length(f, e)

ReadMode ==
  /\ pc = "loop" /\ Enough(z)
  /\ z.mode = "LEN" => ~FastPossible(z)
  /\ \E f \in {Filled(z)} : \E e \in {Here(f)} :
       \/ Astray(e)
       \/ (Looks(z) => e.k \in Kinds[z.mode]) /\ (Header(f, e) \/ Block(f, e))

OtherMode ==
  \/ Extra \/ Name \/ Comment \/ Dict \/ NeedDict \/ Type \/ Copy_ \/ Copy \/ Len_
  \/ Match \/ Lit \/ FastEnter \/ FastStep \/ FastEnd \/ Done \/ Bad \/ Refuse

Call == \/ inflateInit2 \/ Reset \/ inflateEnd \/ inflateValidate
        \/ inflateSetDictionary \/ inflateSync
        \/ \E flush \in Flushes : inflate(flush)

Next == ReadMode \/ OtherMode \/ Starve \/ InfLeave \/ Call

Spec == Init /\ [][Next]_vars

\* Next is enabled in every state, so a step is always taken; the caller keeps
\* handing over what input it has left (gz_decomp and uncompress2 do).
Feed == /\ \E flush \in Flushes : inflate(flush)
        /\ z'.avail_in > z.avail_in
LiveSpec == Spec /\ []<><<TRUE>>_vars /\ SF_vars(Feed)

-----------------------------------------------------------------------------
TypeOK ==
  /\ pc \in {"idle", "loop", "fast", "fastEnd", "leave"}
  /\ z.mode \in Modes \ (IF pc = "idle" THEN {} ELSE {"freed"})
  /\ z.wrap \subseteq {"zlib", "gzip", "validate"}
  /\ z.last \in BOOLEAN /\ z.havedict \in BOOLEAN
  /\ z.wsize \in {0, WSIZE} /\ z.wnext \in 0 .. WSIZE - 1
  /\ z.whave \in 0 .. z.wsize
  /\ z.bits \in Nat /\ z.next \in 0 .. stream.bytes
  /\ loc.flush \in Flushes \cup {"NO_FLUSH"}
  /\ app.calls \in 0 .. MaxCalls

\* The decoder never loses its place, wherever the input was cut and however
\* often it went between inflate and inflate_fast: where it looks for a code,
\* the encoder wrote one.  (After a resynchronisation at a byte sequence that
\* only looks like a marker there is no place to keep.)
InStep == z.mode = "LOST" => z.start.ref = -1

\* The history a match may refer to: the dictionary and the output.
History == (IF z.havedict THEN Dictionary ELSE <<>>)
           \o SubSeq(z.out, z.start.out + 1, Len(z.out))

\* The result does not depend on how input and room were cut into pieces: the
\* output is always a prefix of what the stream stands for, Z_STREAM_END
\* comes with all of it and only for a valid stream, Z_DATA_ERROR from inflate
\* only for an invalid one (or one whose dictionary was not given).
ChunkingInvisible ==
  z.mode # "freed" /\ z.start.ref # -1 =>
    LET got == SubSeq(z.out, z.start.out + 1, Len(z.out))
        want == SubSeq(stream.out, z.start.ref + 1, Len(stream.out))
        whole == z.start.ref = 0 /\ app.calls = 0
    IN  /\ IsPrefix(got, want)
        /\ z.mode = "DONE" => got = want
        /\ z.mode = "DONE" /\ "validate" \in z.wrap => stream.ok
        /\ z.mode = "BAD" /\ whole => ~stream.ok \/ stream.dict

\* inflate_fast tests the room once per symbol (inffast.c, "do ... while (in <
\* last && out < end)"): it never reads past the input nor writes past the
\* output, keeps the accumulator within 32 bits, and what it gives back it
\* took in this call.
FastInBounds ==
  /\ z.avail_in >= 0 /\ z.avail_out >= 0
  /\ z.bits <= 32
  /\ pc # "idle" => z.avail_in <= loc.in
  /\ pc \in {"loop", "leave"} => z.avail_out <= loc.out

inflateGetDictionary(t) ==
  [i \in 1 .. t.whave |->
     IF i <= t.whave - t.wnext THEN t.window[t.wnext + i - 1]
     ELSE t.window[i - (t.whave - t.wnext) - 1]]

\* Between calls the circular window holds the end of the history, so that a
\* match of a later call finds its bytes: updatewindow wraps around wherever
\* the calls happened to end, and inflateGetDictionary unwraps it.
WindowIsHistory ==
  pc = "idle" /\ z.mode \in HeaderModes \cup BlockModes =>
    LET n == MIN(WSIZE, Len(History))
    IN  inflateGetDictionary(z) = SubSeq(History, Len(History) - n + 1, Len(History))

\* How much of the pattern the end of s is.
Matched(s) ==
  LET fits == {k \in 0 .. MIN(4, Len(s)) :
                 SubSeq(s, Len(s) - k + 1, Len(s)) = SubSeq(Pattern, 1, k)}
  IN  CHOOSE k \in fits : \A j \in fits : j <= k

\* syncsearch (inflate.c) sees a byte at a time and keeps only a count from
\* call to call: the count is that of the longest start of the pattern that
\* was just skipped, and the search stops at the first whole one.
SyncSearchExact ==
  z.skipped # <<>> =>
    /\ z.mode = "SYNC" => z.have = Matched(z.skipped) /\ z.have < 4
    /\ \A k \in 0 .. Len(z.skipped) - 1 : Matched(SubSeq(z.skipped, 1, k)) < 4

\* Under continued calls with more input and some room each, inflate comes to
\* an end or asks for a dictionary, however little is given at a time.
InflateEnds ==
  <>(ret \in {"STREAM_END", "DATA_ERROR", "NEED_DICT"})

\* inflate.c:396, 1151: input and output consumed agree with the stream decoded,
\* in the bit accumulator, the counters and the circular window.
StateSound == TypeOK /\ InStep /\ WindowIsHistory

=============================================================================
