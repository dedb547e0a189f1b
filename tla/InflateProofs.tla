---------------------------- MODULE InflateProofs ----------------------------
(***************************************************************************)
(* Proofs about Inflate, for every window size, every set of streams in    *)
(* the deflate format, damaged ones included, and every way of cutting     *)
(* input and room into pieces: inflate and inflate_fast stay within the    *)
(* input, the output, the accumulator and the part of the window that has  *)
(* been written.                                                           *)
(***************************************************************************)
EXTENDS Inflate, WellFoundedInduction, TLAPS

-----------------------------------------------------------------------------
(* The invariant.                                                          *)

Fields == {"mode", "last", "wrap", "havedict", "flags", "check", "total", "wsize", "whave",
           "wnext", "window", "bits", "next", "length", "offset", "extra", "ncode", "nlens",
           "have", "avail_in", "avail_out", "out", "skipped", "start"}
Rec(t) == t = [x \in Fields |-> t[x]]
LocFields == {"flush", "in", "out", "ret", "last", "end"}
LocRec(l) == l = [x \in LocFields |-> l[x]]

\* The stream is one of those the application may use.
StreamInv ==
  /\ app = [use |-> app.use, calls |-> app.calls]
  /\ app.use \in DOMAIN Uses /\ stream \in Streams[app.use]

InputInv(t) ==
  /\ t.bits \in Nat /\ t.next \in Int /\ t.avail_in \in Nat
  /\ t.next + t.avail_in <= stream.bytes

OutputInv(t) == t.avail_out \in Nat /\ t.out \in Seq(Nat)

WindowInv(t) ==
  /\ t.wsize \in {0, WSIZE} /\ t.wnext \in 0 .. WSIZE - 1 /\ t.whave \in 0 .. t.wsize
  /\ t.whave < t.wsize => t.wnext = t.whave
  /\ t.window \in [0 .. WSIZE - 1 -> Int]
  /\ \A i \in 0 .. t.whave - 1 : t.window[i] \in Nat

ByteModes == {"FLAGS", "TIME", "OS", "EXLEN", "EXTRA", "NAME", "COMMENT", "HCRC", "DICTID", "DICT"}

BitsInv(t) ==
  /\ t.bits <= 32
  /\ t.mode = "HEAD" => t.bits \in {0, 8}
  /\ t.mode \in ByteModes => t.bits = 0 \/ (t.bits \in {8, 16, 24} /\ t.bits < Wanted(t))
  /\ t.mode \in EndModes => t.bits \in {0, 8, 16, 24}
  /\ t.mode = "STORED" => t.bits < 8 \/ t.bits \in {8, 16, 24}
  /\ t.mode \in {"COPY_", "COPY"} => t.bits = 0
  /\ t.mode = "TYPEDO" => t.bits <= 8
  /\ t.mode = "TABLE" => t.bits < 14
  /\ t.mode \in {"TYPE", "LENLENS", "LEN_", "MATCH", "LIT"} => t.bits < 8
  /\ t.mode \in {"CODELENS", "LEN", "DIST"} => t.bits < 8 \/ t.bits < CodeBits(Here(t))
  /\ t.mode \in {"LENEXT", "DISTEXT"} => t.bits < 8 \/ t.bits < t.extra

ValueAt(p) == p \in DOMAIN stream.at => stream.at[p].v \in Nat
LengthInv(t) ==
  /\ t.mode = "EXTRA" /\ t.flags.extra => t.length \in Nat
  /\ t.mode \in {"COPY_", "COPY", "LENEXT", "DIST", "DISTEXT", "MATCH", "LIT"} => t.length \in Nat
  /\ t.mode \in {"COPY_", "COPY"} =>
       \A i \in 0 .. t.length - 1 : ValueAt(8 * (t.next + i))
  /\ t.mode \in {"LENEXT", "DISTEXT"} => t.extra \in 0 .. 13
  /\ t.mode \in {"DISTEXT", "MATCH"} => t.offset \in Nat \ {0}

Between == pc \in {"idle", "loop", "leave"}
CallInv ==
  pc # "idle" =>
    /\ loc.in \in Int /\ loc.out \in Int
    /\ z.avail_in <= loc.in /\ z.avail_out <= loc.out
    /\ loc.out - z.avail_out <= Len(z.out)

\* Bytes that may be given back.
Taken == 8 * (loc.in - z.avail_in) + 7
FastInv ==
  pc = "fast" =>
    /\ z.mode = "LEN"
    /\ loc.last = z.next + z.avail_in - 5 /\ z.next < loc.last
    /\ loc.end = Len(z.out) + z.avail_out - (MAXLEN - 1) /\ Len(z.out) < loc.end
    /\ z.bits <= 30
    /\ z.bits <= Taken \/ z.bits < CodeBits(Here(z))
EndInv ==
  pc = "fastEnd" => /\ z.mode \in {"LEN", "TYPE", "BAD", "LOST"}
                    /\ z.bits <= 32 /\ z.bits <= Taken
Inv ==
  /\ StreamInv /\ Rec(z) /\ LocRec(loc)
  /\ pc \in {"idle", "loop", "fast", "fastEnd", "leave"}
  /\ InputInv(z) /\ OutputInv(z) /\ WindowInv(z)
  /\ Between => BitsInv(z) /\ LengthInv(z)
  /\ CallInv /\ FastInv /\ EndInv

-----------------------------------------------------------------------------
(* Records and what is done to them.                                       *)

\* What a mode of the slow loop leaves behind.
Good(t) ==
  /\ Rec(t) /\ InputInv(t) /\ OutputInv(t) /\ WindowInv(t) /\ BitsInv(t) /\ LengthInv(t)
  /\ t.avail_in <= loc.in /\ t.avail_out <= loc.out /\ loc.out - t.avail_out <= Len(t.out)

\* Output and window are as they were.
SameOut(t, u) ==
  /\ u.avail_out = t.avail_out /\ u.out = t.out
  /\ u.wsize = t.wsize /\ u.wnext = t.wnext /\ u.whave = t.whave /\ u.window = t.window

LEMMA InvGood ==
  ASSUME Inv, pc \in {"loop", "leave"}
  PROVE  Good(z)
  BY DEF Inv, Good, Between, CallInv

LEMMA GoodStays ==
  ASSUME Inv, pc = "loop", NEW t, Good(t), NEW code,
         Stay(t) \/ Leave(t, code), UNCHANGED <<stream, ret, app>>
  PROVE  Inv'
<1>1. z' = t /\ stream' = stream /\ app' = app /\ pc' \in {"loop", "leave"}
  BY DEF Stay, Leave
<1>2. loc'.in = loc.in /\ loc'.out = loc.out /\ LocRec(loc)'
  BY DEF Inv, Stay, Leave, LocRec, LocFields
<1>3. StreamInv' /\ Rec(z)' /\ InputInv(z)' /\ OutputInv(z)' /\ WindowInv(z)'
  BY <1>1 DEF Inv, Good, StreamInv, Rec, InputInv, OutputInv, WindowInv
<1>4. (BitsInv(z) /\ LengthInv(z))'
  BY <1>1 DEF Good, BitsInv, LengthInv, Wanted, Here, ValueAt, Pos
<1>5. CallInv' /\ FastInv' /\ EndInv'
  BY <1>1, <1>2 DEF Inv, Good, CallInv, FastInv, EndInv
<1> QED  BY <1>1, <1>2, <1>3, <1>4, <1>5 DEF Inv

LEMMA PullRec ==
  ASSUME NEW t, Rec(t), NEW n, NEW u, u = PULLBYTES(t, n)
  PROVE  /\ Rec(u)
         /\ u.next = t.next + n /\ u.avail_in = t.avail_in - n /\ u.bits = t.bits + 8 * n
         /\ \A x \in Fields \ {"next", "avail_in", "bits"} : u[x] = t[x]
  BY DEF Rec, Fields, PULLBYTES

LEMMA DropRec ==
  ASSUME NEW t, Rec(t), NEW n, NEW u, u = DROPBITS(t, n)
  PROVE  /\ Rec(u) /\ u.bits = t.bits - n
         /\ \A x \in Fields \ {"bits"} : u[x] = t[x]
  BY DEF Rec, Fields, DROPBITS

LEMMA ByteRec ==
  ASSUME NEW t, Rec(t), NEW u, u = BYTEBITS(t)
  PROVE  /\ Rec(u) /\ u.bits = t.bits - (t.bits % 8)
         /\ \A x \in Fields \ {"bits"} : u[x] = t[x]
  BY DEF Rec, Fields, BYTEBITS

LEMMA InitRec ==
  ASSUME NEW t, Rec(t), NEW u, u = INITBITS(t)
  PROVE  /\ Rec(u) /\ u.bits = 0
         /\ \A x \in Fields \ {"bits"} : u[x] = t[x]
  BY DEF Rec, Fields, INITBITS

\* What the format says of the element the decoder looks at.
ElementOK(e) ==
  /\ e.n \in Nat
  /\ e.k \in {"lit", "len", "eob", "dist"} => e.n <= 15
  /\ e.k \in {"lit", "sbyte", "exlen", "slen", "lext", "dext"} => e.v \in Nat
  /\ e.k = "lens" => e.n <= 14 /\ e.x \in 0 .. e.n
  /\ e.k = "len" => e.x \in 0 .. 5 /\ e.v \in 0 .. MAXLEN
  /\ e.k = "dist" => e.x \in 0 .. 13 /\ e.v \in Nat \ {0}

LEMMA HereOK ==
  ASSUME StreamInv, NEW t
  PROVE  ElementOK(Here(t))
<1>1. CASE Pos(t) \in DOMAIN stream.at
  <2>1. Format(stream, Pos(t)) /\ Here(t) = stream.at[Pos(t)]
    BY <1>1, StreamsAssumption DEF StreamInv, Here
  <2> QED  BY <2>1 DEF Format, ElementOK
<1>2. CASE Pos(t) \notin DOMAIN stream.at
  BY <1>2 DEF Here, NoElement, ElementOK
<1> QED  BY <1>1, <1>2

LEMMA CodeBitsOK ==
  ASSUME NEW e, ElementOK(e)
  PROVE  CodeBits(e) \in 0 .. 15 /\ CodeBits(e) <= e.n
         /\ (e.k \in {"lit", "len", "eob", "dist", "lens"} => CodeBits(e) = e.n)
  BY DEF ElementOK, CodeBits, MIN

\* What the modes ask for, by mode.
LEMMA WantedOK ==
  ASSUME StreamInv, NEW t, BitsInv(t), LengthInv(t)
  PROVE  /\ Wanted(t) \in 0 .. 32
         /\ Wanted(t) > 16 => t.mode \in {"TIME", "DICTID", "STORED", "CHECK", "LENGTH"}
         /\ t.mode \in {"FLAGS", "OS"} => Wanted(t) = 16
         /\ t.mode \in {"TIME", "DICTID", "STORED"} => Wanted(t) = 32
         /\ t.mode = "HEAD" => Wanted(t) \in {0, 16}
         /\ t.mode \in {"EXTRA", "NAME", "COMMENT", "DICT", "TYPE", "COPY_", "COPY", "LEN_",
                        "MATCH", "LIT"} => Wanted(t) = 0
         /\ t.mode = "TYPEDO" => Wanted(t) <= 3 /\ (~t.last => Wanted(t) = 3)
         /\ t.mode = "TABLE" => Wanted(t) = 14
         /\ t.mode = "LENLENS" => Wanted(t) = 3
         /\ t.mode \in {"CODELENS", "LEN", "DIST"} => Wanted(t) = CodeBits(Here(t)) /\ Wanted(t) <= 15
         /\ t.mode \in {"LENEXT", "DISTEXT"} => Wanted(t) = t.extra
         /\ t.mode \in {"CHECK", "LENGTH"} => Wanted(t) \in {0, 32}
<1>1. CodeBits(Here(t)) \in 0 .. 15
  BY HereOK, CodeBitsOK
<1>2. t.mode \in {"LENEXT", "DISTEXT"} => t.extra \in 0 .. 13
  BY DEF LengthInv
<1>13. t.mode \in {"FLAGS", "OS"} => Wanted(t) = 16
  BY DEF Wanted
<1>14. t.mode \in {"TIME", "DICTID", "STORED"} => Wanted(t) = 32
  BY DEF Wanted
<1>15. t.mode = "HEAD" => Wanted(t) \in {0, 16}
  BY DEF Wanted
<1>16. t.mode \in {"EXTRA", "NAME", "COMMENT", "DICT", "TYPE", "COPY_", "COPY", "LEN_",
                        "MATCH", "LIT"} => Wanted(t) = 0
  BY DEF Wanted
<1>17. t.mode = "TYPEDO" => Wanted(t) \in {0, 3} /\ (~t.last => Wanted(t) = 3)
  BY DEF Wanted
<1>18. t.mode = "TABLE" => Wanted(t) = 14
  BY DEF Wanted
<1>19. t.mode \in {"CODELENS", "LEN", "DIST"} => Wanted(t) = CodeBits(Here(t))
  BY DEF Wanted
<1>20. t.mode \in {"LENEXT", "DISTEXT"} => Wanted(t) = t.extra
  BY DEF Wanted
<1>21. t.mode \in {"CHECK", "LENGTH"} => Wanted(t) \in {0, 32}
  BY DEF Wanted
<1>22. t.mode \in {"EXLEN", "HCRC"} => Wanted(t) \in {0, 16}
  BY DEF Wanted
<1>23. t.mode = "LENLENS" => Wanted(t) = 3
  BY DEF Wanted
<1>12. t.mode \notin {"FLAGS", "OS", "TIME", "DICTID", "STORED", "HEAD", "TYPEDO", "TABLE", "CODELENS",
                  "LEN", "DIST", "LENEXT", "DISTEXT", "CHECK", "LENGTH", "EXLEN", "HCRC", "LENLENS"}
      => Wanted(t) = 0
  BY DEF Wanted
<1> QED  BY <1>1, <1>2, <1>13, <1>14, <1>15, <1>16, <1>17, <1>18, <1>19, <1>20, <1>21, <1>22, <1>23, <1>12

\* NEEDBITS: bytes are pulled only as long as they are needed.
LEMMA AlignedOK ==
  ASSUME Inv, pc = "loop", NEW a, a = Aligned(z)
  PROVE  /\ Rec(a) /\ a.bits \in Nat /\ a.bits <= z.bits
         /\ z.mode = "STORED" => a.bits \in {0, 8, 16, 24}
         /\ z.mode # "STORED" => a = z
         /\ \A x \in Fields \ {"bits"} : a[x] = z[x]
         /\ Wanted(a) = Wanted(z)
<1>1. CASE z.mode = "STORED"
  <2>1. a = BYTEBITS(z) /\ Rec(z) /\ z.bits \in Nat /\ z.bits <= 32
        /\ (z.bits < 8 \/ z.bits \in {8, 16, 24})
    BY <1>1 DEF Aligned, Inv, Between, BitsInv, InputInv
  <2>2. Rec(a) /\ a.bits = z.bits - (z.bits % 8) /\ \A x \in Fields \ {"bits"} : a[x] = z[x]
    BY <2>1, ByteRec
  <2>3. a.mode = "STORED"
    BY <1>1, <2>2 DEF Fields
  <2>4. Wanted(a) = 32 /\ Wanted(z) = 32
    BY <1>1, <2>3 DEF Wanted
  <2> QED  BY <1>1, <2>1, <2>2, <2>4
<1>2. CASE z.mode # "STORED"
  BY <1>2 DEF Aligned, Inv, InputInv
<1> QED  BY <1>1, <1>2

LEMMA BytesOK ==
  ASSUME NEW t, t.bits \in Nat, Wanted(t) \in Nat
  PROVE  /\ BytesWanted(t) \in Nat
         /\ t.bits >= Wanted(t) => BytesWanted(t) = 0
         /\ t.bits < Wanted(t) =>
              /\ t.bits + 8 * BytesWanted(t) >= Wanted(t)
              /\ t.bits + 8 * BytesWanted(t) < Wanted(t) + 8
         /\ t.bits \in {0, 8, 16, 24} /\ Wanted(t) \in {0, 32} =>
              t.bits + 8 * BytesWanted(t) <= 32
  BY DEF BytesWanted

LEMMA FilledOK ==
  ASSUME Inv, pc = "loop", Enough(z), NEW f, f = Filled(z)
  PROVE  /\ Rec(f) /\ SameOut(z, f) /\ InputInv(f)
         /\ f.avail_in <= z.avail_in /\ f.avail_in <= loc.in
         /\ \A x \in Fields \ {"bits", "next", "avail_in"} : f[x] = z[x]
         /\ f.bits >= Wanted(z) /\ f.bits <= 32
         /\ f.bits < Wanted(z) + 8 \/ f.bits = z.bits
         /\ z.mode # "STORED" => Pos(f) = Pos(z) /\ (z.bits >= Wanted(z) => f.bits = z.bits)
         /\ z.mode = "STORED" => f.bits = 32
<1> DEFINE a == Aligned(z)
           n == BytesWanted(a)
<1>1. StreamInv /\ BitsInv(z) /\ LengthInv(z) /\ InputInv(z) /\ z.avail_in <= loc.in
      /\ loc.in \in Int
  BY DEF Inv, Between, CallInv
<1>2. Wanted(z) \in 0 .. 32 /\ (z.mode = "STORED" => Wanted(z) = 32)
      /\ (Wanted(z) > 16 => z.mode \in {"TIME", "DICTID", "STORED", "CHECK", "LENGTH"})
      /\ (z.mode \in {"TIME", "DICTID", "STORED", "CHECK", "LENGTH"} => Wanted(z) \in {0, 32})
  BY <1>1, WantedOK
<1>3. /\ Rec(a) /\ a.bits \in Nat /\ a.bits <= z.bits
      /\ z.mode = "STORED" => a.bits \in {0, 8, 16, 24}
      /\ z.mode # "STORED" => a = z
      /\ \A x \in Fields \ {"bits"} : a[x] = z[x]
      /\ Wanted(a) = Wanted(z)
  BY AlignedOK
<1>4. /\ n \in Nat
      /\ a.bits >= Wanted(a) => n = 0
      /\ a.bits < Wanted(a) => a.bits + 8 * n >= Wanted(a) /\ a.bits + 8 * n < Wanted(a) + 8
      /\ a.bits \in {0, 8, 16, 24} /\ Wanted(a) \in {0, 32} => a.bits + 8 * n <= 32
  BY <1>2, <1>3, BytesOK
<1>5. n <= z.avail_in
  BY DEF Enough
<1>6. f = PULLBYTES(a, n)
  BY DEF Filled
<1>7. /\ Rec(f) /\ f.next = a.next + n /\ f.avail_in = a.avail_in - n /\ f.bits = a.bits + 8 * n
      /\ \A x \in Fields \ {"bits", "next", "avail_in"} : f[x] = a[x]
  <2> HIDE DEF a, n
  <2> QED  BY <1>3, <1>6, PullRec
<1> HIDE DEF a, n
<1>8. a.next = z.next /\ a.avail_in = z.avail_in
      /\ \A x \in Fields \ {"bits", "next", "avail_in"} : f[x] = z[x]
  BY <1>3, <1>7 DEF Fields
<1>9. SameOut(z, f)
  BY <1>8 DEF SameOut, Fields
<1>10. InputInv(f) /\ f.avail_in <= z.avail_in /\ f.avail_in <= loc.in
  BY <1>1, <1>3, <1>4, <1>5, <1>7, <1>8 DEF InputInv
<1>11. z.mode \in {"TIME", "DICTID"} => z.bits \in {0, 8, 16, 24}
  BY <1>1 DEF BitsInv, ByteModes
<1>12. z.mode \in {"CHECK", "LENGTH"} => z.bits \in {0, 8, 16, 24}
  BY <1>1 DEF BitsInv, EndModes
<1>13. z.bits <= 32 /\ z.bits \in Nat
  BY <1>1 DEF BitsInv, InputInv
<1>14. f.bits >= Wanted(z) /\ f.bits <= 32
  BY <1>2, <1>3, <1>4, <1>7, <1>11, <1>12, <1>13
<1>15. f.bits < Wanted(z) + 8 \/ f.bits = z.bits
  <2>1. CASE z.mode = "STORED"
    BY <2>1, <1>2, <1>3, <1>4, <1>7
  <2>2. CASE z.mode # "STORED"
    BY <2>2, <1>2, <1>3, <1>4, <1>7, <1>13
  <2> QED  BY <2>1, <2>2
<1>16. z.mode # "STORED" => Pos(f) = Pos(z) /\ (z.bits >= Wanted(z) => f.bits = z.bits)
  BY <1>1, <1>3, <1>4, <1>7, <1>8, <1>13 DEF Pos, InputInv
<1>17. z.mode = "STORED" => f.bits = 32
  BY <1>2, <1>10, <1>14 DEF InputInv
<1> QED  BY <1>7, <1>8, <1>9, <1>10, <1>14, <1>15, <1>16, <1>17

-----------------------------------------------------------------------------
(* The modes of the slow loop.  Each leaves a state t that differs from f, *)
(* the state with the bits it asked for, in few fields.                    *)

Frame(f, t) == Rec(t) /\ SameOut(f, t) /\ t.next = f.next /\ t.avail_in = f.avail_in

\* f is the state with or without the bits that were asked for.
Base(f) == Rec(f) /\ InputInv(f) /\ SameOut(z, f) /\ f.avail_in <= loc.in

LEMMA FilledBase ==
  ASSUME Inv, pc = "loop", Enough(z)
  PROVE  Base(Filled(z))
  BY FilledOK DEF Base

LEMMA OwnBase ==
  ASSUME Inv, pc = "loop"
  PROVE  Base(z)
  BY DEF Base, Inv, SameOut, CallInv

LEMMA Moves ==
  ASSUME Inv, pc = "loop", NEW f, Base(f), NEW t, Frame(f, t), t.bits \in Nat,
         BitsInv(t), LengthInv(t)
  PROVE  Good(t)
<1>1. InputInv(t) /\ t.avail_in <= loc.in
  BY DEF Base, Frame, InputInv
<1>2. SameOut(z, t)
  BY DEF Base, Frame, SameOut
<1>3. OutputInv(t) /\ t.avail_out <= loc.out /\ loc.out - t.avail_out <= Len(t.out)
  BY <1>2 DEF Inv, CallInv, SameOut, OutputInv
<1>4. WindowInv(t)
  BY <1>2 DEF Inv, SameOut, WindowInv
<1> QED  BY <1>1, <1>3, <1>4 DEF Good, Frame

LEMMA NoBits ==
  ASSUME NEW t, t.bits = 0
  PROVE  BitsInv(t)
  BY DEF BitsInv

LEMMA FewBits ==
  ASSUME NEW t, t.bits \in Nat, t.bits < 8,
         t.mode \in {"TYPE", "TYPEDO", "STORED", "TABLE", "LENLENS", "CODELENS", "LEN_", "LEN",
                     "LENEXT", "DIST", "DISTEXT", "MATCH", "LIT"}
  PROVE  BitsInv(t)
  BY DEF BitsInv, ByteModes, EndModes

LEMMA EndBits ==
  ASSUME NEW t, t.bits \in Nat, t.bits <= 32, t.mode \in {"BAD", "LOST"}
  PROVE  BitsInv(t)
  BY DEF BitsInv, ByteModes, EndModes

PlainModes == {"HEAD", "FLAGS", "TIME", "OS", "EXLEN", "NAME", "COMMENT", "HCRC", "DICTID", "DICT",
               "TYPE", "TYPEDO", "STORED", "TABLE", "LENLENS", "CODELENS", "LEN_", "LEN", "BAD",
               "LOST", "CHECK", "LENGTH", "DONE", "SYNC", "freed"}
LEMMA PlainLength ==
  ASSUME NEW t, t.mode \in PlainModes
  PROVE  LengthInv(t)
  BY DEF LengthInv, PlainModes

\* The three ways most modes end.
LEMMA ToNoBits ==
  ASSUME Inv, pc = "loop", NEW f, Base(f), NEW t, Frame(f, t), t.bits = 0, t.mode \in PlainModes
  PROVE  Good(t)
  BY Moves, NoBits, PlainLength

LEMMA ToFewBits ==
  ASSUME Inv, pc = "loop", NEW f, Base(f), NEW t, Frame(f, t), t.bits \in Nat, t.bits < 8,
         t.mode \in {"TYPE", "TYPEDO", "STORED", "TABLE", "LENLENS", "CODELENS", "LEN_", "LEN"}
  PROVE  Good(t)
  BY Moves, FewBits, PlainLength DEF PlainModes

LEMMA ToEnd ==
  ASSUME Inv, pc = "loop", NEW f, Base(f), NEW t, Frame(f, t), t.bits \in Nat, t.bits <= 32,
         t.mode \in {"BAD", "LOST"}
  PROVE  Good(t)
  BY Moves, EndBits, PlainLength DEF PlainModes

Setting(f, m) == [f EXCEPT !.mode = m]
LEMMA SetMode ==
  ASSUME NEW f, Rec(f), NEW m, NEW t, t = Setting(f, m)
  PROVE  Frame(f, t) /\ t.bits = f.bits /\ t.mode = m
         /\ \A x \in Fields \ {"mode"} : t[x] = f[x]
  BY DEF Rec, Fields, Frame, SameOut, Setting

LEMMA ModeStays ==
  ASSUME Inv, pc = "loop", NEW f, NEW m, Mode(f, m), Good(Setting(f, m)), UNCHANGED <<stream, ret, app>>
  PROVE  Inv'
  BY GoodStays DEF Mode, Setting

\* The fields of the header.
LEMMA CrcRec ==
  ASSUME NEW f, Rec(f), NEW n, NEW t, t = CRC(f, n) \/ t = HeadCRC(f, n)
  PROVE  Frame(f, t) /\ \A x \in Fields \ {"check"} : t[x] = f[x]
<1>1. CASE t = CRC(f, n)
  BY <1>1 DEF Rec, Fields, Frame, SameOut, CRC
<1>2. CASE t = f
  BY <1>2 DEF Frame, SameOut
<1> QED  BY <1>1, <1>2 DEF HeadCRC

LEMMA FrameTrans ==
  ASSUME NEW a, NEW b, NEW c, Frame(a, b), Frame(b, c)
  PROVE  Frame(a, c)
  BY DEF Frame, SameOut

LEMMA InitFrame ==
  ASSUME NEW g, Rec(g)
  PROVE  Frame(g, INITBITS(g)) /\ INITBITS(g).bits = 0
         /\ \A x \in Fields \ {"bits"} : INITBITS(g)[x] = g[x]
<1> DEFINE u == INITBITS(g)
<1>1. Rec(u) /\ u.bits = 0 /\ \A x \in Fields \ {"bits"} : u[x] = g[x]
  BY InitRec
<1> HIDE DEF u
<1>2. Frame(g, u)
  BY <1>1 DEF Frame, SameOut, Fields
<1> QED  BY <1>1, <1>2 DEF u

LEMMA DropFrame ==
  ASSUME NEW g, Rec(g), NEW n
  PROVE  Frame(g, DROPBITS(g, n)) /\ DROPBITS(g, n).bits = g.bits - n
         /\ \A x \in Fields \ {"bits"} : DROPBITS(g, n)[x] = g[x]
<1> DEFINE u == DROPBITS(g, n)
<1>1. Rec(u) /\ u.bits = g.bits - n /\ \A x \in Fields \ {"bits"} : u[x] = g[x]
  BY DropRec
<1> HIDE DEF u
<1>2. Frame(g, u)
  BY <1>1 DEF Frame, SameOut, Fields
<1> QED  BY <1>1, <1>2 DEF u

LEMMA ZeroMode ==
  ASSUME Inv, pc = "loop", NEW f, Base(f), NEW g, Frame(f, g), NEW m, m \in PlainModes
  PROVE  Good(Setting(INITBITS(g), m))
<1> DEFINE h == INITBITS(g)
           t == Setting(h, m)
<1>1. Frame(g, h) /\ h.bits = 0
  BY InitFrame DEF Frame
<1> HIDE DEF h
<1>2. Frame(h, t) /\ t.bits = h.bits /\ t.mode = m
  BY <1>1, SetMode DEF Frame
<1> HIDE DEF t
<1>3. Frame(f, t)
  BY <1>1, <1>2, FrameTrans
<1>4. Good(t)
  BY <1>1, <1>2, <1>3, ToNoBits
<1> QED  BY <1>4 DEF t, h

LEMMA BadMode ==
  ASSUME Inv, pc = "loop", NEW f, Base(f), NEW g, Frame(f, g), g.bits \in Nat, g.bits <= 32,
         NEW m, m \in {"BAD", "LOST"}
  PROVE  Good(Setting(g, m))
<1> DEFINE t == Setting(g, m)
<1>1. Frame(g, t) /\ t.bits = g.bits /\ t.mode = m
  BY SetMode DEF Frame
<1> HIDE DEF t
<1>2. Frame(f, t)
  BY <1>1, FrameTrans
<1>3. Good(t)
  BY <1>1, <1>2, ToEnd
<1> QED  BY <1>3 DEF t

LEMMA FewMode ==
  ASSUME Inv, pc = "loop", NEW f, Base(f), NEW g, Frame(f, g), g.bits \in Nat, g.bits < 8,
         NEW m, m \in {"TYPE", "TYPEDO", "STORED", "TABLE", "LENLENS", "CODELENS", "LEN_", "LEN"}
  PROVE  Good(Setting(g, m))
<1> DEFINE t == Setting(g, m)
<1>1. Frame(g, t) /\ t.bits = g.bits /\ t.mode = m
  BY SetMode DEF Frame
<1> HIDE DEF t
<1>2. Frame(f, t)
  BY <1>1, FrameTrans
<1>3. Good(t)
  BY <1>1, <1>2, ToFewBits
<1> QED  BY <1>3 DEF t

LEMMA OwnFrame ==
  ASSUME NEW f, Rec(f)
  PROVE  Frame(f, f)
  BY DEF Frame, SameOut

LEMMA HeadModeKeeps ==
  ASSUME Inv, Enough(z), NEW e, HeadMode(Filled(z), e)
  PROVE  Inv'
<1> DEFINE f == Filled(z)
           a == CRC([f EXCEPT !.check = <<>>], 2)
           b == [f EXCEPT !.flags = NoFlags, !.check = <<>>]
           c == [f EXCEPT !.flags = NoFlags]
<1>1. pc = "loop" /\ z.mode = "HEAD" /\ UNCHANGED <<stream, ret, app>>
  BY DEF HeadMode, In
<1>2. \/ Mode(z, "TYPEDO")
      \/ Mode(INITBITS(a), "FLAGS")
      \/ Mode(INITBITS(b), IF e.v = "zlibdict" THEN "DICTID" ELSE "TYPE")
      \/ Mode(c, "BAD")
  BY DEF HeadMode
<1>3. Base(f) /\ f.bits <= 32
  BY <1>1, FilledBase, FilledOK
<1> HIDE DEF f
<1>4. Frame(f, b) /\ Frame(f, c) /\ c.bits = f.bits
  BY <1>3 DEF Base, Rec, Fields, Frame, SameOut
<1>5. Frame(f, a)
  <2> DEFINE d == [f EXCEPT !.check = <<>>]
  <2>1. Frame(f, d)
    BY <1>3 DEF Base, Rec, Fields, Frame, SameOut
  <2> HIDE DEF d
  <2>2. Frame(d, CRC(d, 2))
    BY <2>1, CrcRec DEF Frame
  <2>3. Frame(f, CRC(d, 2))
    BY <2>1, <2>2, FrameTrans
  <2> QED  BY <2>3 DEF d
<1> HIDE DEF a, b, c
<1>6. Good(Setting(INITBITS(a), "FLAGS"))
  BY <1>1, <1>3, <1>5, ZeroMode DEF PlainModes
<1>7. Good(Setting(INITBITS(b), "DICTID")) /\ Good(Setting(INITBITS(b), "TYPE"))
  BY <1>1, <1>3, <1>4, ZeroMode DEF PlainModes
<1>8. Good(Setting(c, "BAD"))
  BY <1>1, <1>3, <1>4, BadMode DEF Base, InputInv
<1>9. Good(Setting(z, "TYPEDO"))
  <2> DEFINE t == Setting(z, "TYPEDO")
  <2>1. Base(z) /\ z.bits \in {0, 8}
    BY <1>1, OwnBase DEF Inv, Between, BitsInv
  <2>2. Frame(z, t) /\ t.bits = z.bits /\ t.mode = "TYPEDO"
    BY <2>1, SetMode DEF Base
  <2> HIDE DEF t
  <2>3. BitsInv(t) /\ LengthInv(t)
    BY <2>1, <2>2, PlainLength DEF BitsInv, ByteModes, EndModes, PlainModes
  <2>4. Good(t)
    BY <1>1, <2>1, <2>2, <2>3, Moves
  <2> QED  BY <2>4 DEF t
<1> QED  BY <1>1, <1>2, <1>6, <1>7, <1>8, <1>9, ModeStays

LEMMA FlagsKeeps ==
  ASSUME Inv, Enough(z), NEW e, Flags(Filled(z), e)
  PROVE  Inv'
<1> DEFINE f == Filled(z)
           t == [f EXCEPT !.flags = e.v]
<1>1. pc = "loop" /\ UNCHANGED <<stream, ret, app>>
  BY DEF Flags, In
<1>2. Mode(INITBITS(HeadCRC(t, 2)), "TIME") \/ Mode(t, "BAD")
  BY DEF Flags
<1>3. Base(f) /\ f.bits <= 32
  BY <1>1, FilledBase, FilledOK
<1> HIDE DEF f
<1>4. Frame(f, t) /\ t.bits = f.bits
  BY <1>3 DEF Base, Rec, Fields, Frame, SameOut
<1> HIDE DEF t
<1>5. Frame(f, HeadCRC(t, 2))
  BY <1>4, CrcRec, FrameTrans DEF Frame
<1>6. Good(Setting(INITBITS(HeadCRC(t, 2)), "TIME"))
  BY <1>1, <1>3, <1>5, ZeroMode DEF PlainModes
<1>7. Good(Setting(t, "BAD"))
  BY <1>1, <1>3, <1>4, BadMode DEF Base, InputInv
<1> QED  BY <1>1, <1>2, <1>6, <1>7, ModeStays

LEMMA TimeOsKeeps ==
  ASSUME Inv, Enough(z), NEW e, Time(Filled(z), e) \/ Os(Filled(z), e)
  PROVE  Inv'
<1> DEFINE f == Filled(z)
<1>1. pc = "loop" /\ UNCHANGED <<stream, ret, app>>
  BY DEF Time, Os, In
<1>2. Mode(INITBITS(HeadCRC(f, 4)), "OS") \/ Mode(INITBITS(HeadCRC(f, 2)), "EXLEN")
  BY DEF Time, Os
<1>3. Base(f)
  BY <1>1, FilledBase
<1> HIDE DEF f
<1>4. Frame(f, HeadCRC(f, 4)) /\ Frame(f, HeadCRC(f, 2))
  BY <1>3, CrcRec DEF Base
<1>5. Good(Setting(INITBITS(HeadCRC(f, 4)), "OS")) /\ Good(Setting(INITBITS(HeadCRC(f, 2)), "EXLEN"))
  BY <1>1, <1>3, <1>4, ZeroMode DEF PlainModes
<1> QED  BY <1>1, <1>2, <1>5, ModeStays

LEMMA ExlenKeeps ==
  ASSUME Inv, Enough(z), NEW e, ElementOK(e), Looks(z) => e.k \in Kinds[z.mode],
         Exlen(Filled(z), e)
  PROVE  Inv'
<1> DEFINE f == Filled(z)
           g == [f EXCEPT !.length = e.v]
           h == HeadCRC(g, 2)
           i == INITBITS(h)
           t == Setting(i, "EXTRA")
           u == Setting(z, "EXTRA")
<1>1. pc = "loop" /\ z.mode = "EXLEN" /\ UNCHANGED <<stream, ret, app>>
  BY DEF Exlen, In
<1>2. Base(f) /\ Base(z)
  BY <1>1, FilledBase, OwnBase
<1>3. CASE z.flags.extra
  <2>1. Mode(i, "EXTRA")
    BY <1>3 DEF Exlen
  <2>2. e.v \in Nat
    <3>1. Wanted(z) = 16
      BY <1>1, <1>3 DEF Wanted
    <3>2. e.k = "exlen"
      BY <1>1, <3>1 DEF Looks, Kinds
    <3> QED  BY <3>2 DEF ElementOK
  <2> HIDE DEF f
  <2>3. Frame(f, g) /\ g.length = e.v
    BY <1>2 DEF Base, Rec, Fields, Frame, SameOut
  <2> HIDE DEF g
  <2>4. Frame(g, h) /\ h.length = g.length
    BY <2>3, CrcRec DEF Frame, Fields
  <2> HIDE DEF h
  <2>5. Frame(h, i) /\ i.bits = 0 /\ i.length = h.length
    BY <2>4, InitFrame DEF Frame, Fields
  <2> HIDE DEF i
  <2>6. Frame(i, t) /\ t.bits = i.bits /\ t.length = i.length /\ t.mode = "EXTRA"
    BY <2>5, SetMode DEF Frame, Fields
  <2> HIDE DEF t
  <2>7. Frame(f, t)
    BY <2>3, <2>4, <2>5, <2>6, FrameTrans
  <2>8. BitsInv(t) /\ LengthInv(t)
    BY <2>2, <2>3, <2>4, <2>5, <2>6, NoBits DEF LengthInv
  <2>9. Good(t)
    BY <1>1, <1>2, <2>5, <2>6, <2>7, <2>8, Moves
  <2> QED  BY <1>1, <2>1, <2>9, ModeStays DEF t
<1>4. CASE ~z.flags.extra
  <2>1. Mode(z, "EXTRA")
    BY <1>4 DEF Exlen
  <2>2. Wanted(z) = 0
    BY <1>1, <1>4 DEF Wanted
  <2>3. z.bits = 0
    BY <1>1, <2>2 DEF Inv, Between, BitsInv, ByteModes
  <2>4. Frame(z, u) /\ u.bits = z.bits /\ u.flags = z.flags /\ u.mode = "EXTRA"
    BY <1>2, SetMode DEF Base, Fields
  <2> HIDE DEF u
  <2>5. BitsInv(u) /\ LengthInv(u)
    BY <1>4, <2>3, <2>4, NoBits DEF LengthInv
  <2>6. Good(u)
    BY <1>1, <1>2, <2>3, <2>4, <2>5, Moves
  <2> QED  BY <1>1, <2>1, <2>6, ModeStays DEF u
<1> QED  BY <1>3, <1>4

\* Bytes taken straight from the input.
LEMMA HeadBytesOK ==
  ASSUME Inv, pc = "loop", NEW n \in 0 .. z.avail_in, NEW t, t = HeadBytes(n)
  PROVE  Base(t) /\ \A x \in Fields \ {"check", "next", "avail_in"} : t[x] = z[x]
<1> DEFINE u == [z EXCEPT !.next = @ + n, !.avail_in = @ - n]
<1>1. Base(z)
  BY OwnBase
<1>2. /\ Rec(u) /\ u.next = z.next + n /\ u.avail_in = z.avail_in - n
      /\ \A x \in Fields \ {"next", "avail_in"} : u[x] = z[x]
  BY <1>1 DEF Base, Rec, Fields
<1>3. t = HeadCRC(u, n)
  BY DEF HeadBytes
<1> HIDE DEF u
<1>4. Frame(u, t) /\ \A x \in Fields \ {"check"} : t[x] = u[x]
  <2>1. Rec(u)
    BY <1>2
  <2>2. t = CRC(u, n) \/ t = HeadCRC(u, n)
    BY <1>3
  <2> QED  BY <2>1, <2>2, CrcRec
<1>5. \A x \in Fields \ {"check", "next", "avail_in"} : t[x] = z[x]
  BY <1>2, <1>4
<1>6. SameOut(z, t) /\ t.bits = z.bits
  BY <1>5 DEF SameOut, Fields
<1>7. InputInv(t) /\ t.avail_in <= loc.in
  BY <1>1, <1>2, <1>4, <1>6, SMTT(60) DEF Base, Frame, InputInv, Inv, StreamInv, CallInv
<1> QED  BY <1>4, <1>5, <1>6, <1>7 DEF Base, Frame

LEMMA LeastOK ==
  ASSUME NEW n \in Nat, NEW S \in SUBSET (0 .. n), S # {}
  PROVE  (CHOOSE i \in S : \A j \in S : i <= j) \in S
<1> DEFINE R == OpToRel(<, Nat)
<1>1. IsWellFoundedOn(R, Nat)
  BY NatLessThanWellFounded
<1>2. \A x, y \in Nat : y < x => <<y, x>> \in R
  BY DEF OpToRel
<1> HIDE DEF R
<1>3. S \subseteq Nat
  OBVIOUS
<1>4. PICK x \in S : \A y \in S : ~(<<y, x>> \in R)
  BY <1>1, <1>3, WFMin
<1>5. \A y \in S : ~(y < x)
  BY <1>2, <1>3, <1>4, Zenon
<1>6. \A y \in S : x <= y
  BY <1>3, <1>5
<1> QED  BY <1>6

LEMMA HeadStringKeeps ==
  ASSUME Inv, pc = "loop", z.mode \in {"NAME", "COMMENT"}, NEW next \in {"COMMENT", "HCRC"},
         HeadString(next), UNCHANGED <<stream, ret, app>>
  PROVE  Inv'
<1> DEFINE ends == {i \in 1 .. z.avail_in :
                      8 * (z.next + i - 1) \in DOMAIN stream.at
                      /\ stream.at[8 * (z.next + i - 1)].k = "nul"}
           copy == IF ends = {} THEN z.avail_in
                   ELSE CHOOSE i \in ends : \A j \in ends : i <= j
           t == HeadBytes(copy)
           u == Setting(t, next)
<1>1. Leave(t, "OK") \/ Mode(t, next)
  BY DEF HeadString
<1>2. z.avail_in \in Nat
  BY DEF Inv, InputInv
<1>3. copy \in 0 .. z.avail_in
  <2>1. ends \in SUBSET (0 .. z.avail_in)
    BY <1>2
  <2> HIDE DEF ends
  <2>2. ends # {} => (CHOOSE i \in ends : \A j \in ends : i <= j) \in ends
    BY <1>2, <2>1, LeastOK
  <2>3. CASE ends = {}
    BY <1>2, <2>3
  <2>4. CASE ends # {}
    <3>1. copy \in ends
      BY <2>2, <2>4
    <3> QED  BY <2>1, <3>1
  <2> QED  BY <2>3, <2>4
<1> HIDE DEF copy
<1>4. Base(t) /\ \A x \in Fields \ {"check", "next", "avail_in"} : t[x] = z[x]
  BY <1>3, HeadBytesOK
<1>5. z.bits = 0
  <2>1. Wanted(z) = 0
    BY WantedOK DEF Inv, Between
  <2> QED  BY <2>1 DEF Inv, Between, BitsInv, ByteModes
<1> HIDE DEF t
<1>6. t.bits = 0 /\ t.mode = z.mode
  BY <1>4, <1>5 DEF Fields
<1>7. Good(t)
  BY <1>4, <1>6, OwnFrame, ToNoBits DEF Base, PlainModes
<1>8. Frame(t, u) /\ u.bits = 0 /\ u.mode = next
  BY <1>4, <1>6, SetMode DEF Base
<1> HIDE DEF u
<1>9. Good(u)
  BY <1>4, <1>8, ToNoBits DEF PlainModes
<1> QED  BY <1>1, <1>7, <1>9, GoodStays, ModeStays DEF u

LEMMA NameCommentKeeps ==
  ASSUME Inv, Name \/ Comment
  PROVE  Inv'
<1>1. pc = "loop" /\ z.mode \in {"NAME", "COMMENT"} /\ UNCHANGED <<stream, ret, app>>
  BY DEF Name, Comment, In
<1>2. z.bits = 0 /\ Base(z)
  <2>1. Wanted(z) = 0
    BY <1>1, WantedOK DEF Inv, Between
  <2> QED  BY <1>1, <2>1, OwnBase DEF Inv, Between, BitsInv, ByteModes
<1>3. ASSUME NEW m \in {"COMMENT", "HCRC"}, Mode(z, m)
      PROVE  Inv'
  <2> DEFINE u == Setting(z, m)
  <2>1. Frame(z, u) /\ u.bits = 0 /\ u.mode = m
    BY <1>2, SetMode DEF Base
  <2> HIDE DEF u
  <2>2. Good(u)
    BY <1>1, <1>2, <2>1, ToNoBits DEF PlainModes
  <2> QED  BY <1>1, <1>3, <2>2, ModeStays DEF u
<1>4. \/ HeadString("COMMENT") \/ HeadString("HCRC") \/ Mode(z, "COMMENT") \/ Mode(z, "HCRC")
  BY DEF Name, Comment
<1> QED  BY <1>1, <1>3, <1>4, HeadStringKeeps

LEMMA ExtraKeeps ==
  ASSUME Inv, Extra
  PROVE  Inv'
<1> DEFINE copy == MIN(z.length, z.avail_in)
           h == HeadBytes(copy)
           t == [h EXCEPT !.length = @ - copy]
<1>1. pc = "loop" /\ z.mode = "EXTRA" /\ UNCHANGED <<stream, ret, app>>
  BY DEF Extra, In
<1>2. z.bits = 0 /\ Base(z) /\ z.avail_in \in Nat
  <2>1. Wanted(z) = 0
    BY <1>1, WantedOK DEF Inv, Between
  <2> QED  BY <1>1, <2>1, OwnBase DEF Inv, Between, BitsInv, ByteModes, InputInv
<1>3. CASE z.flags.extra
  <2>1. \/ z.length > copy /\ Leave(t, "OK")
        \/ ~(z.length > copy) /\ Mode([t EXCEPT !.length = 0], "NAME")
    BY <1>3 DEF Extra
  <2>2. z.length \in Nat
    BY <1>1, <1>3 DEF Inv, Between, LengthInv
  <2>3. copy \in 0 .. z.avail_in /\ copy <= z.length
    BY <1>2, <2>2 DEF MIN
  <2> HIDE DEF copy
  <2>4. Base(h) /\ \A x \in Fields \ {"check", "next", "avail_in"} : h[x] = z[x]
    BY <1>1, <2>3, HeadBytesOK
  <2> HIDE DEF h
  <2>5. h.bits = 0 /\ h.length = z.length /\ h.mode = "EXTRA"
    BY <1>1, <1>2, <2>4 DEF Fields
  <2>6. Frame(h, t) /\ t.bits = 0 /\ t.length = z.length - copy /\ t.mode = "EXTRA"
    BY <2>4, <2>5 DEF Base, Rec, Fields, Frame, SameOut
  <2> HIDE DEF t
  <2>7. t.length \in Nat
    BY <2>2, <2>3, <2>6
  <2>8. LengthInv(t) /\ BitsInv(t)
    BY <2>6, <2>7, NoBits DEF LengthInv
  <2>9. Good(t)
    BY <1>1, <2>4, <2>6, <2>8, Moves
  <2> DEFINE u == [t EXCEPT !.length = 0]
             w == Setting(u, "NAME")
  <2>10. Frame(t, u) /\ u.bits = 0
    BY <2>6 DEF Rec, Fields, Frame, SameOut
  <2> HIDE DEF u
  <2>11. Frame(u, w) /\ w.bits = 0 /\ w.mode = "NAME"
    BY <2>10, SetMode DEF Frame
  <2> HIDE DEF w
  <2>12. Good(w)
    BY <1>1, <2>4, <2>6, <2>10, <2>11, FrameTrans, ToNoBits DEF PlainModes
  <2> QED  BY <1>1, <2>1, <2>9, <2>12, GoodStays, ModeStays DEF w, u
<1>4. CASE ~z.flags.extra
  <2> DEFINE u == [z EXCEPT !.length = 0]
             w == Setting(u, "NAME")
  <2>1. Mode(u, "NAME")
    BY <1>4 DEF Extra
  <2>2. Frame(z, u) /\ u.bits = 0
    BY <1>2 DEF Base, Rec, Fields, Frame, SameOut
  <2> HIDE DEF u
  <2>3. Frame(u, w) /\ w.bits = 0 /\ w.mode = "NAME"
    BY <2>2, SetMode DEF Frame
  <2> HIDE DEF w
  <2>4. Good(w)
    BY <1>1, <1>2, <2>2, <2>3, FrameTrans, ToNoBits DEF PlainModes
  <2> QED  BY <1>1, <2>1, <2>4, ModeStays DEF w
<1> QED  BY <1>3, <1>4

LEMMA HcrcKeeps ==
  ASSUME Inv, Enough(z), NEW e, Hcrc(Filled(z), e)
  PROVE  Inv'
<1> DEFINE f == Filled(z)
           g == IF z.flags.hcrc THEN INITBITS(f) ELSE z
           h == [g EXCEPT !.check = <<>>]
           t == Setting(h, "TYPE")
<1>1. pc = "loop" /\ z.mode = "HCRC" /\ UNCHANGED <<stream, ret, app>>
  BY DEF Hcrc, In
<1>2. Mode(f, "BAD") \/ Mode(h, "TYPE")
  BY DEF Hcrc
<1>3. Base(f) /\ f.bits <= 32 /\ Base(z)
  BY <1>1, FilledBase, FilledOK, OwnBase
<1> HIDE DEF f
<1>4. Good(Setting(f, "BAD"))
  BY <1>1, <1>3, OwnFrame, BadMode DEF Base, InputInv
<1>5. PICK b : Base(b) /\ Frame(b, g) /\ g.bits = 0
  <2>1. CASE z.flags.hcrc
    BY <2>1, <1>3, InitFrame DEF Base
  <2>2. CASE ~z.flags.hcrc
    <3>1. Wanted(z) = 0
      BY <1>1, <2>2 DEF Wanted
    <3>2. z.bits = 0
      BY <1>1, <3>1 DEF Inv, Between, BitsInv, ByteModes
    <3> QED  BY <2>2, <1>3, <3>2, OwnFrame DEF Base
  <2> QED  BY <2>1, <2>2
<1> HIDE DEF g
<1>6. Frame(g, h) /\ h.bits = 0
  BY <1>5 DEF Frame, Rec, Fields, SameOut
<1> HIDE DEF h
<1>7. Frame(h, t) /\ t.bits = 0 /\ t.mode = "TYPE"
  BY <1>6, SetMode DEF Frame
<1> HIDE DEF t
<1>8. Good(t)
  BY <1>1, <1>5, <1>6, <1>7, FrameTrans, ToNoBits DEF PlainModes
<1> QED  BY <1>1, <1>2, <1>4, <1>8, ModeStays DEF t

LEMMA DictidKeeps ==
  ASSUME Inv, Enough(z), NEW e, Dictid(Filled(z), e)
  PROVE  Inv'
<1> DEFINE f == Filled(z)
           g == [f EXCEPT !.check = e.v]
<1>1. pc = "loop" /\ UNCHANGED <<stream, ret, app>>
  BY DEF Dictid, In
<1>2. Mode(INITBITS(g), "DICT")
  BY DEF Dictid
<1>3. Base(f)
  BY <1>1, FilledBase
<1> HIDE DEF f
<1>4. Frame(f, g)
  BY <1>3 DEF Base, Rec, Fields, Frame, SameOut
<1> HIDE DEF g
<1>5. Good(Setting(INITBITS(g), "DICT"))
  BY <1>1, <1>3, <1>4, ZeroMode DEF PlainModes
<1> QED  BY <1>1, <1>2, <1>5, ModeStays

LEMMA DictKeeps ==
  ASSUME Inv, Dict
  PROVE  Inv'
<1> DEFINE g == [z EXCEPT !.check = <<>>]
           t == Setting(g, "TYPE")
<1>1. pc = "loop" /\ z.mode = "DICT" /\ UNCHANGED <<stream, ret, app>> /\ Mode(g, "TYPE")
  BY DEF Dict, In
<1>2. z.bits = 0 /\ Base(z)
  <2>1. Wanted(z) = 0
    BY <1>1, WantedOK DEF Inv, Between
  <2> QED  BY <1>1, <2>1, OwnBase DEF Inv, Between, BitsInv, ByteModes
<1>3. Frame(z, g) /\ g.bits = 0
  BY <1>2 DEF Base, Rec, Fields, Frame, SameOut
<1> HIDE DEF g
<1>4. Frame(g, t) /\ t.bits = 0 /\ t.mode = "TYPE"
  BY <1>3, SetMode DEF Frame
<1> HIDE DEF t
<1>5. Good(t)
  BY <1>1, <1>2, <1>3, <1>4, FrameTrans, ToNoBits DEF PlainModes
<1> QED  BY <1>1, <1>5, ModeStays DEF t

\* The call is over; the state is one the slow loop leaves.
LEMMA IdleKeeps ==
  ASSUME StreamInv', NEW t, z' = t, pc' = "idle", LocRec(loc)', stream' = stream,
         Rec(t), InputInv(t), OutputInv(t), WindowInv(t), BitsInv(t), LengthInv(t)
  PROVE  Inv'
<1>1. Rec(z)' /\ InputInv(z)' /\ OutputInv(z)' /\ WindowInv(z)'
  BY DEF Rec, InputInv, OutputInv, WindowInv
<1>2. (BitsInv(z) /\ LengthInv(z))'
  BY DEF BitsInv, LengthInv, Wanted, Here, ValueAt, Pos
<1>3. CallInv' /\ FastInv' /\ EndInv'
  BY DEF CallInv, FastInv, EndInv
<1> QED  BY <1>1, <1>2, <1>3 DEF Inv

LEMMA NoLocalsRec == LocRec(NoLocals)
  BY DEF LocRec, LocFields, NoLocals

LEMMA ReturnKeeps ==
  ASSUME Inv, NeedDict \/ Refuse
  PROVE  Inv'
<1>1. pc = "loop" /\ pc' = "idle" /\ loc' = NoLocals /\ z' = z /\ stream' = stream /\ app' = app
  BY DEF NeedDict, Refuse
<1>2. LocRec(loc)'
  BY <1>1, NoLocalsRec DEF LocRec
<1>3. StreamInv'
  BY <1>1 DEF Inv, StreamInv
<1> QED  BY <1>1, <1>2, <1>3, IdleKeeps DEF Inv, Between

LEMMA TypeKeeps ==
  ASSUME Inv, Type
  PROVE  Inv'
<1>1. pc = "loop" /\ z.mode = "TYPE" /\ UNCHANGED <<stream, ret, app>>
      /\ (Leave(z, "OK") \/ Mode(z, "TYPEDO"))
  BY DEF Type, In
<1>2. Base(z) /\ z.bits \in Nat /\ z.bits < 8
  BY <1>1, OwnBase DEF Inv, Between, BitsInv, InputInv
<1>3. Good(Setting(z, "TYPEDO"))
  BY <1>1, <1>2, OwnFrame, FewMode DEF Base
<1> QED  BY <1>1, <1>3, InvGood, GoodStays, ModeStays

LEMMA TypedoKeeps ==
  ASSUME Inv, Enough(z), NEW e, Typedo(Filled(z), e)
  PROVE  Inv'
<1> DEFINE f == Filled(z)
           g == [f EXCEPT !.last = e.last]
           t == DROPBITS(g, 3)
           u == BYTEBITS(z)
           w == Setting(u, "CHECK")
<1>1. pc = "loop" /\ z.mode = "TYPEDO" /\ UNCHANGED <<stream, ret, app>>
  BY DEF Typedo, In
<1>2. \/ z.last /\ Mode(u, "CHECK")
      \/ /\ ~z.last
         /\ \/ Mode(t, "BAD") \/ Mode(t, "STORED") \/ Mode(t, "TABLE") \/ Mode(t, "LEN_")
            \/ Leave([t EXCEPT !.mode = "LEN_"], "OK")
  BY DEF Typedo
<1>3. Base(f) /\ Base(z) /\ z.bits \in Nat /\ z.bits <= 8
  BY <1>1, FilledBase, OwnBase DEF Inv, Between, BitsInv, InputInv
<1>4. CASE z.last /\ Mode(u, "CHECK")
  <2>1. Rec(u) /\ u.bits = z.bits - (z.bits % 8) /\ \A x \in Fields \ {"bits"} : u[x] = z[x]
    BY <1>3, ByteRec DEF Base
  <2> HIDE DEF u
  <2>9. Frame(z, u)
    BY <2>1 DEF Frame, SameOut, Fields
  <2>10. u.bits \in {0, 8}
    BY <1>3, <2>1
  <2>2. Frame(z, u) /\ u.bits \in {0, 8}
    BY <2>9, <2>10
  <2>3. Frame(u, w) /\ w.bits = u.bits /\ w.mode = "CHECK"
    BY <2>1, SetMode
  <2> HIDE DEF w
  <2>4. BitsInv(w) /\ LengthInv(w)
    BY <2>2, <2>3, PlainLength DEF BitsInv, ByteModes, EndModes, PlainModes
  <2>5. Frame(z, w)
    BY <2>2, <2>3, FrameTrans
  <2>6. Good(w)
    BY <1>1, <1>3, <2>2, <2>3, <2>4, <2>5, Moves
  <2> QED  BY <1>1, <1>4, <2>6, ModeStays DEF w
<1>5. CASE ~z.last
  <2>1. Wanted(z) = 3
    BY <1>1, <1>5 DEF Wanted
  <2>8. f.bits >= Wanted(z) /\ (f.bits < Wanted(z) + 8 \/ f.bits = z.bits)
    BY <1>1, FilledOK
  <2> HIDE DEF f
  <2>9. f.bits \in Nat
    BY <1>3 DEF Base, InputInv
  <2>2. f.bits \in 3 .. 10
    BY <1>3, <2>1, <2>8, <2>9
  <2>3. Frame(f, g) /\ g.bits = f.bits
    BY <1>3 DEF Base, Rec, Fields, Frame, SameOut
  <2> HIDE DEF g
  <2>4. Frame(g, t) /\ t.bits = g.bits - 3
    BY <2>3, DropFrame DEF Frame
  <2> HIDE DEF t
  <2>5. Frame(f, t) /\ t.bits \in Nat /\ t.bits < 8
    BY <2>2, <2>3, <2>4, FrameTrans
  <2>6. /\ Good(Setting(t, "BAD")) /\ Good(Setting(t, "STORED")) /\ Good(Setting(t, "TABLE"))
        /\ Good(Setting(t, "LEN_"))
    BY <1>1, <1>3, <2>5, BadMode, FewMode
  <2>7. \/ Mode(t, "BAD") \/ Mode(t, "STORED") \/ Mode(t, "TABLE") \/ Mode(t, "LEN_")
        \/ Leave(Setting(t, "LEN_"), "OK")
    BY <1>2, <1>5 DEF Setting
  <2> QED  BY <1>1, <2>6, <2>7, GoodStays, ModeStays
<1> QED  BY <1>2, <1>4, <1>5

-----------------------------------------------------------------------------
(* Modes that write.                                                       *)

LEMMA AppendRun ==
  ASSUME NEW s \in Seq(Nat), NEW n \in Nat, NEW r \in [1 .. n -> Nat]
  PROVE  s \o r \in Seq(Nat) /\ Len(s \o r) = Len(s) + n
<1>1. r \in Seq(Nat) /\ Len(r) = n
  OBVIOUS
<1> QED  BY <1>1, SMTT(60)

SameWindow(t, u) ==
  /\ u.wsize = t.wsize /\ u.wnext = t.wnext /\ u.whave = t.whave /\ u.window = t.window

LEMMA Writes ==
  ASSUME Inv, pc = "loop", NEW t, Rec(t), SameWindow(z, t), InputInv(t), t.avail_in <= loc.in,
         NEW n \in 0 .. z.avail_out, t.out \in Seq(Nat), Len(t.out) = Len(z.out) + n,
         t.avail_out = z.avail_out - n, BitsInv(t), LengthInv(t)
  PROVE  Good(t)
<1>1. z.avail_out \in Nat /\ z.out \in Seq(Nat) /\ z.avail_out <= loc.out /\ loc.out \in Int
      /\ loc.out - z.avail_out <= Len(z.out)
  BY DEF Inv, OutputInv, CallInv
<1>2. Len(z.out) \in Nat
  BY <1>1
<1>3. OutputInv(t) /\ t.avail_out <= loc.out /\ loc.out - t.avail_out <= Len(t.out)
  BY <1>1, <1>2 DEF OutputInv
<1>4. WindowInv(t)
  BY DEF Inv, SameWindow, WindowInv
<1> QED  BY <1>3, <1>4 DEF Good

LEMMA StoredKeeps ==
  ASSUME Inv, Enough(z), NEW e, e = Here(Filled(z)), Looks(z) => e.k \in Kinds[z.mode],
         Stored(Filled(z), e)
  PROVE  Inv'
<1> DEFINE f == Filled(z)
           g == [f EXCEPT !.length = e.v, !.mode = "COPY_"]
           t == INITBITS(g)
<1>1. pc = "loop" /\ z.mode = "STORED" /\ UNCHANGED <<stream, ret, app>>
  BY DEF Stored, In
<1>2. Mode(f, "BAD") \/ Leave(t, "OK") \/ Stay(t)
  BY DEF Stored
<1>3. Base(f) /\ f.bits = 32
  BY <1>1, FilledBase, FilledOK
<1>4. e.k = "slen"
  <2>1. Wanted(z) = 32
    BY <1>1 DEF Wanted
  <2> QED  BY <1>1, <2>1 DEF Looks, Kinds
<1> HIDE DEF f
<1>5. e = Here(f)
  BY DEF f
<1>6. Pos(f) \in DOMAIN stream.at /\ e = stream.at[Pos(f)]
  BY <1>4, <1>5 DEF Here, NoElement
<1>7. Format(stream, Pos(f))
  BY <1>6, StreamsAssumption DEF Inv, StreamInv
<1>8. e.v \in Nat /\ \A i \in 0 .. e.v - 1 : ValueAt(Pos(f) + (32 + 8 * i))
  BY <1>4, <1>6, <1>7 DEF Format, ValueAt
<1>9. f.next \in Int /\ Pos(f) = 8 * f.next - 32
  BY <1>3 DEF Base, InputInv, Pos
<1>10. \A i \in 0 .. e.v - 1 : ValueAt(8 * (f.next + i))
  <2> SUFFICES ASSUME NEW i \in 0 .. e.v - 1
               PROVE  ValueAt(8 * (f.next + i))
    OBVIOUS
  <2>1. Pos(f) + (32 + 8 * i) = 8 * (f.next + i)
    BY <1>8, <1>9
  <2> QED  BY <1>8, <2>1
<1>11. Frame(f, g) /\ g.length = e.v /\ g.mode = "COPY_"
  BY <1>3 DEF Base, Rec, Fields, Frame, SameOut
<1> HIDE DEF g
<1>12. Frame(g, t) /\ t.bits = 0 /\ t.length = e.v /\ t.mode = "COPY_"
  BY <1>11, InitFrame DEF Frame, Fields
<1> HIDE DEF t
<1>13. t.next = f.next
  BY <1>11, <1>12 DEF Frame
<1>14. LengthInv(t)
  BY <1>8, <1>10, <1>12, <1>13 DEF LengthInv
<1>15. Good(t)
  BY <1>1, <1>3, <1>11, <1>12, <1>14, FrameTrans, NoBits, Moves
<1>16. Good(Setting(f, "BAD"))
  BY <1>1, <1>3, OwnFrame, BadMode DEF Base, InputInv
<1> QED  BY <1>1, <1>2, <1>15, <1>16, GoodStays, ModeStays

LEMMA Copy_Keeps ==
  ASSUME Inv, Copy_
  PROVE  Inv'
<1> DEFINE t == Setting(z, "COPY")
<1>1. pc = "loop" /\ z.mode = "COPY_" /\ UNCHANGED <<stream, ret, app>> /\ Mode(z, "COPY")
  BY DEF Copy_, In
<1>2. Base(z) /\ z.bits = 0
  BY <1>1, OwnBase DEF Inv, Between, BitsInv
<1>3. Frame(z, t) /\ t.bits = 0 /\ t.length = z.length /\ t.mode = "COPY"
  BY <1>2, SetMode DEF Base, Fields
<1> HIDE DEF t
<1>4. LengthInv(t)
  BY <1>1, <1>3 DEF Inv, Between, LengthInv, Frame
<1>5. Good(t)
  BY <1>1, <1>2, <1>3, <1>4, NoBits, Moves
<1> QED  BY <1>1, <1>5, ModeStays DEF t

LEMMA CopyKeeps ==
  ASSUME Inv, Copy
  PROVE  Inv'
<1> DEFINE copy == MIN(MIN(z.length, z.avail_in), z.avail_out)
           byte(i) == IF 8 * (z.next + i - 1) \in DOMAIN stream.at
                      THEN stream.at[8 * (z.next + i - 1)] ELSE NoElement
           r == [i \in 1 .. copy |-> byte(i).v]
           t == [z EXCEPT !.next = @ + copy, !.avail_in = @ - copy,
                          !.avail_out = @ - copy, !.length = @ - copy, !.out = @ \o r]
<1>1. pc = "loop" /\ z.mode = "COPY" /\ UNCHANGED <<stream, ret, app>>
  BY DEF Copy, In
<1>2. Mode(z, "TYPE") \/ Leave(z, "OK") \/ Stay(t)
  BY DEF Copy
<1>3. z.length \in Nat /\ z.avail_in \in Nat /\ z.avail_out \in Nat /\ z.next \in Int
  BY <1>1 DEF Inv, Between, LengthInv, InputInv, OutputInv
<1>4. Base(z) /\ Rec(z) /\ z.bits = 0
  BY <1>1, OwnBase DEF Inv, Between, BitsInv
<1>5. copy \in Nat /\ copy <= z.avail_in /\ copy <= z.avail_out /\ copy <= z.length
  BY <1>3 DEF MIN
<1> HIDE DEF copy
<1>6. \A i \in 0 .. z.length - 1 : ValueAt(8 * (z.next + i))
  BY <1>1 DEF Inv, Between, LengthInv
<1>7. r \in [1 .. copy -> Nat]
  <2> SUFFICES ASSUME NEW i \in 1 .. copy
               PROVE  byte(i).v \in Nat
    OBVIOUS
  <2>1. i - 1 \in 0 .. z.length - 1 /\ 8 * (z.next + (i - 1)) = 8 * (z.next + i - 1)
    BY <1>3, <1>5
  <2>2. ValueAt(8 * (z.next + (i - 1)))
    BY <1>6, <2>1
  <2>3. ValueAt(8 * (z.next + i - 1))
    BY <2>1, <2>2
  <2> QED  BY <2>3 DEF ValueAt, NoElement
<1> HIDE DEF r
<1>8. z.out \in Seq(Nat)
  BY DEF Inv, OutputInv
<1>9. z.out \o r \in Seq(Nat) /\ Len(z.out \o r) = Len(z.out) + copy
  BY <1>5, <1>7, <1>8, AppendRun
<1>10. /\ Rec(t) /\ SameWindow(z, t) /\ t.next = z.next + copy /\ t.avail_in = z.avail_in - copy
       /\ t.avail_out = z.avail_out - copy /\ t.length = z.length - copy /\ t.out = z.out \o r
       /\ t.bits = z.bits /\ t.mode = z.mode
  BY <1>4, ZenonT(60) DEF Rec, Fields, SameWindow
<1> HIDE DEF t
<1>11. z.next + z.avail_in <= stream.bytes /\ z.avail_in <= loc.in /\ loc.in \in Int
  BY <1>1 DEF Inv, InputInv, CallInv
<1>12. t.next \in Int /\ t.avail_in \in Nat /\ t.next + t.avail_in = z.next + z.avail_in
       /\ t.avail_in <= z.avail_in /\ t.length \in Nat
  <2>1. t.next = z.next + copy /\ t.avail_in = z.avail_in - copy /\ t.length = z.length - copy
    BY <1>10
  <2> QED  BY <1>3, <1>5, <2>1
<1>13. InputInv(t) /\ t.avail_in <= loc.in
  BY <1>3, <1>4, <1>10, <1>11, <1>12 DEF InputInv
<1>14. LengthInv(t)
  <2>1. ASSUME NEW i \in 0 .. t.length - 1
        PROVE  ValueAt(8 * (t.next + i))
    <3>1. copy + i \in 0 .. z.length - 1
      BY <1>3, <1>5, <1>10
    <3>2. t.next + i = z.next + (copy + i)
      BY <1>3, <1>5, <1>10
    <3> QED  BY <1>6, <3>1, <3>2
  <2> QED  BY <1>1, <1>10, <1>12, <2>1 DEF LengthInv
<1>15. BitsInv(t)
  BY <1>4, <1>10, NoBits
<1>16. copy \in 0 .. z.avail_out
  BY <1>3, <1>5
<1>17. Good(t)
  BY <1>1, <1>9, <1>10, <1>13, <1>14, <1>15, <1>16, Writes
<1>18. Good(Setting(z, "TYPE"))
  BY <1>1, <1>4, OwnFrame, FewMode
<1> QED  BY <1>1, <1>2, <1>17, <1>18, InvGood, GoodStays, ModeStays

-----------------------------------------------------------------------------
(* Modes that decode a code.                                               *)

\* A mode that takes as many bits as it asked for leaves less than a byte.
LEMMA DropWanted ==
  ASSUME Inv, pc = "loop", Enough(z), z.mode # "STORED", z.bits < 8 \/ z.bits < Wanted(z),
         NEW f, f = Filled(z), NEW t, t = DROPBITS(f, Wanted(z))
  PROVE  /\ Base(f) /\ Frame(f, t) /\ t.bits \in Nat /\ t.bits < 8
         /\ f.bits \in Nat /\ f.bits <= 32 /\ f.bits >= Wanted(z) /\ Here(f) = Here(z)
         /\ \A x \in Fields \ {"bits", "next", "avail_in"} : t[x] = z[x] /\ f[x] = z[x]
<1>1. StreamInv /\ BitsInv(z) /\ LengthInv(z) /\ z.bits \in Nat
  BY DEF Inv, Between, InputInv
<1>2. Wanted(z) \in Nat
  BY <1>1, WantedOK
<1>3. Base(f)
  BY FilledBase
<1>4. Rec(f) /\ f.bits \in Nat
  BY <1>3 DEF Base, InputInv
<1>5. /\ f.bits >= Wanted(z) /\ f.bits <= 32
      /\ f.bits < Wanted(z) + 8 \/ f.bits = z.bits
      /\ Pos(f) = Pos(z)
      /\ \A x \in Fields \ {"bits", "next", "avail_in"} : f[x] = z[x]
  BY FilledOK
<1>6. Frame(f, t) /\ t.bits = f.bits - Wanted(z) /\ \A x \in Fields \ {"bits"} : t[x] = f[x]
  BY <1>4, DropFrame
<1>7. t.bits \in Nat /\ t.bits < 8
  <2>1. t.bits = f.bits - Wanted(z)
    BY <1>6
  <2>2. f.bits >= Wanted(z) /\ (f.bits < Wanted(z) + 8 \/ f.bits = z.bits)
    BY <1>5
  <2> QED  BY <1>1, <1>2, <1>4, <2>1, <2>2
<1>8. Here(f) = Here(z)
  BY <1>5 DEF Here
<1>9. \A x \in Fields \ {"bits", "next", "avail_in"} : t[x] = z[x] /\ f[x] = z[x]
  BY <1>5, <1>6
<1> QED  BY <1>3, <1>4, <1>5, <1>6, <1>7, <1>8, <1>9

LEMMA FewMoves ==
  ASSUME Inv, pc = "loop", NEW f, Base(f), NEW t, Frame(f, t), t.bits \in Nat, t.bits < 8,
         t.mode \in {"TYPE", "TYPEDO", "STORED", "TABLE", "LENLENS", "CODELENS", "LEN_", "LEN",
                     "LENEXT", "DIST", "DISTEXT", "MATCH", "LIT"},
         LengthInv(t)
  PROVE  Good(t)
  BY Moves, FewBits

LEMMA TableKeeps ==
  ASSUME Inv, Enough(z), NEW e, Table(Filled(z), e)
  PROVE  Inv'
<1> DEFINE f == Filled(z)
           t == DROPBITS(f, 14)
           u == [t EXCEPT !.ncode = e.v, !.nlens = e.x, !.have = 0]
<1>1. pc = "loop" /\ z.mode = "TABLE" /\ UNCHANGED <<stream, ret, app>>
  BY DEF Table, In
<1>2. Mode(u, "LENLENS") \/ Mode(t, "BAD")
  BY DEF Table
<1>3. Wanted(z) = 14 /\ z.bits < 14
  BY <1>1 DEF Wanted, Inv, Between, BitsInv
<1>4. Base(f) /\ Frame(f, t) /\ t.bits \in Nat /\ t.bits < 8
  BY <1>1, <1>3, DropWanted
<1> HIDE DEF f, t
<1>5. Frame(t, u) /\ u.bits = t.bits
  BY <1>4 DEF Frame, Rec, Fields, SameOut
<1> HIDE DEF u
<1>6. Good(Setting(u, "LENLENS"))
  BY <1>1, <1>4, <1>5, FrameTrans, FewMode
<1>7. Good(Setting(t, "BAD"))
  BY <1>1, <1>4, BadMode
<1> QED  BY <1>1, <1>2, <1>6, <1>7, ModeStays

LEMMA LenlensKeeps ==
  ASSUME Inv, Enough(z), NEW e, Lenlens(Filled(z), e)
  PROVE  Inv'
<1> DEFINE f == Filled(z)
           d == DROPBITS(f, 3)
           t == [d EXCEPT !.have = @ + 1]
           u == [t EXCEPT !.have = 0]
<1>1. pc = "loop" /\ z.mode = "LENLENS" /\ UNCHANGED <<stream, ret, app>>
  BY DEF Lenlens, In
<1>2. Stay(t) \/ Mode(u, "CODELENS") \/ Mode(t, "BAD")
  BY DEF Lenlens
<1>3. Wanted(z) = 3 /\ z.bits < 8
  BY <1>1 DEF Wanted, Inv, Between, BitsInv
<1>4. Base(f) /\ Frame(f, d) /\ d.bits \in Nat /\ d.bits < 8 /\ d.mode = "LENLENS"
  BY <1>1, <1>3, DropWanted DEF Fields
<1> HIDE DEF f, d
<1>5. Frame(d, t) /\ t.bits = d.bits /\ t.mode = d.mode
  BY <1>4 DEF Frame, Rec, Fields, SameOut
<1> HIDE DEF t
<1>6. Frame(t, u) /\ u.bits = t.bits
  BY <1>5 DEF Frame, Rec, Fields, SameOut
<1> HIDE DEF u
<1>7. Frame(f, t) /\ Frame(f, u)
  BY <1>4, <1>5, <1>6, FrameTrans
<1>8. Good(t)
  BY <1>1, <1>4, <1>5, <1>7, ToFewBits
<1>9. Good(Setting(u, "CODELENS"))
  BY <1>1, <1>4, <1>5, <1>6, <1>7, FewMode
<1>10. Good(Setting(t, "BAD"))
  BY <1>1, <1>4, <1>5, <1>7, BadMode
<1> QED  BY <1>1, <1>2, <1>8, <1>9, <1>10, GoodStays, ModeStays

LEMMA CodelensKeeps ==
  ASSUME Inv, Enough(z), NEW e, e = Here(Filled(z)), Looks(z) => e.k \in Kinds[z.mode],
         Codelens(Filled(z), e)
  PROVE  Inv'
<1> DEFINE f == Filled(z)
           d == DROPBITS(f, e.n)
           t == [d EXCEPT !.have = @ + e.v]
           r == DROPBITS(f, e.n - e.x)
<1>1. pc = "loop" /\ z.mode = "CODELENS" /\ UNCHANGED <<stream, ret, app>>
  BY DEF Codelens, In
<1>2. Mode(r, "BAD") \/ Mode(d, "BAD") \/ Stay(t) \/ Mode(t, "BAD")
      \/ Leave(Setting(t, "LEN_"), "OK") \/ Mode(t, "LEN_")
  BY DEF Codelens, Setting
<1>3. e.k = "lens"
  BY <1>1 DEF Looks, Kinds
<1>4. StreamInv /\ BitsInv(z) /\ LengthInv(z)
  BY <1>1 DEF Inv, Between
<1>5. ElementOK(e) /\ ElementOK(Here(z))
  BY <1>4, HereOK
<1>6. Wanted(z) = CodeBits(Here(z))
  BY <1>1, <1>4, WantedOK
<1>7. z.bits < 8 \/ z.bits < Wanted(z)
  BY <1>1, <1>4, <1>6 DEF BitsInv
<1>8. Here(f) = Here(z)
  BY <1>1, <1>7, DropWanted
<1>9. e.n = Wanted(z)
  BY <1>3, <1>5, <1>6, <1>8, CodeBitsOK
<1>10. /\ Base(f) /\ Frame(f, d) /\ d.bits \in Nat /\ d.bits < 8 /\ d.mode = "CODELENS"
       /\ f.bits \in Nat /\ f.bits <= 32 /\ f.bits >= e.n /\ Rec(f)
  BY <1>1, <1>7, <1>9, DropWanted DEF Fields, Base
<1> HIDE DEF f, d
<1>11. Frame(d, t) /\ t.bits = d.bits /\ t.mode = d.mode
  BY <1>10 DEF Frame, Rec, Fields, SameOut
<1> HIDE DEF t
<1>12. Frame(f, t)
  BY <1>10, <1>11, FrameTrans
<1>13. Frame(f, r) /\ r.bits = f.bits - (e.n - e.x)
  BY <1>10, DropFrame
<1> HIDE DEF r
<1>14. r.bits \in Nat /\ r.bits <= 32
  <2>1. e.n \in Nat /\ e.x \in 0 .. e.n
    BY <1>3, <1>5 DEF ElementOK
  <2>2. r.bits = f.bits - (e.n - e.x) /\ f.bits \in Nat /\ f.bits <= 32 /\ f.bits >= e.n
    BY <1>10, <1>13
  <2> QED  BY <2>1, <2>2
<1>15. Good(t)
  BY <1>1, <1>10, <1>11, <1>12, ToFewBits
<1>16. Good(Setting(t, "LEN_"))
  BY <1>1, <1>10, <1>11, <1>12, FewMode
<1>17. Good(Setting(t, "BAD")) /\ Good(Setting(d, "BAD"))
  BY <1>1, <1>10, <1>11, <1>12, BadMode
<1>18. Good(Setting(r, "BAD"))
  BY <1>1, <1>10, <1>13, <1>14, BadMode
<1> QED  BY <1>1, <1>2, <1>15, <1>16, <1>17, <1>18, GoodStays, ModeStays

LEMMA Len_Keeps ==
  ASSUME Inv, Len_
  PROVE  Inv'
<1>1. pc = "loop" /\ z.mode = "LEN_" /\ UNCHANGED <<stream, ret, app>> /\ Mode(z, "LEN")
  BY DEF Len_, In
<1>2. Base(z) /\ Rec(z) /\ z.bits \in Nat /\ z.bits < 8
  BY <1>1, OwnBase DEF Inv, Between, BitsInv, InputInv
<1>3. Good(Setting(z, "LEN"))
  BY <1>1, <1>2, OwnFrame, FewMode
<1> QED  BY <1>1, <1>3, ModeStays

\* What LEN and DIST find: a code whose bits have been pulled and are dropped.
LEMMA CodeDropped ==
  ASSUME Inv, pc = "loop", Enough(z), z.mode \in {"LEN", "DIST"}, NEW e, e = Here(Filled(z)),
         Looks(z) => e.k \in Kinds[z.mode], NEW f, f = Filled(z), NEW t, t = DROPBITS(f, e.n)
  PROVE  /\ Base(f) /\ Frame(f, t) /\ t.bits \in Nat /\ t.bits < 8 /\ ElementOK(e)
         /\ z.mode = "LEN" => e.k \in {"lit", "len", "eob"}
         /\ z.mode = "DIST" => e.k = "dist"
         /\ \A x \in Fields \ {"bits", "next", "avail_in"} : t[x] = z[x]
<1>1. e.k \in Kinds[z.mode]
  BY DEF Looks
<1>2. (z.mode = "LEN" => e.k \in {"lit", "len", "eob"}) /\ (z.mode = "DIST" => e.k = "dist")
  BY <1>1 DEF Kinds
<1>3. StreamInv /\ BitsInv(z) /\ LengthInv(z)
  BY DEF Inv, Between
<1>4. ElementOK(e)
  BY <1>3, HereOK
<1>5. Wanted(z) = CodeBits(Here(z))
  BY <1>3, WantedOK
<1>6. z.bits < 8 \/ z.bits < Wanted(z)
  BY <1>3, <1>5 DEF BitsInv
<1>7. Here(f) = Here(z)
  BY <1>6, DropWanted
<1>8. e.n = Wanted(z)
  BY <1>2, <1>4, <1>5, <1>7, CodeBitsOK
<1>9. /\ Base(f) /\ Frame(f, t) /\ t.bits \in Nat /\ t.bits < 8
      /\ \A x \in Fields \ {"bits", "next", "avail_in"} : t[x] = z[x]
  BY <1>6, <1>8, DropWanted
<1> QED  BY <1>2, <1>4, <1>9

LEMMA Len1Keeps ==
  ASSUME Inv, Enough(z), NEW e, e = Here(Filled(z)), Looks(z) => e.k \in Kinds[z.mode],
         Len1(Filled(z), e)
  PROVE  Inv'
<1> DEFINE f == Filled(z)
           t == DROPBITS(f, e.n)
           u == [t EXCEPT !.length = e.v]
           v == Setting(u, "LIT")
           x == [t EXCEPT !.length = e.v, !.extra = e.x]
           y == Setting(x, "LENEXT")
<1>1. pc = "loop" /\ z.mode = "LEN" /\ UNCHANGED <<stream, ret, app>>
  BY DEF Len1, In
<1>2. \/ Mode(t, "BAD") \/ Mode(t, "TYPE")
      \/ e.k = "lit" /\ Mode(u, "LIT")
      \/ e.k # "lit" /\ e.k # "eob" /\ Mode(x, "LENEXT")
  BY DEF Len1
<1>3. Base(f) /\ Frame(f, t) /\ t.bits \in Nat /\ t.bits < 8 /\ ElementOK(e)
      /\ e.k \in {"lit", "len", "eob"}
  BY <1>1, CodeDropped
<1> HIDE DEF f, t
<1>4. Good(Setting(t, "BAD")) /\ Good(Setting(t, "TYPE"))
  BY <1>1, <1>3, BadMode, FewMode
<1>5. CASE e.k = "lit" /\ Mode(u, "LIT")
  <2>1. e.v \in Nat
    BY <1>3, <1>5 DEF ElementOK
  <2>2. Frame(t, u) /\ u.bits = t.bits /\ u.length = e.v
    BY <1>3 DEF Frame, Rec, Fields, SameOut
  <2> HIDE DEF u
  <2>3. Frame(u, v) /\ v.bits = u.bits /\ v.length = u.length /\ v.mode = "LIT"
    BY <2>2, SetMode DEF Frame, Fields
  <2> HIDE DEF v
  <2>4. Frame(f, v)
    BY <1>3, <2>2, <2>3, FrameTrans
  <2>5. LengthInv(v)
    BY <2>1, <2>2, <2>3 DEF LengthInv
  <2>6. Good(v)
    BY <1>1, <1>3, <2>2, <2>3, <2>4, <2>5, FewMoves
  <2> QED  BY <1>1, <1>5, <2>6, ModeStays DEF v
<1>6. CASE e.k = "len" /\ Mode(x, "LENEXT")
  <2>1. e.v \in Nat /\ e.x \in 0 .. 13
    BY <1>3, <1>6, SizesAssumption DEF ElementOK
  <2>2. Frame(t, x) /\ x.bits = t.bits /\ x.length = e.v /\ x.extra = e.x
    BY <1>3 DEF Frame, Rec, Fields, SameOut
  <2> HIDE DEF x
  <2>3. Frame(x, y) /\ y.bits = x.bits /\ y.length = x.length /\ y.extra = x.extra
        /\ y.mode = "LENEXT"
    BY <2>2, SetMode DEF Frame, Fields
  <2> HIDE DEF y
  <2>4. Frame(f, y)
    BY <1>3, <2>2, <2>3, FrameTrans
  <2>5. LengthInv(y)
    BY <2>1, <2>2, <2>3 DEF LengthInv
  <2>6. Good(y)
    BY <1>1, <1>3, <2>2, <2>3, <2>4, <2>5, FewMoves
  <2> QED  BY <1>1, <1>6, <2>6, ModeStays DEF y
<1> QED  BY <1>1, <1>2, <1>3, <1>4, <1>5, <1>6, ModeStays

LEMMA DistKeeps ==
  ASSUME Inv, Enough(z), NEW e, e = Here(Filled(z)), Looks(z) => e.k \in Kinds[z.mode],
         Dist(Filled(z), e)
  PROVE  Inv'
<1> DEFINE f == Filled(z)
           t == DROPBITS(f, e.n)
           u == [t EXCEPT !.offset = e.v, !.extra = e.x]
           v == Setting(u, "DISTEXT")
<1>1. pc = "loop" /\ z.mode = "DIST" /\ UNCHANGED <<stream, ret, app>>
  BY DEF Dist, In
<1>2. Mode(u, "DISTEXT") \/ Mode(t, "BAD")
  BY DEF Dist
<1>3. Base(f) /\ Frame(f, t) /\ t.bits \in Nat /\ t.bits < 8 /\ ElementOK(e) /\ e.k = "dist"
      /\ t.length = z.length
  BY <1>1, CodeDropped DEF Fields
<1> HIDE DEF f, t
<1>4. Good(Setting(t, "BAD"))
  BY <1>1, <1>3, BadMode
<1>5. e.v \in Nat \ {0} /\ e.x \in 0 .. 13
  BY <1>3 DEF ElementOK
<1>6. z.length \in Nat
  BY <1>1 DEF Inv, Between, LengthInv
<1>7. Frame(t, u) /\ u.bits = t.bits /\ u.length = t.length /\ u.offset = e.v /\ u.extra = e.x
  BY <1>3 DEF Frame, Rec, Fields, SameOut
<1> HIDE DEF u
<1>8. Frame(u, v) /\ v.bits = u.bits /\ v.length = u.length /\ v.offset = u.offset
      /\ v.extra = u.extra /\ v.mode = "DISTEXT"
  BY <1>7, SetMode DEF Frame, Fields
<1> HIDE DEF v
<1>9. LengthInv(v)
  BY <1>3, <1>5, <1>6, <1>7, <1>8 DEF LengthInv
<1>10. Frame(f, v)
  BY <1>3, <1>7, <1>8, FrameTrans
<1>11. Good(v)
  BY <1>1, <1>3, <1>7, <1>8, <1>9, <1>10, FewMoves
<1> QED  BY <1>1, <1>2, <1>4, <1>11, ModeStays DEF v

\* The extra bits of a length or a distance.
LEMMA ExtraDropped ==
  ASSUME Inv, pc = "loop", Enough(z), z.mode \in {"LENEXT", "DISTEXT"}, NEW e,
         e = Here(Filled(z)), Looks(z) => e.k \in Kinds[z.mode],
         NEW f, f = Filled(z), NEW t, t = DROPBITS(f, z.extra)
  PROVE  /\ Base(f) /\ Frame(f, t) /\ t.bits \in Nat /\ t.bits < 8 /\ ExtraBits(e) \in Nat
         /\ t.length = z.length /\ t.offset = z.offset
<1>1. StreamInv /\ BitsInv(z) /\ LengthInv(z) /\ z.extra \in 0 .. 13
  BY DEF Inv, Between, LengthInv
<1>2. Wanted(z) = z.extra
  BY <1>1, WantedOK
<1>3. z.bits < 8 \/ z.bits < Wanted(z)
  BY <1>1, <1>2 DEF BitsInv
<1>4. Base(f) /\ Frame(f, t) /\ t.bits \in Nat /\ t.bits < 8
      /\ \A x \in Fields \ {"bits", "next", "avail_in"} : t[x] = z[x]
  BY <1>2, <1>3, DropWanted
<1>5. ExtraBits(e) \in Nat
  <2>1. CASE z.extra = 0
    BY <2>1 DEF ExtraBits
  <2>2. CASE z.extra > 0
    <3>1. e.k \in {"lext", "dext"}
      BY <2>2, <1>2 DEF Looks, Kinds
    <3>2. ElementOK(e)
      BY <1>1, HereOK
    <3>3. e.v \in Nat
      BY <3>1, <3>2 DEF ElementOK
    <3> QED  BY <3>3 DEF ExtraBits
  <2> QED  BY <1>1, <2>1, <2>2
<1>6. t.length = z.length /\ t.offset = z.offset
  BY <1>4 DEF Fields
<1> QED  BY <1>4, <1>5, <1>6

LEMMA LenextKeeps ==
  ASSUME Inv, Enough(z), NEW e, e = Here(Filled(z)), Looks(z) => e.k \in Kinds[z.mode],
         Lenext(Filled(z), e)
  PROVE  Inv'
<1> DEFINE f == Filled(z)
           t == DROPBITS(f, z.extra)
           n == ExtraBits(e)
           u == [t EXCEPT !.length = @ + n]
           v == Setting(u, "DIST")
<1>1. pc = "loop" /\ z.mode = "LENEXT" /\ UNCHANGED <<stream, ret, app>> /\ Mode(u, "DIST")
  BY DEF Lenext, In
<1>2. Base(f) /\ Frame(f, t) /\ t.bits \in Nat /\ t.bits < 8 /\ n \in Nat /\ t.length = z.length
  BY <1>1, ExtraDropped
<1> HIDE DEF f, t, n
<1>3. z.length \in Nat
  BY <1>1 DEF Inv, Between, LengthInv
<1>4. Frame(t, u) /\ u.bits = t.bits /\ u.length = t.length + n
  BY <1>2 DEF Frame, Rec, Fields, SameOut
<1> HIDE DEF u
<1>5. Frame(u, v) /\ v.bits = u.bits /\ v.length = u.length /\ v.mode = "DIST"
  BY <1>4, SetMode DEF Frame, Fields
<1> HIDE DEF v
<1>6. v.length \in Nat
  BY <1>2, <1>3, <1>4, <1>5
<1>7. LengthInv(v)
  BY <1>5, <1>6 DEF LengthInv
<1>8. Frame(f, v)
  BY <1>2, <1>4, <1>5, FrameTrans
<1>9. Good(v)
  BY <1>1, <1>2, <1>4, <1>5, <1>7, <1>8, FewMoves
<1> QED  BY <1>1, <1>9, ModeStays DEF v

LEMMA DistextKeeps ==
  ASSUME Inv, Enough(z), NEW e, e = Here(Filled(z)), Looks(z) => e.k \in Kinds[z.mode],
         Distext(Filled(z), e)
  PROVE  Inv'
<1> DEFINE f == Filled(z)
           t == DROPBITS(f, z.extra)
           n == ExtraBits(e)
           u == [t EXCEPT !.offset = @ + n]
           v == Setting(u, "MATCH")
<1>1. pc = "loop" /\ z.mode = "DISTEXT" /\ UNCHANGED <<stream, ret, app>> /\ Mode(u, "MATCH")
  BY DEF Distext, In
<1>2. Base(f) /\ Frame(f, t) /\ t.bits \in Nat /\ t.bits < 8 /\ n \in Nat
      /\ t.length = z.length /\ t.offset = z.offset
  BY <1>1, ExtraDropped
<1> HIDE DEF f, t, n
<1>3. z.length \in Nat /\ z.offset \in Nat \ {0}
  BY <1>1 DEF Inv, Between, LengthInv
<1>4. Frame(t, u) /\ u.bits = t.bits /\ u.length = t.length /\ u.offset = t.offset + n
  BY <1>2 DEF Frame, Rec, Fields, SameOut
<1> HIDE DEF u
<1>5. Frame(u, v) /\ v.bits = u.bits /\ v.length = u.length /\ v.offset = u.offset
      /\ v.mode = "MATCH"
  BY <1>4, SetMode DEF Frame, Fields
<1> HIDE DEF v
<1>6. v.length \in Nat /\ v.offset \in Nat \ {0}
  <2>1. v.length = z.length /\ v.offset = z.offset + n /\ n \in Nat
    BY <1>2, <1>4, <1>5
  <2> QED  BY <1>3, <2>1
<1>7. LengthInv(v)
  BY <1>5, <1>6 DEF LengthInv
<1>8. Frame(f, v)
  BY <1>2, <1>4, <1>5, FrameTrans
<1>9. Good(v)
  BY <1>1, <1>2, <1>4, <1>5, <1>7, <1>8, FewMoves
<1> QED  BY <1>1, <1>9, ModeStays DEF v

LEMMA LitKeeps ==
  ASSUME Inv, Lit
  PROVE  Inv'
<1> DEFINE t == [z EXCEPT !.out = Append(@, z.length), !.avail_out = @ - 1]
           u == Setting(t, "LEN")
<1>1. pc = "loop" /\ z.mode = "LIT" /\ UNCHANGED <<stream, ret, app>>
  BY DEF Lit, In
<1>2. \/ Leave(z, "OK")
      \/ z.avail_out # 0 /\ Mode(t, "LEN")
  BY DEF Lit
<1>3. CASE Leave(z, "OK")
  BY <1>1, <1>3, InvGood, GoodStays
<1>4. CASE z.avail_out # 0 /\ Mode(t, "LEN")
  <2>1. z.length \in Nat /\ z.avail_out \in Nat /\ z.out \in Seq(Nat)
    BY <1>1 DEF Inv, Between, LengthInv, OutputInv
  <2>2. Rec(z) /\ InputInv(z) /\ z.avail_in <= loc.in /\ z.bits \in Nat /\ z.bits < 8
    BY <1>1 DEF Inv, CallInv, Between, BitsInv, InputInv
  <2>3. /\ Rec(u) /\ SameWindow(z, u) /\ u.next = z.next /\ u.avail_in = z.avail_in
        /\ u.avail_out = z.avail_out - 1 /\ u.out = Append(z.out, z.length) /\ u.bits = z.bits
        /\ u.mode = "LEN"
    BY <2>2 DEF Rec, Fields, SameWindow, Setting
  <2> HIDE DEF u
  <2>4. InputInv(u) /\ u.avail_in <= loc.in
    BY <2>2, <2>3 DEF InputInv
  <2>5. BitsInv(u) /\ LengthInv(u)
    BY <2>2, <2>3, FewBits, PlainLength DEF PlainModes
  <2>6. u.out \in Seq(Nat) /\ Len(u.out) = Len(z.out) + 1
    BY <2>1, <2>3
  <2>7. 1 \in 0 .. z.avail_out
    BY <1>4, <2>1
  <2>8. Good(u)
    BY <1>1, <2>3, <2>4, <2>5, <2>6, <2>7, Writes
  <2> QED  BY <1>1, <1>4, <2>8, ModeStays DEF u
<1> QED  BY <1>2, <1>3, <1>4

-----------------------------------------------------------------------------
(* Copies.                                                                 *)

\* What has been written of the window ends where the next byte goes, until it
\* is full.
LEMMA NextWithin ==
  ASSUME NEW t, WindowInv(t), t.whave > 0
  PROVE  /\ t.whave \in Nat /\ t.wnext \in Nat /\ t.wnext <= t.whave /\ t.wsize = WSIZE
         /\ t.whave <= WSIZE
         /\ t.wnext < t.whave => t.whave = WSIZE
<1>1. WSIZE \in Nat /\ WSIZE > 0
  BY SizesAssumption
<1>2. t.wsize \in {0, WSIZE} /\ t.wnext \in 0 .. WSIZE - 1 /\ t.whave \in 0 .. t.wsize
      /\ (t.whave < t.wsize => t.wnext = t.whave)
  BY DEF WindowInv
<1> QED  BY <1>1, <1>2

LEMMA WindowRun ==
  ASSUME NEW t, WindowInv(t), NEW from \in Nat, NEW n \in Nat, from + n <= t.whave
  PROVE  WindowBytes(t, from, n) \in [1 .. n -> Nat]
<1>1. t.whave \in Nat /\ \A i \in 0 .. t.whave - 1 : t.window[i] \in Nat
  BY SizesAssumption, SMTT(60) DEF WindowInv
<1>2. ASSUME NEW i \in 1 .. n
      PROVE  t.window[from + i - 1] \in Nat
  <2>1. from + i - 1 \in 0 .. t.whave - 1
    BY <1>1
  <2> QED  BY <1>1, <2>1
<1> QED  BY <1>2 DEF WindowBytes

LEMMA BackRun ==
  ASSUME NEW h \in Seq(Nat), NEW d \in Nat \ {0}, d <= Len(h), NEW n \in Nat
  PROVE  Back(h, d, n) \in [1 .. n -> Nat]
<1>1. PICK l \in Nat : l = Len(h)
  OBVIOUS
<1>2. ASSUME NEW i \in 1 .. n
      PROVE  h[l - d + 1 + ((i - 1) % d)] \in Nat
  <2>1. i - 1 \in Int
    OBVIOUS
  <2>2. (i - 1) % d \in 0 .. d - 1
    BY <2>1
  <2>3. PICK m \in 0 .. d - 1 : m = (i - 1) % d
    BY <2>2
  <2>4. l - d + 1 + m \in 1 .. l
    BY <1>1
  <2> QED  BY <1>1, <2>3, <2>4
<1> QED  BY <1>1, <1>2 DEF Back

\* The piece of the window inflate() copies from.
LEMMA FromWindowOK ==
  ASSUME NEW t, WindowInv(t), NEW op \in Nat, op > 0, op <= t.whave, NEW w, w = FromWindow(t, op)
  PROVE  w.from \in Nat /\ w.n \in Nat /\ w.from + w.n <= t.whave
<1>1. /\ t.whave \in Nat /\ t.wnext \in Nat /\ t.wnext <= t.whave /\ t.wsize = WSIZE
      /\ t.whave <= WSIZE
      /\ t.wnext < t.whave => t.whave = WSIZE
  <2>1. t.whave > 0
    BY SizesAssumption DEF WindowInv
  <2> QED  BY <2>1, NextWithin
<1>2. CASE op > t.wnext
  <2>1. w.from = t.wsize - (op - t.wnext) /\ w.n = op - t.wnext
    BY <1>2 DEF FromWindow
  <2> QED  BY <1>1, <1>2, <2>1, SizesAssumption, SMTT(60)
<1>3. CASE ~(op > t.wnext)
  <2>1. w.from = t.wnext - op /\ w.n = op
    BY <1>3 DEF FromWindow
  <2> QED  BY <1>1, <1>3, <2>1
<1> QED  BY <1>2, <1>3

LEMMA MatchKeeps ==
  ASSUME Inv, Match
  PROVE  Inv'
<1> DEFINE written == loc.out - z.avail_out
           w == FromWindow(z, z.offset - written)
           inOutput == z.offset <= written
           copy == MIN(IF inOutput THEN z.length ELSE MIN(w.n, z.length), z.avail_out)
           bytes == IF inOutput THEN Back(z.out, z.offset, copy)
                    ELSE WindowBytes(z, w.from, copy)
           t == [z EXCEPT !.out = @ \o bytes, !.avail_out = @ - copy, !.length = @ - copy,
                          !.mode = IF z.length = copy THEN "LEN" ELSE @]
<1>1. pc = "loop" /\ z.mode = "MATCH" /\ UNCHANGED <<stream, ret, app>>
  BY DEF Match, In
<1>2. \/ Leave(z, "OK") \/ Mode(z, "BAD")
      \/ ~(z.avail_out # 0 /\ z.offset - written > z.whave) /\ z.avail_out # 0 /\ Stay(t)
  BY DEF Match
<1>3. z.length \in Nat /\ z.offset \in Nat /\ z.offset > 0 /\ z.avail_out \in Nat
      /\ loc.out \in Int /\ z.avail_out <= loc.out
  BY <1>1 DEF Inv, Between, LengthInv, OutputInv, CallInv
<1>4. z.out \in Seq(Nat) /\ written <= Len(z.out) /\ WindowInv(z)
  BY <1>1 DEF Inv, OutputInv, CallInv
<1>5. Base(z) /\ Rec(z) /\ InputInv(z) /\ z.avail_in <= loc.in /\ z.bits \in Nat /\ z.bits < 8
  BY <1>1, OwnBase DEF Inv, Between, BitsInv, InputInv, CallInv
<1>6. Good(Setting(z, "BAD"))
  BY <1>1, <1>5, OwnFrame, BadMode
<1>7. CASE ~(z.offset - written > z.whave) /\ Stay(t)
  <2>1. written \in Nat
    BY <1>3
  <2> HIDE DEF written
  <2>2. ~inOutput => w.from \in Nat /\ w.n \in Nat /\ w.from + w.n <= z.whave
    <3> SUFFICES ASSUME ~inOutput
                 PROVE  w.from \in Nat /\ w.n \in Nat /\ w.from + w.n <= z.whave
      OBVIOUS
    <3>1. z.whave \in Nat
      BY <1>4, SizesAssumption DEF WindowInv
    <3>2. z.offset - written \in Nat /\ z.offset - written > 0 /\ z.offset - written <= z.whave
      BY <1>3, <1>7, <2>1, <3>1
    <3> QED  BY <1>4, <3>2, FromWindowOK
  <2> HIDE DEF w
  <2>3. copy \in Nat /\ copy <= z.length /\ copy <= z.avail_out
        /\ (~inOutput => copy <= w.n)
    BY <1>3, <2>2 DEF MIN
  <2> HIDE DEF copy
  <2>4. bytes \in [1 .. copy -> Nat]
    <3>1. CASE inOutput
      <4>1. z.offset \in Nat \ {0} /\ z.offset <= Len(z.out)
        BY <1>3, <1>4, <2>1, <3>1
      <4>2. Back(z.out, z.offset, copy) \in [1 .. copy -> Nat]
        BY <1>4, <2>3, <4>1, BackRun
      <4> QED  BY <3>1, <4>2
    <3>2. CASE ~inOutput
      <4>1. w.from \in Nat /\ w.from + copy <= z.whave
        <5>1. z.whave \in Nat
          BY <1>4, SizesAssumption DEF WindowInv
        <5> QED  BY <2>2, <2>3, <3>2, <5>1
      <4>2. WindowBytes(z, w.from, copy) \in [1 .. copy -> Nat]
        BY <1>4, <2>3, <4>1, WindowRun
      <4> QED  BY <3>2, <4>2
    <3> QED  BY <3>1, <3>2
  <2> HIDE DEF bytes
  <2>5. z.out \o bytes \in Seq(Nat) /\ Len(z.out \o bytes) = Len(z.out) + copy
    BY <1>4, <2>3, <2>4, AppendRun
  <2>6. /\ Rec(t) /\ SameWindow(z, t) /\ t.next = z.next /\ t.avail_in = z.avail_in
        /\ t.avail_out = z.avail_out - copy /\ t.length = z.length - copy
        /\ t.out = z.out \o bytes /\ t.bits = z.bits /\ t.offset = z.offset
        /\ t.mode = IF z.length = copy THEN "LEN" ELSE z.mode
    BY <1>5 DEF Rec, Fields, SameWindow
  <2> HIDE DEF t
  <2>7. t.length \in Nat /\ t.offset \in Nat \ {0} /\ t.mode \in {"LEN", "MATCH"}
    <3>1. t.length = z.length - copy /\ t.offset = z.offset /\ t.mode \in {"LEN", "MATCH"}
      BY <1>1, <2>6
    <3> QED  BY <1>3, <2>3, <3>1
  <2>8. LengthInv(t)
    BY <2>7 DEF LengthInv
  <2>9. BitsInv(t)
    BY <1>5, <2>6, <2>7, FewBits
  <2>10. InputInv(t) /\ t.avail_in <= loc.in
    BY <1>5, <2>6 DEF InputInv
  <2>11. copy \in 0 .. z.avail_out
    BY <1>3, <2>3
  <2>12. Good(t)
    BY <1>1, <2>5, <2>6, <2>8, <2>9, <2>10, <2>11, Writes
  <2> QED  BY <1>1, <1>7, <2>12, GoodStays
<1> QED  BY <1>1, <1>2, <1>6, <1>7, InvGood, GoodStays, ModeStays

-----------------------------------------------------------------------------
(* The trailer, and the ways out of the loop.                              *)

LEMMA LoopKeeps ==
  ASSUME StreamInv', NEW t, z' = t, pc' \in {"loop", "leave"}, LocRec(loc)', stream' = stream,
         Rec(t), InputInv(t), OutputInv(t), WindowInv(t), BitsInv(t), LengthInv(t),
         loc'.in \in Int, loc'.out \in Int, t.avail_in <= loc'.in, t.avail_out <= loc'.out,
         loc'.out - t.avail_out <= Len(t.out)
  PROVE  Inv'
<1>1. Rec(z)' /\ InputInv(z)' /\ OutputInv(z)' /\ WindowInv(z)'
  BY DEF Rec, InputInv, OutputInv, WindowInv
<1>2. (BitsInv(z) /\ LengthInv(z))'
  BY DEF BitsInv, LengthInv, Wanted, Here, ValueAt, Pos
<1>3. CallInv' /\ FastInv' /\ EndInv'
  BY DEF CallInv, FastInv, EndInv
<1> QED  BY <1>1, <1>2, <1>3 DEF Inv

LEMMA LengthKeeps ==
  ASSUME Inv, Enough(z), NEW e, Length(Filled(z), e)
  PROVE  Inv'
<1> DEFINE f == Filled(z)
           t == Setting(z, "DONE")
<1>1. pc = "loop" /\ z.mode = "LENGTH" /\ UNCHANGED <<stream, ret, app>>
  BY DEF Length, In
<1>2. Mode(z, "DONE") \/ Mode(INITBITS(f), "DONE") \/ Mode(f, "BAD")
  BY DEF Length
<1>3. Base(f) /\ f.bits <= 32 /\ f.bits \in Nat /\ Rec(f)
  BY <1>1, FilledBase, FilledOK DEF Base, InputInv
<1> HIDE DEF f
<1>4. Frame(f, f)
  BY <1>3, OwnFrame
<1>5. Good(Setting(INITBITS(f), "DONE")) /\ Good(Setting(f, "BAD"))
  BY <1>1, <1>3, <1>4, ZeroMode, BadMode DEF PlainModes
<1>6. Base(z) /\ Rec(z) /\ z.bits \in {0, 8, 16, 24}
  BY <1>1, OwnBase DEF Inv, Between, BitsInv, EndModes
<1>7. Frame(z, t) /\ t.bits = z.bits /\ t.mode = "DONE"
  BY <1>6, SetMode
<1> HIDE DEF t
<1>8. BitsInv(t) /\ LengthInv(t)
  BY <1>6, <1>7, PlainLength DEF BitsInv, ByteModes, EndModes, PlainModes
<1>9. Good(t)
  BY <1>1, <1>6, <1>7, <1>8, Moves
<1> QED  BY <1>1, <1>2, <1>5, <1>9, ModeStays DEF t

LEMMA LeaveKeeps ==
  ASSUME Inv, Done \/ Bad
  PROVE  Inv'
<1>1. pc = "loop" /\ UNCHANGED <<stream, ret, app>>
      /\ (Leave(z, "STREAM_END") \/ Leave(z, "DATA_ERROR"))
  BY DEF Done, Bad, In
<1> QED  BY <1>1, InvGood, GoodStays

LEMMA AstrayKeeps ==
  ASSUME Inv, pc = "loop", NEW e, Astray(e)
  PROVE  Inv'
<1>1. Mode(z, "LOST") /\ UNCHANGED <<stream, ret, app>>
  BY DEF Astray
<1>2. Base(z) /\ Rec(z) /\ z.bits \in Nat /\ z.bits <= 32
  BY OwnBase DEF Inv, Between, BitsInv, InputInv
<1>3. Good(Setting(z, "LOST"))
  BY <1>2, OwnFrame, BadMode
<1> QED  BY <1>1, <1>3, ModeStays

LEMMA AccountRec ==
  ASSUME NEW f, Rec(f), NEW n, NEW t, t = Account(f, n)
  PROVE  Frame(f, t) /\ \A x \in Fields \ {"total", "check"} : t[x] = f[x]
  BY DEF Rec, Fields, Frame, SameOut, Account

LEMMA CheckKeeps ==
  ASSUME Inv, Enough(z), NEW e, Check(Filled(z), e)
  PROVE  Inv'
<1> DEFINE f == Filled(z)
           t == Account(f, loc.out - z.avail_out)
           u == Setting(t, "BAD")
           v == INITBITS(Setting(t, "LENGTH"))
           y == Setting(z, "LENGTH")
<1>1. pc = "loop" /\ z.mode = "CHECK" /\ UNCHANGED <<stream, ret, app>>
  BY DEF Check, In
<1>2. \/ Mode(z, "LENGTH")
      \/ /\ loc' = [loc EXCEPT !.out = t.avail_out]
         /\ pc' = "loop"
         /\ z' = u \/ z' = v
  BY DEF Check, Setting
<1>3. Base(f) /\ f.bits <= 32 /\ f.bits \in Nat /\ Rec(f)
  BY <1>1, FilledBase, FilledOK DEF Base, InputInv
<1>4. CASE Mode(z, "LENGTH")
  <2>1. Base(z) /\ Rec(z) /\ z.bits \in {0, 8, 16, 24}
    BY <1>1, OwnBase DEF Inv, Between, BitsInv, EndModes
  <2>2. Frame(z, y) /\ y.bits = z.bits /\ y.mode = "LENGTH"
    BY <2>1, SetMode
  <2> HIDE DEF y
  <2>3. BitsInv(y) /\ LengthInv(y)
    BY <2>1, <2>2, PlainLength DEF BitsInv, ByteModes, EndModes, PlainModes
  <2>4. Good(y)
    BY <1>1, <2>1, <2>2, <2>3, Moves
  <2> QED  BY <1>1, <1>4, <2>4, ModeStays DEF y
<1>5. CASE /\ loc' = [loc EXCEPT !.out = t.avail_out]
           /\ pc' = "loop"
           /\ z' = u \/ z' = v
  <2> HIDE DEF f
  <2>1. Frame(f, t) /\ t.bits = f.bits
    BY <1>3, AccountRec DEF Fields
  <2> HIDE DEF t
  <2>2. Frame(t, u) /\ u.bits = t.bits /\ u.mode = "BAD"
    BY <2>1, SetMode DEF Frame
  <2>3. Frame(f, u)
    BY <2>1, <2>2, FrameTrans
  <2>4. Good(u)
    BY <1>1, <1>3, <2>1, BadMode
  <2>5. Frame(t, v) /\ v.bits = 0 /\ v.mode = "LENGTH"
    <3> DEFINE w == Setting(t, "LENGTH")
    <3>1. Frame(t, w) /\ w.mode = "LENGTH"
      BY <2>1, SetMode DEF Frame
    <3> HIDE DEF w
    <3>2. Frame(w, INITBITS(w)) /\ INITBITS(w).bits = 0 /\ INITBITS(w).mode = w.mode
      BY <3>1, InitFrame DEF Frame, Fields
    <3>3. Frame(t, INITBITS(w))
      BY <3>1, <3>2, FrameTrans
    <3> QED  BY <3>1, <3>2, <3>3 DEF w
  <2>6. Frame(f, v)
    BY <2>1, <2>5, FrameTrans
  <2> HIDE DEF u, v
  <2>7. Good(v)
    BY <1>1, <1>3, <2>5, <2>6, ToNoBits DEF PlainModes
  <2>8. u.avail_out = t.avail_out /\ v.avail_out = t.avail_out
    BY <2>2, <2>5 DEF Frame, SameOut
  <2>9. PICK s : z' = s /\ Good(s) /\ s.avail_out = t.avail_out
    BY <1>5, <2>4, <2>7, <2>8
  <2>10. LocRec(loc)' /\ loc'.in = loc.in /\ loc'.out = t.avail_out
    BY <1>5 DEF Inv, LocRec, LocFields
  <2>11. loc.in \in Int /\ s.avail_out \in Nat /\ s.out \in Seq(Nat) /\ s.avail_in <= loc.in
    BY <1>1, <2>9 DEF Inv, CallInv, Good, OutputInv
  <2>12. Len(s.out) \in Nat
    BY <2>11
  <2>13. loc'.in \in Int /\ loc'.out \in Int /\ s.avail_in <= loc'.in /\ s.avail_out <= loc'.out
         /\ loc'.out - s.avail_out <= Len(s.out)
    BY <2>9, <2>10, <2>11, <2>12
  <2>14. StreamInv'
    BY <1>1 DEF Inv, StreamInv
  <2>15. Rec(s) /\ InputInv(s) /\ OutputInv(s) /\ WindowInv(s) /\ BitsInv(s) /\ LengthInv(s)
    BY <2>9 DEF Good
  <2> QED  BY <1>1, <1>5, <2>9, <2>10, <2>13, <2>14, <2>15, LoopKeeps
<1> QED  BY <1>2, <1>4, <1>5

\* NEEDBITS without enough input takes what there is.
LEMMA StarveKeeps ==
  ASSUME Inv, Starve
  PROVE  Inv'
<1> DEFINE a == Aligned(z)
           n == z.avail_in
           t == PullAll(a)
<1>1. pc = "loop" /\ ~Enough(z) /\ Leave(t, "OK") /\ UNCHANGED <<stream, ret, app>>
  BY DEF Starve
<1>2. StreamInv /\ BitsInv(z) /\ LengthInv(z) /\ InputInv(z) /\ z.avail_in <= loc.in
      /\ loc.in \in Int /\ z.bits \in Nat /\ z.avail_in \in Nat /\ z.next \in Int
  BY <1>1 DEF Inv, Between, CallInv, InputInv
<1>3. Wanted(z) \in 0 .. 32
  BY <1>2, WantedOK
<1>4. /\ Rec(a) /\ a.bits \in Nat /\ a.bits <= z.bits
      /\ z.mode = "STORED" => a.bits \in {0, 8, 16, 24}
      /\ z.mode # "STORED" => a = z
      /\ \A x \in Fields \ {"bits"} : a[x] = z[x]
      /\ Wanted(a) = Wanted(z)
  BY <1>1, AlignedOK
<1>5. a.avail_in = z.avail_in /\ a.next = z.next
  BY <1>4 DEF Fields
<1>6. BytesWanted(a) > n
  <2>1. ~(BytesWanted(a) <= n)
    BY <1>1 DEF Enough
  <2>2. BytesWanted(a) \in Nat
    BY <1>3, <1>4, BytesOK
  <2> QED  BY <1>2, <2>1, <2>2
<1>7. a.bits + 8 * n < Wanted(z)
  BY <1>2, <1>3, <1>4, <1>6 DEF BytesWanted
<1>8. t = PULLBYTES(a, n)
  BY <1>5 DEF PullAll
<1>9. /\ Rec(t) /\ t.next = z.next + n /\ t.avail_in = 0 /\ t.bits = a.bits + 8 * n
      /\ \A x \in Fields \ {"next", "avail_in", "bits"} : t[x] = a[x]
  <2>1. /\ Rec(t) /\ t.next = a.next + n /\ t.avail_in = a.avail_in - n /\ t.bits = a.bits + 8 * n
        /\ \A x \in Fields \ {"next", "avail_in", "bits"} : t[x] = a[x]
    <3> HIDE DEF t, a, n
    <3> QED  BY <1>4, <1>8, PullRec
  <2> QED  BY <1>2, <1>5, <2>1
<1> HIDE DEF t, a
<1>10. /\ \A x \in Fields \ {"next", "avail_in", "bits"} : t[x] = z[x]
       /\ t.mode = z.mode /\ t.flags = z.flags /\ t.wrap = z.wrap /\ t.last = z.last
       /\ t.extra = z.extra /\ t.length = z.length /\ t.offset = z.offset
  BY <1>4, <1>9 DEF Fields
<1>11. SameOut(z, t)
  BY <1>10 DEF SameOut, Fields
<1>12. InputInv(t) /\ t.avail_in <= loc.in
  BY <1>2, <1>4, <1>9 DEF InputInv
<1>13. z.mode \notin {"COPY_", "COPY", "MATCH"}
  BY <1>2, <1>3, <1>4, <1>7, WantedOK
<1>14. LengthInv(t)
  BY <1>2, <1>10, <1>13 DEF LengthInv
<1>15. t.bits \in Nat /\ t.bits < Wanted(z)
  BY <1>2, <1>4, <1>7, <1>9
<1>16. z.mode # "STORED" => t.bits = z.bits + 8 * n /\ Here(t) = Here(z)
  <2> SUFFICES ASSUME z.mode # "STORED"
               PROVE  t.bits = z.bits + 8 * n /\ Here(t) = Here(z)
    OBVIOUS
  <2>1. t.bits = z.bits + 8 * n /\ t.next = z.next + n
    BY <1>4, <1>9
  <2>2. Pos(t) = Pos(z)
    BY <1>2, <2>1 DEF Pos
  <2> QED  BY <2>1, <2>2 DEF Here
<1>17. Wanted(t) = Wanted(z)
  <2>1. CASE z.mode = "STORED"
    BY <1>10, <2>1 DEF Wanted
  <2>2. CASE z.mode # "STORED"
    BY <1>10, <1>16, <2>2 DEF Wanted
  <2> QED  BY <2>1, <2>2
<1>18. BitsInv(t)
  <2>1. t.bits <= 32
    BY <1>3, <1>15
  <2>2. CASE z.mode = "HEAD"
    <3>1. Wanted(z) <= 16
      BY <2>2, <1>2, WantedOK
    <3>2. z.bits \in {0, 8} /\ t.bits = z.bits + 8 * n
      BY <2>2, <1>2, <1>16 DEF BitsInv
    <3>3. t.bits \in {0, 8}
      BY <1>2, <1>3, <1>15, <3>1, <3>2
    <3> QED  BY <1>10, <2>1, <2>2, <3>3 DEF BitsInv, ByteModes, EndModes
  <2>3. CASE z.mode \in ByteModes
    <3>1. z.bits \in {0, 8, 16, 24} /\ t.bits = z.bits + 8 * n
      BY <2>3, <1>2, <1>16 DEF BitsInv, ByteModes
    <3>2. t.bits \in {0, 8, 16, 24}
      BY <1>2, <1>3, <1>15, <3>1
    <3>3. t.mode \in ByteModes
      BY <2>3, <1>10
    <3> QED  BY <1>15, <1>17, <2>1, <3>2, <3>3 DEF BitsInv, ByteModes, EndModes
  <2>4. CASE z.mode \in EndModes
    <3>1. z.bits \in {0, 8, 16, 24} /\ t.bits = z.bits + 8 * n
      BY <2>4, <1>2, <1>16 DEF BitsInv, EndModes
    <3>2. t.bits \in {0, 8, 16, 24}
      BY <1>2, <1>3, <1>15, <3>1
    <3>3. t.mode \in EndModes
      BY <2>4, <1>10
    <3> QED  BY <2>1, <3>2, <3>3 DEF BitsInv, ByteModes, EndModes
  <2>5. CASE z.mode = "STORED"
    <3>1. a.bits \in {0, 8, 16, 24} /\ t.bits = a.bits + 8 * n
      BY <2>5, <1>4, <1>9
    <3>2. t.bits \in {0, 8, 16, 24}
      BY <1>2, <1>3, <1>15, <3>1
    <3> QED  BY <1>10, <2>1, <2>5, <3>2 DEF BitsInv, ByteModes, EndModes
  <2>6. CASE z.mode \in {"TYPEDO", "TABLE", "LENLENS"}
    <3>1. Wanted(z) <= 14 /\ (z.mode # "TABLE" => Wanted(z) <= 3)
      BY <2>6, <1>2, WantedOK
    <3>2. t.bits < 14 /\ (z.mode # "TABLE" => t.bits < 8)
      BY <1>3, <1>15, <3>1
    <3> QED  BY <1>10, <1>15, <2>1, <2>6, <3>2 DEF BitsInv, ByteModes, EndModes
  <2>7. CASE z.mode \in {"CODELENS", "LEN", "DIST"}
    <3>1. Wanted(z) = CodeBits(Here(t))
      BY <2>7, <1>2, <1>16, WantedOK
    <3> QED  BY <1>10, <1>15, <2>1, <2>7, <3>1 DEF BitsInv, ByteModes, EndModes
  <2>8. CASE z.mode \in {"LENEXT", "DISTEXT"}
    <3>1. Wanted(z) = t.extra
      BY <2>8, <1>2, <1>10, WantedOK
    <3> QED  BY <1>10, <1>15, <2>1, <2>8, <3>1 DEF BitsInv, ByteModes, EndModes
  <2>9. CASE z.mode \in {"TYPE", "COPY_", "COPY", "LEN_", "MATCH", "LIT"}
    <3>1. Wanted(z) = 0
      BY <2>9, <1>2, WantedOK
    <3> QED  BY <1>15, <3>1
  <2> HIDE DEF n
  <2> QED
    BY <1>10, <2>1, <2>2, <2>3, <2>4, <2>5, <2>6, <2>7, <2>8, <2>9 DEF BitsInv
<1>19. OutputInv(t) /\ t.avail_out <= loc.out /\ loc.out - t.avail_out <= Len(t.out)
  BY <1>1, <1>11 DEF Inv, CallInv, SameOut, OutputInv
<1>20. WindowInv(t)
  BY <1>11 DEF Inv, SameOut, WindowInv
<1>21. Good(t)
  BY <1>9, <1>12, <1>14, <1>18, <1>19, <1>20 DEF Good
<1> QED  BY <1>1, <1>21, GoodStays

-----------------------------------------------------------------------------
(* inflate_fast.  A turn of its loop starts with at least 6 bytes of input *)
(* and room for the longest match.  Its two codes and their extra bits are *)
(* at most 15 + 5 + 15 + 13 = 48 bits, and it pulls no byte it does not    *)
(* use but for the two it may fetch ahead of a code.                       *)

\* t, reached from z by pulling at most k bytes, has used at most c of their bits,
\* and what it holds it may give back.
Within(t, k, c) ==
  /\ Rec(t) /\ SameOut(z, t) /\ t.mode = "LEN"
  /\ t.bits \in 0 .. 30 /\ t.next \in z.next .. z.next + k
  /\ t.avail_in = z.avail_in - (t.next - z.next)
  /\ t.bits <= 8 * (loc.in - t.avail_in) + 7
  /\ 8 * (t.next - z.next) - t.bits <= c

\* What a turn starts from.
FastStart ==
  /\ z.next \in Int /\ z.avail_in \in Nat /\ z.avail_in >= 6 /\ loc.in \in Int
  /\ z.avail_in <= loc.in
  /\ z.bits \in 0 .. 30 /\ z.mode = "LEN" /\ Rec(z)
  /\ z.bits <= 8 * (loc.in - z.avail_in) + 7 \/ z.bits < CodeBits(Here(z))

LEMMA StartOK ==
  ASSUME Inv, pc = "fast"
  PROVE  FastStart
<1>1. z.mode = "LEN" /\ loc.last = z.next + z.avail_in - 5 /\ z.next < loc.last /\ z.bits <= 30
      /\ (z.bits <= 8 * (loc.in - z.avail_in) + 7 \/ z.bits < CodeBits(Here(z)))
  BY DEF Inv, FastInv, Taken
<1>2. z.next \in Int /\ z.avail_in \in Nat /\ z.bits \in Nat /\ Rec(z) /\ loc.in \in Int
      /\ z.avail_in <= loc.in
  BY DEF Inv, InputInv, CallInv
<1>3. z.avail_in >= 6 /\ z.bits \in 0 .. 30
  BY <1>1, <1>2
<1> QED  BY <1>1, <1>2, <1>3 DEF FastStart

LEMMA PullWithin ==
  ASSUME FastStart, NEW t, NEW k \in Nat, NEW c \in Int, Within(t, k, c), NEW n \in 0 .. 2,
         t.bits + 8 * n <= 30
  PROVE  LET u == PULLBYTES(t, n)
         IN  Within(u, k + n, c) /\ u.bits = t.bits + 8 * n /\ Pos(u) = Pos(t)
<1> DEFINE u == PULLBYTES(t, n)
<1>1. /\ Rec(u) /\ u.next = t.next + n /\ u.avail_in = t.avail_in - n /\ u.bits = t.bits + 8 * n
      /\ \A x \in Fields \ {"next", "avail_in", "bits"} : u[x] = t[x]
  <2>1. Rec(t)
    BY DEF Within
  <2> QED  BY <2>1, PullRec
<1> HIDE DEF u
<1>2. SameOut(z, u) /\ u.mode = "LEN"
  BY <1>1 DEF Within, SameOut, Fields
<1>3. /\ u.next = t.next + n /\ u.avail_in = t.avail_in - n /\ u.bits = t.bits + 8 * n
      /\ t.bits \in 0 .. 30 /\ t.next \in z.next .. z.next + k
      /\ t.avail_in = z.avail_in - (t.next - z.next)
      /\ t.bits <= 8 * (loc.in - t.avail_in) + 7
      /\ 8 * (t.next - z.next) - t.bits <= c
      /\ z.next \in Int /\ z.avail_in \in Nat /\ loc.in \in Int
  BY <1>1 DEF Within, FastStart
<1>4. /\ u.bits \in 0 .. 30 /\ u.next \in z.next .. z.next + (k + n)
      /\ u.avail_in = z.avail_in - (u.next - z.next)
      /\ u.bits <= 8 * (loc.in - u.avail_in) + 7
      /\ 8 * (u.next - z.next) - u.bits <= c
      /\ 8 * u.next - u.bits = 8 * t.next - t.bits
  BY <1>3
<1> QED  BY <1>1, <1>2, <1>3, <1>4 DEF Within, Pos, u

LEMMA DropWithin ==
  ASSUME FastStart, NEW t, NEW k \in Nat, NEW c \in Int, Within(t, k, c), NEW n \in Nat,
         n <= t.bits
  PROVE  LET u == DROPBITS(t, n)
         IN  Within(u, k, c + n) /\ u.bits = t.bits - n /\ u.next = t.next /\ Pos(u) = Pos(t) + n
<1> DEFINE u == DROPBITS(t, n)
<1>1. Rec(u) /\ u.bits = t.bits - n /\ \A x \in Fields \ {"bits"} : u[x] = t[x]
  <2>1. Rec(t)
    BY DEF Within
  <2> QED  BY <2>1, DropRec
<1> HIDE DEF u
<1>2. SameOut(z, u) /\ u.mode = "LEN"
  BY <1>1 DEF Within, SameOut, Fields
<1>3. /\ u.next = t.next /\ u.avail_in = t.avail_in /\ u.bits = t.bits - n
      /\ t.bits \in 0 .. 30 /\ t.next \in z.next .. z.next + k
      /\ t.avail_in = z.avail_in - (t.next - z.next)
      /\ t.bits <= 8 * (loc.in - t.avail_in) + 7
      /\ 8 * (t.next - z.next) - t.bits <= c
      /\ z.next \in Int /\ z.avail_in \in Nat /\ loc.in \in Int
  BY <1>1 DEF Within, FastStart, Fields
<1>4. /\ u.bits \in 0 .. 30 /\ u.next \in z.next .. z.next + k
      /\ u.avail_in = z.avail_in - (u.next - z.next)
      /\ u.bits <= 8 * (loc.in - u.avail_in) + 7
      /\ 8 * (u.next - z.next) - u.bits <= c + n
      /\ 8 * u.next - u.bits = 8 * t.next - t.bits + n
  <2>1. t.bits \in Int /\ t.next \in Int /\ t.avail_in \in Int /\ z.next \in Int
    BY <1>3
  <2>2. u.bits \in 0 .. 30
    <3>1. PICK m \in 0 .. 30 : m = t.bits
      BY <1>3
    <3>2. u.bits = m - n /\ n <= m
      BY <1>3, <3>1
    <3> QED  BY <3>2
  <2>3. u.bits <= 8 * (loc.in - u.avail_in) + 7
    BY <1>3, <2>1
  <2>4. 8 * (u.next - z.next) - u.bits <= c + n
    BY <1>3, <2>1
  <2>5. 8 * u.next - u.bits = 8 * t.next - t.bits + n
    BY <1>3, <2>1
  <2> QED  BY <1>3, <2>2, <2>3, <2>4, <2>5
<1> QED  BY <1>1, <1>2, <1>3, <1>4 DEF Within, Pos, u

\* A byte for extra bits is pulled only when they are not all there.
LEMMA FillNone ==
  ASSUME NEW t, NEW x \in 0 .. 13, t.bits \in 0 .. 30, t.bits >= x
  PROVE  FillByte(t, x) = t
  BY DEF FillByte

LEMMA FillByteWithin ==
  ASSUME FastStart, NEW t, NEW k \in Nat, NEW c \in Int, Within(t, k, c), NEW x \in 0 .. 13,
         t.bits < x
  PROVE  /\ Within(FillByte(t, x), k + 1, c)
         /\ FillByte(t, x).bits = t.bits + 8 /\ Pos(FillByte(t, x)) = Pos(t)
<1>1. t.bits \in 0 .. 30
  BY DEF Within
<1>2. FillByte(t, x) = PULLBYTES(t, 1) /\ 1 \in 0 .. 2 /\ t.bits + 8 * 1 <= 30
  BY <1>1 DEF FillByte
<1> DEFINE u == FillByte(t, x)
<1>3. Within(u, k + 1, c) /\ u.bits = t.bits + 8 * 1 /\ Pos(u) = Pos(t)
  BY <1>2, PullWithin
<1> HIDE DEF u
<1>4. u.bits = t.bits + 8
  BY <1>1, <1>3
<1> QED  BY <1>3, <1>4 DEF u

LEMMA Fill15Within ==
  ASSUME FastStart, NEW t, NEW k \in Nat, NEW c \in Int, Within(t, k, c), NEW u, u = Fill15(t)
  PROVE  Within(u, k + 2, c) /\ u.bits >= 15 /\ Pos(u) = Pos(t)
<1>1. t.bits \in 0 .. 30
  BY DEF Within
<1>2. CASE t.bits < 15
  <2>1. u = PULLBYTES(t, 2) /\ 2 \in 0 .. 2 /\ t.bits + 8 * 2 <= 30
    BY <1>1, <1>2 DEF Fill15
  <2>2. Within(u, k + 2, c) /\ u.bits = t.bits + 8 * 2 /\ Pos(u) = Pos(t)
    BY <2>1, PullWithin
  <2> QED  BY <1>1, <2>2
<1>3. CASE t.bits >= 15
  <2>1. u = t
    BY <1>1, <1>3 DEF Fill15
  <2>2. Within(t, k + 2, c)
    <3>1. z.next \in Int
      BY DEF FastStart
    <3>2. t.next \in z.next .. z.next + k => t.next \in z.next .. z.next + (k + 2)
      BY <3>1
    <3> QED  BY <3>2 DEF Within
  <2> QED  BY <1>3, <2>1, <2>2
<1> QED  BY <1>1, <1>2, <1>3

\* The first code of the turn.  What inflate() left in the accumulator, less than
\* the code, cannot all be given back before the code has been used.
LEMMA FirstCode ==
  ASSUME FastStart, StreamInv, NEW t, t = Fill15(z), NEW n, n = CodeBits(Here(z)),
         NEW b, b = DROPBITS(t, n)
  PROVE  /\ Here(t) = Here(z)
         /\ Within(b, 2, 15) /\ Pos(b) = Pos(z) + n
<1>1. n \in 0 .. 15
  BY HereOK, CodeBitsOK
<1>2. /\ z.next \in Int /\ z.avail_in \in Nat /\ loc.in \in Int /\ z.avail_in <= loc.in
      /\ z.bits \in 0 .. 30 /\ z.mode = "LEN" /\ Rec(z)
      /\ z.bits <= 8 * (loc.in - z.avail_in) + 7 \/ z.bits < n
  BY DEF FastStart
<1>3. PICK p \in {0, 2} : /\ p = IF z.bits < 15 THEN 2 ELSE 0
                          /\ Rec(t) /\ t.next = z.next + p /\ t.avail_in = z.avail_in - p
                          /\ t.bits = z.bits + 8 * p
                          /\ \A x \in Fields \ {"next", "avail_in", "bits"} : t[x] = z[x]
  <2>1. CASE z.bits < 15
    <3>1. t = PULLBYTES(z, 2)
      BY <2>1 DEF Fill15
    <3>2. /\ Rec(t) /\ t.next = z.next + 2 /\ t.avail_in = z.avail_in - 2
          /\ t.bits = z.bits + 8 * 2
          /\ \A x \in Fields \ {"next", "avail_in", "bits"} : t[x] = z[x]
      BY <1>2, <3>1, PullRec
    <3> QED  BY <2>1, <3>2
  <2>2. CASE ~(z.bits < 15)
    <3>1. t = z
      BY <2>2 DEF Fill15
    <3>2. t.next = z.next + 0 /\ t.avail_in = z.avail_in - 0 /\ t.bits = z.bits + 8 * 0
      BY <1>2, <3>1
    <3> QED  BY <1>2, <2>2, <3>1, <3>2
  <2> QED  BY <2>1, <2>2
<1>4. Pos(t) = Pos(z)
  BY <1>2, <1>3 DEF Pos
<1>5. Rec(b) /\ b.bits = t.bits - n /\ \A x \in Fields \ {"bits"} : b[x] = t[x]
  BY <1>3, DropRec
<1>6. b.next = z.next + p /\ b.avail_in = z.avail_in - p /\ b.bits = z.bits + 8 * p - n
  <2>1. t.next = z.next + p /\ t.avail_in = z.avail_in - p /\ t.bits = z.bits + 8 * p
    BY <1>3
  <2>2. b.next = t.next /\ b.avail_in = t.avail_in /\ b.bits = t.bits - n
    BY <1>5 DEF Fields
  <2> QED  BY <1>1, <1>2, <2>1, <2>2
<1>7. SameOut(z, b) /\ b.mode = "LEN"
  BY <1>2, <1>3, <1>5 DEF SameOut, Fields
<1>8. p = IF z.bits < 15 THEN 2 ELSE 0
  BY <1>3
<1>9. b.bits \in 0 .. 30 /\ b.next \in z.next .. z.next + 2
      /\ b.avail_in = z.avail_in - (b.next - z.next)
      /\ b.bits <= 8 * (loc.in - b.avail_in) + 7
      /\ 8 * (b.next - z.next) - b.bits <= 15
      /\ 8 * b.next - b.bits = 8 * z.next - z.bits + n
  <2>1. /\ z.next \in Int /\ z.avail_in \in Nat /\ loc.in \in Int /\ z.avail_in <= loc.in
        /\ z.bits \in 0 .. 30
        /\ z.bits <= 8 * (loc.in - z.avail_in) + 7 \/ z.bits < n
    BY <1>2
  <2>2. b.bits \in 0 .. 30 /\ b.next \in z.next .. z.next + 2
    BY <1>1, <2>1, <1>6, <1>8
  <2>3. b.avail_in = z.avail_in - (b.next - z.next)
    BY <2>1, <1>6, <1>8
  <2>4. b.bits <= 8 * (loc.in - b.avail_in) + 7
    BY <1>1, <2>1, <1>6, <1>8
  <2>5. 8 * (b.next - z.next) - b.bits <= 15
    BY <1>1, <2>1, <1>6, <1>8
  <2>6. 8 * b.next - b.bits = 8 * z.next - z.bits + n
    <3>1. PICK zn \in Int, zb \in Int : zn = z.next /\ zb = z.bits
      BY <2>1
    <3>2. b.next = zn + p /\ b.bits = zb + 8 * p - n
      BY <1>6, <3>1
    <3> QED  BY <1>1, <3>1, <3>2
  <2> QED  BY <2>2, <2>3, <2>4, <2>5, <2>6
<1>10. Within(b, 2, 15) /\ Pos(b) = Pos(z) + n
  BY <1>5, <1>7, <1>9 DEF Within, Pos
<1> QED  BY <1>4, <1>10 DEF Here

\* A length is at most MAXLEN, a distance at least 1, with the extra bits that
\* follow the code.
LEMMA FastValues ==
  ASSUME StreamInv, NEW t, NEW b, NEW e, e = Here(t), e.k \in {"len", "dist"},
         Pos(b) = Pos(t) + e.n, NEW v, v = e.v + (IF e.x = 0 THEN 0 ELSE Here(b).v)
  PROVE  /\ e.k = "len" => v \in 0 .. MAXLEN
         /\ e.k = "dist" => v \in Nat \ {0}
<1>1. Pos(t) \in DOMAIN stream.at /\ e = stream.at[Pos(t)]
  BY DEF Here, NoElement
<1>2. Format(stream, Pos(t))
  BY <1>1, StreamsAssumption DEF StreamInv
<1>3. /\ e.k = "len" => /\ e.x \in 0 .. 5 /\ e.v \in 0 .. MAXLEN
                        /\ e.x > 0 /\ Pos(b) \in DOMAIN stream.at
                             => stream.at[Pos(b)].v \in 0 .. MAXLEN - e.v
      /\ e.k = "dist" => /\ e.x \in 0 .. 13 /\ e.v \in Nat \ {0}
                         /\ e.x > 0 /\ Pos(b) \in DOMAIN stream.at => stream.at[Pos(b)].v \in Nat
  BY <1>1, <1>2 DEF Format
<1>4. Here(b).v = IF Pos(b) \in DOMAIN stream.at THEN stream.at[Pos(b)].v ELSE 0
  BY DEF Here, NoElement
<1>5. ASSUME e.k = "len"
      PROVE  v \in 0 .. MAXLEN
  <2>1. MAXLEN \in Nat
    BY SizesAssumption
  <2>2. e.x \in 0 .. 5 /\ e.v \in 0 .. MAXLEN
    BY <1>3, <1>5
  <2>3. CASE e.x = 0
    BY <2>2, <2>3
  <2>4. CASE e.x > 0
    <3>1. Here(b).v \in 0 .. MAXLEN - e.v
      BY <1>3, <1>4, <1>5, <2>1, <2>2, <2>4
    <3>2. v = e.v + Here(b).v
      BY <2>2, <2>4
    <3> QED  BY <2>1, <2>2, <3>1, <3>2
  <2> QED  BY <2>2, <2>3, <2>4
<1>6. ASSUME e.k = "dist"
      PROVE  v \in Nat \ {0}
  <2>1. e.x \in 0 .. 13 /\ e.v \in Nat \ {0}
    BY <1>3, <1>6
  <2>2. CASE e.x = 0
    BY <2>1, <2>2
  <2>3. CASE e.x > 0
    <3>1. Here(b).v \in Nat
      BY <1>3, <1>4, <1>6, <2>3
    <3>2. v = e.v + Here(b).v
      BY <2>1, <2>3
    <3> QED  BY <2>1, <3>1, <3>2
  <2> QED  BY <2>1, <2>2, <2>3
<1> QED  BY <1>5, <1>6

\* The pieces of a match: all they read has been written, and together they are
\* as long as the match.
LEMMA FastCopyOK ==
  ASSUME NEW t, WindowInv(t), t.out \in Seq(Nat), NEW dist \in Nat \ {0}, NEW len \in Nat,
         NEW written \in Nat, written = loc.out - t.avail_out, written <= Len(t.out),
         ~(dist - written > t.whave)
  PROVE  FastCopy(t, dist, len) \in Seq(Nat)
         /\ Len(FastCopy(t, dist, len)) = Len(t.out) + len
<1> DEFINE op == dist - written
           first == IF t.wnext = 0 THEN [from |-> t.wsize - op, n |-> op]
                    ELSE IF t.wnext < op
                    THEN [from |-> t.wsize + t.wnext - op, n |-> op - t.wnext]
                    ELSE [from |-> t.wnext - op, n |-> op]
           n1 == MIN(first.n, len)
           w1 == WindowBytes(t, first.from, n1)
           h1 == t.out \o w1
           n2 == IF t.wnext # 0 /\ t.wnext < op THEN MIN(t.wnext, len - n1) ELSE 0
           w2 == WindowBytes(t, 0, n2)
           h2 == h1 \o w2
           n3 == len - n1 - n2
<1>1. FastCopy(t, dist, len) = IF op <= 0 THEN t.out \o Back(t.out, dist, len)
                               ELSE h2 \o (IF n3 = 0 THEN <<>> ELSE Back(h2, dist, n3))
  BY DEF FastCopy
<1>2. op \in Int /\ Len(t.out) \in Nat
  OBVIOUS
<1>3. CASE op <= 0
  <2>1. dist <= Len(t.out)
    BY <1>2, <1>3
  <2>2. Back(t.out, dist, len) \in [1 .. len -> Nat]
    BY <2>1, BackRun
  <2>3. t.out \o Back(t.out, dist, len) \in Seq(Nat)
        /\ Len(t.out \o Back(t.out, dist, len)) = Len(t.out) + len
    BY <2>2, AppendRun
  <2> QED  BY <1>1, <1>3, <2>3
<1>4. CASE op > 0
  <2>1. t.whave \in Nat
    BY SizesAssumption DEF WindowInv
  <2>2. op \in Nat /\ op <= t.whave /\ t.whave > 0
    BY <1>2, <1>4, <2>1
  <2>3. dist = op + written
    OBVIOUS
  <2> HIDE DEF op
  <2>4. /\ t.wnext \in Nat /\ t.wnext <= t.whave /\ t.wsize = WSIZE /\ t.whave <= WSIZE
        /\ t.wnext < t.whave => t.whave = WSIZE
    BY <2>2, NextWithin
  <2>5. WSIZE \in Nat
    BY SizesAssumption
  <2>6. /\ first.from \in Nat /\ first.n \in Nat /\ first.from + first.n <= t.whave
        /\ first.n = IF t.wnext # 0 /\ t.wnext < op THEN op - t.wnext ELSE op
    <3>1. CASE t.wnext = 0
      <4>1. first.from = t.wsize - op /\ first.n = op
        BY <3>1
      <4> QED  BY <2>1, <2>2, <2>4, <2>5, <3>1, <4>1
    <3>2. CASE t.wnext # 0 /\ t.wnext < op
      <4>1. first.from = t.wsize + t.wnext - op /\ first.n = op - t.wnext
        BY <3>2
      <4>2. t.whave = WSIZE
        BY <2>1, <2>2, <2>4, <3>2
      <4>3. first.from = WSIZE + t.wnext - op /\ op <= WSIZE
        BY <2>2, <2>4, <4>1, <4>2
      <4>4. first.from \in Nat /\ first.n \in Nat
        BY <2>2, <2>4, <2>5, <3>2, <4>1, <4>3
      <4>5. first.from + first.n = WSIZE
        BY <2>2, <2>4, <2>5, <4>1, <4>3
      <4> QED  BY <2>5, <3>2, <4>1, <4>2, <4>4, <4>5
    <3>3. CASE t.wnext # 0 /\ ~(t.wnext < op)
      <4>1. first.from = t.wnext - op /\ first.n = op
        BY <3>3
      <4> QED  BY <2>1, <2>2, <2>4, <3>3, <4>1
    <3> QED  BY <3>1, <3>2, <3>3
  <2> HIDE DEF first
  <2>7. n1 \in Nat /\ n1 <= first.n /\ n1 <= len /\ (n1 = first.n \/ n1 = len)
    BY <2>6 DEF MIN
  <2> HIDE DEF n1
  <2>8. n2 \in Nat /\ n2 <= t.wnext /\ n2 <= len - n1
        /\ (n2 = len - n1 \/ n2 = IF t.wnext # 0 /\ t.wnext < op THEN t.wnext ELSE 0)
    BY <2>4, <2>7 DEF MIN
  <2> HIDE DEF n2
  <2>9. w1 \in [1 .. n1 -> Nat]
    <3>1. first.from + n1 <= t.whave
      BY <2>1, <2>6, <2>7
    <3> QED  BY <2>6, <2>7, <3>1, WindowRun
  <2>10. w2 \in [1 .. n2 -> Nat]
    <3>1. 0 + n2 <= t.whave
      BY <2>1, <2>4, <2>8
    <3> QED  BY <2>8, <3>1, WindowRun
  <2> HIDE DEF w1, w2
  <2>11. h1 \in Seq(Nat) /\ Len(h1) = Len(t.out) + n1
    BY <2>7, <2>9, AppendRun
  <2> HIDE DEF h1
  <2>12. h2 \in Seq(Nat) /\ Len(h2) = Len(h1) + n2
    BY <2>8, <2>10, <2>11, AppendRun
  <2> HIDE DEF h2
  <2>13. n3 \in Nat /\ Len(h2) + n3 = Len(t.out) + len
    BY <1>2, <2>7, <2>8, <2>11, <2>12
  <2>14. n3 # 0 => dist <= Len(h2)
    <3>1. n3 # 0 => n1 + n2 = op
      BY <2>2, <2>4, <2>6, <2>7, <2>8
    <3>2. Len(h2) = Len(t.out) + (n1 + n2)
      <4>1. n1 \in Nat /\ n2 \in Nat /\ Len(h1) = Len(t.out) + n1 /\ Len(h2) = Len(h1) + n2
        BY <2>7, <2>8, <2>11, <2>12
      <4>2. PICK l \in Nat : l = Len(t.out)
        BY <1>2
      <4>3. Len(h2) = (l + n1) + n2
        BY <4>1, <4>2
      <4>4. (l + n1) + n2 = l + (n1 + n2)
        BY <4>1
      <4> QED  BY <4>2, <4>3, <4>4
    <3>3. n1 + n2 = op => dist <= Len(h2)
      BY <1>2, <2>2, <2>3, <3>2, SMTT(60)
    <3> QED  BY <3>1, <3>3
  <2> HIDE DEF n3
  <2>15. ~(op <= 0)
    BY <1>4, <2>2
  <2>16. CASE n3 = 0
    <3>1. h2 \o <<>> = h2
      BY <2>12
    <3>2. FastCopy(t, dist, len) = h2 \o <<>>
      BY <1>1, <2>15, <2>16, Zenon
    <3>3. Len(h2) = Len(t.out) + len
      BY <2>12, <2>13, <2>16
    <3> QED  BY <2>12, <3>1, <3>2, <3>3
  <2>17. CASE n3 # 0
    <3>1. Back(h2, dist, n3) \in [1 .. n3 -> Nat]
      BY <2>12, <2>13, <2>14, <2>17, BackRun
    <3>2. h2 \o Back(h2, dist, n3) \in Seq(Nat) /\ Len(h2 \o Back(h2, dist, n3)) = Len(h2) + n3
      BY <2>12, <2>13, <3>1, AppendRun
    <3>3. FastCopy(t, dist, len) = h2 \o Back(h2, dist, n3)
      BY <1>1, <2>15, <2>17, Zenon
    <3> QED  BY <2>13, <3>2, <3>3
  <2> QED  BY <2>16, <2>17
<1> QED  BY <1>2, <1>3, <1>4

\* The end of a turn that pulled d bytes and wrote n.
TurnIn(t, d) ==
  /\ t.bits \in 0 .. 30 /\ t.next = z.next + d /\ t.avail_in = z.avail_in - d
  /\ t.bits <= 8 * (loc.in - t.avail_in) + 7
TurnOut(t, n) ==
  t.out \in Seq(Nat) /\ Len(t.out) = Len(z.out) + n /\ t.avail_out = z.avail_out - n
TurnEnd(t) ==
  /\ z' = t /\ UNCHANGED <<stream, loc, ret, app>>
  /\ t.mode \in {"LEN", "TYPE", "BAD", "LOST"} /\ pc' \in {"fast", "fastEnd"}
  /\ pc' = "fast" => t.mode = "LEN" /\ t.next < loc.last /\ Len(t.out) < loc.end

LEMMA TurnInput ==
  ASSUME Inv, pc = "fast", NEW t, NEW d \in 0 .. 6, TurnIn(t, d)
  PROVE  InputInv(t) /\ t.avail_in <= loc.in /\ loc.last = t.next + t.avail_in - 5
<1>1. /\ z.next \in Int /\ z.avail_in \in Nat /\ loc.in \in Int /\ z.avail_in <= loc.in
      /\ z.next + z.avail_in <= stream.bytes
      /\ loc.last = z.next + z.avail_in - 5 /\ z.next < loc.last
  BY DEF Inv, InputInv, CallInv, FastInv
<1>2. stream.bytes \in Nat
  BY StreamsAssumption DEF Inv, StreamInv
<1>3. t.bits \in Nat /\ t.next = z.next + d /\ t.avail_in = z.avail_in - d
  BY DEF TurnIn
<1>4. t.next \in Int /\ t.avail_in \in Nat /\ t.next + t.avail_in = z.next + z.avail_in
      /\ t.avail_in <= loc.in
  BY <1>1, <1>3
<1> QED  BY <1>1, <1>2, <1>3, <1>4 DEF InputInv

LEMMA TurnOutput ==
  ASSUME Inv, pc = "fast", NEW t, NEW n \in 0 .. MAXLEN, TurnOut(t, n)
  PROVE  OutputInv(t) /\ t.avail_out <= loc.out /\ loc.out - t.avail_out <= Len(t.out)
         /\ loc.end = Len(t.out) + t.avail_out - (MAXLEN - 1)
<1>1. /\ z.avail_out \in Nat /\ z.out \in Seq(Nat) /\ loc.out \in Int /\ z.avail_out <= loc.out
      /\ loc.out - z.avail_out <= Len(z.out)
      /\ loc.end = Len(z.out) + z.avail_out - (MAXLEN - 1) /\ Len(z.out) < loc.end
  BY DEF Inv, OutputInv, CallInv, FastInv
<1>2. MAXLEN \in Nat
  BY SizesAssumption
<1>3. t.out \in Seq(Nat) /\ Len(t.out) = Len(z.out) + n /\ t.avail_out = z.avail_out - n
  BY DEF TurnOut
<1>4. PICK l \in Nat, m \in Nat : l = Len(z.out) /\ m = Len(t.out)
  BY <1>1, <1>3
<1>5. m = l + n /\ z.avail_out >= MAXLEN /\ loc.out - z.avail_out <= l
      /\ loc.end = l + z.avail_out - (MAXLEN - 1)
  BY <1>1, <1>2, <1>3, <1>4
<1>6. t.avail_out \in Nat /\ t.avail_out <= loc.out /\ loc.out - t.avail_out <= m
      /\ loc.end = m + t.avail_out - (MAXLEN - 1)
  <2>1. PICK za \in Nat, lo \in Int : za = z.avail_out /\ lo = loc.out
    BY <1>1
  <2>2. t.avail_out = za - n /\ m = l + n /\ loc.end = l + za - (MAXLEN - 1)
    BY <1>3, <1>5, <2>1
  <2>3. n \in Nat /\ n <= za /\ za <= lo /\ lo - za <= l
    BY <1>1, <1>2, <1>5, <2>1
  <2>4. za - n \in Nat /\ za - n <= lo /\ lo - (za - n) <= l + n
        /\ l + za - (MAXLEN - 1) = (l + n) + (za - n) - (MAXLEN - 1)
    BY <1>2, <2>3
  <2> QED  BY <2>1, <2>2, <2>4
<1> QED  BY <1>3, <1>4, <1>6 DEF OutputInv

LEMMA FastKeeps ==
  ASSUME Inv, pc = "fast", NEW t, Rec(t), SameWindow(z, t),
         NEW d \in 0 .. 6, TurnIn(t, d), NEW n \in 0 .. MAXLEN, TurnOut(t, n), TurnEnd(t)
  PROVE  Inv'
<1>1. InputInv(t) /\ t.avail_in <= loc.in /\ loc.last = t.next + t.avail_in - 5
  BY TurnInput
<1>2. OutputInv(t) /\ t.avail_out <= loc.out /\ loc.out - t.avail_out <= Len(t.out)
      /\ loc.end = Len(t.out) + t.avail_out - (MAXLEN - 1)
  BY TurnOutput
<1>3. WindowInv(t)
  BY DEF Inv, WindowInv, SameWindow
<1>4. /\ z' = t /\ stream' = stream /\ loc' = loc /\ app' = app
      /\ t.mode \in {"LEN", "TYPE", "BAD", "LOST"} /\ pc' \in {"fast", "fastEnd"}
      /\ pc' = "fast" => t.mode = "LEN" /\ t.next < loc.last /\ Len(t.out) < loc.end
  BY DEF TurnEnd
<1>5. Rec(z)' /\ InputInv(z)' /\ OutputInv(z)' /\ WindowInv(z)'
  BY <1>1, <1>2, <1>3, <1>4 DEF Rec, InputInv, OutputInv, WindowInv
<1>6. StreamInv' /\ LocRec(loc)'
  BY <1>4 DEF Inv, StreamInv, LocRec
<1>7. loc.in \in Int /\ loc.out \in Int
  BY DEF Inv, CallInv
<1>8. CallInv'
  BY <1>1, <1>2, <1>4, <1>7 DEF CallInv
<1>9. t.bits <= 30 /\ t.bits <= 32 /\ t.bits <= 8 * (loc.in - t.avail_in) + 7
  BY DEF TurnIn
<1>10. EndInv' /\ FastInv'
  BY <1>1, <1>2, <1>4, <1>9 DEF EndInv, FastInv, Taken
<1>11. ~Between'
  BY <1>4 DEF Between
<1> QED  BY <1>4, <1>5, <1>6, <1>8, <1>10, <1>11 DEF Inv

LEMMA WithinTurn ==
  ASSUME FastStart, NEW t, NEW k \in 0 .. 6, NEW c, Within(t, k, c)
  PROVE  \E d \in 0 .. 6 : TurnIn(t, d)
<1>1. /\ t.bits \in 0 .. 30 /\ t.next \in z.next .. z.next + k
      /\ t.avail_in = z.avail_in - (t.next - z.next)
      /\ t.bits <= 8 * (loc.in - t.avail_in) + 7
  BY DEF Within
<1>2. z.next \in Int
  BY DEF FastStart
<1>3. PICK d \in 0 .. 6 : d = t.next - z.next
  BY <1>1, <1>2
<1>4. t.next = z.next + d
  BY <1>1, <1>2, <1>3
<1>5. TurnIn(t, d)
  BY <1>1, <1>3, <1>4 DEF TurnIn
<1> QED  BY <1>5

LEMMA StopKeeps ==
  ASSUME Inv, pc = "fast", NEW t, NEW k \in 0 .. 6, NEW c, Within(t, k, c),
         NEW m \in {"TYPE", "BAD", "LOST"}, FastStop(t, m), UNCHANGED <<stream, loc, ret, app>>
  PROVE  Inv'
<1> DEFINE u == [t EXCEPT !.mode = m]
<1>1. z' = u /\ pc' = "fastEnd"
  BY DEF FastStop
<1>2. Rec(t) /\ SameOut(z, t)
  BY DEF Within
<1>3. /\ Rec(u) /\ u.mode = m /\ SameWindow(z, u) /\ u.out = z.out /\ u.avail_out = z.avail_out
      /\ u.bits = t.bits /\ u.next = t.next /\ u.avail_in = t.avail_in
  BY <1>2 DEF Rec, Fields, SameOut, SameWindow
<1> HIDE DEF u
<1>4. PICK d \in 0 .. 6 : TurnIn(t, d)
  BY WithinTurn, StartOK
<1>5. TurnIn(u, d)
  BY <1>3, <1>4 DEF TurnIn
<1>6. z.avail_out \in Nat /\ z.out \in Seq(Nat) /\ MAXLEN \in Nat
  BY SizesAssumption DEF Inv, OutputInv
<1>7. 0 \in 0 .. MAXLEN /\ TurnOut(u, 0)
  BY <1>3, <1>6 DEF TurnOut
<1>8. TurnEnd(u)
  BY <1>1, <1>3 DEF TurnEnd
<1> QED  BY <1>3, <1>5, <1>7, <1>8, FastKeeps

LEMMA NextKeeps ==
  ASSUME Inv, pc = "fast", NEW t, NEW k \in 0 .. 6, NEW c, Within(t, k, c),
         NEW n \in 0 .. MAXLEN, NEW o \in Seq(Nat), Len(o) = Len(z.out) + n,
         FastNext([t EXCEPT !.out = o, !.avail_out = @ - n]), UNCHANGED <<stream, loc, ret, app>>
  PROVE  Inv'
<1> DEFINE u == [t EXCEPT !.out = o, !.avail_out = @ - n]
<1>1. z' = u /\ pc' = IF u.next < loc.last /\ Len(u.out) < loc.end THEN "fast" ELSE "fastEnd"
  BY DEF FastNext
<1>2. Rec(t) /\ SameOut(z, t) /\ t.mode = "LEN"
  BY DEF Within
<1>3. /\ Rec(u) /\ u.mode = "LEN" /\ SameWindow(z, u) /\ u.out = o
      /\ u.avail_out = z.avail_out - n
      /\ u.bits = t.bits /\ u.next = t.next /\ u.avail_in = t.avail_in
  BY <1>2 DEF Rec, Fields, SameOut, SameWindow
<1> HIDE DEF u
<1>4. PICK d \in 0 .. 6 : TurnIn(t, d)
  BY WithinTurn, StartOK
<1>5. TurnIn(u, d)
  BY <1>3, <1>4 DEF TurnIn
<1>6. TurnOut(u, n)
  BY <1>3 DEF TurnOut
<1>7. TurnEnd(u)
  BY <1>1, <1>3 DEF TurnEnd
<1> QED  BY <1>3, <1>5, <1>6, <1>7, FastKeeps

LEMMA FastMatchKeeps ==
  ASSUME Inv, pc = "fast", NEW t, NEW k \in 0 .. 6, NEW c, Within(t, k, c),
         NEW dist \in Nat \ {0}, NEW len \in 0 .. MAXLEN, FastMatch(t, dist, len),
         UNCHANGED <<stream, loc, ret, app>>
  PROVE  Inv'
<1> DEFINE written == loc.out - t.avail_out
<1>1. Rec(t) /\ SameOut(z, t)
  BY DEF Within
<1>2. WindowInv(t) /\ t.out \in Seq(Nat) /\ t.out = z.out
  BY <1>1 DEF Inv, SameOut, WindowInv, OutputInv
<1>3. written \in Nat /\ written <= Len(t.out) /\ MAXLEN \in Nat
  BY <1>1, SizesAssumption DEF Inv, SameOut, CallInv, OutputInv
<1>4. CASE dist - written > t.whave
  <2>1. FastStop(t, "BAD")
    BY <1>4 DEF FastMatch
  <2> QED  BY <2>1, StopKeeps
<1>5. CASE ~(dist - written > t.whave)
  <2>1. FastNext([t EXCEPT !.out = FastCopy(t, dist, len), !.avail_out = @ - len])
    BY <1>5 DEF FastMatch
  <2>2. len \in Nat
    BY <1>3
  <2>3. FastCopy(t, dist, len) \in Seq(Nat) /\ Len(FastCopy(t, dist, len)) = Len(t.out) + len
    BY <1>2, <1>3, <1>5, <2>2, FastCopyOK
  <2> QED  BY <1>2, <2>1, <2>3, NextKeeps
<1> QED  BY <1>4, <1>5

LEMMA Narrow ==
  ASSUME FastStart, NEW t, NEW k \in Nat, NEW c \in Int, Within(t, k, c), NEW m \in Nat,
         k <= m \/ c + t.bits < 8 * (m + 1)
  PROVE  Within(t, m, c)
<1>1. z.next \in Int
  BY DEF FastStart
<1>2. /\ t.bits \in 0 .. 30 /\ t.next \in z.next .. z.next + k
      /\ 8 * (t.next - z.next) - t.bits <= c
  BY DEF Within
<1>3. PICK d \in 0 .. k : t.next = z.next + d /\ d = t.next - z.next
  <2>1. PICK n \in Int, p \in Int : n = t.next /\ p = z.next
    BY <1>1, <1>2
  <2>2. n - p \in 0 .. k /\ n = p + (n - p)
    BY <1>2, <2>1
  <2> QED  BY <2>1, <2>2
<1>4. PICK b \in 0 .. 30 : b = t.bits
  BY <1>2
<1>5. 8 * d - b <= c /\ (k <= m \/ c + b < 8 * (m + 1))
  BY <1>2, <1>3, <1>4
<1>6. d <= m
  BY <1>5
<1>7. t.next \in z.next .. z.next + m
  BY <1>1, <1>3, <1>6
<1> QED  BY <1>7 DEF Within

\* The extra bits of a distance take at most two more bytes, and the sixth of the
\* turn is the last.
LEMMA ExtraOfDistance ==
  ASSUME FastStart, NEW d, Within(d, 5, 35), NEW x \in 0 .. 13,
         NEW g, g = DROPBITS(FillByte(FillByte(d, x), x), x)
  PROVE  Within(g, 6, 35 + x)
<1> DEFINE f1 == FillByte(d, x)
           f2 == FillByte(f1, x)
<1>1. d.bits \in 0 .. 30
  BY DEF Within
<1>2. Within(f2, 6, 35) /\ x <= f2.bits
  <2>1. CASE d.bits >= x
    <3>1. f1 = d
      BY <1>1, <2>1, FillNone
    <3> HIDE DEF f1
    <3>2. f2 = d
      BY <1>1, <2>1, <3>1, FillNone
    <3> HIDE DEF f2
    <3>3. Within(d, 6, 35)
      BY Narrow
    <3> QED  BY <1>1, <2>1, <3>2, <3>3
  <2>2. CASE d.bits < x
    <3>1. Within(f1, 5 + 1, 35) /\ f1.bits = d.bits + 8
      <4>1. PICK k \in Nat, c \in Int : k = 5 /\ c = 35
        OBVIOUS
      <4>2. Within(d, k, c)
        BY <4>1
      <4>3. Within(f1, k + 1, c)
        BY <2>2, <4>2, FillByteWithin
      <4>4. f1.bits = d.bits + 8
        BY <2>2, <4>2, FillByteWithin
      <4> QED  BY <4>1, <4>3, <4>4
    <3> HIDE DEF f1
    <3>2. Within(f1, 6, 35) /\ f1.bits \in 0 .. 30
      BY <3>1 DEF Within
    <3>3. CASE f1.bits >= x
      <4>1. f2 = f1
        BY <3>2, <3>3, FillNone
      <4> QED  BY <3>2, <3>3, <4>1
    <3>4. CASE f1.bits < x
      <4>1. Within(f2, 6 + 1, 35) /\ f2.bits = f1.bits + 8
        BY <3>2, <3>4, FillByteWithin
      <4> HIDE DEF f2
      <4>2. 35 + f2.bits < 8 * (6 + 1) /\ x <= f2.bits
        BY <1>1, <3>1, <3>4, <4>1
      <4>3. Within(f2, 6, 35)
        BY <4>1, <4>2, Narrow
      <4> QED  BY <4>2, <4>3
    <3> QED  BY <3>2, <3>3, <3>4
  <2> QED  BY <1>1, <2>1, <2>2
<1> HIDE DEF f1, f2
<1>3. g = DROPBITS(f2, x) /\ x \in Nat
  BY DEF f1, f2
<1> QED  BY <1>2, <1>3, DropWithin

LEMMA Loosen ==
  ASSUME FastStart, NEW t, NEW k, NEW c \in Int, Within(t, k, c), NEW m \in Int, c <= m
  PROVE  Within(t, k, m)
<1>1. /\ t.bits \in 0 .. 30 /\ t.next \in z.next .. z.next + k
      /\ 8 * (t.next - z.next) - t.bits <= c /\ z.next \in Int
  BY DEF Within, FastStart
<1>2. PICK p \in Int : p = 8 * (t.next - z.next) - t.bits
  BY <1>1
<1>3. 8 * (t.next - z.next) - t.bits <= m
  BY <1>1, <1>2
<1> QED  BY <1>3 DEF Within

LEMMA FastDistKeeps ==
  ASSUME Inv, pc = "fast", NEW t, Within(t, 5, 20), t.bits >= 15, NEW len \in 0 .. MAXLEN,
         FastLen(t, len), UNCHANGED <<stream, loc, ret, app>>
  PROVE  Inv'
<1> DEFINE e == Here(t)
           b == DROPBITS(t, e.n)
           g == DROPBITS(FillByte(FillByte(b, e.x), e.x), e.x)
           dist == e.v + (IF e.x = 0 THEN 0 ELSE Here(b).v)
<1>1. FastStart /\ StreamInv
  BY StartOK DEF Inv
<1>2. \/ FastStop(t, "LOST")
      \/ e.k = "dist" /\ FastStop(b, "BAD")
      \/ e.k = "dist" /\ FastMatch(g, dist, len)
  BY DEF FastLen, FastDist
<1>3. CASE FastStop(t, "LOST")
  BY <1>3, StopKeeps
<1>4. CASE e.k = "dist" /\ (FastStop(b, "BAD") \/ FastMatch(g, dist, len))
  <2>1. ElementOK(e)
    BY <1>1, HereOK
  <2>2. e.n \in 0 .. 15 /\ e.x \in 0 .. 13
    BY <1>4, <2>1 DEF ElementOK
  <2>3. t.bits \in 0 .. 30
    BY DEF Within
  <2>4. e.n \in Nat /\ e.n <= t.bits
    BY <2>2, <2>3
  <2>5. Within(b, 5, 20 + e.n) /\ Pos(b) = Pos(t) + e.n
    BY <1>1, <2>4, DropWithin
  <2>6. dist \in Nat \ {0}
    BY <1>1, <1>4, <2>5, FastValues
  <2> HIDE DEF e, b, dist
  <2>7. 20 + e.n \in Int /\ 20 + e.n <= 35
    BY <2>2
  <2>8. Within(b, 5, 35)
    BY <1>1, <2>5, <2>7, Loosen
  <2>9. Within(g, 6, 35 + e.x)
    BY <1>1, <2>2, <2>8, ExtraOfDistance
  <2> HIDE DEF g
  <2>10. CASE FastStop(b, "BAD")
    BY <2>8, <2>10, StopKeeps
  <2>11. CASE FastMatch(g, dist, len)
    <3>1. PICK c : Within(g, 6, c)
      BY <2>9
    <3>2. 6 \in 0 .. 6
      OBVIOUS
    <3> QED  BY <2>6, <2>11, <3>1, <3>2, FastMatchKeeps
  <2> QED  BY <1>4, <2>10, <2>11
<1> HIDE DEF e, b, g, dist
<1> QED  BY <1>2, <1>3, <1>4

\* The extra bits of a length, and what is fetched ahead of the distance.
LEMMA ExtraOfLength ==
  ASSUME FastStart, NEW b, Within(b, 2, 15), NEW x \in 0 .. 5,
         NEW h, h = Fill15(DROPBITS(FillByte(b, x), x))
  PROVE  Within(h, 5, 20) /\ h.bits >= 15
<1> DEFINE f == FillByte(b, x)
           g == DROPBITS(f, x)
<1>1. b.bits \in 0 .. 30 /\ x \in 0 .. 13
  BY DEF Within
<1>2. Within(f, 3, 15) /\ x <= f.bits
  <2>1. CASE b.bits >= x
    <3>1. f = b
      BY <1>1, <2>1, FillNone
    <3> HIDE DEF f
    <3>2. Within(b, 3, 15)
      BY Narrow
    <3> QED  BY <1>1, <2>1, <3>1, <3>2
  <2>2. CASE b.bits < x
    <3>1. PICK k \in Nat, c \in Int : k = 2 /\ c = 15
      OBVIOUS
    <3>2. Within(b, k, c)
      BY <3>1
    <3>3. Within(f, k + 1, c)
      BY <1>1, <2>2, <3>2, FillByteWithin
    <3>4. f.bits = b.bits + 8
      BY <1>1, <2>2, <3>2, FillByteWithin
    <3> HIDE DEF f
    <3>5. x <= f.bits
      BY <1>1, <3>4
    <3> QED  BY <3>1, <3>3, <3>5
  <2> QED  BY <1>1, <2>1, <2>2
<1> HIDE DEF f
<1>3. Within(g, 3, 15 + x)
  BY <1>1, <1>2, DropWithin
<1> HIDE DEF g
<1>4. 15 + x \in Int /\ 15 + x <= 20
  OBVIOUS
<1>5. Within(g, 3, 20)
  BY <1>3, <1>4, Loosen
<1>6. h = Fill15(g)
  BY DEF f, g
<1>7. Within(h, 3 + 2, 20) /\ h.bits >= 15
  BY <1>5, <1>6, Fill15Within
<1> QED  BY <1>7

LEMMA FastStepKeeps ==
  ASSUME Inv, FastStep
  PROVE  Inv'
<1> DEFINE t == Fill15(z)
           e == Here(t)
           b == DROPBITS(t, e.n)
           c == DROPBITS(t, CodeBits(e))
           len == e.v + (IF e.x = 0 THEN 0 ELSE Here(b).v)
           h == Fill15(DROPBITS(FillByte(b, e.x), e.x))
           u == [b EXCEPT !.out = Append(@, e.v), !.avail_out = @ - 1]
<1>1. pc = "fast" /\ FastSymbol(t, e) /\ UNCHANGED <<stream, loc, ret, app>>
  BY DEF FastStep, FastFilled
<1>2. \/ e.k = "lit" /\ FastNext(u)
      \/ e.k = "eob" /\ FastStop(b, "TYPE")
      \/ e.k = "len" /\ FastLen(h, len)
      \/ e.k \in {"lit", "eob", "len"} /\ FastStop(b, "BAD")
      \/ FastStop(c, "LOST")
  BY <1>1 DEF FastSymbol
<1>3. FastStart /\ StreamInv
  BY <1>1, StartOK DEF Inv
<1>4. ElementOK(e) /\ ElementOK(Here(z))
  BY <1>3, HereOK
<1>5. Here(z) = e /\ Within(c, 2, 15) /\ Pos(c) = Pos(z) + CodeBits(e)
  <2>1. PICK n : n = CodeBits(Here(z))
    OBVIOUS
  <2>2. Here(t) = Here(z) /\ Within(DROPBITS(t, n), 2, 15) /\ Pos(DROPBITS(t, n)) = Pos(z) + n
    BY <1>3, <2>1, FirstCode
  <2> QED  BY <2>1, <2>2
<1>6. e.k \in {"lit", "eob", "len"} => b = c /\ CodeBits(e) = e.n
  BY <1>4, CodeBitsOK
<1> HIDE DEF t, e, b, c
<1>7. CASE e.k \in {"lit", "eob", "len"} /\ \/ FastStop(b, "TYPE")
                                            \/ FastStop(b, "BAD")
                                            \/ FastStop(c, "LOST")
  BY <1>1, <1>5, <1>6, <1>7, StopKeeps
<1>8. CASE FastStop(c, "LOST")
  BY <1>1, <1>5, <1>8, StopKeeps
<1>9. CASE e.k = "lit" /\ FastNext(u)
  <2>1. Within(b, 2, 15) /\ e.v \in Nat
    BY <1>4, <1>5, <1>6, <1>9 DEF ElementOK
  <2>2. b.out = z.out
    BY <2>1 DEF Within, SameOut
  <2>3. z.out \in Seq(Nat) /\ 1 \in 0 .. MAXLEN
    BY SizesAssumption DEF Inv, OutputInv
  <2>4. Append(z.out, e.v) \in Seq(Nat) /\ Len(Append(z.out, e.v)) = Len(z.out) + 1
    BY <2>1, <2>3
  <2>5. PICK o \in Seq(Nat) : o = Append(b.out, e.v) /\ Len(o) = Len(z.out) + 1
    BY <2>2, <2>4
  <2>6. FastNext([b EXCEPT !.out = o, !.avail_out = @ - 1])
    BY <1>9, <2>5
  <2> HIDE DEF u
  <2>7. PICK n \in 0 .. MAXLEN : n = 1
    BY <2>3
  <2>8. Len(o) = Len(z.out) + n /\ FastNext([b EXCEPT !.out = o, !.avail_out = @ - n])
    BY <2>5, <2>6, <2>7
  <2>9. 2 \in 0 .. 6
    OBVIOUS
  <2> QED  BY <1>1, <2>1, <2>8, <2>9, NextKeeps
<1>10. CASE e.k = "len" /\ FastLen(h, len)
  <2>1. Within(b, 2, 15) /\ e.x \in 0 .. 5 /\ Pos(b) = Pos(z) + e.n
    BY <1>4, <1>5, <1>6, <1>10 DEF ElementOK
  <2>2. len \in 0 .. MAXLEN
    BY <1>3, <1>5, <1>10, <2>1, FastValues
  <2>3. Within(h, 5, 20) /\ h.bits >= 15
    BY <1>3, <2>1, ExtraOfLength
  <2> HIDE DEF h, len
  <2> QED  BY <1>1, <1>10, <2>2, <2>3, FastDistKeeps
<1> HIDE DEF h, len, u
<1> QED  BY <1>2, <1>7, <1>8, <1>9, <1>10

LEMMA FastEnterKeeps ==
  ASSUME Inv, FastEnter
  PROVE  Inv'
<1>1. /\ pc = "loop" /\ z.mode = "LEN" /\ z.avail_in >= 6 /\ z.avail_out >= MAXLEN
      /\ loc' = [loc EXCEPT !.last = z.next + z.avail_in - 5,
                            !.end = Len(z.out) + z.avail_out - (MAXLEN - 1)]
      /\ pc' = "fast" /\ z' = z /\ stream' = stream /\ app' = app
  BY DEF FastEnter, FastPossible, In
<1>2. /\ LocRec(loc)' /\ loc'.in = loc.in /\ loc'.out = loc.out
      /\ loc'.last = z.next + z.avail_in - 5
      /\ loc'.end = Len(z.out) + z.avail_out - (MAXLEN - 1)
  BY <1>1 DEF Inv, LocRec, LocFields
<1>3. StreamInv' /\ Rec(z)' /\ InputInv(z)' /\ OutputInv(z)' /\ WindowInv(z)'
  BY <1>1 DEF Inv, StreamInv, Rec, InputInv, OutputInv, WindowInv
<1>4. CallInv' /\ EndInv'
  BY <1>1, <1>2 DEF Inv, CallInv, EndInv
<1>5. z.next \in Int /\ z.avail_in \in Nat /\ z.bits \in Nat /\ z.avail_out \in Nat
      /\ Len(z.out) \in Nat /\ loc.in \in Int /\ z.avail_in <= loc.in /\ MAXLEN \in Nat
  BY <1>1, SizesAssumption DEF Inv, InputInv, OutputInv, CallInv
<1>6. CodeBits(Here(z)) \in 0 .. 15
  BY HereOK, CodeBitsOK DEF Inv
<1>7. z.bits < 8 \/ z.bits < CodeBits(Here(z))
  BY <1>1 DEF Inv, Between, BitsInv
<1>8. z.next < loc'.last /\ Len(z.out) < loc'.end
  BY <1>1, <1>2, <1>5, SMTT(60)
<1>9. z.bits <= 30 /\ (z.bits <= 8 * (loc.in - z.avail_in) + 7 \/ z.bits < CodeBits(Here(z)))
  <2>1. PICK c \in 0 .. 15 : c = CodeBits(Here(z))
    BY <1>6
  <2>2. z.bits <= 30
    <3>1. z.bits \in Nat /\ (z.bits < 8 \/ z.bits < c)
      BY <1>5, <1>7, <2>1
    <3> QED  BY <3>1
  <2>3. z.bits < 8 => z.bits <= 8 * (loc.in - z.avail_in) + 7
    BY <1>5
  <2> QED  BY <1>7, <2>2, <2>3
<1>10. Here(z)' = Here(z)
  BY <1>1 DEF Here, Pos
<1>11. FastInv'
  BY <1>1, <1>2, <1>8, <1>9, <1>10 DEF FastInv, Taken
<1>12. ~Between'
  BY <1>1 DEF Between
<1> QED  BY <1>1, <1>2, <1>3, <1>4, <1>11, <1>12 DEF Inv

LEMMA FastEndKeeps ==
  ASSUME Inv, FastEnd
  PROVE  Inv'
<1> DEFINE n == z.bits \div 8
           t == ReturnUnused(z)
<1>1. pc = "fastEnd" /\ z' = t /\ pc' = "loop" /\ stream' = stream /\ loc' = loc /\ app' = app
  BY DEF FastEnd
<1>2. z.mode \in {"LEN", "TYPE", "BAD", "LOST"} /\ z.bits <= 32
      /\ z.bits <= 8 * (loc.in - z.avail_in) + 7
  BY <1>1 DEF Inv, EndInv, Taken
<1>3. z.bits \in Nat /\ z.next \in Int /\ z.avail_in \in Nat /\ z.next + z.avail_in <= stream.bytes
      /\ loc.in \in Int /\ z.avail_in <= loc.in
  BY <1>1 DEF Inv, InputInv, CallInv
<1>4. n \in Nat /\ 8 * n <= z.bits /\ z.bits < 8 * n + 8
  BY <1>3
<1>5. Rec(z)
  BY DEF Inv
<1>6. /\ Rec(t) /\ t.next = z.next - n /\ t.avail_in = z.avail_in + n /\ t.bits = z.bits - 8 * n
      /\ t.mode = z.mode /\ SameOut(z, t)
  BY <1>5 DEF Rec, Fields, ReturnUnused, SameOut
<1> HIDE DEF n, t
<1>7. n <= loc.in - z.avail_in
  BY <1>2, <1>3, <1>4
<1>8. t.bits \in Nat /\ t.bits < 8
  <2>1. t.bits = z.bits - 8 * n
    BY <1>6
  <2> QED  BY <1>3, <1>4, <2>1
<1>9. InputInv(t) /\ t.avail_in <= loc.in
  <2>1. t.next = z.next - n /\ t.avail_in = z.avail_in + n
    BY <1>6
  <2>2. stream.bytes \in Nat
    BY StreamsAssumption DEF Inv, StreamInv
  <2>3. t.next \in Int /\ t.avail_in \in Nat /\ t.next + t.avail_in <= stream.bytes
        /\ t.avail_in <= loc.in
    BY <1>3, <1>4, <1>7, <2>1, <2>2
  <2> QED  BY <1>8, <2>3 DEF InputInv
<1>10. OutputInv(t) /\ t.avail_out <= loc.out /\ loc.out - t.avail_out <= Len(t.out)
       /\ loc.out \in Int
  BY <1>1, <1>6 DEF Inv, CallInv, SameOut, OutputInv
<1>11. WindowInv(t)
  BY <1>6 DEF Inv, SameOut, WindowInv
<1>12. BitsInv(t) /\ LengthInv(t)
  BY <1>2, <1>6, <1>8, FewBits, EndBits, PlainLength DEF PlainModes
<1>13. StreamInv' /\ LocRec(loc)'
  BY <1>1 DEF Inv, StreamInv, LocRec
<1>14. Rec(t)
  BY <1>6
<1> QED
  BY <1>1, <1>3, <1>9, <1>10, <1>11, <1>12, <1>13, <1>14, LoopKeeps

-----------------------------------------------------------------------------
(* The window and the return from inflate.                                 *)

WindowFields == {"wsize", "wnext", "whave", "window"}

\* Every byte of the window that counts as written has been written.
LEMMA WindowKept ==
  ASSUME NEW t, Rec(t), WindowInv(t), NEW hist \in Seq(Nat), NEW copy \in Nat, copy <= Len(hist),
         NEW s, s = updatewindow(t, hist, copy)
  PROVE  /\ WindowInv(s) /\ Rec(s)
         /\ \A x \in Fields \ WindowFields : s[x] = t[x]
<1> DEFINE u == IF t.wsize = 0 THEN [t EXCEPT !.wsize = WSIZE, !.wnext = 0, !.whave = 0] ELSE t
           n == Len(hist)
           dist == MIN(u.wsize - u.wnext, copy)
           rest == copy - dist
           next == u.wnext + dist
           all == [i \in DOMAIN u.window |-> hist[n - u.wsize + 1 + i]]
           part == [i \in DOMAIN u.window |->
                      IF i \in u.wnext .. u.wnext + dist - 1
                      THEN hist[n - copy + 1 + i - u.wnext]
                      ELSE IF i < rest THEN hist[n - rest + 1 + i] ELSE u.window[i]]
           wnext == IF rest > 0 THEN rest ELSE IF next = u.wsize THEN 0 ELSE next
           whave == IF rest > 0 THEN u.wsize ELSE IF u.whave < u.wsize THEN u.whave + dist ELSE u.whave
<1>1. s = IF copy >= u.wsize
          THEN [u EXCEPT !.window = all, !.wnext = 0, !.whave = u.wsize]
          ELSE [u EXCEPT !.window = part, !.wnext = wnext, !.whave = whave]
  BY DEF updatewindow
<1>2. WSIZE \in Nat /\ WSIZE > 0
  BY SizesAssumption
<1>3. /\ Rec(u) /\ u.wsize = WSIZE /\ u.wnext \in 0 .. WSIZE - 1 /\ u.whave \in 0 .. WSIZE
      /\ u.whave < WSIZE => u.wnext = u.whave
      /\ u.window \in [0 .. WSIZE - 1 -> Int]
      /\ \A i \in 0 .. u.whave - 1 : u.window[i] \in Nat
      /\ \A x \in Fields \ WindowFields : u[x] = t[x]
  <2>1. CASE t.wsize = 0
    <3>1. Rec(u) /\ u.wsize = WSIZE /\ u.wnext = 0 /\ u.whave = 0 /\ u.window = t.window
          /\ \A x \in Fields \ WindowFields : u[x] = t[x]
      BY <2>1 DEF Rec, Fields, WindowFields
    <3> HIDE DEF u
    <3>2. t.window \in [0 .. WSIZE - 1 -> Int]
      BY DEF WindowInv
    <3> QED  BY <1>2, <3>1, <3>2
  <2>2. CASE t.wsize # 0
    <3>1. u = t
      BY <2>2
    <3> HIDE DEF u
    <3> QED  BY <2>2, <3>1 DEF WindowInv
  <2> QED  BY <2>1, <2>2
<1> HIDE DEF u
<1>4. n \in Nat /\ \A i \in 1 .. n : hist[i] \in Nat
  OBVIOUS
<1>5. copy <= n
  OBVIOUS
<1> HIDE DEF n
<1>6. CASE copy >= u.wsize
  <2>1. s = [u EXCEPT !.window = all, !.wnext = 0, !.whave = u.wsize]
    BY <1>1, <1>6
  <2>2. all \in [0 .. WSIZE - 1 -> Nat]
    <3>1. ASSUME NEW i \in 0 .. WSIZE - 1
          PROVE  hist[n - u.wsize + 1 + i] \in Nat
      <4>1. n - u.wsize + 1 + i \in 1 .. n
        BY <1>2, <1>3, <1>4, <1>5, <1>6
      <4> QED  BY <1>4, <4>1
    <3>2. DOMAIN u.window = 0 .. WSIZE - 1
      BY <1>3
    <3> QED  BY <3>1, <3>2
  <2> HIDE DEF all
  <2>3. /\ Rec(s) /\ s.wsize = u.wsize /\ s.wnext = 0 /\ s.whave = u.wsize /\ s.window = all
        /\ \A x \in Fields \ WindowFields : s[x] = u[x]
    <3>1. Rec(u)
      BY <1>3
    <3> QED  BY <2>1, <3>1, ZenonT(60) DEF Rec, Fields, WindowFields
  <2>4. WindowInv(s)
    <3>1. s.wsize = WSIZE /\ s.wnext = 0 /\ s.whave = WSIZE /\ s.window = all
      BY <1>3, <2>3
    <3>2. all \in [0 .. WSIZE - 1 -> Int] /\ \A i \in 0 .. WSIZE - 1 : all[i] \in Nat
      BY <2>2
    <3> QED  BY <1>2, <3>1, <3>2 DEF WindowInv
  <2> QED  BY <1>3, <2>3, <2>4
<1>7. CASE ~(copy >= u.wsize)
  <2>1. s = [u EXCEPT !.window = part, !.wnext = wnext, !.whave = whave]
    BY <1>1, <1>7
  <2>2. PICK p \in 0 .. WSIZE - 1, v \in 0 .. WSIZE :
           p = u.wnext /\ v = u.whave /\ (v < WSIZE => p = v)
    BY <1>3
  <2>3. copy < WSIZE
    BY <1>2, <1>3, <1>7
  <2>4. dist \in Nat /\ dist <= copy /\ p + dist <= WSIZE /\ (dist = copy \/ p + dist = WSIZE)
    BY <1>2, <1>3, <2>2, SMTT(60) DEF MIN
  <2> HIDE DEF dist
  <2>5. rest \in Nat /\ rest + dist = copy /\ (rest > 0 => p + dist = WSIZE) /\ rest < WSIZE
    BY <1>2, <2>3, <2>4
  <2> HIDE DEF rest
  <2>6. wnext \in 0 .. WSIZE - 1 /\ whave \in 0 .. WSIZE /\ (whave < WSIZE => wnext = whave)
    <3>1. CASE rest > 0
      <4>1. wnext = rest /\ whave = WSIZE
        BY <1>3, <3>1
      <4> QED  BY <1>2, <2>5, <3>1, <4>1
    <3>2. CASE ~(rest > 0)
      <4>1. /\ wnext = IF p + dist = WSIZE THEN 0 ELSE p + dist
            /\ whave = IF v < WSIZE THEN v + dist ELSE v
        BY <1>3, <2>2, <3>2
      <4> HIDE DEF wnext, whave
      <4>2. v < WSIZE => p = v
        BY <2>2
      <4>3. CASE v < WSIZE
        <5>1. whave = p + dist
          BY <4>1, <4>2, <4>3
        <5>2. CASE p + dist = WSIZE
          BY <1>2, <4>1, <5>1, <5>2
        <5>3. CASE p + dist # WSIZE
          <6>1. wnext = p + dist /\ p + dist < WSIZE
            BY <1>2, <2>4, <4>1, <5>3
          <6> QED  BY <1>2, <2>4, <5>1, <6>1
        <5> QED  BY <5>2, <5>3
      <4>4. CASE ~(v < WSIZE)
        <5>1. whave = WSIZE
          BY <1>2, <4>1, <4>4
        <5>2. wnext \in 0 .. WSIZE - 1
          BY <1>2, <2>4, <4>1
        <5> QED  BY <1>2, <5>1, <5>2
      <4> QED  BY <4>3, <4>4
    <3> QED  BY <3>1, <3>2
  <2>7. \A i \in 0 .. WSIZE - 1 : part[i] \in Int /\ (i < whave => part[i] \in Nat)
    <3> SUFFICES ASSUME NEW i \in 0 .. WSIZE - 1
                 PROVE  part[i] \in Int /\ (i < whave => part[i] \in Nat)
      OBVIOUS
    <3>1. part[i] = IF i \in p .. p + dist - 1 THEN hist[n - copy + 1 + i - p]
                    ELSE IF i < rest THEN hist[n - rest + 1 + i] ELSE u.window[i]
      BY <1>3, <2>2
    <3> HIDE DEF part
    <3>2. CASE i \in p .. p + dist - 1
      <4>1. n - copy + 1 + i - p \in 1 .. n
        <5>1. i - p \in 0 .. dist - 1
          BY <2>4, <3>2
        <5>2. PICK j \in 0 .. dist - 1 : j = i - p
          BY <5>1
        <5>3. (n - copy) + 1 + j \in 1 .. n
          BY <1>4, <1>5, <2>4
        <5> QED  BY <5>2, <5>3
      <4>2. part[i] = hist[n - copy + 1 + i - p]
        BY <3>1, <3>2
      <4> QED  BY <1>4, <4>1, <4>2
    <3>3. CASE i \notin p .. p + dist - 1 /\ i < rest
      <4>1. n - rest + 1 + i \in 1 .. n
        BY <1>4, <1>5, <2>4, <2>5, <3>3
      <4>2. part[i] = hist[n - rest + 1 + i]
        BY <3>1, <3>3
      <4> QED  BY <1>4, <4>1, <4>2
    <3>4. CASE i \notin p .. p + dist - 1 /\ ~(i < rest)
      <4>1. part[i] = u.window[i] /\ u.window[i] \in Int
        BY <1>3, <3>1, <3>4
      <4>2. i < whave => i \in 0 .. v - 1
        <5>1. CASE rest > 0
          <6>1. p + dist = WSIZE
            BY <2>5, <5>1
          <6>2. i < p
            BY <1>2, <2>4, <3>4, <6>1
          <6>3. p <= v
            BY <1>2, <2>2
          <6> QED  BY <6>2, <6>3
        <5>2. CASE ~(rest > 0)
          <6>1. whave = IF v < WSIZE THEN v + dist ELSE v
            BY <1>3, <2>2, <5>2
          <6> HIDE DEF whave
          <6>2. v < WSIZE => p = v
            BY <2>2
          <6>3. CASE v < WSIZE
            <7>1. p = v /\ whave = v + dist
              BY <6>1, <6>2, <6>3
            <7>2. i < v + dist => i < v
              BY <2>4, <3>4, <7>1
            <7> QED  BY <7>1, <7>2
          <6>4. CASE ~(v < WSIZE)
            BY <6>1, <6>4
          <6> QED  BY <6>3, <6>4
        <5> QED  BY <5>1, <5>2
      <4> QED  BY <1>3, <2>2, <4>1, <4>2
    <3> QED  BY <3>2, <3>3, <3>4
  <2>8. part \in [0 .. WSIZE - 1 -> Int]
    <3>1. DOMAIN u.window = 0 .. WSIZE - 1
      BY <1>3
    <3> QED  BY <2>7, <3>1
  <2> HIDE DEF part, wnext, whave
  <2>9. /\ Rec(s) /\ s.wsize = u.wsize /\ s.wnext = wnext /\ s.whave = whave /\ s.window = part
        /\ \A x \in Fields \ WindowFields : s[x] = u[x]
    <3>1. Rec(u)
      BY <1>3
    <3> QED  BY <2>1, <3>1, ZenonT(60) DEF Rec, Fields, WindowFields
  <2>10. WindowInv(s)
    <3>1. s.wsize = WSIZE /\ s.wnext = wnext /\ s.whave = whave /\ s.window = part
      BY <1>3, <2>9
    <3>2. \A i \in 0 .. whave - 1 : part[i] \in Nat
      BY <1>2, <2>6, <2>7
    <3> QED  BY <1>2, <2>6, <2>8, <3>1, <3>2 DEF WindowInv
  <2> QED  BY <1>3, <2>9, <2>10
<1> QED  BY <1>6, <1>7

\* The fields the bounds do not speak of.
LEMMA SameBounds ==
  ASSUME NEW t, NEW s, InputInv(t), OutputInv(t), BitsInv(t), LengthInv(t),
         \A x \in Fields \ (WindowFields \cup {"total", "check", "havedict"}) : s[x] = t[x]
  PROVE  InputInv(s) /\ OutputInv(s) /\ BitsInv(s) /\ LengthInv(s)
<1>1. /\ s.mode = t.mode /\ s.bits = t.bits /\ s.next = t.next /\ s.avail_in = t.avail_in
      /\ s.avail_out = t.avail_out /\ s.out = t.out /\ s.flags = t.flags /\ s.wrap = t.wrap
      /\ s.last = t.last /\ s.length = t.length /\ s.offset = t.offset /\ s.extra = t.extra
  BY DEF Fields, WindowFields
<1>2. Here(s) = Here(t)
  BY <1>1 DEF Here, Pos
<1>3. Wanted(s) = Wanted(t)
  BY <1>1, <1>2 DEF Wanted
<1>4. InputInv(s) /\ OutputInv(s)
  BY <1>1 DEF InputInv, OutputInv
<1>5. BitsInv(s)
  BY <1>1, <1>2, <1>3 DEF BitsInv
<1>6. LengthInv(s)
  BY <1>1 DEF LengthInv
<1> QED  BY <1>4, <1>5, <1>6

LEMMA InfLeaveKeeps ==
  ASSUME Inv, InfLeave
  PROVE  Inv'
<1> DEFINE wrote == loc.out - z.avail_out
           t == IF KeepsWindow(z) THEN updatewindow(z, z.out, wrote) ELSE z
           s == IF wrote = 0 THEN t ELSE Account(t, wrote)
<1>1. pc = "leave" /\ z' = s /\ pc' = "idle" /\ loc' = NoLocals /\ stream' = stream /\ app' = app
  BY DEF InfLeave
<1>2. /\ Rec(z) /\ InputInv(z) /\ OutputInv(z) /\ WindowInv(z) /\ BitsInv(z) /\ LengthInv(z)
  BY <1>1 DEF Inv, Between
<1>3. z.out \in Seq(Nat) /\ wrote \in Nat /\ wrote <= Len(z.out)
  BY <1>1 DEF Inv, OutputInv, CallInv
<1> HIDE DEF wrote
<1>4. Rec(t) /\ WindowInv(t) /\ \A x \in Fields \ WindowFields : t[x] = z[x]
  <2>1. CASE KeepsWindow(z)
    <3>1. t = updatewindow(z, z.out, wrote)
      BY <2>1
    <3> HIDE DEF t
    <3> QED  BY <1>2, <1>3, <3>1, WindowKept
  <2>2. CASE ~KeepsWindow(z)
    BY <1>2, <2>2
  <2> QED  BY <2>1, <2>2
<1> HIDE DEF t
<1>5. Rec(s) /\ WindowInv(s)
      /\ \A x \in Fields \ {"total", "check"} : s[x] = t[x]
  <2>1. CASE wrote = 0
    BY <1>4, <2>1
  <2>2. CASE wrote # 0
    <3>1. s = Account(t, wrote)
      BY <2>2
    <3> HIDE DEF s
    <3>2. Frame(t, s) /\ \A x \in Fields \ {"total", "check"} : s[x] = t[x]
      BY <1>4, <3>1, AccountRec
    <3>3. WindowInv(s)
      BY <1>4, <3>2 DEF Frame, SameOut, WindowInv
    <3> QED  BY <3>2, <3>3 DEF Frame
  <2> QED  BY <2>1, <2>2
<1> HIDE DEF s
<1>6. \A x \in Fields \ (WindowFields \cup {"total", "check", "havedict"}) : s[x] = z[x]
  BY <1>4, <1>5
<1>7. InputInv(s) /\ OutputInv(s) /\ BitsInv(s) /\ LengthInv(s)
  BY <1>2, <1>6, SameBounds
<1>8. LocRec(loc)'
  BY <1>1, NoLocalsRec DEF LocRec
<1>9. StreamInv'
  BY <1>1 DEF Inv, StreamInv
<1> QED  BY <1>1, <1>5, <1>7, <1>8, <1>9, IdleKeeps

-----------------------------------------------------------------------------
(* The application.                                                        *)

LEMMA OtherStream ==
  ASSUME Inv, NEW f, Other(f), stream' = stream
  PROVE  StreamInv' /\ pc = "idle"
<1>1. app = [use |-> app.use, calls |-> app.calls] /\ app.use \in DOMAIN Uses
      /\ stream \in Streams[app.use]
  BY DEF Inv, StreamInv
<1>2. app' = [app EXCEPT !.calls = @ + 1] /\ pc = "idle"
  BY DEF Other, Idle
<1>3. app' = [use |-> app'.use, calls |-> app'.calls] /\ app'.use = app.use
  BY <1>1, <1>2
<1> QED  BY <1>1, <1>2, <1>3 DEF StreamInv

\* A state without bits, output or window, such as the calls that start a stream leave.
LEMMA EmptyKeeps ==
  ASSUME Inv, StreamInv', pc' = "idle", stream' = stream, loc' = loc,
         NEW t, z' = t, Rec(t), t.bits = 0, t.mode \in PlainModes,
         t.next \in Int, t.avail_in \in Nat, t.next + t.avail_in <= stream.bytes,
         t.avail_out \in Nat, t.out \in Seq(Nat),
         t.wsize = 0, t.wnext = 0, t.whave = 0, t.window \in [0 .. WSIZE - 1 -> Int]
  PROVE  Inv'
<1>1. InputInv(t)
  BY DEF InputInv
<1>2. OutputInv(t)
  BY DEF OutputInv
<1>3. WSIZE \in Nat /\ WSIZE > 0
  BY SizesAssumption
<1>4. WindowInv(t)
  <2>1. 0 \in 0 .. WSIZE - 1 /\ 0 \in 0 .. 0 /\ \A i \in 0 .. 0 - 1 : t.window[i] \in Nat
    BY <1>3
  <2> QED  BY <2>1 DEF WindowInv
<1>5. BitsInv(t) /\ LengthInv(t)
  BY NoBits, PlainLength
<1>6. LocRec(loc)'
  BY DEF Inv, LocRec
<1> QED  BY <1>1, <1>2, <1>4, <1>5, <1>6, IdleKeeps

LEMMA NoWindow ==
  [i \in 0 .. WSIZE - 1 |-> Uninit] \in [0 .. WSIZE - 1 -> Int]
  BY DEF Uninit

LEMMA inflateInit2Keeps ==
  ASSUME Inv, inflateInit2
  PROVE  Inv'
<1>1. PICK w, garbage :
        z' = inflateReset([NoStream EXCEPT !.wrap = w, !.flags.gz = garbage])
  BY DEF inflateInit2
<1>2. pc' = "idle" /\ stream' = stream /\ loc' = loc /\ app' = app
  BY DEF inflateInit2
<1> DEFINE y == [NoStream EXCEPT !.wrap = w, !.flags.gz = garbage]
           t == inflateReset(y)
<1>3. Rec(y) /\ y.next = 0 /\ y.avail_in = 0 /\ y.avail_out = 0 /\ y.out = <<>>
      /\ y.window = [i \in 0 .. WSIZE - 1 |-> Uninit]
  BY ZenonT(60) DEF Rec, Fields, NoStream
<1> HIDE DEF y
<1>4. /\ Rec(t) /\ t.bits = 0 /\ t.mode = "HEAD" /\ t.next = y.next /\ t.avail_in = y.avail_in
      /\ t.avail_out = y.avail_out /\ t.out = y.out /\ t.window = y.window
      /\ t.wsize = 0 /\ t.wnext = 0 /\ t.whave = 0
  BY <1>3, ZenonT(60) DEF Rec, Fields, inflateReset, ResetKeep
<1>5. z' = t
  BY <1>1 DEF y
<1> HIDE DEF t
<1>6. stream.bytes \in Nat
  BY StreamsAssumption DEF Inv, StreamInv
<1>7. t.next \in Int /\ t.avail_in \in Nat /\ t.next + t.avail_in <= stream.bytes
      /\ t.avail_out \in Nat /\ t.out \in Seq(Nat)
  BY <1>3, <1>4, <1>6
<1>8. t.window \in [0 .. WSIZE - 1 -> Int]
  BY <1>3, <1>4, NoWindow
<1>9. StreamInv'
  BY <1>2 DEF Inv, StreamInv
<1>10. t.mode \in PlainModes
  BY <1>4 DEF PlainModes
<1> QED  BY <1>2, <1>4, <1>5, <1>7, <1>8, <1>9, <1>10, EmptyKeeps

LEMMA ResetKeeps ==
  ASSUME Inv, Reset
  PROVE  Inv'
<1> DEFINE y == inflateReset(z)
           t == [y EXCEPT !.next = 0, !.avail_in = 0, !.out = <<>>, !.skipped = <<>>,
                          !.start = NoStream.start]
<1>1. z' = t /\ stream' = stream /\ loc' = loc /\ pc' = pc /\ Other("Reset")
  BY DEF Reset
<1>2. StreamInv' /\ pc = "idle"
  BY <1>1, OtherStream
<1>3. Rec(z) /\ z.avail_out \in Nat /\ z.window \in [0 .. WSIZE - 1 -> Int]
  BY DEF Inv, OutputInv, WindowInv
<1>4. /\ Rec(y) /\ y.bits = 0 /\ y.mode = "HEAD"
      /\ y.avail_out = z.avail_out /\ y.window = z.window
      /\ y.wsize = 0 /\ y.wnext = 0 /\ y.whave = 0
  BY <1>3, ZenonT(60) DEF Rec, Fields, inflateReset, ResetKeep
<1> HIDE DEF y
<1>5. /\ Rec(t) /\ t.bits = 0 /\ t.mode = "HEAD" /\ t.next = 0 /\ t.avail_in = 0 /\ t.out = <<>>
      /\ t.avail_out = y.avail_out /\ t.window = y.window
      /\ t.wsize = y.wsize /\ t.wnext = y.wnext /\ t.whave = y.whave
  BY <1>4, ZenonT(60) DEF Rec, Fields
<1> HIDE DEF t
<1>6. stream.bytes \in Nat
  BY StreamsAssumption DEF Inv, StreamInv
<1>7. t.next \in Int /\ t.avail_in \in Nat /\ t.next + t.avail_in <= stream.bytes
      /\ t.avail_out \in Nat /\ t.out \in Seq(Nat)
  BY <1>3, <1>4, <1>5, <1>6
<1>8. t.mode \in PlainModes
  BY <1>5 DEF PlainModes
<1> QED  BY <1>1, <1>2, <1>3, <1>4, <1>5, <1>7, <1>8, EmptyKeeps

LEMMA inflateEndKeeps ==
  ASSUME Inv, inflateEnd
  PROVE  Inv'
<1> DEFINE t == NoStream
<1>1. z' = t /\ stream' = stream /\ loc' = loc /\ pc' = pc /\ Other("End")
  BY DEF inflateEnd
<1>2. StreamInv' /\ pc = "idle"
  BY <1>1, OtherStream
<1>3. /\ Rec(t) /\ t.bits = 0 /\ t.mode = "freed" /\ t.next = 0 /\ t.avail_in = 0 /\ t.avail_out = 0
      /\ t.out = <<>> /\ t.window = [i \in 0 .. WSIZE - 1 |-> Uninit]
      /\ t.wsize = 0 /\ t.wnext = 0 /\ t.whave = 0
  BY DEF Rec, Fields, NoStream
<1> HIDE DEF t
<1>4. stream.bytes \in Nat
  BY StreamsAssumption DEF Inv, StreamInv
<1>5. t.next \in Int /\ t.avail_in \in Nat /\ t.next + t.avail_in <= stream.bytes
      /\ t.avail_out \in Nat /\ t.out \in Seq(Nat)
  BY <1>3, <1>4
<1>6. t.window \in [0 .. WSIZE - 1 -> Int] /\ t.mode \in PlainModes
  BY <1>3, NoWindow DEF PlainModes
<1> QED  BY <1>1, <1>2, <1>3, <1>5, <1>6, EmptyKeeps

LEMMA inflateValidateKeeps ==
  ASSUME Inv, inflateValidate
  PROVE  Inv'
<1>1. stream' = stream /\ loc' = loc /\ pc' = pc /\ Other("Validate")
  BY DEF inflateValidate
<1>2. StreamInv' /\ pc = "idle"
  BY <1>1, OtherStream
<1>3. PICK w : z' = [z EXCEPT !.wrap = w]
  BY DEF inflateValidate
<1> DEFINE t == [z EXCEPT !.wrap = w]
<1>4. /\ Rec(z) /\ InputInv(z) /\ OutputInv(z) /\ WindowInv(z) /\ BitsInv(z) /\ LengthInv(z)
  BY <1>2 DEF Inv, Between
<1>5. Rec(t) /\ \A x \in Fields \ {"wrap"} : t[x] = z[x]
  BY <1>4 DEF Rec, Fields
<1> HIDE DEF t
<1>6. /\ t.mode = z.mode /\ t.bits = z.bits /\ t.next = z.next /\ t.avail_in = z.avail_in
      /\ t.avail_out = z.avail_out /\ t.out = z.out /\ t.flags = z.flags
      /\ t.last = z.last /\ t.length = z.length /\ t.offset = z.offset /\ t.extra = z.extra
      /\ SameOut(z, t)
  BY <1>5 DEF Fields, SameOut
<1>7. Here(t) = Here(z)
  BY <1>6 DEF Here, Pos
<1>8. t.mode \in ByteModes => Wanted(t) = Wanted(z)
  BY <1>6, <1>7 DEF Wanted, ByteModes
<1>9. BitsInv(t)
  BY <1>4, <1>6, <1>7, <1>8 DEF BitsInv
<1>10. LengthInv(t)
  BY <1>4, <1>6 DEF LengthInv
<1>11. InputInv(t) /\ OutputInv(t)
  BY <1>4, <1>6 DEF InputInv, OutputInv
<1>12. WindowInv(t)
  BY <1>4, <1>6 DEF WindowInv, SameOut
<1>13. LocRec(loc)'
  BY <1>1 DEF Inv, LocRec
<1>14. z' = t /\ pc' = "idle"
  BY <1>1, <1>2, <1>3 DEF t
<1> QED  BY <1>1, <1>2, <1>5, <1>9, <1>10, <1>11, <1>12, <1>13, <1>14, IdleKeeps

LEMMA inflateSetDictionaryKeeps ==
  ASSUME Inv, inflateSetDictionary
  PROVE  Inv'
<1>1. stream' = stream /\ loc' = loc /\ pc' = pc /\ Other("SetDictionary")
  BY DEF inflateSetDictionary
<1>2. StreamInv' /\ pc = "idle"
  BY <1>1, OtherStream
<1>3. \/ z' = z
      \/ \E d \in {Dictionary, Tail(Dictionary)} :
           z' = [updatewindow(z, d, Len(d)) EXCEPT !.havedict = TRUE]
  BY DEF inflateSetDictionary
<1>4. /\ Rec(z) /\ InputInv(z) /\ OutputInv(z) /\ WindowInv(z) /\ BitsInv(z) /\ LengthInv(z)
  BY <1>2 DEF Inv, Between
<1>5. LocRec(loc)' /\ pc' = "idle"
  BY <1>1, <1>2 DEF Inv, LocRec
<1>6. CASE z' = z
  BY <1>1, <1>2, <1>4, <1>5, <1>6, IdleKeeps
<1>7. ASSUME NEW d \in {Dictionary, Tail(Dictionary)},
             z' = [updatewindow(z, d, Len(d)) EXCEPT !.havedict = TRUE]
      PROVE  Inv'
  <2> DEFINE u == updatewindow(z, d, Len(d))
             t == [u EXCEPT !.havedict = TRUE]
  <2>1. d \in Seq(Nat)
    <3>1. PICK s \in Seq(Nat) : s = Dictionary /\ s # <<>>
      BY SizesAssumption
    <3>2. Tail(s) \in Seq(Nat)
      BY <3>1
    <3> QED  BY <3>1, <3>2
  <2>2. Len(d) \in Nat /\ Len(d) <= Len(d)
    BY <2>1
  <2>3. WindowInv(u) /\ Rec(u) /\ \A x \in Fields \ WindowFields : u[x] = z[x]
    BY <1>4, <2>1, <2>2, WindowKept
  <2> HIDE DEF u
  <2>4. Rec(t) /\ \A x \in Fields \ {"havedict"} : t[x] = u[x]
    BY <2>3 DEF Rec, Fields
  <2>5. z' = t
    BY <1>7 DEF u
  <2> HIDE DEF t
  <2>6. WindowInv(t)
    BY <2>3, <2>4 DEF WindowInv, Fields
  <2>7. \A x \in Fields \ (WindowFields \cup {"total", "check", "havedict"}) : t[x] = z[x]
    BY <2>3, <2>4
  <2>8. InputInv(t) /\ OutputInv(t) /\ BitsInv(t) /\ LengthInv(t)
    BY <1>4, <2>7, SameBounds
  <2> QED  BY <1>1, <1>2, <1>5, <2>4, <2>5, <2>6, <2>8, IdleKeeps
<1> QED  BY <1>3, <1>6, <1>7

\* The application adds no more input than the stream has.
LEMMA PiecesOK ==
  ASSUME Inv, NEW n \in Pieces
  PROVE  n \in Nat /\ z.next + z.avail_in + n <= stream.bytes
<1>1. z.next \in Int /\ z.avail_in \in Nat /\ z.next + z.avail_in <= stream.bytes
      /\ stream.bytes \in Nat
  BY StreamsAssumption DEF Inv, InputInv, StreamInv
<1>2. PICK k \in InSizes \cup {0} : n = MIN(k, stream.bytes - z.next - z.avail_in)
  BY DEF Pieces
<1>3. k \in Nat
  BY SizesAssumption DEF InSizes, Inv, StreamInv
<1> QED  BY <1>1, <1>2, <1>3 DEF MIN

LEMMA inflateKeeps ==
  ASSUME Inv, NEW flush, inflate(flush)
  PROVE  Inv'
<1>1. PICK n \in Pieces, m \in OutSizes :
        LET t == SkipCheck([z EXCEPT !.avail_in = @ + n, !.avail_out = m])
        IN  /\ z' = t
            /\ loc' = [loc EXCEPT !.flush = flush, !.in = t.avail_in, !.out = m, !.ret = "OK"]
  BY DEF inflate
<1> DEFINE y == [z EXCEPT !.avail_in = @ + n, !.avail_out = m]
           t == SkipCheck(y)
<1>2. pc = "idle" /\ pc' = "loop" /\ stream' = stream /\ app' = app
  BY DEF inflate, Idle
<1>3. n \in Nat /\ z.next + z.avail_in + n <= stream.bytes
  BY PiecesOK
<1>4. m \in Nat
  BY SizesAssumption DEF OutSizes, Inv, StreamInv
<1>5. /\ Rec(z) /\ InputInv(z) /\ OutputInv(z) /\ WindowInv(z) /\ BitsInv(z) /\ LengthInv(z)
  BY <1>2 DEF Inv, Between
<1>6. Rec(y) /\ y.avail_in = z.avail_in + n /\ y.avail_out = m
      /\ \A x \in Fields \ {"avail_in", "avail_out"} : y[x] = z[x]
  BY <1>5 DEF Rec, Fields
<1> HIDE DEF y
<1>7. Rec(t) /\ t.mode = (IF y.mode = "TYPE" THEN "TYPEDO" ELSE y.mode)
      /\ \A x \in Fields \ {"mode"} : t[x] = y[x]
  BY <1>6 DEF Rec, Fields, SkipCheck
<1>8. z' = t /\ loc' = [loc EXCEPT !.flush = flush, !.in = t.avail_in, !.out = m, !.ret = "OK"]
  BY <1>1 DEF y
<1> HIDE DEF t
<1>9. /\ t.bits = z.bits /\ t.next = z.next /\ t.avail_in = z.avail_in + n
      /\ t.avail_out = m /\ t.out = z.out /\ t.flags = z.flags /\ t.wrap = z.wrap
      /\ t.last = z.last /\ t.length = z.length /\ t.offset = z.offset /\ t.extra = z.extra
      /\ SameWindow(z, t) /\ t.mode = (IF z.mode = "TYPE" THEN "TYPEDO" ELSE z.mode)
  BY <1>6, <1>7 DEF Fields, SameWindow
<1>10. InputInv(t)
  <2>1. z.next \in Int /\ z.avail_in \in Nat /\ z.bits \in Nat /\ stream.bytes \in Nat
    BY <1>5, StreamsAssumption DEF Inv, InputInv, StreamInv
  <2>2. t.bits = z.bits /\ t.next = z.next /\ t.avail_in = z.avail_in + n
    BY <1>9
  <2> QED  BY <1>3, <2>1, <2>2 DEF InputInv
<1>11. OutputInv(t)
  BY <1>4, <1>5, <1>9 DEF OutputInv
<1>12. WindowInv(t)
  BY <1>5, <1>9 DEF WindowInv, SameWindow
<1>13. BitsInv(t) /\ LengthInv(t)
  <2>1. CASE z.mode = "TYPE"
    <3>1. t.mode = "TYPEDO" /\ t.bits \in Nat /\ t.bits < 8
      BY <1>5, <1>9, <2>1 DEF BitsInv, InputInv
    <3> QED  BY <3>1, FewBits, PlainLength DEF PlainModes
  <2>2. CASE z.mode # "TYPE"
    <3>1. t.mode = z.mode
      BY <1>9, <2>2
    <3>2. Here(t) = Here(z)
      BY <1>9 DEF Here, Pos
    <3>3. Wanted(t) = Wanted(z)
      BY <1>9, <3>1, <3>2 DEF Wanted
    <3>4. BitsInv(t)
      BY <1>5, <1>9, <3>1, <3>2, <3>3 DEF BitsInv
    <3>5. LengthInv(t)
      BY <1>5, <1>9, <3>1 DEF LengthInv
    <3> QED  BY <3>4, <3>5
  <2> QED  BY <2>1, <2>2
<1>14. LocRec(loc)' /\ loc'.in = t.avail_in /\ loc'.out = m
  BY <1>8 DEF Inv, LocRec, LocFields
<1>15. t.avail_in \in Nat /\ Len(t.out) \in Nat /\ t.avail_out = m
  BY <1>9, <1>10, <1>11 DEF InputInv, OutputInv
<1>16. loc'.in \in Int /\ loc'.out \in Int /\ t.avail_in <= loc'.in /\ t.avail_out <= loc'.out
       /\ loc'.out - t.avail_out <= Len(t.out)
  BY <1>4, <1>14, <1>15
<1>17. StreamInv'
  BY <1>2 DEF Inv, StreamInv
<1>18. Rec(t)
  BY <1>7
<1> QED  BY <1>2, <1>8, <1>10, <1>11, <1>12, <1>13, <1>14, <1>16, <1>17, <1>18, LoopKeeps

LEMMA SyncLength ==
  ASSUME NEW have, NEW n \in Nat, NEW bytes, Len(bytes) = n
  PROVE  syncsearch(have, bytes).len \in 0 .. n
<1> DEFINE got(k) == FoldLeft(SyncGot, have, SubSeq(bytes, 1, k))
           ends == {k \in 0 .. Len(bytes) : got(k) = 4}
           len == IF ends = {} THEN Len(bytes) ELSE CHOOSE k \in ends : \A j \in ends : k <= j
<1>1. syncsearch(have, bytes) = [have |-> got(len), len |-> len]
  BY DEF syncsearch
<1>2. ends \in SUBSET (0 .. n)
  OBVIOUS
<1> HIDE DEF got, ends
<1>3. len \in 0 .. n
  <2>1. CASE ends = {}
    BY <2>1
  <2>2. CASE ends # {}
    <3>1. (CHOOSE k \in ends : \A j \in ends : k <= j) \in ends
      BY <1>2, <2>2, LeastOK
    <3> QED  BY <1>2, <2>2, <3>1
  <2> QED  BY <2>1, <2>2
<1> HIDE DEF len
<1> QED  BY <1>1, <1>3

LEMMA inflateSyncKeeps ==
  ASSUME Inv, inflateSync
  PROVE  Inv'
<1>1. stream' = stream /\ loc' = loc /\ pc' = pc /\ Other("Sync")
  BY DEF inflateSync
<1>2. StreamInv' /\ pc = "idle"
  BY <1>1, OtherStream
<1>3. PICK n \in Pieces :
        LET y == [z EXCEPT !.avail_in = @ + n]
            first == z.mode # "SYNC"
        IN  IF y.avail_in = 0 /\ y.bits < 8
            THEN ret' = "BUF_ERROR" /\ UNCHANGED z
            ELSE \E hold \in IF first THEN HoldBytes(y) ELSE {<<>>} :
                   LET t == IF first THEN SyncInput(y, syncsearch(0, hold).have, hold)
                            ELSE SyncInput(y, y.have, y.skipped)
                   IN  IF t.have # 4 THEN z' = t /\ ret' = "DATA_ERROR"
                       ELSE z' = Resynced(t) /\ ret' = "OK"
  BY DEF inflateSync
<1> DEFINE y == [z EXCEPT !.avail_in = @ + n]
           bytes == [i \in 1 .. y.avail_in |-> stream.marker[y.next + i]]
<1>5. n \in Nat /\ z.next + z.avail_in + n <= stream.bytes
  BY PiecesOK
<1>6. /\ Rec(z) /\ InputInv(z) /\ OutputInv(z) /\ WindowInv(z) /\ BitsInv(z) /\ LengthInv(z)
  BY <1>2 DEF Inv, Between
<1>7. LocRec(loc)' /\ pc' = "idle"
  BY <1>1, <1>2 DEF Inv, LocRec
<1>8. CASE z' = z
  BY <1>1, <1>2, <1>6, <1>7, <1>8, IdleKeeps
<1>9. Rec(y) /\ y.avail_in = z.avail_in + n /\ \A x \in Fields \ {"avail_in"} : y[x] = z[x]
  BY <1>6 DEF Rec, Fields
<1>10. z.next \in Int /\ z.avail_in \in Nat /\ stream.bytes \in Nat /\ y.next = z.next
  BY <1>6, <1>9, StreamsAssumption DEF Inv, InputInv, StreamInv, Fields
<1> HIDE DEF y
<1>11. y.avail_in \in Nat /\ y.next + y.avail_in <= stream.bytes
  <2>1. y.avail_in = z.avail_in + n
    BY <1>9
  <2> QED  BY <1>5, <1>10, <2>1
<1>12. Len(bytes) = y.avail_in
  BY <1>11
<1> HIDE DEF bytes
<1>13. ASSUME NEW have, NEW skipped, NEW t, t = SyncInput(y, have, skipped),
              z' = t \/ z' = Resynced(t)
       PROVE  Inv'
  <2>1. PICK l \in 0 .. y.avail_in : l = syncsearch(have, bytes).len
    BY <1>11, <1>12, SyncLength
  <2>2. /\ Rec(t) /\ t.mode = "SYNC" /\ t.bits = 0 /\ t.next = y.next + l
        /\ t.avail_in = y.avail_in - l /\ SameOut(y, t)
    <3> DEFINE got == syncsearch(have, bytes).have
               over == skipped \o SubSeq(bytes, 1, l)
    <3>1. t = [y EXCEPT !.mode = "SYNC", !.bits = 0, !.have = got, !.next = @ + l,
                        !.avail_in = @ - l, !.skipped = over]
      BY <1>13, <2>1, Zenon DEF SyncInput, bytes
    <3> HIDE DEF got, over
    <3> QED  BY <1>9, <3>1, ZenonT(60) DEF Rec, Fields, SameOut
  <2>3. SameOut(z, t)
    BY <1>9, <2>2 DEF SameOut, Fields
  <2>4. t.next \in Int /\ t.avail_in \in Nat /\ t.next + t.avail_in <= stream.bytes
    <3>1. t.next = z.next + l /\ t.avail_in = y.avail_in - l
      BY <1>10, <2>2
    <3>2. z.next + y.avail_in <= stream.bytes
      BY <1>10, <1>11
    <3> QED  BY <1>10, <1>11, <3>1, <3>2
  <2>5. t.avail_out \in Nat /\ t.out \in Seq(Nat) /\ t.window \in [0 .. WSIZE - 1 -> Int]
    BY <1>6, <2>3 DEF SameOut, OutputInv, WindowInv
  <2>6. CASE z' = t
    <3>1. InputInv(t)
      BY <2>2, <2>4 DEF InputInv
    <3>2. OutputInv(t) /\ WindowInv(t)
      BY <1>6, <2>3 DEF SameOut, OutputInv, WindowInv
    <3>3. BitsInv(t) /\ LengthInv(t)
      BY <2>2, NoBits, PlainLength DEF PlainModes
    <3>4. Rec(t)
      BY <2>2
    <3> QED  BY <1>1, <1>2, <1>7, <2>6, <3>1, <3>2, <3>3, <3>4, IdleKeeps
  <2>7. CASE z' = Resynced(t)
    <3> DEFINE r == inflateReset(t)
               start == [out |-> Len(t.out), ref |-> MarkedOutput(t)]
               s == [r EXCEPT !.mode = "TYPE", !.start = start]
    <3>1. Rec(t)
      BY <2>2
    <3>2. /\ Rec(r) /\ r.bits = 0 /\ r.next = t.next /\ r.avail_in = t.avail_in
          /\ r.avail_out = t.avail_out /\ r.out = t.out /\ r.window = t.window
          /\ r.wsize = 0 /\ r.wnext = 0 /\ r.whave = 0
      BY <3>1, ZenonT(60) DEF Rec, Fields, inflateReset, ResetKeep
    <3> HIDE DEF r
    <3> HIDE DEF start
    <3>3. /\ Rec(s) /\ s.mode = "TYPE" /\ s.bits = r.bits /\ s.next = r.next
          /\ s.avail_in = r.avail_in
          /\ s.avail_out = r.avail_out /\ s.out = r.out /\ s.window = r.window
          /\ s.wsize = r.wsize /\ s.wnext = r.wnext /\ s.whave = r.whave
      BY <3>2 DEF Rec, Fields
    <3>4. z' = s
      BY <2>7 DEF r, start, Resynced
    <3> HIDE DEF s
    <3>5. s.next = t.next /\ s.avail_in = t.avail_in /\ s.avail_out = t.avail_out /\ s.out = t.out
          /\ s.window = t.window
      BY <3>2, <3>3
    <3>6. s.next \in Int /\ s.avail_in \in Nat /\ s.next + s.avail_in <= stream.bytes
          /\ s.avail_out \in Nat /\ s.out \in Seq(Nat) /\ s.window \in [0 .. WSIZE - 1 -> Int]
      BY <2>4, <2>5, <3>5
    <3>7. Rec(s) /\ s.bits = 0 /\ s.wsize = 0 /\ s.wnext = 0 /\ s.whave = 0 /\ s.mode \in PlainModes
      BY <3>2, <3>3 DEF PlainModes
    <3> QED  BY <1>1, <1>2, <1>7, <3>4, <3>6, <3>7, EmptyKeeps
  <2> QED  BY <1>13, <2>6, <2>7
<1>14. z' # z => \E have, skipped : LET t == SyncInput(y, have, skipped)
                                   IN  z' = t \/ z' = Resynced(t)
  <2> SUFFICES ASSUME z' # z
               PROVE  \E have, skipped : LET t == SyncInput(y, have, skipped)
                                         IN  z' = t \/ z' = Resynced(t)
    OBVIOUS
  <2>1. \E hold : LET t == IF z.mode # "SYNC" THEN SyncInput(y, syncsearch(0, hold).have, hold)
                         ELSE SyncInput(y, y.have, y.skipped)
                 IN  z' = t \/ z' = Resynced(t)
    BY <1>3, Zenon DEF y
  <2>2. PICK hold : LET t == IF z.mode # "SYNC" THEN SyncInput(y, syncsearch(0, hold).have, hold)
                           ELSE SyncInput(y, y.have, y.skipped)
                    IN  z' = t \/ z' = Resynced(t)
    BY <2>1
  <2>3. CASE z.mode # "SYNC"
    BY <2>2, <2>3
  <2>4. CASE z.mode = "SYNC"
    BY <2>2, <2>4
  <2> QED  BY <2>3, <2>4
<1> QED  BY <1>8, <1>13, <1>14

-----------------------------------------------------------------------------
(* All steps together.                                                     *)

LEMMA InitInv ==
  ASSUME Init
  PROVE  Inv
<1>1. z = NoStream /\ pc = "idle" /\ loc = NoLocals
  BY DEF Init
<1>2. StreamInv
  <2>1. PICK u \in DOMAIN Uses : app = [use |-> u, calls |-> 0]
    BY DEF Init
  <2> QED  BY <2>1 DEF Init, StreamInv
<1>3. LocRec(loc)
  BY <1>1, NoLocalsRec
<1>4. /\ Rec(z) /\ z.bits = 0 /\ z.mode = "freed" /\ z.next = 0 /\ z.avail_in = 0 /\ z.avail_out = 0
      /\ z.out = <<>> /\ z.window = [i \in 0 .. WSIZE - 1 |-> Uninit]
      /\ z.wsize = 0 /\ z.wnext = 0 /\ z.whave = 0
  BY <1>1 DEF Rec, Fields, NoStream
<1>5. stream.bytes \in Nat
  BY <1>2, StreamsAssumption DEF StreamInv
<1>6. InputInv(z) /\ OutputInv(z)
  BY <1>4, <1>5 DEF InputInv, OutputInv
<1>7. WindowInv(z)
  <2>1. z.window \in [0 .. WSIZE - 1 -> Int] /\ z.wsize = 0 /\ z.wnext = 0 /\ z.whave = 0
    BY <1>4, NoWindow
  <2>2. 0 \in 0 .. WSIZE - 1 /\ 0 \in 0 .. 0 /\ \A i \in 0 .. 0 - 1 : z.window[i] \in Nat
    BY SizesAssumption
  <2> QED  BY <2>1, <2>2 DEF WindowInv
<1>8. BitsInv(z) /\ LengthInv(z)
  BY <1>4, NoBits, PlainLength DEF PlainModes
<1>9. CallInv /\ FastInv /\ EndInv
  BY <1>1 DEF CallInv, FastInv, EndInv
<1> QED  BY <1>1, <1>2, <1>3, <1>4, <1>6, <1>7, <1>8, <1>9 DEF Inv

LEMMA ReadModeKeeps ==
  ASSUME Inv, ReadMode
  PROVE  Inv'
<1> DEFINE f == Filled(z)
           e == Here(f)
<1>1. pc = "loop" /\ Enough(z)
  BY DEF ReadMode
<1>2. \/ Astray(e)
      \/ (Looks(z) => e.k \in Kinds[z.mode]) /\ (Header(f, e) \/ Block(f, e))
  BY DEF ReadMode
<1>3. CASE Astray(e)
  BY <1>1, <1>3, AstrayKeeps
<1>4. CASE (Looks(z) => e.k \in Kinds[z.mode]) /\ Header(f, e)
  <2>1. ElementOK(e)
    BY HereOK DEF Inv
  <2> QED
    BY <1>1, <1>4, <2>1, HeadModeKeeps, FlagsKeeps, TimeOsKeeps, ExlenKeeps, HcrcKeeps, DictidKeeps
       DEF Header
<1>5. CASE (Looks(z) => e.k \in Kinds[z.mode]) /\ Block(f, e)
  BY <1>1, <1>5, TypedoKeeps, StoredKeeps, TableKeeps, LenlensKeeps, CodelensKeeps, Len1Keeps,
     LenextKeeps, DistKeeps, DistextKeeps, CheckKeeps, LengthKeeps DEF Block
<1> QED  BY <1>2, <1>3, <1>4, <1>5

LEMMA OtherModeKeeps ==
  ASSUME Inv, OtherMode
  PROVE  Inv'
  BY ExtraKeeps, NameCommentKeeps, DictKeeps, ReturnKeeps, TypeKeeps, Copy_Keeps, CopyKeeps,
     Len_Keeps, MatchKeeps, LitKeeps, FastEnterKeeps, FastStepKeeps, FastEndKeeps, LeaveKeeps
     DEF OtherMode

LEMMA CallKeeps ==
  ASSUME Inv, Call
  PROVE  Inv'
  BY inflateInit2Keeps, ResetKeeps, inflateEndKeeps, inflateValidateKeeps,
     inflateSetDictionaryKeeps, inflateSyncKeeps, inflateKeeps DEF Call

LEMMA StutterKeeps ==
  ASSUME Inv, UNCHANGED vars
  PROVE  Inv'
<1>1. stream' = stream /\ z' = z /\ pc' = pc /\ loc' = loc /\ app' = app
  BY DEF vars
<1>2. (StreamInv /\ Rec(z) /\ LocRec(loc) /\ InputInv(z) /\ OutputInv(z) /\ WindowInv(z))'
  BY <1>1 DEF Inv, StreamInv, Rec, LocRec, InputInv, OutputInv, WindowInv
<1>3. (Between => BitsInv(z) /\ LengthInv(z))'
  BY <1>1 DEF Inv, Between, BitsInv, LengthInv, Wanted, Here, ValueAt, Pos
<1>4. (CallInv /\ FastInv /\ EndInv)'
  BY <1>1 DEF Inv, CallInv, FastInv, EndInv, Taken, Here, Pos
<1> QED  BY <1>1, <1>2, <1>3, <1>4 DEF Inv

\* In every mode of inflate and in every turn of inflate_fast the accumulator has
\* no more bits than what is being read needs, the bits that may be given back
\* came from this call's input, a match keeps to the room inflate_fast was entered
\* with, and whave bytes of the window have been written (Inv).
THEOREM InflateInvariance == Spec => []Inv
<1>1. Init => Inv
  BY InitInv
<1>2. Inv /\ [Next]_vars => Inv'
  BY ReadModeKeeps, OtherModeKeeps, StarveKeeps, InfLeaveKeeps, CallKeeps, StutterKeeps DEF Next
<1> QED  BY <1>1, <1>2, PTL DEF Spec

\* inflate and inflate_fast stay within the input and the output they are given
\* and within the 32 bits of the accumulator, and give back no byte of input that
\* they did not take in this call (inflate.c inflate, inffast.c inflate_fast): for
\* every window size, every stream in the format, valid or not, and every way the
\* application cuts input and room into pieces.
THEOREM InflateInBounds == Spec => []FastInBounds
<1>1. Inv => FastInBounds
  <2> SUFFICES ASSUME Inv
               PROVE  FastInBounds
    OBVIOUS
  <2>1. z.avail_in \in Nat /\ z.avail_out \in Nat /\ z.bits \in Nat
    BY DEF Inv, InputInv, OutputInv
  <2>2. z.bits <= 32
    <3>1. CASE Between
      BY <3>1 DEF Inv, BitsInv
    <3>2. CASE pc = "fast"
      <4>1. z.bits <= 30
        BY <3>2 DEF Inv, FastInv
      <4> QED  BY <2>1, <4>1
    <3>3. CASE pc = "fastEnd"
      BY <3>3 DEF Inv, EndInv
    <3> QED  BY <3>1, <3>2, <3>3 DEF Inv, Between
  <2>3. pc # "idle" => z.avail_in <= loc.in /\ z.avail_out <= loc.out
    BY DEF Inv, CallInv
  <2> QED  BY <2>1, <2>2, <2>3 DEF FastInBounds
<1> QED  BY <1>1, InflateInvariance, PTL
=============================================================================
