---------------------------- MODULE GzWriteLemmas ----------------------------
(***************************************************************************)
(* The invariant of GzWrite, and what its operators do to sequences: for   *)
(* every size of the buffers, every way of calling the functions, all      *)
(* short and failing writes, and whatever deflate() holds back.            *)
(***************************************************************************)
EXTENDS GzWrite, GzLibProofs

-----------------------------------------------------------------------------
(* The invariant.                                                          *)

\* What the results below ask of the way a file is used: the application does
\* not clear the error of a failure to go on (a large gzwrite would have left
\* next_in in a buffer of its own).
Careful == "gzclearerr" \in Calls => Faults = {}

Cells == [k : {"H", "D", "S", "T", "R"}, v : Seq(Int)]
DeflateStates ==
  [live : BOOLEAN, head : BOOLEAN, held : Seq(Int), pend : Seq(Cells), fin : BOOLEAN,
   fresh : BOOLEAN, used : BOOLEAN, level : Levels \cup {"-1"}, strategy : Strategies \cup {"dflt"}]

Mains == {"put", "putc", "printf", "flush", "params", "close"}
Pcs == {"put", "putc", "printf", "flush", "params", "close", "new", "idle", "init", "comp", "zero",
        "zeros", "wrote", "moved", "closing", "closed"}
Backs == {"none", "zero", "zeros", "put", "printf", "wrote", "moved", "params", "closing"}
Ops == {"none", "gzwrite", "gzfwrite", "gzputc", "gzputs", "gzprintf", "gzflush", "gzsetparams",
        "gzclose"}
FlushValues == {"NO", "BLOCK", "SYNC", "FINISH"}
CallStates ==
  [pc : Pcs, op : Ops, main : Mains \cup {"none"}, back : Backs, left : Nat, all : Nat,
   arg : FlushValues, flush : FlushValues, dret : {"OK", "STREAM_END"}, zeroed : Int,
   rest : Seq(Int), ret : Errors, par : (Levels \cup {"-1"}) \X (Strategies \cup {"dflt"})]

TypeInv ==
  /\ app \in [use : DOMAIN Uses, calls : Nat] /\ app.calls <= MaxCalls
  /\ file \in Seq(Cells)
  /\ g \in States /\ g.mode = "WRITE" /\ g.data = <<>>
  /\ 2 * g.want < UINT /\ g.size \in {0, g.want}
  /\ nin \in [user : BOOLEAN, off : Nat]
  /\ out \in [cells : Seq(Cells), avail : Nat] /\ Len(out.cells) + out.avail <= g.size
  /\ d \in DeflateStates
  /\ c \in CallStates
  /\ acc \in Seq(Int) /\ g.pos = Len(acc)
  /\ faults \in 0 .. MaxFaults

\* What is on its way to the file as cells, and the data with what is not
\* cells yet.
Sent == (file \o out.cells) \o d.pend
Data == (Decoded(Sent) \o d.held) \o g.in

At(back) == c.pc = "comp" /\ c.back = back
Zeroing == c.pc \in {"zero", "zeros"} \/ At("zeros")
Closing_ == c.op = "gzclose" /\ (c.pc \in {"close", "closing"} \/ At("closing"))

\* Where a call may be, and with which arguments.
Unopened ==
  /\ file = <<Cell("H", <<>>), Cell("T", <<>>)>> /\ acc = <<>> /\ acked = {} /\ d = NoDeflate
  /\ out.cells = <<>> /\ out.avail = 0 /\ ret = NoRet /\ faults = 0
IdleInv ==
  /\ c.pc \in {"new", "idle", "closed"} => c = [NoCall EXCEPT !.pc = c.pc]
  /\ c.pc = "new" => Unopened
PlaceInv ==
  /\ g.seek => c.pc \in {"new", "idle", "init"}
  /\ c.pc = "init" => c.back \in {"zero", "put", "printf"} /\ c.op # "gzclose" /\ g.size = 0
  /\ c.pc = "init" => c.main = c.back \/ c.back = "zero" \/ (c.back = "put" /\ c.main = "putc")
  /\ c.pc = "init" => c.main # "none"
  /\ Zeroing \/ (c.pc = "init" /\ c.back = "zero") => c.main # "none" /\ c.left = c.all
  /\ c.main = "close" <=> c.op = "gzclose"
  /\ c.main = "flush" <=> c.op = "gzflush"
  /\ c.pc \in Mains \ {"put"} => c.main = c.pc
  /\ c.pc = "comp" => c.back \in {"zeros", "put", "wrote", "moved", "params", "closing"}
  /\ c.pc = "closing" \/ At("closing") => c.op = "gzclose"
  /\ At("params") => c.main = "params"
  /\ c.pc \in {"put", "moved"} \/ At("put") \/ At("moved") => c.main \in {"put", "putc", "printf"}
  /\ c.op = "gzclose" => /\ c.pc \notin {"put", "wrote", "moved"}
                         /\ ~At("put") /\ ~At("wrote") /\ ~At("moved") /\ ~At("params")
ArgInv ==
  /\ c.main = "flush" => c.all = 0
  /\ c.rest # <<>> => c.pc = "moved" \/ At("moved")
  /\ c.arg # "NO" => c.main \in {"flush", "close"}
  /\ At("wrote") => c.flush = c.arg
  /\ c.pc = "comp" /\ c.flush = "FINISH" =>
       At("closing") \/ (c.op = "gzflush" /\ At("wrote") /\ "FINISH" \in Flushes)
  /\ At("closing") => c.flush = "FINISH"
  /\ c.op = "gzflush" => c.arg \in Flushes
  /\ Zeroing \/ g.seek \/ (c.pc = "init" /\ c.back = "zero") => Seeks # {}
ControlInv == IdleInv /\ PlaceInv /\ ArgInv

\* What the input buffer and the deflate state hold before there are buffers,
\* and for a transparent file.
EmptyInv ==
  /\ g.size = 0 => g.in = <<>>
  /\ g.size = 0 \/ g.direct => /\ d.pend = <<>> /\ d.held = <<>> /\ ~d.fin /\ ~d.head
                               /\ out.cells = <<>>
  /\ d.live => ~g.direct

\* After a failure there is nothing left but gzclose.
HurtInv ==
  /\ faults > 0 => Faults # {}
  /\ faults > 0 /\ c.pc # "closed" =>
       Fatal(g.err) /\ (c.pc = "idle" \/ c.op = "gzclose") /\ (g.seek => g.size = 0)

\* Input that waits lies at the start of the library's own buffer.
InputInv ==
  /\ c.pc \notin {"comp", "close", "closing", "closed"} /\ (faults = 0 \/ Zeroing) /\ g.in # <<>> =>
       nin = Own /\ Len(g.in) <= g.size
  /\ c.pc \in {"moved", "zeros"} => g.in = <<>>

\* The bytes of the call in progress are the last ones of the data.
EndsIn(a, n) == n <= Len(a) /\ \A i \in Len(a) - n + 1 .. Len(a) : a[i] = i
CallInv ==
  /\ c.left <= c.all
  /\ IF c.pc \in {"wrote", "moved"} \/ At("wrote") \/ At("moved") THEN EndsIn(acc, c.all)
     ELSE EndsIn(acc, c.all - c.left)
  /\ Len(c.rest) <= c.all /\ Len(c.rest) <= g.size

\* Nothing is lost: what a call that failed had not handed over yet is all that
\* may be missing, at the end.
Broken ==
  faults > 0 /\ (c.pc = "closed" \/ (g.size # 0 /\ ~g.seek /\ (c.pc = "idle" \/ Closing_)))
DataInv ==
  /\ \E s \in Seq(Int) : Data \o s = acc /\ (s = c.rest \/ Broken)
  /\ acked \subseteq 1 .. Len(Data)
  /\ \A j \in acked : acc[j] = j
  /\ \A i \in 1 .. Len(acc) : (acc[i] <= 0 \/ acc[i] = i)

\* A stream that deflate() was told to end.
FinInv ==
  /\ d.fin => /\ d.held = <<>> /\ g.in = <<>>
              /\ \/ c.pc = "comp" /\ c.flush = "FINISH"
                 \/ faults > 0 /\ c.pc \in {"idle", "close"} /\ "FINISH" \in Flushes
                 \/ faults > 0 /\ c.pc \in {"closing", "closed"}
  /\ c.pc = "comp" /\ c.flush = "FINISH" /\ d.fin /\ d.pend = <<>> /\ out.cells # <<>> =>
       c.dret = "STREAM_END" \/ out.avail = 0 \/ (faults > 0 /\ "FINISH" \in Flushes)

\* The cells form members.
Within(f) == f # <<>> /\ f[Len(f)].k # "T"
ShapeInv ==
  ~g.direct => /\ WellFormed(Sent)
               /\ IF d.fin THEN Sent # <<>> /\ ~Within(Sent) ELSE d.head <=> Within(Sent)

Drained == g.in = <<>> /\ d.held = <<>> /\ d.pend = <<>> /\ out.cells = <<>>
FlushOK == ret.op = "gzflush" /\ ret.val = "OK" /\ ret.flush \in {"SYNC", "FINISH"}
Finished ==
  /\ g.in = <<>> /\ d.held = <<>> /\ d.pend = <<>>
  /\ out.cells = <<>> \/ (faults > 0 /\ "FINISH" \in Flushes)
  /\ ~g.direct => Sent # <<>> /\ ~Within(Sent)
DrainInv ==
  /\ c.pc = "wrote" /\ c.arg \in {"SYNC", "FINISH"} => Drained
  /\ c.pc = "idle" /\ FlushOK => Drained /\ Decoded(file) = acc
  /\ c.pc = "closing" /\ c.ret = "OK" => Finished
  /\ c.pc = "closed" /\ ret.val = "OK" => Finished

Inv == TypeInv /\ ControlInv /\ EmptyInv /\ HurtInv /\ InputInv /\ CallInv /\ DataInv /\ FinInv
       /\ ShapeInv /\ DrainInv

-----------------------------------------------------------------------------
(* Sequences, and what cells decode to.                                    *)

LEMMA CatCellsType ==
  \A s, t \in Seq(Cells) : s \o t \in Seq(Cells)
BY ConcatProperties

LEMMA CatCells ==
  \A s, t, u \in Seq(Cells) : (s \o t) \o u = s \o (t \o u)
BY ConcatAssociative

Vs(f) == [i \in DOMAIN f |-> f[i].v]

LEMMA VsType ==
  ASSUME NEW f \in Seq(Cells)
  PROVE  Len(f) \in Nat /\ Vs(f) \in [1 .. Len(f) -> Seq(Int)] /\ Len(Vs(f)) = Len(f)
<1>1. Len(f) \in Nat /\ DOMAIN f = 1 .. Len(f)
  BY LenProperties
<1>2. \A i \in 1 .. Len(f) : f[i].v \in Seq(Int)
  <2> TAKE i \in 1 .. Len(f)
  <2>1. f[i] \in Cells
    BY ElementOfSeq
  <2> QED  BY <2>1 DEF Cells
<1>3. Vs(f) = [i \in 1 .. Len(f) |-> f[i].v]
  BY <1>1 DEF Vs
<1> QED  BY <1>1, <1>2, <1>3

\* An empty file decodes to nothing.
LEMMA DecodedEmpty ==
  Decoded(<<>>) = <<>>
<1>1. Vs(<<>>) = <<>>
  BY DEF Vs
<1>2. Decoded(<<>>) = FlattenSeq(Vs(<<>>))
  BY DEF Decoded, Vs
<1>3. FlattenSeq(<<>>) = <<>>
  BY DEF FlattenSeq
<1> QED  BY <1>1, <1>2, <1>3

LEMMA DecodedType ==
  ASSUME NEW f \in Seq(Cells)
  PROVE  Decoded(f) \in Seq(Int)
<1>1. CASE f = <<>>
  BY <1>1, DecodedEmpty, EmptySeq
<1>2. CASE f # <<>>
  <2>1. Len(f) \in Nat \ {0}
    BY <1>2, EmptySeq
  <2>2. Vs(f) \in [1 .. Len(f) -> Seq(Int)]
    BY VsType
  <2>3. Decoded(f) = FlattenSeq(Vs(f))
    BY DEF Decoded, Vs
  <2>4. PICK h \in [1 .. Len(f) -> Seq(Int)] : FlattenSeq(Vs(f)) = h[Len(f)]
    BY <2>1, <2>2, FlattenIs
  <2>5. Len(f) \in 1 .. Len(f)
    BY <2>1
  <2> QED  BY <2>3, <2>4, <2>5
<1> QED  BY <1>1, <1>2

\* A further cell adds what it stands for.
LEMMA DecodedAppend ==
  ASSUME NEW f \in Seq(Cells), NEW x \in Cells
  PROVE  Decoded(Append(f, x)) = Decoded(f) \o x.v
<1> DEFINE e == Append(f, x)
           n == Len(f)
<1>1. /\ e \in Seq(Cells) /\ Len(e) = n + 1 /\ n \in Nat /\ e[n + 1] = x
      /\ \A i \in 1 .. n : e[i] = f[i]
  BY AppendProperties, LenProperties
<1>2. x.v \in Seq(Int)
  BY DEF Cells
<1>3. Vs(e) \in [1 .. n + 1 -> Seq(Int)] /\ Vs(f) \in [1 .. n -> Seq(Int)]
  BY <1>1, VsType
<1>4. Vs(e)[n + 1] = x.v /\ \A i \in 1 .. n : Vs(e)[i] = Vs(f)[i]
  <2>1. DOMAIN e = 1 .. n + 1 /\ DOMAIN f = 1 .. n
    BY <1>1, LenProperties
  <2> HIDE DEF e
  <2> QED  BY <1>1, <2>1 DEF Vs
<1>5. Decoded(e) = FlattenSeq(Vs(e)) /\ Decoded(f) = FlattenSeq(Vs(f))
  BY DEF Decoded, Vs
<1> HIDE DEF e, n
<1>6. Agree(Vs(e), Vs(f), n)
  BY <1>4 DEF Agree
<1>7. Decoded(e) = Decoded(f) \o Vs(e)[n + 1]
  BY <1>1, <1>3, <1>5, <1>6, FlattenNext
<1> QED  BY <1>4, <1>7 DEF e

\* What is written behind what is there is decoded behind it.
LEMMA DecodedConcat ==
  ASSUME NEW f \in Seq(Cells), NEW h \in Seq(Cells)
  PROVE  Decoded(f \o h) = Decoded(f) \o Decoded(h)
<1> DEFINE n == Len(h)
           S == {m \in 0 .. n : Decoded(f \o SubSeq(h, 1, m)) = Decoded(f) \o Decoded(SubSeq(h, 1, m))}
<1>0. n \in Nat
  BY LenProperties
<1>t. \A m \in 0 .. n : SubSeq(h, 1, m) \in Seq(Cells)
  <2> TAKE m \in 0 .. n
  <2>1. \A i \in 1 .. m : h[i] \in Cells
    BY <1>0, ElementOfSeq
  <2> QED  BY <2>1, SubSeqProperties
<1>1. 0 \in S
  <2>1. SubSeq(h, 1, 0) = <<>>
    BY SubSeqEmpty
  <2>2. f \o <<>> = f /\ Decoded(f) \o <<>> = Decoded(f)
    BY ConcatEmptySeq, DecodedType
  <2>3. Decoded(f \o SubSeq(h, 1, 0)) = Decoded(f) \o Decoded(SubSeq(h, 1, 0))
    BY <2>1, <2>2, DecodedEmpty
  <2>4. 0 \in 0 .. n
    BY <1>0
  <2> QED  BY <2>3, <2>4
<1>2. ASSUME NEW m \in 0 .. n - 1, m \in S
      PROVE  m + 1 \in S
  <2> DEFINE a == SubSeq(h, 1, m)
             x == h[m + 1]
  <2>1. m + 1 \in 1 .. n /\ m + 1 \in 0 .. n /\ m \in 0 .. n /\ (m + 1) - 1 = m /\ 1 \in 1 .. n /\ m + 1 \in 1 .. Len(h)
    BY <1>0
  <2>2. SubSeq(h, 1, m + 1) = a \o <<x>>
    BY <2>1, SubSeqRecursiveSecond
  <2>3. a \in Seq(Cells) /\ x \in Cells
    BY <1>t, <2>1, ElementOfSeq
  <2>4. Decoded(f \o a) = Decoded(f) \o Decoded(a)
    BY <1>2
  <2> HIDE DEF a, x
  <2>5. a \o <<x>> = Append(a, x) /\ f \o a \in Seq(Cells) /\ <<x>> \in Seq(Cells)
    BY <2>3, AppendIsConcat, ConcatProperties
  <2>6. f \o (a \o <<x>>) = (f \o a) \o <<x>>
    BY <2>3, <2>5, ConcatAssociative
  <2>7. (f \o a) \o <<x>> = Append(f \o a, x)
    BY <2>3, <2>5, AppendIsConcat
  <2>8. Decoded(f \o (a \o <<x>>)) = (Decoded(f) \o Decoded(a)) \o x.v
    BY <2>3, <2>4, <2>5, <2>6, <2>7, DecodedAppend
  <2>9. Decoded(a \o <<x>>) = Decoded(a) \o x.v
    BY <2>3, <2>5, DecodedAppend
  <2>10. x.v \in Seq(Int) /\ Decoded(f) \in Seq(Int) /\ Decoded(a) \in Seq(Int)
    BY <2>3, DecodedType DEF Cells
  <2>11. (Decoded(f) \o Decoded(a)) \o x.v = Decoded(f) \o (Decoded(a) \o x.v)
    BY <2>10, CatInt, CatIntType, ZenonT(40)
  <2>12. Decoded(f \o SubSeq(h, 1, m + 1)) = Decoded(f) \o Decoded(SubSeq(h, 1, m + 1))
    BY <2>2, <2>8, <2>9, <2>11
  <2> QED  BY <2>1, <2>12
<1>3. n \in S
  <2> HIDE DEF S
  <2>1. \A m \in 0 .. n - 1 : m \in S => m + 1 \in S
    BY <1>2
  <2>2. \A m \in 0 .. n : m \in S
    BY <1>0, <1>1, <2>1, UpTo, Zenon
  <2> QED  BY <1>0, <2>2
<1>4. SubSeq(h, 1, n) = h
  BY SubSeqFull
<1>5. Decoded(f \o SubSeq(h, 1, n)) = Decoded(f) \o Decoded(SubSeq(h, 1, n))
  BY <1>3
<1> QED  BY <1>4, <1>5

-----------------------------------------------------------------------------
LEMMA CutCells ==
  \A s \in Seq(Cells) : \A k \in 0 .. Len(s) :
    /\ SubSeq(s, 1, k) \in Seq(Cells) /\ Len(SubSeq(s, 1, k)) = k
    /\ SubSeq(s, k + 1, Len(s)) \in Seq(Cells) /\ Len(SubSeq(s, k + 1, Len(s))) = Len(s) - k
    /\ SubSeq(s, 1, k) \o SubSeq(s, k + 1, Len(s)) = s
BY Cut, Zenon

LEMMA EmptyCells ==
  <<>> \in Seq(Cells) /\ \A s \in Seq(Cells) : Len(s) \in Nat /\ (Len(s) = 0 <=> s = <<>>)
                                             /\ s \o <<>> = s /\ <<>> \o s = s
BY EmptySeq, LenProperties, ConcatEmptySeq

LEMMA CellType ==
  ASSUME NEW k \in {"H", "D", "S", "T", "R"}, NEW v \in Seq(Int)
  PROVE  Cell(k, v) \in Cells /\ <<Cell(k, v)>> \in Seq(Cells) /\ Decoded(<<Cell(k, v)>>) = v
<1>1. Cell(k, v) \in Cells
  BY DEF Cell, Cells
<1>2. <<Cell(k, v)>> \in Seq(Cells)
  BY <1>1
<1>3. Append(<<>>, Cell(k, v)) = <<Cell(k, v)>>
  <2> DEFINE x == Cell(k, v)
  <2> HIDE DEF x
  <2>1. Append(<<>>, x) = <<x>>
    OBVIOUS
  <2> QED  BY <2>1 DEF x
<1>4. Decoded(<<Cell(k, v)>>) = <<>> \o Cell(k, v).v
  BY <1>1, <1>3, DecodedAppend, DecodedEmpty, EmptySeq
<1>5. Cell(k, v).v = v
  BY DEF Cell
<1> QED  BY <1>1, <1>2, <1>4, <1>5, ConcatEmptySeq

\* Bytes written to a transparent file.
Raw(s, k) == [i \in 1 .. k |-> Cell("R", <<s[i]>>)]
LEMMA DecodedRaw ==
  ASSUME NEW s \in Seq(Int), NEW k \in 0 .. Len(s)
  PROVE  Raw(s, k) \in Seq(Cells) /\ Decoded(Raw(s, k)) = SubSeq(s, 1, k)
<1>0. Len(s) \in Nat
  BY LenProperties
<1>e. \A i \in 1 .. Len(s) : s[i] \in Int /\ <<s[i]>> \in Seq(Int)
  BY ElementOfSeq
<1>t. ASSUME NEW m \in 0 .. k
      PROVE  Raw(s, m) \in Seq(Cells) /\ Len(Raw(s, m)) = m
  <2>1. ASSUME NEW i \in 1 .. m
        PROVE  Cell("R", <<s[i]>>) \in Cells
    <3>1. i \in 1 .. Len(s)
      BY <1>0
    <3>2. <<s[i]>> \in Seq(Int)
      BY <1>e, <3>1
    <3> QED  BY <3>2, CellType
  <2>2. m \in Nat
    BY <1>0
  <2>3. Raw(s, m) \in [1 .. m -> Cells]
    BY <2>1 DEF Raw
  <2> QED  BY <2>2, <2>3
<1> DEFINE S == {m \in 0 .. k : Decoded(Raw(s, m)) = SubSeq(s, 1, m)}
<1>1. 0 \in S
  <2>1. SubSeq(s, 1, 0) = <<>>
    BY SubSeqEmpty
  <2>2. Raw(s, 0) = <<>>
    BY DEF Raw
  <2>3. 0 \in 0 .. k
    BY <1>0
  <2>4. Decoded(Raw(s, 0)) = SubSeq(s, 1, 0)
    BY <2>1, <2>2, DecodedEmpty
  <2> QED  BY <2>3, <2>4
<1>2. ASSUME NEW m \in 0 .. k - 1, m \in S
      PROVE  m + 1 \in S
  <2>1. m + 1 \in 1 .. Len(s) /\ m + 1 \in 0 .. k /\ m \in 0 .. k /\ (m + 1) - 1 = m /\ 1 \in 1 .. Len(s)
        /\ m + 1 \in 1 .. m + 1 /\ m \in Nat
    BY <1>0
  <2>2. SubSeq(s, 1, m + 1) = SubSeq(s, 1, m) \o <<s[m + 1]>>
    BY <2>1, SubSeqRecursiveSecond
  <2> DEFINE x == Cell("R", <<s[m + 1]>>)
  <2>3. x \in Cells /\ x.v = <<s[m + 1]>>
    <3>1. x \in Cells
      BY <1>e, <2>1, CellType
    <3> QED  BY <3>1 DEF Cell
  <2>4. Raw(s, m) \in Seq(Cells) /\ Len(Raw(s, m)) = m
    BY <1>t, <2>1
  <2>5. Raw(s, m + 1) = Append(Raw(s, m), x)
    <3>1. Raw(s, m + 1) \in Seq(Cells) /\ Len(Raw(s, m + 1)) = m + 1
      BY <1>t, <2>1
    <3>2. \A i \in 1 .. m + 1 : Raw(s, m + 1)[i] = Cell("R", <<s[i]>>)
      BY DEF Raw
    <3>3. \A i \in 1 .. m : Raw(s, m)[i] = Cell("R", <<s[i]>>)
      BY DEF Raw
    <3> HIDE DEF x
    <3>4. /\ Append(Raw(s, m), x) \in Seq(Cells) /\ Len(Append(Raw(s, m), x)) = m + 1
          /\ \A i \in 1 .. m : Append(Raw(s, m), x)[i] = Raw(s, m)[i]
          /\ Append(Raw(s, m), x)[m + 1] = x
      BY <2>3, <2>4, AppendProperties
    <3>5. \A i \in 1 .. m + 1 : Raw(s, m + 1)[i] = Append(Raw(s, m), x)[i]
      <4> TAKE i \in 1 .. m + 1
      <4>1. CASE i = m + 1
        BY <4>1, <3>2, <3>4 DEF x
      <4>2. CASE i # m + 1
        <5>1. i \in 1 .. m
          BY <2>1, <4>2
        <5> QED  BY <5>1, <3>2, <3>3, <3>4
      <4> QED  BY <4>1, <4>2
    <3> QED  BY <3>1, <3>4, <3>5, SeqEqual
  <2>6. Decoded(Raw(s, m + 1)) = Decoded(Raw(s, m)) \o x.v
    BY <2>3, <2>4, <2>5, DecodedAppend
  <2>7. Decoded(Raw(s, m)) = SubSeq(s, 1, m)
    BY <1>2
  <2> QED  BY <2>1, <2>2, <2>3, <2>6, <2>7
<1>3. \A m \in 0 .. k : m \in S
  <2> HIDE DEF S
  <2>1. \A m \in 0 .. k - 1 : m \in S => m + 1 \in S
    BY <1>2
  <2>2. k \in Nat
    BY <1>0
  <2> QED  BY <1>1, <2>1, <2>2, UpTo, Zenon
<1>4. k \in 0 .. k
  BY <1>0
<1> QED  BY <1>3, <1>4, <1>t

-----------------------------------------------------------------------------
\* The cells deflate() adds to a stream: a header if there was none, the
\* trailer if this is the end.
Shaped(head, new, fin) ==
  /\ ~head => new # <<>>
  /\ fin => new # <<>>
  /\ \A i \in 1 .. Len(new) : new[i].k = "H" <=> (i = 1 /\ ~head)
  /\ \A i \in 1 .. Len(new) : new[i].k = "T" <=> (i = Len(new) /\ fin)

LEMMA ShapeGrows ==
  ASSUME NEW f \in Seq(Cells), NEW new \in Seq(Cells), NEW head \in BOOLEAN, NEW fin \in BOOLEAN,
         WellFormed(f), head <=> Within(f), Shaped(head, new, fin)
  PROVE  /\ WellFormed(f \o new)
         /\ f \o new # <<>>
         /\ fin <=> ~Within(f \o new)
<1> DEFINE n == Len(f)
           m == Len(new)
           h == f \o new
<1>1. n \in Nat /\ m \in Nat /\ DOMAIN f = 1 .. n
  BY LenProperties
<1>2. h \in Seq(Cells) /\ Len(h) = n + m /\ DOMAIN h = 1 .. n + m
  BY <1>1, ConcatProperties, LenProperties
<1>3. \A i \in 1 .. n + m : h[i] = IF i <= n THEN f[i] ELSE new[i - n]
  BY ConcatProperties
<1>4. n + m # 0
  BY <1>1 DEF Shaped, Within
<1> HIDE DEF h
<1>5. ASSUME NEW i \in 1 .. n + m
      PROVE  h[i].k = "H" <=> (i = 1 \/ h[i - 1].k = "T")
  <2>1. CASE i <= n
    <3>1. h[i] = f[i] /\ (i # 1 => h[i - 1] = f[i - 1]) /\ i \in 1 .. n
      BY <1>1, <1>3, <2>1
    <3> QED  BY <3>1, <1>1 DEF WellFormed
  <2>2. CASE i = n + 1
    <3>1. h[i] = new[1] /\ (i # 1 => h[i - 1] = f[n]) /\ 1 \in 1 .. m
      BY <1>1, <1>3, <2>2
    <3>2. new[1].k = "H" <=> ~head
      BY <3>1, <1>1 DEF Shaped
    <3>3. n = 0 <=> f = <<>>
      BY <1>1, EmptySeq
    <3>4. i = 1 <=> n = 0
      BY <1>1, <2>2
    <3> QED  BY <3>1, <3>2, <3>3, <3>4 DEF Within
  <2>3. CASE i > n + 1
    <3>1. h[i] = new[i - n] /\ h[i - 1] = new[(i - n) - 1] /\ i - n \in 2 .. m /\ (i - n) - 1 \in 1 .. m - 1
      <4>1. i - 1 \in 1 .. n + m /\ ~(i - 1 <= n) /\ (i - 1) - n = (i - n) - 1 /\ ~(i <= n)
        BY <1>1, <2>3
      <4>2. i - n \in 2 .. m /\ (i - n) - 1 \in 1 .. m - 1
        BY <1>1, <2>3
      <4> QED  BY <4>1, <4>2, <1>3
    <3>2. new[i - n].k # "H"
      BY <3>1, <1>1 DEF Shaped
    <3>3. new[(i - n) - 1].k # "T"
      BY <3>1, <1>1 DEF Shaped
    <3>4. i # 1
      BY <1>1, <2>3
    <3> QED  BY <3>1, <3>2, <3>3, <3>4
  <2> QED  BY <1>1, <2>1, <2>2, <2>3
<1>6. fin <=> ~Within(h)
  <2>1. h # <<>>
    BY <1>1, <1>2, <1>4, EmptySeq
  <2>2. CASE m = 0
    <3>1. new = <<>>
      BY <2>2, EmptySeq
    <3>2. h = f
      BY <3>1, ConcatEmptySeq DEF h
    <3> QED  BY <3>1, <3>2 DEF Shaped
  <2>3. CASE m # 0
    <3>1. h[Len(h)] = new[m] /\ m \in 1 .. m
      BY <1>1, <1>2, <1>3, <2>3
    <3> QED  BY <2>1, <3>1 DEF Shaped, Within
  <2> QED  BY <2>2, <2>3
<1>7. h # <<>>
  BY <1>1, <1>2, <1>4, EmptySeq
<1> QED  BY <1>2, <1>5, <1>6, <1>7 DEF WellFormed, h

-----------------------------------------------------------------------------
EmHeld(e, in, m) == e.held \o SubSeq(in, 1, m)
EmHead(e) == IF e.head THEN <<>> ELSE <<Cell("H", <<>>)>>

LEMMA EmitsIs ==
  ASSUME NEW e, NEW in, NEW m, NEW flush, NEW x \in Emits(e, in, m, flush)
  PROVE  \/ e.fin /\ x = [cells |-> <<>>, held |-> <<>>, fin |-> TRUE]
         \/ /\ ~e.fin /\ (m < Len(in) \/ flush \in {"NO", "BLOCK"})
            /\ x = [cells |-> EmHead(e) \o HeldCell(EmHeld(e, in, m)), held |-> <<>>, fin |-> FALSE]
         \/ /\ ~e.fin /\ m = Len(in) /\ flush \in {"NO", "SYNC"}
            /\ flush = "SYNC" => EmHeld(e, in, m) = <<>>
            /\ x = [cells |-> EmHead(e), held |-> EmHeld(e, in, m), fin |-> FALSE]
         \/ /\ ~e.fin /\ ~(m < Len(in))
            /\ x = [cells |-> EmHead(e) \o HeldCell(EmHeld(e, in, m)) \o Ends(flush), held |-> <<>>,
                    fin |-> flush = "FINISH"]
BY ZenonT(60) DEF Emits, EmHeld, EmHead

HeadPart(p, head) ==
  p \in Seq(Cells) /\ Len(p) = (IF head THEN 0 ELSE 1) /\ \A i \in 1 .. Len(p) : p[i].k = "H"
DataPart(q) ==
  q \in Seq(Cells) /\ Len(q) \in 0 .. 1 /\ \A i \in 1 .. Len(q) : q[i].k = "D"
EndPart(r, fin) ==
  /\ r \in Seq(Cells) /\ Len(r) \in 0 .. 1 /\ (fin => Len(r) = 1)
  /\ \A i \in 1 .. Len(r) : r[i].k = IF fin THEN "T" ELSE "S"

LEMMA Built ==
  ASSUME NEW p, NEW q, NEW r, NEW head \in BOOLEAN, NEW fin \in BOOLEAN,
         HeadPart(p, head), DataPart(q), EndPart(r, fin)
  PROVE  Shaped(head, (p \o q) \o r, fin) /\ (p \o q) \o r \in Seq(Cells)
<1> DEFINE a == Len(p)
           b == Len(q)
           z == Len(r)
           h == (p \o q) \o r
<1> USE DEF HeadPart, DataPart, EndPart
<1>1. a \in 0 .. 1 /\ b \in 0 .. 1 /\ z \in 0 .. 1
  OBVIOUS
<1>2. p \o q \in Seq(Cells) /\ Len(p \o q) = a + b
  BY ConcatProperties
<1>3. h \in Seq(Cells) /\ Len(h) = a + b + z
  BY <1>2, ConcatProperties
<1>4. \A i \in 1 .. a + b : (p \o q)[i] = IF i <= a THEN p[i] ELSE q[i - a]
  BY ConcatProperties
<1>5. \A i \in 1 .. a + b + z : h[i] = IF i <= a + b THEN (p \o q)[i] ELSE r[i - (a + b)]
  BY <1>2, ConcatProperties
<1> HIDE DEF h
<1>6. ASSUME NEW i \in 1 .. a + b + z
      PROVE  /\ h[i].k = "H" <=> i <= a
             /\ h[i].k = "T" <=> (i > a + b /\ fin)
  <2>1. CASE i <= a
    <3>1. h[i] = p[i] /\ i \in 1 .. a
      BY <1>1, <1>4, <1>5, <2>1
    <3>2. h[i].k = "H"
      BY <3>1
    <3> QED  BY <1>1, <2>1, <3>2
  <2>2. CASE i > a /\ i <= a + b
    <3>1. h[i] = q[i - a] /\ i - a \in 1 .. b
      BY <1>1, <1>4, <1>5, <2>2
    <3>2. h[i].k = "D"
      BY <3>1
    <3> QED  BY <1>1, <2>2, <3>2
  <2>3. CASE i > a + b
    <3>1. h[i] = r[i - (a + b)] /\ i - (a + b) \in 1 .. z
      BY <1>1, <1>5, <2>3
    <3>2. h[i].k = IF fin THEN "T" ELSE "S"
      BY <3>1
    <3> QED  BY <1>1, <2>3, <3>2
  <2> QED  BY <1>1, <2>1, <2>2, <2>3
<1>7. a = IF head THEN 0 ELSE 1
  OBVIOUS
<1>8. fin => z = 1
  OBVIOUS
<1>9. h = <<>> <=> a + b + z = 0
  BY <1>3, EmptySeq
<1> HIDE DEF a, b, z
<1>10. \A i \in 1 .. a + b + z : (i <= a <=> (i = 1 /\ ~head)) /\ ((i > a + b /\ fin) <=> (i = a + b + z /\ fin))
  BY <1>1, <1>7, <1>8
<1>11. (~head => h # <<>>) /\ (fin => h # <<>>)
  BY <1>1, <1>7, <1>8, <1>9
<1>12. Shaped(head, h, fin)
  BY <1>3, <1>6, <1>10, <1>11 DEF Shaped
<1> QED  BY <1>3, <1>12 DEF h

EmOK(e, in, m, flush, x) ==
  /\ x.cells \in Seq(Cells) /\ x.held \in Seq(Int) /\ x.fin \in BOOLEAN
  /\ Decoded(x.cells) \o x.held = e.held \o SubSeq(in, 1, m)
  /\ e.fin => x.cells = <<>> /\ x.fin /\ x.held = <<>>
  /\ ~e.fin => Shaped(e.head, x.cells, x.fin)
  /\ x.fin /\ ~e.fin => flush = "FINISH" /\ x.held = <<>> /\ m = Len(in)
  /\ ~e.fin /\ m = Len(in) /\ flush = "SYNC" => x.held = <<>>
  /\ ~e.fin /\ m = Len(in) /\ flush = "FINISH" => x.fin

LEMMA EmitsOK ==
  ASSUME NEW e \in DeflateStates, NEW in \in Seq(Int), NEW m \in 0 .. Len(in), NEW flush,
         NEW x \in Emits(e, in, m, flush), e.fin => e.held = <<>> /\ m = 0
  PROVE  EmOK(e, in, m, flush, x)
<1> USE DEF EmOK
<1> DEFINE h == EmHeld(e, in, m)
           p == EmHead(e)
           q == HeldCell(h)
<1>1. Len(in) \in Nat /\ e.held \in Seq(Int) /\ e.head \in BOOLEAN /\ e.fin \in BOOLEAN
  BY LenProperties DEF DeflateStates
<1>2. SubSeq(in, 1, m) \in Seq(Int)
  BY Cut
<1>3. h \in Seq(Int) /\ h = e.held \o SubSeq(in, 1, m)
  BY <1>1, <1>2, CatIntType DEF EmHeld
<1>4. /\ p \in Seq(Cells) /\ Len(p) = (IF e.head THEN 0 ELSE 1) /\ Decoded(p) = <<>>
      /\ \A i \in 1 .. Len(p) : p[i].k = "H"
  <2>1. CASE e.head
    BY <2>1, EmptySeq, DecodedEmpty DEF EmHead
  <2>2. CASE ~e.head
    <3>1. p = <<Cell("H", <<>>)>>
      BY <2>2 DEF EmHead
    <3>2. p \in Seq(Cells) /\ Decoded(p) = <<>>
      BY <3>1, CellType, EmptySeq
    <3>3. Len(p) = 1 /\ p[1].k = "H"
      BY <3>1 DEF Cell
    <3> QED  BY <2>2, <3>2, <3>3
  <2> QED  BY <1>1, <2>1, <2>2
<1>5. /\ q \in Seq(Cells) /\ Len(q) \in 0 .. 1 /\ Decoded(q) = h
      /\ \A i \in 1 .. Len(q) : q[i].k = "D"
  <2> HIDE DEF h
  <2>1. CASE h = <<>>
    BY <2>1, EmptySeq, DecodedEmpty DEF HeldCell
  <2>2. CASE h # <<>>
    <3>1. q = <<Cell("D", h)>>
      BY <2>2 DEF HeldCell
    <3>2. q \in Seq(Cells) /\ Decoded(q) = h
      BY <1>3, <3>1, CellType
    <3>3. Len(q) = 1 /\ q[1].k = "D"
      BY <3>1 DEF Cell
    <3> QED  BY <3>2, <3>3
  <2> QED  BY <2>1, <2>2
<1>6. \/ e.fin /\ x = [cells |-> <<>>, held |-> <<>>, fin |-> TRUE]
      \/ /\ ~e.fin /\ (m < Len(in) \/ flush \in {"NO", "BLOCK"})
         /\ x = [cells |-> p \o q, held |-> <<>>, fin |-> FALSE]
      \/ /\ ~e.fin /\ m = Len(in) /\ flush \in {"NO", "SYNC"}
         /\ flush = "SYNC" => h = <<>>
         /\ x = [cells |-> p, held |-> h, fin |-> FALSE]
      \/ /\ ~e.fin /\ ~(m < Len(in))
         /\ x = [cells |-> p \o q \o Ends(flush), held |-> <<>>, fin |-> flush = "FINISH"]
  BY EmitsIs
<1> HIDE DEF h, p, q
<1>7. /\ Ends(flush) \in Seq(Cells) /\ Decoded(Ends(flush)) = <<>>
      /\ Len(Ends(flush)) \in 0 .. 1 /\ (flush = "FINISH" => Len(Ends(flush)) = 1)
      /\ \A i \in 1 .. Len(Ends(flush)) : Ends(flush)[i].k = IF flush = "FINISH" THEN "T" ELSE "S"
  <2>1. CASE flush = "FINISH"
    <3>1. Ends(flush) = <<Cell("T", <<>>)>>
      BY <2>1, Zenon DEF Ends
    <3>2. Ends(flush) \in Seq(Cells) /\ Decoded(Ends(flush)) = <<>>
      BY <3>1, CellType, EmptySeq
    <3>3. Len(Ends(flush)) = 1 /\ Ends(flush)[1].k = "T"
      BY <3>1 DEF Cell
    <3>4. \A i \in 1 .. 1 : i = 1
      OBVIOUS
    <3> HIDE DEF h
    <3> QED  BY <2>1, <3>2, <3>3, <3>4
  <2>2. CASE flush = "SYNC"
    <3>1. Ends(flush) = <<Cell("S", <<>>)>>
      BY <2>2, Zenon DEF Ends
    <3>2. Ends(flush) \in Seq(Cells) /\ Decoded(Ends(flush)) = <<>>
      BY <3>1, CellType, EmptySeq
    <3>3. Len(Ends(flush)) = 1 /\ Ends(flush)[1].k = "S"
      BY <3>1 DEF Cell
    <3>4. \A i \in 1 .. 1 : i = 1
      OBVIOUS
    <3> QED  BY <2>2, <3>2, <3>3, <3>4
  <2>3. CASE flush # "FINISH" /\ flush # "SYNC"
    <3>1. Ends(flush) = <<>>
      BY <2>3, Zenon DEF Ends
    <3> QED  BY <2>3, <3>1, DecodedEmpty, EmptySeq
  <2> QED  BY <2>1, <2>2, <2>3
<1>8. p \o q \in Seq(Cells) /\ Decoded(p \o q) = h
  <2>1. Decoded(p \o q) = Decoded(p) \o Decoded(q)
    BY <1>4, <1>5, DecodedConcat
  <2>2. p \o q \in Seq(Cells)
    BY <1>4, <1>5, ConcatProperties
  <2> QED  BY <1>3, <1>4, <1>5, <2>1, <2>2, ConcatEmptySeq
<1>9. h \o <<>> = h /\ <<>> \o h = h /\ (p \o q) \o <<>> = p \o q /\ p \o <<>> = p
  BY <1>3, <1>4, <1>8, ConcatEmptySeq
<1>10. CASE e.fin
  <2>1. x.cells = <<>> /\ x.held = <<>> /\ x.fin = TRUE
    BY <1>6, <1>10
  <2>2. e.held = <<>> /\ SubSeq(in, 1, m) = <<>>
    BY <1>10, SubSeqEmpty
  <2>3. <<>> \o <<>> = <<>>
    OBVIOUS
  <2> QED  BY <1>10, <2>1, <2>2, <2>3, DecodedEmpty, EmptySeq
<1>11. CASE ~e.fin /\ (m < Len(in) \/ flush \in {"NO", "BLOCK"}) /\ x = [cells |-> p \o q, held |-> <<>>, fin |-> FALSE]
  <2>1. x.cells = p \o q /\ x.held = <<>> /\ x.fin = FALSE
    BY <1>11
  <2>2. Shaped(e.head, (p \o q) \o <<>>, FALSE)
    <3>1. HeadPart(p, e.head) /\ DataPart(q) /\ EndPart(<<>>, FALSE)
      BY <1>4, <1>5, EmptySeq DEF HeadPart, DataPart, EndPart
    <3> QED  BY <1>1, <3>1, Built, Zenon
  <2>3. ~(m = Len(in) /\ flush \in {"SYNC", "FINISH"})
    BY <1>1, <1>11
  <2>4. x.cells \in Seq(Cells) /\ x.held \in Seq(Int) /\ x.fin \in BOOLEAN
    BY <1>8, <2>1, EmptySeq
  <2>5. Decoded(x.cells) \o x.held = e.held \o SubSeq(in, 1, m)
    BY <1>3, <1>8, <1>9, <2>1
  <2>6. Shaped(e.head, x.cells, x.fin)
    BY <1>9, <2>1, <2>2
  <2> QED  BY <1>11, <2>1, <2>3, <2>4, <2>5, <2>6
<1>12. CASE /\ ~e.fin /\ m = Len(in) /\ flush \in {"NO", "SYNC"}
            /\ flush = "SYNC" => h = <<>>
            /\ x = [cells |-> p, held |-> h, fin |-> FALSE]
  <2>1. x.cells = p /\ x.held = h /\ x.fin = FALSE
    BY <1>12
  <2>2. Shaped(e.head, (p \o <<>>) \o <<>>, FALSE)
    <3>1. HeadPart(p, e.head) /\ DataPart(<<>>) /\ EndPart(<<>>, FALSE)
      BY <1>4, EmptySeq DEF HeadPart, DataPart, EndPart
    <3> QED  BY <1>1, <3>1, Built, Zenon
  <2> QED  BY <1>3, <1>4, <1>9, <1>12, <2>1, <2>2
<1>13. CASE /\ ~e.fin /\ ~(m < Len(in))
            /\ x = [cells |-> p \o q \o Ends(flush), held |-> <<>>, fin |-> flush = "FINISH"]
  <2>1. x.cells = (p \o q) \o Ends(flush) /\ x.held = <<>> /\ x.fin = (flush = "FINISH")
    BY <1>13
  <2>2. Shaped(e.head, (p \o q) \o Ends(flush), flush = "FINISH") /\ (p \o q) \o Ends(flush) \in Seq(Cells)
    <3> DEFINE fn == flush = "FINISH"
               r == Ends(flush)
    <3>1. /\ fn \in BOOLEAN /\ r \in Seq(Cells) /\ Len(r) \in 0 .. 1 /\ (fn => Len(r) = 1)
          /\ \A i \in 1 .. Len(r) : r[i].k = IF fn THEN "T" ELSE "S"
      BY <1>7
    <3> HIDE DEF fn, r
    <3>2. HeadPart(p, e.head) /\ DataPart(q) /\ EndPart(r, fn)
      BY <3>1, <1>4, <1>5 DEF HeadPart, DataPart, EndPart
    <3>3. Shaped(e.head, (p \o q) \o r, fn) /\ (p \o q) \o r \in Seq(Cells)
      BY <3>1, <1>1, <3>2, Built, Zenon
    <3> QED  BY <3>3 DEF fn, r
  <2>3. Decoded((p \o q) \o Ends(flush)) = h
    BY <1>7, <1>8, <1>9, DecodedConcat
  <2>4. m = Len(in)
    BY <1>1, <1>13
  <2> QED  BY <1>3, <1>9, <1>13, <2>1, <2>2, <2>3, <2>4, EmptySeq
<1> QED  BY <1>6, <1>10, <1>11, <1>12, <1>13

-----------------------------------------------------------------------------
\* What one call of deflate() does to the stream: it takes r.m bytes of in, and
\* new cells come behind the ones that were pending.
Grown(e, in, r, new) ==
  /\ new \in Seq(Cells)
  /\ r.out \o r.e.pend = e.pend \o new
  /\ Decoded(new) \o r.e.held = e.held \o SubSeq(in, 1, r.m)
  /\ \/ new = <<>> /\ r.e.head = e.head /\ r.e.fin = e.fin
     \/ new = <<>> /\ e.fin /\ r.e.fin
     \/ ~e.fin /\ Shaped(e.head, new, r.e.fin) /\ r.e.head
Deflated(e, in, room, flush, r) ==
  /\ r.m \in 0 .. Len(in)
  /\ r.out \in Seq(Cells) /\ Len(r.out) <= room
  /\ r.e \in DeflateStates /\ r.e.live = e.live
  /\ r.ret \in {"OK", "STREAM_END"}
  /\ \E new : Grown(e, in, r, new)
  /\ r.e.fin /\ ~e.fin => flush = "FINISH" /\ r.e.held = <<>> /\ r.m = Len(in)
  /\ e.fin => r.e.fin /\ r.e.held = <<>>
  /\ r.out = <<>> /\ room > 0 => /\ r.e.pend = <<>>
                                 /\ e.fin \/ r.m = Len(in)
                                 /\ flush = "SYNC" => r.e.held = <<>>
                                 /\ flush = "FINISH" => e.fin
  /\ r.e.fin /\ r.e.pend = <<>> => r.ret = "STREAM_END" \/ Len(r.out) = room

LEMMA DeflatesOK ==
  ASSUME NEW e \in DeflateStates, NEW in \in Seq(Int), NEW room \in Nat, NEW flush,
         NEW r \in Deflates(e, in, room, flush), e.fin => e.held = <<>>
  PROVE  Deflated(e, in, room, flush, r)
<1>1. /\ e.pend \in Seq(Cells) /\ e.held \in Seq(Int) /\ Len(e.pend) \in Nat /\ Len(in) \in Nat
      /\ e.fin \in BOOLEAN /\ e.head \in BOOLEAN
  BY LenProperties DEF DeflateStates
<1>2. CASE Len(e.pend) >= room
  <2> DEFINE a == SubSeq(e.pend, 1, room)
             b == SubSeq(e.pend, room + 1, Len(e.pend))
  <2>1. r = [m |-> 0, out |-> a, e |-> [e EXCEPT !.pend = b], ret |-> "OK"]
    BY <1>2 DEF Deflates
  <2>2. room \in 0 .. Len(e.pend)
    BY <1>1, <1>2
  <2>3. a \in Seq(Cells) /\ b \in Seq(Cells) /\ a \o b = e.pend /\ Len(a) = room
    BY <1>1, <2>2, CutCells, Zenon
  <2> HIDE DEF a, b
  <2>4. r.m = 0 /\ r.out = a /\ r.ret = "OK" /\ r.e = [e EXCEPT !.pend = b]
    BY <2>1
  <2>5. r.e \in DeflateStates /\ r.e.pend = b /\ r.e.live = e.live /\ r.e.held = e.held
        /\ r.e.head = e.head /\ r.e.fin = e.fin
    BY <2>3, <2>4 DEF DeflateStates
  <2>6. Grown(e, in, r, <<>>)
    <3>1. SubSeq(in, 1, r.m) = <<>>
      BY <2>4, SubSeqEmpty
    <3>2. e.pend \o <<>> = e.pend /\ e.held \o <<>> = e.held /\ <<>> \o e.held = e.held
      BY <1>1, ConcatEmptySeq
    <3>3. Decoded(<<>>) \o r.e.held = e.held \o SubSeq(in, 1, r.m)
      BY <2>5, <3>1, <3>2, DecodedEmpty
    <3>4. r.out \o r.e.pend = e.pend \o <<>>
      BY <2>3, <2>4, <2>5, <3>2
    <3> QED  BY <2>5, <3>3, <3>4, EmptySeq DEF Grown
  <2>7. r.out = <<>> => room = 0
    BY <2>3, <2>4
  <2>8. /\ r.m \in 0 .. Len(in) /\ r.out \in Seq(Cells) /\ Len(r.out) = room /\ r.ret \in {"OK", "STREAM_END"}
    BY <1>1, <2>3, <2>4
  <2>9. \E new : Grown(e, in, r, new)
    BY <2>6
  <2> QED  BY <2>5, <2>7, <2>8, <2>9 DEF Deflated
<1>3. CASE ~(Len(e.pend) >= room)
  <2>1. PICK m \in IF e.fin THEN {0} ELSE 0 .. Len(in) :
        \E x \in Emits(e, in, m, flush) :
           /\ e.fin \/ m = Len(in) \/ Len(e.pend \o x.cells) >= room
           /\ r = [m |-> m, out |-> SubSeq(e.pend \o x.cells, 1, Least(room, Len(e.pend \o x.cells))),
                   e |-> [e EXCEPT !.pend = SubSeq(e.pend \o x.cells, room + 1, Len(e.pend \o x.cells)),
                           !.held = x.held, !.head = TRUE, !.fin = x.fin,
                           !.fresh = (flush # "SYNC" /\ (m > 0 \/ @))],
                   ret |-> IF x.fin /\ Len(e.pend \o x.cells) <= room THEN "STREAM_END" ELSE "OK"]
    <3>1. r \in UNION {
         {[m |-> m, out |-> SubSeq(e.pend \o x.cells, 1, Least(room, Len(e.pend \o x.cells))),
           e |-> [e EXCEPT !.pend = SubSeq(e.pend \o x.cells, room + 1, Len(e.pend \o x.cells)),
                           !.held = x.held, !.head = TRUE, !.fin = x.fin,
                           !.fresh = (flush # "SYNC" /\ (m > 0 \/ @))],
           ret |-> IF x.fin /\ Len(e.pend \o x.cells) <= room THEN "STREAM_END" ELSE "OK"] :
             x \in {y \in Emits(e, in, m, flush) :
                      e.fin \/ m = Len(in) \/ Len(e.pend \o y.cells) >= room}} :
           m \in IF e.fin THEN {0} ELSE 0 .. Len(in)}
      BY <1>3, Zenon DEF Deflates
    <3> QED  BY <3>1, ZenonT(90)
  <2>2. PICK x \in Emits(e, in, m, flush) :
           /\ e.fin \/ m = Len(in) \/ Len(e.pend \o x.cells) >= room
           /\ r = [m |-> m, out |-> SubSeq(e.pend \o x.cells, 1, Least(room, Len(e.pend \o x.cells))),
                   e |-> [e EXCEPT !.pend = SubSeq(e.pend \o x.cells, room + 1, Len(e.pend \o x.cells)),
                           !.held = x.held, !.head = TRUE, !.fin = x.fin,
                           !.fresh = (flush # "SYNC" /\ (m > 0 \/ @))],
                   ret |-> IF x.fin /\ Len(e.pend \o x.cells) <= room THEN "STREAM_END" ELSE "OK"]
    BY <2>1, Zenon
  <2> DEFINE t == e.pend \o x.cells
             k == Least(room, Len(t))
             b == SubSeq(t, room + 1, Len(t))
             fr == flush # "SYNC" /\ (m > 0 \/ e.fresh)
  <2>3. m \in 0 .. Len(in) /\ (e.fin => m = 0)
    BY <1>1, <2>1
  <2>4. /\ x.cells \in Seq(Cells) /\ x.held \in Seq(Int) /\ x.fin \in BOOLEAN
        /\ Decoded(x.cells) \o x.held = e.held \o SubSeq(in, 1, m)
        /\ e.fin => x.cells = <<>> /\ x.fin /\ x.held = <<>>
        /\ ~e.fin => Shaped(e.head, x.cells, x.fin)
        /\ x.fin /\ ~e.fin => flush = "FINISH" /\ x.held = <<>> /\ m = Len(in)
        /\ ~e.fin /\ m = Len(in) /\ flush = "SYNC" => x.held = <<>>
        /\ ~e.fin /\ m = Len(in) /\ flush = "FINISH" => x.fin
    <3>1. e.fin => e.held = <<>> /\ m = 0
      BY <2>3
    <3>2. x \in Emits(e, in, m, flush)
      BY <2>2
    <3>3. EmOK(e, in, m, flush, x)
      BY <2>3, <3>1, <3>2, EmitsOK, Zenon
    <3> QED  BY <3>3 DEF EmOK
  <2>5. t \in Seq(Cells) /\ Len(t) \in Nat
    BY <1>1, <2>4, ConcatProperties, LenProperties
  <2>6. /\ r.m = m /\ r.out = SubSeq(t, 1, k)
        /\ r.e = [e EXCEPT !.pend = b, !.held = x.held, !.head = TRUE, !.fin = x.fin, !.fresh = fr]
        /\ r.ret = IF x.fin /\ Len(t) <= room THEN "STREAM_END" ELSE "OK"
    BY <2>2
  <2>7. e.fin \/ m = Len(in) \/ Len(t) >= room
    BY <2>2
  <2> HIDE DEF t
  <2>8. k \in 0 .. Len(t) /\ k <= room /\ (k < room => k = Len(t))
    BY <2>5 DEF Least
  <2>9. b = SubSeq(t, k + 1, Len(t))
    <3>1. CASE room <= Len(t)
      <4>1. k = room
        BY <2>5, <3>1 DEF Least
      <4> QED  BY <4>1
    <3>2. CASE ~(room <= Len(t))
      <4>1. k = Len(t) /\ Len(t) < room + 1 /\ Len(t) < k + 1
        BY <2>5, <3>2 DEF Least
      <4>2. b = <<>> /\ SubSeq(t, k + 1, Len(t)) = <<>>
        BY <2>5, <2>8, <4>1, SubSeqEmpty
      <4> QED  BY <4>2
    <3> QED  BY <3>1, <3>2
  <2> HIDE DEF k, b
  <2>10. /\ r.out \in Seq(Cells) /\ Len(r.out) = k
         /\ b \in Seq(Cells) /\ Len(b) = Len(t) - k
         /\ r.out \o b = t
    <3>1. /\ SubSeq(t, 1, k) \in Seq(Cells) /\ Len(SubSeq(t, 1, k)) = k
          /\ SubSeq(t, k + 1, Len(t)) \in Seq(Cells) /\ Len(SubSeq(t, k + 1, Len(t))) = Len(t) - k
          /\ SubSeq(t, 1, k) \o SubSeq(t, k + 1, Len(t)) = t
      BY <2>5, <2>8, CutCells, Zenon
    <3>2. r.out = SubSeq(t, 1, k)
      BY <2>6
    <3> QED  BY <2>9, <3>1, <3>2, Zenon
  <2>11. fr \in BOOLEAN
    OBVIOUS
  <2> HIDE DEF fr
  <2>12. r.e \in DeflateStates /\ r.e.pend = b /\ r.e.live = e.live /\ r.e.held = x.held
        /\ r.e.head = TRUE /\ r.e.fin = x.fin
    BY <2>4, <2>6, <2>10, <2>11, ZenonT(60) DEF DeflateStates
  <2>13. Grown(e, in, r, x.cells)
    <3>1. r.out \o r.e.pend = e.pend \o x.cells
      BY <2>10, <2>12 DEF t
    <3>2. Decoded(x.cells) \o r.e.held = e.held \o SubSeq(in, 1, r.m)
      BY <2>4, <2>6, <2>12
    <3> QED  BY <1>1, <2>4, <2>12, <3>1, <3>2 DEF Grown
  <2>14. \E new : Grown(e, in, r, new)
    BY <2>13
  <2>15. r.out = <<>> => k = 0
    BY <2>10
  <2>16. ASSUME r.out = <<>>, room > 0
         PROVE  /\ r.e.pend = <<>>
                /\ e.fin \/ r.m = Len(in)
                /\ flush = "SYNC" => r.e.held = <<>>
                /\ flush = "FINISH" => e.fin
    <3>1. Len(t) = 0 /\ Len(b) = 0
      <4>1. k = 0 /\ k = Len(t)
        BY <2>5, <2>8, <2>15, <2>16
      <4> QED  BY <2>10, <4>1
    <3>2. b = <<>>
      BY <2>10, <3>1, EmptySeq
    <3>3. e.fin \/ m = Len(in)
      BY <2>7, <2>16, <3>1
    <3>4. Len(t) = Len(e.pend) + Len(x.cells) /\ Len(x.cells) \in Nat
      BY <1>1, <2>4, ConcatProperties, LenProperties DEF t
    <3>5. x.cells = <<>>
      <4>1. Len(x.cells) = 0
        <5> DEFINE lp == Len(e.pend)
                   lc == Len(x.cells)
        <5>1. 0 = lp + lc /\ lp \in Nat /\ lc \in Nat
          BY <1>1, <3>1, <3>4, Zenon
        <5> HIDE DEF lp, lc
        <5>2. lc = 0
          BY <5>1
        <5> QED  BY <5>2 DEF lc
      <4> QED  BY <2>4, <4>1, EmptyCells
    <3>6. flush = "FINISH" => e.fin
      BY <2>4, <3>3, <3>5 DEF Shaped
    <3> QED  BY <2>4, <2>6, <2>12, <3>2, <3>3, <3>6
  <2>17. r.e.fin /\ r.e.pend = <<>> => r.ret = "STREAM_END" \/ Len(r.out) = room
    <3>1. SUFFICES ASSUME x.fin, b = <<>> PROVE  r.ret = "STREAM_END" \/ Len(r.out) = room
      BY <2>12
    <3>2. Len(b) = 0
      BY <3>1
    <3>3. Len(t) <= room
      BY <2>5, <2>8, <2>10, <3>2
    <3> QED  BY <2>6, <3>1, <3>3
  <2>18. r.m \in 0 .. Len(in) /\ Len(r.out) <= room /\ r.ret \in {"OK", "STREAM_END"}
    BY <2>3, <2>6, <2>8, <2>10
  <2>19. r.e.fin /\ ~e.fin => flush = "FINISH" /\ r.e.held = <<>> /\ r.m = Len(in)
    BY <2>4, <2>6, <2>12
  <2>20. e.fin => r.e.fin /\ r.e.held = <<>>
    BY <2>4, <2>12
  <2> QED  BY <2>10, <2>12, <2>14, <2>16, <2>17, <2>18, <2>19, <2>20 DEF Deflated
<1> QED  BY <1>2, <1>3

\* deflateParams, while the stream has not ended.
ParamsDone(e, r, room, new) ==
  /\ r.out \in Seq(Cells) /\ Len(r.out) <= room
  /\ r.e \in DeflateStates /\ r.e.live = e.live /\ ~r.e.fin
  /\ new \in Seq(Cells) /\ r.out \o r.e.pend = e.pend \o new
  /\ Decoded(new) \o r.e.held = e.held
  /\ \/ new = <<>> /\ r.e.head = e.head
     \/ Shaped(e.head, new, FALSE) /\ r.e.head

LEMMA ParamsOK ==
  ASSUME NEW e \in DeflateStates, NEW room \in Nat, ~e.fin,
         NEW par \in (Levels \cup {"-1"}) \X (Strategies \cup {"dflt"}),
         NEW r \in deflateParams(e, room, par)
  PROVE  \E new : ParamsDone(e, r, room, new)
<1> DEFINE full(q) == Len(q.out) = room
           rs == IF e.head /\ par # <<e.level, e.strategy>>
                 THEN Deflates(e, <<>>, room, "BLOCK")
                 ELSE {[m |-> 0, out |-> <<>>, e |-> e, ret |-> "OK"]}
<1>1. PICK q \in rs :
        r = [out |-> q.out, e |-> IF full(q) THEN q.e
                                  ELSE [q.e EXCEPT !.level = par[1], !.strategy = par[2]]]
  BY Zenon DEF deflateParams
<1>2. e.pend \in Seq(Cells) /\ e.held \in Seq(Int) /\ Len(e.pend) \in Nat /\ e.fin = FALSE
  BY LenProperties DEF DeflateStates
<1>3. /\ q.out \in Seq(Cells) /\ Len(q.out) <= room
      /\ q.e \in DeflateStates /\ q.e.live = e.live /\ ~q.e.fin
      /\ \E new : Grown(e, <<>>, q, new) /\ q.m = 0
  <2>1. CASE e.head /\ par # <<e.level, e.strategy>>
    <3>1. q \in Deflates(e, <<>>, room, "BLOCK")
      BY <2>1
    <3>2. Deflated(e, <<>>, room, "BLOCK", q)
      BY <3>1, DeflatesOK, EmptySeq
    <3>3. q.m = 0
      BY <3>2, EmptySeq DEF Deflated
    <3>4. q.e.fin \in BOOLEAN
      BY <3>2 DEF Deflated, DeflateStates
    <3> QED  BY <3>2, <3>3, <3>4 DEF Deflated
  <2>2. CASE ~(e.head /\ par # <<e.level, e.strategy>>)
    <3>1. q.out = <<>> /\ q.e = e /\ q.m = 0
      BY <2>2
    <3>2. <<>> \o e.pend = e.pend /\ e.pend \o <<>> = e.pend /\ <<>> \o e.held = e.held /\ e.held \o <<>> = e.held
      BY <1>2, EmptyCells, EmptyInt
    <3>3. SubSeq(<<>>, 1, 0) = <<>>
      BY SubSeqEmpty
    <3>4. Grown(e, <<>>, q, <<>>)
      BY <3>1, <3>2, <3>3, DecodedEmpty, EmptySeq DEF Grown
    <3> QED  BY <1>2, <3>1, <3>4, EmptySeq
  <2> QED  BY <2>1, <2>2
<1>4. PICK new : Grown(e, <<>>, q, new) /\ q.m = 0
  BY <1>3
<1>5. r.out = q.out
  BY <1>1
<1>6. r.e \in DeflateStates /\ r.e.pend = q.e.pend /\ r.e.held = q.e.held /\ r.e.head = q.e.head
      /\ r.e.fin = q.e.fin /\ r.e.live = q.e.live
  <2> HIDE DEF full
  <2>1. r.e = IF full(q) THEN q.e ELSE [q.e EXCEPT !.level = par[1], !.strategy = par[2]]
    BY <1>1
  <2>2. par[1] \in Levels \cup {"-1"} /\ par[2] \in Strategies \cup {"dflt"}
    OBVIOUS
  <2>3. CASE full(q)
    BY <1>3, <2>1, <2>3
  <2>4. CASE ~full(q)
    BY <1>3, <2>1, <2>2, <2>4, ZenonT(60) DEF DeflateStates
  <2> QED  BY <2>3, <2>4
<1>7. SubSeq(<<>>, 1, q.m) = <<>>
  BY <1>4, SubSeqEmpty
<1>8. e.held \o <<>> = e.held
  BY <1>2, EmptyInt
<1>9. ParamsDone(e, r, room, new)
  <2>1. new \in Seq(Cells) /\ q.out \o q.e.pend = e.pend \o new /\ Decoded(new) \o q.e.held = e.held
    BY <1>4, <1>7, <1>8 DEF Grown
  <2>2. \/ new = <<>> /\ q.e.head = e.head
        \/ Shaped(e.head, new, FALSE) /\ q.e.head
    <3>1. q.e.fin = FALSE
      BY <1>3 DEF DeflateStates
    <3> QED  BY <1>2, <1>4, <3>1 DEF Grown
  <2> QED  BY <1>3, <1>5, <1>6, <2>1, <2>2 DEF ParamsDone
<1> QED  BY <1>9

-----------------------------------------------------------------------------
(* What the steps do to the data on its way.                               *)

\* deflate() puts its output behind what waits.
SentGrowsTo(f, o, p, x, q, new) == (f \o (o \o x)) \o q = ((f \o o) \o p) \o new
LEMMA SentGrows ==
  ASSUME NEW f \in Seq(Cells), NEW o \in Seq(Cells), NEW p \in Seq(Cells), NEW x \in Seq(Cells),
         NEW q \in Seq(Cells), NEW new \in Seq(Cells), x \o q = p \o new
  PROVE  SentGrowsTo(f, o, p, x, q, new)
<1>1. f \o o \in Seq(Cells)
  BY CatCellsType
<1>a. f \o (o \o x) = (f \o o) \o x
  BY CatCells, ZenonT(40)
<1>2. ((f \o o) \o x) \o q = (f \o o) \o (x \o q)
  BY <1>1, CatCells, ZenonT(60)
<1>3. ((f \o o) \o p) \o new = (f \o o) \o (p \o new)
  BY <1>1, CatCells, SMTT(40)
<1> QED  BY <1>a, <1>2, <1>3 DEF SentGrowsTo

Shifts(a, b, h2, h1, x, y) ==
  b \o h2 = h1 \o x => ((a \o b) \o h2) \o y = (a \o h1) \o (x \o y)

LEMMA Shift ==
  ASSUME NEW a \in Seq(Int), NEW b \in Seq(Int), NEW h2 \in Seq(Int), NEW h1 \in Seq(Int),
         NEW x \in Seq(Int), NEW y \in Seq(Int)
  PROVE  Shifts(a, b, h2, h1, x, y)
<1>1. (a \o b) \o h2 = a \o (b \o h2)
  BY CatInt, SMTT(30)
<1>2. (a \o h1) \o x = a \o (h1 \o x)
  BY CatInt, SMTT(30)
<1>3. a \o h1 \in Seq(Int)
  BY CatIntType
<1>4. ((a \o h1) \o x) \o y = (a \o h1) \o (x \o y)
  BY <1>3, CatInt, SMTT(40)
<1> QED  BY <1>1, <1>2, <1>4, Zenon DEF Shifts

\* What it takes from the input it holds or puts out.
DataGrowsTo(s, new, held, held2, in, m) ==
  (Decoded(s \o new) \o held2) \o SubSeq(in, m + 1, Len(in)) = (Decoded(s) \o held) \o in
LEMMA DataGrows ==
  ASSUME NEW s \in Seq(Cells), NEW new \in Seq(Cells), NEW held \in Seq(Int), NEW held2 \in Seq(Int),
         NEW in \in Seq(Int), NEW m \in 0 .. Len(in),
         Decoded(new) \o held2 = held \o SubSeq(in, 1, m)
  PROVE  DataGrowsTo(s, new, held, held2, in, m)
<1> DEFINE a == Decoded(s)
           b == Decoded(new)
           x == SubSeq(in, 1, m)
           y == SubSeq(in, m + 1, Len(in))
<1>1. a \in Seq(Int) /\ b \in Seq(Int) /\ Decoded(s \o new) = a \o b
  BY DecodedType, DecodedConcat
<1>2. x \in Seq(Int) /\ y \in Seq(Int) /\ x \o y = in
  BY CutInt, Zenon
<1>3. b \o held2 = held \o x
  OBVIOUS
<1> HIDE DEF a, b, x, y
<1>7. ((a \o b) \o held2) \o y = (a \o held) \o in
  <2>1. Shifts(a, b, held2, held, x, y)
    BY <1>1, <1>2, Shift, Zenon
  <2> QED  BY <1>2, <1>3, <2>1, Zenon DEF Shifts
<1> QED  BY <1>1, <1>7 DEF a, y, DataGrowsTo

\* write() takes the first cells.
LEMMA SentWritten ==
  ASSUME NEW f \in Seq(Cells), NEW o \in Seq(Cells), NEW k \in 0 .. Len(o)
  PROVE  (f \o SubSeq(o, 1, k)) \o SubSeq(o, k + 1, Len(o)) = f \o o
<1>1. SubSeq(o, 1, k) \in Seq(Cells) /\ SubSeq(o, k + 1, Len(o)) \in Seq(Cells)
      /\ SubSeq(o, 1, k) \o SubSeq(o, k + 1, Len(o)) = o
  BY CutCells, Zenon
<1>2. (f \o SubSeq(o, 1, k)) \o SubSeq(o, k + 1, Len(o)) = f \o (SubSeq(o, 1, k) \o SubSeq(o, k + 1, Len(o)))
  BY <1>1, CatCells, CatCellsType, ZenonT(40)
<1> QED  BY <1>1, <1>2, Zenon

\* write() takes bytes of a transparent file.
LEMMA DataRaw ==
  ASSUME NEW f \in Seq(Cells), NEW in \in Seq(Int), NEW k \in 0 .. Len(in)
  PROVE  f \o Raw(in, k) \in Seq(Cells)
         /\ Decoded(f \o Raw(in, k)) \o SubSeq(in, k + 1, Len(in)) = Decoded(f) \o in
<1>1. Raw(in, k) \in Seq(Cells) /\ Decoded(Raw(in, k)) = SubSeq(in, 1, k)
  BY DecodedRaw
<1>2. f \o Raw(in, k) \in Seq(Cells) /\ Decoded(f \o Raw(in, k)) = Decoded(f) \o SubSeq(in, 1, k)
  BY <1>1, CatCellsType, DecodedConcat
<1>3. SubSeq(in, 1, k) \in Seq(Int) /\ SubSeq(in, k + 1, Len(in)) \in Seq(Int)
      /\ SubSeq(in, 1, k) \o SubSeq(in, k + 1, Len(in)) = in
  BY CutInt, Zenon
<1>4. Decoded(f) \in Seq(Int)
  BY DecodedType
<1>5. (Decoded(f) \o SubSeq(in, 1, k)) \o SubSeq(in, k + 1, Len(in))
      = Decoded(f) \o (SubSeq(in, 1, k) \o SubSeq(in, k + 1, Len(in)))
  BY <1>3, <1>4, CatInt, CatIntType, Zenon
<1> QED  BY <1>2, <1>3, <1>5, Zenon

-----------------------------------------------------------------------------
(* The call in progress.                                                   *)

\* gz_comp is called: the rest of the call stays as it is.
CompFacts(r, k, fl, back) ==
  /\ r \in CallStates /\ r.pc = "comp" /\ r.op = k.op /\ r.main = k.main /\ r.back = back
  /\ r.left = k.left /\ r.all = k.all /\ r.arg = k.arg /\ r.flush = fl /\ r.dret = "OK"
  /\ r.zeroed = k.zeroed /\ r.rest = k.rest /\ r.ret = k.ret /\ r.par = k.par

LEMMA CompOK ==
  ASSUME NEW k \in CallStates, NEW fl \in FlushValues, NEW back \in Backs
  PROVE  CompFacts(Comp(k, fl, back), k, fl, back)
BY DEF CallStates, CompFacts, Comp, Pcs

LEMMA NoCallFacts ==
  /\ NoCall \in CallStates /\ NoCall.pc = "idle" /\ NoCall.op = "none" /\ NoCall.main = "none"
  /\ NoCall.back = "none" /\ NoCall.left = 0 /\ NoCall.all = 0 /\ NoCall.arg = "NO"
  /\ NoCall.flush = "NO" /\ NoCall.dret = "OK" /\ NoCall.zeroed = -1 /\ NoCall.rest = <<>>
  /\ NoCall.ret = "OK" /\ NoCall.par = <<"-1", "dflt">>
  /\ NoCall = [NoCall EXCEPT !.pc = NoCall.pc]
BY EmptyInt DEF NoCall, CallStates, Pcs, Ops, Backs, FlushValues, Errors, Levels, Strategies

LEMMA DataType ==
  ASSUME TypeInv
  PROVE  Sent \in Seq(Cells) /\ Decoded(Sent) \in Seq(Int) /\ Data \in Seq(Int) /\ Len(Data) \in Nat
<1>1. file \in Seq(Cells) /\ out.cells \in Seq(Cells) /\ d.pend \in Seq(Cells) /\ d.held \in Seq(Int)
      /\ g.in \in Seq(Int)
  BY DEF TypeInv, DeflateStates, States
<1>2. Sent \in Seq(Cells)
  BY <1>1, CatCellsType DEF Sent
<1>3. Decoded(Sent) \in Seq(Int)
  BY <1>2, DecodedType
<1>4. Data \in Seq(Int)
  BY <1>1, <1>3, CatIntType DEF Data
<1> QED  BY <1>2, <1>3, <1>4, EmptyInt

\* While nothing has failed and nothing waits to be moved, all data is there.
LEMMA DataWhole ==
  ASSUME TypeInv, DataInv, faults = 0, c.rest = <<>>
  PROVE  Data = acc
<1>1. PICK s \in Seq(Int) : Data \o s = acc /\ (s = c.rest \/ Broken)
  BY DEF DataInv
<1>2. s = <<>>
  BY <1>1 DEF Broken
<1> QED  BY <1>1, <1>2, DataType, EmptyInt

LEMMA DataDrained ==
  ASSUME TypeInv, Drained
  PROVE  Data = Decoded(file)
<1>1. file \in Seq(Cells) /\ Decoded(file) \in Seq(Int)
  BY DecodedType DEF TypeInv
<1>2. Sent = file
  BY <1>1, EmptyCells DEF Sent, Drained
<1> QED  BY <1>1, <1>2, EmptyInt DEF Data, Drained

\* The bytes of a call that ends well are accepted.
LEMMA AckedGrows ==
  ASSUME NEW a \in Seq(Int), NEW n \in 0 .. Len(a), NEW old \in SUBSET (1 .. Len(a)),
         \A j \in old : a[j] = j, \A i \in Len(a) - n + 1 .. Len(a) : a[i] = i
  PROVE  /\ old \cup (Len(a) - n + 1 .. Len(a)) \subseteq 1 .. Len(a)
         /\ \A j \in old \cup (Len(a) - n + 1 .. Len(a)) : a[j] = j
<1> DEFINE l == Len(a)
<1>1. l \in Nat /\ n \in 0 .. l /\ (\A i \in l - n + 1 .. l : a[i] = i) /\ old \subseteq 1 .. l
  BY EmptyInt
<1> HIDE DEF l
<1>2. l - n + 1 .. l \subseteq 1 .. l
  BY <1>1
<1>3. old \cup (l - n + 1 .. l) \subseteq 1 .. l /\ \A j \in old \cup (l - n + 1 .. l) : a[j] = j
  BY <1>1, <1>2
<1> QED  BY <1>3 DEF l

LEMMA FreshOK ==
  ASSUME TypeInv, NEW n \in Nat
  PROVE  /\ Fresh_(n) \in Seq(Int) /\ Len(Fresh_(n)) = n
         /\ acc \o Fresh_(n) \in Seq(Int) /\ Len(acc \o Fresh_(n)) = Len(acc) + n
         /\ \A i \in 1 .. Len(acc) : (acc \o Fresh_(n))[i] = acc[i]
         /\ \A i \in Len(acc) + 1 .. Len(acc) + n : (acc \o Fresh_(n))[i] = i
<1> DEFINE x == Fresh_(n)
           l == Len(acc)
<1>1. g.pos = l /\ l \in Nat /\ acc \in Seq(Int)
  BY EmptyInt DEF TypeInv
<1>2. x \in [1 .. n -> Int] /\ \A i \in 1 .. n : x[i] = l + i
  BY <1>1 DEF Fresh_
<1>3. x \in Seq(Int) /\ Len(x) = n
  BY <1>2
<1> HIDE DEF x
<1>4. /\ acc \o x \in Seq(Int) /\ Len(acc \o x) = l + n
      /\ \A i \in 1 .. l + n : (acc \o x)[i] = IF i <= l THEN acc[i] ELSE x[i - l]
  <2>1. /\ acc \o x \in Seq(Int) /\ Len(acc \o x) = Len(acc) + Len(x)
        /\ \A i \in 1 .. Len(acc) + Len(x) : (acc \o x)[i] = IF i <= Len(acc) THEN acc[i] ELSE x[i - Len(acc)]
    BY <1>1, <1>3, ConcatProperties, Zenon
  <2> QED  BY <1>3, <2>1
<1> HIDE DEF l
<1>5. \A i \in 1 .. l : (acc \o x)[i] = acc[i]
  BY <1>1, <1>4
<1>6. ASSUME NEW i \in l + 1 .. l + n
      PROVE  (acc \o x)[i] = i
  <2>1. i \in 1 .. l + n /\ ~(i <= l) /\ i - l \in 1 .. n
    BY <1>1
  <2>2. (acc \o x)[i] = x[i - l]
    BY <1>4, <2>1
  <2>3. x[i - l] = l + (i - l)
    BY <1>2, <2>1
  <2> QED  BY <1>1, <2>2, <2>3
<1> QED  BY <1>3, <1>4, <1>5, <1>6 DEF x, l

\* What goes into the input buffer comes behind the data on its way.
LEMMA DataLonger ==
  ASSUME TypeInv, NEW x \in Seq(Int)
  PROVE  /\ g.in \o x \in Seq(Int) /\ Len(g.in \o x) = Len(g.in) + Len(x)
         /\ (Decoded(Sent) \o d.held) \o (g.in \o x) = Data \o x
<1>1. Decoded(Sent) \in Seq(Int) /\ d.held \in Seq(Int) /\ g.in \in Seq(Int)
  BY DataType DEF TypeInv, DeflateStates, States
<1>2. Decoded(Sent) \o d.held \in Seq(Int)
  BY <1>1, CatIntType
<1>3. g.in \o x \in Seq(Int) /\ Len(g.in \o x) = Len(g.in) + Len(x)
  BY <1>1, ConcatProperties
<1> DEFINE a == Decoded(Sent) \o d.held
           b == g.in
<1>4. a \in Seq(Int) /\ b \in Seq(Int) /\ Data = a \o b
  BY <1>1, <1>2 DEF Data
<1> HIDE DEF a, b
<1>5. (a \o b) \o x = a \o (b \o x)
  BY <1>4, CatInt
<1> QED  BY <1>3, <1>4, <1>5 DEF a, b

\* The data on its way is no longer than what was accepted.
LEMMA DataShort ==
  ASSUME TypeInv, DataInv
  PROVE  1 .. Len(Data) \subseteq 1 .. Len(acc)
<1>1. PICK s \in Seq(Int) : Data \o s = acc
  BY DEF DataInv
<1>2. Len(acc) = Len(Data) + Len(s) /\ Len(s) \in Nat /\ Len(Data) \in Nat
  BY <1>1, DataType, ConcatProperties, EmptyInt
<1> QED  BY <1>2

\* The data of the call in progress becomes longer by n bytes.
Longer(n) ==
  /\ acc' \in Seq(Int) /\ Len(acc') = Len(acc) + n /\ Len(acc) \in Nat
  /\ \A i \in 1 .. Len(acc) : acc'[i] = acc[i]
  /\ \A i \in Len(acc) + 1 .. Len(acc) + n : acc'[i] = i

LEMMA LongerTail ==
  ASSUME NEW n \in Nat, NEW k \in Nat, Longer(n), EndsIn(acc, k)
  PROVE  EndsIn(acc', k + n)
<1> DEFINE l == Len(acc)
           m == Len(acc')
<1>1. l \in Nat /\ m = l + n /\ k <= l /\ (\A i \in 1 .. l : acc'[i] = acc[i])
      /\ (\A i \in l + 1 .. l + n : acc'[i] = i) /\ (\A i \in l - k + 1 .. l : acc[i] = i)
  BY DEF Longer, EndsIn
<1> HIDE DEF l, m
<1>2. k + n <= m /\ \A i \in m - (k + n) + 1 .. m : acc'[i] = i
  BY <1>1
<1> QED  BY <1>2 DEF m, EndsIn

LEMMA LongerAcked ==
  ASSUME NEW n \in Nat, Longer(n), TypeInv, DataInv
  PROVE  /\ acked \subseteq 1 .. Len(acc') /\ \A j \in acked : acc'[j] = j
         /\ \A i \in 1 .. Len(acc') : (acc'[i] <= 0 \/ acc'[i] = i)
<1> DEFINE l == Len(acc)
           m == Len(acc')
<1>1. l \in Nat /\ m = l + n /\ (\A i \in 1 .. l : acc'[i] = acc[i])
      /\ (\A i \in l + 1 .. l + n : acc'[i] = i)
  BY DEF Longer
<1>2. acked \subseteq 1 .. l
  BY DataShort DEF DataInv
<1>3. (\A j \in acked : acc[j] = j) /\ \A i \in 1 .. l : (acc[i] <= 0 \/ acc[i] = i)
  BY DEF DataInv
<1> HIDE DEF l, m
<1>4. /\ acked \subseteq 1 .. m /\ \A j \in acked : acc'[j] = j
      /\ \A i \in 1 .. m : (acc'[i] <= 0 \/ acc'[i] = i)
  BY <1>1, <1>2, <1>3
<1> QED  BY <1>4 DEF m

LEMMA BufferedOK ==
  ASSUME TypeInv, InputInv, DataInv, faults = 0, c.rest = <<>>,
         c.pc \notin {"comp", "close", "closing", "closed"},
         NEW n \in Nat, Len(g.in) + n <= g.size, Buffered(n), file' = file, out' = out, d' = d
  PROVE  /\ g' = [g EXCEPT !.in = g'.in, !.pos = g'.pos]
         /\ g'.in \in Seq(Int) /\ Len(g'.in) <= g.size /\ g'.pos \in Int /\ g'.pos = Len(acc')
         /\ Longer(n) /\ nin' = Own /\ Sent' = Sent /\ Data' \in Seq(Int) /\ Data' = acc'
<1>1. g' = [g EXCEPT !.in = g.in \o Fresh_(n), !.pos = g.pos + n] /\ acc' = acc \o Fresh_(n)
      /\ nin' = IF g.in = <<>> THEN Own ELSE nin
  BY DEF Buffered
<1>2. g \in States /\ g.in \in Seq(Int) /\ g.pos = Len(acc) /\ Len(acc) \in Nat /\ acc \in Seq(Int)
  BY EmptyInt DEF TypeInv, States
<1>3. g'.in = g.in \o Fresh_(n) /\ g'.pos = g.pos + n
  BY <1>1, <1>2 DEF States
<1>4. Fresh_(n) \in Seq(Int) /\ Len(Fresh_(n)) = n
  BY FreshOK
<1>5. Longer(n)
  BY <1>1, <1>2, FreshOK DEF Longer
<1>6. /\ g.in \o Fresh_(n) \in Seq(Int) /\ Len(g.in \o Fresh_(n)) = Len(g.in) + n
      /\ (Decoded(Sent) \o d.held) \o (g.in \o Fresh_(n)) = Data \o Fresh_(n)
  BY <1>4, DataLonger
<1>7. Sent' = Sent
  BY DEF Sent
<1>8. Data' = Data \o Fresh_(n)
  BY <1>3, <1>6, <1>7 DEF Data
<1>9. Data = acc
  BY DataWhole
<1>10. nin' = Own
  BY <1>1 DEF InputInv
<1>11. g'.pos \in Int /\ g'.pos = Len(acc')
  BY <1>2, <1>3, <1>5 DEF Longer
<1>12. g' = [g EXCEPT !.in = g'.in, !.pos = g'.pos]
  BY <1>1, <1>3
<1>13. Data' \in Seq(Int) /\ Data' = acc'
  BY <1>1, <1>5, <1>8, <1>9 DEF Longer
<1> QED  BY <1>3, <1>5, <1>6, <1>7, <1>10, <1>11, <1>12, <1>13

\* The room in a buffer is no more than its size.
LEMMA RoomOK ==
  ASSUME TypeInv, NEW l \in 0 .. g.size
  PROVE  (g.size - l) % UINT = g.size - l /\ g.size \in Nat /\ g.size < UINT
<1>1. UINT \in Nat /\ UINT > 0
  BY GzSizes
<1>2. g.size \in Nat /\ g.size < UINT
  <2>1. g.want \in 2 .. UINT /\ 2 * g.want < UINT /\ g.size \in {0, g.want}
    BY DEF TypeInv, States
  <2> QED  BY <1>1, <2>1
<1>3. g.size - l \in 0 .. UINT - 1
  BY <1>1, <1>2
<1>4. \A x \in 0 .. UINT - 1 : x % UINT = x
  BY <1>1
<1> QED  BY <1>2, <1>3, <1>4
=============================================================================
