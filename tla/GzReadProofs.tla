---------------------------- MODULE GzReadProofs ----------------------------
(***************************************************************************)
(* Proofs about GzRead: for every size of the buffers, every file, however *)
(* it is cut into members and however it grows, and every sequence of      *)
(* calls, what lies in the output buffer is the data of the file at x.pos. *)
(***************************************************************************)
EXTENDS GzRead, GzLibProofs

-----------------------------------------------------------------------------
(* The invariant.                                                          *)

\* The offset of the byte gz_look or inflate takes next, the data before an
\* offset, the position behind the data in the output buffer, the output of
\* the gz_decomp in progress, and what inflate still has.
Here == fd - Len(g.in)
Before(o) == DataBefore(disk.cells, Start, o)
End == g.pos + Len(g.data)
Made == IF c.pc = "decomp" THEN c.made ELSE <<>>
Held == IF g.how = "GZIP" THEN z ELSE <<>>

Ops == {"none", "gzread", "gzfread", "gzgetc", "gzungetc", "gzgets", "gzdirect"}
Backs == {"skip", "read", "gets"}
CallStates ==
  [pc : Pcs, op : Ops, left : Nat, got : Seq(Int), tell : Int, over : Int, past : BOOLEAN,
   back : Backs \cup {"unget", "none"}, room : Nat, made : Seq(Int), user : BOOLEAN,
   unit : Nat, tried : BOOLEAN]

\* The application makes no more calls than it may; the file is one it may use,
\* and does not shrink.
DiskInv ==
  /\ app \in [use : DOMAIN Uses, calls : Nat] /\ app.calls <= MaxCalls
  /\ FileOK(disk, Start) /\ disk = [cells |-> disk.cells, grows |-> disk.grows, at |-> disk.at]
  /\ disk.at \in 1 .. Len(disk.grows)
  /\ fd \in Nat /\ seen \in Nat

\* The types of the reader; its input buffer and its output buffer suffice.
StateInv ==
  /\ g \in States /\ g.mode = "READ" /\ (g.size = 0 \/ g.size >= 2)
  /\ g.size = 0 => g.how = "LOOK"
  /\ Len(g.in) <= g.size
  /\ DataInBuffer
  /\ z \in Seq(Int)

\* Where a call is: gz_look, gz_decomp and gz_fetch start with an empty output
\* buffer, return to a loop, and what gz_decomp has made fits where it goes.
CallInv ==
  /\ c \in CallStates
  /\ c.op = "gzdirect" => c.pc = "look"
  /\ c.pc = "wild" => g.size = 0
  /\ c.pc = "look" => g.how = "LOOK"
  /\ c.pc \in {"fetch", "look", "decomp"} => g.data = <<>>
  /\ \/ c.pc = "fetch"
     \/ c.pc = "look" /\ c.op # "gzdirect"
     \/ c.pc = "decomp" /\ ~c.user
     => c.back \in Backs
  /\ c.pc = "decomp" =>
       Len(c.made) + c.room = IF c.user THEN c.left ELSE 2 * g.size

\* The data from position p on.
Run(p, s) == \A i \in DOMAIN s : s[i] = p + i - 1

\* gz_look at offset o finds a header that is there as a whole, or will never
\* find any data.
Resumes(f, o) ==
  \/ NoData(f, o)
  \/ /\ o < Final(f) /\ HeaderAt(f, o)
     /\ o + 1 < Final(f) => \A i \in DOMAIN f.grows : f.grows[i] # o + 1

\* The input buffer holds the file from Here to the descriptor.  Bytes left in it
\* at the end of the file reach to an end the file has, or had.
InputInv ==
  /\ g.in = Offsets(Here, Len(g.in))
  /\ g.in # <<>> => fd <= Visible /\ Here >= Start
  /\ g.in # <<>> /\ g.eof => \E i \in DOMAIN disk.grows : disk.grows[i] = fd

\* Between gzip members and in them: what has been delivered, made and kept back
\* is the data before Here, in order.
MemberInv ==
  /\ Here >= Start /\ (Here <= Visible \/ Here = Start)
  /\ Run(End, Made) /\ Run(End + Len(Made), Held)
  /\ End + Len(Made) + Len(Held) = Before(Here)
  /\ g.how = "LOOK" => Resumes(disk, Here)

\* Each byte is the data of its position or was pushed back there; data stays
\* below a length.
InPlace(s, p) == \A i \in DOMAIN s : s[i] \in {p + i - 1, Pushed(p + i - 1)}
Below(s, n) == \A i \in DOMAIN s : s[i] >= 0 => s[i] < n

\* What is in the buffers lies where it belongs, in each way gz_fetch reads.
PlaceInv ==
  /\ InputInv
  /\ InPlace(g.data, g.pos)
  /\ g.how # "LOOK" => (g.direct <=> g.how = "COPY")
  /\ c.pc = "decomp" => g.how = "GZIP"
  /\ g.how = "COPY" => g.in = <<>> /\ End = fd - Start
  /\ g.how = "LOOK" /\ g.direct => End = 0 /\ Here = Start
  /\ g.how # "COPY" /\ ~g.direct => MemberInv

\* A call of which the data goes to the application, or a state without error.
Running == c.pc \notin {"idle", "closed", "wild"} /\ c.op # "gzdirect"
Sound == ~Fatal(g.err) \/ Running

\* A fatal error empties the output buffer and ends the call, unless it is that
\* there was no memory for the message of one that is not fatal, at the end of
\* a file that is cut off; gz_look has not left bytes of raw data it has not taken.
FatalData ==
  Fatal(g.err) /\ (Running \/ g.data # <<>>) =>
    g.err = "MEM_ERROR" /\ g.eof /\ g.in = <<>> /\ g.how = "GZIP"
FatalInv ==
  /\ FatalData
  /\ g.how = "LOOK" /\ g.direct => g.in = <<>>

\* The inductive invariant.
PlacedInv == DiskInv /\ StateInv /\ CallInv /\ FatalInv /\ (Sound => PlaceInv)
-----------------------------------------------------------------------------
(* The files, and what inflate makes of them.                              *)

\* What holds of every file.
LEMMA FileFacts ==
  ASSUME FileOK(disk, Start), Start \in Nat
  PROVE  /\ Final(disk) \in Nat /\ Final(disk) <= Len(disk.cells) /\ Len(disk.cells) \in Nat
         /\ Len(disk.grows) \in Nat /\ DOMAIN disk.grows = 1 .. Len(disk.grows)
         /\ \A o \in Start .. Final(disk) - 1 :
              /\ o \in Nat /\ Cell(o) \in CellTypes /\ Cell(o).out \in Seq(Int)
              /\ Cell(o).out = Offsets(Before(o), Len(Cell(o).out))
<1>1. /\ disk.cells \in Seq(CellTypes) /\ disk.grows \in Seq(Nat) /\ disk.grows # <<>>
      /\ Final(disk) <= Len(disk.cells)
  BY DEF FileOK
<1>2. /\ Len(disk.cells) \in Nat /\ Len(disk.grows) \in Nat \ {0}
      /\ DOMAIN disk.grows = 1 .. Len(disk.grows)
  BY <1>1, LenProperties, EmptySeq
<1>3. Final(disk) \in Nat
  <2>1. Len(disk.grows) \in 1 .. Len(disk.grows)
    BY <1>2
  <2> QED  BY <1>1, <2>1, ElementOfSeq DEF Final
<1>4. ASSUME NEW o \in Start .. Final(disk) - 1
      PROVE  /\ o \in Nat /\ Cell(o) \in CellTypes /\ Cell(o).out \in Seq(Int)
             /\ Cell(o).out = Offsets(Before(o), Len(Cell(o).out))
  <2>1. o \in Nat /\ o + 1 \in 1 .. Len(disk.cells)
    BY <1>1, <1>2, <1>3
  <2>2. Cell(o) \in CellTypes
    BY <1>1, <2>1, ElementOfSeq DEF Cell
  <2>3. Cell(o).out \in Seq(Int)
    BY <2>2 DEF CellTypes
  <2>4. Cell(o).out = Offsets(Before(o), Len(Cell(o).out))
    BY Zenon DEF FileOK, Cell, Before
  <2> QED  BY <2>1, <2>2, <2>3, <2>4
<1> QED  BY <1>1, <1>2, <1>3, <1>4

\* The data that some bytes complete.
Pieces(o, m) == [i \in 1 .. m |-> disk.cells[o + i].out]

\* The pieces of data the bytes of the file complete.
LEMMA PiecesType ==
  ASSUME FileOK(disk, Start), Start \in Nat, NEW o \in Nat, o >= Start, NEW m \in Nat,
         o + m <= Final(disk)
  PROVE  Pieces(o, m) \in [1 .. m -> Seq(Int)]
<1>1. \A i \in 1 .. m : disk.cells[o + i].out \in Seq(Int)
  <2> TAKE i \in 1 .. m
  <2>1. o + i - 1 \in Start .. Final(disk) - 1 /\ (o + i - 1) + 1 = o + i
    BY FileFacts
  <2>2. Cell(o + i - 1).out \in Seq(Int)
    BY <2>1, FileFacts
  <2> QED  BY <2>1, <2>2 DEF Cell
<1> QED  BY <1>1 DEF Pieces

\* A byte adds the data it completes.
LEMMA PiecesNext ==
  ASSUME FileOK(disk, Start), Start \in Nat, NEW o \in Nat, o >= Start, NEW m \in Nat,
         o + m < Final(disk)
  PROVE  /\ FlattenSeq(Pieces(o, m)) \in Seq(Int)
         /\ FlattenSeq(Pieces(o, m + 1)) = FlattenSeq(Pieces(o, m)) \o Cell(o + m).out
<1>0. Final(disk) \in Nat
  BY FileFacts
<1>1. Pieces(o, m) \in [1 .. m -> Seq(Int)] /\ Pieces(o, m + 1) \in [1 .. m + 1 -> Seq(Int)]
  <2>1. o + m <= Final(disk) /\ o + (m + 1) <= Final(disk) /\ m + 1 \in Nat
    BY <1>0
  <2> QED  BY <2>1, PiecesType
<1>2. Agree(Pieces(o, m + 1), Pieces(o, m), m) /\ Pieces(o, m + 1)[m + 1] = Cell(o + m).out
  <2>1. o + (m + 1) = (o + m) + 1
    OBVIOUS
  <2>2. Pieces(o, m + 1)[m + 1] = disk.cells[o + (m + 1)].out
    BY DEF Pieces
  <2> QED  BY <2>1, <2>2 DEF Pieces, Agree, Cell
<1> QED  BY <1>1, <1>2, FlattenNext

\* No data lies before the file, and each byte adds what it completes,
LEMMA BeforeStart ==
  ASSUME Start \in Nat
  PROVE  Before(Start) = 0
<1>1. Pieces(Start, 0) = <<>> /\ FlattenSeq(<<>>) = <<>>
  BY DEF Pieces, FlattenSeq
<1>2. Before(Start) = Len(FlattenSeq(Pieces(Start, 0)))
  <2>1. Start - Start = 0
    OBVIOUS
  <2>2. Before(Start) = Len(FlattenSeq(Pieces(Start, Start - Start)))
    BY DEF Before, DataBefore, Pieces
  <2> QED  BY <2>1, <2>2
<1> QED  BY <1>1, <1>2

\* as gz_decomp's output grows with each byte inflate takes.
LEMMA BeforeNext ==
  ASSUME FileOK(disk, Start), Start \in Nat, NEW o \in Start .. Final(disk) - 1
  PROVE  /\ Before(o) \in Nat /\ Before(o + 1) = Before(o) + Len(Cell(o).out)
         /\ Before(o + 1) \in Nat
<1>0. Final(disk) \in Nat
  BY FileFacts
<1> DEFINE m == o - Start
<1>1. m \in Nat /\ Start + m < Final(disk) /\ Start + m = o /\ (o + 1) - Start = m + 1
  BY <1>0
<1>2. Before(o) = Len(FlattenSeq(Pieces(Start, m)))
      /\ Before(o + 1) = Len(FlattenSeq(Pieces(Start, (o + 1) - Start)))
  BY DEF Before, DataBefore, Pieces
<1> HIDE DEF m
<1>3. /\ FlattenSeq(Pieces(Start, m)) \in Seq(Int)
      /\ FlattenSeq(Pieces(Start, m + 1)) = FlattenSeq(Pieces(Start, m)) \o Cell(o).out
  <2>1. Start >= Start
    OBVIOUS
  <2>2. /\ FlattenSeq(Pieces(Start, m)) \in Seq(Int)
        /\ FlattenSeq(Pieces(Start, m + 1)) = FlattenSeq(Pieces(Start, m)) \o Cell(Start + m).out
    BY <1>1, <2>1, PiecesNext, Zenon
  <2> QED  BY <1>1, <2>2, Zenon
<1>4. Cell(o).out \in Seq(Int)
  BY FileFacts
<1> DEFINE s == FlattenSeq(Pieces(Start, m))
<1>5. s \in Seq(Int) /\ Before(o) = Len(s) /\ Before(o + 1) = Len(s \o Cell(o).out)
  BY <1>1, <1>2, <1>3
<1> HIDE DEF s
<1>6. Len(s \o Cell(o).out) = Len(s) + Len(Cell(o).out)
  BY <1>4, <1>5, ConcatProperties
<1>7. Len(s) \in Nat /\ Len(Cell(o).out) \in Nat
  BY <1>4, <1>5, LenProperties
<1> QED  BY <1>5, <1>6, <1>7

\* The data before an offset has a length.
LEMMA BeforeType ==
  ASSUME FileOK(disk, Start), Start \in Nat, NEW o \in Start .. Final(disk)
  PROVE  Before(o) \in Nat
<1>0. Final(disk) \in Nat
  BY FileFacts
<1>1. CASE o = Start
  BY <1>1, BeforeStart
<1>2. CASE o # Start
  <2>1. o - 1 \in Start .. Final(disk) - 1 /\ (o - 1) + 1 = o
    BY <1>0, <1>2
  <2> QED  BY <2>1, BeforeNext
<1> QED  BY <1>1, <1>2

\* Runs of positions, put together and cut.
LEMMA RunConcat ==
  ASSUME NEW s \in Seq(Int), NEW t \in Seq(Int), NEW p \in Int, Run(p, s), Run(p + Len(s), t)
  PROVE  Run(p, s \o t) /\ s \o t \in Seq(Int) /\ Len(s \o t) = Len(s) + Len(t)
<1>1. /\ s \o t \in Seq(Int) /\ Len(s \o t) = Len(s) + Len(t) /\ Len(s) \in Nat /\ Len(t) \in Nat
      /\ \A i \in 1 .. Len(s) + Len(t) : (s \o t)[i] = IF i <= Len(s) THEN s[i] ELSE t[i - Len(s)]
      /\ DOMAIN s = 1 .. Len(s) /\ DOMAIN t = 1 .. Len(t)
      /\ DOMAIN (s \o t) = 1 .. Len(s) + Len(t)
  BY ConcatProperties, LenProperties
<1>2. ASSUME NEW i \in 1 .. Len(s) + Len(t)
      PROVE  (s \o t)[i] = p + i - 1
  <2>1. CASE i <= Len(s)
    <3>1. i \in 1 .. Len(s)
      BY <1>1, <2>1
    <3> QED  BY <1>1, <2>1, <3>1 DEF Run
  <2>2. CASE ~(i <= Len(s))
    <3>1. i - Len(s) \in 1 .. Len(t)
      BY <1>1, <2>2
    <3>2. t[i - Len(s)] = (p + Len(s)) + (i - Len(s)) - 1
      BY <1>1, <3>1 DEF Run
    <3>3. (s \o t)[i] = t[i - Len(s)]
      BY <1>1, <2>2
    <3> QED  BY <1>1, <3>2, <3>3
  <2> QED  BY <2>1, <2>2
<1> QED  BY <1>1, <1>2 DEF Run

\* A run cut in two is two runs,
LEMMA RunCut ==
  ASSUME NEW s \in Seq(Int), NEW p \in Int, Run(p, s), NEW k \in 0 .. Len(s)
  PROVE  Run(p, SubSeq(s, 1, k)) /\ Run(p + k, SubSeq(s, k + 1, Len(s)))
<1>0. Len(s) \in Nat /\ DOMAIN s = 1 .. Len(s)
  BY LenProperties
<1>1. SubSeq(s, 1, k) = [i \in 1 .. k |-> s[i]]
  BY <1>0
<1>2. SubSeq(s, k + 1, Len(s)) = [i \in 1 .. Len(s) - k |-> s[i + k]]
  BY <1>0
<1>3. \A i \in 1 .. k : s[i] = p + i - 1
  <2> TAKE i \in 1 .. k
  <2>1. i \in 1 .. Len(s)
    BY <1>0
  <2> QED  BY <1>0, <2>1 DEF Run
<1>4. \A i \in 1 .. Len(s) - k : s[i + k] = (p + k) + i - 1
  <2> TAKE i \in 1 .. Len(s) - k
  <2>1. i + k \in 1 .. Len(s)
    BY <1>0
  <2>2. s[i + k] = p + (i + k) - 1
    BY <1>0, <2>1 DEF Run
  <2> QED  BY <1>0, <2>2
<1> QED  BY <1>1, <1>2, <1>3, <1>4 DEF Run

\* what read() brings of raw data is a run,
LEMMA RunOffsets ==
  ASSUME NEW p \in Int, NEW n \in Nat
  PROVE  /\ Offsets(p, n) \in Seq(Int) /\ Len(Offsets(p, n)) = n
         /\ Run(p, Offsets(p, n)) /\ (Offsets(p, n) = <<>> <=> n = 0)
<1>1. Offsets(p, n) \in [1 .. n -> Int]
  BY DEF Offsets
<1>2. Offsets(p, n) \in Seq(Int) /\ Len(Offsets(p, n)) = n /\ DOMAIN Offsets(p, n) = 1 .. n
  BY <1>1
<1>3. Run(p, Offsets(p, n))
  BY <1>2 DEF Run, Offsets
<1> QED  BY <1>2, <1>3, EmptyInt

\* and so is no data at all.
LEMMA EmptyRun == \A p : Run(p, <<>>)
BY DEF Run

\* What the bytes from offset o on complete is the data from there on.
LEMMA PiecesRun ==
  ASSUME FileOK(disk, Start), Start \in Nat, NEW o \in Nat, o >= Start, NEW n \in Nat,
         o + n <= Final(disk)
  PROVE  \A m \in 0 .. n :
           /\ FlattenSeq(Pieces(o, m)) \in Seq(Int)
           /\ Before(o) \in Nat /\ Before(o + m) = Before(o) + Len(FlattenSeq(Pieces(o, m)))
           /\ Run(Before(o), FlattenSeq(Pieces(o, m)))
<1> DEFINE F(m) == FlattenSeq(Pieces(o, m))
           S == {m \in 0 .. n : /\ F(m) \in Seq(Int) /\ Before(o + m) = Before(o) + Len(F(m))
                                /\ Run(Before(o), F(m))}
<1>0. Final(disk) \in Nat /\ o \in Start .. Final(disk)
  BY FileFacts
<1>1. Before(o) \in Nat
  BY <1>0, BeforeType
<1>2. 0 \in S
  <2>1. Pieces(o, 0) = <<>> /\ FlattenSeq(<<>>) = <<>>
    BY DEF Pieces, FlattenSeq
  <2>2. F(0) = <<>> /\ o + 0 = o
    BY <2>1
  <2>3. <<>> \in Seq(Int) /\ Run(Before(o), <<>>) /\ Len(<<>>) = 0 /\ 0 \in 0 .. n
    BY EmptyInt, EmptyRun
  <2>4. Before(o + 0) = Before(o) + 0
    BY <1>1, <2>2
  <2>5. /\ F(0) \in Seq(Int) /\ Before(o + 0) = Before(o) + Len(F(0))
        /\ Run(Before(o), F(0))
    BY <2>2, <2>3, <2>4, Zenon
  <2> HIDE DEF F
  <2> QED  BY <2>3, <2>5
<1>3. ASSUME NEW m \in 0 .. n - 1, m \in S
      PROVE  m + 1 \in S
  <2>1. F(m) \in Seq(Int) /\ Before(o + m) = Before(o) + Len(F(m)) /\ Run(Before(o), F(m))
    BY <1>3
  <2>2. F(m + 1) = F(m) \o Cell(o + m).out
    <3>1. m \in Nat /\ o + m < Final(disk)
      BY <1>0
    <3> QED  BY <3>1, PiecesNext
  <2>3. o + m \in Start .. Final(disk) - 1 /\ o + (m + 1) = (o + m) + 1 /\ m + 1 \in 0 .. n
    BY <1>0
  <2>4. Cell(o + m).out \in Seq(Int)
        /\ Cell(o + m).out = Offsets(Before(o + m), Len(Cell(o + m).out))
    BY <2>3, FileFacts
  <2>5. Before(o + (m + 1)) = Before(o + m) + Len(Cell(o + m).out) /\ Before(o + m) \in Nat
    BY <2>3, BeforeNext
  <2> DEFINE x == Cell(o + m).out
             s == F(m)
  <2>6. Run(Before(o + m), x) /\ Len(x) \in Nat
    <3>1. Len(x) \in Nat
      BY <2>4, LenProperties
    <3>2. \A p \in Int, k \in Nat : Run(p, Offsets(p, k))
      BY RunOffsets
    <3>3. Before(o + m) \in Int
      BY <2>5
    <3> QED  BY <2>4, <3>1, <3>2, <3>3, Zenon
  <2> HIDE DEF F
  <2>7. /\ F(m + 1) \in Seq(Int) /\ Run(Before(o), F(m + 1))
        /\ Len(F(m + 1)) = Len(F(m)) + Len(Cell(o + m).out)
    <3>1. s \in Seq(Int) /\ x \in Seq(Int) /\ Before(o) \in Int /\ Run(Before(o), s)
          /\ Run(Before(o) + Len(s), x)
      BY <1>1, <2>1, <2>4, <2>6
    <3>2. /\ Run(Before(o), s \o x) /\ s \o x \in Seq(Int) /\ Len(s \o x) = Len(s) + Len(x)
      BY <3>1, RunConcat, Zenon
    <3> QED  BY <2>2, <3>2
  <2>8. Len(F(m)) \in Nat
    BY <2>1, LenProperties
  <2>9. Before(o + (m + 1)) = Before(o) + Len(F(m + 1))
    <3>1. Before(o + (m + 1)) = Before(o) + Len(s) + Len(x)
      BY <2>1, <2>3, <2>5
    <3> HIDE DEF x, s
    <3>2. Len(F(m + 1)) = Len(s) + Len(x)
      BY <2>7 DEF s, x
    <3> QED  BY <1>1, <2>6, <2>8, <3>1, <3>2 DEF s
  <2> QED  BY <2>3, <2>7, <2>9
<1>4. \A m \in 0 .. n : m \in S
  <2> HIDE DEF S
  <2> QED  BY <1>2, <1>3, UpTo
<1> QED  BY <1>1, <1>4

\* Bytes that complete no data leave the position.
LEMMA NoDataBefore ==
  ASSUME FileOK(disk, Start), Start \in Nat, NEW o \in Nat, o >= Start, NoData(disk, o),
         NEW n \in Nat, o + n <= Final(disk)
  PROVE  Before(o + n) = Before(o)
<1> DEFINE S == {m \in 0 .. n : Before(o + m) = Before(o)}
<1>0. Final(disk) \in Nat
  BY FileFacts
<1>1. 0 \in S
  <2>1. o + 0 = o /\ 0 \in 0 .. n
    OBVIOUS
  <2> QED  BY <2>1
<1>2. ASSUME NEW m \in 0 .. n - 1, m \in S
      PROVE  m + 1 \in S
  <2>1. o + m \in Start .. Final(disk) - 1 /\ o + m \in o .. Final(disk) - 1
        /\ o + (m + 1) = (o + m) + 1 /\ m + 1 \in 0 .. n
    BY <1>0
  <2>2. Cell(o + m).out = <<>>
    BY <2>1 DEF NoData, Cell
  <2>3. Before((o + m) + 1) = Before(o + m) + Len(Cell(o + m).out) /\ Before(o + m) \in Nat
    BY <2>1, BeforeNext
  <2>4. Before(o + (m + 1)) = Before(o + m)
    BY <2>1, <2>2, <2>3
  <2> QED  BY <1>2, <2>1, <2>4
<1>3. \A m \in 0 .. n : m \in S
  <2> HIDE DEF S
  <2> QED  BY <1>1, <1>2, UpTo
<1> QED  BY <1>3

\* inflate's output, in its place behind what it has not had room for yet.
LEMMA OutRun ==
  ASSUME FileOK(disk, Start), Start \in Nat, NEW o \in Nat, o >= Start, NEW n \in Nat,
         o + n <= Final(disk), z \in Seq(Int), NEW p \in Int, Run(p, z), p + Len(z) = Before(o),
         NEW m \in 0 .. n
  PROVE  /\ Out(Offsets(o, n), m) \in Seq(Int) /\ Run(p, Out(Offsets(o, n), m))
         /\ p + Len(Out(Offsets(o, n), m)) = Before(o + m)
<1> DEFINE x == FlattenSeq(Pieces(o, m))
           out == Out(Offsets(o, n), m)
<1>1. out = z \o x
  <2>1. ASSUME NEW i \in 1 .. m
        PROVE  Cell(Offsets(o, n)[i]).out = disk.cells[o + i].out
    <3>1. i \in 1 .. n /\ Offsets(o, n)[i] = o + i - 1 /\ (o + i - 1) + 1 = o + i
      BY DEF Offsets
    <3> QED  BY <3>1 DEF Cell
  <2>2. [i \in 1 .. m |-> Cell(Offsets(o, n)[i]).out] = Pieces(o, m)
    BY <2>1 DEF Pieces
  <2> QED  BY <2>2 DEF Out
<1>2. /\ x \in Seq(Int) /\ Before(o) \in Nat /\ Before(o + m) = Before(o) + Len(x)
      /\ Run(Before(o), x)
  BY PiecesRun
<1> HIDE DEF x, out
<1>3. Run(p + Len(z), x)
  BY <1>2
<1>4. Run(p, out) /\ out \in Seq(Int) /\ Len(out) = Len(z) + Len(x)
  BY <1>1, <1>2, <1>3, RunConcat, Zenon
<1>5. Len(z) \in Nat /\ Len(x) \in Nat
  BY <1>2, LenProperties
<1>6. p + Len(out) = Before(o + m)
  BY <1>2, <1>4, <1>5
<1> QED  BY <1>4, <1>6 DEF out

\* inflate takes some of its input.
LEMMA ConsumedOK ==
  ASSUME FileOK(disk, Start), Start \in Nat, NEW o \in Nat, o >= Start, NEW n \in Nat,
         o + n <= Final(disk), z \in Seq(Int), NEW p \in Int, Run(p, z), p + Len(z) = Before(o),
         NEW room \in Nat
  PROVE  Consumed(Offsets(o, n), room) \in 0 .. n
<1> DEFINE in == Offsets(o, n)
           Ends(j) == j > 0 /\ (Cell(in[j]).last \/ Cell(in[j]).bad)
           Over(j) == Len(Out(in, j)) > room
           Stop(j) == j = n \/ Over(j) \/ Ends(j)
           Goes(j) == Len(Out(in, j)) <= room /\ (j > 0 => ~Cell(in[j]).last /\ ~Cell(in[j]).bad)
           S == {m \in 0 .. n : \A j \in 0 .. m - 1 : Goes(j)}
<1>1. Len(in) = n
  BY RunOffsets
<1>2. \A j \in 0 .. n : Len(Out(in, j)) \in Nat
  <2> TAKE j \in 0 .. n
  <2>1. Out(in, j) \in Seq(Int)
    BY OutRun
  <2> QED  BY <2>1, LenProperties
<1> HIDE DEF in
<1>3. \A j \in 0 .. n : Goes(j) \/ Over(j) \/ Ends(j)
  BY <1>2
<1> HIDE DEF Goes, Over, Ends
<1>4. \E m \in S : Stop(m)
  <2> SUFFICES ASSUME \A m \in S : ~Stop(m) PROVE FALSE
    OBVIOUS
  <2>1. 0 \in S
    OBVIOUS
  <2>2. ASSUME NEW m \in 0 .. n - 1, m \in S
        PROVE  m + 1 \in S
    <3>1. m \in 0 .. n /\ ~Over(m) /\ ~Ends(m)
      BY <2>2
    <3>2. Goes(m)
      BY <1>3, <3>1
    <3>3. \A j \in 0 .. m : Goes(j)
      <4> TAKE j \in 0 .. m
      <4>1. j = m \/ j \in 0 .. m - 1
        OBVIOUS
      <4> QED  BY <2>2, <3>2, <4>1
    <3>4. m + 1 \in 0 .. n /\ (m + 1) - 1 = m
      OBVIOUS
    <3> QED  BY <3>3, <3>4
  <2>3. \A m \in 0 .. n : m \in S
    <3> HIDE DEF S, Stop
    <3> QED  BY <2>1, <2>2, UpTo
  <2>4. n \in S
    <3> HIDE DEF S
    <3>1. n \in 0 .. n
      OBVIOUS
    <3> QED  BY <2>3, <3>1, Zenon
  <2>5. ~Stop(n)
    BY <2>4, Zenon
  <2> QED  BY <2>5
<1>5. PICK m \in 0 .. n : (\A j \in 0 .. m - 1 : Goes(j)) /\ Stop(m)
  BY <1>4
<1>6. \E k \in 0 .. Len(in) :
        /\ \A j \in 0 .. k - 1 :
             /\ Len(Out(in, j)) <= room
             /\ j > 0 => ~Cell(in[j]).last /\ ~Cell(in[j]).bad
        /\ \/ k = Len(in)
           \/ Len(Out(in, k)) > room
           \/ k > 0 /\ (Cell(in[k]).last \/ Cell(in[k]).bad)
  BY <1>1, <1>5, Zenon DEF Goes, Over, Ends
<1>7. Consumed(in, room) \in 0 .. Len(in)
  BY <1>6, Zenon DEF Consumed
<1> QED  BY <1>1, <1>7 DEF in

\* What a call of inflate takes and gives.
Inflated(o, n, room, p, r, m) ==
  /\ r.in = Offsets(o + m, n - m)
  /\ r.out \in Seq(Int) /\ Len(r.out) <= room /\ r.z \in Seq(Int)
  /\ Run(p, r.out) /\ Run(p + Len(r.out), r.z)
  /\ p + Len(r.out) + Len(r.z) = Before(o + m)
  /\ r.ret \in {"OK", "DATA_ERROR", "STREAM_END"}
  /\ r.ret = "STREAM_END" => r.z = <<>> /\ m > 0 /\ Cell(o + m - 1).last

\* inflate, given bytes of the file, returns the data that follows what it has given.
LEMMA InflateOK ==
  ASSUME FileOK(disk, Start), Start \in Nat, NEW o \in Nat, o >= Start, NEW n \in Nat,
         o + n <= Final(disk), z \in Seq(Int), NEW p \in Int, Run(p, z), p + Len(z) = Before(o),
         NEW room \in Nat
  PROVE  \E m \in 0 .. n : Inflated(o, n, room, p, inflate(Offsets(o, n), room), m)
<1> DEFINE in == Offsets(o, n)
           m == Consumed(in, room)
           out == Out(in, m)
           k == Least(Len(out), room)
           r == inflate(in, room)
<1>1. m \in 0 .. n
  BY ConsumedOK, Zenon
<1>2. out \in Seq(Int) /\ Run(p, out) /\ p + Len(out) = Before(o + m)
  <2> HIDE DEF m
  <2> QED  BY <1>1, OutRun, Zenon
<1>3. /\ r.in = SubSeq(in, m + 1, Len(in)) /\ r.out = SubSeq(out, 1, k)
      /\ r.z = SubSeq(out, room + 1, Len(out))
      /\ r.ret = IF m > 0 /\ Cell(in[m]).bad THEN "DATA_ERROR"
                 ELSE IF m > 0 /\ Cell(in[m]).last /\ Len(out) <= room THEN "STREAM_END"
                 ELSE "OK"
  <2> DEFINE q == CASE m > 0 /\ Cell(in[m]).bad -> "DATA_ERROR"
                    [] m > 0 /\ ~Cell(in[m]).bad /\ Cell(in[m]).last /\ Len(out) <= room ->
                         "STREAM_END"
                    [] OTHER -> "OK"
  <2>1. r = [in |-> SubSeq(in, m + 1, Len(in)), out |-> SubSeq(out, 1, k),
             z |-> SubSeq(out, room + 1, Len(out)), ret |-> q]
    BY Zenon DEF inflate
  <2>2. q = IF m > 0 /\ Cell(in[m]).bad THEN "DATA_ERROR"
            ELSE IF m > 0 /\ Cell(in[m]).last /\ Len(out) <= room THEN "STREAM_END" ELSE "OK"
    <3>1. CASE m > 0 /\ Cell(in[m]).bad
      BY <3>1, Zenon
    <3>2. CASE ~(m > 0 /\ Cell(in[m]).bad) /\ m > 0 /\ Cell(in[m]).last /\ Len(out) <= room
      BY <3>2, Zenon
    <3>3. CASE ~(m > 0 /\ Cell(in[m]).bad) /\ ~(m > 0 /\ Cell(in[m]).last /\ Len(out) <= room)
      BY <3>3, Zenon
    <3> QED  BY <3>1, <3>2, <3>3, Zenon
  <2> HIDE DEF q, m, out, k, r
  <2> QED  BY <2>1, <2>2
<1>4. Len(in) = n /\ DOMAIN in = 1 .. n
  <2>0. o \in Int
    OBVIOUS
  <2>1. in \in Seq(Int) /\ Len(in) = n
    BY <2>0, RunOffsets, Zenon
  <2> QED  BY <2>1, LenProperties
<1> HIDE DEF m, out, r
<1>5. Len(out) \in Nat
  BY <1>2, LenProperties
<1>6. r.in = Offsets(o + m, n - m)
  <2>1. SubSeq(in, m + 1, n) = [i \in 1 .. n - m |-> in[i + m]]
    BY <1>1, <1>4
  <2>2. \A i \in 1 .. n - m : in[i + m] = (o + m) + i - 1
    BY <1>1 DEF Offsets
  <2> QED  BY <1>3, <1>4, <2>1, <2>2 DEF Offsets
<1>7. k \in 0 .. Len(out) /\ k <= room /\ (Len(out) <= room => k = Len(out))
      /\ (~(Len(out) <= room) => k = room)
  BY <1>5 DEF Least
<1> HIDE DEF k
<1>8. r.z = SubSeq(out, k + 1, Len(out))
  <2>1. CASE Len(out) <= room
    <3>1. SubSeq(out, room + 1, Len(out)) = <<>> /\ SubSeq(out, Len(out) + 1, Len(out)) = <<>>
      BY <1>2, <1>5, <2>1, SubSeqEmpty
    <3> QED  BY <1>3, <1>7, <2>1, <3>1
  <2>2. CASE ~(Len(out) <= room)
    BY <1>3, <1>7, <2>2
  <2> QED  BY <2>1, <2>2
<1>9. /\ r.out \in Seq(Int) /\ Len(r.out) = k /\ r.z \in Seq(Int) /\ Len(r.z) = Len(out) - k
  <2>1. /\ SubSeq(out, 1, k) \in Seq(Int) /\ Len(SubSeq(out, 1, k)) = k
        /\ SubSeq(out, k + 1, Len(out)) \in Seq(Int)
        /\ Len(SubSeq(out, k + 1, Len(out))) = Len(out) - k
    BY <1>2, <1>7, CutInt, Zenon
  <2> QED  BY <1>3, <1>8, <2>1
<1>10. Run(p, r.out) /\ Run(p + k, r.z)
  BY <1>2, <1>3, <1>7, <1>8, RunCut
<1>11. p + Len(r.out) + Len(r.z) = Before(o + m)
  BY <1>2, <1>5, <1>7, <1>9
<1>12. /\ r.ret \in {"OK", "DATA_ERROR", "STREAM_END"}
       /\ r.ret = "STREAM_END" => r.z = <<>> /\ m > 0 /\ Cell(o + m - 1).last
  <2> SUFFICES ASSUME r.ret = "STREAM_END"
               PROVE  r.z = <<>> /\ m > 0 /\ Cell(o + m - 1).last
    BY <1>3
  <2>1. m > 0 /\ Cell(in[m]).last /\ Len(out) <= room
    BY <1>3
  <2>2. Len(r.z) = 0
    BY <1>5, <1>7, <1>9, <2>1
  <2>3. m \in 1 .. n /\ in[m] = o + m - 1
    BY <1>1, <2>1 DEF Offsets
  <2> QED  BY <1>9, <2>1, <2>2, <2>3, EmptyInt
<1>13. Inflated(o, n, room, p, r, m)
  BY <1>6, <1>7, <1>9, <1>10, <1>11, <1>12 DEF Inflated
<1> QED  BY <1>1, <1>13 DEF r

-----------------------------------------------------------------------------
(* What lies in its place, put together and cut.                           *)

\* Bytes in their places, one sequence behind the other.
LEMMA InPlaceConcat ==
  ASSUME NEW s \in Seq(Int), NEW t \in Seq(Int), NEW p \in Int,
         InPlace(s, p), InPlace(t, p + Len(s))
  PROVE  InPlace(s \o t, p) /\ (\A n : Below(s, n) /\ Below(t, n) => Below(s \o t, n))
         /\ s \o t \in Seq(Int) /\ Len(s \o t) = Len(s) + Len(t)
<1>1. /\ s \o t \in Seq(Int) /\ Len(s \o t) = Len(s) + Len(t) /\ Len(s) \in Nat /\ Len(t) \in Nat
      /\ \A i \in 1 .. Len(s) + Len(t) : (s \o t)[i] = IF i <= Len(s) THEN s[i] ELSE t[i - Len(s)]
      /\ DOMAIN s = 1 .. Len(s) /\ DOMAIN t = 1 .. Len(t)
      /\ DOMAIN (s \o t) = 1 .. Len(s) + Len(t)
  BY ConcatProperties, LenProperties
<1>2. ASSUME NEW i \in 1 .. Len(s) + Len(t)
      PROVE  /\ (s \o t)[i] \in {p + i - 1, Pushed(p + i - 1)}
             /\ \A n : Below(s, n) /\ Below(t, n) => ((s \o t)[i] >= 0 => (s \o t)[i] < n)
  <2>1. CASE i <= Len(s)
    <3>1. i \in 1 .. Len(s)
      BY <1>1, <2>1
    <3> QED  BY <1>1, <2>1, <3>1 DEF InPlace, Below
  <2>2. CASE ~(i <= Len(s))
    <3>1. i - Len(s) \in 1 .. Len(t)
      BY <1>1, <2>2
    <3> DEFINE j == i - Len(s)
    <3>2. t[j] \in {(p + Len(s)) + j - 1, Pushed((p + Len(s)) + j - 1)} 
          /\ \A n : Below(t, n) => (t[j] >= 0 => t[j] < n)
      BY <1>1, <3>1 DEF InPlace, Below
    <3>3. (s \o t)[i] = t[j] /\ (p + Len(s)) + j - 1 = p + i - 1
      BY <1>1, <2>2
    <3> QED  BY <3>2, <3>3
  <2> QED  BY <2>1, <2>2
<1> QED  BY <1>1, <1>2 DEF InPlace, Below

\* The bytes taken from the buffer, and those left.
LEMMA InPlaceCut ==
  ASSUME NEW s \in Seq(Int), NEW p \in Int, InPlace(s, p), NEW k \in 0 .. Len(s)
  PROVE  /\ InPlace(SubSeq(s, 1, k), p) /\ InPlace(SubSeq(s, k + 1, Len(s)), p + k)
         /\ SubSeq(s, 1, k) \in Seq(Int) /\ Len(SubSeq(s, 1, k)) = k
         /\ SubSeq(s, k + 1, Len(s)) \in Seq(Int) /\ Len(SubSeq(s, k + 1, Len(s))) = Len(s) - k
         /\ \A n : Below(s, n) => Below(SubSeq(s, 1, k), n) /\ Below(SubSeq(s, k + 1, Len(s)), n)
<1>0. Len(s) \in Nat /\ DOMAIN s = 1 .. Len(s)
  BY LenProperties
<1> DEFINE a == SubSeq(s, 1, k)
           b == SubSeq(s, k + 1, Len(s))
<1>1. a = [i \in 1 .. k |-> s[i]]
  BY <1>0
<1>2. b = [i \in 1 .. Len(s) - k |-> s[i + k]]
  BY <1>0
<1>3. a \in Seq(Int) /\ Len(a) = k /\ b \in Seq(Int) /\ Len(b) = Len(s) - k
  BY CutInt, Zenon
<1> HIDE DEF a, b
<1>4. InPlace(a, p) /\ \A n : Below(s, n) => Below(a, n)
  <2>1. \A i \in 1 .. k : i \in 1 .. Len(s)
    BY <1>0
  <2> QED  BY <1>0, <1>1, <2>1 DEF InPlace, Below
<1>5. \A i \in 1 .. Len(s) - k : i + k \in 1 .. Len(s)
  BY <1>0
<1>6. InPlace(b, p + k)
  <2> SUFFICES ASSUME NEW i \in 1 .. Len(s) - k
               PROVE  b[i] \in {(p + k) + i - 1, Pushed((p + k) + i - 1)}
    BY <1>2 DEF InPlace
  <2>1. s[i + k] \in {p + (i + k) - 1, Pushed(p + (i + k) - 1)}
    BY <1>0, <1>5 DEF InPlace
  <2>2. p + (i + k) - 1 = (p + k) + i - 1
    OBVIOUS
  <2> QED  BY <1>2, <2>1, <2>2
<1>7. \A n : Below(s, n) => Below(b, n)
  BY <1>0, <1>2, <1>5 DEF Below
<1> QED  BY <1>3, <1>4, <1>6, <1>7 DEF a, b

\* A run of positions lies in its place, below its end.
LEMMA RunInPlace ==
  ASSUME NEW s \in Seq(Int), NEW p \in Int, Run(p, s), NEW n \in Int, p + Len(s) <= n
  PROVE  InPlace(s, p) /\ Below(s, n)
<1>1. Len(s) \in Nat /\ DOMAIN s = 1 .. Len(s)
  BY LenProperties
<1> QED  BY <1>1 DEF Run, InPlace, Below

\* An empty buffer is in its place anywhere.
LEMMA EmptyInPlace == \A p, n : InPlace(<<>>, p) /\ Below(<<>>, n)
BY DEF InPlace, Below

-----------------------------------------------------------------------------
(* Types, and what does not change.                                        *)

\* What the calls of the application may be.
LEMMA UseFacts ==
  ASSUME app \in [use : DOMAIN Uses, calls : Nat]
  PROVE  /\ Start \in Nat /\ MaxCalls \in Nat /\ Modes \subseteq Seq(STRING) /\ Lengths \subseteq Nat
         /\ Buffers \subseteq 0 .. UINT - 1 /\ Seeks \subseteq Int \X {"SET", "CUR", "END"}
         /\ UINT \in Nat /\ GZBUFSIZE \in Nat /\ GZBUFSIZE >= 2 /\ UINT > 2 * GZBUFSIZE
<1>1. UseOK(Uses[app.use])
  BY UsesAssumption
<1> QED  BY <1>1, GzSizes DEF UseOK, Start, MaxCalls, Modes, Lengths, Buffers, Seeks

\* The types of the reader's fields,
LEMMA StateTypes ==
  ASSUME g \in States
  PROVE  /\ g.size \in Nat /\ g.size <= UINT /\ g.want \in 2 .. UINT /\ g.direct \in BOOLEAN
         /\ g.how \in {"LOOK", "COPY", "GZIP"} /\ g.eof \in BOOLEAN /\ g.past \in BOOLEAN
         /\ g.seek \in BOOLEAN /\ g.skip \in Nat /\ g.err \in Errors /\ g.data \in Seq(Int)
         /\ g.next \in Int /\ g.pos \in Int /\ g.in \in Seq(Int)
         /\ Len(g.data) \in Nat /\ Len(g.in) \in Nat
         /\ (Len(g.data) = 0 <=> g.data = <<>>) /\ (Len(g.in) = 0 <=> g.in = <<>>)
<1>1. UINT \in Nat
  BY GzSizes
<1> QED  BY <1>1, EmptyInt DEF States

\* of the locals of the call that runs,
LEMMA CallTypes ==
  ASSUME c \in CallStates
  PROVE  /\ c.pc \in Pcs /\ c.op \in Ops /\ c.left \in Nat /\ c.got \in Seq(Int) /\ c.tell \in Int /\ c.over \in Int
         /\ c.past \in BOOLEAN /\ c.back \in Backs \cup {"unget", "none"} /\ c.room \in Nat
         /\ c.made \in Seq(Int) /\ c.user \in BOOLEAN /\ c.unit \in Nat /\ c.tried \in BOOLEAN
         /\ Len(c.got) \in Nat /\ Len(c.made) \in Nat /\ (Len(c.got) = 0 <=> c.got = <<>>)
BY EmptyInt DEF CallStates

\* and of the file.
LEMMA DiskTypes ==
  ASSUME DiskInv
  PROVE  /\ Start \in Nat /\ FileOK(disk, Start) /\ Visible \in Nat /\ Visible <= Final(disk)
         /\ fd \in Nat /\ seen \in Nat /\ Final(disk) \in Nat /\ disk.at \in DOMAIN disk.grows
         /\ Visible = disk.grows[disk.at] /\ Visible <= Len(disk.cells)
<1>1. Start \in Nat /\ FileOK(disk, Start) /\ disk.at \in 1 .. Len(disk.grows)
  BY UseFacts DEF DiskInv
<1>2. /\ Final(disk) \in Nat /\ Len(disk.grows) \in Nat /\ Final(disk) <= Len(disk.cells)
      /\ DOMAIN disk.grows = 1 .. Len(disk.grows) /\ Len(disk.cells) \in Nat
  BY <1>1, FileFacts
<1>3. disk.grows \in Seq(Nat) /\ \A i, j \in DOMAIN disk.grows : i <= j =>
        disk.grows[i] <= disk.grows[j]
  BY <1>1 DEF FileOK
<1>4. Len(disk.grows) \in 1 .. Len(disk.grows) /\ disk.at <= Len(disk.grows)
  BY <1>1, <1>2
<1>5. Visible \in Nat
  BY <1>1, <1>3, ElementOfSeq DEF Visible
<1>6. Visible <= Final(disk)
  BY <1>1, <1>2, <1>3, <1>4 DEF Visible, Final
<1> QED  BY <1>1, <1>2, <1>5, <1>6 DEF DiskInv, Visible

\* The application goes on using the file as it does.
Calling == app' \in [use : {app.use}, calls : 0 .. MaxCalls]

\* While the file stays what it is, so does what is computed from it.
LEMMA UseSame ==
  ASSUME DiskInv, Calling, disk' = disk
  PROVE  /\ Start' = Start /\ Calls' = Calls /\ Visible' = Visible
         /\ MaxCalls' = MaxCalls /\ app' \in [use : DOMAIN Uses, calls : Nat]
         /\ app'.calls <= MaxCalls /\ \A n : PlainLen(n)' = PlainLen(n) /\ (Magic(n)' <=> Magic(n))
         /\ \A o : Before(o)' = Before(o)
<1>1. app \in [use : DOMAIN Uses, calls : Nat]
  BY DEF DiskInv
<1>2. MaxCalls \in Nat
  BY <1>1, UseFacts
<1>3. app'.use = app.use /\ app' \in [use : DOMAIN Uses, calls : Nat] /\ app'.calls <= MaxCalls
  BY <1>1, <1>2 DEF Calling
<1>4. Start' = Start /\ Calls' = Calls /\ MaxCalls' = MaxCalls
  BY <1>3 DEF Start, Calls, MaxCalls
<1>5. Visible' = Visible
  BY DEF Visible
<1>6. \A n : PlainLen(n)' = PlainLen(n) /\ (Magic(n)' <=> Magic(n))
  BY <1>4 DEF PlainLen, Magic, Cell
<1>7. \A o : Before(o)' = Before(o)
  BY <1>4 DEF Before
<1> QED  BY <1>3, <1>4, <1>5, <1>6, <1>7

\* A call that is made.
LEMMA CallMade ==
  ASSUME DiskInv, app.calls < MaxCalls, app' = [app EXCEPT !.calls = @ + 1]
  PROVE  Calling
<1>1. app \in [use : DOMAIN Uses, calls : Nat] /\ MaxCalls \in Nat
  BY UseFacts DEF DiskInv
<1> QED  BY <1>1 DEF Calling

\* A turn of a function is no call.
LEMMA AppSame ==
  ASSUME DiskInv, app' = app
  PROVE  Calling
<1>1. app \in [use : DOMAIN Uses, calls : Nat] /\ MaxCalls \in Nat /\ app.calls <= MaxCalls
  BY UseFacts DEF DiskInv
<1> QED  BY <1>1 DEF Calling

-----------------------------------------------------------------------------
(* Steps that leave the input and the file as they are.                    *)

\* A function that is through, and a call in progress that does not go on.
LEMMA CallOver ==
  ASSUME c' = NoCall \/ c' = [NoCall EXCEPT !.pc = "closed"]
  PROVE  CallInv' /\ Made' = <<>> /\ ~Running' /\ c'.pc \in {"idle", "closed"}
<1>1. /\ NoCall \in CallStates /\ NoCall.pc = "idle" /\ NoCall.op = "none" /\ NoCall.made = <<>>
      /\ ~NoCall.user
  <2>1. <<>> \in Seq(Int)
    BY EmptyInt
  <2> QED  BY <2>1 DEF NoCall, CallStates, Pcs, Ops
<1>2. /\ c'.pc \in {"idle", "closed"} /\ c'.op = "none" /\ c'.made = <<>> /\ ~c'.user
      /\ c' \in CallStates
  BY <1>1 DEF CallStates, Pcs
<1> QED  BY <1>2 DEF CallInv, Made, Running

\* A function that ends at once leaves no call behind.
LEMMA CallKept ==
  ASSUME CallInv, c' = c, c.pc \in {"idle", "closed"}
  PROVE  CallInv' /\ Made = <<>> /\ Made' = <<>> /\ ~Running /\ ~Running'
<1>1. c \in CallStates /\ c.op # "gzdirect"
  BY DEF CallInv
<1> QED  BY <1>1 DEF CallInv, Made, Running

\* A step that takes data from the output buffer, puts data back, or does not
\* touch it.
Steady ==
  /\ disk' = disk /\ fd' = fd /\ z' = z /\ seen' = seen
  /\ g' \in States /\ g'.in = g.in /\ g'.how = g.how /\ g'.direct = g.direct
  /\ g'.size = g.size /\ g'.mode = g.mode /\ (g'.eof => g.eof)

\* A step that leaves input, inflate and file alone keeps the invariant when what is
\* in the output buffer stays in its place.
LEMMA SteadyPlaced ==
  ASSUME PlacedInv, Calling, Steady, DataInBuffer', CallInv',
         \/ ~Fatal(g'.err)
         \/ g'.data = <<>> /\ ~Running'
         \/ /\ g'.err = g.err /\ g'.eof = g.eof
            /\ Running' \/ g'.data # <<>> => Running \/ g.data # <<>>,
         Made = <<>>, Made' = <<>>, c'.pc = "decomp" => g.how = "GZIP",
         Sound' => Sound /\ InPlace(g'.data, g'.pos) /\ End' = End
  PROVE  PlacedInv'
<1>1. /\ Start' = Start /\ Visible' = Visible /\ MaxCalls' = MaxCalls
      /\ app' \in [use : DOMAIN Uses, calls : Nat] /\ app'.calls <= MaxCalls
      /\ \A o : Before(o)' = Before(o)
  <2>1. DiskInv /\ disk' = disk
    BY DEF PlacedInv, Steady
  <2> QED  BY <2>1, UseSame
<1>2. DiskInv'
  BY <1>1 DEF PlacedInv, DiskInv, Steady
<1>3. StateInv'
  BY DEF PlacedInv, StateInv, Steady
<1>4. FatalInv'
  <2>1. FatalInv
    BY DEF PlacedInv
  <2> QED  BY <2>1 DEF FatalInv, FatalData, Steady
<1>5. ASSUME Sound'
      PROVE  PlaceInv'
  <2>1. PlaceInv /\ InPlace(g'.data, g'.pos) /\ End' = End
    BY <1>5 DEF PlacedInv
  <2>2. Here' = Here /\ disk' = disk /\ fd' = fd
    BY DEF Steady, Here
  <2>3. InputInv'
    BY <1>1, <2>1, <2>2 DEF PlaceInv, InputInv, Steady
  <2>4. Held' = Held
    BY DEF Held, Steady
  <2>5. MemberInv => MemberInv'
    <3>1. Before(Here)' = Before(Here)
      BY <1>1, <2>2 DEF Before
    <3> QED  BY <1>1, <2>1, <2>2, <2>4, <3>1 DEF MemberInv, Steady
  <2> QED  BY <1>1, <2>1, <2>2, <2>3, <2>5 DEF PlaceInv, Steady
<1> QED  BY <1>2, <1>3, <1>4, <1>5 DEF PlacedInv

\* The first n bytes are taken from the output buffer.
LEMMA TakenOK ==
  ASSUME g \in States, DataInBuffer, NEW n \in 0 .. Len(g.data), NEW h, h = Taken(g, n)
  PROVE  /\ h \in States /\ h.in = g.in /\ h.how = g.how /\ h.direct = g.direct
         /\ h.size = g.size /\ h.mode = g.mode /\ h.eof = g.eof /\ h.err = g.err
         /\ h.past = g.past /\ h.seek = g.seek /\ h.skip = g.skip /\ h.pos = g.pos + n
         /\ h.data = SubSeq(g.data, n + 1, Len(g.data)) /\ Len(h.data) = Len(g.data) - n
         /\ h.pos + Len(h.data) = End
         /\ InPlace(g.data, g.pos) => InPlace(h.data, h.pos)
         /\ h.data # <<>> => h.next >= 0 /\ h.next + Len(h.data) <= 2 * h.size
<1>1. /\ g.data \in Seq(Int) /\ Len(g.data) \in Nat /\ g.next \in Int /\ g.pos \in Int
      /\ g.size \in Nat
  BY StateTypes
<1> DEFINE d == SubSeq(g.data, n + 1, Len(g.data))
<1>2. d \in Seq(Int) /\ Len(d) = Len(g.data) - n
  BY <1>1, CutInt, Zenon
<1> HIDE DEF d
<1>3. h = [g EXCEPT !.data = d, !.next = g.next + n, !.pos = g.pos + n]
  BY DEF Taken, d
<1>4. g.next + n \in Int /\ g.pos + n \in Int
  BY <1>1
<1>5. /\ h \in States /\ h.in = g.in /\ h.how = g.how /\ h.direct = g.direct
      /\ h.size = g.size /\ h.mode = g.mode /\ h.eof = g.eof /\ h.err = g.err
      /\ h.past = g.past /\ h.seek = g.seek /\ h.skip = g.skip
      /\ h.pos = g.pos + n /\ h.data = d /\ h.next = g.next + n
  BY <1>2, <1>3, <1>4 DEF States
<1>6. h.data # <<>> => h.next >= 0 /\ h.next + Len(h.data) <= 2 * h.size
  <2> SUFFICES ASSUME h.data # <<>>
               PROVE  h.next >= 0 /\ h.next + Len(h.data) <= 2 * h.size
    OBVIOUS
  <2>1. Len(d) # 0
    BY <1>2, <1>5, EmptyInt
  <2>2. g.data # <<>>
    <3> DEFINE k == Len(g.data)
    <3>1. k \in Nat /\ n \in 0 .. k /\ Len(d) = k - n /\ (g.data = <<>> => k = 0)
      BY <1>1, <1>2, EmptyInt
    <3> HIDE DEF k
    <3> QED  BY <2>1, <3>1
  <2>3. g.next >= 0 /\ g.next + Len(g.data) <= 2 * g.size
    BY <2>2 DEF DataInBuffer
  <2>4. h.next = g.next + n /\ Len(h.data) = Len(g.data) - n /\ h.size = g.size
    BY <1>2, <1>5
  <2>5. \A x, y \in Int, k \in Nat : x >= 0 /\ x + k <= y =>
          \A i \in 0 .. k : x + i >= 0 /\ x + i + (k - i) <= y
    OBVIOUS
  <2>6. g.next + n >= 0 /\ g.next + n + (Len(g.data) - n) <= 2 * g.size
    <3>1. 2 * g.size \in Int
      BY <1>1
    <3> QED  BY <1>1, <2>3, <2>5, <3>1
  <2> QED  BY <2>4, <2>6
<1>7. InPlace(g.data, g.pos) => InPlace(h.data, h.pos)
  <2> SUFFICES ASSUME InPlace(g.data, g.pos) PROVE InPlace(h.data, h.pos)
    OBVIOUS
  <2>1. InPlace(SubSeq(g.data, n + 1, Len(g.data)), g.pos + n)
    BY <1>1, InPlaceCut
  <2>2. h.data = SubSeq(g.data, n + 1, Len(g.data)) /\ h.pos = g.pos + n
    BY <1>5 DEF d
  <2> QED  BY <2>1, <2>2, Zenon
<1>8. h.pos + Len(h.data) = End
  BY <1>1, <1>2, <1>5 DEF End
<1>9. h.data = SubSeq(g.data, n + 1, Len(g.data))
  BY <1>5 DEF d
<1> QED  BY <1>2, <1>5, <1>6, <1>7, <1>8, <1>9

\* A call that is running, as seen by all the steps of a function.
LEMMA InCall ==
  ASSUME CallInv, c.pc \notin {"idle", "closed", "wild"}, c.pc # "look" \/ c.op # "gzdirect"
  PROVE  Running /\ Sound
BY DEF CallInv, Running, Sound

\* A step that only moves on in the call.
LEMMA CallPlaced ==
  ASSUME PlacedInv, Calling, disk' = disk, fd' = fd, g' = g, z' = z, seen' = seen, CallInv',
         Made = <<>>, Made' = <<>>, c'.pc = "decomp" => g.how = "GZIP", Sound' => Sound,
         Running' => Running \/ ~Fatal(g.err)
  PROVE  PlacedInv'
<1>1. /\ g \in States /\ DataInBuffer
      /\ (Sound => InPlace(g.data, g.pos))
  BY DEF PlacedInv, StateInv, PlaceInv
<1>2. Steady /\ End' = End
  BY <1>1 DEF Steady, End
<1>3. DataInBuffer'
  BY <1>1 DEF DataInBuffer
<1> QED  BY <1>1, <1>2, <1>3, SteadyPlaced

\* gz_skip discards what is in the buffer, or has more fetched.
LEMMA SkipPlaced ==
  ASSUME PlacedInv, Skip
  PROVE  PlacedInv'
<1>0. /\ CallInv /\ c \in CallStates /\ c.pc = "skip" /\ Sound /\ Made = <<>> /\ Calling
      /\ g \in States /\ DataInBuffer /\ InPlace(g.data, g.pos)
      /\ Running
  <2>1. CallInv /\ c.pc = "skip" /\ DiskInv /\ app' = app
    BY DEF PlacedInv, Skip
  <2>2. Sound /\ Running
    BY <2>1, InCall
  <2> QED  BY <2>1, <2>2, AppSame DEF PlacedInv, StateInv, CallInv, FatalInv, PlaceInv, Made
<1>1. CASE g.skip # 0 /\ g.data # <<>>
  <2> DEFINE n == Least(Len(g.data), g.skip)
             h == Taken(g, n)
  <2>1. g' = [h EXCEPT !.skip = @ - n] /\ c' = c
    BY <1>1 DEF Skip
  <2>2. n \in 0 .. Len(g.data) /\ g.skip - n \in Nat /\ n \in Int
    BY <1>0, StateTypes DEF Least
  <2> HIDE DEF n
  <2>3. /\ h \in States /\ h.in = g.in /\ h.how = g.how /\ h.direct = g.direct
        /\ h.size = g.size /\ h.mode = g.mode /\ h.eof = g.eof /\ h.err = g.err
        /\ h.skip = g.skip /\ h.pos + Len(h.data) = End
        /\ h.data = SubSeq(g.data, n + 1, Len(g.data)) /\ InPlace(h.data, h.pos)
        /\ h.data # <<>> => h.next >= 0 /\ h.next + Len(h.data) <= 2 * h.size
    BY <1>0, <2>2, TakenOK
  <2> HIDE DEF h
  <2>4. /\ g' \in States /\ g'.in = g.in /\ g'.how = g.how /\ g'.direct = g.direct
        /\ g'.size = g.size /\ g'.mode = g.mode /\ g'.eof = g.eof /\ g'.err = g.err
        /\ g'.pos = h.pos /\ g'.data = h.data /\ g'.next = h.next
    BY <2>1, <2>2, <2>3 DEF States
  <2>5. Steady
    BY <2>4 DEF Steady, Skip
  <2>6. DataInBuffer'
    BY <2>3, <2>4 DEF DataInBuffer
  <2>7. CallInv' /\ Made' = <<>> /\ c'.pc # "decomp"
    BY <1>0, <2>1 DEF CallInv, Made
  <2>8. InPlace(g'.data, g'.pos) /\ End' = End
    BY <2>3, <2>4 DEF End
  <2>9. g'.err = g.err /\ g'.eof = g.eof /\ Running
    BY <1>0, <2>4
  <2> QED  BY <1>0, <2>5, <2>6, <2>7, <2>8, <2>9, SteadyPlaced
<1>2. CASE g.skip # 0 /\ g.data = <<>> /\ ~AtEnd
  <2>1. c' = [c EXCEPT !.pc = "fetch", !.back = "skip"] /\ g' = g
    BY <1>2 DEF Skip
  <2>2. c' \in CallStates /\ c'.pc = "fetch" /\ c'.back = "skip" /\ c'.op = c.op
    BY <1>0, <2>1 DEF CallStates, Pcs, Backs
  <2>3. CallInv' /\ Made' = <<>>
    BY <1>0, <1>2, <2>1, <2>2 DEF CallInv, Made, Backs
  <2> QED  BY <1>0, <2>1, <2>2, <2>3, CallPlaced DEF Skip
<1>3. CASE g.skip = 0 \/ (g.data = <<>> /\ AtEnd)
  <2>1. /\ c' = [c EXCEPT !.pc = Main, !.back = Main, !.over = g.skip]
        /\ g' = [g EXCEPT !.skip = 0]
    BY <1>3 DEF Skip
  <2>2. Main \in {"unget", "gets", "read"} /\ g.skip \in Int
    BY <1>0, StateTypes DEF Main
  <2>3. c' \in CallStates /\ c'.pc \in {"unget", "gets", "read"} /\ c'.op = c.op
    BY <1>0, <2>1, <2>2 DEF CallStates, Pcs, Backs
  <2>4. CallInv' /\ Made' = <<>>
    BY <1>0, <2>3 DEF CallInv, Made
  <2>5. /\ Steady /\ g'.err = g.err /\ g'.data = g.data /\ g'.pos = g.pos /\ g'.next = g.next
        /\ g'.eof = g.eof
    BY <1>0, <2>1 DEF Steady, States, Skip
  <2>6. DataInBuffer' /\ End' = End
    BY <1>0, <2>5 DEF DataInBuffer, Steady, End
  <2> QED  BY <1>0, <2>3, <2>4, <2>5, <2>6, SteadyPlaced
<1> QED  BY <1>1, <1>2, <1>3
\* What a turn of gz_read or gzgets that is not the last makes of the call.
LEMMA CallGoes ==
  ASSUME CallInv, c.pc \in {"read", "gets"}, NEW n \in 0 .. c.left, NEW s \in Seq(Int),
         NEW t \in BOOLEAN,
         c' = [c EXCEPT !.left = c.left - n, !.got = c.got \o s, !.tried = t]
  PROVE  CallInv' /\ Made' = <<>> /\ c'.pc = c.pc /\ c'.op = c.op /\ c'.got = c.got \o s
         /\ c'.tell = c.tell /\ c'.past = c.past /\ c'.left = c.left - n
<1>1. c \in CallStates /\ c.op # "gzdirect"
  BY DEF CallInv
<1>2. c.got \in Seq(Int) /\ c.left \in Nat
  BY <1>1, CallTypes
<1>3. c.got \o s \in Seq(Int) /\ c.left - n \in Nat
  BY <1>2, CatIntType
<1>4. c' \in CallStates /\ c'.pc = c.pc /\ c'.op = c.op /\ c'.got = c.got \o s
      /\ c'.tell = c.tell /\ c'.past = c.past /\ c'.left = c.left - n
  <2> DEFINE x == c.got \o s
  <2> HIDE DEF x
  <2>1. c' = [c EXCEPT !.left = c.left - n, !.got = x, !.tried = t] /\ x \in Seq(Int)
    BY <1>3 DEF x
  <2>2. c' \in CallStates /\ c'.pc = c.pc /\ c'.op = c.op /\ c'.got = x
        /\ c'.tell = c.tell /\ c'.past = c.past /\ c'.left = c.left - n
    BY <1>1, <1>3, <2>1 DEF CallStates
  <2> QED  BY <2>2 DEF x
<1> QED  BY <1>1, <1>4 DEF CallInv, Made

\* Bytes of the output buffer go to the application: by gz_read, by gzgets or by
\* gzgetc.
LEMMA TakePlaced ==
  ASSUME PlacedInv, Calling, disk' = disk, fd' = fd, z' = z, seen' = seen, g.data # <<>>,
         NEW n \in 0 .. Len(g.data), g' = Taken(g, n), CallInv', Made = <<>>, Made' = <<>>,
         c'.pc # "decomp", Sound, Running' => Running \/ ~Fatal(g.err)
  PROVE  PlacedInv'
<1>1. g \in States /\ DataInBuffer /\ InPlace(g.data, g.pos)
  BY DEF PlacedInv, StateInv, PlaceInv
<1>2. /\ g' \in States /\ g'.in = g.in /\ g'.how = g.how /\ g'.direct = g.direct
      /\ g'.size = g.size /\ g'.mode = g.mode /\ g'.eof = g.eof /\ g'.err = g.err
      /\ g'.pos + Len(g'.data) = End /\ InPlace(g'.data, g'.pos)
      /\ g'.data # <<>> => g'.next >= 0 /\ g'.next + Len(g'.data) <= 2 * g'.size
  BY <1>1, TakenOK
<1>3. Steady /\ DataInBuffer' /\ End' = End
  BY <1>2 DEF Steady, DataInBuffer, End
<1> QED  BY <1>1, <1>2, <1>3, SteadyPlaced

\* What holds at every step of a function other than gzdirect.
LEMMA InStep ==
  ASSUME PlacedInv, app' = app, c.pc \notin {"idle", "closed", "wild"},
         c.pc # "look" \/ c.op # "gzdirect"
  PROVE  /\ CallInv /\ c \in CallStates /\ Sound /\ Running /\ Calling /\ PlaceInv
         /\ g \in States /\ DataInBuffer /\ (c.pc # "decomp" => Made = <<>>)
         /\ FatalData
<1>1. CallInv /\ DiskInv
  BY DEF PlacedInv
<1>2. Running /\ Sound
  BY <1>1, InCall
<1> QED  BY <1>1, <1>2, AppSame DEF PlacedInv, StateInv, CallInv, FatalInv, Made

\* gz_read copies from the output buffer,
LEMMA ReadCopyPlaced ==
  ASSUME PlacedInv, ReadCopy
  PROVE  PlacedInv'
<1>0. /\ CallInv /\ c \in CallStates /\ c.pc = "read" /\ Sound /\ Running /\ Made = <<>> /\ Calling
      /\ g \in States /\ DataInBuffer /\ g.data # <<>>
  BY InStep DEF ReadCopy
<1> DEFINE n == Least(Len(g.data), c.left)
<1>1. /\ g' = Taken(g, n)
      /\ \/ c' = NoCall
         \/ c' = [c EXCEPT !.left = @ - n, !.got = @ \o SubSeq(g.data, 1, n)]
  BY DEF ReadCopy, ReadDone
<1>2. n \in 0 .. Len(g.data) /\ n \in 0 .. c.left
  <2>1. Len(g.data) \in Nat /\ c.left \in Nat
    BY <1>0, StateTypes, CallTypes
  <2>2. \A x, y \in Nat : Least(x, y) \in 0 .. x /\ Least(x, y) \in 0 .. y
    BY DEF Least
  <2> QED  BY <2>1, <2>2
<1> HIDE DEF n
<1>3. CallInv' /\ Made' = <<>> /\ c'.pc # "decomp"
  <2>1. CASE c' = NoCall
    BY <2>1, CallOver
  <2>2. CASE c' = [c EXCEPT !.left = @ - n, !.got = @ \o SubSeq(g.data, 1, n)]
    <3> DEFINE s == SubSeq(g.data, 1, n)
    <3>1. s \in Seq(Int)
      BY <1>0, <1>2, StateTypes, CutInt, Zenon
    <3> HIDE DEF s
    <3>2. c' = [c EXCEPT !.left = c.left - n, !.got = c.got \o s, !.tried = c.tried]
      BY <1>0, <2>2 DEF CallStates, s
    <3>3. c.tried \in BOOLEAN
      BY <1>0, CallTypes
    <3> QED  BY <1>0, <1>2, <3>1, <3>2, <3>3, CallGoes
  <2> QED  BY <1>1, <2>1, <2>2
<1> QED  BY <1>0, <1>1, <1>2, <1>3, TakePlaced DEF ReadCopy

\* The application is told of the end.
LEMMA PastPlaced ==
  ASSUME PlacedInv, Calling, disk' = disk, fd' = fd, z' = z, seen' = seen,
         g' = [g EXCEPT !.past = TRUE], CallInv', Made = <<>>, Made' = <<>>,
         c'.pc # "decomp", Sound, Running' => Running \/ ~Fatal(g.err)
  PROVE  PlacedInv'
<1>1. g \in States /\ DataInBuffer /\ InPlace(g.data, g.pos)
  BY DEF PlacedInv, StateInv, PlaceInv
<1>2. Steady /\ g'.err = g.err /\ g'.eof = g.eof /\ g'.data = g.data /\ g'.pos = g.pos /\ g'.next = g.next
  BY <1>1 DEF Steady, States
<1>3. DataInBuffer' /\ End' = End
  BY <1>1, <1>2 DEF DataInBuffer, Steady, End
<1> QED  BY <1>1, <1>2, <1>3, SteadyPlaced

\* notes at the end of the data that it was asked for more, as gzgets does,
LEMMA ReadPastPlaced ==
  ASSUME PlacedInv, ReadPast \/ GetsPast
  PROVE  PlacedInv'
<1>0. c.pc \in {"read", "gets"} /\ app' = app /\ c' = NoCall /\ g' = [g EXCEPT !.past = TRUE]
      /\ disk' = disk /\ fd' = fd /\ z' = z /\ seen' = seen
  BY DEF ReadPast, GetsPast, ReadDone, GetsDone
<1>1. Sound /\ Running /\ Made = <<>> /\ Calling
  BY <1>0, InStep
<1>2. CallInv' /\ Made' = <<>> /\ c'.pc # "decomp"
  BY <1>0, CallOver
<1> QED  BY <1>0, <1>1, <1>2, PastPlaced

\* has the buffer filled, as gzgets does,
LEMMA ReadFetchPlaced ==
  ASSUME PlacedInv, ReadFetch \/ GetsFetch
  PROVE  PlacedInv'
<1>0. /\ c.pc \in {"read", "gets"} /\ app' = app /\ g' = g /\ g.data = <<>>
      /\ disk' = disk /\ fd' = fd /\ z' = z /\ seen' = seen
      /\ \/ c' = [c EXCEPT !.pc = "fetch", !.back = "read"]
         \/ c' = [c EXCEPT !.pc = "fetch", !.back = "gets", !.tried = TRUE]
  BY DEF ReadFetch, GetsFetch
<1>1. CallInv /\ c \in CallStates /\ Sound /\ Running /\ Made = <<>> /\ Calling
  BY <1>0, InStep
<1>2. c' \in CallStates /\ c'.pc = "fetch" /\ c'.back \in {"read", "gets"} /\ c'.op = c.op
  BY <1>0, <1>1 DEF CallStates, Pcs, Backs
<1>3. CallInv' /\ Made' = <<>>
  BY <1>0, <1>1, <1>2 DEF CallInv, Made, Backs
<1> QED  BY <1>0, <1>1, <1>2, <1>3, CallPlaced

\* or decodes into the caller's buffer.
LEMMA ReadDecompPlaced ==
  ASSUME PlacedInv, ReadDecomp
  PROVE  PlacedInv'
<1>0. /\ c.pc = "read" /\ app' = app /\ g' = g /\ g.data = <<>> /\ g.how = "GZIP"
      /\ disk' = disk /\ fd' = fd /\ z' = z /\ seen' = seen
      /\ c' = [c EXCEPT !.pc = "decomp", !.room = c.left, !.made = <<>>, !.user = TRUE]
  BY DEF ReadDecomp
<1>1. CallInv /\ c \in CallStates /\ Sound /\ Running /\ Made = <<>> /\ Calling
  BY <1>0, InStep
<1>2. /\ c' \in CallStates /\ c'.pc = "decomp" /\ c'.op = c.op /\ c'.made = <<>> /\ c'.user
      /\ c'.room = c.left /\ c'.left = c.left
  BY <1>0, <1>1, EmptyInt DEF CallStates, Pcs
<1>3. c.left \in Nat /\ Len(<<>>) = 0
  BY <1>1, CallTypes, EmptyInt
<1>4. CallInv' /\ Made' = <<>>
  BY <1>0, <1>1, <1>2, <1>3 DEF CallInv, Made
<1> QED  BY <1>0, <1>1, <1>2, <1>4, CallPlaced

\* gzgets has filled the caller's buffer,
LEMMA GetsNonePlaced ==
  ASSUME PlacedInv, GetsNone
  PROVE  PlacedInv'
<1>0. c.pc = "gets" /\ app' = app /\ c' = NoCall /\ g' = g
      /\ disk' = disk /\ fd' = fd /\ z' = z /\ seen' = seen
  BY DEF GetsNone, GetsDone
<1>1. Sound /\ Running /\ Made = <<>> /\ Calling
  BY <1>0, InStep
<1>2. CallInv' /\ Made' = <<>> /\ c'.pc # "decomp"
  BY <1>0, CallOver
<1> QED  BY <1>0, <1>1, <1>2, CallPlaced
\* A turn of gzgets takes something, no more than there is.
LEMMA LineLenOK ==
  ASSUME NEW n \in Nat
  PROVE  LineLen(n) \in 0 .. n /\ (n # 0 => LineLen(n) # 0)
<1> DEFINE R == OpToRel(<, Nat)
<1>1. CASE LineEnds(n) = {}
  BY <1>1 DEF LineLen
<1>2. CASE LineEnds(n) # {}
  <2>1. IsWellFoundedOn(R, Nat)
    BY NatLessThanWellFounded
  <2>2. \A x, y \in Nat : y < x => <<y, x>> \in R
    BY DEF OpToRel
  <2> HIDE DEF R
  <2>3. LineEnds(n) \subseteq 1 .. n /\ LineEnds(n) \subseteq Nat
    BY DEF LineEnds
  <2>4. PICK i \in LineEnds(n) : \A j \in LineEnds(n) : ~(<<j, i>> \in R)
    BY <1>2, <2>1, <2>3, WFMin
  <2>5. \A j \in LineEnds(n) : i <= j
    <3>1. \A j \in LineEnds(n) : ~(j < i)
      BY <2>2, <2>3, <2>4, Zenon
    <3> QED  BY <2>3, <3>1
  <2>6. LineLen(n) \in LineEnds(n)
    BY <1>2, <2>5, Zenon DEF LineLen
  <2> QED  BY <2>3, <2>6
<1> QED  BY <1>1, <1>2

\* or takes what is there up to a newline.
LEMMA GetsTakePlaced ==
  ASSUME PlacedInv, GetsTake
  PROVE  PlacedInv'
<1>0. /\ CallInv /\ c \in CallStates /\ c.pc = "gets" /\ Sound /\ Running /\ Made = <<>> /\ Calling
      /\ g \in States /\ DataInBuffer /\ g.data # <<>>
  BY InStep DEF GetsTake
<1> DEFINE n == LineLen(Least(Len(g.data), c.left))
<1>1. /\ g' = Taken(g, n)
      /\ \/ c' = NoCall
         \/ c' = [c EXCEPT !.left = @ - n, !.got = @ \o SubSeq(g.data, 1, n), !.tried = FALSE]
  BY DEF GetsTake, GetsDone
<1>2. n \in 0 .. Len(g.data) /\ n \in 0 .. c.left
  <2> DEFINE k == Least(Len(g.data), c.left)
  <2>1. k \in Nat /\ k <= Len(g.data) /\ k <= c.left /\ Len(g.data) \in Nat /\ c.left \in Nat
    <3>1. Len(g.data) \in Nat /\ c.left \in Nat
      BY <1>0, StateTypes, CallTypes
    <3>2. \A x, y \in Nat : Least(x, y) \in Nat /\ Least(x, y) <= x /\ Least(x, y) <= y
      BY DEF Least
    <3> QED  BY <3>1, <3>2
  <2> HIDE DEF k
  <2>2. LineLen(k) \in 0 .. k
    BY <2>1, LineLenOK
  <2> QED  BY <2>1, <2>2 DEF k
<1> HIDE DEF n
<1>3. CallInv' /\ Made' = <<>> /\ c'.pc # "decomp"
  <2>1. CASE c' = NoCall
    BY <2>1, CallOver
  <2>2. CASE c' = [c EXCEPT !.left = @ - n, !.got = @ \o SubSeq(g.data, 1, n), !.tried = FALSE]
    <3> DEFINE s == SubSeq(g.data, 1, n)
    <3>1. s \in Seq(Int)
      BY <1>0, <1>2, StateTypes, CutInt, Zenon
    <3> HIDE DEF s
    <3>2. c' = [c EXCEPT !.left = c.left - n, !.got = c.got \o s, !.tried = FALSE]
      BY <1>0, <2>2 DEF CallStates, s
    <3> QED  BY <1>0, <1>2, <3>1, <3>2, CallGoes
  <2> QED  BY <1>1, <2>1, <2>2
<1> QED  BY <1>0, <1>1, <1>2, <1>3, TakePlaced DEF GetsTake

\* A byte that is pushed back lies before the data.
LEMMA PushOK ==
  ASSUME g \in States, DataInBuffer, g.size >= 2,
         ~(g.data # <<>> /\ Len(g.data) = 2 * g.size), NEW h, h = Push(g)
  PROVE  /\ h \in States /\ h.in = g.in /\ h.how = g.how /\ h.direct = g.direct
         /\ h.size = g.size /\ h.mode = g.mode /\ h.eof = g.eof /\ h.err = g.err
         /\ h.seek = g.seek /\ h.skip = g.skip /\ ~h.past
         /\ h.pos = g.pos - 1 /\ h.data = <<Pushed(g.pos - 1)>> \o g.data
         /\ h.pos + Len(h.data) = End
         /\ InPlace(g.data, g.pos) => InPlace(h.data, h.pos)
         /\ \A n : Below(g.data, n) => Below(h.data, n)
         /\ h.data # <<>> => h.next >= 0 /\ h.next + Len(h.data) <= 2 * h.size
<1>1. /\ g.data \in Seq(Int) /\ Len(g.data) \in Nat /\ g.next \in Int /\ g.pos \in Int
      /\ g.size \in Nat /\ (Len(g.data) = 0 <=> g.data = <<>>)
  BY StateTypes
<1> DEFINE b == Pushed(g.pos - 1)
           d == <<b>> \o g.data
           x == IF g.data = <<>> THEN 2 * g.size - 1 ELSE Slid(g) - 1
<1>2. b \in Int
  BY <1>1 DEF Pushed
<1> HIDE DEF b
<1>3. /\ <<b>> \in Seq(Int) /\ Len(<<b>>) = 1 /\ d \in Seq(Int) /\ Len(d) = 1 + Len(g.data)
  <2>1. <<b>> \in Seq(Int) /\ Len(<<b>>) = 1
    BY <1>2
  <2> QED  BY <1>1, <2>1, ConcatProperties
<1>4. g.data = <<>> => d = <<b>>
  BY <1>3, EmptyInt
<1>5. x \in Int
  BY <1>1 DEF Slid
<1>6. h = [g EXCEPT !.data = d, !.next = x, !.pos = g.pos - 1, !.past = FALSE]
  <2>1. CASE g.data = <<>>
    BY <1>4, <2>1 DEF Push, PushFirst, b
  <2>2. CASE g.data # <<>>
    BY <2>2 DEF Push, PushFront, b
  <2> QED  BY <2>1, <2>2
<1> HIDE DEF d
<1>7. x >= 0 /\ x + Len(d) <= 2 * g.size
  <2>1. CASE g.data = <<>>
    BY <1>1, <1>3, <2>1
  <2>2. CASE g.data # <<>>
    <3>1. g.next >= 0 /\ g.next + Len(g.data) <= 2 * g.size
      BY <2>2 DEF DataInBuffer
    <3>2. x = IF g.next = 0 THEN (2 * g.size - Len(g.data)) - 1 ELSE g.next - 1
      BY <2>2 DEF Slid
    <3>3. Len(d) = 1 + Len(g.data)
      BY <1>3
    <3>4. Len(g.data) # 2 * g.size
      BY <2>2
    <3> HIDE DEF x
    <3> DEFINE k == Len(g.data)
    <3>5. k \in Nat /\ g.size \in Nat /\ g.next \in Int /\ Len(d) = 1 + k
          /\ g.next + k <= 2 * g.size /\ k # 2 * g.size
      BY <1>1, <3>1, <3>3, <3>4
    <3> HIDE DEF k
    <3>6. CASE g.next = 0
      <4>1. x = (2 * g.size - k) - 1
        BY <3>2, <3>6 DEF k
      <4> QED  BY <3>5, <3>6, <4>1
    <3>7. CASE g.next # 0
      <4>1. x = g.next - 1
        BY <3>2, <3>7
      <4> QED  BY <3>1, <3>5, <3>7, <4>1
    <3> QED  BY <3>6, <3>7
  <2> QED  BY <2>1, <2>2
<1>8. InPlace(<<b>>, g.pos - 1) /\ \A n : Below(<<b>>, n)
  <2>1. b < 0
    BY <1>1 DEF b, Pushed
  <2>2. DOMAIN <<b>> = {1} /\ <<b>>[1] = b
    OBVIOUS
  <2>3. (g.pos - 1) + 1 - 1 = g.pos - 1
    BY <1>1
  <2>4. b \in {(g.pos - 1) + 1 - 1, Pushed((g.pos - 1) + 1 - 1)}
    BY <2>3 DEF b
  <2>5. InPlace(<<b>>, g.pos - 1)
    BY <2>2, <2>4, Zenon DEF InPlace
  <2>6. \A n : Below(<<b>>, n)
    BY <1>2, <2>1, <2>2 DEF Below
  <2> QED  BY <2>5, <2>6
<1> HIDE DEF x
<1>9. InPlace(g.data, g.pos) => InPlace(d, g.pos - 1)
  <2> SUFFICES ASSUME InPlace(g.data, g.pos) PROVE InPlace(d, g.pos - 1)
    OBVIOUS
  <2> DEFINE a == <<b>>
             q == g.pos - 1
  <2>1. q + Len(a) = g.pos /\ q \in Int /\ a \in Seq(Int) /\ InPlace(a, q)
    <3>1. a \in Seq(Int) /\ InPlace(a, q) /\ Len(a) = 1
      BY <1>3, <1>8
    <3> HIDE DEF a
    <3>2. \A i \in Int : (i - 1) + 1 = i /\ i - 1 \in Int
      OBVIOUS
    <3>3. q + Len(a) = g.pos /\ q \in Int
      BY <1>1, <3>1, <3>2
    <3> HIDE DEF q
    <3> QED  BY <3>1, <3>3
  <2> HIDE DEF a, q
  <2>2. InPlace(g.data, q + Len(a))
    BY <2>1
  <2>3. InPlace(a \o g.data, q)
    BY <1>1, <2>1, <2>2, InPlaceConcat, Zenon
  <2> QED  BY <2>3 DEF a, q, d
<1>10. \A n : Below(g.data, n) => Below(d, n)
  <2> SUFFICES ASSUME NEW n, Below(g.data, n) PROVE Below(d, n)
    OBVIOUS
  <2>1. /\ DOMAIN d = 1 .. 1 + Len(g.data) /\ DOMAIN g.data = 1 .. Len(g.data)
        /\ \A i \in 1 .. 1 + Len(g.data) : d[i] = IF i <= 1 THEN <<b>>[i] ELSE g.data[i - 1]
    BY <1>1, <1>3, ConcatProperties, LenProperties DEF d
  <2>2. ASSUME NEW i \in 1 .. 1 + Len(g.data), d[i] >= 0
        PROVE  d[i] < n
    <3>1. CASE i <= 1
      <4>1. i = 1 /\ DOMAIN <<b>> = {1} /\ Below(<<b>>, n)
        BY <1>1, <1>8, <3>1
      <4> QED  BY <2>1, <2>2, <4>1 DEF Below
    <3>2. CASE ~(i <= 1)
      <4>1. i - 1 \in 1 .. Len(g.data) /\ d[i] = g.data[i - 1]
        BY <1>1, <2>1, <3>2
      <4> QED  BY <2>1, <2>2, <4>1 DEF Below
    <3> QED  BY <3>1, <3>2
  <2> QED  BY <2>1, <2>2 DEF Below
<1>11. /\ h \in States /\ h.in = g.in /\ h.how = g.how /\ h.direct = g.direct
       /\ h.size = g.size /\ h.mode = g.mode /\ h.eof = g.eof /\ h.err = g.err
       /\ h.seek = g.seek /\ h.skip = g.skip /\ ~h.past
       /\ h.pos = g.pos - 1 /\ h.data = d /\ h.next = x
  <2> DEFINE q == g.pos - 1
  <2>1. q \in Int /\ d \in Seq(Int) /\ x \in Int
    BY <1>1, <1>3, <1>5
  <2> HIDE DEF q
  <2>2. h = [g EXCEPT !.data = d, !.next = x, !.pos = q, !.past = FALSE]
    BY <1>6 DEF q
  <2>3. /\ h \in States /\ h.in = g.in /\ h.how = g.how /\ h.direct = g.direct
        /\ h.size = g.size /\ h.mode = g.mode /\ h.eof = g.eof /\ h.err = g.err
        /\ h.seek = g.seek /\ h.skip = g.skip /\ ~h.past
        /\ h.pos = q /\ h.data = d /\ h.next = x
    BY <2>1, <2>2 DEF States
  <2> QED  BY <2>3 DEF q
<1>12. h.pos + Len(h.data) = End
  <2>1. h.pos = g.pos - 1 /\ Len(h.data) = 1 + Len(g.data)
    BY <1>3, <1>11
  <2>2. g.pos \in Int /\ Len(g.data) \in Nat
    BY <1>1
  <2>3. \A p \in Int, k \in Nat : (p - 1) + (1 + k) = p + k
    OBVIOUS
  <2>4. h.pos + Len(h.data) = (g.pos - 1) + (1 + Len(g.data))
    BY <2>1, Zenon
  <2> QED  BY <2>2, <2>3, <2>4, Zenon DEF End
<1>13. h.data # <<>> => h.next >= 0 /\ h.next + Len(h.data) <= 2 * h.size
  BY <1>7, <1>11
<1>14. /\ InPlace(g.data, g.pos) => InPlace(h.data, h.pos)
       /\ \A n : Below(g.data, n) => Below(h.data, n)
  BY <1>9, <1>10, <1>11
<1> QED  BY <1>11, <1>12, <1>13, <1>14 DEF d, b

\* gzungetc puts a byte before the data, at the position before it.
LEMMA UngetPlaced ==
  ASSUME PlacedInv, Unget
  PROVE  PlacedInv'
<1>0. c.pc = "unget" /\ app' = app
      /\ disk' = disk /\ fd' = fd /\ z' = z /\ seen' = seen
  BY DEF Unget
<1>1. /\ Sound /\ Running /\ Made = <<>> /\ Calling /\ g \in States /\ DataInBuffer /\ InPlace(g.data, g.pos)
      /\ (g.size = 0 \/ g.size >= 2) /\ FatalData /\ CallInv
  BY <1>0, InStep DEF PlacedInv, StateInv, PlaceInv, FatalInv
<1>2. c' = NoCall => CallInv' /\ Made' = <<>> /\ c'.pc # "decomp" /\ ~Running'
  BY CallOver
<1>3. CASE g.data = <<>> /\ g.size = 0
  <2>1. g' = g /\ c' = [NoCall EXCEPT !.pc = "wild"]
    BY <1>3 DEF Unget
  <2>2. c' \in CallStates /\ c'.pc = "wild" /\ c'.op = "none"
    <3>1. <<>> \in Seq(Int)
      BY EmptyInt
    <3>2. c' = [pc |-> "wild", op |-> "none", left |-> 0, got |-> <<>>, tell |-> 0,
                over |-> 0, past |-> FALSE, back |-> "none", room |-> 0, made |-> <<>>,
                user |-> FALSE, unit |-> 1, tried |-> FALSE]
      BY <2>1 DEF NoCall
    <3> QED  BY <3>1, <3>2 DEF CallStates, Pcs, Ops
  <2>3. CallInv' /\ Made' = <<>> /\ ~Running'
    BY <1>3, <2>1, <2>2 DEF CallInv, Made, Running
  <2> QED  BY <1>0, <1>1, <1>3, <2>1, <2>2, <2>3, CallPlaced
<1>4. CASE g.data # <<>> /\ Len(g.data) = 2 * g.size
  <2>1. g' = gz_error(g, "DATA_ERROR") /\ c' = NoCall
    BY <1>4 DEF Unget
  <2>2. Steady /\ g'.data = <<>> /\ g'.err = "DATA_ERROR"
    BY <1>0, <1>1, <2>1, EmptyInt DEF Steady, States, gz_error, Errors, Fatal
  <2>3. ~Sound' /\ DataInBuffer'
    BY <1>2, <2>1, <2>2 DEF Sound, Fatal, DataInBuffer
  <2> QED  BY <1>1, <1>2, <2>1, <2>2, <2>3, SteadyPlaced
<1>5. CASE ~(g.data = <<>> /\ g.size = 0) /\ ~(g.data # <<>> /\ Len(g.data) = 2 * g.size)
  <2>1. g' = Push(g) /\ c' = NoCall
    BY <1>5 DEF Unget
  <2>2. g.size >= 2
    BY <1>1, <1>5, StateTypes DEF DataInBuffer
  <2>3. /\ g' \in States /\ g'.in = g.in /\ g'.how = g.how /\ g'.direct = g.direct
        /\ g'.size = g.size /\ g'.mode = g.mode /\ g'.eof = g.eof /\ g'.err = g.err
        /\ g'.pos + Len(g'.data) = End /\ InPlace(g'.data, g'.pos)
        /\ g'.data # <<>> => g'.next >= 0 /\ g'.next + Len(g'.data) <= 2 * g'.size
    BY <1>1, <1>5, <2>1, <2>2, PushOK
  <2>4. Steady /\ DataInBuffer' /\ End' = End
    BY <1>0, <2>3 DEF Steady, DataInBuffer, End
  <2> QED  BY <1>1, <1>2, <2>1, <2>3, <2>4, SteadyPlaced
<1> QED  BY <1>3, <1>4, <1>5
\* gz_fetch goes on to look for a header or to decode.
LEMMA FetchGoPlaced ==
  ASSUME PlacedInv, FetchGo
  PROVE  PlacedInv'
<1>0. /\ c.pc = "fetch" /\ app' = app /\ g' = g /\ g.how # "COPY"
      /\ disk' = disk /\ fd' = fd /\ z' = z /\ seen' = seen
      /\ c' = IF g.how = "LOOK" THEN [c EXCEPT !.pc = "look"]
              ELSE [c EXCEPT !.pc = "decomp", !.room = 2 * g.size, !.made = <<>>, !.user = FALSE]
  BY DEF FetchGo
<1>1. CallInv /\ c \in CallStates /\ Sound /\ Running /\ Made = <<>> /\ Calling /\ g \in States
  BY <1>0, InStep
<1>2. /\ c.op # "gzdirect" /\ g.data = <<>> /\ c.back \in Backs /\ g.size \in Nat
      /\ g.how \in {"LOOK", "COPY", "GZIP"}
  BY <1>0, <1>1, StateTypes DEF CallInv
<1>3. CASE g.how = "LOOK"
  <2>1. c' \in CallStates /\ c'.pc = "look" /\ c'.op = c.op /\ c'.back = c.back
    BY <1>0, <1>1, <1>3 DEF CallStates, Pcs
  <2>2. CallInv' /\ Made' = <<>>
    BY <1>0, <1>2, <1>3, <2>1 DEF CallInv, Made
  <2> QED  BY <1>0, <1>1, <2>1, <2>2, CallPlaced
<1>4. CASE g.how # "LOOK"
  <2>0. 2 * g.size \in Nat /\ <<>> \in Seq(Int) /\ Len(<<>>) = 0
    BY <1>2, EmptyInt
  <2>1. /\ c' \in CallStates /\ c'.pc = "decomp" /\ c'.op = c.op /\ c'.back = c.back
        /\ c'.made = <<>> /\ c'.room = 2 * g.size /\ ~c'.user
    BY <1>0, <1>1, <1>4, <2>0 DEF CallStates, Pcs
  <2>2. CallInv' /\ Made' = <<>>
    BY <1>0, <1>2, <2>0, <2>1 DEF CallInv, Made
  <2> QED  BY <1>0, <1>1, <1>2, <1>4, <2>1, <2>2, CallPlaced
<1> QED  BY <1>3, <1>4

-----------------------------------------------------------------------------
(* The functions that are called.                                          *)

\* A function begins when none is running, and counts as a call.
LEMMA AtIdle ==
  ASSUME PlacedInv, c.pc \in {"idle", "closed"}, app.calls < MaxCalls,
         app' = [app EXCEPT !.calls = @ + 1]
  PROVE  /\ CallInv /\ Calling /\ Made = <<>> /\ ~Running /\ c \in CallStates
         /\ g \in States /\ DataInBuffer /\ (Sound <=> ~Fatal(g.err))
         /\ (Sound => InPlace(g.data, g.pos))
<1>1. DiskInv /\ CallInv
  BY DEF PlacedInv
<1> QED  BY <1>1, CallMade DEF PlacedInv, StateInv, CallInv, FatalInv, PlaceInv, Made, Running, Sound

\* A function that ends at once.
LEMMA OncePlaced ==
  ASSUME PlacedInv, Idle, app.calls < MaxCalls, app' = [app EXCEPT !.calls = @ + 1],
         disk' = disk, fd' = fd, g' = g, z' = z, seen' = seen, c' = c
  PROVE  PlacedInv'
<1>1. CallInv /\ Calling /\ Made = <<>> /\ c.pc = "idle"
  BY AtIdle DEF Idle
<1>2. CallInv' /\ Made' = <<>> /\ ~Running /\ ~Running' /\ (Sound' => Sound)
  BY <1>1, CallKept DEF Sound
<1> QED  BY <1>1, <1>2, CallPlaced

\* An error that is reported at once.
LEMMA ErrorPlaced ==
  ASSUME PlacedInv, Idle, app.calls < MaxCalls, app' = [app EXCEPT !.calls = @ + 1],
         disk' = disk, fd' = fd, z' = z, seen' = seen, c' = c, g' = gz_error(g, "STREAM_ERROR")
  PROVE  PlacedInv'
<1>1. CallInv /\ Calling /\ Made = <<>> /\ c.pc = "idle" /\ g \in States
  BY AtIdle DEF Idle
<1>2. CallInv' /\ Made' = <<>> /\ ~Running /\ ~Running'
  BY <1>1, CallKept
<1>3. Steady /\ g'.data = <<>> /\ g'.err = "STREAM_ERROR"
  BY <1>1, EmptyInt DEF Steady, States, gz_error, Errors, Fatal
<1>4. ~Sound' /\ DataInBuffer'
  BY <1>2, <1>3 DEF Sound, Fatal, DataInBuffer
<1> QED  BY <1>1, <1>2, <1>3, <1>4, SteadyPlaced

\* A function that goes on, with a seek that is pending made by a skip.
LEMMA BeginPlaced ==
  ASSUME PlacedInv, Idle, app.calls < MaxCalls, app' = [app EXCEPT !.calls = @ + 1],
         disk' = disk, fd' = fd, z' = z, seen' = seen, ~Fatal(g.err),
         NEW op \in Ops, op # "gzdirect", NEW len \in Nat, NEW unit \in Nat,
         NEW main \in {"read", "gets", "unget"}, Begin(op, len, unit, main)
  PROVE  PlacedInv'
<1>1. CallInv /\ Calling /\ Made = <<>> /\ g \in States /\ DataInBuffer /\ Sound
      /\ InPlace(g.data, g.pos)
  BY AtIdle DEF Idle
<1>2. gztell64(g) \in Int /\ g.past \in BOOLEAN
  BY <1>1, StateTypes DEF gztell64
<1>3. /\ c' = [NoCall EXCEPT !.pc = IF g.seek THEN "skip" ELSE main, !.op = op,
                             !.left = len, !.unit = unit, !.back = main,
                             !.tell = gztell64(g), !.past = g.past]
      /\ g' = [g EXCEPT !.seek = FALSE]
  BY DEF Begin
<1>4. /\ c'.pc \in {"skip", "read", "gets", "unget"} /\ c'.op = op /\ c' \in CallStates
  <2> DEFINE t == gztell64(g)
             p == g.past
             q == IF g.seek THEN "skip" ELSE main
  <2>1. c' = [pc |-> q, op |-> op, left |-> len, got |-> <<>>, tell |-> t,
              over |-> 0, past |-> p, back |-> main, room |-> 0, made |-> <<>>,
              user |-> FALSE, unit |-> unit, tried |-> FALSE]
    BY <1>3 DEF NoCall
  <2>2. q \in {"skip", "read", "gets", "unget"} /\ t \in Int /\ p \in BOOLEAN
    BY <1>2
  <2> HIDE DEF t, p, q
  <2> QED  BY <2>1, <2>2, EmptyInt DEF CallStates, Pcs, Backs
<1>5. CallInv' /\ Made' = <<>>
  BY <1>4 DEF CallInv, Made
<1>6. Steady /\ g'.data = g.data /\ g'.pos = g.pos /\ g'.next = g.next /\ g'.err = g.err
  BY <1>1, <1>3 DEF Steady, States
<1>7. DataInBuffer' /\ End' = End
  BY <1>1, <1>6 DEF DataInBuffer, Steady, End
<1>8. ~Fatal(g'.err)
  BY <1>6
<1> QED  BY <1>1, <1>4, <1>5, <1>6, <1>7, <1>8, SteadyPlaced

\* gzread: refused, nothing to do, or a call that goes on;
LEMMA GzReadPlaced ==
  ASSUME PlacedInv, NEW len \in Lengths, GzRead(len)
  PROVE  PlacedInv'
<1>0. /\ Idle /\ app.calls < MaxCalls /\ app' = [app EXCEPT !.calls = @ + 1]
      /\ disk' = disk /\ fd' = fd /\ z' = z /\ seen' = seen
  BY DEF GzRead, Call
<1>1. len \in Nat
  BY UseFacts DEF PlacedInv, DiskInv
<1>2. CASE Fatal(g.err) \/ (~Fatal(g.err) /\ ~(len >= UINT \div 2) /\ len = 0)
  <2>1. g' = g /\ c' = c
    BY <1>2 DEF GzRead
  <2> QED  BY <1>0, <2>1, OncePlaced
<1>3. CASE ~Fatal(g.err) /\ len >= UINT \div 2
  <2>1. len # 0
    <3>1. UINT \in Nat /\ UINT > 4
      BY GzSizes
    <3> QED  BY <1>1, <1>3, <3>1
  <2>2. g' = gz_error(g, "STREAM_ERROR") /\ c' = c
    BY <1>3, <2>1 DEF GzRead
  <2> QED  BY <1>0, <2>2, ErrorPlaced
<1>4. CASE ~Fatal(g.err) /\ ~(len >= UINT \div 2) /\ len # 0
  <2>1. Begin("gzread", len, 1, "read")
    BY <1>4 DEF GzRead
  <2> QED  BY <1>0, <1>1, <1>4, <2>1, BeginPlaced DEF Ops
<1> QED  BY <1>2, <1>3, <1>4

\* gzfread, with a product that must not overflow;
LEMMA GzFreadPlaced ==
  ASSUME PlacedInv, NEW len \in Lengths, GzFread(2, len)
  PROVE  PlacedInv'
<1> DEFINE n == (len * 2) % UINT
<1>0. /\ Idle /\ app.calls < MaxCalls /\ app' = [app EXCEPT !.calls = @ + 1]
      /\ disk' = disk /\ fd' = fd /\ z' = z /\ seen' = seen
  BY DEF GzFread, Call
<1>1. n \in Nat
  <2>1. len \in Nat /\ UINT \in Nat /\ UINT > 0
    BY UseFacts, GzSizes DEF PlacedInv, DiskInv
  <2> QED  BY <2>1
<1>2. CASE Fatal(g.err) \/ (~Fatal(g.err) /\ n \div 2 = len /\ n = 0)
  <2>1. g' = g /\ c' = c
    BY <1>2 DEF GzFread
  <2> QED  BY <1>0, <2>1, OncePlaced
<1>3. CASE ~Fatal(g.err) /\ n \div 2 # len
  <2>1. g' = gz_error(g, "STREAM_ERROR") /\ c' = c
    BY <1>3 DEF GzFread
  <2> QED  BY <1>0, <2>1, ErrorPlaced
<1>4. CASE ~Fatal(g.err) /\ n \div 2 = len /\ n # 0
  <2>1. Begin("gzfread", n, 2, "read")
    BY <1>4 DEF GzFread
  <2> QED  BY <1>0, <1>1, <1>4, <2>1, BeginPlaced DEF Ops
<1> QED  BY <1>2, <1>3, <1>4

\* gzgetc, from the buffer or through gz_read;
LEMMA GzGetcPlaced ==
  ASSUME PlacedInv, GzGetc
  PROVE  PlacedInv'
<1>0. /\ Idle /\ app.calls < MaxCalls /\ app' = [app EXCEPT !.calls = @ + 1]
      /\ disk' = disk /\ fd' = fd /\ z' = z /\ seen' = seen
  BY DEF GzGetc, Call
<1>1. CASE Fatal(g.err)
  <2>1. g' = g /\ c' = c
    BY <1>1 DEF GzGetc
  <2> QED  BY <1>0, <2>1, OncePlaced
<1>2. CASE ~Fatal(g.err) /\ g.data # <<>>
  <2>1. g' = Taken(g, 1) /\ c' = c
    BY <1>2 DEF GzGetc
  <2>2. CallInv /\ Calling /\ g \in States /\ Sound /\ c.pc = "idle"
    BY <1>0, <1>2, AtIdle DEF Idle
  <2>3. CallInv' /\ Made = <<>> /\ Made' = <<>> /\ ~Running' /\ c'.pc # "decomp"
    BY <2>1, <2>2, CallKept
  <2>4. 1 \in 0 .. Len(g.data)
    BY <1>2, <2>2, StateTypes
  <2> QED  BY <1>0, <1>2, <2>1, <2>2, <2>3, <2>4, TakePlaced
<1>3. CASE ~Fatal(g.err) /\ g.data = <<>>
  <2>1. Begin("gzgetc", 1, 1, "read")
    BY <1>3 DEF GzGetc
  <2> QED  BY <1>0, <1>3, <2>1, BeginPlaced DEF Ops
<1> QED  BY <1>1, <1>2, <1>3

\* gzungetc;
LEMMA GzUngetcPlaced ==
  ASSUME PlacedInv, GzUngetc
  PROVE  PlacedInv'
<1>0. /\ Idle /\ app.calls < MaxCalls /\ app' = [app EXCEPT !.calls = @ + 1]
      /\ disk' = disk /\ fd' = fd /\ z' = z /\ seen' = seen
  BY DEF GzUngetc, Call
<1>1. CASE Fatal(g.err)
  <2>1. g' = g /\ c' = c
    BY <1>1 DEF GzUngetc
  <2> QED  BY <1>0, <2>1, OncePlaced
<1>2. CASE ~Fatal(g.err)
  <2>1. Begin("gzungetc", 0, 1, "unget")
    BY <1>2 DEF GzUngetc
  <2> QED  BY <1>0, <1>2, <2>1, BeginPlaced DEF Ops
<1> QED  BY <1>1, <1>2

\* gzgets;
LEMMA GzGetsPlaced ==
  ASSUME PlacedInv, NEW len \in Lengths, GzGets(len)
  PROVE  PlacedInv'
<1>0. /\ Idle /\ app.calls < MaxCalls /\ app' = [app EXCEPT !.calls = @ + 1]
      /\ disk' = disk /\ fd' = fd /\ z' = z /\ seen' = seen
  BY DEF GzGets, Call
<1>1. len \in Nat
  BY UseFacts DEF PlacedInv, DiskInv
<1>2. CASE Fatal(g.err) \/ len < 1
  <2>1. g' = g /\ c' = c
    BY <1>2 DEF GzGets
  <2> QED  BY <1>0, <2>1, OncePlaced
<1>3. CASE ~(Fatal(g.err) \/ len < 1)
  <2>1. Begin("gzgets", len - 1, 1, "gets") /\ len - 1 \in Nat
    BY <1>1, <1>3 DEF GzGets
  <2> QED  BY <1>0, <1>3, <2>1, BeginPlaced DEF Ops
<1> QED  BY <1>2, <1>3

\* gzdirect, which may have to look for a header;
LEMMA GzDirectPlaced ==
  ASSUME PlacedInv, GzDirect
  PROVE  PlacedInv'
<1>0. /\ Idle /\ app.calls < MaxCalls /\ app' = [app EXCEPT !.calls = @ + 1]
      /\ disk' = disk /\ fd' = fd /\ g' = g /\ z' = z /\ seen' = seen
  BY DEF GzDirect, Call
<1>1. CASE ~(g.how = "LOOK" /\ g.data = <<>>)
  <2>1. c' = c
    BY <1>1 DEF GzDirect
  <2> QED  BY <1>0, <2>1, OncePlaced
<1>2. CASE g.how = "LOOK" /\ g.data = <<>>
  <2>1. c' = [NoCall EXCEPT !.pc = "look", !.op = "gzdirect", !.tell = gztell64(g),
                            !.past = g.past]
    BY <1>2 DEF GzDirect
  <2>2. CallInv /\ Calling /\ Made = <<>> /\ g \in States /\ (Sound <=> ~Fatal(g.err))
    BY <1>0, AtIdle DEF Idle
  <2>3. gztell64(g) \in Int /\ g.past \in BOOLEAN
    BY <2>2, StateTypes DEF gztell64
  <2>4. c'.pc = "look" /\ c'.op = "gzdirect" /\ c' \in CallStates
    <3> DEFINE t == gztell64(g)
               p == g.past
    <3>1. c' = [pc |-> "look", op |-> "gzdirect", left |-> 0, got |-> <<>>, tell |-> t,
                over |-> 0, past |-> p, back |-> "none", room |-> 0, made |-> <<>>,
                user |-> FALSE, unit |-> 1, tried |-> FALSE]
      BY <2>1 DEF NoCall
    <3>2. t \in Int /\ p \in BOOLEAN
      BY <2>3
    <3> HIDE DEF t, p
    <3> QED  BY <3>1, <3>2, EmptyInt DEF CallStates, Pcs, Ops
  <2>5. CallInv' /\ Made' = <<>> /\ ~Running'
    BY <1>0, <1>2, <2>4 DEF CallInv, Made, Running
  <2> QED  BY <1>0, <2>2, <2>4, <2>5, CallPlaced DEF Sound
<1> QED  BY <1>1, <1>2

\* gzbuffer, which only sets the size wanted;
LEMMA GzBufferPlaced ==
  ASSUME PlacedInv, NEW size \in Buffers, GzBuffer(size)
  PROVE  PlacedInv'
<1>0. /\ Idle /\ app.calls < MaxCalls /\ app' = [app EXCEPT !.calls = @ + 1]
      /\ disk' = disk /\ fd' = fd /\ c' = c /\ z' = z /\ seen' = seen
  BY DEF GzBuffer, Call
<1>1. CASE BufferRefused(g, size)
  <2>1. g' = g
    BY <1>1 DEF GzBuffer
  <2> QED  BY <1>0, <2>1, OncePlaced
<1>2. CASE ~BufferRefused(g, size)
  <2>1. g' = [g EXCEPT !.want = IF size < 2 THEN 2 ELSE size]
    BY <1>2 DEF GzBuffer, gzbuffer
  <2>2. /\ CallInv /\ Calling /\ Made = <<>> /\ g \in States /\ (Sound <=> ~Fatal(g.err))
        /\ DataInBuffer /\ (Sound => InPlace(g.data, g.pos)) /\ c.pc = "idle"
    BY <1>0, AtIdle DEF Idle
  <2>3. (IF size < 2 THEN 2 ELSE size) \in 2 .. UINT
    <3>1. size \in 0 .. UINT - 1 /\ UINT \in Nat /\ UINT >= 2
      BY UseFacts DEF PlacedInv, DiskInv
    <3> QED  BY <3>1
  <2>4. Steady /\ g'.data = g.data /\ g'.pos = g.pos /\ g'.next = g.next /\ g'.err = g.err
        /\ g'.eof = g.eof
    BY <1>0, <2>1, <2>2, <2>3 DEF Steady, States
  <2>5. CallInv' /\ Made' = <<>> /\ ~Running' /\ c'.pc # "decomp"
    BY <1>0, <2>2, CallKept
  <2>6. DataInBuffer' /\ End' = End /\ (Sound' => Sound)
    BY <2>2, <2>4, <2>5 DEF DataInBuffer, Steady, End, Sound
  <2> QED  BY <2>2, <2>4, <2>5, <2>6, SteadyPlaced
<1> QED  BY <1>1, <1>2

\* gzclearerr forgets the end of the file, so that a reader may go on.
LEMMA GzClearerrPlaced ==
  ASSUME PlacedInv, GzClearerr, ~Fatal(g.err)
  PROVE  PlacedInv'
<1>0. /\ Idle /\ app.calls < MaxCalls /\ app' = [app EXCEPT !.calls = @ + 1]
      /\ disk' = disk /\ fd' = fd /\ c' = c /\ z' = z /\ seen' = seen /\ g' = gzclearerr(g)
  BY DEF GzClearerr, Call
<1>1. /\ CallInv /\ Calling /\ Made = <<>> /\ g \in States /\ Sound /\ g.mode = "READ"
      /\ DataInBuffer /\ InPlace(g.data, g.pos) /\ c.pc = "idle"
  BY <1>0, AtIdle DEF Idle, PlacedInv, StateInv
<1>2. g' = [g EXCEPT !.eof = FALSE, !.past = FALSE, !.err = "OK"]
  BY <1>0, <1>1 DEF gzclearerr, gz_error, Fatal, States
<1>3. Steady /\ g'.data = g.data /\ g'.pos = g.pos /\ g'.next = g.next /\ g'.err = "OK"
  BY <1>0, <1>1, <1>2 DEF Steady, States, Errors
<1>4. CallInv' /\ Made' = <<>> /\ ~Running' /\ c'.pc # "decomp"
  BY <1>0, <1>1, CallKept
<1>5. DataInBuffer' /\ End' = End
  BY <1>1, <1>3 DEF DataInBuffer, Steady, End
<1> QED  BY <1>1, <1>3, <1>4, <1>5, SteadyPlaced DEF Fatal

\* gzclose.
LEMMA GzClosePlaced ==
  ASSUME PlacedInv, GzClose
  PROVE  PlacedInv'
<1>0. /\ Idle /\ app.calls < MaxCalls /\ app' = [app EXCEPT !.calls = @ + 1]
      /\ disk' = disk /\ fd' = fd /\ g' = g /\ z' = z /\ seen' = seen
      /\ c' = [NoCall EXCEPT !.pc = "closed"]
  BY DEF GzClose
<1>1. CallInv /\ Calling /\ Made = <<>> /\ (Sound <=> ~Fatal(g.err))
  BY <1>0, AtIdle DEF Idle
<1>2. CallInv' /\ Made' = <<>> /\ ~Running' /\ c'.pc # "decomp"
  BY <1>0, CallOver
<1> QED  BY <1>0, <1>1, <1>2, CallPlaced DEF Sound
-----------------------------------------------------------------------------
(* Back to the start of the file, and a seek.                              *)

\* Where a member may start, gz_look finds a whole header or never any data.
LEMMA ResumesAt ==
  ASSUME FileOK(disk, Start), Start \in Nat, NEW o \in Nat, o >= Start,
         o = Start \/ Cell(o - 1).last
  PROVE  Resumes(disk, o)
<1>0. Final(disk) \in Nat /\ DOMAIN disk.grows = 1 .. Len(disk.grows)
  BY FileFacts
<1>1. CASE o >= Final(disk)
  BY <1>0, <1>1 DEF Resumes, NoData
<1>2. CASE ~(o >= Final(disk))
  <2>1. o \in Start .. Final(disk) - 1 /\ o < Final(disk) /\ (o - 1) + 1 = o
    BY <1>0, <1>2
  <2>2. o \in MemberPlaces(disk, Start)
    BY <2>1 DEF MemberPlaces, Cell
  <2>3. /\ HeaderAt(disk, o) \/ NoData(disk, o)
        /\ Marked(disk, o) => \A i \in DOMAIN disk.grows : disk.grows[i] # o + 1
    BY <2>2 DEF FileOK
  <2>4. HeaderAt(disk, o) /\ o + 1 < Final(disk) => Marked(disk, o)
    BY DEF HeaderAt, Marked
  <2> QED  BY <2>1, <2>3, <2>4 DEF Resumes
<1> QED  BY <1>1, <1>2

\* The state after gz_reset.
AtStart(h) ==
  /\ h \in States /\ h.mode = "READ" /\ (h.size = 0 \/ h.size >= 2)
  /\ h.in = <<>> /\ h.data = <<>> /\ h.how = "LOOK" /\ h.pos = 0
  /\ ~h.eof /\ ~h.past /\ ~h.seek /\ h.err = "OK"

\* gz_reset brings the reader to the start of the file,
LEMMA ResetOK ==
  ASSUME NEW h \in States, h.mode = "READ", h.size = 0 \/ h.size >= 2
  PROVE  AtStart(gz_reset(h)) /\ gz_reset(h).direct = h.direct
<1>1. gz_reset(h) = [h EXCEPT !.err = "OK", !.data = <<>>, !.seek = FALSE, !.pos = 0,
                              !.in = <<>>, !.eof = FALSE, !.past = FALSE, !.how = "LOOK"]
  BY DEF gz_reset, gz_error, States
<1>2. gz_reset(h) \in States
  <2>1. <<>> \in Seq(Int) /\ 0 \in Int
    BY EmptyInt
  <2> DEFINE e == [h EXCEPT !.err = "OK", !.data = <<>>, !.seek = FALSE, !.eof = FALSE]
  <2>2. e \in States
    BY <2>1 DEF States, Errors
  <2>3. gz_reset(h) = [e EXCEPT !.pos = 0, !.in = <<>>, !.past = FALSE, !.how = "LOOK"]
    BY <1>1 DEF States
  <2> HIDE DEF e
  <2> QED  BY <2>1, <2>2, <2>3 DEF States
<1> QED  BY <1>1, <1>2 DEF AtStart, States

\* and so does gz_open.
LEMMA OpenedOK ==
  ASSUME NEW m, IsMode(m), OpenMode(m) = "r"
  PROVE  AtStart(gz_open(m)) /\ gz_open(m).direct
<1> DEFINE level == LastOf(m, Levels, "-1")
           strategy == LastOf(m, Strategies, "dflt")
           f == Fresh("READ", TRUE, level, strategy)
<1>1. level \in Levels \cup {"-1"} /\ strategy \in Strategies \cup {"dflt"}
  BY LastOfType
<1>2. gz_open(m) = gz_reset(f)
  <2>1. gz_open(m) = gz_reset(Fresh("READ", TRUE \/ Holds(m, "T"), level, strategy))
    BY Zenon DEF gz_open
  <2>2. TRUE = (TRUE \/ Holds(m, "T"))
    OBVIOUS
  <2> QED  BY <2>1, <2>2, Zenon
<1> HIDE DEF level, strategy
<1>3. GZBUFSIZE \in 2 .. UINT /\ 0 \in 0 .. UINT
  BY GzSizes
<1>4. f \in States /\ f.mode = "READ" /\ f.size = 0 /\ f.direct
  BY <1>1, <1>3, EmptyInt DEF States, Fresh, Errors
<1> HIDE DEF f
<1> QED  BY <1>2, <1>4, ResetOK

\* A function that starts again at the beginning of the file.
LEMMA StartPlaced ==
  ASSUME PlacedInv, Calling, disk' = disk, z' = z, seen' = seen, fd' = Start,
         g' \in States, g'.mode = "READ", g'.size = 0 \/ g'.size >= 2, g'.in = <<>>,
         g'.data = <<>>, g'.how = "LOOK", g'.pos = 0, ~g'.eof, g'.err = "OK",
         CallInv', Made' = <<>>, c'.pc # "decomp"
  PROVE  PlacedInv'
<1>1. /\ Start' = Start /\ Visible' = Visible /\ MaxCalls' = MaxCalls
      /\ app' \in [use : DOMAIN Uses, calls : Nat] /\ app'.calls <= MaxCalls
      /\ \A o : Before(o)' = Before(o)
  <2>1. DiskInv
    BY DEF PlacedInv
  <2> QED  BY <2>1, UseSame
<1>2. /\ DiskInv /\ Start \in Nat /\ FileOK(disk, Start)
  BY DiskTypes DEF PlacedInv
<1>3. DiskInv'
  BY <1>1, <1>2 DEF DiskInv
<1>4. Len(<<>>) = 0 /\ g'.size \in Nat
  BY GzSizes, EmptyInt DEF States
<1>5. StateInv'
  BY <1>4 DEF PlacedInv, StateInv, DataInBuffer
<1>6. FatalInv'
  BY DEF FatalInv, FatalData, Fatal
<1>7. PlaceInv'
  <2>1. Here' = Start /\ End' = 0
    BY <1>2, <1>4 DEF Here, End
  <2>2. InputInv'
    <3>1. Offsets(Start, 0) = <<>>
      BY DEF Offsets
    <3> QED  BY <1>4, <2>1, <3>1 DEF InputInv
  <2>3. MemberInv'
    <3>1. Before(Here)' = 0
      <4>1. Before(Here)' = Before(Start)
        BY <1>1, <2>1 DEF Before
      <4> QED  BY <1>2, <4>1, BeforeStart
    <3>2. Held' = <<>> /\ Run(End', <<>>) /\ Run(End' + Len(Made'), <<>>)
      BY EmptyRun DEF Held
    <3>3. Resumes(disk, Start)
      BY <1>2, ResumesAt
    <3> QED  BY <1>1, <1>2, <1>4, <2>1, <3>1, <3>2, <3>3 DEF MemberInv
  <2>4. InPlace(g'.data, g'.pos)
    BY EmptyInPlace
  <2> QED  BY <1>1, <2>1, <2>2, <2>3, <2>4 DEF PlaceInv
<1> QED  BY <1>3, <1>5, <1>6, <1>7 DEF PlacedInv

\* gzopen starts at the start of the file,
LEMMA GzOpenPlaced ==
  ASSUME PlacedInv, NEW m \in Modes, GzOpen(m)
  PROVE  PlacedInv'
<1>0. /\ c.pc = "closed" /\ app.calls < MaxCalls /\ app' = [app EXCEPT !.calls = @ + 1]
      /\ disk' = disk /\ z' = z /\ seen' = seen
  BY DEF GzOpen
<1>1. CallInv /\ Calling /\ Made = <<>> /\ ~Running
  BY <1>0, AtIdle
<1>2. CASE Refused(m) \/ OpenMode(m) # "r"
  <2>1. g' = g /\ fd' = fd /\ c' = c
    BY <1>2 DEF GzOpen
  <2>2. CallInv' /\ Made' = <<>> /\ ~Running' /\ (Sound' => Sound) /\ c'.pc # "decomp"
    BY <1>0, <1>1, <2>1, CallKept DEF Sound
  <2> QED  BY <1>0, <1>1, <2>1, <2>2, CallPlaced
<1>3. CASE ~(Refused(m) \/ OpenMode(m) # "r")
  <2>1. g' = gz_open(m) /\ fd' = Start /\ c' = NoCall
    BY <1>3 DEF GzOpen
  <2>2. IsMode(m)
    <3>1. m \in Seq(STRING)
      BY UseFacts DEF PlacedInv, DiskInv
    <3> QED  BY <3>1, LenProperties DEF IsMode
  <2>3. AtStart(g')
    BY <1>3, <2>1, <2>2, OpenedOK
  <2>4. CallInv' /\ Made' = <<>> /\ c'.pc # "decomp"
    BY <2>1, CallOver
  <2> QED  BY <1>0, <1>1, <2>1, <2>3, <2>4, StartPlaced DEF AtStart
<1> QED  BY <1>2, <1>3

\* and gzrewind goes back there, if lseek can.
LEMMA GzRewindPlaced ==
  ASSUME PlacedInv, GzRewind
  PROVE  PlacedInv'
<1>0. /\ Idle /\ app.calls < MaxCalls /\ app' = [app EXCEPT !.calls = @ + 1]
      /\ disk' = disk /\ z' = z /\ seen' = seen /\ c' = c
      /\ g' = gzrewind(g, fd, Start, Can).g /\ fd' = gzrewind(g, fd, Start, Can).fd
  BY DEF GzRewind, Call
<1>1. /\ CallInv /\ Calling /\ Made = <<>> /\ g \in States /\ g.mode = "READ" /\ c.pc = "idle"
      /\ (g.size = 0 \/ g.size >= 2)
  BY <1>0, AtIdle DEF Idle, PlacedInv, StateInv
<1>2. CallInv' /\ Made' = <<>> /\ c'.pc # "decomp"
  BY <1>0, <1>1, CallKept
<1>3. CASE Fatal(g.err) \/ ~Can
  <2>1. g' = g /\ fd' = fd
    BY <1>0, <1>3 DEF gzrewind
  <2> QED  BY <1>0, <2>1, OncePlaced
<1>4. CASE ~(Fatal(g.err) \/ ~Can)
  <2>1. g' = gz_reset(g) /\ fd' = Start
    BY <1>0, <1>1, <1>4 DEF gzrewind
  <2>2. AtStart(g')
    BY <1>1, <2>1, ResetOK
  <2> QED  BY <1>0, <1>1, <1>2, <2>1, <2>2, StartPlaced DEF AtStart
<1> QED  BY <1>3, <1>4

\* A seek within the file as it is read, from behind the k bytes in the buffer.
RawMoved(off, k) ==
  /\ k = Len(g.data) /\ fd + off - k >= 0 /\ fd' = fd + off - k
  /\ g' = gz_error([[g EXCEPT !.seek = FALSE] EXCEPT
             !.data = <<>>, !.eof = FALSE, !.past = FALSE, !.in = <<>>, !.pos = @ + off], "OK")

\* gzseek in a raw file moves the descriptor and x.pos by the same distance.
LEMMA RawSeekPlaced ==
  ASSUME PlacedInv, Idle, Calling, disk' = disk, z' = z, seen' = seen, c' = c, ~Fatal(g.err),
         g.how = "COPY", NEW off \in Int, NEW k \in Nat, RawMoved(off, k)
  PROVE  PlacedInv'
<1>1. /\ CallInv /\ DiskInv /\ g \in States /\ g.mode = "READ" /\ (g.size = 0 \/ g.size >= 2)
      /\ PlaceInv /\ c.pc = "idle" /\ z \in Seq(Int) /\ g.size # 0
  BY DEF PlacedInv, StateInv, Sound, Idle
<1>2. /\ Start' = Start /\ Visible' = Visible /\ MaxCalls' = MaxCalls
      /\ app' \in [use : DOMAIN Uses, calls : Nat] /\ app'.calls <= MaxCalls
  BY <1>1, UseSame
<1>3. Start \in Nat /\ fd \in Nat /\ g.pos \in Int /\ g.size \in Nat
      /\ fd' = fd + off - k /\ fd' \in Nat
  <2>1. Start \in Nat /\ fd \in Nat /\ g.pos \in Int /\ g.size \in Nat
    BY <1>1, DiskTypes, StateTypes
  <2>2. fd' = fd + off - k /\ fd + off - k >= 0
    BY DEF RawMoved
  <2> QED  BY <2>1, <2>2 DEF RawMoved
<1>4. /\ g' \in States /\ g'.mode = "READ" /\ g'.size = g.size /\ g'.in = <<>> /\ g'.data = <<>>
      /\ g'.how = "COPY" /\ g'.pos = g.pos + off /\ ~g'.eof /\ g'.err = "OK"
      /\ g'.direct = g.direct
  <2> DEFINE p == g.pos + off
  <2>1. g' = [g EXCEPT !.seek = FALSE, !.data = <<>>, !.eof = FALSE, !.past = FALSE,
                       !.in = <<>>, !.pos = p, !.err = "OK"]
    BY <1>1 DEF RawMoved, gz_error, Fatal, States
  <2>2. p \in Int /\ <<>> \in Seq(Int)
    BY <1>3, EmptyInt
  <2> DEFINE e == [g EXCEPT !.seek = FALSE, !.eof = FALSE, !.past = FALSE, !.err = "OK"]
  <2>4. e \in States /\ e.mode = "READ" /\ e.size = g.size /\ e.how = "COPY" /\ ~e.eof
        /\ e.err = "OK" /\ e.direct = g.direct
    BY <1>1 DEF States, Errors
  <2>5. g' = [e EXCEPT !.data = <<>>, !.in = <<>>, !.pos = p]
    BY <1>1, <2>1 DEF States
  <2> HIDE DEF p, e
  <2>3. /\ g' \in States /\ g'.mode = "READ" /\ g'.size = g.size /\ g'.in = <<>> /\ g'.data = <<>>
        /\ g'.how = "COPY" /\ g'.pos = p /\ ~g'.eof /\ g'.err = "OK" /\ g'.direct = g.direct
    BY <2>2, <2>4, <2>5 DEF States
  <2> QED  BY <2>3 DEF p
<1>5. CallInv' /\ Made' = <<>> /\ c'.pc # "decomp"
  BY <1>1, CallKept
<1>6. DiskInv'
  BY <1>1, <1>2, <1>3 DEF DiskInv
<1>7. Len(<<>>) = 0
  BY EmptyInt
<1>8. StateInv' /\ FatalInv'
  BY <1>1, <1>3, <1>4, <1>7 DEF StateInv, DataInBuffer, FatalInv, FatalData, Fatal
<1>9. PlaceInv'
  <2>1. End = fd - Start /\ g.direct
    BY <1>1, <1>3 DEF PlaceInv
  <2>2. End' = fd' - Start
    <3>1. End' = g.pos + off + 0
      BY <1>4, <1>7 DEF End
    <3>2. g.pos + Len(g.data) = fd - Start
      BY <2>1 DEF End
    <3>3. g.pos + k = fd - Start
      BY <3>2 DEF RawMoved
    <3> QED  BY <1>3, <3>1, <3>3
  <2>3. InputInv'
    <3>1. \A p : Offsets(p, 0) = <<>>
      BY DEF Offsets
    <3> QED  BY <1>4, <1>7, <3>1 DEF InputInv
  <2>4. InPlace(g'.data, g'.pos)
    BY <1>4, EmptyInPlace
  <2> QED  BY <1>2, <1>4, <1>5, <2>1, <2>2, <2>3, <2>4 DEF PlaceInv
<1> QED  BY <1>5, <1>6, <1>8, <1>9 DEF PlacedInv

\* What a seek forward skips at once.
SkippedTo(h, k, n, off) ==
  /\ n \in 0 .. Len(h.data) /\ off - n \in Nat
  /\ (off - n # 0 => n = Len(h.data))
  /\ k = [h EXCEPT !.data = SubSeq(@, n + 1, Len(@)), !.next = @ + n, !.pos = @ + n,
                   !.seek = off - n # 0, !.skip = IF off - n # 0 THEN off - n ELSE @]

\* Otherwise gzseek uses what is in the buffer and asks for a skip of the rest,
LEMMA SkipRequestOK ==
  ASSUME NEW h \in States, h.mode = "READ", NEW off \in Nat
  PROVE  SkippedTo(h, SkipRequest(h, off), Least(Len(h.data), off), off)
<1> DEFINE n == Least(Len(h.data), off)
<1>1. Len(h.data) \in Nat
  BY EmptyInt DEF States
<1>2. n \in 0 .. Len(h.data) /\ off - n \in Nat /\ (off - n # 0 => n = Len(h.data))
  BY <1>1 DEF Least
<1>3. SkipRequest(h, off) = [h EXCEPT !.data = SubSeq(@, n + 1, Len(@)), !.next = @ + n,
        !.pos = @ + n, !.seek = off - n # 0, !.skip = IF off - n # 0 THEN off - n ELSE @]
  BY DEF SkipRequest
<1> QED  BY <1>2, <1>3 DEF SkippedTo

\* A seek forward.
LEMMA ForwardPlaced ==
  ASSUME PlacedInv, Idle, Calling, disk' = disk, fd' = fd, z' = z, seen' = seen, c' = c,
         ~Fatal(g.err), NEW off \in Nat, NEW n, SkippedTo([g EXCEPT !.seek = FALSE], g', n, off)
  PROVE  PlacedInv'
<1>1. CallInv /\ g \in States /\ g.mode = "READ" /\ DataInBuffer /\ Sound
      /\ InPlace(g.data, g.pos) /\ c.pc = "idle"
  BY DEF PlacedInv, StateInv, Sound, Idle, PlaceInv
<1> DEFINE h == Taken(g, n)
           x == IF off - n # 0 THEN off - n ELSE g.skip
<1>2. /\ n \in 0 .. Len(g.data) /\ off - n \in Nat
      /\ g' = [[g EXCEPT !.seek = FALSE] EXCEPT
                 !.data = SubSeq(@, n + 1, Len(@)), !.next = @ + n, !.pos = @ + n,
                 !.seek = off - n # 0, !.skip = IF off - n # 0 THEN off - n ELSE @]
  BY <1>1 DEF SkippedTo, States
<1>3. x \in Nat /\ (off - n # 0) \in BOOLEAN
  BY <1>1, <1>2, StateTypes
<1>4. g' = [h EXCEPT !.seek = off - n # 0, !.skip = x]
  BY <1>1, <1>2 DEF Taken, States
<1>5. /\ h \in States /\ h.in = g.in /\ h.how = g.how /\ h.direct = g.direct
      /\ h.size = g.size /\ h.mode = g.mode /\ h.eof = g.eof /\ h.err = g.err
      /\ h.pos + Len(h.data) = End /\ InPlace(h.data, h.pos)
      /\ h.data # <<>> => h.next >= 0 /\ h.next + Len(h.data) <= 2 * h.size
  BY <1>1, <1>2, TakenOK
<1> HIDE DEF h, x
<1>6. /\ g' \in States /\ g'.in = h.in /\ g'.how = h.how /\ g'.direct = h.direct
      /\ g'.size = h.size /\ g'.mode = h.mode /\ g'.eof = h.eof /\ g'.err = h.err
      /\ g'.pos = h.pos /\ g'.data = h.data /\ g'.next = h.next
  BY <1>3, <1>4, <1>5 DEF States
<1>7. Steady /\ DataInBuffer' /\ End' = End /\ InPlace(g'.data, g'.pos)
  BY <1>5, <1>6 DEF Steady, DataInBuffer, End
<1>8. CallInv' /\ Made = <<>> /\ Made' = <<>> /\ ~Running' /\ c'.pc # "decomp"
  BY <1>1, CallKept
<1> QED  BY <1>1, <1>5, <1>6, <1>7, <1>8, SteadyPlaced

\* A seek that changes nothing but that none is pending.
LEMMA SeekFailedPlaced ==
  ASSUME PlacedInv, Idle, Calling, disk' = disk, fd' = fd, z' = z, seen' = seen, c' = c,
         ~Fatal(g.err), g' = [g EXCEPT !.seek = FALSE]
  PROVE  PlacedInv'
<1>1. CallInv /\ g \in States /\ DataInBuffer /\ Sound /\ InPlace(g.data, g.pos) /\ c.pc = "idle"
  BY DEF PlacedInv, StateInv, Sound, Idle, PlaceInv
<1>2. Steady /\ g'.data = g.data /\ g'.pos = g.pos /\ g'.next = g.next /\ g'.err = g.err
  BY <1>1 DEF Steady, States
<1>3. CallInv' /\ Made = <<>> /\ Made' = <<>> /\ ~Running' /\ c'.pc # "decomp"
  BY <1>1, CallKept
<1>4. DataInBuffer' /\ End' = End
  BY <1>1, <1>2 DEF DataInBuffer, Steady, End
<1> QED  BY <1>1, <1>2, <1>3, <1>4, SteadyPlaced

\* A seek back: to the start, and forward from there.
LEMMA BackPlaced ==
  ASSUME PlacedInv, Idle, Calling, disk' = disk, z' = z, seen' = seen, c' = c, fd' = Start,
         NEW h, AtStart(h), NEW off \in Nat, NEW n, SkippedTo(h, g', n, off)
  PROVE  PlacedInv'
<1>1. CallInv /\ c.pc = "idle"
  BY DEF PlacedInv, Idle
<1>2. h \in States /\ h.data = <<>> /\ Len(<<>>) = 0 /\ h.next \in Int /\ h.skip \in Nat /\ h.pos = 0
  BY EmptyInt DEF AtStart, States
<1>3. n = 0 /\ off \in Nat
  BY <1>2 DEF SkippedTo
<1> DEFINE x == IF off # 0 THEN off ELSE h.skip
<1>4. SubSeq(<<>>, 1, 0) = <<>>
  BY EmptyInt, SubSeqEmpty
<1>5. g' = [h EXCEPT !.data = <<>>, !.next = h.next, !.pos = 0, !.seek = off # 0, !.skip = x]
  <2>1. g' = [h EXCEPT !.data = SubSeq(h.data, n + 1, Len(h.data)), !.next = h.next + n,
                       !.pos = h.pos + n, !.seek = off - n # 0,
                       !.skip = IF off - n # 0 THEN off - n ELSE h.skip]
    BY DEF SkippedTo
  <2>2. n + 1 = 1 /\ h.next + n = h.next /\ h.pos + n = 0 /\ off - n = off
    BY <1>2, <1>3
  <2>3. SubSeq(h.data, n + 1, Len(h.data)) = <<>>
    BY <1>2, <1>4, <2>2
  <2> QED  BY <2>1, <2>2, <2>3
<1>6. x \in Nat
  BY <1>2
<1> HIDE DEF x
<1>7. /\ g' \in States /\ g'.mode = h.mode /\ g'.size = h.size /\ g'.in = h.in /\ g'.data = <<>>
      /\ g'.how = h.how /\ g'.pos = 0 /\ g'.eof = h.eof /\ g'.err = h.err
  BY <1>2, <1>5, <1>6, EmptyInt DEF States
<1>8. CallInv' /\ Made' = <<>> /\ c'.pc # "decomp"
  BY <1>1, CallKept
<1> QED  BY <1>7, <1>8, StartPlaced DEF AtStart

\* What a seek does: nothing, a move in raw data, or a skip from here or from
\* the start.
SeekDone ==
  \/ (g' = g \/ g' = [g EXCEPT !.seek = FALSE]) /\ fd' = fd
  \/ g.how = "COPY" /\ \E off \in Int : \E k \in Nat : RawMoved(off, k)
  \/ /\ ~Fatal(g.err) /\ fd' = fd
     /\ \E off \in Nat : \E n : SkippedTo([g EXCEPT !.seek = FALSE], g', n, off)
  \/ \E h : /\ AtStart(h) /\ h.direct = g.direct
            /\ \E off \in Nat : \E n : SkippedTo(h, g', n, off)

\* after a rewind when it goes back.
LEMMA GzSeekPlaced ==
  ASSUME PlacedInv, NEW s \in Seeks, GzSeek(s[1], s[2])
  PROVE  PlacedInv' /\ SeekDone
<1> DEFINE off == Relative(g, s[1], s[2])
           h == [g EXCEPT !.seek = FALSE]
           r == gzseek64(g, fd, Start, s[1], s[2], Can)
<1>0. /\ Idle /\ app.calls < MaxCalls /\ app' = [app EXCEPT !.calls = @ + 1]
      /\ disk' = disk /\ z' = z /\ seen' = seen /\ c' = c /\ g' = r.g /\ fd' = r.fd
  BY DEF GzSeek, Call
<1>1. /\ CallInv /\ Calling /\ g \in States /\ g.mode = "READ" /\ c.pc = "idle"
      /\ (g.size = 0 \/ g.size >= 2)
  BY <1>0, AtIdle DEF Idle, PlacedInv, StateInv
<1>2. off \in Int
  <2>1. s[1] \in Int
    <3>1. s \in Int \X {"SET", "CUR", "END"}
      BY UseFacts DEF PlacedInv, DiskInv
    <3> QED  BY <3>1
  <2> QED  BY <1>1, <2>1, StateTypes DEF Relative
<1>3. h \in States /\ h.mode = "READ" /\ h.size = g.size /\ h.data = g.data /\ h.pos = g.pos
      /\ h.how = g.how /\ h.err = g.err /\ h.direct = g.direct
  BY <1>1 DEF States
<1> HIDE DEF off, h
<1>4. CASE Fatal(g.err) \/ s[2] = "END"
  <2>1. g' = g /\ fd' = fd
    BY <1>0, <1>4 DEF gzseek64
  <2> QED  BY <1>0, <2>1, OncePlaced DEF SeekDone
<1>5. CASE ~(Fatal(g.err) \/ s[2] = "END") /\ InRawArea(g, off)
  <2>1. r = RawSeek(h, fd, off, Can)
    BY <1>5 DEF gzseek64, off, h
  <2>2. CASE ~Can \/ fd + off - Len(h.data) < 0
    <3>1. g' = h /\ fd' = fd
      BY <1>0, <2>1, <2>2 DEF RawSeek
    <3> QED  BY <1>0, <1>1, <1>5, <3>1, SeekFailedPlaced DEF h, SeekDone
  <2>3. CASE ~(~Can \/ fd + off - Len(h.data) < 0)
    <3>1. /\ g' = gz_error([h EXCEPT !.data = <<>>, !.eof = FALSE, !.past = FALSE,
                                     !.in = <<>>, !.pos = @ + off], "OK")
          /\ fd' = fd + off - Len(g.data)
      BY <1>0, <1>3, <2>1, <2>3 DEF RawSeek
    <3>2. fd + off - Len(g.data) >= 0
      <4> DEFINE k == Len(g.data)
      <4>1. fd \in Nat /\ k \in Nat
        BY <1>1, StateTypes DEF PlacedInv, DiskInv
      <4>2. ~(fd + off - k < 0)
        BY <1>3, <2>3, Zenon
      <4> HIDE DEF k
      <4>3. fd + off - k >= 0
        BY <1>2, <4>1, <4>2
      <4> QED  BY <4>3 DEF k
    <3>3. g.how = "COPY"
      BY <1>5 DEF InRawArea
    <3> DEFINE k == Len(g.data)
    <3>4. k \in Nat /\ k = Len(g.data) /\ fd + off - k >= 0 /\ fd' = fd + off - k
      BY <1>1, <3>1, <3>2, StateTypes
    <3> HIDE DEF k
    <3>5. g' = gz_error([[g EXCEPT !.seek = FALSE] EXCEPT
                !.data = <<>>, !.eof = FALSE, !.past = FALSE, !.in = <<>>, !.pos = @ + off], "OK")
      BY <3>1 DEF h
    <3>6. RawMoved(off, k)
      BY <3>4, <3>5, Zenon DEF RawMoved
    <3>7. PlacedInv'
      BY <1>0, <1>1, <1>2, <1>5, <3>3, <3>4, <3>6, RawSeekPlaced
    <3> QED  BY <1>2, <3>3, <3>4, <3>6, <3>7 DEF SeekDone
  <2> QED  BY <2>2, <2>3
<1>6. CASE ~(Fatal(g.err) \/ s[2] = "END") /\ ~InRawArea(g, off)
  <2> DEFINE back == gzrewind(h, fd, Start, Can)
  <2>1. r = SkipSeek(h, fd, Start, off, Can)
    BY <1>6 DEF gzseek64, off, h
  <2>2. CASE off >= 0
    <3>1. g' = SkipRequest(h, off) /\ fd' = fd
      BY <1>0, <1>2, <2>1, <2>2 DEF SkipSeek
    <3>2. off \in Nat
      BY <1>2, <2>2
    <3>3. SkippedTo(h, g', Least(Len(h.data), off), off)
      BY <1>3, <3>1, <3>2, SkipRequestOK
    <3>4. PlacedInv'
      BY <1>0, <1>1, <1>6, <3>1, <3>2, <3>3, ForwardPlaced DEF h
    <3> QED  BY <1>6, <3>1, <3>2, <3>3, <3>4 DEF h, SeekDone
  <2>3. CASE off < 0 /\ (off + h.pos < 0 \/ back.ret = -1)
    <3>1. g' = h /\ fd' = fd
      BY <1>0, <1>2, <2>1, <2>3 DEF SkipSeek
    <3> QED  BY <1>0, <1>1, <1>6, <3>1, SeekFailedPlaced DEF h, SeekDone
  <2>4. CASE off < 0 /\ ~(off + h.pos < 0 \/ back.ret = -1)
    <3>1. g' = SkipRequest(back.g, off + h.pos) /\ fd' = back.fd
      BY <1>0, <1>2, <1>3, <2>1, <2>4 DEF SkipSeek
    <3>2. back.g = gz_reset(h) /\ back.fd = Start
      BY <1>3, <2>4 DEF gzrewind
    <3>3. AtStart(back.g) /\ back.g.direct = g.direct
      BY <1>1, <1>3, <3>2, ResetOK
    <3>4. off + h.pos \in Nat
      <4>1. h.pos \in Int
        BY <1>3 DEF States
      <4> QED  BY <1>2, <2>4, <4>1
    <3> HIDE DEF back
    <3>5. SkippedTo(back.g, g', Least(Len(back.g.data), off + h.pos), off + h.pos)
      BY <3>1, <3>3, <3>4, SkipRequestOK DEF AtStart
    <3>6. PlacedInv'
      BY <1>0, <1>1, <3>1, <3>2, <3>3, <3>4, <3>5, BackPlaced
    <3> QED  BY <3>3, <3>4, <3>5, <3>6 DEF SeekDone
  <2> QED  BY <1>2, <2>2, <2>3, <2>4
<1> QED  BY <1>4, <1>5, <1>6

-----------------------------------------------------------------------------
(* The file grows.                                                         *)

\* Whether a file is a file does not depend on how far it has grown.
LEMMA FileSame ==
  ASSUME NEW f, NEW h, h.cells = f.cells, h.grows = f.grows, NEW start, FileOK(f, start)
  PROVE  FileOK(h, start)
<1>1. Final(h) = Final(f)
  BY DEF Final
<1>2. ASSUME NEW o
      PROVE  /\ NoData(h, o) <=> NoData(f, o)
             /\ Marked(h, o) <=> Marked(f, o)
             /\ HeaderAt(h, o) <=> HeaderAt(f, o)
  <2>1. NoData(h, o) <=> NoData(f, o)
    BY <1>1 DEF NoData
  <2>2. Marked(h, o) <=> Marked(f, o)
    BY <1>1 DEF Marked
  <2>3. HeaderAt(h, o) <=> HeaderAt(f, o)
    BY <1>1 DEF HeaderAt
  <2> QED  BY <2>1, <2>2, <2>3
<1>3. MemberPlaces(h, start) = MemberPlaces(f, start)
  BY <1>1 DEF MemberPlaces
<1>4. /\ h.cells \in Seq(CellTypes)
      /\ h.grows \in Seq(Nat) /\ h.grows # <<>> /\ Final(h) <= Len(h.cells)
      /\ \A i, j \in DOMAIN h.grows : i <= j => h.grows[i] <= h.grows[j]
  BY <1>1 DEF FileOK
<1>5. \A o \in start .. Final(h) - 1 :
        /\ h.cells[o + 1].out = Offsets(DataBefore(h.cells, start, o), Len(h.cells[o + 1].out))
        /\ h.cells[o + 1].gz \/ h.cells[o + 1].out = <<>>
  BY <1>1 DEF FileOK
<1>6. \A o \in MemberPlaces(h, start) :
        /\ HeaderAt(h, o) \/ NoData(h, o)
        /\ Marked(h, o) => \A i \in DOMAIN h.grows : h.grows[i] # o + 1
  <2> TAKE o \in MemberPlaces(h, start)
  <2>1. /\ HeaderAt(f, o) \/ NoData(f, o)
        /\ Marked(f, o) => \A i \in DOMAIN f.grows : f.grows[i] # o + 1
    BY <1>3, Zenon DEF FileOK
  <2>2. /\ NoData(h, o) <=> NoData(f, o)
        /\ Marked(h, o) <=> Marked(f, o)
        /\ HeaderAt(h, o) <=> HeaderAt(f, o)
    BY <1>2, Zenon
  <2> QED  BY <2>1, <2>2
<1> QED  BY <1>4, <1>5, <1>6 DEF FileOK

\* A file that grows keeps what has been read of it.
LEMMA GrowPlaced ==
  ASSUME PlacedInv, Grow
  PROVE  PlacedInv'
<1>0. /\ DiskInv /\ disk' = [disk EXCEPT !.at = @ + 1] /\ disk.at < Len(disk.grows)
      /\ fd' = fd /\ g' = g /\ z' = z /\ c' = c /\ seen' = seen /\ app' = app
  BY DEF PlacedInv, Grow
<1>1. disk'.cells = disk.cells /\ disk'.grows = disk.grows /\ disk'.at = disk.at + 1
      /\ disk' = [cells |-> disk'.cells, grows |-> disk'.grows, at |-> disk'.at]
  BY <1>0 DEF DiskInv
<1>2. Start' = Start /\ MaxCalls' = MaxCalls /\ Final(disk') = Final(disk)
      /\ \A o : Before(o)' = Before(o)
  BY <1>0, <1>1 DEF Start, MaxCalls, Final, Before
<1>3. DiskInv' /\ Visible <= Visible' /\ Visible \in Nat /\ Visible' \in Nat
  <2>1. FileOK(disk', Start)
    BY <1>0, <1>1, FileSame DEF DiskInv
  <2>2. disk.at \in 1 .. Len(disk.grows) /\ Len(disk.grows) \in Nat
        /\ DOMAIN disk.grows = 1 .. Len(disk.grows)
    BY <1>0, DiskTypes, FileFacts DEF DiskInv
  <2>3. disk'.at \in 1 .. Len(disk'.grows) /\ disk.at <= disk'.at
    BY <1>0, <1>1, <2>2
  <2>4. Visible <= Visible'
    BY <1>0, <1>1, <2>2, <2>3 DEF DiskInv, FileOK, Visible
  <2>5. DiskInv'
    BY <1>0, <1>1, <1>2, <2>1, <2>3 DEF DiskInv
  <2>6. \A i \in DOMAIN disk.grows : disk.grows[i] \in Nat
    BY <1>0, <2>2, ElementOfSeq DEF DiskInv, FileOK
  <2> QED  BY <1>1, <2>2, <2>3, <2>4, <2>5, <2>6 DEF Visible
<1>4. StateInv' /\ FatalInv' /\ CallInv'
  BY <1>0 DEF PlacedInv, StateInv, FatalInv, FatalData, CallInv, DataInBuffer, Running
<1>5. Here' = Here /\ End' = End /\ Made' = Made /\ Held' = Held /\ (Sound' <=> Sound)
  BY <1>0 DEF Here, End, Made, Held, Sound, Running
<1>6. ASSUME PlaceInv
      PROVE  PlaceInv'
  <2>1. InputInv'
    <3>1. fd \in Nat
      BY <1>0 DEF DiskInv
    <3>2. fd <= Visible => fd <= Visible'
      BY <1>3, <3>1
    <3> QED  BY <1>0, <1>1, <1>2, <1>5, <1>6, <3>2 DEF PlaceInv, InputInv
  <2>2. MemberInv => MemberInv'
    <3>1. Here \in Int
      BY <1>0, StateTypes DEF DiskInv, Here, PlacedInv, StateInv
    <3>2. Here <= Visible => Here <= Visible'
      BY <1>3, <3>1
    <3>3. Before(Here)' = Before(Here)
      BY <1>2, <1>5 DEF Before
    <3>4. Resumes(disk, Here) => Resumes(disk', Here)
      BY <1>1, <1>2 DEF Resumes, NoData, HeaderAt
    <3> QED  BY <1>0, <1>2, <1>5, <3>2, <3>3, <3>4 DEF MemberInv
  <2> QED  BY <1>0, <1>2, <1>5, <1>6, <2>1, <2>2 DEF PlaceInv
<1> QED  BY <1>3, <1>4, <1>5, <1>6 DEF PlacedInv

-----------------------------------------------------------------------------
(* Steps that read the file, look for a header or decode.                  *)

\* What gz_load brings.
LEMMA LoadsOK ==
  ASSUME DiskInv, NEW len \in Nat, NEW l \in Loads(len)
  PROVE  /\ l.n \in Nat /\ l.n <= len /\ l.eof \in BOOLEAN /\ l.err \in BOOLEAN
         /\ l.n = 0 \/ fd + l.n <= Visible
         /\ l.eof => ~l.err /\ l.n < len /\ (fd + l.n = Visible \/ (Visible <= fd /\ l.n = 0))
         /\ ~l.err /\ l.n < len => l.eof
         /\ l.err => ~l.eof
<1> DEFINE k == IF Visible > fd THEN Least(len, Visible - fd) ELSE 0
<1>1. Visible \in Nat /\ fd \in Nat
  BY DiskTypes
<1>2. k \in Nat /\ k <= len /\ (k = 0 \/ fd + k <= Visible)
      /\ (k < len => fd + k = Visible \/ (Visible <= fd /\ k = 0))
  BY <1>1 DEF Least
<1>3. \/ l = [n |-> k, eof |-> k < len, err |-> FALSE]
      \/ \E j \in 0 .. Least(k, len - 1) : l = [n |-> j, eof |-> FALSE, err |-> TRUE]
  BY DEF Loads
<1> HIDE DEF k
<1>4. CASE l = [n |-> k, eof |-> k < len, err |-> FALSE]
  <2>1. l.n = k /\ l.eof = (k < len) /\ l.err = FALSE
    BY <1>4
  <2>2. l.eof <=> k < len
    BY <2>1
  <2>3. l.eof \in BOOLEAN
    BY <1>2, <2>1
  <2> QED  BY <1>2, <2>1, <2>2, <2>3
<1>5. CASE \E j \in 0 .. Least(k, len - 1) : l = [n |-> j, eof |-> FALSE, err |-> TRUE]
  <2>1. PICK j \in 0 .. Least(k, len - 1) : l = [n |-> j, eof |-> FALSE, err |-> TRUE]
    BY <1>5
  <2>2. j \in Nat /\ j <= k /\ j <= len
    BY <1>2, <2>1 DEF Least
  <2>3. j = 0 \/ fd + j <= Visible
    BY <1>1, <1>2, <2>2
  <2> QED  BY <2>1, <2>2, <2>3
<1> QED  BY <1>3, <1>4, <1>5

\* What a step leaves of the file, and where it may read to.
LEMMA ReadDisk ==
  ASSUME DiskInv, Calling, disk' = disk, NEW n \in Nat, fd' = fd + n,
         seen' \in {seen, Visible}
  PROVE  /\ DiskInv' /\ Start' = Start /\ Visible' = Visible
         /\ \A o : Before(o)' = Before(o)
<1>1. /\ Start' = Start /\ Visible' = Visible /\ MaxCalls' = MaxCalls
      /\ app' \in [use : DOMAIN Uses, calls : Nat] /\ app'.calls <= MaxCalls
      /\ \A o : Before(o)' = Before(o)
  BY UseSame
<1>2. Visible \in Nat /\ fd \in Nat /\ seen \in Nat
  BY DiskTypes
<1> QED  BY <1>1, <1>2 DEF DiskInv

\* A raw file, read into the output buffer or to the caller's.
LEMMA CopyPlaced ==
  ASSUME PlacedInv, Calling, disk' = disk, z' = z, NEW n \in Nat, fd' = fd + n,
         seen' \in {seen, Visible}, g.how = "COPY", Sound, Made = <<>>,
         g' \in States, g'.mode = "READ", g'.size = g.size, g'.in = g.in, g'.how = "COPY",
         g'.direct = g.direct, DataInBuffer', CallInv', Made' = <<>>, c'.pc # "decomp",
         ~Fatal(g'.err) \/ (g'.data = <<>> /\ ~Running'),
         Sound' => InPlace(g'.data, g'.pos) /\ End' = End + n
  PROVE  PlacedInv'
<1>1. DiskInv /\ PlaceInv /\ g \in States /\ (g.size = 0 \/ g.size >= 2) /\ z \in Seq(Int)
      /\ Len(g.in) <= g.size
  BY DEF PlacedInv, StateInv
<1>2. /\ DiskInv' /\ Start' = Start /\ Visible' = Visible
  BY <1>1, ReadDisk
<1>3. g.in = <<>> /\ End = fd - Start /\ g.direct /\ Start \in Nat /\ fd \in Nat
  BY <1>1, DiskTypes DEF PlaceInv
<1>4. StateInv' /\ FatalInv'
  BY <1>1 DEF PlacedInv, StateInv, FatalInv, FatalData
<1>5. ASSUME Sound'
      PROVE  PlaceInv'
  <2>1. End' = fd' - Start'
    BY <1>2, <1>3, <1>5
  <2>2. InputInv'
    <3>1. \A p : Offsets(p, 0) = <<>>
      BY DEF Offsets
    <3>2. Len(<<>>) = 0
      BY EmptyInt
    <3> QED  BY <1>3, <3>1, <3>2 DEF InputInv
  <2> QED  BY <1>3, <1>5, <2>1, <2>2 DEF PlaceInv
<1> QED  BY <1>2, <1>4, <1>5 DEF PlacedInv

\* gz_fetch reads raw data into the output buffer,
LEMMA FetchCopyPlaced ==
  ASSUME PlacedInv, FetchCopy
  PROVE  PlacedInv'
<1>0. /\ c.pc = "fetch" /\ g.how = "COPY" /\ disk' = disk /\ z' = z /\ app' = app
  BY DEF FetchCopy
<1>1. /\ CallInv /\ c \in CallStates /\ Sound /\ Running /\ Made = <<>> /\ Calling
      /\ g \in States /\ DiskInv /\ g.data = <<>> /\ ~Fatal(g.err)
      /\ g.mode = "READ" /\ c.op # "gzdirect" /\ c.back \in Backs /\ PlaceInv
  BY <1>0, InStep DEF PlacedInv, CallInv, StateInv, FatalData
<1>2. /\ 2 * g.size \in Nat /\ g.pos \in Int /\ Start \in Nat /\ fd \in Nat
      /\ fd - Start = g.pos
  <2>1. g.size \in Nat /\ g.pos \in Int /\ Start \in Nat /\ fd \in Nat
    BY <1>1, StateTypes, DiskTypes
  <2>2. g.pos + 0 = fd - Start
    BY <1>0, <1>1, EmptyInt DEF PlaceInv, End
  <2> QED  BY <2>1, <2>2
<1>3. PICK l \in Loads(2 * g.size) :
        /\ fd' = fd + l.n
        /\ seen' = SeenBy(l)
        /\ g' = IF l.err THEN Loaded(g, l)
                ELSE [Loaded(g, l) EXCEPT !.data = Offsets(fd - Start, l.n), !.next = 0]
        /\ IF l.err THEN Fail(g') ELSE c' = [c EXCEPT !.pc = c.back] /\ UNCHANGED ret
  BY DEF FetchCopy
<1>4. l.n \in Nat /\ l.n <= 2 * g.size /\ l.eof \in BOOLEAN
  BY <1>1, <1>2, <1>3, LoadsOK
<1>5. seen' \in {seen, Visible}
  BY <1>3 DEF SeenBy
<1>6. CASE l.err
  <2>1. g' = gz_error(g, "ERRNO") /\ c' = NoCall
    BY <1>3, <1>6 DEF Loaded, Fail, ReadDone, GetsDone
  <2>2. /\ g' \in States /\ g'.mode = "READ" /\ g'.size = g.size /\ g'.in = g.in /\ g'.how = "COPY"
        /\ g'.direct = g.direct /\ g'.data = <<>> /\ g'.err = "ERRNO"
    BY <1>0, <1>1, <2>1, EmptyInt DEF States, gz_error, Errors, Fatal
  <2>3. CallInv' /\ Made' = <<>> /\ c'.pc # "decomp" /\ ~Running'
    BY <2>1, CallOver
  <2>4. ~Sound' /\ DataInBuffer'
    BY <2>2, <2>3 DEF Sound, Fatal, DataInBuffer
  <2> QED  BY <1>0, <1>1, <1>3, <1>4, <1>5, <2>2, <2>3, <2>4, CopyPlaced
<1>7. CASE ~l.err
  <2> DEFINE d == Offsets(fd - Start, l.n)
             e == g.eof \/ l.eof
  <2>1. g' = [g EXCEPT !.eof = e, !.data = d, !.next = 0] /\ c' = [c EXCEPT !.pc = c.back]
    BY <1>3, <1>7 DEF Loaded
  <2>2. d \in Seq(Int) /\ Len(d) = l.n /\ Run(g.pos, d)
    BY <1>2, <1>4, RunOffsets
  <2>3. e \in BOOLEAN
    BY <1>1, <1>4, StateTypes
  <2>10. 0 \in Int
    OBVIOUS
  <2> HIDE DEF d, e
  <2>4. /\ g' \in States /\ g'.mode = "READ" /\ g'.size = g.size /\ g'.in = g.in /\ g'.how = "COPY"
        /\ g'.direct = g.direct /\ g'.data = d /\ g'.next = 0 /\ g'.err = g.err /\ g'.pos = g.pos
    <3>1. g \in States /\ g.mode = "READ" /\ g.how = "COPY"
      BY <1>0, <1>1
    <3>2. g' = [g EXCEPT !.eof = e, !.data = d, !.next = 0] /\ d \in Seq(Int)
      BY <2>1, <2>2
    <3> QED  BY <2>3, <2>10, <3>1, <3>2 DEF States
  <2>5. c' \in CallStates /\ c'.pc = c.back /\ c'.op = c.op /\ c'.pc \in {"skip", "read", "gets"}
    BY <1>1, <2>1 DEF CallStates, Pcs, Backs
  <2>6. CallInv' /\ Made' = <<>> /\ c'.pc # "decomp"
    BY <1>1, <2>5 DEF CallInv, Made
  <2>7. DataInBuffer'
    BY <1>2, <1>4, <2>2, <2>4 DEF DataInBuffer
  <2>8. InPlace(g'.data, g'.pos)
    <3>1. g.pos + Len(d) \in Int /\ g.pos + Len(d) <= g.pos + Len(d)
      BY <1>2, <1>4, <2>2
    <3> QED  BY <1>2, <2>2, <2>4, <3>1, RunInPlace
  <2>9. End' = End + l.n
    <3>1. End' = g.pos + l.n
      BY <2>2, <2>4 DEF End
    <3>2. End = g.pos + 0
      BY <1>1, EmptyInt DEF End
    <3> QED  BY <1>2, <1>4, <3>1, <3>2
  <2> QED  BY <1>0, <1>1, <1>3, <1>4, <1>5, <2>4, <2>6, <2>7, <2>8, <2>9, CopyPlaced
<1> QED  BY <1>6, <1>7

\* and gz_read reads it into the caller's.
LEMMA ReadLoadPlaced ==
  ASSUME PlacedInv, ReadLoad
  PROVE  PlacedInv'
<1>0. /\ c.pc = "read" /\ g.how = "COPY" /\ g.data = <<>> /\ disk' = disk /\ z' = z /\ app' = app
  BY DEF ReadLoad
<1>1. /\ CallInv /\ c \in CallStates /\ Sound /\ Running /\ Made = <<>> /\ Calling
      /\ g \in States /\ DiskInv /\ ~Fatal(g.err)
      /\ g.mode = "READ"
  BY <1>0, InStep DEF PlacedInv, StateInv, FatalData
<1>2. g.pos \in Int /\ Start \in Nat /\ fd \in Nat /\ c.left \in Nat
  BY <1>1, StateTypes, DiskTypes, CallTypes
<1>3. PICK l \in Loads(c.left) :
        /\ fd' = fd + l.n
        /\ seen' = SeenBy(l)
        /\ g' = IF l.err THEN Loaded(g, l) ELSE [Loaded(g, l) EXCEPT !.pos = @ + l.n]
        /\ IF l.err THEN Fail(g')
           ELSE IF l.n = c.left THEN ReadDone(g', c.got \o Offsets(fd - Start, l.n))
           ELSE /\ c' = [c EXCEPT !.left = @ - l.n, !.got = @ \o Offsets(fd - Start, l.n)]
                /\ UNCHANGED ret
  BY DEF ReadLoad
<1>4. l.n \in Nat /\ l.n <= c.left /\ l.eof \in BOOLEAN
  BY <1>1, <1>2, <1>3, LoadsOK
<1>5. seen' \in {seen, Visible}
  BY <1>3 DEF SeenBy
<1>6. CASE l.err
  <2>1. g' = gz_error(g, "ERRNO") /\ c' = NoCall
    BY <1>3, <1>6 DEF Loaded, Fail, ReadDone, GetsDone
  <2>2. /\ g' \in States /\ g'.mode = "READ" /\ g'.size = g.size /\ g'.in = g.in /\ g'.how = "COPY"
        /\ g'.direct = g.direct /\ g'.data = <<>> /\ g'.err = "ERRNO"
    BY <1>0, <1>1, <2>1, EmptyInt DEF States, gz_error, Errors, Fatal
  <2>3. CallInv' /\ Made' = <<>> /\ c'.pc # "decomp" /\ ~Running'
    BY <2>1, CallOver
  <2>4. ~Sound' /\ DataInBuffer'
    BY <2>2, <2>3 DEF Sound, Fatal, DataInBuffer
  <2> QED  BY <1>0, <1>1, <1>3, <1>4, <1>5, <2>2, <2>3, <2>4, CopyPlaced
<1>7. CASE ~l.err
  <2> DEFINE p == g.pos + l.n
             e == g.eof \/ l.eof
             s == Offsets(fd - Start, l.n)
  <2>1. g' = [g EXCEPT !.eof = e, !.pos = p]
    BY <1>1, <1>3, <1>7 DEF Loaded, States
  <2>2. p \in Int /\ e \in BOOLEAN
    BY <1>1, <1>2, <1>4, StateTypes
  <2>3. s \in Seq(Int)
    BY <1>2, <1>4, RunOffsets
  <2>4. c' = NoCall \/ c' = [c EXCEPT !.left = @ - l.n, !.got = @ \o s]
    BY <1>3, <1>7 DEF ReadDone
  <2> HIDE DEF p, e, s
  <2>5. /\ g' \in States /\ g'.mode = "READ" /\ g'.size = g.size /\ g'.in = g.in /\ g'.how = "COPY"
        /\ g'.direct = g.direct /\ g'.data = <<>> /\ g'.err = g.err /\ g'.pos = p
    BY <1>0, <1>1, <2>1, <2>2 DEF States
  <2>6. CallInv' /\ Made' = <<>> /\ c'.pc # "decomp"
    <3>1. CASE c' = NoCall
      BY <3>1, CallOver
    <3>2. CASE c' = [c EXCEPT !.left = @ - l.n, !.got = @ \o s]
      <4>1. c' = [c EXCEPT !.left = c.left - l.n, !.got = c.got \o s, !.tried = c.tried]
        BY <1>1, <3>2 DEF CallStates
      <4>2. c.tried \in BOOLEAN /\ l.n \in 0 .. c.left
        BY <1>1, <1>2, <1>4, CallTypes
      <4> QED  BY <1>0, <1>1, <2>3, <4>1, <4>2, CallGoes
    <3> QED  BY <2>4, <3>1, <3>2
  <2>7. DataInBuffer' /\ InPlace(g'.data, g'.pos)
    BY <2>5, EmptyInPlace DEF DataInBuffer
  <2>8. End' = End + l.n
    <3>1. End' = (g.pos + l.n) + 0
      BY <2>5, EmptyInt DEF End, p
    <3>2. End = g.pos + 0
      BY <1>0, EmptyInt DEF End
    <3> QED  BY <1>2, <1>4, <3>1, <3>2
  <2> QED  BY <1>0, <1>1, <1>3, <1>4, <1>5, <2>5, <2>6, <2>7, <2>8, CopyPlaced
<1> QED  BY <1>6, <1>7

\* Before gzopen nothing has been read.
LEMMA InitPlaced ==
  ASSUME Init
  PROVE  PlacedInv /\ AtStart(g) /\ g.direct
<1>1. app \in [use : DOMAIN Uses, calls : Nat] /\ app.calls = 0 /\ app.use \in DOMAIN Uses
  BY DEF Init
<1>2. Start \in Nat /\ MaxCalls \in Nat
  BY <1>1, UseFacts
<1>3. PICK f \in Files[app.use] : disk = [cells |-> f.cells, grows |-> f.grows, at |-> 1]
  BY DEF Init
<1>4. disk.cells = f.cells /\ disk.grows = f.grows /\ disk.at = 1
      /\ disk = [cells |-> disk.cells, grows |-> disk.grows, at |-> disk.at]
  BY <1>3
<1>5. FileOK(disk, Start)
  <2>1. FileOK(f, Start)
    BY <1>1, <1>3, UsesAssumption DEF Start
  <2> QED  BY <1>4, <2>1, FileSame
<1>6. DiskInv
  <2>1. disk.grows \in Seq(Nat) /\ disk.grows # <<>>
    BY <1>5 DEF FileOK
  <2>2. Len(disk.grows) \in Nat \ {0}
    BY <2>1, EmptySeq, LenProperties
  <2>3. fd = Start /\ seen = 0
    BY DEF Init
  <2> QED  BY <1>1, <1>2, <1>4, <1>5, <2>2, <2>3 DEF DiskInv
<1>7. AtStart(g) /\ g.direct
  <2> DEFINE m == <<"r">>
  <2>1. IsMode(m)
    BY DEF IsMode
  <2>2. OpenMode(m) = "r"
    <3>1. LastOf(m, {"r", "w", "a"}, "NONE") \in ({"r", "w", "a"} \cap {m[i] : i \in DOMAIN m}) \cup {"NONE"}
      BY <2>1, LastOfType
    <3>2. {m[i] : i \in DOMAIN m} = {"r"} /\ DOMAIN m = {1} /\ m[1] = "r"
      OBVIOUS
    <3>3. {i \in DOMAIN m : m[i] \in {"r", "w", "a"}} = {1}
      BY <3>2
    <3> HIDE DEF m
    <3>4. LastOf(m, {"r", "w", "a"}, "NONE") = m[CHOOSE i \in {1} : \A j \in {1} : j <= i]
      BY <3>3 DEF LastOf
    <3>5. (CHOOSE i \in {1} : \A j \in {1} : j <= i) = 1
      OBVIOUS
    <3> QED  BY <3>2, <3>4, <3>5 DEF OpenMode
  <2> HIDE DEF m
  <2>3. g = gz_open(m)
    BY DEF Init, m
  <2> QED  BY <2>1, <2>2, <2>3, OpenedOK
<1>8. /\ c \in CallStates /\ c.pc = "closed" /\ c.op = "none" /\ z = <<>>
  <2>1. NoCall \in CallStates /\ NoCall.op = "none"
    <3>1. <<>> \in Seq(Int)
      BY EmptyInt
    <3> QED  BY <3>1 DEF NoCall, CallStates, Pcs, Ops
  <2>2. c = [NoCall EXCEPT !.pc = "closed"] /\ z = <<>>
    BY DEF Init
  <2> QED  BY <2>1, <2>2 DEF CallStates, Pcs
<1>9. CallInv
  BY <1>8 DEF CallInv
<1>10. StateInv /\ FatalInv
  <2>1. /\ g \in States /\ g.mode = "READ" /\ (g.size = 0 \/ g.size >= 2)
        /\ g.in = <<>> /\ g.data = <<>> /\ g.err = "OK" /\ g.how = "LOOK"
    BY <1>7 DEF AtStart
  <2>2. Len(<<>>) = 0 /\ <<>> \in Seq(Int) /\ g.size \in Nat
    BY <2>1, StateTypes, EmptyInt
  <2>3. StateInv
    BY <1>8, <2>1, <2>2 DEF StateInv, DataInBuffer
  <2>4. FatalInv
    BY <2>1 DEF FatalInv, FatalData, Fatal
  <2> QED  BY <2>3, <2>4
<1>11. PlaceInv
  <2>1. g.in = <<>> /\ g.data = <<>> /\ g.pos = 0 /\ g.how = "LOOK" /\ fd = Start /\ Len(<<>>) = 0
    BY <1>7, EmptyInt DEF AtStart, Init
  <2>2. Here = Start /\ End = 0
    BY <1>2, <2>1 DEF Here, End
  <2>3. InputInv
    <3>1. \A p : Offsets(p, 0) = <<>>
      BY DEF Offsets
    <3> QED  BY <2>1, <3>1 DEF InputInv
  <2> QED  BY <1>7, <1>8, <2>1, <2>2, <2>3, EmptyInPlace DEF PlaceInv
<1> QED  BY <1>6, <1>7, <1>9, <1>10, <1>11 DEF PlacedInv
-----------------------------------------------------------------------------
(* gz_look.                                                                *)

\* Consecutive offsets, put together.
LEMMA OffsetsConcat ==
  ASSUME NEW o \in Nat, NEW n \in Nat, NEW m \in Nat
  PROVE  Offsets(o, n) \o Offsets(o + n, m) = Offsets(o, n + m)
<1> DEFINE s == Offsets(o, n)
           t == Offsets(o + n, m)
<1>1. /\ s \in Seq(Int) /\ Len(s) = n /\ t \in Seq(Int) /\ Len(t) = m
      /\ Run(o, s) /\ Run(o + n, t)
  BY RunOffsets
<1> HIDE DEF s, t
<1>2. Run(o, s \o t) /\ s \o t \in Seq(Int) /\ Len(s \o t) = n + m
  <2>1. o \in Int /\ Run(o + Len(s), t)
    BY <1>1
  <2>2. Run(o, s \o t) /\ s \o t \in Seq(Int) /\ Len(s \o t) = Len(s) + Len(t)
    BY <1>1, <2>1, RunConcat, Zenon
  <2> QED  BY <1>1, <2>2
<1> DEFINE u == s \o t
<1> HIDE DEF u
<1>3. u \in Seq(Int) /\ Len(u) = n + m /\ Run(o, u)
  BY <1>2 DEF u
<1>4. u = [i \in 1 .. n + m |-> u[i]]
  BY <1>3
<1>5. \A i \in 1 .. n + m : u[i] = o + i - 1
  <2>1. DOMAIN u = 1 .. n + m
    BY <1>3, LenProperties
  <2> QED  BY <1>3, <2>1 DEF Run
<1>6. u = Offsets(o, n + m)
  BY <1>4, <1>5 DEF Offsets
<1> QED  BY <1>6 DEF u, s, t

\* n bytes from offset o on are in the input buffer.
InputAt(in, o, n, eof) ==
  /\ in = Offsets(o, n)
  /\ n # 0 => o + n <= Visible /\ o >= Start
  /\ n # 0 /\ eof => \E i \in DOMAIN disk.grows : disk.grows[i] = o + n

\* The input buffer holds the file from Here on,
LEMMA InputIs ==
  ASSUME DiskInv, g \in States, InputInv, Here >= Start
  PROVE  /\ Here \in Nat /\ Len(g.in) \in Nat /\ fd = Here + Len(g.in)
         /\ InputAt(g.in, Here, Len(g.in), g.eof)
<1>1. fd \in Nat /\ Start \in Nat /\ Len(g.in) \in Nat /\ (Len(g.in) = 0 <=> g.in = <<>>)
  BY DiskTypes, StateTypes
<1> DEFINE n == Len(g.in)
           o == Here
<1>2. o \in Nat /\ fd = o + n /\ n \in Nat
  <2>1. o = fd - n /\ o >= Start /\ n \in Nat
    BY <1>1 DEF Here
  <2> HIDE DEF o, n
  <2> QED  BY <1>1, <2>1
<1>3. InputAt(g.in, o, n, g.eof)
  <2>1. g.in = Offsets(o, n) /\ (n # 0 => fd <= Visible /\ o >= Start)
    BY <1>1 DEF InputInv
  <2>2. n # 0 /\ g.eof => \E i \in DOMAIN disk.grows : disk.grows[i] = fd
    BY <1>1 DEF InputInv
  <2> HIDE DEF o, n
  <2> QED  BY <1>2, <2>1, <2>2 DEF InputAt
<1> QED  BY <1>2, <1>3

\* and does so after a step that leaves it with bytes from an offset on.
LEMMA InputPlaced ==
  ASSUME NEW o \in Nat, NEW n \in Nat, fd' = o + n, g'.in = Offsets(o, n), o >= Start,
         InputAt(g'.in, o, n, g'.eof), disk' = disk, Start' = Start, Visible' = Visible
  PROVE  InputInv' /\ Here' = o /\ Len(g'.in) = n /\ (g'.in = <<>> <=> n = 0)
<1> DEFINE in == g'.in
           e == fd'
<1>1. Len(in) = n /\ (in = <<>> <=> n = 0)
  <2>1. o \in Int
    OBVIOUS
  <2> QED  BY <2>1, RunOffsets
<1> HIDE DEF in
<1>2. e - Len(in) = o
  BY <1>1
<1>3. in = Offsets(o, n) /\ (n # 0 => e <= Visible /\ o >= Start)
      /\ (n # 0 /\ g'.eof => \E i \in DOMAIN disk.grows : disk.grows[i] = e)
  BY DEF InputAt, in
<1> HIDE DEF e
<1>4. InputInv'
  <2>1. Here' = o
    BY <1>2 DEF Here, in, e
  <2>2. /\ in = Offsets(Here', Len(in))
        /\ (in # <<>> => e <= Visible' /\ Here' >= Start')
        /\ (in # <<>> /\ g'.eof => \E i \in DOMAIN disk'.grows : disk'.grows[i] = e)
    BY <1>1, <1>3, <2>1
  <2> QED  BY <2>2 DEF InputInv, in, e
<1>5. Here' = o
  BY <1>2 DEF Here, in, e
<1> QED  BY <1>1, <1>4, <1>5 DEF in

\* What gz_avail leaves in the input buffer.
LEMMA AvailOK ==
  ASSUME DiskInv, NEW h \in States, NEW o \in Nat, NEW n \in Nat,
         InputAt(h.in, o, n, h.eof), o >= Start, fd = o + n, n <= h.size,
         NEW l, l = NoLoad \/ l \in Avails(h)
  PROVE  /\ l.n \in Nat /\ l.eof \in BOOLEAN /\ l.err \in BOOLEAN
         /\ l.err => gz_avail(h, l) = gz_error(h, "ERRNO")
         /\ ~l.err => /\ gz_avail(h, l) = [h EXCEPT !.eof = h.eof \/ l.eof, !.in = Offsets(o, n + l.n)]
                      /\ n + l.n <= h.size
                      /\ InputAt(Offsets(o, n + l.n), o, n + l.n, h.eof \/ l.eof)
                      /\ l \in Avails(h) /\ n + l.n < h.size => h.eof \/ l.eof
<1>0. /\ h.size \in Nat /\ h.eof \in BOOLEAN /\ Visible \in Nat /\ fd \in Nat /\ Start \in Nat
      /\ disk.at \in DOMAIN disk.grows /\ Visible = disk.grows[disk.at]
  <2>1. UINT \in Nat
    BY GzSizes
  <2> QED  BY <2>1, DiskTypes DEF States
<1>1. h.in = Offsets(o, n) /\ Len(h.in) = n
  <2>1. h.in = Offsets(o, n) /\ o \in Int
    BY DEF InputAt
  <2> QED  BY <2>1, RunOffsets
<1>2. /\ l.n \in Nat /\ l.eof \in BOOLEAN /\ l.err \in BOOLEAN /\ l.n <= h.size - n
      /\ (l.n = 0 \/ fd + l.n <= Visible)
      /\ (l.eof => ~l.err /\ l.n < h.size - n /\ (fd + l.n = Visible \/ (Visible <= fd /\ l.n = 0)))
      /\ (h.eof => l.n = 0 /\ ~l.eof)
      /\ (l \in Avails(h) /\ ~l.err /\ n + l.n < h.size => h.eof \/ l.eof)
  <2>1. CASE l = NoLoad
    <3>1. l.n = 0 /\ l.eof = FALSE /\ l.err = FALSE
      BY <2>1 DEF NoLoad
    <3>2. l \in Avails(h) /\ ~h.eof /\ n < h.size => FALSE
      <4> SUFFICES ASSUME l \in Avails(h), ~h.eof, n < h.size PROVE FALSE
        OBVIOUS
      <4>1. l \in Loads(h.size - n) /\ h.size - n \in Nat
        BY <1>0, <1>1 DEF Avails
      <4>2. ~l.err /\ l.n < h.size - n => l.eof
        BY <4>1, LoadsOK
      <4>3. 0 < h.size - n
        BY <1>0
      <4>4. ~l.err /\ ~l.eof /\ l.n < h.size - n
        BY <3>1, <4>3
      <4> QED  BY <4>2, <4>4, Zenon
    <3>3. l.n \in Nat /\ l.eof \in BOOLEAN /\ l.err \in BOOLEAN /\ ~l.eof
      <4>1. l.n \in Nat /\ ~l.eof
        BY <3>1
      <4>2. l.eof \in BOOLEAN /\ l.err \in BOOLEAN
        BY <2>1 DEF NoLoad
      <4> QED  BY <4>1, <4>2, Zenon
    <3>4. l.n <= h.size - n /\ (n + l.n < h.size <=> n < h.size)
      BY <1>0, <3>1
    <3>5. l \in Avails(h) /\ ~l.err /\ n + l.n < h.size => h.eof \/ l.eof
      BY <3>2, <3>4, Zenon
    <3> QED  BY <3>1, <3>3, <3>4, <3>5, Zenon
  <2>2. CASE l # NoLoad
    <3>1. ~h.eof /\ l \in Loads(h.size - n) /\ h.size - n \in Nat
      BY <1>0, <1>1, <2>2 DEF Avails
    <3> DEFINE q == h.size - n
    <3>2. /\ l.n \in Nat /\ l.n <= q /\ l.eof \in BOOLEAN /\ l.err \in BOOLEAN
          /\ (l.n = 0 \/ fd + l.n <= Visible)
          /\ (l.eof => ~l.err /\ l.n < q /\ (fd + l.n = Visible \/ (Visible <= fd /\ l.n = 0)))
          /\ (~l.err /\ l.n < q => l.eof)
      <4> HIDE DEF q
      <4>1. q \in Nat /\ l \in Loads(q)
        BY <3>1 DEF q
      <4> QED  BY <4>1, LoadsOK
    <3>3. n + l.n < h.size <=> l.n < q
      BY <1>0, <3>2
    <3>4. h.eof => l.n = 0 /\ ~l.eof
      BY <3>1, Zenon
    <3>5. l \in Avails(h) /\ ~l.err /\ n + l.n < h.size => h.eof \/ l.eof
      BY <3>2, <3>3, Zenon
    <3> QED  BY <3>2, <3>4, <3>5, Zenon DEF q
  <2> QED  BY <2>1, <2>2
<1>3. l.err => gz_avail(h, l) = gz_error(h, "ERRNO")
  BY DEF gz_avail, Loaded
<1>4. ASSUME ~l.err
      PROVE  /\ gz_avail(h, l) = [h EXCEPT !.eof = h.eof \/ l.eof, !.in = Offsets(o, n + l.n)]
             /\ n + l.n <= h.size
             /\ InputAt(Offsets(o, n + l.n), o, n + l.n, h.eof \/ l.eof)
  <2>1. h.in \o Offsets(fd, l.n) = Offsets(o, n + l.n)
    <3>1. Offsets(o, n) \o Offsets(o + n, l.n) = Offsets(o, n + l.n)
      BY <1>2, OffsetsConcat, Zenon
    <3> QED  BY <1>1, <3>1
  <2> DEFINE x == Offsets(o, n + l.n)
             e == h.eof \/ l.eof
  <2>2. gz_avail(h, l) = [[h EXCEPT !.eof = e] EXCEPT !.in = x]
    <3>1. [h EXCEPT !.eof = e].in = h.in
      BY DEF States
    <3> QED  BY <1>4, <2>1, <3>1 DEF gz_avail, Loaded
  <2>3. InputAt(x, o, n + l.n, e)
    <3> DEFINE m == n + l.n
    <3>1. m # 0 => o + m <= Visible
      BY <1>0, <1>2 DEF InputAt
    <3>2. ASSUME m # 0, e
          PROVE  \E i \in DOMAIN disk.grows : disk.grows[i] = o + m
      <4>1. CASE l.eof /\ o + m = Visible
        BY <1>0, <4>1
      <4>2. CASE l.eof /\ ~(o + m = Visible)
        <5>1. Visible <= o + n /\ l.n = 0
          BY <1>0, <1>2, <4>2
        <5>2. n # 0 /\ o + n <= Visible
          BY <3>2, <5>1 DEF InputAt
        <5> QED  BY <1>0, <4>2, <5>1, <5>2
      <4>3. CASE ~l.eof
        <5>1. h.eof /\ l.n = 0 /\ m = n
          BY <1>0, <1>2, <3>2, <4>3
        <5>2. n # 0
          BY <3>2, <5>1
        <5>3. \E i \in DOMAIN disk.grows : disk.grows[i] = o + n
          BY <5>1, <5>2 DEF InputAt
        <5> QED  BY <5>1, <5>3
      <4> QED  BY <4>1, <4>2, <4>3
    <3> HIDE DEF m
    <3>3. InputAt(Offsets(o, m), o, m, e)
      BY <3>1, <3>2 DEF InputAt
    <3> QED  BY <3>3 DEF m
  <2>4. n + l.n <= h.size
    BY <1>0, <1>2
  <2> QED  BY <2>2, <2>3, <2>4
<1> QED  BY <1>2, <1>3, <1>4

\* The first look allocates the buffers.
LEMMA AllocatedOK ==
  ASSUME NEW h, h = Allocated(g), g \in States, g.size = 0 \/ g.size >= 2, Len(g.in) <= g.size
  PROVE  /\ h \in States /\ h.size >= 2 /\ h.in = g.in /\ Len(h.in) <= h.size
         /\ h.mode = g.mode /\ h.how = g.how /\ h.direct = g.direct /\ h.eof = g.eof
         /\ h.err = g.err /\ h.data = g.data /\ h.next = g.next /\ h.pos = g.pos
         /\ h.seek = g.seek /\ h.skip = g.skip
<1>0. /\ g.size \in Nat /\ g.want \in 2 .. UINT /\ UINT \in Nat /\ Len(g.in) \in Nat
      /\ (Len(g.in) = 0 <=> g.in = <<>>)
  BY GzSizes, StateTypes
<1>1. CASE g.size = 0
  <2>1. g.in = <<>>
    BY <1>0, <1>1
  <2>2. h = [g EXCEPT !.size = g.want, !.in = <<>>]
    <3> DEFINE w == g.size + g.want
    <3>1. w = g.want
      BY <1>0, <1>1
    <3>2. h = [g EXCEPT !.size = w, !.in = <<>>]
      BY <1>1 DEF Allocated
    <3> HIDE DEF w
    <3> QED  BY <3>1, <3>2
  <2>3. /\ h.size = g.want /\ h.in = <<>> /\ h.mode = g.mode /\ h.how = g.how
        /\ h.direct = g.direct /\ h.eof = g.eof /\ h.err = g.err /\ h.data = g.data
        /\ h.next = g.next /\ h.pos = g.pos /\ h.seek = g.seek /\ h.skip = g.skip
    BY <2>2 DEF States
  <2>4. h \in States
    <3>1. <<>> \in Seq(Int) /\ g.want \in 0 .. UINT
      BY <1>0, EmptyInt
    <3> QED  BY <2>2, <3>1 DEF States
  <2>5. Len(h.in) = 0
    BY <2>3, EmptyInt
  <2> QED  BY <1>0, <2>1, <2>3, <2>4, <2>5
<1>2. CASE g.size # 0
  BY <1>2 DEF Allocated
<1> QED  BY <1>1, <1>2

\* What gz_look makes of the call.
LEMMA LookCall ==
  ASSUME CallInv, c.pc = "look", LookEnds(g'), Fatal(g'.err) => g'.data = <<>>
  PROVE  CallInv' /\ Made' = <<>> /\ c'.pc # "decomp" /\ (Fatal(g'.err) => ~Running')
<1>1. c \in CallStates
  BY DEF CallInv
<1>2. CASE c.op = "gzdirect" \/ Fatal(g'.err)
  <2>1. c' = NoCall
    BY <1>2 DEF LookEnds, Fail, ReadDone, GetsDone
  <2> QED  BY <2>1, CallOver
<1>3. CASE ~(c.op = "gzdirect" \/ Fatal(g'.err))
  <2> DEFINE p == IF g'.how = "LOOK" THEN c.back ELSE FetchOn(g')
  <2>1. c' = [c EXCEPT !.pc = p]
    BY <1>3 DEF LookEnds
  <2>2. c.back \in Backs
    BY <1>3 DEF CallInv
  <2>3. p \in Backs \cup {"fetch"} /\ (p = "fetch" => g'.data = <<>>)
    BY <2>2 DEF FetchOn, Backs
  <2> HIDE DEF p
  <2>4. /\ c' \in CallStates /\ c'.pc = p /\ c'.op = c.op /\ c'.back = c.back
        /\ p \in {"skip", "read", "gets", "fetch"}
    BY <1>1, <2>1, <2>3 DEF CallStates, Pcs, Backs
  <2>5. CallInv' /\ Made' = <<>> /\ c'.pc # "decomp"
    BY <1>3, <2>2, <2>3, <2>4 DEF CallInv, Made
  <2> QED  BY <1>3, <2>5
<1> QED  BY <1>2, <1>3

\* A step that ends the call with a fatal error leaves nothing to deliver.
LEMMA BrokenPlaced ==
  ASSUME PlacedInv, Calling, disk' = disk, NEW n \in Nat, fd' = fd + n, seen' \in {seen, Visible},
         z' \in Seq(Int), g' \in States, g'.mode = "READ", g'.size = 0 \/ g'.size >= 2,
         Len(g'.in) <= g'.size, g'.data = <<>>, Fatal(g'.err), g'.size = 0 => g'.how = "LOOK",
         g'.how = "LOOK" /\ g'.direct => g'.in = <<>>, CallInv', ~Running'
  PROVE  PlacedInv'
<1>1. DiskInv'
  BY ReadDisk DEF PlacedInv
<1>2. StateInv'
  BY DEF StateInv, DataInBuffer
<1>3. FatalInv' /\ ~Sound'
  BY DEF FatalInv, FatalData, Sound
<1> QED  BY <1>1, <1>2, <1>3 DEF PlacedInv

\* gz_look has no memory for the buffers.
LEMMA LookNoMemoryPlaced ==
  ASSUME PlacedInv, LookNoMemory
  PROVE  PlacedInv'
<1>0. /\ c.pc = "look" /\ app' = app /\ disk' = disk /\ fd' = fd /\ z' = z /\ seen' = seen
      /\ g' = gz_error(g, "MEM_ERROR") /\ LookEnds(g')
  BY DEF LookNoMemory
<1>1. /\ CallInv /\ DiskInv /\ Calling /\ g \in States /\ g.mode = "READ" /\ z \in Seq(Int)
      /\ (g.size = 0 \/ g.size >= 2) /\ Len(g.in) <= g.size /\ fd \in Nat
      /\ (g.how = "LOOK" /\ g.direct => g.in = <<>>) /\ (g.size = 0 => g.how = "LOOK")
  BY <1>0, AppSame DEF PlacedInv, StateInv, FatalInv, DiskInv
<1>2. /\ g' \in States /\ g'.mode = g.mode /\ g'.size = g.size /\ g'.in = g.in /\ g'.how = g.how
      /\ g'.direct = g.direct /\ g'.data = <<>> /\ g'.err = "MEM_ERROR"
  BY <1>0, <1>1, EmptyInt DEF States, gz_error, Errors, Fatal
<1>3. Fatal(g'.err)
  BY <1>2 DEF Fatal
<1>4. CallInv' /\ ~Running'
  BY <1>0, <1>1, <1>2, <1>3, LookCall
<1>5. fd' = fd + 0 /\ 0 \in Nat
  BY <1>0, <1>1
<1> QED  BY <1>0, <1>1, <1>2, <1>3, <1>4, <1>5, BrokenPlaced
\* An empty output buffer is in its place.
LEMMA NothingThere ==
  ASSUME g'.data = <<>>, NEW p \in Int, g'.pos = p
  PROVE  End' = p /\ InPlace(g'.data, g'.pos)
<1>1. End' = p + 0
  BY EmptyInt DEF End
<1>2. InPlace(<<>>, p)
  BY EmptyInPlace
<1> QED  BY <1>1, <1>2

\* Between members, or before the first byte of one is decoded.
LEMMA MemberPlaced ==
  ASSUME NEW o \in Nat, NEW p \in Int, Here' = o, End' = p, Before(Here)' = p,
         Made' = <<>>, Held' = <<>>, o >= Start, o <= Visible \/ o = Start,
         g'.how = "LOOK" => Resumes(disk, o), disk' = disk, Start' = Start, Visible' = Visible
  PROVE  MemberInv'
<1>1. Len(<<>>) = 0 /\ Run(p, <<>>) /\ Run(p + 0, <<>>) /\ p + 0 + 0 = p
  BY EmptyInt, EmptyRun
<1> QED  BY <1>1 DEF MemberInv

\* Raw data is moved to the output buffer.
Copied(k, d) == [k EXCEPT !.next = 0, !.data = d, !.in = <<>>, !.how = "COPY"]

\* What gz_look takes for raw data goes to the output buffer as it is.
LEMMA CopiedOK ==
  ASSUME NEW k \in States, NEW d \in Seq(Int)
  PROVE  /\ Copied(k, d) \in States /\ Copied(k, d).mode = k.mode /\ Copied(k, d).size = k.size
         /\ Copied(k, d).in = <<>> /\ Copied(k, d).err = k.err /\ Copied(k, d).data = d
         /\ Copied(k, d).next = 0 /\ Copied(k, d).how = "COPY" /\ Copied(k, d).direct = k.direct
         /\ Copied(k, d).pos = k.pos /\ Copied(k, d).eof = k.eof
<1> DEFINE x == <<>>
           e == [k EXCEPT !.next = 0, !.data = d]
           h == [e EXCEPT !.in = x, !.how = "COPY"]
<1>1. x \in Seq(Int) /\ 0 \in Int
  BY EmptyInt
<1>2. Copied(k, d) = h
  BY DEF States, Copied
<1> HIDE DEF x
<1>3. /\ e \in States /\ e.mode = k.mode /\ e.size = k.size /\ e.err = k.err /\ e.data = d
      /\ e.next = 0 /\ e.direct = k.direct /\ e.pos = k.pos /\ e.eof = k.eof
  BY <1>1 DEF States
<1> HIDE DEF e
<1>4. e \in States
  BY <1>3
<1>5. /\ h \in States /\ h.mode = e.mode /\ h.size = e.size /\ h.in = x /\ h.err = e.err
      /\ h.data = e.data /\ h.next = e.next /\ h.how = "COPY" /\ h.direct = e.direct
      /\ h.pos = e.pos /\ h.eof = e.eof
  BY <1>1, <1>4 DEF States
<1> HIDE DEF h
<1> QED  BY <1>2, <1>3, <1>5 DEF x

\* What gz_look does with at least a byte of input at offset o, or with none.
LEMMA LookedPlaced ==
  ASSUME PlacedInv, Calling, c.pc = "look", Sound, disk' = disk,
         NEW k \in States, k.mode = "READ", k.size >= 2, k.how = "LOOK", k.direct = g.direct,
         k.pos = g.pos, k.data = <<>>, ~Fatal(k.err),
         NEW n \in Nat, InputAt(k.in, Here, n, k.eof), fd' = Here + n, n <= k.size, Here >= Start,
         n < 2 => k.eof, g.in # <<>> => n # 0, Here \in Nat,
         g' = Looked(k), seen' \in {seen, Visible}, z' = IF g'.how = "GZIP" THEN <<>> ELSE z,
         LookEnds(g'), NEW i \in Nat, fd' = fd + i
  PROVE  PlacedInv'
<1> DEFINE o == Here
<1>1. /\ DiskInv /\ CallInv /\ PlaceInv /\ g \in States /\ z \in Seq(Int) /\ g.data = <<>>
      /\ (g.how = "LOOK" /\ g.direct => g.in = <<>>)
  BY DEF PlacedInv, StateInv, FatalInv, CallInv
<1>2. /\ Start \in Nat /\ Visible \in Nat /\ Visible <= Final(disk) /\ Final(disk) \in Nat
      /\ FileOK(disk, Start) /\ g.pos \in Int /\ g.direct \in BOOLEAN
  BY <1>1, DiskTypes, StateTypes
<1>3. /\ DiskInv' /\ Start' = Start /\ Visible' = Visible /\ \A x : Before(x)' = Before(x)
  BY <1>1, ReadDisk
<1>4. g.how = "LOOK" /\ Made = <<>> /\ Held = <<>> /\ End = g.pos
  <2>1. g.how = "LOOK" /\ Made = <<>>
    BY <1>1 DEF CallInv, Made
  <2>2. End = g.pos + 0
    BY <1>1, EmptyInt DEF End
  <2> QED  BY <1>2, <2>1, <2>2 DEF Held
<1>5. /\ g.direct => g.pos = 0 /\ o = Start
      /\ g.pos = Before(o)
      /\ ~g.direct => Resumes(disk, o) /\ (o <= Visible \/ o = Start)
  <2>1. CASE g.direct
    <3>1. End = 0 /\ Here = Start
      BY <1>1, <1>4, <2>1 DEF PlaceInv
    <3>2. Before(Start) = 0
      BY <1>2, BeforeStart
    <3> QED  BY <1>4, <2>1, <3>1, <3>2
  <2>2. CASE ~g.direct
    <3>1. MemberInv
      BY <1>1, <1>4, <2>2 DEF PlaceInv
    <3>2. End + 0 + 0 = Before(o)
      BY <1>4, <3>1, EmptyInt DEF MemberInv
    <3> QED  BY <1>2, <1>4, <2>2, <3>1, <3>2 DEF MemberInv
  <2> QED  BY <2>1, <2>2
<1>6. k.in = Offsets(o, n) /\ Len(k.in) = n /\ (k.in = <<>> <=> n = 0) /\ DOMAIN k.in = 1 .. n
      /\ \A j \in 1 .. n : k.in[j] = o + j - 1
  <2>1. k.in = Offsets(o, n) /\ o \in Int
    BY DEF InputAt
  <2> HIDE DEF o
  <2>2. /\ k.in = Offsets(o, n) /\ Len(k.in) = n /\ (k.in = <<>> <=> n = 0) /\ k.in \in Seq(Int)
    BY <2>1, RunOffsets
  <2>3. \A j \in 1 .. n : Offsets(o, n)[j] = o + j - 1
    BY DEF Offsets
  <2>4. DOMAIN k.in = 1 .. n
    BY <2>2, LenProperties
  <2> QED  BY <2>2, <2>3, <2>4
<1>7. n # 0 => o + n <= Visible
  BY DEF InputAt
<1>8. Len(<<>>) = 0 /\ <<>> \in Seq(Int) /\ 0 \in Int /\ \A p : Run(p, <<>>)
  BY EmptyInt, EmptyRun
<1> DEFINE magic == Len(k.in) > 1 /\ Cell(k.in[1]).b = 31 /\ Cell(k.in[2]).b = 139
  \* Every case leaves a sound state; where its data lies is shown case by case.
<1>9. SUFFICES ASSUME g' \in States, g'.mode = "READ", g'.size = k.size, Len(g'.in) <= g'.size,
                      DataInBuffer', ~Fatal(g'.err),
                      g'.how = "LOOK" /\ g'.direct => g'.in = <<>>,
                      CallInv', Made' = <<>>, c'.pc # "decomp"
               PROVE  PlaceInv'
  <2>1. SUFFICES /\ g' \in States /\ g'.mode = "READ" /\ g'.size = k.size /\ Len(g'.in) <= g'.size
                 /\ DataInBuffer' /\ ~Fatal(g'.err) /\ (g'.how = "LOOK" /\ g'.direct => g'.in = <<>>)
    <3>1. CallInv' /\ Made' = <<>> /\ c'.pc # "decomp"
      BY <1>1, <2>1, LookCall
    <3>2. StateInv' /\ FatalInv'
      BY <1>1, <1>8, <2>1 DEF StateInv, FatalInv, FatalData
    <3>3. PlaceInv'
      BY <1>9, <2>1, <3>1
    <3> QED  BY <1>3, <3>1, <3>2, <3>3 DEF PlacedInv
  <2>2. CASE n = 0
    <3>1. g' = k
      BY <1>6, <2>2 DEF Looked
    <3> QED  BY <1>6, <2>2, <3>1 DEF DataInBuffer
  <2>3. CASE n # 0 /\ magic
    <3>1. g' = [k EXCEPT !.how = "GZIP", !.direct = FALSE]
      BY <1>6, <2>3 DEF Looked, LookAt
    <3>2. /\ g' \in States /\ g'.mode = k.mode /\ g'.size = k.size /\ g'.in = k.in
          /\ g'.err = k.err /\ g'.data = k.data /\ g'.how = "GZIP"
      BY <3>1 DEF States
    <3> QED  BY <1>6, <3>2 DEF DataInBuffer
  <2>4. CASE n # 0 /\ ~magic /\ ~k.direct
    <3>1. g' = [k EXCEPT !.in = <<>>, !.eof = TRUE, !.data = <<>>]
      BY <1>6, <2>4 DEF Looked, LookAt
    <3> DEFINE x == <<>>
    <3>2. x \in Seq(Int) /\ g' = [k EXCEPT !.in = x, !.eof = TRUE, !.data = x]
      BY <1>8, <3>1
    <3> HIDE DEF x
    <3>3. /\ g' \in States /\ g'.mode = k.mode /\ g'.size = k.size /\ g'.in = x
          /\ g'.err = k.err /\ g'.data = x
      BY <3>2 DEF States
    <3>4. g'.in = <<>> /\ g'.data = <<>>
      BY <3>3 DEF x
    <3>5. DataInBuffer'
      BY <3>4 DEF DataInBuffer
    <3>6. Len(g'.in) <= k.size
      <4>1. Len(<<>>) = 0 /\ k.size \in Nat
        BY EmptyInt, GzSizes DEF States
      <4> QED  BY <3>4, <4>1
    <3> QED  BY <3>3, <3>4, <3>5, <3>6
  <2>5. CASE n # 0 /\ ~magic /\ k.direct
    <3> DEFINE d == [j \in DOMAIN k.in |-> k.in[j] - Start]
    <3>1. g' = Copied(k, d)
      BY <1>6, <2>5 DEF Looked, LookAt, Copied
    <3>2. d \in [1 .. n -> Int]
      BY <1>2, <1>6
    <3>3. d \in Seq(Int) /\ Len(d) = n
      BY <3>2
    <3> HIDE DEF d
    <3>4. /\ g' \in States /\ g'.mode = k.mode /\ g'.size = k.size /\ g'.in = <<>>
          /\ g'.err = k.err /\ g'.data = d /\ g'.next = 0 /\ g'.how = "COPY"
      BY <3>1, <3>3, CopiedOK
    <3>5. k.size \in Nat /\ 0 + n <= 2 * k.size /\ 0 >= 0 /\ 0 <= k.size
      BY GzSizes DEF States
    <3>6. DataInBuffer'
      BY <3>3, <3>4, <3>5 DEF DataInBuffer
    <3> QED  BY <1>8, <3>4, <3>5, <3>6
  <2> QED  BY <2>2, <2>3, <2>4, <2>5, StateTypes
<1>10. CASE n = 0
  <2>1. g' = k /\ g'.in = <<>> /\ g'.how = "LOOK" /\ g'.data = <<>> /\ g'.pos = g.pos
    BY <1>6, <1>10 DEF Looked
  <2>2. InputInv' /\ Here' = o
    <3>1. InputAt(g'.in, o, n, g'.eof) /\ g'.in = Offsets(o, n)
      BY <1>6, <2>1
    <3> QED  BY <1>3, <3>1, InputPlaced
  <2>3. End' = g.pos /\ InPlace(g'.data, g'.pos)
    <3>1. g'.data = <<>> /\ g'.pos = g.pos
      BY <2>1
    <3> QED  BY <1>2, <3>1, NothingThere
  <2>4. ~g.direct => MemberInv'
    <3> SUFFICES ASSUME ~g.direct PROVE MemberInv'
      OBVIOUS
    <3>1. Before(Here)' = Before(o)
      BY <1>3, <2>2 DEF Before
    <3>2. Held' = <<>>
      BY <2>1 DEF Held
    <3>3. Resumes(disk, o) /\ (o <= Visible \/ o = Start) /\ g.pos = Before(o)
      BY <1>5
    <3> QED  BY <1>2, <1>3, <1>9, <2>2, <2>3, <3>1, <3>2, <3>3, MemberPlaced
  <2> QED  BY <1>3, <1>4, <1>5, <1>9, <2>1, <2>2, <2>3, <2>4 DEF PlaceInv
<1>11. CASE n # 0 /\ magic
  <2>1. g' = [k EXCEPT !.how = "GZIP", !.direct = FALSE]
    BY <1>6, <1>11 DEF Looked, LookAt
  <2>2. /\ g'.in = k.in /\ g'.how = "GZIP" /\ ~g'.direct /\ g'.data = <<>> /\ g'.pos = g.pos
        /\ g'.eof = k.eof /\ z' = <<>>
    BY <2>1 DEF States
  <2>3. InputInv' /\ Here' = o
    <3>1. InputAt(g'.in, o, n, g'.eof) /\ g'.in = Offsets(o, n)
      BY <1>6, <2>2
    <3> QED  BY <1>3, <3>1, InputPlaced
  <2>4. End' = g.pos /\ InPlace(g'.data, g'.pos)
    <3>1. g'.data = <<>> /\ g'.pos = g.pos
      BY <2>2
    <3> QED  BY <1>2, <3>1, NothingThere
  <2>5. MemberInv'
    <3>1. Before(Here)' = Before(o)
      BY <1>3, <2>3 DEF Before
    <3>2. Held' = <<>>
      BY <2>2 DEF Held
    <3>3. o <= Visible /\ g.pos = Before(o) /\ o >= Start
      BY <1>2, <1>5, <1>7, <1>11
    <3> QED  BY <1>2, <1>3, <1>9, <2>2, <2>3, <2>4, <3>1, <3>2, <3>3, MemberPlaced
  <2> QED  BY <1>9, <2>2, <2>3, <2>4, <2>5 DEF PlaceInv
<1>12. CASE n # 0 /\ ~magic /\ ~g.direct
  <2>1. g' = [k EXCEPT !.in = <<>>, !.eof = TRUE, !.data = <<>>]
    BY <1>6, <1>12 DEF Looked, LookAt
  <2>2. g'.in = <<>> /\ g'.how = "LOOK" /\ g'.direct = g.direct /\ g'.data = <<>> /\ g'.pos = g.pos
    BY <2>1 DEF States
  <2> DEFINE e == o + n
  <2>3. e \in Nat /\ e <= Visible /\ e <= Final(disk) /\ e >= Start /\ o < Final(disk)
    BY <1>2, <1>7, <1>12
  <2>4. Before(e) = Before(o) /\ Resumes(disk, e)
    <3>1. CASE NoData(disk, o)
      <4>1. NoData(disk, e)
        <5>1. \A p \in e .. Final(disk) - 1 : p \in o .. Final(disk) - 1
          BY <1>2, <2>3
        <5> QED  BY <3>1, <5>1, Zenon DEF NoData
      <4>2. Before(e) = Before(o)
        BY <1>2, <2>3, <3>1, NoDataBefore
      <4> QED  BY <4>1, <4>2 DEF Resumes
    <3>2. CASE ~NoData(disk, o)
      <4>1. HeaderAt(disk, o) /\ (o + 1 < Final(disk) => \A j \in DOMAIN disk.grows : disk.grows[j] # o + 1)
        BY <1>5, <1>12, <3>2 DEF Resumes
      <4>2. n = 1
        <5> SUFFICES ASSUME n > 1 PROVE FALSE
          BY <1>12
        <5>1. o + 1 < Final(disk)
          BY <1>2, <2>3
        <5>2. Cell(o).b = 31 /\ Cell(o + 1).b = 139
          <6>1. (o + 1) + 1 = o + 2
            OBVIOUS
          <6> QED  BY <4>1, <5>1, <6>1 DEF HeaderAt, Cell
        <5>3. k.in[1] = o /\ k.in[2] = o + 1
          <6>1. 1 \in 1 .. n /\ 2 \in 1 .. n /\ o + 1 - 1 = o /\ o + 2 - 1 = o + 1
            OBVIOUS
          <6> QED  BY <1>6, <6>1
        <5> QED  BY <1>6, <1>12, <5>2, <5>3
      <4>3. \E j \in DOMAIN disk.grows : disk.grows[j] = o + 1
        <5>1. k.eof /\ n # 0
          BY <4>2
        <5>2. \E j \in DOMAIN disk.grows : disk.grows[j] = o + n
          BY <5>1 DEF InputAt
        <5> QED  BY <4>2, <5>2
      <4>4. o + 1 = Final(disk)
        BY <1>2, <2>3, <4>1, <4>3
      <4>5. NoData(disk, o)
        <5>1. \A p \in o .. Final(disk) - 1 : p = o
          BY <1>2, <4>4
        <5>2. disk.cells[o + 1].out = <<>>
          BY <4>1 DEF HeaderAt
        <5> QED  BY <5>1, <5>2 DEF NoData
      <4> QED  BY <3>2, <4>5
    <3> QED  BY <3>1, <3>2
  <2>5. Here' = e /\ InputInv'
    <3>1. Here' = e - 0
      BY <1>8, <2>2 DEF Here
    <3>2. Here' = e
      BY <2>3, <3>1
    <3>3. \A p : Offsets(p, 0) = <<>>
      BY DEF Offsets
    <3>4. InputInv'
      BY <1>8, <2>2, <3>3 DEF InputInv
    <3> QED  BY <3>2, <3>4
  <2>6. End' = g.pos /\ InPlace(g'.data, g'.pos)
    <3>1. g'.data = <<>> /\ g'.pos = g.pos
      BY <2>2
    <3> QED  BY <1>2, <3>1, NothingThere
  <2>7. MemberInv'
    <3>1. Before(Here)' = Before(e)
      BY <1>3, <2>5 DEF Before
    <3>2. Held' = <<>>
      BY <2>2 DEF Held
    <3>3. g.pos = Before(e)
      BY <1>5, <2>4
    <3> HIDE DEF e
    <3> QED  BY <1>2, <1>3, <1>9, <2>3, <2>4, <2>5, <2>6, <3>1, <3>2, <3>3, MemberPlaced
  <2> QED  BY <1>9, <1>12, <2>2, <2>5, <2>6, <2>7 DEF PlaceInv
<1>13. CASE n # 0 /\ ~magic /\ g.direct
  <2> DEFINE d == [j \in DOMAIN k.in |-> k.in[j] - Start]
  <2>1. g' = Copied(k, d)
    BY <1>6, <1>13 DEF Looked, LookAt, Copied
  <2>2. g.pos = 0 /\ o = Start
    BY <1>5, <1>13
  <2>3. d \in [1 .. n -> Int] /\ \A j \in 1 .. n : d[j] = 0 + j - 1
    BY <1>2, <1>6, <2>2
  <2> HIDE DEF d
  <2>9. d \in Seq(Int) /\ Len(d) = n /\ DOMAIN d = 1 .. n
    BY <2>3
  <2>4. d \in Seq(Int) /\ Len(d) = n /\ Run(0, d)
    BY <2>3, <2>9 DEF Run
  <2>5. g'.in = <<>> /\ g'.how = "COPY" /\ g'.direct /\ g'.data = d /\ g'.pos = 0
    <3>1. g'.in = <<>> /\ g'.how = "COPY" /\ g'.direct = k.direct /\ g'.data = d /\ g'.pos = k.pos
      BY <2>1, <2>4, CopiedOK
    <3> QED  BY <1>13, <2>2, <3>1
  <2>6. InPlace(g'.data, g'.pos)
    <3>1. 0 + Len(d) <= n /\ n \in Int /\ 0 \in Int
      BY <2>4
    <3> QED  BY <2>4, <2>5, <3>1, RunInPlace
  <2>7. End' = fd' - Start'
    <3>1. End' = 0 + n /\ fd' = Start + n
      BY <2>2, <2>4, <2>5 DEF End
    <3> QED  BY <1>2, <1>3, <3>1
  <2>8. InputInv'
    <3>3. \A p : Offsets(p, 0) = <<>>
      BY DEF Offsets
    <3> QED  BY <1>8, <2>5, <3>3 DEF InputInv
  <2> QED  BY <1>9, <2>5, <2>6, <2>7, <2>8 DEF PlaceInv
<1> QED  BY <1>2, <1>10, <1>11, <1>12, <1>13
\* gz_look: a header, garbage, raw data, nothing, or a failed read.
LEMMA LookPlaced ==
  ASSUME PlacedInv, Look
  PROVE  PlacedInv'
<1>0. c.pc = "look" /\ app' = app /\ disk' = disk
  BY DEF Look
<1>1. /\ CallInv /\ DiskInv /\ Calling /\ g \in States /\ g.mode = "READ" /\ z \in Seq(Int)
      /\ (g.size = 0 \/ g.size >= 2) /\ Len(g.in) <= g.size /\ g.data = <<>> /\ g.how = "LOOK"
      /\ (g.how = "LOOK" /\ g.direct => g.in = <<>>)
  BY <1>0, AppSame DEF PlacedInv, StateInv, FatalInv, CallInv
<1> DEFINE h == Allocated(g)
<1>2. PICK l \in (IF Len(h.in) < 2 /\ ~Fatal(h.err) THEN Avails(h) ELSE {NoLoad}) :
        /\ fd' = fd + l.n
        /\ g' = IF Fatal(h.err) /\ Len(h.in) < 2 THEN h
                ELSE IF l.err THEN gz_avail(h, l) ELSE Looked(gz_avail(h, l))
        /\ seen' = IF g'.eof /\ ~g.eof THEN Visible ELSE seen
        /\ z' = IF g'.how = "GZIP" THEN <<>> ELSE z
        /\ LookEnds(g')
  BY DEF Look
<1>3. /\ h \in States /\ h.size >= 2 /\ h.in = g.in /\ Len(h.in) <= h.size
      /\ h.mode = g.mode /\ h.how = g.how /\ h.direct = g.direct /\ h.eof = g.eof
      /\ h.err = g.err /\ h.data = g.data /\ h.next = g.next /\ h.pos = g.pos
  BY <1>1, AllocatedOK
<1> HIDE DEF h
<1>4. /\ seen' \in {seen, Visible} /\ z' \in Seq(Int) /\ fd \in Nat /\ Len(g.in) \in Nat
      /\ (Len(g.in) = 0 <=> g.in = <<>>)
  BY <1>1, <1>2, EmptyInt, DiskTypes, StateTypes
<1>5. CASE Fatal(g.err)
  <2>1. l = NoLoad /\ l.n = 0 /\ ~l.eof /\ ~l.err
    BY <1>2, <1>3, <1>5 DEF NoLoad
  <2>2. CASE Len(h.in) < 2
    <3>1. g' = h
      BY <1>2, <1>3, <1>5, <2>2
    <3>2. CallInv' /\ ~Running'
      BY <1>0, <1>1, <1>2, <1>3, <1>5, <3>1, LookCall
    <3>3. fd' = fd + 0 /\ 0 \in Nat
      BY <1>2, <2>1
    <3> QED  BY <1>0, <1>1, <1>3, <1>4, <1>5, <3>1, <3>2, <3>3, BrokenPlaced
  <2>3. CASE ~(Len(h.in) < 2)
    <3>1. g.in # <<>>
      BY <1>3, <1>4, <2>3
    <3>2. ~g.direct
      BY <1>1, <3>1
    <3> DEFINE k == gz_avail(h, l)
               x == h.in \o Offsets(fd, l.n)
    <3>3. k = [h EXCEPT !.eof = h.eof \/ l.eof, !.in = x]
      BY <1>3, <2>1 DEF gz_avail, Loaded, States
    <3>4. x = h.in
      <4>1. Offsets(fd, l.n) = <<>>
        BY <2>1 DEF Offsets
      <4>2. h.in \in Seq(Int)
        BY <1>3 DEF States
      <4> QED  BY <4>1, <4>2, EmptyInt
    <3>5. k = h
      <4>1. (h.eof \/ l.eof) = h.eof
        BY <1>3, <2>1 DEF States
      <4>2. h = [h EXCEPT !.eof = h.eof, !.in = h.in]
        BY <1>3 DEF States
      <4> QED  BY <3>3, <3>4, <4>1, <4>2, Zenon
    <3>6. g' = LookAt(h)
      BY <1>2, <1>3, <2>1, <2>3, <3>1, <3>5 DEF Looked
    <3> HIDE DEF k, x
    <3>7. /\ g' \in States /\ g'.mode = h.mode /\ g'.size = h.size /\ Len(g'.in) <= h.size
          /\ g'.err = h.err /\ g'.data = <<>> /\ ~g'.direct
      <4>1. CASE Len(h.in) > 1 /\ Cell(h.in[1]).b = 31 /\ Cell(h.in[2]).b = 139
        <5>1. g' = [h EXCEPT !.how = "GZIP", !.direct = FALSE]
          BY <3>6, <4>1 DEF LookAt
        <5>2. /\ g' \in States /\ g'.mode = h.mode /\ g'.size = h.size /\ g'.in = h.in
              /\ g'.err = h.err /\ g'.data = h.data /\ ~g'.direct
          BY <1>3, <5>1 DEF States
        <5> QED  BY <1>1, <1>3, <5>2
      <4>2. CASE ~(Len(h.in) > 1 /\ Cell(h.in[1]).b = 31 /\ Cell(h.in[2]).b = 139)
        <5> DEFINE y == <<>>
        <5>1. y \in Seq(Int) /\ g' = [h EXCEPT !.in = y, !.eof = TRUE, !.data = y]
          BY <1>3, <3>2, <3>6, <4>2, EmptyInt DEF LookAt
        <5> HIDE DEF y
        <5>2. /\ g' \in States /\ g'.mode = h.mode /\ g'.size = h.size /\ g'.in = y
              /\ g'.err = h.err /\ g'.data = y /\ g'.direct = h.direct
          BY <1>3, <5>1 DEF States
        <5>3. Len(y) = 0 /\ y = <<>> /\ h.size \in Nat
          BY <1>3, EmptyInt, GzSizes DEF y, States
        <5> QED  BY <1>3, <3>2, <5>2, <5>3
      <4> QED  BY <4>1, <4>2
    <3>8. CallInv' /\ ~Running' /\ Fatal(g'.err)
      BY <1>0, <1>1, <1>2, <1>3, <1>5, <3>7, LookCall
    <3>9. fd' = fd + 0 /\ 0 \in Nat
      BY <1>2, <2>1
    <3>10. /\ g'.mode = "READ" /\ Len(g'.in) <= g'.size /\ (g'.size = 0 \/ g'.size >= 2)
           /\ g'.size = 0 => g'.how = "LOOK"
      BY <1>1, <1>3, <3>7
    <3> QED  BY <1>0, <1>1, <1>4, <3>7, <3>8, <3>9, <3>10, BrokenPlaced
  <2> QED  BY <2>2, <2>3
<1>6. CASE ~Fatal(g.err)
  <2>1. Sound /\ PlaceInv
    BY <1>6 DEF PlacedInv, Sound
  <2>2. Here >= Start
    <3>1. fd \in Nat /\ Start \in Nat
      BY <1>1, DiskTypes
    <3>2. g.direct => Here = Start
      BY <1>1, <2>1 DEF PlaceInv
    <3>3. ~g.direct => Here >= Start
      BY <1>1, <2>1 DEF PlaceInv, MemberInv
    <3> QED  BY <3>1, <3>2, <3>3
  <2> DEFINE o == Here
             n == Len(g.in)
  <2>3. /\ o \in Nat /\ n \in Nat /\ fd = o + n /\ InputAt(h.in, o, n, h.eof)
    BY <1>1, <1>3, <2>1, <2>2, InputIs DEF PlaceInv
  <2>4. n <= h.size /\ (l = NoLoad \/ l \in Avails(h)) /\ (n < 2 => l \in Avails(h))
    BY <1>2, <1>3, <1>6
  <2> HIDE DEF o, n
  <2>5. /\ l.n \in Nat /\ l.eof \in BOOLEAN /\ l.err \in BOOLEAN
        /\ l.err => gz_avail(h, l) = gz_error(h, "ERRNO")
        /\ ~l.err => /\ gz_avail(h, l) = [h EXCEPT !.eof = h.eof \/ l.eof, !.in = Offsets(o, n + l.n)]
                     /\ n + l.n <= h.size
                     /\ InputAt(Offsets(o, n + l.n), o, n + l.n, h.eof \/ l.eof)
                     /\ l \in Avails(h) /\ n + l.n < h.size => h.eof \/ l.eof
    <3>1. o >= Start
      BY <2>2 DEF o
    <3> QED  BY <1>1, <1>3, <2>3, <2>4, <3>1, AvailOK, Zenon
  <2>6. CASE l.err
    <3>1. g' = gz_error(h, "ERRNO")
      BY <1>2, <1>3, <1>6, <2>5, <2>6
    <3>2. /\ g' \in States /\ g'.mode = h.mode /\ g'.size = h.size /\ g'.in = h.in /\ g'.how = h.how
          /\ g'.direct = h.direct /\ g'.data = <<>> /\ g'.err = "ERRNO"
      BY <1>3, <3>1, EmptyInt DEF States, gz_error, Errors, Fatal
    <3>3. Fatal(g'.err)
      BY <3>2 DEF Fatal
    <3>4. CallInv' /\ ~Running'
      BY <1>0, <1>1, <1>2, <3>2, <3>3, LookCall
    <3> QED  BY <1>0, <1>1, <1>2, <1>3, <1>4, <2>5, <3>2, <3>3, <3>4, BrokenPlaced
  <2>7. CASE ~l.err
    <3> DEFINE k == gz_avail(h, l)
               m == n + l.n
               e == h.eof \/ l.eof
               x == Offsets(o, m)
    <3>1. k = [h EXCEPT !.eof = e, !.in = x] /\ m <= h.size /\ InputAt(x, o, m, e) /\ m \in Nat
      BY <2>3, <2>5, <2>7
    <3>2. x \in Seq(Int) /\ e \in BOOLEAN
      <4>1. o \in Int /\ m \in Nat
        BY <2>3, <2>5
      <4> QED  BY <1>3, <2>5, <4>1, RunOffsets DEF States
    <3>3. m < 2 => e
      <4>1. m < 2 => n < 2 /\ n + l.n < h.size
        <5>1. h.size \in Nat /\ h.size >= 2
          BY <1>3, GzSizes DEF States
        <5> QED  BY <2>3, <2>5, <5>1
      <4> QED  BY <2>4, <2>5, <2>7, <4>1
    <3>4. fd' = o + m /\ (g.in # <<>> => m # 0)
      <4>1. fd' = o + n + l.n
        BY <1>2, <2>3
      <4>2. g.in # <<>> => n # 0
        BY <1>4 DEF n
      <4> QED  BY <2>3, <2>5, <4>1, <4>2
    <3>5. g' = Looked(k)
      BY <1>2, <1>3, <1>6, <2>7
    <3> HIDE DEF k, m, e, x
    <3>6. /\ k \in States /\ k.mode = h.mode /\ k.size = h.size /\ k.how = h.how
          /\ k.direct = h.direct /\ k.pos = h.pos /\ k.data = h.data /\ k.err = h.err
          /\ k.in = x /\ k.eof = e
      BY <1>3, <3>1, <3>2 DEF States
    <3>7. /\ k.mode = "READ" /\ k.size >= 2 /\ k.how = "LOOK" /\ k.direct = g.direct
          /\ k.pos = g.pos /\ k.data = <<>> /\ ~Fatal(k.err) /\ m <= k.size
      BY <1>1, <1>3, <1>6, <3>1, <3>6
    <3>8. /\ InputAt(k.in, Here, m, k.eof) /\ fd' = Here + m /\ (m < 2 => k.eof) /\ Here \in Nat
          /\ m \in Nat
      BY <2>3, <3>1, <3>3, <3>4, <3>6 DEF o
    <3> QED  BY <1>0, <1>1, <1>2, <1>4, <2>1, <2>2, <2>5, <3>4, <3>5, <3>6, <3>7, <3>8, LookedPlaced
  <2> QED  BY <2>6, <2>7
<1> QED  BY <1>5, <1>6

-----------------------------------------------------------------------------
(* gz_decomp.                                                              *)

\* The output of inflate goes where the call wants it.
LEMMA DecompEndsPlaced ==
  ASSUME PlacedInv, Calling, disk' = disk, c.pc = "decomp", g.size >= 2,
         NEW i \in Nat, fd' = fd + i, seen' \in {seen, Visible}, z' \in Seq(Int),
         NEW k \in States, k.mode = "READ", k.size = g.size, k.how = "GZIP", ~k.direct,
         k.data = <<>>, k.pos = g.pos,
         NEW o \in Nat, NEW n \in Nat, n <= k.size, fd' = o + n, InputAt(k.in, o, n, k.eof),
         o >= Start, o <= Visible \/ o = Start,
         NEW made \in Seq(Int), Run(g.pos, made),
         Len(made) <= (IF c.user THEN c.left ELSE 2 * g.size),
         Run(g.pos + Len(made), z'), g.pos + Len(made) + Len(z') = Before(o),
         NEW end \in BOOLEAN, end => z' = <<>> /\ Resumes(disk, o),
         Fatal(k.err) => k.err = "MEM_ERROR" /\ k.eof /\ k.in = <<>> /\ ~end,
         DecompEnds(k, made, end)
  PROVE  PlacedInv'
<1>1. /\ DiskInv /\ CallInv /\ g \in States /\ (g.size = 0 \/ g.size >= 2) /\ c \in CallStates
      /\ c.op # "gzdirect"
  BY DEF PlacedInv, StateInv, CallInv
<1>2. /\ g.pos \in Int /\ g.size \in Nat /\ Len(made) \in Nat /\ Len(z') \in Nat
      /\ c.left \in Nat /\ c.got \in Seq(Int) /\ c.user \in BOOLEAN
  BY <1>1, StateTypes, CallTypes, LenProperties
<1>3. DiskInv' /\ Start' = Start /\ Visible' = Visible /\ \A x : Before(x)' = Before(x)
  BY <1>1, ReadDisk
<1> DEFINE q == g.pos + Len(made)
           w == IF end THEN "LOOK" ELSE "GZIP"
           b == [k EXCEPT !.how = w]
<1>4. q \in Int /\ w \in {"LOOK", "GZIP"} /\ (w = "LOOK" <=> end)
  BY <1>2
<1>5. b = [k EXCEPT !.how = IF end THEN "LOOK" ELSE @]
  OBVIOUS
<1> HIDE DEF w
<1>6. /\ b \in States /\ b.mode = k.mode /\ b.size = k.size /\ b.in = k.in /\ b.eof = k.eof
      /\ b.direct = k.direct /\ b.data = k.data /\ b.pos = k.pos /\ b.err = k.err /\ b.how = w
  BY <1>4 DEF States
<1> HIDE DEF b, q
<1>13. Fatal(b.err) => b.err = "MEM_ERROR" /\ b.eof /\ b.in = <<>> /\ b.how = "GZIP"
  BY <1>4, <1>6
  \* To the caller's buffer, or to the output buffer.
<1>7. /\ g' \in States /\ g'.mode = "READ" /\ g'.size = g.size /\ g'.in = k.in /\ g'.eof = k.eof
      /\ ~g'.direct /\ g'.err = k.err /\ g'.how = w /\ g'.pos + Len(g'.data) = q
      /\ CallInv' /\ Made' = <<>> /\ c'.pc # "decomp" /\ InPlace(g'.data, g'.pos) /\ DataInBuffer'
      /\ (Fatal(g'.err) => g'.err = "MEM_ERROR" /\ g'.eof /\ g'.in = <<>> /\ g'.how = "GZIP")
  <2>1. CASE c.user
    <3>1. g' = [b EXCEPT !.pos = b.pos + Len(made), !.data = <<>>]
      BY <1>5, <2>1 DEF DecompEnds
    <3>2. b.pos + Len(made) = q /\ <<>> \in Seq(Int)
      BY <1>6, EmptyInt DEF q
    <3> DEFINE y == <<>>
    <3>3. g' = [b EXCEPT !.pos = q, !.data = y] /\ y \in Seq(Int)
      BY <3>1, <3>2
    <3> HIDE DEF y
    <3>4. /\ g' \in States /\ g'.mode = b.mode /\ g'.size = b.size /\ g'.in = b.in /\ g'.eof = b.eof
          /\ g'.direct = b.direct /\ g'.err = b.err /\ g'.how = b.how /\ g'.pos = q /\ g'.data = y
      BY <1>4, <1>6, <3>3 DEF States
    <3>5. y = <<>> /\ Len(y) = 0 /\ q + 0 = q
      BY <1>4, EmptyInt DEF y
    <3>6. CallInv' /\ Made' = <<>> /\ c'.pc # "decomp"
      <4>1. CASE c' = NoCall
        BY <4>1, CallOver
      <4>2. CASE c' = [c EXCEPT !.pc = "read", !.got = @ \o made, !.left = @ - Len(made)]
        <5> DEFINE s == c.got \o made
                   t == c.left - Len(made)
        <5>1. s \in Seq(Int) /\ t \in Nat
          <6>1. Len(made) <= c.left
            BY <2>1
          <6> QED  BY <1>2, <6>1, CatIntType
        <5>2. c' = [c EXCEPT !.pc = "read", !.got = s, !.left = t]
          BY <1>1, <4>2 DEF CallStates
        <5> HIDE DEF s, t
        <5>3. c' \in CallStates /\ c'.pc = "read" /\ c'.op = c.op
          BY <1>1, <5>1, <5>2 DEF CallStates, Pcs
        <5> QED  BY <1>1, <5>3 DEF CallInv, Made
      <4> QED  BY <1>5, <2>1, <4>1, <4>2 DEF DecompEnds, ReadDone
    <3>7. DataInBuffer' /\ InPlace(g'.data, g'.pos)
      BY <3>4, <3>5, EmptyInPlace DEF DataInBuffer
    <3> QED  BY <1>6, <1>13, <3>4, <3>5, <3>6, <3>7
  <2>2. CASE ~c.user
    <3>1. g' = [b EXCEPT !.data = made, !.next = 0] /\ c' = [c EXCEPT !.pc = FetchOn(g')]
      BY <1>5, <2>2 DEF DecompEnds
    <3>2. 0 \in Int
      OBVIOUS
    <3>3. /\ g' \in States /\ g'.mode = b.mode /\ g'.size = b.size /\ g'.in = b.in /\ g'.eof = b.eof
          /\ g'.direct = b.direct /\ g'.err = b.err /\ g'.how = b.how /\ g'.pos = b.pos
          /\ g'.data = made /\ g'.next = 0
      BY <1>6, <3>1, <3>2 DEF States
    <3> DEFINE p == FetchOn(g')
    <3>4. c.back \in Backs
      BY <1>1, <2>2 DEF CallInv
    <3>5. p \in Backs \cup {"fetch"} /\ (p = "fetch" => g'.data = <<>>)
      BY <3>4 DEF FetchOn, Backs
    <3>6. c' = [c EXCEPT !.pc = p]
      BY <3>1
    <3> HIDE DEF p
    <3>7. /\ c' \in CallStates /\ c'.pc = p /\ c'.op = c.op /\ c'.back = c.back
          /\ p \in {"skip", "read", "gets", "fetch"}
      BY <1>1, <3>5, <3>6 DEF CallStates, Pcs, Backs
    <3>8. CallInv' /\ Made' = <<>> /\ c'.pc # "decomp"
      BY <1>1, <3>4, <3>5, <3>7 DEF CallInv, Made
    <3>9. DataInBuffer'
      <4>1. Len(made) <= 2 * g.size
        BY <2>2
      <4>2. 0 >= 0 /\ 0 + Len(made) <= 2 * g.size
        BY <1>2, <4>1
      <4> QED  BY <1>6, <3>3, <4>2 DEF DataInBuffer
    <3>10. InPlace(made, g.pos)
      <4>1. g.pos + Len(made) <= q /\ q \in Int
        BY <1>2, <1>4 DEF q
      <4> QED  BY <1>2, <4>1, RunInPlace
    <3>11. g'.pos + Len(g'.data) = q /\ g'.pos = g.pos
      BY <1>6, <3>3 DEF q
    <3> QED  BY <1>6, <1>13, <3>3, <3>8, <3>9, <3>10, <3>11
  <2> QED  BY <2>1, <2>2
<1>8. InputInv' /\ Here' = o /\ Len(g'.in) = n
  <2>1. g'.in = Offsets(o, n) /\ InputAt(g'.in, o, n, g'.eof)
    BY <1>7 DEF InputAt
  <2> QED  BY <1>3, <2>1, InputPlaced
<1>9. End' = q
  BY <1>7 DEF End
<1>10. MemberInv'
  <2>1. Before(Here)' = Before(o)
    BY <1>3, <1>8 DEF Before
  <2>2. Len(<<>>) = 0 /\ Run(q, <<>>) /\ q + 0 = q
    BY <1>4, EmptyInt, EmptyRun
  <2>3. Held' = z'
    BY <1>4, <1>7 DEF Held
  <2>4. Run(q, z') /\ q + 0 + Len(z') = Before(o)
    BY <1>2, <1>4 DEF q
  <2>5. g'.how = "LOOK" => Resumes(disk, o)
    BY <1>4, <1>7
  <2> QED  BY <1>3, <1>7, <1>8, <1>9, <2>1, <2>2, <2>3, <2>4, <2>5 DEF MemberInv
<1>11. StateInv' /\ FatalInv'
  <2>1. StateInv'
    BY <1>1, <1>2, <1>7, <1>8 DEF StateInv
  <2>2. FatalInv'
    <3>1. g'.how = "LOOK" /\ g'.direct => g'.in = <<>>
      BY <1>7
    <3> QED  BY <1>7, <3>1 DEF FatalInv, FatalData
  <2> QED  BY <2>1, <2>2
<1>12. PlaceInv'
  BY <1>4, <1>7, <1>8, <1>10 DEF PlaceInv
<1> QED  BY <1>3, <1>7, <1>11, <1>12 DEF PlacedInv
\* inflate stops for lack of input or room, or at invalid data: another turn.
LEMMA RoomLeft ==
  \A u, v, w, y \in Nat : u <= y /\ w = v + u => y - u \in Nat /\ w + (y - u) = v + y
OBVIOUS

\* What a turn of gz_decomp's loop moves: the descriptor, and inflate's output.
Moved(i) == fd' = fd + i
Goes(q, s) ==
  /\ q = c.made \o s /\ Len(q) = Len(c.made) + Len(s) /\ Len(s) <= c.room
  /\ c' = [c EXCEPT !.made = @ \o s, !.room = @ - Len(s)]

\* gz_decomp goes on after a turn of its loop.
LEMMA DecompGoesPlaced ==
  ASSUME PlacedInv, Calling, disk' = disk, c.pc = "decomp", Sound, g.size >= 2,
         NEW i \in Nat, Moved(i),
         seen' \in {seen, Visible}, z' \in Seq(Int),
         NEW k \in States, k.mode = "READ", k.size = g.size, k.how = "GZIP", ~k.direct,
         k.data = <<>>, k.pos = g.pos, ~Fatal(k.err),
         NEW o \in Nat, NEW n \in Nat, n <= k.size, fd' = o + n, InputAt(k.in, o, n, k.eof),
         o >= Start, o <= Visible \/ o = Start,
         NEW s \in Seq(Int), NEW m \in Seq(Int), Goes(m, s), Run(g.pos, m),
         Run(g.pos + Len(m), z'), g.pos + Len(m) + Len(z') = Before(o), g' = k
  PROVE  PlacedInv'
<1>1. /\ DiskInv /\ CallInv /\ g \in States /\ (g.size = 0 \/ g.size >= 2) /\ c \in CallStates
      /\ c.op # "gzdirect"
  BY DEF PlacedInv, StateInv, CallInv
<1>2. /\ g.pos \in Int /\ g.size \in Nat /\ c.made \in Seq(Int) /\ c.room \in Nat
      /\ Len(s) \in Nat /\ Len(c.made) \in Nat
  BY <1>1, StateTypes, CallTypes, LenProperties
<1>3. DiskInv' /\ Start' = Start /\ Visible' = Visible /\ \A x : Before(x)' = Before(x)
  BY <1>1, ReadDisk DEF Moved
<1> DEFINE t == c.room - Len(s)
<1>4. t \in Nat /\ Len(m) + t = Len(c.made) + c.room
  <2>1. Len(m) = Len(c.made) + Len(s) /\ Len(s) <= c.room
    BY DEF Goes
  <2> DEFINE u == Len(s)
             v == Len(c.made)
             w == Len(m)
             y == c.room
  <2>2. u \in Nat /\ v \in Nat /\ y \in Nat /\ u <= y /\ w = v + u
    BY <1>2, <2>1
  <2>3. c.room - Len(s) = y - u
    OBVIOUS
  <2> HIDE DEF u, v, w, y, t
  <2>4. y - u \in Nat /\ w + (y - u) = v + y
    BY <2>2, RoomLeft
  <2> QED  BY <2>3, <2>4 DEF u, v, w, y, t
<1>5. c' = [c EXCEPT !.made = m, !.room = t]
  BY <1>1 DEF CallStates, Goes
<1>6. Run(g.pos, m) /\ Run(g.pos + Len(m), z') /\ g.pos + Len(m) + Len(z') = Before(o)
  OBVIOUS
<1> HIDE DEF t
<1>7. /\ c' \in CallStates /\ c'.pc = "decomp" /\ c'.op = c.op /\ c'.made = m /\ c'.room = t
      /\ c'.user = c.user /\ c'.back = c.back /\ c'.left = c.left
  BY <1>1, <1>4, <1>5 DEF CallStates
<1>8. CallInv' /\ Made' = m
  <2>1. Len(m) + t = IF c.user THEN c.left ELSE 2 * g.size
    BY <1>1, <1>4 DEF CallInv
  <2>2. g'.size = g.size /\ g'.data = <<>>
    OBVIOUS
  <2> QED  BY <1>1, <1>7, <2>1, <2>2 DEF CallInv, Made
<1>9. InputInv' /\ Here' = o /\ Len(g'.in) = n
  <2>1. g'.in = Offsets(o, n) /\ InputAt(g'.in, o, n, g'.eof)
    BY DEF InputAt
  <2> QED  BY <1>3, <2>1, InputPlaced
<1>10. End' = g.pos /\ InPlace(g'.data, g'.pos)
  BY <1>2, NothingThere
<1>11. StateInv' /\ FatalInv'
  <2>1. StateInv'
    <3>1. /\ g' \in States /\ g'.mode = "READ" /\ g'.size = g.size /\ g'.data = <<>>
          /\ g'.how = "GZIP"
      OBVIOUS
    <3>2. ~Fatal(g'.err) /\ g'.size >= 2
      OBVIOUS
    <3>3. g'.size # 0 /\ Len(g'.in) <= g'.size
      BY <1>2, <1>9, <3>1, <3>2
    <3> QED  BY <1>1, <3>1, <3>3 DEF StateInv, DataInBuffer
  <2> QED  BY <2>1 DEF FatalInv, FatalData
<1>12. MemberInv'
  <2>1. Before(Here)' = Before(o)
    BY <1>3, <1>9 DEF Before
  <2>2. Held' = z'
    BY DEF Held
  <2> QED  BY <1>3, <1>6, <1>8, <1>9, <1>10, <2>1, <2>2 DEF MemberInv
<1>13. PlaceInv'
  BY <1>7, <1>9, <1>10, <1>12 DEF PlaceInv
<1> QED  BY <1>3, <1>8, <1>11, <1>13 DEF PlacedInv

\* What has been decoded in state k: the data behind x.pos, none of it if there
\* was nothing left to decode it from.
DecompOut(k, q) ==
  /\ k \in States /\ k.how = "GZIP" /\ ~k.direct /\ k.data = <<>>
  /\ k.pos = g.pos /\ k.seek = g.seek /\ k.skip = g.skip
  /\ q \in Seq(Int) /\ Run(g.pos, q)
  /\ \E o \in Nat : o >= Start /\ (o <= Visible \/ o = Start) /\ g.pos + Len(q) <= Before(o)
  /\ AtEnd /\ c.made = <<>> => q = <<>> /\ k.eof /\ k.in = <<>>

\* gz_decomp fails, is through, or goes on.
DecompDone ==
  \/ /\ \E b : ReadDone(g', b) \/ GetsDone(g', b)
     /\ ret'.bytes = <<>> /\ g'.how = "GZIP" /\ ~g'.direct /\ g'.seek = g.seek
  \/ \E k, q : \E end \in BOOLEAN : DecompOut(k, q) /\ DecompEnds(k, q, end)
  \/ \E q : \E n : DecompOut(g', q) /\ c' = [c EXCEPT !.made = q, !.room = n] /\ ret' = ret

\* A function that fails returns no data.
LEMMA FailDone ==
  ASSUME NEW h, Fail(h), h = g'
  PROVE  (\E b : ReadDone(g', b) \/ GetsDone(g', b)) /\ ret'.bytes = <<>>
<1>1. ReadDone(h, <<>>) \/ GetsDone(h, <<>>)
  BY DEF Fail
<1> QED  BY <1>1 DEF ReadDone, GetsDone, Value

\* inflate's output lies before what it keeps.
LEMMA OutIs ==
  ASSUME NEW k \in States, k.how = "GZIP", ~k.direct, k.data = <<>>,
         k.pos = g.pos, k.seek = g.seek, k.skip = g.skip, g.pos \in Int,
         NEW q \in Seq(Int), Run(g.pos, q), z' \in Seq(Int),
         NEW o \in Nat, o >= Start, o <= Visible \/ o = Start,
         g.pos + Len(q) + Len(z') = Before(o),
         AtEnd /\ c.made = <<>> => q = <<>> /\ k.eof /\ k.in = <<>>
  PROVE  DecompOut(k, q)
<1>1. g.pos + Len(q) <= Before(o)
  <2> DEFINE u == Len(q)
             v == Len(z')
             w == Before(o)
  <2>1. u \in Nat /\ v \in Nat /\ g.pos + u + v = w
    BY LenProperties
  <2> HIDE DEF u, v, w
  <2>2. g.pos + u <= w
    BY <2>1
  <2> QED  BY <2>2 DEF u, w
<1> QED  BY <1>1 DEF DecompOut

\* gz_decomp: a failed read, the end of the file, invalid data, the end of a member, or a
\* turn of its loop.
LEMMA DecompPlaced ==
  ASSUME PlacedInv, Decomp
  PROVE  PlacedInv' /\ DecompDone
<1>0. c.pc = "decomp" /\ app' = app /\ disk' = disk
  BY DEF Decomp
<1>1. /\ CallInv /\ c \in CallStates /\ Sound /\ Running /\ Calling /\ PlaceInv /\ g \in States
      /\ DiskInv /\ g.mode = "READ" /\ z \in Seq(Int) /\ (g.size = 0 \/ g.size >= 2)
      /\ Len(g.in) <= g.size /\ g.data = <<>> /\ g.size # 0
  <2>1. g.how = "GZIP"
    BY <1>0, InStep DEF PlaceInv
  <2> QED  BY <1>0, <2>1, InStep DEF PlacedInv, StateInv, CallInv
<1> DEFINE o == Here
           n == Len(g.in)
           p == g.pos
           made == c.made
           room == c.room
<1>18. g.size >= 2
  BY <1>1
<1>2. /\ g.how = "GZIP" /\ ~g.direct /\ MemberInv
      /\ p \in Int /\ g.size \in Nat /\ made \in Seq(Int) /\ room \in Nat /\ Len(made) \in Nat
      /\ Len(z) \in Nat /\ c.left \in Nat /\ c.user \in BOOLEAN
  <2>1. g.how = "GZIP" /\ ~g.direct
    BY <1>0, <1>1 DEF PlaceInv
  <2> QED  BY <1>1, <2>1, StateTypes, CallTypes, LenProperties DEF PlaceInv
<1>3. Made = made /\ Held = z /\ End = p
  <2>1. Made = made /\ Held = z
    BY <1>0, <1>2 DEF Made, Held
  <2>2. End = p + 0
    BY <1>1, EmptyInt DEF End
  <2> QED  BY <1>2, <2>1, <2>2
<1>4. /\ o >= Start /\ (o <= Visible \/ o = Start) /\ Run(p, made) /\ Run(p + Len(made), z)
      /\ p + Len(made) + Len(z) = Before(o)
  BY <1>2, <1>3 DEF MemberInv
<1>5. o \in Nat /\ n \in Nat /\ fd = o + n /\ InputAt(g.in, o, n, g.eof)
  BY <1>1, <1>4, InputIs DEF PlaceInv
<1>6. Len(made) + room = IF c.user THEN c.left ELSE 2 * g.size
  BY <1>0, <1>1 DEF CallInv
<1>7. PICK l \in (IF g.in = <<>> /\ ~Fatal(g.err) THEN Avails(g) ELSE {NoLoad}) :
        \E h \in {gz_avail(g, l)} :
          /\ fd' = fd + l.n
          /\ seen' = SeenBy(l)
          /\ CASE Fatal(h.err) -> g' = h /\ z' = z /\ Fail(h)
               [] ~Fatal(h.err) /\ h.in = <<>> ->
                    /\ z' = z
                    /\ \E k \in UnexpectedEnd(h) : DecompEnds(k, c.made, FALSE)
               [] OTHER ->
                    \E r \in {inflate(h.in, c.room)} : z' = r.z /\ InflateTurn(h, r)
  BY DEF Decomp
<1> DEFINE h == gz_avail(g, l)
<1>8. /\ fd' = fd + l.n /\ seen' = SeenBy(l)
      /\ (Fatal(h.err) => g' = h /\ z' = z /\ Fail(h))
      /\ (~Fatal(h.err) /\ h.in = <<>> =>
            z' = z /\ \E k \in UnexpectedEnd(h) : DecompEnds(k, c.made, FALSE))
      /\ (~Fatal(h.err) /\ h.in # <<>> =>
            z' = inflate(h.in, c.room).z /\ InflateTurn(h, inflate(h.in, c.room)))
  BY <1>7, Zenon
<1>9. l = NoLoad \/ l \in Avails(g)
  BY <1>7
<1> HIDE DEF o, n, p, made, room
<1>15. fd' = fd + l.n
  BY <1>8
<1>10. seen' \in {seen, Visible}
  BY <1>8 DEF SeenBy
<1>11. /\ l.n \in Nat /\ l.eof \in BOOLEAN /\ l.err \in BOOLEAN
       /\ l.err => h = gz_error(g, "ERRNO")
       /\ ~l.err => /\ h = [g EXCEPT !.eof = g.eof \/ l.eof, !.in = Offsets(o, n + l.n)]
                    /\ n + l.n <= g.size
                    /\ InputAt(Offsets(o, n + l.n), o, n + l.n, g.eof \/ l.eof)
                    /\ l \in Avails(g) /\ n + l.n < g.size => g.eof \/ l.eof
  <2>1. n <= g.size
    BY <1>1 DEF n
  <2>2. DiskInv /\ g \in States /\ o >= Start
    BY <1>1, <1>4
  <2>3. /\ l.n \in Nat /\ l.eof \in BOOLEAN /\ l.err \in BOOLEAN
        /\ l.err => gz_avail(g, l) = gz_error(g, "ERRNO")
        /\ ~l.err => /\ gz_avail(g, l) = [g EXCEPT !.eof = g.eof \/ l.eof, !.in = Offsets(o, n + l.n)]
                     /\ n + l.n <= g.size
                     /\ InputAt(Offsets(o, n + l.n), o, n + l.n, g.eof \/ l.eof)
                     /\ l \in Avails(g) /\ n + l.n < g.size => g.eof \/ l.eof
    BY <1>5, <1>9, <2>1, <2>2, AvailOK, Zenon
  <2> QED  BY <2>3, Zenon
<1> HIDE DEF h
<1> DEFINE m == n + l.n
           e == g.eof \/ l.eof
           x == Offsets(o, m)
<1>12. /\ m \in Nat /\ e \in BOOLEAN /\ x \in Seq(Int) /\ Len(x) = m /\ (x = <<>> <=> m = 0)
       /\ fd' = o + m /\ (m # 0 => o + m <= Visible)
  <2>1. m \in Nat /\ o \in Int /\ fd' = o + m
    BY <1>5, <1>8, <1>11
  <2>2. e \in BOOLEAN
    BY <1>1, <1>11, StateTypes
  <2>3. m # 0 /\ ~l.err => o + m <= Visible
    BY <1>11 DEF InputAt
  <2>4. m # 0 /\ l.err => o + m <= Visible
    <3> SUFFICES ASSUME m # 0, l.err PROVE o + m <= Visible
      OBVIOUS
    <3>1. l \in Loads(g.size - Len(g.in)) \/ l = NoLoad
      BY <1>9 DEF Avails
    <3>2. l # NoLoad
      BY DEF NoLoad
    <3>3. l \in Loads(g.size - Len(g.in)) /\ g.size - Len(g.in) \in Nat
      <4>1. g.size - n \in Nat
        BY <1>1, <1>2, <1>5 DEF n
      <4> QED  BY <3>1, <3>2, <4>1 DEF n
    <3>4. l.n = 0 \/ fd + l.n <= Visible
      <4> DEFINE y == g.size - Len(g.in)
      <4>1. y \in Nat /\ l \in Loads(y)
        BY <3>3
      <4> HIDE DEF y
      <4> QED  BY <1>1, <4>1, LoadsOK
    <3>5. n # 0 => o + n <= Visible
      BY <1>5 DEF InputAt
    <3>6. Visible \in Nat
      BY <1>1, DiskTypes
    <3> QED  BY <1>5, <1>11, <3>4, <3>5, <3>6
  <2> QED  BY <2>1, <2>2, <2>3, <2>4, RunOffsets
<1>16. AtEnd => m = 0 /\ e
  <2> SUFFICES ASSUME AtEnd PROVE m = 0 /\ e
    OBVIOUS
  <2>1. g.eof /\ g.in = <<>>
    BY DEF AtEnd
  <2>2. l = NoLoad /\ l.n = 0
    BY <1>9, <2>1 DEF Avails, NoLoad
  <2>3. n = 0
    BY <2>1, EmptyInt DEF n
  <2> QED  BY <2>1, <2>2, <2>3
<1>17. m = 0 /\ ~Fatal(g.err) /\ ~l.err => e
  <2> SUFFICES ASSUME m = 0, ~Fatal(g.err), ~l.err PROVE e
    OBVIOUS
  <2>1. n = 0 /\ n + l.n < g.size
    BY <1>1, <1>2, <1>5, <1>11
  <2>2. g.in = <<>>
    BY <1>1, <2>1, StateTypes DEF n
  <2>3. l \in Avails(g)
    BY <1>7, <2>2
  <2> QED  BY <1>11, <2>1, <2>3
<1>13. CASE l.err
  <2>1. h = gz_error(g, "ERRNO")
    BY <1>11, <1>13
  <2>2. /\ h \in States /\ h.mode = g.mode /\ h.size = g.size /\ h.in = g.in /\ h.how = g.how
        /\ h.data = <<>> /\ h.err = "ERRNO" /\ h.direct = g.direct /\ h.seek = g.seek
    BY <1>1, <2>1, EmptyInt DEF States, gz_error, Errors, Fatal
  <2>3. Fatal(h.err)
    BY <2>2 DEF Fatal
  <2>6. g' = h /\ z' = z /\ Fail(h)
    BY <1>8, <2>3
  <2>4. g' = h /\ z' = z /\ c' = NoCall
    BY <2>6 DEF Fail, ReadDone, GetsDone
  <2>5. CallInv' /\ ~Running'
    BY <2>4, CallOver
  <2>7. PlacedInv'
    BY <1>0, <1>1, <1>2, <1>8, <1>10, <1>11, <2>2, <2>3, <2>4, <2>5, BrokenPlaced
  <2>8. DecompDone
    BY <1>2, <2>2, <2>6, FailDone DEF DecompDone
  <2> QED  BY <2>7, <2>8
<1>14. CASE ~l.err
  <2>1. h = [g EXCEPT !.eof = e, !.in = x] /\ m <= g.size /\ InputAt(x, o, m, e)
    BY <1>11, <1>14
  <2> HIDE DEF m, e, x
  <2>2. /\ h \in States /\ h.mode = g.mode /\ h.size = g.size /\ h.how = g.how
        /\ h.direct = g.direct /\ h.pos = g.pos /\ h.data = g.data /\ h.err = g.err
        /\ h.in = x /\ h.eof = e /\ h.seek = g.seek /\ h.skip = g.skip
    BY <1>1, <1>12, <2>1 DEF States
  <2>3. CASE Fatal(h.err)
    <3>4. g' = h /\ z' = z /\ Fail(h)
      BY <1>8, <2>3
    <3>1. g' = h /\ z' = z /\ c' = NoCall
      BY <3>4 DEF Fail, ReadDone, GetsDone
    <3>2. CallInv' /\ ~Running'
      BY <3>1, CallOver
    <3>3. Len(h.in) <= h.size
      BY <1>12, <2>1, <2>2
    <3>5. PlacedInv'
      BY <1>0, <1>1, <1>2, <1>8, <1>10, <1>11, <2>2, <2>3, <3>1, <3>2, <3>3, BrokenPlaced
    <3>6. DecompDone
      BY <1>2, <2>2, <3>4, FailDone DEF DecompDone
    <3> QED  BY <3>5, <3>6
  <2>4. CASE ~Fatal(h.err) /\ h.in = <<>>
    <3>1. z' = z /\ \E k \in UnexpectedEnd(h) : DecompEnds(k, made, FALSE)
      BY <1>8, <2>4 DEF made
    <3>2. PICK k \in UnexpectedEnd(h) : DecompEnds(k, made, FALSE)
      BY <3>1
    <3>3. /\ k \in States /\ k.mode = h.mode /\ k.size = h.size /\ k.how = h.how /\ k.in = h.in
          /\ k.direct = h.direct /\ k.pos = h.pos /\ k.data = h.data /\ k.eof = h.eof
          /\ k.seek = h.seek /\ k.skip = h.skip /\ k.err \in {"BUF_ERROR", "MEM_ERROR"}
      <4>1. k = gz_error(h, "BUF_ERROR") \/ k = gz_errorNoMem(h, "BUF_ERROR")
        BY DEF UnexpectedEnd
      <4>2. ASSUME NEW v \in {"BUF_ERROR", "MEM_ERROR"}, k = [h EXCEPT !.err = v]
            PROVE  /\ k \in States /\ k.mode = h.mode /\ k.size = h.size /\ k.how = h.how
                   /\ k.in = h.in /\ k.direct = h.direct /\ k.pos = h.pos /\ k.data = h.data
                   /\ k.eof = h.eof /\ k.err = v /\ k.seek = h.seek /\ k.skip = h.skip
        BY <2>2, <4>2 DEF States, Errors
      <4>3. gz_error(h, "BUF_ERROR") = [h EXCEPT !.err = "BUF_ERROR"]
        <5>1. ~Fatal("BUF_ERROR")
          BY DEF Fatal
        <5>2. gz_error(h, "BUF_ERROR") = [h EXCEPT !.err = "BUF_ERROR", !.data = h.data]
          BY <5>1 DEF gz_error
        <5> QED  BY <2>2, <5>2 DEF States
      <4>4. gz_errorNoMem(h, "BUF_ERROR") = [h EXCEPT !.err = "MEM_ERROR"]
        BY <2>2, <4>3 DEF gz_errorNoMem, States
      <4> QED  BY <4>1, <4>2, <4>3, <4>4
    <3>4. Fatal(k.err) => k.err = "MEM_ERROR" /\ k.eof /\ k.in = <<>> /\ ~FALSE
      <4>1. k.err = "MEM_ERROR" \/ ~Fatal(k.err)
        BY <3>3 DEF Fatal
      <4>2. ~Fatal(g.err) /\ m = 0
        BY <1>12, <2>2, <2>4
      <4> QED  BY <1>14, <1>17, <2>2, <2>4, <3>3, <4>1, <4>2
    <3>5. Len(made) <= (IF c.user THEN c.left ELSE 2 * g.size)
      BY <1>2, <1>6 DEF made, room
    <3>6. FALSE \in BOOLEAN /\ ~FALSE
      OBVIOUS
    <3>7. /\ k.mode = "READ" /\ k.size = g.size /\ k.how = "GZIP" /\ ~k.direct /\ k.data = <<>>
          /\ k.pos = g.pos /\ m <= k.size /\ InputAt(k.in, o, m, k.eof)
      BY <1>1, <1>2, <2>1, <2>2, <3>3
    <3>8. Run(g.pos, made) /\ Run(g.pos + Len(made), z') /\ g.pos + Len(made) + Len(z') = Before(o)
          /\ made \in Seq(Int) /\ z' \in Seq(Int)
      BY <1>1, <1>2, <1>4, <3>1 DEF p
    <3>11. Calling /\ l.n \in Nat /\ o \in Nat /\ m \in Nat /\ fd' = o + m /\ k \in States
           /\ o >= Start /\ (o <= Visible \/ o = Start)
      BY <1>1, <1>4, <1>5, <1>11, <1>12, <3>3
    <3>9. PlacedInv'
      BY <1>0, <1>10, <1>15, <1>18, <3>2, <3>4, <3>5, <3>6, <3>7, <3>8, <3>11, DecompEndsPlaced
    <3>10. DecompOut(k, made)
      <4>1. AtEnd /\ c.made = <<>> => made = <<>> /\ k.eof /\ k.in = <<>>
        BY <1>16, <2>2, <2>4, <3>3 DEF made
      <4>2. k.seek = g.seek /\ k.skip = g.skip /\ g.pos \in Int
        BY <1>2, <2>2, <3>3 DEF p
      <4> QED  BY <1>4, <1>5, <3>3, <3>7, <3>8, <4>1, <4>2, OutIs
    <3> QED  BY <3>2, <3>6, <3>9, <3>10 DEF DecompDone
  <2>5. CASE ~Fatal(h.err) /\ h.in # <<>>
    <3> DEFINE r == inflate(x, room)
    <3>1. z' = r.z /\ InflateTurn(h, r)
      BY <1>8, <2>2, <2>5 DEF room
    <3>2. \E j \in 0 .. m : Inflated(o, m, room, p + Len(made), inflate(Offsets(o, m), room), j)
      <4>1. /\ FileOK(disk, Start) /\ Start \in Nat /\ Final(disk) \in Nat /\ Visible \in Nat
            /\ Visible <= Final(disk)
        BY <1>1, DiskTypes
      <4>6. o + m <= Visible /\ m \in Nat
        BY <1>12, <2>2, <2>5
      <4>7. o + m <= Final(disk)
        BY <1>5, <4>1, <4>6
      <4>8. p \in Int /\ Len(made) \in Nat /\ room \in Nat
        BY <1>2 DEF made, room, p
      <4>2. o + m <= Final(disk) /\ p + Len(made) \in Int /\ room \in Nat
        BY <4>7, <4>8
      <4>3. Run(p + Len(made), z) /\ (p + Len(made)) + Len(z) = Before(o)
        BY <1>4
      <4> DEFINE y == p + Len(made)
      <4> HIDE DEF y
      <4>4. y \in Int /\ Run(y, z) /\ y + Len(z) = Before(o)
        BY <4>2, <4>3 DEF y
      <4>5. \E j \in 0 .. m : Inflated(o, m, room, y, inflate(Offsets(o, m), room), j)
        BY <1>1, <1>4, <1>5, <1>12, <4>1, <4>2, <4>4, InflateOK, Zenon
      <4> QED  BY <4>5 DEF y
    <3>3. PICK j \in 0 .. m : Inflated(o, m, room, p + Len(made), r, j)
      BY <3>2 DEF x
    <3> HIDE DEF r
    <3> DEFINE a == o + j
               b == m - j
               s == r.out
               q == made \o s
    <3>4. /\ r.in = Offsets(a, b) /\ s \in Seq(Int) /\ Len(s) <= room /\ z' \in Seq(Int)
          /\ Run(p + Len(made), s) /\ Run(p + Len(made) + Len(s), z')
          /\ p + Len(made) + Len(s) + Len(z') = Before(a)
          /\ r.ret \in {"OK", "DATA_ERROR", "STREAM_END"}
          /\ r.ret = "STREAM_END" => z' = <<>> /\ j > 0 /\ Cell(o + j - 1).last
      BY <3>1, <3>3 DEF Inflated
    <3>5. /\ a \in Nat /\ b \in Nat /\ b <= m /\ fd' = a + b /\ a >= Start /\ a <= Visible
      <4>1. o + m <= Visible /\ Visible \in Nat /\ Start \in Nat
        BY <1>1, <1>12, <2>2, <2>5, DiskTypes
      <4> QED  BY <1>4, <1>5, <1>12, <4>1
    <3>6. InputAt(r.in, a, b, e)
      <4>1. b # 0 => m # 0 /\ a + b = o + m
        BY <1>5, <1>12
      <4>2. b # 0 /\ e => \E i \in DOMAIN disk.grows : disk.grows[i] = o + m
        BY <2>1, <4>1 DEF InputAt
      <4>3. b # 0 => a + b <= Visible /\ a >= Start
        BY <1>12, <3>5, <4>1
      <4> HIDE DEF a, b
      <4> QED  BY <3>4, <4>1, <4>2, <4>3 DEF InputAt
    <3> HIDE DEF a, b
    <3>7. r.in \in Seq(Int) /\ Len(r.in) = b
      <4>1. a \in Int
        BY <3>5
      <4> QED  BY <3>4, <3>5, <4>1, RunOffsets
    <3> HIDE DEF s
    <3>8. /\ Run(p, q) /\ q \in Seq(Int) /\ Len(q) = Len(made) + Len(s) /\ Len(s) \in Nat
          /\ Len(z') \in Nat
      <4>1. Run(p, q) /\ q \in Seq(Int) /\ Len(q) = Len(made) + Len(s)
        <5>1. made \in Seq(Int) /\ p \in Int
          BY <1>2
        <5> QED  BY <1>4, <3>4, <5>1, RunConcat, Zenon
      <4> QED  BY <3>4, <4>1, LenProperties
    <3> HIDE DEF q
    <3>9. /\ Run(p + Len(q), z') /\ p + Len(q) + Len(z') = Before(a)
          /\ Len(q) <= (IF c.user THEN c.left ELSE 2 * g.size)
      <4>0. p \in Int /\ Len(made) \in Nat /\ room \in Nat
        BY <1>2 DEF made, room, p
      <4>5. Len(s) \in Nat /\ Len(s) <= room /\ Len(q) = Len(made) + Len(s) /\ Len(z') \in Nat
        BY <3>4, <3>8
      <4>1. p + Len(q) = p + Len(made) + Len(s) /\ Len(made) + Len(s) <= Len(made) + room
            /\ p \in Int /\ Len(made) \in Nat /\ room \in Nat
        BY <4>0, <4>5
      <4>2. p + Len(q) + Len(z') = p + Len(made) + Len(s) + Len(z')
        BY <3>8, <4>1
      <4>3. Len(q) <= (IF c.user THEN c.left ELSE 2 * g.size)
        BY <1>6, <3>8, <4>1
      <4> QED  BY <3>4, <4>1, <4>2, <4>3
    <3> DEFINE y == r.in
               k == [h EXCEPT !.in = y]
    <3> HIDE DEF y
    <3>10. /\ k \in States /\ k.mode = h.mode /\ k.size = h.size /\ k.how = h.how /\ k.in = y
           /\ k.direct = h.direct /\ k.pos = h.pos /\ k.data = h.data /\ k.eof = h.eof
           /\ k.err = h.err /\ k.seek = h.seek /\ k.skip = h.skip
      <4>1. y \in Seq(Int)
        BY <3>7 DEF y
      <4> QED  BY <2>2, <4>1 DEF States
    <3>11. InflateTurn(h, r) =
             (IF r.ret = "DATA_ERROR" THEN DecompError(k, "DATA_ERROR")
              ELSE IF Len(s) = c.room \/ r.ret = "STREAM_END"
              THEN DecompEnds(k, q, r.ret = "STREAM_END")
              ELSE /\ g' = k
                   /\ c' = [c EXCEPT !.made = @ \o s, !.room = @ - Len(s)]
                   /\ UNCHANGED ret)
      BY Zenon DEF InflateTurn, y, s, q, made
    <3> HIDE DEF k
    <3>12. /\ k.mode = "READ" /\ k.size = g.size /\ k.how = "GZIP" /\ ~k.direct /\ k.data = <<>>
           /\ k.pos = g.pos /\ b <= k.size /\ InputAt(k.in, a, b, k.eof) /\ ~Fatal(k.err)
           /\ Len(k.in) <= k.size /\ k \in States
      <4>1. b <= g.size
        <5>1. m <= g.size /\ g.size \in Nat /\ m \in Nat /\ b \in Nat /\ b <= m
          BY <1>2, <1>12, <2>1, <3>5
        <5> QED  BY <5>1
      <4> QED  BY <1>1, <1>2, <2>2, <2>5, <3>6, <3>7, <3>10, <4>1 DEF y
    <3>13. Run(g.pos, q) /\ Run(g.pos + Len(q), z') /\ g.pos + Len(q) + Len(z') = Before(a)
      BY <3>8, <3>9 DEF p
    <3>17. DecompOut(k, q)
      <4>1. ~AtEnd
        BY <1>12, <1>16, <2>2, <2>5
      <4>2. k.seek = g.seek /\ k.skip = g.skip /\ g.pos \in Int
        BY <1>2, <2>2, <3>10 DEF p
      <4> QED  BY <3>4, <3>5, <3>8, <3>12, <3>13, <4>1, <4>2, OutIs
    <3>14. CASE r.ret = "DATA_ERROR"
      <4>5. g' = gz_error(k, "DATA_ERROR") /\ Fail(g')
        BY <3>1, <3>11, <3>14 DEF DecompError
      <4>1. g' = gz_error(k, "DATA_ERROR") /\ c' = NoCall
        BY <4>5 DEF Fail, ReadDone, GetsDone
      <4>2. /\ g' \in States /\ g'.mode = k.mode /\ g'.size = k.size /\ g'.in = k.in /\ g'.how = k.how
            /\ g'.data = <<>> /\ g'.err = "DATA_ERROR" /\ g'.direct = k.direct /\ g'.seek = k.seek
        BY <3>10, <4>1, EmptyInt DEF States, gz_error, Errors, Fatal
      <4>3. Fatal(g'.err)
        BY <4>2 DEF Fatal
      <4>4. CallInv' /\ ~Running'
        BY <4>1, CallOver
      <4>6. PlacedInv'
        BY <1>0, <1>1, <1>2, <1>8, <1>10, <1>11, <3>4, <3>12, <4>2, <4>3, <4>4, BrokenPlaced
      <4>7. DecompDone
        BY <2>2, <3>10, <3>12, <4>2, <4>5, FailDone DEF DecompDone
      <4> QED  BY <4>6, <4>7
    <3>15. CASE r.ret # "DATA_ERROR" /\ (Len(s) = c.room \/ r.ret = "STREAM_END")
      <4> DEFINE end == r.ret = "STREAM_END"
      <4>1. DecompEnds(k, q, end)
        BY <3>1, <3>11, <3>15
      <4>2. end \in BOOLEAN /\ (end => z' = <<>> /\ Resumes(disk, a))
        <5>1. ASSUME end
              PROVE  Resumes(disk, a)
          <6>1. j > 0 /\ Cell(a - 1).last
            <7>1. a - 1 = o + j - 1
              BY <1>5 DEF a
            <7> QED  BY <3>4, <5>1, <7>1
          <6>2. FileOK(disk, Start) /\ Start \in Nat
            BY <1>1, DiskTypes
          <6> QED  BY <3>5, <6>1, <6>2, ResumesAt
        <5> QED  BY <3>4, <5>1
      <4> HIDE DEF end
      <4>3. Calling /\ l.n \in Nat /\ z' \in Seq(Int) /\ ~Fatal(k.err)
            /\ q \in Seq(Int) /\ (a <= Visible \/ a = Start)
        BY <1>1, <1>11, <3>4, <3>5, <3>8, <3>12
      <4>4. PlacedInv'
        BY <1>0, <1>10, <1>15, <3>5, <3>9, <3>12, <3>13, <4>1, <4>2, <4>3, <1>18, DecompEndsPlaced
      <4> QED  BY <3>17, <4>1, <4>2, <4>4 DEF DecompDone
    <3>16. CASE r.ret # "DATA_ERROR" /\ ~(Len(s) = c.room \/ r.ret = "STREAM_END")
      <4>1. g' = k /\ c' = [c EXCEPT !.made = @ \o s, !.room = @ - Len(s)]
        BY <3>1, <3>11, <3>16
      <4>2. Goes(q, s)
        BY <3>4, <3>8, <4>1 DEF Goes, q, made, room
      <4>3. Calling /\ Sound /\ l.n \in Nat /\ z' \in Seq(Int) /\ s \in Seq(Int)
            /\ q \in Seq(Int) /\ (a <= Visible \/ a = Start)
        BY <1>1, <1>11, <3>4, <3>5, <3>8
      <4>4. Moved(l.n) /\ fd' = a + b /\ a \in Nat /\ b \in Nat /\ a >= Start
        BY <1>15, <3>5 DEF Moved
      <4>5. PlacedInv'
        BY <1>0, <1>10, <3>12, <3>13, <4>1, <4>2, <4>3, <4>4, <1>18, DecompGoesPlaced
      <4>6. c' = [c EXCEPT !.made = q, !.room = c.room - Len(s)] /\ ret' = ret
        <5>1. ret' = ret
          BY <3>1, <3>11, <3>16
        <5> QED  BY <1>1, <4>1, <5>1 DEF q, made, CallStates
      <4> QED  BY <3>17, <4>1, <4>5, <4>6 DEF DecompDone
    <3> QED  BY <3>14, <3>15, <3>16
  <2> QED  BY <2>3, <2>4, <2>5
<1> QED  BY <1>11, <1>13, <1>14

-----------------------------------------------------------------------------
(* The invariant.                                                          *)

\* gzclearerr is not used to go on after a fatal error.
Clears == GzClearerr => ~Fatal(g.err)

\* Every turn of a function keeps the data in its place,
LEMMA StepPlaced ==
  ASSUME PlacedInv, Step
  PROVE  PlacedInv'
<1>1. CASE Skip
  BY <1>1, SkipPlaced
<1>2. CASE ReadCopy
  BY <1>2, ReadCopyPlaced
<1>3. CASE ReadPast \/ GetsPast
  BY <1>3, ReadPastPlaced
<1>4. CASE ReadFetch \/ GetsFetch
  BY <1>4, ReadFetchPlaced
<1>5. CASE ReadLoad
  BY <1>5, ReadLoadPlaced
<1>6. CASE ReadDecomp
  BY <1>6, ReadDecompPlaced
<1>7. CASE GetsNone
  BY <1>7, GetsNonePlaced
<1>8. CASE GetsTake
  BY <1>8, GetsTakePlaced
<1>9. CASE Unget
  BY <1>9, UngetPlaced
<1>10. CASE FetchCopy
  BY <1>10, FetchCopyPlaced
<1>11. CASE FetchGo
  BY <1>11, FetchGoPlaced
<1>12. CASE Look
  BY <1>12, LookPlaced
<1>13. CASE LookNoMemory
  BY <1>13, LookNoMemoryPlaced
<1>14. CASE Decomp
  BY <1>14, DecompPlaced
<1> QED  BY <1>1, <1>2, <1>3, <1>4, <1>5, <1>6, <1>7, <1>8, <1>9, <1>10, <1>11, <1>12,
            <1>13, <1>14 DEF Step

\* and so does every call, and the process that writes the file.
LEMMA NextPlaced ==
  ASSUME PlacedInv, Next, Clears
  PROVE  PlacedInv'
<1>1. CASE Step
  BY <1>1, StepPlaced
<1>2. CASE Grow
  BY <1>2, GrowPlaced
<1>3. CASE \E m \in Modes : GzOpen(m)
  BY <1>3, GzOpenPlaced
<1>4. CASE \E size \in Buffers : GzBuffer(size)
  BY <1>4, GzBufferPlaced
<1>5. CASE \E len \in Lengths : GzRead(len) \/ GzGets(len) \/ GzFread(2, len)
  <2>1. PICK len \in Lengths : GzRead(len) \/ GzGets(len) \/ GzFread(2, len)
    BY <1>5
  <2>2. CASE GzRead(len)
    BY <2>2, GzReadPlaced
  <2>3. CASE GzGets(len)
    BY <2>3, GzGetsPlaced
  <2>4. CASE GzFread(2, len)
    BY <2>4, GzFreadPlaced
  <2> QED  BY <2>1, <2>2, <2>3, <2>4
<1>6. CASE GzGetc
  BY <1>6, GzGetcPlaced
<1>7. CASE GzUngetc
  BY <1>7, GzUngetcPlaced
<1>8. CASE GzDirect
  BY <1>8, GzDirectPlaced
<1>9. CASE GzRewind
  BY <1>9, GzRewindPlaced
<1>10. CASE GzClearerr
  BY <1>10, GzClearerrPlaced DEF Clears
<1>11. CASE GzClose
  BY <1>11, GzClosePlaced
<1>12. CASE \E s \in Seeks : GzSeek(s[1], s[2])
  BY <1>12, GzSeekPlaced
<1> QED  BY <1>1, <1>2, <1>3, <1>4, <1>5, <1>6, <1>7, <1>8, <1>9, <1>10, <1>11, <1>12 DEF Next

\* A step that changes nothing changes nothing of it.
LEMMA StutterPlaced ==
  ASSUME PlacedInv, UNCHANGED vars
  PROVE  PlacedInv'
<1>1. /\ disk' = disk /\ fd' = fd /\ g' = g /\ z' = z /\ c' = c /\ ret' = ret /\ seen' = seen
      /\ app' = app
  BY DEF vars
<1>2. DiskInv'
  BY <1>1 DEF PlacedInv, DiskInv, MaxCalls, Start
<1>3. StateInv' /\ CallInv' /\ FatalInv' /\ (Sound' => Sound)
  BY <1>1 DEF PlacedInv, StateInv, DataInBuffer, CallInv, FatalInv, FatalData,
           Sound, Running
<1>4. PlaceInv => PlaceInv'
  <2>1. InputInv => InputInv'
    BY <1>1 DEF InputInv, Here, Visible, Start
  <2>2. MemberInv => MemberInv'
    BY <1>1 DEF MemberInv, Here, Visible, Start, End, Made, Held, Before
  <2> QED  BY <1>1, <2>1, <2>2 DEF PlaceInv, End, Start, Here
<1> QED  BY <1>2, <1>3, <1>4 DEF PlacedInv

\* gzread.c, gzlib.c: whatever the file is and however it grows, and whatever
\* is called, read, skipped, pushed back or sought, what the buffers hold is
\* the data of the file that belongs there.
THEOREM ReaderInvariance == Spec /\ [][Clears]_vars => []PlacedInv
<1>1. Init => PlacedInv
  BY InitPlaced
<1>2. PlacedInv /\ [Next]_vars /\ [Clears]_vars => PlacedInv'
  BY NextPlaced, StutterPlaced
<1> QED  BY <1>1, <1>2, PTL DEF Spec

\* gzread.c:159, 212, 513, 527: the output buffer holds the data of the file
\* that lies at x.pos, or what was pushed back there, and holds it within its
\* memory.
THEOREM ReaderBuffers == Spec /\ [][Clears]_vars => []BufferSound
<1>1. PlacedInv => BufferSound
  <2> SUFFICES ASSUME PlacedInv PROVE BufferSound
    OBVIOUS
  <2>1. TypeOK
    <3>1. app \in [use : DOMAIN Uses, calls : Nat] /\ app.calls <= MaxCalls /\ fd \in Nat /\ seen \in Nat
      BY DEF PlacedInv, DiskInv
    <3>2. MaxCalls \in Nat
      BY <3>1, UseFacts
    <3>3. app.calls \in 0 .. MaxCalls
      BY <3>1, <3>2
    <3>4. c.pc \in Pcs
      BY CallTypes DEF PlacedInv, CallInv
    <3> QED  BY <3>1, <3>3, <3>4 DEF PlacedInv, StateInv, TypeOK
  <2>2. DataInBuffer /\ WildUnread
    BY DEF PlacedInv, StateInv, CallInv, WildUnread
  <2>3. BufferInPlace
    <3> SUFFICES ASSUME ~Fatal(g.err)
                 PROVE  \A i \in DOMAIN g.data : g.data[i] \in {g.pos + i - 1, Pushed(g.pos + i - 1)}
      BY DEF BufferInPlace
    <3>1. InPlace(g.data, g.pos)
      BY DEF PlacedInv, Sound, PlaceInv
    <3> QED  BY <3>1 DEF InPlace
  <2> QED  BY <2>1, <2>2, <2>3 DEF BufferSound
<1> QED  BY <1>1, ReaderInvariance, PTL

\* gzlib.c:591: after a fatal error there is nothing for the gzgetc() macro,
\* unless it is that there was no memory to say that the file is cut off.
THEOREM ReaderFatal == Spec /\ [][Clears]_vars => []FatalMeansEmpty
<1>1. PlacedInv => FatalMeansEmpty
  BY DEF PlacedInv, FatalInv, FatalData, FatalMeansEmpty
<1> QED  BY <1>1, ReaderInvariance, PTL

=============================================================================
