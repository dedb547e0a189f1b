------------------------------- MODULE GzRead -------------------------------
(***************************************************************************)
(* Reading gzip files with the zlib copy AWS builds (include/zlib/gzread.c *)
(* and the reading side of gzlib.c): one open file, an application that    *)
(* calls the gz functions in any order, and a process that may still be    *)
(* writing the file.                                                       *)
(*                                                                         *)
(* A byte of the file is its offset; the file says what each offset holds. *)
(* A byte of data is its position in the uncompressed data, so that a byte *)
(* delivered at the wrong place is seen at once.  Every loop iteration of  *)
(* gz_skip, gz_read, gzgets, gz_fetch and gz_decomp is a step, with one    *)
(* call of gz_load at most, between which the file may grow.  inflate() is *)
(* external: what gz_decomp sees of it.                                    *)
(***************************************************************************)
EXTENDS GzLib, SequencesExt

CONSTANTS
  Uses,   \* ways an application uses a file, by name
  Files   \* for each, the files: cells, and the lengths they grow through

VARIABLES
  disk,   \* the file: [cells, grows], and how far it has grown
  fd,     \* position of the descriptor
  g,      \* gz_state
  z,      \* what inflate has decoded and not had room for
  c,      \* the call in progress
  ret,    \* what the last call returned
  seen,   \* length of the file when its end was last seen
  full,   \* the last output of inflate took all the room it was given
  app     \* how the application uses the file, and its calls so far

vars == <<disk, fd, g, z, c, ret, seen, full, app>>

Start == Uses[app.use].start        \* offset of the descriptor handed to gzdopen
Modes == Uses[app.use].modes        \* modes given to gzopen
Calls == Uses[app.use].calls        \* the functions the application calls
Lengths == Uses[app.use].lengths    \* lengths it asks for
Seeks == Uses[app.use].seeks        \* <<offset, whence>> it seeks to
Buffers == Uses[app.use].buffers    \* sizes it asks gzbuffer for
Newlines == Uses[app.use].newlines  \* positions of the data that hold a newline
Faults == Uses[app.use].faults      \* what may fail: "read", "mem", "lseek"
MaxCalls == Uses[app.use].maxCalls  \* bound on its calls

-----------------------------------------------------------------------------
(* The files: what each offset holds (the byte, the data it completes when *)
(* it is one of a gzip member, whether it is the last one of a member and  *)
(* whether it is invalid), and the lengths the file grows through.         *)

Offsets(from, n) == [i \in 1 .. n |-> from + i - 1]
CellTypes == [b : Nat, out : Seq(Int), gz : BOOLEAN, last : BOOLEAN, bad : BOOLEAN]

\* Bytes of data in the members before offset o.
DataBefore(cells, start, o) == Len(FlattenSeq([i \in 1 .. o - start |-> cells[start + i].out]))

Final(f) == f.grows[Len(f.grows)]
NoData(f, o) == \A p \in o .. Final(f) - 1 : f.cells[p + 1].out = <<>>
Marked(f, o) == o + 1 < Final(f) /\ f.cells[o + 1].b = 31 /\ f.cells[o + 2].b = 139

\* A header is written in one piece, unless the file ends in it.
HeaderAt(f, o) ==
  /\ f.cells[o + 1].b = 31 /\ f.cells[o + 1].out = <<>>
  /\ o + 1 < Final(f) => f.cells[o + 2].b = 139
MemberPlaces(f, start) ==
  {o \in start .. Final(f) - 1 : o = start \/ f.cells[o].last}

FileOK(f, start) ==
  /\ f.cells \in Seq(CellTypes)
  /\ f.grows \in Seq(Nat) /\ f.grows # <<>> /\ Final(f) <= Len(f.cells)
  /\ \A i, j \in DOMAIN f.grows : i <= j => f.grows[i] <= f.grows[j]
  /\ \A o \in start .. Final(f) - 1 :
       /\ f.cells[o + 1].out = Offsets(DataBefore(f.cells, start, o), Len(f.cells[o + 1].out))
       /\ f.cells[o + 1].gz \/ f.cells[o + 1].out = <<>>
  /\ \A o \in MemberPlaces(f, start) :
       /\ HeaderAt(f, o) \/ NoData(f, o)
       /\ Marked(f, o) => \A i \in DOMAIN f.grows : f.grows[i] # o + 1

UseOK(u) ==
  /\ u.start \in Nat /\ u.maxCalls \in Nat
  /\ u.modes \subseteq Seq(STRING) /\ u.lengths \subseteq Nat
  /\ u.buffers \subseteq 0 .. UINT - 1 /\ u.seeks \subseteq Int \X {"SET", "CUR", "END"}

ASSUME UsesAssumption ==
  \A n \in DOMAIN Uses : UseOK(Uses[n]) /\ \A f \in Files[n] : FileOK(f, Uses[n].start)

Visible == disk.grows[disk.at]
Cell(o) == disk.cells[o + 1]

NoCall == [pc |-> "idle", op |-> "none", left |-> 0, got |-> <<>>, tell |-> 0,
           over |-> 0, past |-> FALSE, back |-> "none", room |-> 0, made |-> <<>>,
           user |-> FALSE, unit |-> 1, tried |-> FALSE]
NoRet == [op |-> "none", val |-> 0, bytes |-> <<>>, tell |-> 0, over |-> 0,
          past |-> FALSE, pos |-> 0]

\* In "wild" a byte has been written outside of all buffers: what the program
\* does then is undefined, and the model ends there.
Pcs == {"closed", "idle", "skip", "read", "gets", "unget", "fetch", "look", "decomp", "wild"}

\* A byte pushed back at position p, told from all data by its sign.
Pushed(p) == IF p >= 0 THEN -1 - 2 * p ELSE 2 * p

-----------------------------------------------------------------------------
(* What the file stands for, said without the reader: the data of its gzip *)
(* members up to the first thing that is none, or the file as it is.       *)

Magic(n) == n - Start >= 2 /\ Cell(Start).b = 31 /\ Cell(Start + 1).b = 139

\* Whole bytes of data in the first n bytes of the file.
PlainLen(n) ==
  IF Magic(n) THEN DataBefore(disk.cells, Start, n) ELSE n - Start

\* The first n bytes end inside a gzip member (a lone first byte of a header
\* is not taken for one).
Truncated(n) ==
  Magic(n) /\ Cell(n - 1).gz /\ ~Cell(n - 1).last /\ Cell(n - 1).b # 31

-----------------------------------------------------------------------------
(* gz_load: read() until len bytes are there, the file ends or it fails.   *)

\* Mutant: the end of the file is not noted.
LoadsNoEof(len) ==
  LET k == IF Visible > fd THEN Least(len, Visible - fd) ELSE 0
  IN  {[n |-> k, eof |-> FALSE, err |-> FALSE]}

Loads(len) ==
  LET k == IF Visible > fd THEN Least(len, Visible - fd) ELSE 0
  IN  {[n |-> k, eof |-> k < len, err |-> FALSE]}
      \cup (IF "read" \in Faults
            THEN {[n |-> j, eof |-> FALSE, err |-> TRUE] : j \in 0 .. Least(k, len - 1)}
            ELSE {})

\* What gz_load does besides filling the buffer it was given.
Loaded(h, l) ==
  IF l.err THEN gz_error(h, "ERRNO") ELSE [h EXCEPT !.eof = @ \/ l.eof]

SeenBy(l) == IF l.eof THEN Visible ELSE seen

\* gz_avail: nothing to do at the end of the file, else what read() brings is
\* put behind what is left.  The outcome of a read that is not made is NoLoad.
NoLoad == [n |-> 0, eof |-> FALSE, err |-> FALSE]
Avails(h) == IF h.eof THEN {NoLoad} ELSE Loads(h.size - Len(h.in))
gz_avail(h, l) ==
  IF l.err THEN Loaded(h, l)
  ELSE [Loaded(h, l) EXCEPT !.in = @ \o Offsets(fd, l.n)]

-----------------------------------------------------------------------------
(* inflate(), external: it takes input as long as there is room for what   *)
(* it decodes to, keeps what there is no room for, and stops at the end of *)
(* the member or at invalid data.                                          *)

Out(in, m) == z \o FlattenSeq([i \in 1 .. m |-> Cell(in[i]).out])
Consumed(in, room) ==
  CHOOSE m \in 0 .. Len(in) :
    /\ \A j \in 0 .. m - 1 :
         /\ Len(Out(in, j)) <= room
         /\ j > 0 => ~Cell(in[j]).last /\ ~Cell(in[j]).bad
    /\ \/ m = Len(in)
       \/ Len(Out(in, m)) > room
       \/ m > 0 /\ (Cell(in[m]).last \/ Cell(in[m]).bad)

inflate(in, room) ==
  LET m == Consumed(in, room)
      out == Out(in, m)
      fits == Len(out) <= room
      ret_ == CASE m > 0 /\ Cell(in[m]).bad -> "DATA_ERROR"
                [] m > 0 /\ ~Cell(in[m]).bad /\ Cell(in[m]).last /\ fits -> "STREAM_END"
                [] OTHER -> "OK"
  IN  [in |-> SubSeq(in, m + 1, Len(in)), out |-> SubSeq(out, 1, Least(Len(out), room)),
       z |-> SubSeq(out, room + 1, Len(out)), ret |-> ret_]

-----------------------------------------------------------------------------
(* Starting and ending a call.                                             *)

Idle == c.pc = "idle"

\* The application makes a call the run allows.
Call(op) == Idle /\ op \in Calls /\ app.calls < MaxCalls /\ app' = [app EXCEPT !.calls = @ + 1]

Value(op, h, val, bytes) ==
  [op |-> op, val |-> val, bytes |-> bytes, tell |-> c.tell, over |-> c.over,
   past |-> c.past, pos |-> h.pos]

\* A function that ends at once, without any data.
AtOnce(op, val) ==
  ret' = [NoRet EXCEPT !.op = op, !.val = val, !.tell = gztell64(g), !.past = g.past]

\* A call goes on, skipping first if a seek is pending.
Begin(op, len, unit, main) ==
  /\ c' = [NoCall EXCEPT !.pc = IF g.seek THEN "skip" ELSE main, !.op = op,
                         !.left = len, !.unit = unit, !.back = main,
                         !.tell = gztell64(g), !.past = g.past]
  /\ g' = [g EXCEPT !.seek = FALSE]
  /\ UNCHANGED ret

\* gz_read is through: what gzread, gzfread and gzgetc make of its result.
ReadValue(op, h, n, unit) ==
  CASE op = "gzread" -> IF n = 0 /\ Fatal(h.err) THEN -1 ELSE n
    [] op = "gzfread" -> n \div unit
    [] OTHER -> IF n < 1 THEN -1 ELSE 0

ReadDone(h, bytes) ==
  /\ ret' = Value(c.op, h, ReadValue(c.op, h, Len(bytes), c.unit), bytes)
  /\ c' = NoCall

\* gzgets is through: NULL (-1) if nothing was read.
GetsDone(h, bytes) ==
  /\ ret' = Value(c.op, h, IF bytes = <<>> THEN -1 ELSE 0, bytes)
  /\ c' = NoCall

\* gz_skip or gz_fetch returned -1: every caller gives up what it has read.
Fail(h) ==
  IF c.op \in {"gzread", "gzfread", "gzgetc"} THEN ReadDone(h, <<>>)
  ELSE GetsDone(h, <<>>)

-----------------------------------------------------------------------------
(* gz_look, gz_decomp and gz_fetch.                                        *)

\* Where gz_fetch goes after a turn: on, or back to its caller.
FetchOn(h) ==
  IF h.data = <<>> /\ (~h.eof \/ h.in # <<>>) THEN "fetch" ELSE c.back

\* Buffers are allocated the first time.
Allocated(h) == IF h.size = 0 THEN [h EXCEPT !.size = @ + h.want, !.in = <<>>] ELSE h

\* Mutant: data after a gzip member is taken for raw data.
LookAtRaw(h) ==
  IF Len(h.in) > 1 /\ Cell(h.in[1]).b = 31 /\ Cell(h.in[2]).b = 139
  THEN [h EXCEPT !.how = "GZIP", !.direct = FALSE]
  ELSE [h EXCEPT !.next = 0, !.data = [i \in DOMAIN h.in |-> h.in[i] - Start],
                 !.in = <<>>, !.how = "COPY"]

\* A header, trailing garbage after a gzip member, or raw data.
LookAt(h) ==
  CASE Len(h.in) > 1 /\ Cell(h.in[1]).b = 31 /\ Cell(h.in[2]).b = 139 ->
         [h EXCEPT !.how = "GZIP", !.direct = FALSE]
    [] ~(Len(h.in) > 1 /\ Cell(h.in[1]).b = 31 /\ Cell(h.in[2]).b = 139) /\ ~h.direct ->
         [h EXCEPT !.in = <<>>, !.eof = TRUE, !.data = <<>>]
    [] OTHER ->
         [h EXCEPT !.next = 0, !.data = [i \in DOMAIN h.in |-> h.in[i] - Start],
                   !.in = <<>>, !.how = "COPY"]

\* gz_look once it has what gz_avail could bring.
Looked(h) == IF h.in = <<>> THEN h ELSE LookAt(h)

\* gz_look, called by gz_fetch, or by gzdirect, which ignores its result.
LookEnds(h) ==
  CASE c.op = "gzdirect" ->
         c' = NoCall /\ ret' = Value(c.op, h, IF h.direct THEN 1 ELSE 0, <<>>)
    [] c.op # "gzdirect" /\ Fatal(h.err) -> Fail(h)
    [] OTHER ->
         /\ c' = [c EXCEPT !.pc = IF h.how = "LOOK" THEN c.back ELSE FetchOn(h)]
         /\ UNCHANGED ret

LookNoMemory ==
  /\ c.pc = "look" /\ g.size = 0 /\ "mem" \in Faults
  /\ g' = gz_error(g, "MEM_ERROR")
  /\ LookEnds(g')
  /\ UNCHANGED <<disk, fd, z, seen, full, app>>

Look ==
  /\ c.pc = "look"
  /\ \E h \in {Allocated(g)} :
       \E l \in (IF Len(h.in) < 2 /\ ~Fatal(h.err) THEN Avails(h) ELSE {NoLoad}) :
         /\ fd' = fd + l.n
         /\ g' = IF Fatal(h.err) /\ Len(h.in) < 2 THEN h
                 ELSE IF l.err THEN gz_avail(h, l) ELSE Looked(gz_avail(h, l))
         /\ seen' = IF g'.eof /\ ~g.eof THEN Visible ELSE seen
         /\ z' = IF g'.how = "GZIP" THEN <<>> ELSE z
         /\ LookEnds(g')
  /\ UNCHANGED <<disk, full, app>>

\* Mutant: a member that is complete is not followed by a look for another.
DecompEndsStays(h, made, end) ==
  /\ g' = [h EXCEPT !.pos = IF c.user THEN @ + Len(made) ELSE @,
                    !.data = IF c.user THEN <<>> ELSE made, !.next = 0]
  /\ IF c.user /\ Len(made) = c.left
     THEN ReadDone(g', c.got \o made)
     ELSE /\ c' = [c EXCEPT !.pc = IF c.user THEN "read" ELSE FetchOn(g'),
                            !.got = IF c.user THEN @ \o made ELSE @,
                            !.left = IF c.user THEN @ - Len(made) ELSE @]
          /\ UNCHANGED ret

\* Mutant: the position does not follow what goes to the caller's buffer.
DecompEndsNoPos(h, made, end) ==
  /\ g' = [h EXCEPT !.data = IF c.user THEN <<>> ELSE made, !.next = 0,
                    !.how = IF end THEN "LOOK" ELSE @]
  /\ IF c.user /\ Len(made) = c.left
     THEN ReadDone(g', c.got \o made)
     ELSE /\ c' = [c EXCEPT !.pc = IF c.user THEN "read" ELSE FetchOn(g'),
                            !.got = IF c.user THEN @ \o made ELSE @,
                            !.left = IF c.user THEN @ - Len(made) ELSE @]
          /\ UNCHANGED ret

\* The output of inflate goes to the output buffer, or to the caller's.
DecompEnds(h, made, end) ==
  LET k == [h EXCEPT !.how = IF end THEN "LOOK" ELSE @]
  IN  IF c.user
      THEN /\ g' = [k EXCEPT !.pos = @ + Len(made), !.data = <<>>]
           /\ IF Len(made) = c.left
              THEN ReadDone(g', c.got \o made)
              ELSE /\ c' = [c EXCEPT !.pc = "read", !.got = @ \o made,
                                     !.left = @ - Len(made)]
                   /\ UNCHANGED ret
      ELSE /\ g' = [k EXCEPT !.data = made, !.next = 0]
           /\ c' = [c EXCEPT !.pc = FetchOn(g')]
           /\ UNCHANGED ret

\* The file ends inside a member; it is no serious error, unless there is no
\* memory for its message.
UnexpectedEnd(h) ==
  {gz_error(h, "BUF_ERROR")}
  \cup (IF "mem" \in Faults THEN {gz_errorNoMem(h, "BUF_ERROR")} ELSE {})

DecompError(h, e) == g' = gz_error(h, e) /\ Fail(g')

\* One turn of gz_decomp's loop.
InflateTurn(h, r) ==
  IF r.ret = "DATA_ERROR" THEN DecompError([h EXCEPT !.in = r.in], "DATA_ERROR")
  ELSE IF Len(r.out) = c.room \/ r.ret = "STREAM_END"
  THEN DecompEnds([h EXCEPT !.in = r.in], c.made \o r.out, r.ret = "STREAM_END")
  ELSE /\ g' = [h EXCEPT !.in = r.in]
       /\ c' = [c EXCEPT !.made = @ \o r.out, !.room = @ - Len(r.out)]
       /\ UNCHANGED ret

Decomp ==
  /\ c.pc = "decomp"
  /\ \E l \in (IF g.in = <<>> /\ ~Fatal(g.err) THEN Avails(g) ELSE {NoLoad}) :
       \E h \in {gz_avail(g, l)} :
         /\ fd' = fd + l.n
         /\ seen' = SeenBy(l)
         /\ CASE Fatal(h.err) -> g' = h /\ UNCHANGED <<z, full>> /\ Fail(h)
              [] ~Fatal(h.err) /\ h.in = <<>> ->
                   /\ z' = z /\ full' = FALSE
                   /\ \E k \in UnexpectedEnd(h) : DecompEnds(k, c.made, FALSE)
              [] OTHER ->
                   \E r \in {inflate(h.in, c.room)} :
                     /\ z' = r.z /\ full' = (Len(r.out) = c.room /\ r.ret = "OK")
                     /\ InflateTurn(h, r)
  /\ UNCHANGED <<disk, app>>

\* gz_fetch: one turn of its loop.
FetchCopy ==
  /\ c.pc = "fetch" /\ g.how = "COPY"
  /\ \E l \in Loads(2 * g.size) :
       /\ fd' = fd + l.n
       /\ seen' = SeenBy(l)
       /\ g' = IF l.err THEN Loaded(g, l)
               ELSE [Loaded(g, l) EXCEPT !.data = Offsets(fd - Start, l.n), !.next = 0]
       /\ IF l.err THEN Fail(g') ELSE c' = [c EXCEPT !.pc = c.back] /\ UNCHANGED ret
  /\ UNCHANGED <<disk, z, full, app>>

FetchGo ==
  /\ c.pc = "fetch" /\ g.how # "COPY"
  /\ c' = IF g.how = "LOOK" THEN [c EXCEPT !.pc = "look"]
          ELSE [c EXCEPT !.pc = "decomp", !.room = 2 * g.size, !.made = <<>>,
                         !.user = FALSE]
  /\ UNCHANGED <<disk, fd, g, z, ret, seen, full, app>>

-----------------------------------------------------------------------------
(* gz_skip and gz_read, one turn at a time.                                *)

\* Mutant: the end of the file is the end of the data.
AtEndEarly == g.eof

AtEnd == g.eof /\ g.in = <<>>
Taken(h, n) ==
  [h EXCEPT !.data = SubSeq(@, n + 1, Len(@)), !.next = @ + n, !.pos = @ + n]
Main == CASE c.op = "gzungetc" -> "unget" [] c.op = "gzgets" -> "gets" [] OTHER -> "read"

Skip ==
  /\ c.pc = "skip"
  /\ CASE g.skip # 0 /\ g.data # <<>> ->
            \E n \in {Least(Len(g.data), g.skip)} :
              g' = [Taken(g, n) EXCEPT !.skip = @ - n] /\ UNCHANGED c
       [] g.skip # 0 /\ g.data = <<>> /\ ~AtEnd ->
            c' = [c EXCEPT !.pc = "fetch", !.back = "skip"] /\ UNCHANGED g
       [] OTHER ->
            /\ c' = [c EXCEPT !.pc = Main, !.back = Main, !.over = g.skip]
            /\ g' = [g EXCEPT !.skip = 0]
  /\ UNCHANGED <<disk, fd, z, ret, seen, full, app>>

ReadCopy ==
  /\ c.pc = "read" /\ g.data # <<>>
  /\ \E n \in {Least(Len(g.data), c.left)} :
       /\ g' = Taken(g, n)
       /\ IF n = c.left THEN ReadDone(g', c.got \o SubSeq(g.data, 1, n))
          ELSE /\ c' = [c EXCEPT !.left = @ - n, !.got = @ \o SubSeq(g.data, 1, n)]
               /\ UNCHANGED ret
  /\ UNCHANGED <<disk, fd, z, seen, full, app>>

ReadPast ==
  /\ c.pc = "read" /\ g.data = <<>> /\ AtEnd
  /\ g' = [g EXCEPT !.past = TRUE]
  /\ ReadDone(g', c.got)
  /\ UNCHANGED <<disk, fd, z, seen, full, app>>

\* For a small length, or to look for a header, through the output buffer.
Small == g.how = "LOOK" \/ c.left < 2 * g.size
ReadFetch ==
  /\ c.pc = "read" /\ g.data = <<>> /\ ~AtEnd /\ Small
  /\ c' = [c EXCEPT !.pc = "fetch", !.back = "read"]
  /\ UNCHANGED <<disk, fd, g, z, ret, seen, full, app>>

ReadLoad ==
  /\ c.pc = "read" /\ g.data = <<>> /\ ~AtEnd /\ ~Small /\ g.how = "COPY"
  /\ \E l \in Loads(c.left) :
       /\ fd' = fd + l.n
       /\ seen' = SeenBy(l)
       /\ g' = IF l.err THEN Loaded(g, l) ELSE [Loaded(g, l) EXCEPT !.pos = @ + l.n]
       /\ IF l.err THEN Fail(g')
          ELSE IF l.n = c.left THEN ReadDone(g', c.got \o Offsets(fd - Start, l.n))
          ELSE /\ c' = [c EXCEPT !.left = @ - l.n, !.got = @ \o Offsets(fd - Start, l.n)]
               /\ UNCHANGED ret
  /\ UNCHANGED <<disk, z, full, app>>

ReadDecomp ==
  /\ c.pc = "read" /\ g.data = <<>> /\ ~AtEnd /\ ~Small /\ g.how = "GZIP"
  /\ c' = [c EXCEPT !.pc = "decomp", !.room = c.left, !.made = <<>>, !.user = TRUE]
  /\ UNCHANGED <<disk, fd, g, z, ret, seen, full, app>>

-----------------------------------------------------------------------------
(* gzgets and gzungetc, after the skip.                                    *)

\* How much of the buffer one turn of gzgets takes: through the newline.
LineEnds(n) == {i \in 1 .. n : g.data[i] \in Newlines}
LineLen(n) ==
  IF LineEnds(n) = {} THEN n
  ELSE CHOOSE i \in LineEnds(n) : \A j \in LineEnds(n) : i <= j

GetsNone ==
  /\ c.pc = "gets" /\ c.left = 0
  /\ GetsDone(g, c.got)
  /\ UNCHANGED <<disk, fd, g, z, seen, full, app>>

\* The buffer is empty: gz_fetch, at the end of the file too.
GetsFetch ==
  /\ c.pc = "gets" /\ c.left # 0 /\ g.data = <<>> /\ ~c.tried
  /\ c' = [c EXCEPT !.pc = "fetch", !.back = "gets", !.tried = TRUE]
  /\ UNCHANGED <<disk, fd, g, z, ret, seen, full, app>>

\* gz_fetch brought nothing: the end.
GetsPast ==
  /\ c.pc = "gets" /\ c.left # 0 /\ g.data = <<>> /\ c.tried
  /\ g' = [g EXCEPT !.past = TRUE]
  /\ GetsDone(g', c.got)
  /\ UNCHANGED <<disk, fd, z, seen, full, app>>

GetsTake ==
  /\ c.pc = "gets" /\ c.left # 0 /\ g.data # <<>>
  /\ \E n \in {LineLen(Least(Len(g.data), c.left))} :
       /\ g' = Taken(g, n)
       /\ IF n = c.left \/ g.data[n] \in Newlines
          THEN GetsDone(g', c.got \o SubSeq(g.data, 1, n))
          ELSE /\ c' = [c EXCEPT !.left = @ - n, !.got = @ \o SubSeq(g.data, 1, n),
                                 !.tried = FALSE]
               /\ UNCHANGED ret
  /\ UNCHANGED <<disk, fd, z, seen, full, app>>

\* Put a byte before the data: at the end of an empty buffer, else in front,
\* after sliding the data to the end if it starts at the beginning.
PushFirst(h) ==
  [h EXCEPT !.data = <<Pushed(h.pos - 1)>>, !.next = 2 * h.size - 1]
\* Mutant: the data is not moved to make room.
SlidNot(h) == h.next

Slid(h) == IF h.next = 0 THEN 2 * h.size - Len(h.data) ELSE h.next
PushFront(h) ==
  [h EXCEPT !.data = <<Pushed(h.pos - 1)>> \o @, !.next = Slid(h) - 1]
\* Mutant: the position is not taken back.
PushKeepsPos(h) ==
  [(IF h.data = <<>> THEN PushFirst(h) ELSE PushFront(h)) EXCEPT !.past = FALSE]

Push(h) ==
  [(IF h.data = <<>> THEN PushFirst(h) ELSE PushFront(h))
     EXCEPT !.pos = @ - 1, !.past = FALSE]

\* Before the first read there is no output buffer: out, which gz_open has not
\* set, is written through all the same.
Unget ==
  /\ c.pc = "unget"
  /\ CASE g.data = <<>> /\ g.size = 0 -> UNCHANGED <<g, ret>> /\ c' = [NoCall EXCEPT !.pc = "wild"]
       [] g.data # <<>> /\ Len(g.data) = 2 * g.size ->
            /\ g' = gz_error(g, "DATA_ERROR")
            /\ ret' = Value(c.op, g', -1, <<>>) /\ c' = NoCall
       [] OTHER -> g' = Push(g) /\ ret' = Value(c.op, g', 0, <<>>) /\ c' = NoCall
  /\ UNCHANGED <<disk, fd, z, seen, full, app>>

-----------------------------------------------------------------------------
(* The functions the application calls.                                    *)

\* gzopen, or gzdopen on a descriptor that stands at Start.  An open that is
\* refused leaves everything as it is.
GzOpen(m) ==
  /\ c.pc = "closed" /\ app.calls < MaxCalls /\ app' = [app EXCEPT !.calls = @ + 1]
  /\ IF Refused(m) \/ OpenMode(m) # "r"
     THEN AtOnce("gzopen", -1) /\ UNCHANGED <<g, fd, c>>
     ELSE /\ g' = gz_open(m) /\ fd' = Start /\ c' = NoCall
          /\ ret' = [NoRet EXCEPT !.op = "gzopen"]
  /\ UNCHANGED <<disk, z, seen, full>>

GzBuffer(size) ==
  /\ Call("gzbuffer")
  /\ IF BufferRefused(g, size) THEN AtOnce("gzbuffer", -1) /\ UNCHANGED g
     ELSE AtOnce("gzbuffer", 0) /\ g' = gzbuffer(g, size)
  /\ UNCHANGED <<disk, fd, z, c, seen, full>>

\* A length that is no int is an error; none at all is no work.
GzRead(len) ==
  /\ Call("gzread")
  /\ CASE Fatal(g.err) -> AtOnce("gzread", -1) /\ UNCHANGED <<g, c>>
       [] ~Fatal(g.err) /\ len >= UINT \div 2 ->
            AtOnce("gzread", -1) /\ g' = gz_error(g, "STREAM_ERROR") /\ UNCHANGED c
       [] ~Fatal(g.err) /\ len = 0 -> AtOnce("gzread", 0) /\ UNCHANGED <<g, c>>
       [] OTHER -> Begin("gzread", len, 1, "read")
  /\ UNCHANGED <<disk, fd, z, seen, full>>

\* size * nitems must fit.
GzFread(size, nitems) ==
  /\ Call("gzfread")
  /\ \E len \in {(nitems * size) % UINT} :
       CASE Fatal(g.err) -> AtOnce("gzfread", 0) /\ UNCHANGED <<g, c>>
         [] ~Fatal(g.err) /\ size # 0 /\ len \div size # nitems ->
              AtOnce("gzfread", 0) /\ g' = gz_error(g, "STREAM_ERROR") /\ UNCHANGED c
         [] ~Fatal(g.err) /\ (size = 0 \/ len \div size = nitems) /\ len = 0 ->
              AtOnce("gzfread", 0) /\ UNCHANGED <<g, c>>
         [] OTHER -> Begin("gzfread", len, size, "read")
  /\ UNCHANGED <<disk, fd, z, seen, full>>

\* A byte of the output buffer, whatever seek is pending; or gz_read.
GzGetc ==
  /\ Call("gzgetc")
  /\ CASE Fatal(g.err) -> AtOnce("gzgetc", -1) /\ UNCHANGED <<g, c>>
       [] ~Fatal(g.err) /\ g.data # <<>> ->
            /\ g' = Taken(g, 1)
            /\ ret' = [op |-> "gzgetc", val |-> 0, bytes |-> SubSeq(g.data, 1, 1),
                       tell |-> gztell64(g), over |-> IF g.seek THEN g.skip ELSE 0,
                       past |-> g.past, pos |-> g'.pos]
            /\ UNCHANGED c
       [] OTHER -> Begin("gzgetc", 1, 1, "read")
  /\ UNCHANGED <<disk, fd, z, seen, full>>

GzUngetc ==
  /\ Call("gzungetc")
  /\ IF Fatal(g.err) THEN AtOnce("gzungetc", -1) /\ UNCHANGED <<g, c>>
     ELSE Begin("gzungetc", 0, 1, "unget")
  /\ UNCHANGED <<disk, fd, z, seen, full>>

GzGets(len) ==
  /\ Call("gzgets")
  /\ IF Fatal(g.err) \/ len < 1 THEN AtOnce("gzgets", -1) /\ UNCHANGED <<g, c>>
     ELSE Begin("gzgets", len - 1, 1, "gets")
  /\ UNCHANGED <<disk, fd, z, seen, full>>

\* Looks for a header if that has not been done.
GzDirect ==
  /\ Call("gzdirect")
  /\ IF g.how = "LOOK" /\ g.data = <<>>
     THEN /\ c' = [NoCall EXCEPT !.pc = "look", !.op = "gzdirect", !.tell = gztell64(g),
                                 !.past = g.past]
          /\ UNCHANGED ret
     ELSE AtOnce("gzdirect", IF g.direct THEN 1 ELSE 0) /\ UNCHANGED c
  /\ UNCHANGED <<disk, fd, g, z, seen, full>>

Can == "lseek" \notin Faults

GzSeek(offset, whence) ==
  /\ Call("gzseek")
  /\ \E r \in {gzseek64(g, fd, Start, offset, whence, Can)} :
       g' = r.g /\ fd' = r.fd /\ AtOnce("gzseek", r.ret)
  /\ UNCHANGED <<disk, z, c, seen, full>>

GzRewind ==
  /\ Call("gzrewind")
  /\ \E r \in {gzrewind(g, fd, Start, Can)} :
       g' = r.g /\ fd' = r.fd /\ AtOnce("gzrewind", r.ret)
  /\ UNCHANGED <<disk, z, c, seen, full>>

GzClearerr ==
  /\ Call("gzclearerr")
  /\ g' = gzclearerr(g)
  /\ AtOnce("gzclearerr", 0)
  /\ UNCHANGED <<disk, fd, z, c, seen, full>>

\* gzclose_r reports a file that ends inside a gzip member (1), no other error.
gzclose_r(h) == IF h.err = "BUF_ERROR" THEN 1 ELSE 0
GzClose ==
  /\ Idle /\ app.calls < MaxCalls /\ app' = [app EXCEPT !.calls = @ + 1]
  /\ ret' = [Value("gzclose", g, gzclose_r(g), <<>>) EXCEPT !.past = g.past]
  /\ c' = [NoCall EXCEPT !.pc = "closed"]
  /\ UNCHANGED <<disk, fd, g, z, seen, full>>

\* The process that writes the file has written more.
Grow ==
  /\ disk.at < Len(disk.grows)
  /\ disk' = [disk EXCEPT !.at = @ + 1]
  /\ UNCHANGED <<fd, g, z, c, ret, seen, full, app>>

-----------------------------------------------------------------------------

Init ==
  /\ app \in {[use |-> u, calls |-> 0] : u \in DOMAIN Uses}
  /\ disk \in {[cells |-> f.cells, grows |-> f.grows, at |-> 1] : f \in Files[app.use]}
  /\ fd = Start
  /\ g = gz_open(<<"r">>)
  /\ z = <<>>
  /\ c = [NoCall EXCEPT !.pc = "closed"]
  /\ ret = NoRet
  /\ seen = 0
  /\ full = FALSE

Step ==
  \/ Skip \/ ReadCopy \/ ReadPast \/ ReadFetch \/ ReadLoad \/ ReadDecomp
  \/ GetsNone \/ GetsFetch \/ GetsPast \/ GetsTake \/ Unget
  \/ FetchCopy \/ FetchGo \/ Look \/ LookNoMemory \/ Decomp

Next ==
  \/ Step
  \/ Grow
  \/ \E m \in Modes : GzOpen(m)
  \/ \E size \in Buffers : GzBuffer(size)
  \/ \E len \in Lengths : GzRead(len) \/ GzGets(len) \/ GzFread(2, len)
  \/ GzGetc \/ GzUngetc \/ GzDirect \/ GzRewind \/ GzClearerr \/ GzClose
  \/ \E s \in Seeks : GzSeek(s[1], s[2])

Spec == Init /\ [][Next]_vars

\* A function that has been called runs on: it is ordinary sequential code.
LiveSpec == Spec /\ WF_vars(Step)

-----------------------------------------------------------------------------
(* Properties.                                                             *)

\* The state stays within its types, and x.have within the output buffer.
TypeOK ==
  /\ g \in States
  /\ fd \in Nat /\ seen \in Nat /\ app.calls \in 0 .. MaxCalls
  /\ c.pc \in Pcs
  /\ Len(g.in) <= g.size

\* gzread.c:159, 212, 513, 527: whatever was skipped, pushed back, fetched or
\* sought, the output buffer holds the data that lies at x.pos (or what was
\* pushed back there).
BufferInPlace ==
  ~Fatal(g.err) =>
    \A i \in DOMAIN g.data :
      g.data[i] \in {g.pos + i - 1, Pushed(g.pos + i - 1)}

\* gzread.c:294: what a call delivers is the data at the position gztell gave
\* before it, without a gap, through buffers, members and large reads.  Two calls
\* pass over a seek, and deliver what lies before it by as much as is left of
\* it: gzgetc takes a byte of raw data that gzdirect has brought (464), and
\* gzgets reads on when a raw file has grown since the skip came to its end (207).
DeliveredInPlace ==
  /\ \A i \in DOMAIN ret.bytes :
       ret.bytes[i] \in {ret.tell - ret.over + i - 1, Pushed(ret.tell - ret.over + i - 1)}
  /\ ret.bytes # <<>> /\ ret.over # 0 =>
       \/ ret.op = "gzgetc" /\ "gzdirect" \in Calls
       \/ ret.op = "gzgets" /\ ~Magic(Visible) /\ Len(disk.grows) > 1

\* gzread.c:513, 527: the bytes at x.next are inside the output buffer,
DataInBuffer == g.data # <<>> => g.next >= 0 /\ g.next + Len(g.data) <= 2 * g.size

\* and gzungetc writes no byte outside of it, but for the one it pushes when
\* there is no buffer yet.
WildUnread == c.pc = "wild" => g.size = 0

\* gzread.c:332, 580: when gzeof becomes true, all the data there was when the
\* end of the file was seen has been delivered.  What inflate has decoded and not
\* had room for is lost, but only in a file that is cut off.  Data that gzgets reads
\* from a raw file that has grown comes with gzeof still true.
EofMeansAll ==
  g.past /\ ~Fatal(g.err) =>
    /\ g.pos + Len(g.data) + Len(z) >= PlainLen(seen)
    /\ g.data # <<>> => ~Magic(Visible) /\ Len(disk.grows) > 1 /\ "gzgets" \in Calls
    /\ z # <<>> => Truncated(seen)

\* gzread.c:189, 209, 648: once everything has been read, gzclose says that the
\* file ended inside a gzip member if it did and inflate did not happen to fill
\* its room with the last of the input, and in no other case.
TruncationReported ==
  g.past /\ ~Fatal(g.err) => (gzclose_r(g) = 1 <=> Truncated(seen) /\ ~full)

\* gzlib.c:591: after a fatal error there is nothing for the gzgetc() macro,
\* unless it is that there was no memory to say that the file is cut off.
FatalMeansEmpty ==
  Idle /\ Fatal(g.err) /\ g.data # <<>> =>
    g.err = "MEM_ERROR" /\ g.eof /\ g.in = <<>> /\ g.how = "GZIP"

\* gzread.c:266, 575, 234: every call returns, whatever the file is.
CallReturns == ~Idle /\ c.pc # "closed" ~> c.pc \in {"idle", "closed", "wild"}

\* zlib.h:1604, "If gzeof() returns true, then the read functions will return
\* no more data, unless the end-of-file indicator is reset by gzclearerr() and
\* the input file has grown since": but gzgets reads a raw file that has grown
\* without a look at eof, and what it leaves in the buffer is there for all.
EofMeansNoMore ==
  ret.past /\ ret.bytes # <<>> =>
    ~Magic(Visible) /\ Len(disk.grows) > 1 /\ "gzgets" \in Calls

\* zlib.h:1399, "If something other than a gzip stream is encountered after a
\* gzip stream, that remaining trailing garbage is ignored", unless gzclearerr makes
\* gz_look go on behind the garbage it has in its buffer.
GarbageIgnored ==
  \A i \in DOMAIN ret.bytes : ret.bytes[i] >= 0 => ret.bytes[i] < PlainLen(Visible)

\* What lies in the output buffer is in its place, in memory and in the file.
BufferSound == TypeOK /\ DataInBuffer /\ WildUnread /\ BufferInPlace

\* What a call delivers is the data of the file at the position it was asked
\* for, and no garbage after it.
DeliveredSound == DeliveredInPlace /\ GarbageIgnored

\* The end of the file and its errors are reported when they are met, not
\* before and not in place of one another.
EndSound == EofMeansAll /\ EofMeansNoMore /\ TruncationReported /\ FatalMeansEmpty

=============================================================================
