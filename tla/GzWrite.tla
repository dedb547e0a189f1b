------------------------------- MODULE GzWrite -------------------------------
(***************************************************************************)
(* Writing gzip files with the zlib copy AWS builds                        *)
(* (include/zlib/gzwrite.c and the writing side of gzlib.c): one open      *)
(* file, an application that calls the gz functions in any order, write()  *)
(* calls that are short or fail, and memory that runs out.                 *)
(*                                                                         *)
(* A byte of data is 1 + its position; in the gap a seek has left it is 0, *)
(* or negative where it is what malloc had left in memory.  A byte of the  *)
(* file is a cell: the header of a member (H), data (D, with the bytes it  *)
(* stands for), the marker of a flush (S), the trailer (T).                *)
(* Each write() and each deflate() is a step.  deflate() is external: it   *)
(* may hold back what it is not made to flush.                             *)
(***************************************************************************)
EXTENDS GzLib, SequencesExt

CONSTANT Uses  \* ways an application uses a file, by name

VARIABLES
  file,    \* the cells in the file
  g,       \* gz_state; g.in is what avail_in counts
  nin,     \* next_in: in whose buffer, and how far from its start
  out,     \* what lies between x.next and next_out, and avail_out
  d,       \* the deflate state
  c,       \* the call in progress
  ret,     \* what the last call returned
  acc,     \* the data x.pos counts
  acked,   \* the bytes of it whose calls succeeded
  faults,
  app      \* how the application uses the file, and its calls so far

vars == <<file, g, nin, out, d, c, ret, acc, acked, faults, app>>

Modes == Uses[app.use].modes         \* modes given to gzopen
Calls == Uses[app.use].calls         \* the functions the application calls
Lengths == Uses[app.use].lengths     \* lengths it writes
Seeks == Uses[app.use].seeks         \* <<offset, whence>> it seeks to
Flushes == Uses[app.use].flushes     \* flush values
Params == Uses[app.use].params       \* <<level, strategy>> given to gzsetparams
Malloc == Uses[app.use].malloc       \* what memory may hold when it is allocated
Faults == Uses[app.use].faults       \* what may fail: "write", "mem", "close"
MaxFaults == Uses[app.use].maxFaults \* bound on the failures
MaxCalls == Uses[app.use].maxCalls   \* bound on the calls

\* Lengths are unsigned; gzsetparams is given what gz_open may also find.
ASSUME UsesAssumption ==
  \A u \in DOMAIN Uses :
    /\ \A m \in Uses[u].modes : m \in Seq(STRING)
    /\ Uses[u].lengths \subseteq 0 .. UINT - 1
    /\ Uses[u].seeks \subseteq Int \X {"SET", "CUR", "END"}
    /\ Uses[u].params \subseteq (Levels \cup {"-1"}) \X (Strategies \cup {"dflt"})
    /\ Uses[u].flushes \subseteq {"NO", "BLOCK", "SYNC", "FINISH"}
    /\ \A junk \in Uses[u].malloc : junk \in Int /\ junk <= 0
    /\ Uses[u].maxFaults \in Nat /\ Uses[u].maxCalls \in Nat

Cell(k, v) == [k |-> k, v |-> v]
NoDeflate == [live |-> FALSE, head |-> FALSE, held |-> <<>>, pend |-> <<>>, fin |-> FALSE,
              fresh |-> TRUE, used |-> FALSE, level |-> "-1", strategy |-> "dflt"]
NoCall == [pc |-> "idle", op |-> "none", main |-> "none", back |-> "none", left |-> 0,
           all |-> 0, arg |-> "NO", flush |-> "NO", dret |-> "OK", zeroed |-> -1,
           rest |-> <<>>, ret |-> "OK", par |-> <<"-1", "dflt">>]
NoRet == [op |-> "none", val |-> "OK", n |-> 0, flush |-> "NO"]
Own == [user |-> FALSE, off |-> 0]

-----------------------------------------------------------------------------
(* What the file decodes to.                                               *)

Decoded(f) == FlattenSeq([i \in DOMAIN f |-> f[i].v])

\* Members one after the other, the last one perhaps not complete: a header
\* stands at the start and behind every trailer, and nowhere else.
WellFormed(f) == \A i \in DOMAIN f : f[i].k = "H" <=> (i = 1 \/ f[i - 1].k = "T")

-----------------------------------------------------------------------------
(* deflate(), external.  It takes all input unless the output fills up,    *)
(* writes a header first, emits what it holds when it likes or must, and   *)
(* a marker or the trailer as flush says.                                  *)

HeldCell(h) == IF h = <<>> THEN <<>> ELSE <<Cell("D", h)>>
Ends(flush) ==
  CASE flush = "FINISH" -> <<Cell("T", <<>>)>>
    [] flush = "SYNC" -> <<Cell("S", <<>>)>>
    [] OTHER -> <<>>
Emits(e, in, m, flush) ==
  LET h == e.held \o SubSeq(in, 1, m)
      head == IF e.head THEN <<>> ELSE <<Cell("H", <<>>)>>
      idle == e.head /\ h = <<>> /\ ~e.fresh
      whole == [cells |-> head \o HeldCell(h) \o Ends(flush), held |-> <<>>, fin |-> flush = "FINISH"]
      kept == [cells |-> head, held |-> h, fin |-> FALSE]
      some == [cells |-> head \o HeldCell(h), held |-> <<>>, fin |-> FALSE]
  IN  CASE e.fin -> {[cells |-> <<>>, held |-> <<>>, fin |-> TRUE]}
        [] ~e.fin /\ m < Len(in) -> {some}
        [] ~e.fin /\ m = Len(in) /\ flush = "NO" -> {kept, some}
        [] ~e.fin /\ m = Len(in) /\ flush = "BLOCK" -> {some}
        [] ~e.fin /\ m = Len(in) /\ flush = "SYNC" /\ idle -> {kept}
        [] OTHER -> {whole}

\* The outcomes of one call: what it took, what it put out, what it is now.
Deflates(e, in, room, flush) ==
  IF Len(e.pend) >= room
  THEN {[m |-> 0, out |-> SubSeq(e.pend, 1, room),
         e |-> [e EXCEPT !.pend = SubSeq(@, room + 1, Len(@))], ret |-> "OK"]}
  ELSE UNION {
         {[m |-> m, out |-> SubSeq(e.pend \o x.cells, 1, Least(room, Len(e.pend \o x.cells))),
           e |-> [e EXCEPT !.pend = SubSeq(e.pend \o x.cells, room + 1, Len(e.pend \o x.cells)),
                           !.held = x.held, !.head = TRUE, !.fin = x.fin,
                           !.fresh = (flush # "SYNC" /\ (m > 0 \/ @))],
           ret |-> IF x.fin /\ Len(e.pend \o x.cells) <= room THEN "STREAM_END" ELSE "OK"] :
             x \in {y \in Emits(e, in, m, flush) :
                      e.fin \/ m = Len(in) \/ Len(e.pend \o y.cells) >= room}} :
           m \in IF e.fin THEN {0} ELSE 0 .. Len(in)}

\* deflateParams: a change flushes first, and is not made if that fills the room.
deflateParams(e, room, par) ==
  LET rs == IF e.head /\ par # <<e.level, e.strategy>>
            THEN Deflates(e, <<>>, room, "BLOCK")
            ELSE {[m |-> 0, out |-> <<>>, e |-> e, ret |-> "OK"]}
      full(r) == Len(r.out) = room
  IN  {[out |-> r.out, e |-> IF full(r) THEN r.e
                             ELSE [r.e EXCEPT !.level = par[1], !.strategy = par[2]]] : r \in rs}

deflateReset(e) ==
  [e EXCEPT !.head = FALSE, !.held = <<>>, !.pend = <<>>, !.fin = FALSE, !.fresh = TRUE]

-----------------------------------------------------------------------------
(* Starting and ending a call.                                             *)

Idle == c.pc = "idle"
Call(op) == Idle /\ op \in Calls /\ app.calls < MaxCalls /\ app' = [app EXCEPT !.calls = @ + 1]

AtOnce(op, val, n) == ret' = [NoRet EXCEPT !.op = op, !.val = val, !.n = n]

\* A call that is refused because of an earlier error.
Refuse(op) == AtOnce(op, "STREAM_ERROR", 0) /\ UNCHANGED <<g, c>>

\* A call begins; it goes to its main part when a seek has been made good.
Begin(op, len, flush, main) ==
  /\ c' = [NoCall EXCEPT !.pc = IF g.seek THEN "zero" ELSE main, !.op = op, !.main = main,
                         !.left = len, !.all = len, !.arg = flush]
  /\ g' = [g EXCEPT !.seek = FALSE]
  /\ UNCHANGED ret

\* gz_write and gzprintf allocate the buffers before they look at the seek.
BeginInit(op, len, main) ==
  IF g.size # 0 THEN Begin(op, len, "NO", main)
  ELSE /\ c' = [NoCall EXCEPT !.pc = "init", !.back = IF g.seek THEN "zero" ELSE main,
                              !.op = op, !.main = main, !.left = len, !.all = len]
       /\ UNCHANGED <<g, ret>>

\* It ends well: the bytes it wrote have been accepted.
Done(n) ==
  /\ ret' = [op |-> c.op, val |-> "OK", n |-> n, flush |-> c.arg]
  /\ acked' = acked \cup (Len(acc') - n + 1 .. Len(acc'))
  /\ c' = NoCall

\* It ends with an error.  gzclose goes on all the same.
Fail ==
  IF c.op = "gzclose"
  THEN /\ c' = [c EXCEPT !.pc = IF c.back = "closing" THEN "closing" ELSE "close",
                         !.ret = g'.err]
       /\ UNCHANGED <<ret, acked>>
  ELSE /\ ret' = [op |-> c.op, val |-> g'.err, n |-> 0, flush |-> c.arg]
       /\ c' = NoCall
       /\ UNCHANGED acked

\* Memory that may be there or not, a write() that may fail.
MayFail(what) == what \in Faults /\ faults < MaxFaults /\ faults' = faults + 1

-----------------------------------------------------------------------------
(* gz_init and gz_comp.                                                    *)

Compressing == ~g.direct

\* The first time: buffers, and the deflate state unless the file is direct.
gz_init(h) ==
  /\ g' = [h EXCEPT !.size = g.want]
  /\ out' = IF Compressing THEN [cells |-> <<>>, avail |-> g.want] ELSE out
  /\ d' = IF Compressing
          THEN [NoDeflate EXCEPT !.live = TRUE, !.level = g.level, !.strategy = g.strategy]
          ELSE d

InitOk ==
  /\ c.pc = "init" /\ gz_init([g EXCEPT !.seek = FALSE])
  /\ c' = [c EXCEPT !.pc = c.back]
  /\ UNCHANGED <<file, nin, ret, acc, acked, faults, app>>

InitNoMemory ==
  /\ c.pc = "init" /\ MayFail("mem")
  /\ g' = gz_error(g, "MEM_ERROR")
  /\ Fail
  /\ UNCHANGED <<file, nin, out, d, acc, app>>

\* gz_comp is called, to return to a part of its caller.
Comp(k, flush, back) ==
  [k EXCEPT !.pc = "comp", !.back = back, !.flush = flush, !.dret = "OK"]

CompInit ==
  /\ c.pc = "comp" /\ g.size = 0
  /\ \/ /\ gz_init(g) /\ UNCHANGED <<c, ret, acked, faults>>
     \/ /\ MayFail("mem") /\ g' = gz_error(g, "MEM_ERROR") /\ Fail
        /\ UNCHANGED <<out, d>>
  /\ UNCHANGED <<file, nin, acc, app>>

\* Transparent writing: write() takes some of the input.
CompDirect ==
  /\ c.pc = "comp" /\ g.size # 0 /\ g.direct /\ g.in # <<>>
  /\ \E k \in 1 .. Len(g.in) :
       /\ file' = file \o [i \in 1 .. k |-> Cell("R", <<g.in[i]>>)]
       /\ g' = [g EXCEPT !.in = SubSeq(@, k + 1, Len(@))]
       /\ nin' = [nin EXCEPT !.off = @ + k]
  /\ UNCHANGED <<out, d, c, ret, acc, acked, faults, app>>

CompDirectEnds ==
  /\ c.pc = "comp" /\ g.size # 0 /\ g.direct /\ g.in = <<>>
  /\ c' = [c EXCEPT !.pc = c.back]
  /\ UNCHANGED <<file, g, nin, out, d, ret, acc, acked, faults, app>>

\* Mutant: only when it is full.
MustWriteFull == out.avail = 0

\* The output buffer is written when it is full, or when flushing, but for
\* Z_FINISH only at the end of the stream.
MustWrite ==
  out.avail = 0 \/ (c.flush # "NO" /\ (c.flush # "FINISH" \/ c.dret = "STREAM_END"))

Compress == c.pc = "comp" /\ g.size # 0 /\ Compressing

CompWrite ==
  /\ Compress /\ MustWrite /\ out.cells # <<>>
  /\ \E k \in 1 .. Len(out.cells) :
       /\ file' = file \o SubSeq(out.cells, 1, k)
       /\ out' = [out EXCEPT !.cells = SubSeq(@, k + 1, Len(@))]
  /\ UNCHANGED <<g, nin, d, c, ret, acc, acked, faults, app>>

\* Mutant: what could not be written is dropped.
WriteErrorDrops ==
  /\ Compress /\ MustWrite /\ out.cells # <<>> /\ MayFail("write")
  /\ out' = [out EXCEPT !.cells = <<>>]
  /\ g' = gz_error(g, "ERRNO")
  /\ Fail
  /\ UNCHANGED <<file, nin, d, acc, app>>

WriteError ==
  /\ \/ Compress /\ MustWrite /\ out.cells # <<>>
     \/ c.pc = "comp" /\ g.size # 0 /\ g.direct /\ g.in # <<>>
  /\ MayFail("write")
  /\ g' = gz_error(g, "ERRNO")
  /\ Fail
  /\ UNCHANGED <<file, nin, out, d, acc, app>>

\* deflate() refuses anything but Z_FINISH once it has been given that.
CompCorrupt ==
  /\ Compress /\ (MustWrite => out.cells = <<>>) /\ d.fin /\ c.flush # "FINISH"
  /\ out' = IF out.avail = 0 THEN [out EXCEPT !.avail = g.size] ELSE out
  /\ g' = gz_error(g, "STREAM_ERROR")
  /\ Fail
  /\ UNCHANGED <<file, nin, d, acc, faults, app>>

\* Mutant: a flush goes on although deflate() puts nothing out.
CompDeflateSpins ==
  /\ Compress /\ (MustWrite => out.cells = <<>>) /\ (d.fin => c.flush = "FINISH")
  /\ \E room \in {IF out.avail = 0 THEN g.size ELSE out.avail} :
       \E r \in Deflates(d, g.in, room, c.flush) :
         /\ g' = [g EXCEPT !.in = SubSeq(@, r.m + 1, Len(@))]
         /\ nin' = [nin EXCEPT !.off = @ + r.m]
         /\ out' = [cells |-> out.cells \o r.out, avail |-> room - Len(r.out)]
         /\ d' = r.e
         /\ c' = IF r.out = <<>> /\ c.flush = "NO" THEN [c EXCEPT !.pc = c.back]
                 ELSE [c EXCEPT !.dret = r.ret]
  /\ UNCHANGED <<file, ret, acc, acked, faults, app>>

\* deflate(), until it puts nothing out.
CompDeflate ==
  /\ Compress /\ (MustWrite => out.cells = <<>>) /\ (d.fin => c.flush = "FINISH")
  /\ \E room \in {IF out.avail = 0 THEN g.size ELSE out.avail} :
       \E r \in Deflates(d, g.in, room, c.flush) :
         /\ g' = [g EXCEPT !.in = SubSeq(@, r.m + 1, Len(@))]
         /\ nin' = [nin EXCEPT !.off = @ + r.m]
         /\ out' = [cells |-> out.cells \o r.out, avail |-> room - Len(r.out)]
         /\ IF r.out = <<>>
            THEN /\ d' = IF c.flush = "FINISH" THEN deflateReset(r.e) ELSE r.e
                 /\ c' = [c EXCEPT !.pc = c.back]
            ELSE /\ d' = r.e /\ c' = [c EXCEPT !.dret = r.ret]
  /\ UNCHANGED <<file, ret, acc, acked, faults, app>>

-----------------------------------------------------------------------------
(* gz_zero: the gap a seek has left is filled with zeros.                  *)

Zero ==
  /\ c.pc = "zero"
  /\ c' = IF g.in # <<>> THEN Comp(c, "NO", "zeros") ELSE [c EXCEPT !.pc = "zeros"]
  /\ UNCHANGED <<file, g, nin, out, d, ret, acc, acked, faults, app>>

\* Mutant: the buffer is not cleared when only a part of it is needed.
ZeroRunWhole(n) == IF c.zeroed = -1 THEN (IF n < g.size THEN 0 ELSE n) ELSE c.zeroed
\* The zeros are stored in the input buffer the first time round only: none
\* where there is no buffer yet, whatever the gap (gzwrite.c:160-163).
ZeroRun(n) == IF c.zeroed = -1 THEN n ELSE c.zeroed
ZeroTurn ==
  /\ c.pc = "zeros" /\ g.skip # 0
  /\ \E n \in {Least(g.size, g.skip)} : \E junk \in Malloc :
       /\ g' = [g EXCEPT !.in = [i \in 1 .. n |-> IF i <= ZeroRun(n) THEN 0 ELSE junk],
                         !.pos = @ + n, !.skip = @ - n]
       /\ acc' = acc \o g'.in
       /\ c' = Comp([c EXCEPT !.zeroed = ZeroRun(n)], "NO", "zeros")
  /\ nin' = Own
  /\ UNCHANGED <<file, out, d, ret, acked, faults, app>>

ZeroEnds ==
  /\ c.pc = "zeros" /\ g.skip = 0
  /\ c' = [c EXCEPT !.pc = c.main]
  /\ UNCHANGED <<file, g, nin, out, d, ret, acc, acked, faults, app>>

-----------------------------------------------------------------------------
(* gz_write, gzputc, gzprintf, gzflush, gzsetparams, gzclose_w.            *)

\* The next n bytes of the application's data.
Fresh_(n) == [i \in 1 .. n |-> g.pos + i]
Have == IF g.in = <<>> THEN 0 ELSE nin.off + Len(g.in)
Buffered(n) ==
  /\ g' = [g EXCEPT !.in = @ \o Fresh_(n), !.pos = @ + n]
  /\ acc' = acc \o Fresh_(n)
  /\ nin' = IF g.in = <<>> THEN Own ELSE nin

\* Mutant: the room is taken to be the whole buffer.
PutSmallWhole ==
  /\ c.pc = "put" /\ g.size # 0 /\ c.all < g.size
  /\ Buffered(c.left) /\ Done(c.all)
  /\ UNCHANGED <<file, out, d, faults, app>>

\* Small: through the input buffer, compressed when it is full.
PutSmall ==
  /\ c.pc = "put" /\ g.size # 0 /\ c.all < g.size
  /\ \E n \in {Least((g.size - Have) % UINT, c.left)} :
       /\ Buffered(n)
       /\ IF n = c.left THEN Done(c.all)
          ELSE c' = Comp([c EXCEPT !.left = @ - n], "NO", "put") /\ UNCHANGED <<ret, acked>>
  /\ UNCHANGED <<file, out, d, faults, app>>

\* Large: what is buffered first, then from the application's own buffer.
PutLarge ==
  /\ c.pc = "put" /\ g.size # 0 /\ c.all >= g.size
  /\ IF g.in # <<>>
     THEN c' = Comp(c, "NO", "put") /\ UNCHANGED <<g, nin, acc>>
     ELSE /\ g' = [g EXCEPT !.in = Fresh_(c.all), !.pos = @ + c.all]
          /\ acc' = acc \o Fresh_(c.all)
          /\ nin' = [user |-> TRUE, off |-> 0]
          /\ c' = Comp(c, "NO", "wrote")
  /\ UNCHANGED <<file, out, d, ret, acked, faults, app>>

Wrote ==
  /\ c.pc = "wrote"
  /\ UNCHANGED acc /\ Done(c.all)
  /\ UNCHANGED <<file, g, nin, out, d, faults, app>>

\* gzputc puts the byte into the buffer if there is one with room.
Putc ==
  /\ c.pc = "putc"
  /\ IF g.size # 0 /\ Have < g.size
     THEN Buffered(1) /\ Done(1)
     ELSE /\ c' = [c EXCEPT !.pc = IF g.size = 0 THEN "init" ELSE "put", !.back = "put"]
          /\ UNCHANGED <<g, nin, acc, ret, acked>>
  /\ UNCHANGED <<file, out, d, faults, app>>

\* gzprintf formats into the second half of the buffer if need be.
Fits(n) == n # 0 /\ n < g.size
PrintRefused ==
  /\ c.pc = "printf" /\ g.size # 0 /\ ~Fits(c.all)
  /\ UNCHANGED acc /\ Done(0)
  /\ UNCHANGED <<file, g, nin, out, d, faults, app>>

Print_ ==
  /\ c.pc = "printf" /\ g.size # 0 /\ Fits(c.all)
  /\ acc' = acc \o Fresh_(c.all)
  /\ nin' = IF g.in = <<>> THEN Own ELSE nin
  /\ \E b \in {g.in \o Fresh_(c.all)} :
       IF Len(b) >= g.size
       THEN /\ g' = [g EXCEPT !.in = SubSeq(b, 1, g.size), !.pos = @ + c.all]
            /\ c' = Comp([c EXCEPT !.rest = SubSeq(b, g.size - nin'.off + 1, Len(b) - nin'.off)],
                         "NO", "moved")
            /\ UNCHANGED <<ret, acked>>
       ELSE g' = [g EXCEPT !.in = b, !.pos = @ + c.all] /\ Done(c.all)
  /\ UNCHANGED <<file, out, d, faults, app>>

\* Mutant: the second half is forgotten.
MovedNothing ==
  /\ c.pc = "moved"
  /\ nin' = Own
  /\ UNCHANGED acc /\ Done(c.all)
  /\ UNCHANGED <<file, g, out, d, faults, app>>

\* What lies behind the first half is moved to the start of the buffer.
Moved ==
  /\ c.pc = "moved"
  /\ g' = [g EXCEPT !.in = c.rest]
  /\ nin' = Own
  /\ UNCHANGED acc /\ Done(c.all)
  /\ UNCHANGED <<file, out, d, faults, app>>

Flush ==
  /\ c.pc = "flush"
  /\ c' = Comp(c, c.arg, "wrote")
  /\ UNCHANGED <<file, g, nin, out, d, ret, acc, acked, faults, app>>

\* gzsetparams, its seek made good: flush with the old ones, then change.
ParamsFlush ==
  /\ c.pc = "params" /\ g.size # 0 /\ g.in # <<>>
  /\ c' = Comp(c, "BLOCK", "params")
  /\ UNCHANGED <<file, g, nin, out, d, ret, acc, acked, faults, app>>

ParamsChange ==
  /\ c.pc = "params" /\ (g.size = 0 \/ g.in = <<>>)
  /\ g' = [g EXCEPT !.level = c.par[1], !.strategy = c.par[2]]
  /\ CASE g.size # 0 /\ d.live ->
            \E r \in deflateParams(d, out.avail, c.par) :
              /\ d' = r.e
              /\ out' = [cells |-> out.cells \o r.out, avail |-> out.avail - Len(r.out)]
       [] g.size # 0 /\ ~d.live -> d' = [d EXCEPT !.used = TRUE] /\ UNCHANGED out
       [] OTHER -> UNCHANGED <<d, out>>
  /\ UNCHANGED acc /\ Done(0)
  /\ UNCHANGED <<file, nin, faults, app>>

\* gzclose_w: finish the stream, free everything, close the file.
CloseFinish ==
  /\ c.pc = "close"
  /\ c' = Comp(c, "FINISH", "closing")
  /\ UNCHANGED <<file, g, nin, out, d, ret, acc, acked, faults, app>>

Closing ==
  /\ c.pc = "closing"
  /\ \/ AtOnce("gzclose", c.ret, 0) /\ UNCHANGED faults
     \/ MayFail("close") /\ AtOnce("gzclose", "ERRNO", 0)
  /\ g' = gz_error(g, "OK")
  /\ d' = [d EXCEPT !.live = FALSE]
  /\ c' = [NoCall EXCEPT !.pc = "closed"]
  /\ UNCHANGED <<file, nin, out, acc, acked, app>>

-----------------------------------------------------------------------------
(* The functions the application calls.                                    *)

Same == UNCHANGED <<file, nin, out, d, acc, acked, faults>>

\* gzopen for writing; "w" empties the file, "a" writes behind what is there.
GzOpen(m) ==
  /\ c.pc = "new" /\ ~Refused(m) /\ OpenMode(m) # "r"
  /\ g' = gz_open(m)
  /\ file' = IF OpenMode(m) = "w" THEN <<>> ELSE file
  /\ c' = NoCall
  /\ UNCHANGED <<nin, out, d, ret, acc, acked, faults, app>>

GzBuffer(size) ==
  /\ Call("gzbuffer")
  /\ IF BufferRefused(g, size) THEN AtOnce("gzbuffer", "ERRNO", 0) /\ UNCHANGED g
     ELSE AtOnce("gzbuffer", "OK", 0) /\ g' = gzbuffer(g, size)
  /\ UNCHANGED c /\ Same

GzWrite(len) ==
  /\ Call("gzwrite")
  /\ CASE g.err # "OK" -> Refuse("gzwrite")
       [] g.err = "OK" /\ len >= UINT \div 2 ->
            AtOnce("gzwrite", "DATA_ERROR", 0) /\ g' = gz_error(g, "DATA_ERROR") /\ UNCHANGED c
       [] g.err = "OK" /\ len = 0 -> AtOnce("gzwrite", "OK", 0) /\ UNCHANGED <<g, c>>
       [] OTHER -> BeginInit("gzwrite", len, "put")
  /\ Same

GzFwrite(size, nitems) ==
  /\ Call("gzfwrite")
  /\ \E len \in {(nitems * size) % UINT} :
       CASE g.err # "OK" -> Refuse("gzfwrite")
         [] g.err = "OK" /\ size # 0 /\ len \div size # nitems ->
              /\ AtOnce("gzfwrite", "STREAM_ERROR", 0)
              /\ g' = gz_error(g, "STREAM_ERROR") /\ UNCHANGED c
         [] g.err = "OK" /\ len = 0 -> AtOnce("gzfwrite", "OK", 0) /\ UNCHANGED <<g, c>>
         [] OTHER -> BeginInit("gzfwrite", len, "put")
  /\ Same

GzPutc ==
  /\ Call("gzputc")
  /\ IF g.err # "OK" THEN Refuse("gzputc") ELSE Begin("gzputc", 1, "NO", "putc")
  /\ Same

\* A string is written like any other data.
GzPuts(len) ==
  /\ Call("gzputs")
  /\ CASE g.err # "OK" -> Refuse("gzputs")
       [] g.err = "OK" /\ len = 0 -> AtOnce("gzputs", "OK", 0) /\ UNCHANGED <<g, c>>
       [] OTHER -> BeginInit("gzputs", len, "put")
  /\ Same

GzPrintf(len) ==
  /\ Call("gzprintf")
  /\ IF g.err # "OK" THEN Refuse("gzprintf") ELSE BeginInit("gzprintf", len, "printf")
  /\ Same

GzFlush(flush) ==
  /\ Call("gzflush")
  /\ IF g.err # "OK" \/ flush = "BLOCK" THEN Refuse("gzflush")
     ELSE Begin("gzflush", 0, flush, "flush")
  /\ Same

GzSetparams(par) ==
  /\ Call("gzsetparams")
  /\ CASE g.err # "OK" -> Refuse("gzsetparams")
       [] g.err = "OK" /\ par = <<g.level, g.strategy>> ->
            AtOnce("gzsetparams", "OK", 0) /\ UNCHANGED <<g, c>>
       [] OTHER ->
            /\ c' = [NoCall EXCEPT !.pc = IF g.seek THEN "zero" ELSE "params",
                                   !.op = "gzsetparams", !.main = "params", !.par = par]
            /\ g' = [g EXCEPT !.seek = FALSE] /\ UNCHANGED ret
  /\ Same

GzSeek(offset, whence) ==
  /\ Call("gzseek")
  /\ \E r \in {gzseek64(g, 0, 0, offset, whence, TRUE)} :
       /\ g' = r.g
       /\ AtOnce("gzseek", IF r.ret = -1 THEN "ERRNO" ELSE "OK", r.ret)
  /\ UNCHANGED c /\ Same

\* The application lets the file go on after an error.
GzClearerr ==
  /\ Call("gzclearerr")
  /\ g' = gzclearerr(g) /\ UNCHANGED <<c, ret>> /\ Same

\* The stream is closed whatever its state.
GzClose ==
  /\ Idle /\ "gzclose" \in Calls
  /\ Begin("gzclose", 0, "FINISH", "close")
  /\ UNCHANGED app /\ Same

-----------------------------------------------------------------------------

Init ==
  /\ file = <<Cell("H", <<>>), Cell("T", <<>>)>>
  /\ g = gz_open(<<"w">>)
  /\ nin = Own
  /\ out = [cells |-> <<>>, avail |-> 0]
  /\ d = NoDeflate
  /\ c = [NoCall EXCEPT !.pc = "new"]
  /\ ret = NoRet
  /\ acc = <<>>
  /\ acked = {}
  /\ faults = 0
  /\ app \in {[use |-> u, calls |-> 0] : u \in DOMAIN Uses}

Step ==
  \/ InitOk \/ InitNoMemory \/ CompInit \/ CompDirect \/ CompDirectEnds \/ CompWrite
  \/ WriteError \/ CompCorrupt \/ CompDeflate \/ Zero \/ ZeroTurn \/ ZeroEnds \/ PutSmall \/ PutLarge
  \/ Wrote \/ Putc \/ PrintRefused \/ Print_ \/ Moved \/ Flush \/ ParamsFlush
  \/ ParamsChange \/ CloseFinish \/ Closing

Next ==
  \/ Step
  \/ \E m \in Modes : GzOpen(m)
  \/ \E len \in Lengths : GzWrite(len) \/ GzFwrite(2, len) \/ GzPuts(len) \/ GzPrintf(len)
                          \/ GzBuffer(len)
  \/ GzPutc \/ GzClearerr \/ GzClose
  \/ \E f \in Flushes : GzFlush(f)
  \/ \E par \in Params : GzSetparams(par)
  \/ \E s \in Seeks : GzSeek(s[1], s[2])

Spec == Init /\ [][Next]_vars

\* A function that has been called runs on: it is ordinary sequential code.
LiveSpec == Spec /\ WF_vars(Step)

-----------------------------------------------------------------------------
(* Properties.                                                             *)

\* The state stays within its types; x.pos counts the data, and avail_out and
\* what waits to be written stay within the output buffer.
TypeOK ==
  /\ g \in States
  /\ g.pos = Len(acc)
  /\ Len(out.cells) + out.avail <= g.size
  /\ app.calls \in 0 .. MaxCalls /\ faults \in 0 .. MaxFaults

\* gzwrite.c:208, 335, 410: while there is no error, the input that is left
\* between two calls lies in the first half of the input buffer, not in a
\* buffer of the application, so that "there is guaranteed to be state->size
\* bytes available after the current contents".
InputInBuffer ==
  Idle /\ g.err = "OK" /\ g.in # <<>> => ~nin.user /\ nin.off + Len(g.in) <= g.size

\* gzwrite.c:627: when nothing has failed, gzclose leaves a file of complete
\* members that decode to all that x.pos counts.
Closed == c.pc = "closed" /\ ret.val = "OK"
ClosedIsExact ==
  Closed /\ faults = 0 =>
    /\ Decoded(file) = acc
    /\ Compressing => WellFormed(file) /\ file # <<>> /\ Last(file).k = "T"

\* gzwrite.c:96-101: what a gzflush with Z_FINISH that failed has left in the
\* output buffer is the end of its member; a further Z_FINISH puts nothing out
\* and does not look at it.  Nor does it take the input that an application
\* gives after it has cleared the error.
LeftBehind ==
  /\ faults > 0 /\ "FINISH" \in Flushes /\ Compressing
  /\ out.cells # <<>> => Last(out.cells).k = "T"
  /\ g.in # <<>> => "gzclearerr" \in Calls
Handed == Decoded(file \o out.cells) \o g.in

\* gzwrite.c:650: with writes that fail, a gzclose that succeeds after all has
\* lost nothing of the calls that succeeded, and put nothing out of order;
\* except for what a failed Z_FINISH has left behind: gzclose frees that and
\* reports success.
ClosedIsComplete ==
  Closed =>
    /\ (out.cells = <<>> /\ g.in = <<>>) \/ LeftBehind
    /\ \E x \in {Handed} :
         /\ acked \subseteq ToSet(x)
         /\ \A i, j \in DOMAIN x : i < j /\ x[j] > 0 => x[i] < x[j]

\* gzwrite.c:105, 580: when gzflush with Z_SYNC_FLUSH or Z_FINISH succeeds, all
\* data written so far, and the gaps up to where the file was sought, can be
\* decoded from the file; after a Z_FINISH that failed and was repeated, the
\* end of the member may still be left behind.
FlushReaches ==
  Idle /\ ret.op = "gzflush" /\ ret.val = "OK" /\ ret.flush \in {"SYNC", "FINISH"} =>
    \/ Decoded(file) = acc
    \/ ret.flush = "FINISH" /\ LeftBehind /\ Handed = acc

\* gzwrite.c:160-163: the gaps of seeks are filled with zeros, but for one in
\* front of all data: a gzputc, gzflush, gzsetparams or gzclose that finds it
\* before there are buffers hands over what malloc has left in them.
GapsAreZero ==
  \A i \in DOMAIN acc : acc[i] < 0 => \A j \in 1 .. i : acc[j] <= 0

\* gzwrite.c:87, 102, 159: every call returns.
CallReturns == c.pc \notin {"new", "idle", "closed"} ~> c.pc \in {"idle", "closed"}

\* What waits in the buffers is in its place and counted.
BufferSound == TypeOK /\ InputInBuffer

\* What the application was told is in the file is there: after a flush, after a
\* close, and after a close that follows failed writes, with gaps of zeros.
ReachesFile == FlushReaches /\ ClosedIsExact /\ ClosedIsComplete /\ GapsAreZero

=============================================================================
