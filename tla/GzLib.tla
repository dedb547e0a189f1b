-------------------------------- MODULE GzLib --------------------------------
(***************************************************************************)
(* What gzread.c and gzwrite.c of the zlib copy AWS builds share           *)
(* (include/zlib/gzlib.c, gzguts.h): the state of an open gzip file, how   *)
(* gz_open interprets a mode, errors, buffer size, reset, position and     *)
(* seek.  Operators on a state; GzRead and GzWrite make actions of them.   *)
(*                                                                         *)
(* x.have is the length of data, the bytes at x.next; x.next is an index   *)
(* into the output buffer.  The message of an error is left out.           *)
(***************************************************************************)
EXTENDS Integers, Sequences

CONSTANTS
  GZBUFSIZE,  \* default buffer size
  UINT        \* 2^w for an unsigned of w bits; z_size_t has the same width here

ASSUME GzSizes == /\ GZBUFSIZE \in Nat /\ GZBUFSIZE >= 2
                  /\ UINT \in Nat /\ UINT % 2 = 0 /\ UINT > 2 * GZBUFSIZE

Least(a, b) == IF a < b THEN a ELSE b

Errors == {"OK", "BUF_ERROR", "ERRNO", "STREAM_ERROR", "DATA_ERROR", "MEM_ERROR"}
Fatal(e) == e \notin {"OK", "BUF_ERROR"}

Levels == {"0", "1", "2", "3", "4", "5", "6", "7", "8", "9"}
Strategies == {"f", "h", "R", "F"}

\* The state gz_open sets up before it calls gz_reset.
Fresh(mode, direct, level, strategy) ==
  [mode |-> mode, size |-> 0, want |-> GZBUFSIZE, direct |-> direct,
   level |-> level, strategy |-> strategy, how |-> "LOOK", eof |-> FALSE,
   past |-> FALSE, seek |-> FALSE, skip |-> 0, err |-> "OK", data |-> <<>>,
   next |-> 0, pos |-> 0, in |-> <<>>]

States == [mode : {"READ", "WRITE"}, size : 0 .. UINT, want : 2 .. UINT,
           direct : BOOLEAN, level : Levels \cup {"-1"}, strategy : Strategies \cup {"dflt"},
           how : {"LOOK", "COPY", "GZIP"}, eof : BOOLEAN, past : BOOLEAN,
           seek : BOOLEAN, skip : Nat, err : Errors, data : Seq(Int),
           next : Int, pos : Int, in : Seq(Int)]

-----------------------------------------------------------------------------
(* gz_error, gz_reset, gzclearerr.                                         *)

\* Mutant: the output data stays.
gz_errorKeeps(g, e) == [g EXCEPT !.err = e]

\* A fatal error takes the output data away, so that the gzgetc() macro fails.
gz_error(g, e) ==
  [g EXCEPT !.err = e, !.data = IF Fatal(e) THEN <<>> ELSE @]

\* No memory for the message: the error becomes Z_MEM_ERROR, whatever it was.
gz_errorNoMem(g, e) == [gz_error(g, e) EXCEPT !.err = "MEM_ERROR"]

gz_reset(g) ==
  LET h == [gz_error(g, "OK") EXCEPT !.data = <<>>, !.seek = FALSE, !.pos = 0,
                                     !.in = <<>>]
  IN  IF g.mode = "READ"
      THEN [h EXCEPT !.eof = FALSE, !.past = FALSE, !.how = "LOOK"]
      ELSE h

gzclearerr(g) ==
  IF g.mode = "READ"
  THEN gz_error([g EXCEPT !.eof = FALSE, !.past = FALSE], "OK")
  ELSE gz_error(g, "OK")

-----------------------------------------------------------------------------
(* gz_open: a mode is a sequence of letters.                               *)

Holds(m, c) == \E i \in DOMAIN m : m[i] = c

\* The last letter of S in m: the loop lets it decide over the ones before it.
LastOf(m, S, none) ==
  LET at == {i \in DOMAIN m : m[i] \in S}
  IN  IF at = {} THEN none ELSE m[CHOOSE i \in at : \A j \in at : j <= i]

OpenMode(m) == LastOf(m, {"r", "w", "a"}, "NONE")

\* Modes for which gz_open returns NULL.
Refused(m) ==
  \/ Holds(m, "+")
  \/ OpenMode(m) = "NONE"
  \/ OpenMode(m) = "r" /\ Holds(m, "T")

\* The state of a file that has been opened; a reader is direct until a gzip
\* header is found, for an empty file.
gz_open(m) ==
  LET read == OpenMode(m) = "r"
  IN  gz_reset(Fresh(IF read THEN "READ" ELSE "WRITE", read \/ Holds(m, "T"),
                     LastOf(m, Levels, "-1"), LastOf(m, Strategies, "dflt")))

-----------------------------------------------------------------------------
(* gzbuffer, gztell.                                                       *)

\* Too late once there are buffers; twice the size must fit; two bytes at least.
BufferRefused(g, size) == g.size # 0 \/ (2 * size) % UINT < size
gzbuffer(g, size) == [g EXCEPT !.want = IF size < 2 THEN 2 ELSE size]

gztell64(g) == g.pos + (IF g.seek THEN g.skip ELSE 0)

-----------------------------------------------------------------------------
(* gzrewind and gzseek64.  Each gives the state, the position of the file  *)
(* and the result; can says whether lseek() works on this descriptor.      *)

gzrewind(g, fd, start, can) ==
  IF g.mode # "READ" \/ Fatal(g.err) \/ ~can
  THEN [g |-> g, fd |-> fd, ret |-> -1]
  ELSE [g |-> gz_reset(g), fd |-> start, ret |-> 0]

\* The offset relative to x.pos, a pending skip included.
Relative(g, offset, whence) ==
  IF whence = "SET" THEN offset - g.pos
  ELSE offset + (IF g.seek THEN g.skip ELSE 0)

InRawArea(g, off) == g.mode = "READ" /\ g.how = "COPY" /\ g.pos + off >= 0

\* Within raw data the file itself is positioned.
RawSeek(g, fd, off, can) ==
  IF ~can \/ fd + off - Len(g.data) < 0
  THEN [g |-> g, fd |-> fd, ret |-> -1]
  ELSE [g |-> gz_error([g EXCEPT !.data = <<>>, !.eof = FALSE, !.past = FALSE,
                                 !.in = <<>>, !.pos = @ + off], "OK"),
        fd |-> fd + off - Len(g.data), ret |-> g.pos + off]

\* What is in the output buffer is skipped now, the rest by the next read.
SkipRequest(g, off) ==
  LET n == IF g.mode = "READ" THEN Least(Len(g.data), off) ELSE 0
      left == off - n
  IN  [g EXCEPT !.data = SubSeq(@, n + 1, Len(@)), !.next = @ + n, !.pos = @ + n,
                !.seek = left # 0, !.skip = IF left # 0 THEN left ELSE @]

\* Forward, or back over the start of the file.
SkipSeek(g, fd, start, off, can) ==
  LET back == gzrewind(g, fd, start, can)
      sought(h, f, o) == [g |-> SkipRequest(h, o), fd |-> f, ret |-> h.pos + o]
  IN  CASE off >= 0 -> sought(g, fd, off)
        [] off < 0 /\ (g.mode # "READ" \/ off + g.pos < 0 \/ back.ret = -1) ->
             [g |-> g, fd |-> fd, ret |-> -1]
        [] OTHER -> sought(back.g, back.fd, off + g.pos)

gzseek64(g, fd, start, offset, whence, can) ==
  LET off == Relative(g, offset, whence)
      h == [g EXCEPT !.seek = FALSE]
  IN  CASE Fatal(g.err) \/ whence = "END" -> [g |-> g, fd |-> fd, ret |-> -1]
        [] ~(Fatal(g.err) \/ whence = "END") /\ InRawArea(g, off) -> RawSeek(h, fd, off, can)
        [] OTHER -> SkipSeek(h, fd, start, off, can)

=============================================================================
