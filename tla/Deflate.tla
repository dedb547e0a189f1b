------------------------------- MODULE Deflate -------------------------------
(***************************************************************************)
(* The compressor of the zlib copy AWS builds (include/zlib/deflate.c and  *)
(* the output side of trees.c): one deflate stream, the application that   *)
(* calls it with buffers of any size, and every step between a call and    *)
(* its return.                                                             *)
(*                                                                         *)
(* s is the deflate_state together with its z_stream, with the field names *)
(* of the source.  Input bytes are identified by their index in data (the  *)
(* preset dictionary comes first), so the window holds indices and every   *)
(* memory move can be followed; Uninit marks memory never written.  An     *)
(* output byte is the sequence of marks whose last bit it carries: a       *)
(* header, a block with its content, a byte of a stored block, a check     *)
(* value.  How many bits a compressed block takes is left open.            *)
(***************************************************************************)
EXTENDS Integers, Sequences, SequencesExt

CONSTANTS
  w_size,        \* LZ77 window size
  MAX_MATCH,     \* longest match
  lit_bufsize,   \* symbols per block, plus one
  MAX_STORED,    \* longest stored block
  Config,        \* configuration_table, without its column func
  Fast, Slow,    \* the levels whose func is deflate_fast, deflate_slow
  hash_size, Hash(_, _), \* hash table, UPDATE_HASH (hash so far, next byte)
  Uses           \* ways an application uses a stream, by name

VARIABLES
  data,    \* the byte string of this behaviour
  s,       \* deflate_state and z_stream
  pc,      \* where the call under way is
  loc,     \* its parameter flush and its locals
  ret,     \* what the last call returned
  app      \* how the application uses the stream, and its bounded calls so far

vars == <<data, s, pc, loc, ret, app>>

DictLen == Uses[app.use].dictLen         \* length of the dictionary that data starts with
PendingSize == Uses[app.use].pendingSize \* pending_buf_size
Levels == Uses[app.use].levels           \* parameters of deflateInit2 and deflateParams
Strategies == Uses[app.use].strategies
Wraps == Uses[app.use].wraps
GzHeads == Uses[app.use].gzHeads         \* the gzip headers it sets
Flushes == Uses[app.use].flushes         \* flush values it uses
InSizes == Uses[app.use].inSizes         \* how much input it adds
OutSizes == Uses[app.use].outSizes       \* how much room it makes
Encodings == Uses[app.use].encodings     \* how well blocks compress: "small", "large"
PrimeBits == Uses[app.use].primeBits     \* numbers of bits it primes the stream with
Others == Uses[app.use].others           \* the other functions it calls
MaxCalls == Uses[app.use].maxCalls       \* bound on the calls that are not plain compression

-----------------------------------------------------------------------------
MIN_MATCH == 3
MIN_LOOKAHEAD == MAX_MATCH + MIN_MATCH + 1
MAX_DIST == w_size - MIN_LOOKAHEAD
\* Mutant: one byte short of what longest_match may read.
WinInitShort == MAX_MATCH - 1
WIN_INIT == MAX_MATCH
window_size == 2 * w_size
NIL == 0
Uninit == -1

ASSUME SizesAssumption ==
  /\ MAX_MATCH \in Nat /\ MAX_MATCH >= MIN_MATCH
  /\ w_size \in Nat /\ w_size > MIN_LOOKAHEAD
  /\ lit_bufsize \in Nat /\ lit_bufsize > 1
  /\ MAX_STORED \in Nat /\ MAX_STORED > 0
  /\ \A u \in DOMAIN Uses :
       /\ Uses[u].pendingSize \in Nat /\ Uses[u].pendingSize > 6
       /\ \A l \in Uses[u].levels \ {0} : Config[l].chain >= 4

Z_NO_FLUSH == 0
Z_PARTIAL_FLUSH == 1
Z_SYNC_FLUSH == 2
Z_FULL_FLUSH == 3
Z_FINISH == 4
Z_BLOCK == 5
RANK(f) == f * 2 - (IF f > 4 THEN 9 ELSE 0)

MIN(a, b) == IF a > b THEN b ELSE a

\* The value of a window entry; zeroed memory holds byte 0.
Byte(i) == IF i > 0 THEN data[i] ELSE 0

-----------------------------------------------------------------------------
(* The pending buffer and the bit buffer.                                  *)

\* put_byte writes at pending_buf + pending, wherever pending_out points.
put_bytes(t, bytes) ==
  [t EXCEPT !.pending_buf = [i \in DOMAIN @ |->
                IF i \in t.pending .. t.pending + Len(bytes) - 1
                THEN bytes[i - t.pending + 1] ELSE @[i]],
            !.pending = @ + Len(bytes)]

\* n bits that complete the marks; whole bytes leave at once, up to 7 bits
\* and the marks they complete stay in bi_buf.
send_bits(t, n, marks) ==
  LET b == t.bi_valid + n
      k == b \div 8
      bytes == [i \in 1 .. k |->
                  (IF i = 1 THEN t.bi_buf ELSE <<>>) \o
                  (IF i = k /\ b % 8 = 0 THEN marks ELSE <<>>)]
  IN  [put_bytes(t, bytes) EXCEPT
        !.bi_valid = b % 8,
        !.bi_buf = IF k = 0 THEN t.bi_buf \o marks
                   ELSE IF b % 8 = 0 THEN <<>> ELSE marks]

bi_windup(t) ==
  IF t.bi_valid = 0 THEN t
  ELSE [put_bytes(t, <<t.bi_buf>>) EXCEPT !.bi_valid = 0, !.bi_buf = <<>>]

flush_pending(t) ==
  LET len == MIN(t.pending, t.avail_out)
      end == t.pending = len
      bytes == [i \in 1 .. len |-> t.pending_buf[t.pending_out + i - 1]]
  IN  [t EXCEPT !.out = @ \o FlattenSeq(bytes),
                !.avail_out = @ - len,
                !.pending = @ - len,
                !.pending_out = IF end THEN 0 ELSE @ + len]

\* The bytes of the window from position p on, as bytes of a stored block.
WindowBytes(t, p, n) == [i \in 1 .. n |-> <<"byte", t.window[p + i - 1]>>]

\* A stored block: its type bits, the two lengths, its content.
tr_stored_block(t, bytes, len, last) ==
  LET h == bi_windup(send_bits(t, 3, <<>>))
  IN  put_bytes(h, <<<<>>, <<>>, <<>>, <<<<"stored", len, last>>>>>>
                   \o [i \in DOMAIN bytes |-> <<bytes[i]>>])

\* Mutant: an empty block too short to push out the one before it.
tr_alignShort(t) == send_bits(t, 3, <<<<"block", <<>>, FALSE>>>>)

\* An empty static block.
tr_align(t) == send_bits(t, 10, <<<<"block", <<>>, FALSE>>>>)

init_block(t) == [t EXCEPT !.syms = <<>>, !.matches = 0]

\* What the Huffman trees may make of the current block, in bits: little, or
\* more than storing it takes, as far as the pending buffer holds it.
BlockBits(t) ==
  {IF e = "small" THEN 7
   ELSE 8 * MIN(t.strstart - t.block_start + 4, PendingSize - 1) - 3 : e \in Encodings}

\* bits is opt_len, the better of the static and the dynamic encoding.
tr_flush_block(t, last, bits) ==
  LET stored_len == t.strstart - t.block_start
      opt_lenb == (bits + 3 + 7) \div 8
      u == IF stored_len + 4 <= opt_lenb /\ t.block_start >= 0
           THEN tr_stored_block(t, WindowBytes(t, t.block_start, stored_len),
                                stored_len, last)
           ELSE send_bits(t, 3 + bits, <<<<"block", t.syms, last>>>>)
  IN  IF last THEN bi_windup(init_block(u)) ELSE init_block(u)

FLUSH_BLOCK_ONLY(t, last, bits) ==
  flush_pending([tr_flush_block(t, last, bits) EXCEPT !.block_start = t.strstart])

tr_tally(t, dist, lc) == [t EXCEPT !.syms = Append(@, <<dist, lc>>)]
bflush(t) == Len(t.syms) = lit_bufsize - 1

-----------------------------------------------------------------------------
(* The window and the hash chains.                                         *)

Moved(win, from, to, n) ==
  [i \in DOMAIN win |-> IF i \in to .. to + n - 1 THEN win[from + i - to]
                        ELSE win[i]]

\* Take up to size bytes of input and update the check value.
read_bytes(t, size) ==
  LET n == MIN(t.avail_in, size)
  IN  [t EXCEPT !.avail_in = @ - n, !.next_in = @ + n,
                !.adler = IF t.wrap \in {1, 2}
                          THEN @ \o [i \in 1 .. n |-> t.next_in + i] ELSE @]

read_buf(t, pos, size) ==
  LET n == MIN(t.avail_in, size)
  IN  [read_bytes(t, size) EXCEPT
        !.window = [i \in DOMAIN @ |-> IF i \in pos .. pos + n - 1
                                       THEN t.next_in + 1 + i - pos ELSE @[i]]]

\* Mutant: positions in the chains are not adjusted.
SlidNot(m) == m
Slid(m) == IF m >= w_size THEN m - w_size ELSE NIL

slide_hash(t) ==
  [t EXCEPT !.head = [h \in DOMAIN @ |-> Slid(@[h])],
            !.prev = [p \in DOMAIN @ |-> Slid(@[p])]]

CLEAR_HASH(t) == [t EXCEPT !.head = [h \in DOMAIN @ |-> NIL]]

\* Insert the string at str; the former head of its chain becomes hash_head.
INSERT_STRING(t, str) ==
  LET h == Hash(t.ins_h, Byte(t.window[str + MIN_MATCH - 1]))
  IN  [t EXCEPT !.ins_h = h,
                !.hash_head = t.head[h],
                !.prev[str % w_size] = t.head[h],
                !.head[h] = str]

\* The strings left over from the end of earlier input are inserted as far as
\* there are MIN_MATCH bytes for them.
InsertPending(t) ==
  LET str == t.strstart - t.insert
      n == MIN(t.insert, t.lookahead + t.insert - (MIN_MATCH - 1))
      ins[k \in 0 .. n] ==
        IF k = 0
        THEN [t EXCEPT !.ins_h = Hash(Byte(t.window[str]), Byte(t.window[str + 1]))]
        ELSE INSERT_STRING(ins[k - 1], str + k - 1)
  IN  [ins[n] EXCEPT !.insert = @ - n, !.hash_head = t.hash_head]

\* The upper half of the window becomes the lower one.
SlideWindow(t) ==
  LET more == window_size - t.lookahead - t.strstart
  IN  slide_hash([t EXCEPT !.window = Moved(@, w_size, 0, w_size - more),
                           !.match_start = @ - w_size,
                           !.strstart = @ - w_size,
                           !.block_start = @ - w_size])

\* One round of fill_window.
FillOnce(t) ==
  LET u == IF t.strstart >= w_size + MAX_DIST THEN SlideWindow(t) ELSE t
      more == window_size - u.lookahead - u.strstart
      v == [read_buf(u, u.strstart + u.lookahead, more)
              EXCEPT !.lookahead = @ + MIN(u.avail_in, more)]
  IN  IF u.avail_in = 0 THEN u
      ELSE IF v.lookahead + v.insert >= MIN_MATCH THEN InsertPending(v) ELSE v

\* Zero up to WIN_INIT bytes after the data that were never written.
InitHighWater(t) ==
  LET curr == t.strstart + t.lookahead
      from == IF t.high_water < curr THEN curr ELSE t.high_water
      to == MIN(curr + WIN_INIT, window_size)
  IN  IF t.high_water >= window_size \/ t.high_water >= curr + WIN_INIT THEN t
      ELSE [t EXCEPT !.window = [i \in DOMAIN @ |-> IF i \in from .. to - 1
                                                    THEN 0 ELSE @[i]],
                     !.high_water = to]

fill_window(t) ==
  LET u == FillOnce(t)
  IN  InitHighWater(IF u.lookahead < MIN_LOOKAHEAD /\ u.avail_in # 0
                    THEN FillOnce(u) ELSE u)

\* Bytes 2 of scan and match are not compared: their hashes are equal.
MatchLen(t, cur) ==
  LET same(i) == Byte(t.window[cur + i]) = Byte(t.window[t.strstart + i])
      ends == {i \in MIN_MATCH .. MAX_MATCH - 1 : ~same(i)} \cup {MAX_MATCH}
  IN  IF same(0) /\ same(1) THEN CHOOSE n \in ends : \A e \in ends : n <= e ELSE 0

\* The search visits at most chain entries of the chain of hash_head; visit[k]
\* is the state after k of them.
longest_match(t) ==
  LET cfg == t.cfg
      chain == IF t.prev_length >= cfg.good THEN cfg.chain \div 4 ELSE cfg.chain
      nice == MIN(cfg.nice, t.lookahead)
      limit == IF t.strstart > MAX_DIST THEN t.strstart - MAX_DIST ELSE NIL
      byteAt(p) == Byte(t.window[p])
      visit[k \in 0 .. chain] ==
        IF k = 0
        THEN [cur |-> t.hash_head, best |-> t.prev_length,
              start |-> t.match_start, end |-> FALSE]
        ELSE LET v == visit[k - 1]
                 can == \A i \in {v.best - 1, v.best} :
                           byteAt(v.cur + i) = byteAt(t.strstart + i)
                 len == IF can THEN MatchLen(t, v.cur) ELSE 0
                 next == t.prev[v.cur % w_size]
             IN  IF v.end THEN v
                 ELSE [cur |-> next,
                       best |-> IF len > v.best THEN len ELSE v.best,
                       start |-> IF len > v.best THEN v.cur ELSE v.start,
                       end |-> next <= limit \/ (len > v.best /\ len >= nice)]
      r == visit[chain]
  IN  [t EXCEPT !.match_start = r.start, !.match_length = MIN(r.best, t.lookahead)]

-----------------------------------------------------------------------------
(* Initialisation.                                                         *)

\* A gz_header: lengths of its fields, -1 for no extra field, and hcrc.
NoHead == [given |-> FALSE, extra |-> -1, name |-> 0, comment |-> 0, hcrc |-> FALSE]

NoStream ==
  [status |-> "freed", wrap |-> 0, level |-> 0, strategy |-> "default",
   cfg |-> <<>>, gzhead |-> NoHead, gzindex |-> 0, last_flush |-> Z_NO_FLUSH,
   pending_buf |-> [i \in 0 .. PendingSize - 1 |-> <<>>], pending |-> 0,
   pending_out |-> 0, bi_buf |-> <<>>, bi_valid |-> 0, syms |-> <<>>,
   matches |-> 0, window |-> [i \in 0 .. window_size - 1 |-> Uninit],
   high_water |-> 0, head |-> <<>>, prev |-> <<>>, ins_h |-> 0, hash_head |-> NIL,
   strstart |-> 0, lookahead |-> 0, block_start |-> 0, insert |-> 0,
   match_start |-> 0, match_length |-> 0, prev_length |-> 0, prev_match |-> 0,
   match_available |-> FALSE,
   avail_in |-> 0, avail_out |-> 0, next_in |-> DictLen, out |-> <<>>,
   adler |-> <<>>, dict |-> FALSE]

lm_init(t) ==
  [CLEAR_HASH(t) EXCEPT
    !.cfg = Config[t.level], !.strstart = 0, !.block_start = 0,
    !.lookahead = 0, !.insert = 0, !.match_length = MIN_MATCH - 1,
    !.prev_length = MIN_MATCH - 1, !.match_available = FALSE, !.ins_h = 0]

\* deflateResetKeep; the history of the stream (out, next_in) starts again.
ResetKeep(t) ==
  LET w == IF t.wrap < 0 THEN -t.wrap ELSE t.wrap
  IN  init_block(
        [t EXCEPT !.pending = 0, !.pending_out = 0, !.wrap = w,
                  !.status = CASE w = 2 -> "GZIP" [] w = 1 -> "INIT" [] w = 0 -> "BUSY",
                  !.adler = <<>>, !.last_flush = Z_NO_FLUSH,
                  !.bi_buf = <<>>, !.bi_valid = 0,
                  !.out = <<>>, !.next_in = DictLen, !.avail_in = 0,
                  !.dict = FALSE])

deflateReset(t) == lm_init(ResetKeep(t))

NoLocals == [flush |-> Z_NO_FLUSH, params |-> <<>>,
             used |-> 0, last |-> FALSE, bstate |-> "none", fin |-> FALSE]

Init ==
  /\ app \in {[use |-> u, calls |-> 0] : u \in DOMAIN Uses}
  /\ data \in Uses[app.use].inputs
  /\ s = NoStream
  /\ pc = "idle"
  /\ loc = NoLocals
  /\ ret = "none"

\* deflateInit2_ with valid parameters.
deflateInit2 ==
  /\ pc = "idle" /\ s.status = "freed"
  /\ \E level \in Levels, strategy \in Strategies, wrap \in Wraps :
       s' = deflateReset([NoStream EXCEPT
              !.wrap = wrap, !.level = level, !.strategy = strategy,
              !.head = [h \in 0 .. hash_size - 1 |-> NIL],
              !.prev = [p \in 0 .. w_size - 1 |-> NIL]])
  /\ ret' = "OK"
  /\ UNCHANGED <<data, pc, loc, app>>

Idle == pc = "idle" /\ s.status # "freed"
Bounded(c) == c \in Others /\ app.calls < MaxCalls /\ app' = [app EXCEPT !.calls = @ + 1]

Reset ==
  /\ Idle /\ Bounded("Reset")
  /\ s' = deflateReset(s)
  /\ loc' = NoLocals
  /\ ret' = "OK"
  /\ UNCHANGED <<data, pc>>

deflateEnd ==
  /\ Idle /\ Bounded("End")
  /\ ret' = IF s.status = "BUSY" THEN "DATA_ERROR" ELSE "OK"
  /\ s' = NoStream
  /\ loc' = NoLocals
  /\ UNCHANGED <<data, pc>>

deflateSetHeader ==
  /\ Idle /\ Bounded("SetHeader") /\ s.status = "GZIP"
  /\ \E g \in GzHeads : s' = [s EXCEPT !.gzhead = g]
  /\ ret' = "OK"
  /\ UNCHANGED <<data, pc, loc>>

\* The application may choose the parameters of any level.
deflateTune ==
  /\ Idle /\ Bounded("Tune")
  /\ \E l \in Levels : s' = [s EXCEPT !.cfg = Config[l]]
  /\ ret' = "OK"
  /\ UNCHANGED <<data, pc, loc>>

\* Bits for the start of a raw stream, before the first call of deflate.
deflatePrime ==
  /\ Idle /\ Bounded("Prime")
  /\ s.wrap = 0 /\ s.next_in = DictLen /\ s.out = <<>> /\ s.syms = <<>>
  /\ s.pending = 0 /\ s.bi_valid = 0
  /\ \E n \in PrimeBits : s' = send_bits(s, n, <<>>)
  /\ ret' = "OK"
  /\ UNCHANGED <<data, pc, loc>>

\* The dictionary goes through fill_window like input, without check value;
\* the hash of all its strings is entered.
InsertDict(t) ==
  LET n == t.lookahead - (MIN_MATCH - 1)
      ins[k \in 0 .. n] == IF k = 0 THEN t ELSE INSERT_STRING(ins[k - 1], t.strstart + k - 1)
  IN  [ins[n] EXCEPT !.strstart = @ + n, !.lookahead = MIN_MATCH - 1,
                      !.hash_head = t.hash_head]

\* The next block starts after the dictionary.
AfterDict(x) ==
  [x EXCEPT !.strstart = @ + x.lookahead, !.block_start = x.strstart + x.lookahead,
            !.insert = x.lookahead, !.lookahead = 0,
            !.match_length = MIN_MATCH - 1, !.prev_length = MIN_MATCH - 1,
            !.match_available = FALSE]

deflateSetDictionary ==
  /\ Idle /\ Bounded("SetDictionary")
  /\ ~s.dict /\ s.next_in = DictLen /\ s.avail_in = 0 /\ ~loc.fin
  /\ IF s.wrap = 2 \/ (s.wrap = 1 /\ s.status # "INIT") \/ s.lookahead # 0
     THEN ret' = "STREAM_ERROR" /\ UNCHANGED s
     ELSE LET whole == DictLen >= w_size
              n == MIN(DictLen, w_size)
              t == IF whole /\ s.wrap = 0
                   THEN [CLEAR_HASH(s) EXCEPT !.strstart = 0, !.block_start = 0,
                                              !.insert = 0]
                   ELSE s
              u == [t EXCEPT !.wrap = 0, !.avail_in = n, !.next_in = DictLen - n]
              f == fill_window(u)
              x == IF f.lookahead >= MIN_MATCH THEN fill_window(InsertDict(f)) ELSE f
          IN  /\ ret' = "OK"
              /\ s' = [AfterDict(x) EXCEPT
                   !.next_in = s.next_in, !.avail_in = s.avail_in,
                   !.wrap = s.wrap, !.dict = TRUE,
                   !.adler = IF s.wrap = 1 THEN [i \in 1 .. DictLen |-> i] ELSE @]
  /\ UNCHANGED <<data, pc, loc>>

-----------------------------------------------------------------------------
(* A call of deflate: entry, header.                                       *)

Return(code) ==
  /\ ret' = code
  /\ pc' = IF loc.params = <<>> THEN "idle" ELSE "params"

Goto(p) == pc' = p /\ UNCHANGED ret

\* The application adds input, unless it has asked for the end, makes room
\* and calls.
deflate(flush) ==
  /\ Idle
  /\ loc.fin => flush = Z_FINISH
  /\ flush \in {Z_NO_FLUSH, Z_FINISH} \/ app.calls < MaxCalls
  /\ app' = IF flush \in {Z_NO_FLUSH, Z_FINISH} THEN app
            ELSE [app EXCEPT !.calls = @ + 1]
  /\ \E n \in InSizes \cup {0}, m \in OutSizes :
       /\ n > 0 => ~loc.fin /\ s.next_in + s.avail_in + n <= Len(data)
       /\ s' = [s EXCEPT !.avail_in = @ + n, !.avail_out = m]
  /\ loc' = [loc EXCEPT !.flush = flush, !.params = <<>>,
                        !.fin = @ \/ flush = Z_FINISH]
  /\ Goto("enter")
  /\ UNCHANGED data

\* deflateParams; the flush of the data so far is a call of deflate.
deflateParams ==
  /\ Idle /\ Bounded("Params")
  /\ \E level \in Levels, strategy \in Strategies, m \in OutSizes :
       LET func(l) == {X \in {Fast, Slow} : l \in X}
           flushes == (strategy # s.strategy \/ func(level) # func(s.level))
                      /\ s.high_water # 0
       IN  /\ loc' = [loc EXCEPT !.params = <<level, strategy>>, !.flush = Z_BLOCK]
           /\ s' = [s EXCEPT !.avail_out = m]
           /\ IF flushes THEN Goto("enter") ELSE pc' = "params" /\ ret' = "none"
  /\ UNCHANGED data

\* What deflateParams does when deflate has returned.
ParamsReturn ==
  /\ pc = "params"
  /\ LET level == loc.params[1]
         t == IF s.level = 0 /\ s.matches # 0
              THEN [IF s.matches = 1 THEN slide_hash(s) ELSE CLEAR_HASH(s)
                      EXCEPT !.matches = 0]
              ELSE s
         u == IF s.level = level THEN s
              ELSE [t EXCEPT !.level = level, !.cfg = Config[level]]
     IN  CASE ret = "STREAM_ERROR" -> ret' = ret /\ UNCHANGED s
           [] ret # "STREAM_ERROR" /\ ret # "none" /\ s.avail_out = 0 ->
                ret' = "BUF_ERROR" /\ UNCHANGED s
           [] OTHER -> ret' = "OK" /\ s' = [u EXCEPT !.strategy = loc.params[2]]
  /\ pc' = "idle"
  /\ loc' = [loc EXCEPT !.params = <<>>]
  /\ UNCHANGED <<data, app>>

Enter ==
  /\ pc = "enter"
  /\ LET flush == loc.flush
         t == [s EXCEPT !.last_flush = flush]
         u == flush_pending(t)
         useless == s.pending = 0 /\ s.avail_in = 0
                    /\ RANK(flush) <= RANK(s.last_flush) /\ flush # Z_FINISH
     IN  CASE s.status = "FINISH" /\ flush # Z_FINISH ->
                Return("STREAM_ERROR") /\ UNCHANGED s
           [] s.avail_out = 0 -> Return("BUF_ERROR") /\ UNCHANGED s
           [] s.pending # 0 /\ u.avail_out = 0 ->
                Return("OK") /\ s' = [u EXCEPT !.last_flush = -1]
           [] useless \/ (s.status = "FINISH" /\ s.avail_in # 0) ->
                Return("BUF_ERROR") /\ s' = u
           [] OTHER -> Goto("header") /\ s' = u
  /\ UNCHANGED <<data, loc, app>>

\* Leave with Z_OK when the buffer could not be emptied, else go on at p.
EmptyOr(t, p) ==
  LET u == flush_pending(t)
  IN  IF u.pending # 0
      THEN Return("OK") /\ s' = [u EXCEPT !.last_flush = -1]
      ELSE Goto(p) /\ s' = u

\* zlib header, with the check value of the dictionary if there is one.
HeaderZlib ==
  /\ pc = "header" /\ s.status = "INIT"
  /\ LET id == IF s.strstart # 0
               THEN <<<<>>, <<>>, <<>>, <<<<"dict", s.adler>>>>>> ELSE <<>>
     IN  EmptyOr([put_bytes(s, <<<<>>, <<<<"zlib">>>>>> \o id)
                    EXCEPT !.adler = <<>>, !.status = "BUSY"], "block")
  /\ UNCHANGED <<data, loc, app>>

\* The fixed part of a gzip header, as two bytes, and of one the application
\* supplied; adler is the header's check value while the header is written.
HeaderGzip ==
  /\ pc = "header" /\ s.status = "GZIP"
  /\ LET t == put_bytes([s EXCEPT !.adler = <<>>], <<<<<<"gz1">>>>, <<<<"gz2">>>>>>)
         x == IF s.gzhead.extra >= 0 THEN put_bytes(t, <<<<<<"xlen">>>>>>) ELSE t
     IN  IF ~s.gzhead.given
         THEN EmptyOr([t EXCEPT !.status = "BUSY"], "block")
         ELSE /\ s' = [x EXCEPT
                   !.adler = IF s.gzhead.hcrc
                             THEN FlattenSeq([i \in 1 .. x.pending |-> x.pending_buf[i - 1]])
                             ELSE @,
                   !.gzindex = 0, !.status = "EXTRA"]
              /\ Goto("header")
  /\ UNCHANGED <<data, loc, app>>

\* Mutant: what was already counted is counted again.
HcrcAgain(t, beg) ==
  IF t.gzhead.hcrc
  THEN [t EXCEPT !.adler = @ \o FlattenSeq([i \in 1 .. t.pending |-> t.pending_buf[i - 1]])]
  ELSE t

HCRC_UPDATE(t, beg) ==
  IF t.gzhead.hcrc
  THEN [t EXCEPT !.adler = @ \o FlattenSeq([i \in 1 .. t.pending - beg |->
                                              t.pending_buf[beg + i - 1]])]
  ELSE t

\* One field of the header goes to the pending buffer, as far as it fits; the
\* check value takes in what was put since the buffer was last empty.
PutField(len, tag, next) ==
  LET n == MIN(len - s.gzindex, PendingSize - s.pending)
      t == HCRC_UPDATE(put_bytes(s, [i \in 1 .. n |-> <<<<tag, s.gzindex + i>>>>]),
                       s.pending)
      u == [t EXCEPT !.gzindex = @ + n]
  IN  IF s.gzindex + n < len
      THEN EmptyOr(u, "header")
      ELSE Goto("header") /\ s' = [u EXCEPT !.gzindex = 0, !.status = next]

HeaderExtra ==
  /\ pc = "header" /\ s.status = "EXTRA"
  /\ PutField(IF s.gzhead.extra < 0 THEN 0 ELSE s.gzhead.extra, "extra", "NAME")
  /\ UNCHANGED <<data, loc, app>>

HeaderName ==
  /\ pc = "header" /\ s.status = "NAME"
  /\ PutField(s.gzhead.name, "name", "COMMENT")
  /\ UNCHANGED <<data, loc, app>>

HeaderComment ==
  /\ pc = "header" /\ s.status = "COMMENT"
  /\ PutField(s.gzhead.comment, "comment", "HCRC")
  /\ UNCHANGED <<data, loc, app>>

HeaderHcrc ==
  /\ pc = "header" /\ s.status = "HCRC"
  /\ LET full == s.gzhead.hcrc /\ s.pending + 2 > PendingSize
         t == IF full THEN flush_pending(s) ELSE s
         u == IF s.gzhead.hcrc
              THEN [put_bytes(t, <<<<>>, <<<<"hcrc", t.adler>>>>>>) EXCEPT !.adler = <<>>]
              ELSE t
     IN  IF full /\ t.pending # 0
         THEN Return("OK") /\ s' = [t EXCEPT !.last_flush = -1]
         ELSE EmptyOr([u EXCEPT !.status = "BUSY"], "block")
  /\ UNCHANGED <<data, loc, app>>

HeaderDone ==
  /\ pc = "header" /\ s.status \in {"BUSY", "FINISH"}
  /\ Goto("block")
  /\ UNCHANGED <<data, s, loc, app>>

-----------------------------------------------------------------------------
(* Compression.                                                            *)

\* Start a new block or continue the current one.
StartBlock ==
  /\ pc = "block"
  /\ IF s.avail_in # 0 \/ s.lookahead # 0
        \/ (loc.flush # Z_NO_FLUSH /\ s.status # "FINISH")
     THEN CASE s.level = 0 -> Goto("stored")
            [] s.level # 0 /\ s.strategy = "huffman" -> Goto("huff")
            [] s.level # 0 /\ s.strategy = "rle" -> Goto("rle")
            [] OTHER -> Goto(IF s.level \in Fast THEN "fast" ELSE "slow")
     ELSE Goto("trailer")
  /\ loc' = [loc EXCEPT !.used = s.avail_in, !.last = FALSE]
  /\ UNCHANGED <<data, s, app>>

\* The compression function returns.
Yield(b) == Goto("yield") /\ loc' = [loc EXCEPT !.bstate = b]

\* FLUSH_BLOCK: the function returns when there is no room left.
FLUSH_BLOCK(t, p) ==
  \E bits \in BlockBits(t) :
    /\ s' = FLUSH_BLOCK_ONLY(t, FALSE, bits)
    /\ IF s'.avail_out = 0 THEN Yield("need_more") ELSE Goto(p) /\ UNCHANGED loc

Continue(t, p) ==
  IF bflush(t) THEN FLUSH_BLOCK(t, p) ELSE s' = t /\ Goto(p) /\ UNCHANGED loc

\* The top of each loop: get enough lookahead, return for more input, or leave
\* the loop when there is none.
Fill(p, enough, next) ==
  /\ pc = p
  /\ LET t == IF s.lookahead < enough THEN fill_window(s) ELSE s
     IN  /\ s' = t
         /\ IF t.lookahead < enough /\ loc.flush = Z_NO_FLUSH
            THEN Yield("need_more")
            ELSE Goto(IF t.lookahead = 0 THEN "end" ELSE next) /\ UNCHANGED loc
  /\ UNCHANGED <<data, app>>

FastFill == Fill("fast", MIN_LOOKAHEAD, "fast1")
SlowFill == Fill("slow", MIN_LOOKAHEAD, "slow1")
RleFill == Fill("rle", MAX_MATCH + 1, "rle1")
HuffFill == Fill("huff", 1, "huff1")

Inserted(t) == IF t.lookahead >= MIN_MATCH THEN INSERT_STRING(t, t.strstart)
               ELSE [t EXCEPT !.hash_head = NIL]

InReach(t) == t.hash_head # NIL /\ t.strstart - t.hash_head <= MAX_DIST

Literal(t) == [tr_tally(t, 0, t.window[t.strstart])
                 EXCEPT !.lookahead = @ - 1, !.strstart = @ + 1]

\* Insert the strings at positions from .. to.
InsertAll(t, from, to) ==
  LET ins[k \in from - 1 .. to] ==
        IF k = from - 1 THEN t ELSE INSERT_STRING(ins[k - 1], k)
  IN  IF to < from THEN t ELSE ins[to]

FastStep ==
  /\ pc = "fast1"
  /\ LET t == Inserted(s)
         u == IF InReach(t) THEN longest_match(t) ELSE t
         len == u.match_length
         x == [tr_tally(u, u.strstart - u.match_start, len - MIN_MATCH)
                 EXCEPT !.lookahead = @ - len]
         y == IF len <= u.cfg.lazy /\ x.lookahead >= MIN_MATCH
              THEN InsertAll(x, x.strstart + 1, x.strstart + len - 1)
              ELSE [x EXCEPT !.ins_h = Hash(Byte(x.window[x.strstart + len]),
                                            Byte(x.window[x.strstart + len + 1]))]
     IN  Continue(IF len >= MIN_MATCH
                  THEN [y EXCEPT !.strstart = @ + len, !.match_length = 0]
                  ELSE Literal(u), "fast")
  /\ UNCHANGED <<data, app>>

\* TOO_FAR is out of reach of a small window.
TooWeak(t) == t.match_length <= 5 /\ t.strategy = "filtered"

SlowStep ==
  /\ pc = "slow1"
  /\ LET t == [Inserted(s) EXCEPT !.prev_length = s.match_length,
                                  !.prev_match = s.match_start,
                                  !.match_length = MIN_MATCH - 1]
         f == IF InReach(t) /\ t.prev_length < t.cfg.lazy THEN longest_match(t) ELSE t
         u == IF f # t /\ TooWeak(f) THEN [f EXCEPT !.match_length = MIN_MATCH - 1]
              ELSE f
         \* the match at the previous position is taken
         n == u.prev_length
         last == MIN(u.strstart + n - 2, u.strstart + u.lookahead - MIN_MATCH)
         x == InsertAll([tr_tally(u, u.strstart - 1 - u.prev_match, n - MIN_MATCH)
                           EXCEPT !.lookahead = @ - (n - 1)],
                        u.strstart + 1, last)
         taken == [x EXCEPT !.strstart = @ + n - 1, !.prev_length = 0,
                            !.match_available = FALSE,
                            !.match_length = MIN_MATCH - 1]
         \* the previous byte is a literal
         lit == tr_tally(u, 0, u.window[u.strstart - 1])
         step(v) == [v EXCEPT !.strstart = @ + 1, !.lookahead = @ - 1]
     IN  CASE n >= MIN_MATCH /\ u.match_length <= n -> Continue(taken, "slow")
           [] ~(n >= MIN_MATCH /\ u.match_length <= n) /\ u.match_available ->
                \E bits \in IF bflush(lit) THEN BlockBits(lit) ELSE {0} :
                  LET v == IF bits = 0 THEN lit ELSE FLUSH_BLOCK_ONLY(lit, FALSE, bits)
                  IN  /\ s' = step(v)
                      /\ IF v.avail_out = 0 THEN Yield("need_more")
                         ELSE Goto("slow") /\ UNCHANGED loc
           [] OTHER -> /\ s' = [step(u) EXCEPT !.match_available = TRUE]
                       /\ Goto("slow") /\ UNCHANGED loc
  /\ UNCHANGED <<data, app>>

\* Runs of the previous byte.
RunLen(t) ==
  LET same(i) == Byte(t.window[t.strstart + i]) = Byte(t.window[t.strstart - 1])
      ends == {i \in 0 .. MAX_MATCH - 1 : ~same(i)} \cup {MAX_MATCH}
  IN  IF t.lookahead < MIN_MATCH \/ t.strstart = 0 THEN 0
      ELSE MIN(CHOOSE n \in ends : \A e \in ends : n <= e, t.lookahead)

RleStep ==
  /\ pc = "rle1"
  /\ LET len == RunLen(s)
         t == [s EXCEPT !.match_length = 0]
     IN  Continue(IF len >= MIN_MATCH
                  THEN [tr_tally(t, 1, len - MIN_MATCH)
                          EXCEPT !.lookahead = @ - len, !.strstart = @ + len]
                  ELSE Literal(t), "rle")
  /\ UNCHANGED <<data, app>>

HuffStep ==
  /\ pc = "huff1"
  /\ Continue(Literal([s EXCEPT !.match_length = 0]), "huff")
  /\ UNCHANGED <<data, app>>

\* After the loop: the last literal of deflate_slow, then the last block.
LoopEnd ==
  /\ pc = "end"
  /\ LET hashing == s.strategy \notin {"huffman", "rle"}
         keep == IF hashing THEN MIN(s.strstart, MIN_MATCH - 1) ELSE 0
         t == IF hashing /\ s.level \in Slow /\ s.match_available
              THEN [tr_tally(s, 0, s.window[s.strstart - 1])
                      EXCEPT !.match_available = FALSE]
              ELSE s
         u == [t EXCEPT !.insert = keep]
     IN  CASE loc.flush = Z_FINISH ->
                \E bits \in BlockBits(u) :
                  /\ s' = FLUSH_BLOCK_ONLY(u, TRUE, bits)
                  /\ Yield(IF s'.avail_out = 0 THEN "finish_started" ELSE "finish_done")
           [] loc.flush # Z_FINISH /\ u.syms # <<>> ->
                \E bits \in BlockBits(u) :
                  /\ s' = FLUSH_BLOCK_ONLY(u, FALSE, bits)
                  /\ Yield(IF s'.avail_out = 0 THEN "need_more" ELSE "block_done")
           [] OTHER -> s' = u /\ Yield("block_done")
  /\ UNCHANGED <<data, app>>

-----------------------------------------------------------------------------
(* deflate_stored.                                                         *)

HeaderBytes(t) == (t.bi_valid + 42) \div 8

\* One round of the copying of stored blocks directly to the output.
StoredCopy ==
  /\ pc = "stored"
  /\ LET flush == loc.flush
         min_block == MIN(PendingSize - 5, w_size)
         left == s.strstart - s.block_start
         all == left + s.avail_in
         len == MIN(MIN(MAX_STORED, all), s.avail_out - HeaderBytes(s))
         last == flush = Z_FINISH /\ len = all
         t == flush_pending(tr_stored_block(s, <<>>, len, last))
         w == MIN(left, len)
         r == read_bytes(t, len - w)
         direct == [i \in 1 .. len - w |-> <<"byte", s.next_in + i>>]
     IN  IF \/ s.avail_out < HeaderBytes(s)
            \/ /\ len < min_block
               /\ (len = 0 /\ flush # Z_FINISH) \/ flush = Z_NO_FLUSH \/ len # all
         THEN Goto("storedTail") /\ UNCHANGED <<s, loc>>
         ELSE /\ s' = [r EXCEPT !.out = @ \o WindowBytes(s, s.block_start, w) \o direct,
                                !.block_start = @ + w,
                                !.avail_out = @ - len]
              /\ loc' = [loc EXCEPT !.last = last]
              /\ Goto(IF last THEN "storedTail" ELSE "stored")
  /\ UNCHANGED <<data, app>>

\* Put the n bytes of input before next_in into the window at pos.
CopyInput(t, pos, n) ==
  [t EXCEPT !.window = [i \in DOMAIN @ |-> IF i \in pos .. pos + n - 1
                                          THEN t.next_in - n + 1 + i - pos ELSE @[i]]]

\* Mutant: the data is not moved.
SlideNothing(t) == [t EXCEPT !.strstart = @ - w_size, !.matches = MIN(@ + 1, 2)]

\* Slide the window down; slide_hash is left for deflateParams.
SlideStored(t) ==
  [t EXCEPT !.strstart = @ - w_size,
            !.window = Moved(@, w_size, 0, t.strstart - w_size),
            !.matches = MIN(@ + 1, 2)]

\* The window takes the input that was copied directly.
KeepHistory(t, used) ==
  LET u == IF window_size - t.strstart <= used THEN SlideStored(t) ELSE t
      v == IF used >= w_size
           THEN [CopyInput(t, 0, w_size) EXCEPT !.matches = 2, !.strstart = w_size]
           ELSE [CopyInput(u, u.strstart, used) EXCEPT !.strstart = @ + used]
  IN  [v EXCEPT !.block_start = v.strstart,
                !.insert = @ + MIN(used, w_size - @)]

RaiseHighWater(t) == [t EXCEPT !.high_water = IF @ < t.strstart THEN t.strstart ELSE @]

\* The remaining input goes to the window.
StoreInput(t) ==
  LET room(u) == window_size - u.strstart - 1
      u == IF t.avail_in > room(t) /\ t.block_start >= w_size
           THEN [SlideStored(t) EXCEPT !.block_start = @ - w_size] ELSE t
      n == MIN(room(u), t.avail_in)
  IN  RaiseHighWater([read_buf(u, u.strstart, n) EXCEPT !.strstart = @ + n])

\* Mutant: an empty last block is never written.
StoredWritesData(left, have, flush, avail_in) ==
  \/ left >= MIN(have, w_size)
  \/ left # 0 /\ flush # Z_NO_FLUSH /\ avail_in = 0 /\ left <= have

\* Is there enough for a worthy block, or the end of a flush, and room for it?
StoredWrites(left, have, flush, avail_in) ==
  \/ left >= MIN(have, w_size)
  \/ /\ left # 0 \/ flush = Z_FINISH
     /\ flush # Z_NO_FLUSH /\ avail_in = 0 /\ left <= have

\* The rest of deflate_stored.
StoredTail ==
  /\ pc = "storedTail"
  /\ LET flush == loc.flush
         used == loc.used - s.avail_in
         t == RaiseHighWater(IF used = 0 THEN s ELSE KeepHistory(s, used))
         u == StoreInput(t)
         have == MIN(PendingSize - HeaderBytes(u), MAX_STORED)
         left == u.strstart - u.block_start
         len == MIN(left, have)
         last == flush = Z_FINISH /\ u.avail_in = 0 /\ len = left
         x == tr_stored_block(u, WindowBytes(u, u.block_start, len), len, last)
     IN  CASE loc.last -> s' = t /\ Yield("finish_done")
           [] ~loc.last /\ flush \notin {Z_NO_FLUSH, Z_FINISH}
              /\ t.avail_in = 0 /\ t.strstart = t.block_start ->
                s' = t /\ Yield("block_done")
           [] OTHER ->
                IF StoredWrites(left, have, flush, u.avail_in)
                THEN /\ s' = flush_pending([x EXCEPT !.block_start = @ + len])
                     /\ Yield(IF last THEN "finish_started" ELSE "need_more")
                ELSE s' = u /\ Yield("need_more")
  /\ UNCHANGED <<data, app>>

-----------------------------------------------------------------------------
(* The end of a call of deflate.                                           *)

\* Mutant: the history stays in reach.
ForgetNothing(t) == t

\* A full flush forgets the history.
ForgetHistory(t) ==
  LET u == CLEAR_HASH(t)
  IN  IF t.lookahead = 0
      THEN [u EXCEPT !.strstart = 0, !.block_start = 0, !.insert = 0] ELSE u

\* History only: the last byte put completes a full flush.
Forgets(t) == [t EXCEPT !.pending_buf[t.pending - 1] = Append(@, <<"full">>)]

\* What deflate does with the state the compression function returns.
BlockReturn ==
  /\ pc = "yield"
  /\ LET t == IF loc.bstate \in {"finish_started", "finish_done"}
              THEN [s EXCEPT !.status = "FINISH"] ELSE s
         u == flush_pending(
                CASE loc.flush = Z_PARTIAL_FLUSH -> tr_align(t)
                  [] loc.flush = Z_FULL_FLUSH -> Forgets(tr_stored_block(ForgetHistory(t), <<>>, 0, FALSE))
                  [] loc.flush \in {Z_NO_FLUSH, Z_SYNC_FLUSH, Z_FINISH} ->
                       tr_stored_block(t, <<>>, 0, FALSE)
                  [] loc.flush = Z_BLOCK -> t)
     IN  CASE loc.bstate \in {"need_more", "finish_started"} ->
                /\ s' = [t EXCEPT !.last_flush = IF t.avail_out = 0 THEN -1 ELSE @]
                /\ Return("OK")
           [] loc.bstate = "block_done" ->
                IF u.avail_out = 0
                THEN s' = [u EXCEPT !.last_flush = -1] /\ Return("OK")
                ELSE s' = u /\ Goto("trailer")
           [] loc.bstate = "finish_done" -> s' = t /\ Goto("trailer")
  /\ UNCHANGED <<data, loc, app>>

\* The check value and, for gzip, the length; two bytes stand for them.
Trailer ==
  /\ pc = "trailer"
  /\ LET t == flush_pending(put_bytes(s, <<<<>>, <<<<"check", s.adler, s.next_in>>>>>>))
     IN  CASE loc.flush # Z_FINISH -> Return("OK") /\ UNCHANGED s
           [] loc.flush = Z_FINISH /\ s.wrap <= 0 -> Return("STREAM_END") /\ UNCHANGED s
           [] OTHER -> /\ s' = [t EXCEPT !.wrap = -t.wrap]
                       /\ Return(IF t.pending # 0 THEN "OK" ELSE "STREAM_END")
  /\ UNCHANGED <<data, loc, app>>

-----------------------------------------------------------------------------
Step ==
  \/ Enter \/ HeaderZlib \/ HeaderGzip \/ HeaderExtra \/ HeaderName
  \/ HeaderComment \/ HeaderHcrc \/ HeaderDone \/ StartBlock
  \/ FastFill \/ FastStep \/ SlowFill \/ SlowStep \/ RleFill \/ RleStep
  \/ HuffFill \/ HuffStep \/ LoopEnd \/ StoredCopy \/ StoredTail
  \/ BlockReturn \/ Trailer \/ ParamsReturn

Call ==
  \/ deflateInit2 \/ Reset \/ deflateTune \/ deflateSetHeader \/ deflatePrime
  \/ deflateSetDictionary \/ deflateParams \/ deflateEnd
  \/ \E flush \in Flushes : deflate(flush)

Next == Step \/ Call

Spec == Init /\ [][Next]_vars

(* Calls go on for ever, some of them with room for output, and each runs  *)
(* to its end; once the application has begun to finish it keeps calling   *)
(* deflate(Z_FINISH), as zlib.h asks.                                      *)
FairSpec == Spec /\ []<><<TRUE>>_vars /\ []<>(pc = "enter" /\ s.avail_out > 0)

-----------------------------------------------------------------------------
(* What a decoder makes of the stream.                                     *)

\* h: bytes decoded; base: how many of them a full flush has made
\* unreachable; far: some match reaches behind base.
Start == [h |-> IF s.dict THEN SubSeq(data, 1, DictLen) ELSE <<>>,
          base |-> 0, far |-> FALSE]

DecodeSym(d, sym) ==
  LET dist == sym[1]
      n == Len(d.h)
  IN  CASE dist = 0 -> [d EXCEPT !.h = Append(@, Byte(sym[2]))]
        [] dist \in 1 .. MIN(n, MAX_DIST) ->
             [d EXCEPT !.h = @ \o [i \in 1 .. sym[2] + MIN_MATCH |->
                                     @[n - dist + 1 + ((i - 1) % dist)]],
                       !.far = @ \/ dist > n - d.base]
        [] OTHER -> [d EXCEPT !.h = Append(@, -1)]

DecodeMark(d, m) ==
  CASE m[1] = "byte" -> [d EXCEPT !.h = Append(@, Byte(m[2]))]
    [] m[1] = "block" -> LET after[i \in 0 .. Len(m[2])] ==
                               IF i = 0 THEN d ELSE DecodeSym(after[i - 1], m[2][i])
                         IN  after[Len(m[2])]
    [] m[1] = "full" -> [d EXCEPT !.base = Len(d.h)]
    [] OTHER -> d

Decoded(marks) ==
  LET after[i \in 0 .. Len(marks)] ==
        IF i = 0 THEN Start ELSE DecodeMark(after[i - 1], marks[i])
  IN  after[Len(marks)]

\* Everything handed to the output side so far.
Sent == s.out
        \o FlattenSeq([i \in 1 .. s.pending |-> s.pending_buf[s.pending_out + i - 1]])
        \o s.bi_buf

\* The input taken so far.
Taken == (IF s.dict THEN SubSeq(data, 1, DictLen) ELSE <<>>)
         \o SubSeq(data, DictLen + 1, s.next_in)

\* The bytes of the window that are in no block and no symbol yet.
Rest == LET from == IF s.level = 0 THEN s.block_start
                    ELSE IF s.match_available THEN s.strstart - 1 ELSE s.strstart
        IN  WindowBytes(s, from, s.strstart + s.lookahead - from)

-----------------------------------------------------------------------------
(* Properties.                                                             *)

Statuses == {"freed", "INIT", "GZIP", "EXTRA", "NAME", "COMMENT", "HCRC", "BUSY",
             "FINISH"}

(* The state has the shape deflate.h gives it: positions lie in the        *)
(* window, chains hold window positions, counters are not negative.        *)
TypeOK ==
  /\ s.status \in Statuses
  /\ s.pending \in 0 .. PendingSize /\ s.bi_valid \in 0 .. 7
  /\ s.strstart \in 0 .. window_size
  /\ s.lookahead \in 0 .. window_size - s.strstart
  /\ s.block_start \in -window_size .. window_size
  /\ s.high_water \in 0 .. window_size
  /\ s.insert \in 0 .. w_size
  /\ s.status # "freed" =>
       /\ \A h \in DOMAIN s.head : s.head[h] \in 0 .. window_size - 1
       /\ \A p \in DOMAIN s.prev : s.prev[p] \in 0 .. window_size - 1
  /\ Len(s.syms) < lit_bufsize
  /\ app.calls \in 0 .. MaxCalls

(* Compression loses nothing: what has been sent, decoded, then the        *)
(* symbols of the current block, then the bytes still in the window are    *)
(* exactly the input taken, through every slide of the window, change of   *)
(* parameters, flush and refusal for lack of room.  Every match lies       *)
(* within the distance deflate allows itself.                              *)
Lossless ==
  s.status # "freed" =>
    Decoded(Sent \o <<<<"block", s.syms, FALSE>>>> \o Rest).h = Taken

(* After a full flush no match reaches behind the flush point, so that     *)
(* decompression can restart there (zlib.h on Z_FULL_FLUSH).               *)
FullFlushForgets ==
  s.status # "freed" => ~Decoded(Sent \o <<<<"block", s.syms, FALSE>>>>).far

(* A flush that returned with room left has put all input so far into      *)
(* the output, decodable without what follows.                             *)
FlushComplete ==
  pc = "idle" /\ ret = "OK" /\ s.status # "freed" /\ s.avail_out > 0
  /\ loc.flush \in {Z_PARTIAL_FLUSH, Z_SYNC_FLUSH, Z_FULL_FLUSH} =>
    s.avail_in = 0 /\ Decoded(s.out).h = Taken

\* The header the stream must have.
Fields(n, tag) == [i \in 1 .. n |-> <<tag, i>>]
GzFields(g) ==
  (IF g.extra >= 0 THEN <<<<"xlen">>>> \o Fields(g.extra, "extra") ELSE <<>>)
  \o Fields(g.name, "name") \o Fields(g.comment, "comment")
Header ==
  LET w == IF s.wrap < 0 THEN -s.wrap ELSE s.wrap
      gz == <<<<"gz1">>, <<"gz2">>>>
      all == IF ~s.gzhead.given THEN gz ELSE gz \o GzFields(s.gzhead)
  IN  CASE w = 0 -> <<>>
        [] w = 1 -> <<<<"zlib">>>> \o (IF s.dict /\ DictLen > 0
                      THEN <<<<"dict", [i \in 1 .. DictLen |-> i]>>>> ELSE <<>>)
        [] w = 2 -> IF s.gzhead.given /\ s.gzhead.hcrc
                    THEN Append(all, <<"hcrc", all>>) ELSE all

\* One mark of the body: q.n bytes of a stored block are due, q.last the last
\* block has begun, q.end the check value has been written.
Parse(q, m) ==
  CASE q.end -> [q EXCEPT !.ok = FALSE]
    [] ~q.end /\ q.n > 0 -> [q EXCEPT !.n = @ - 1, !.ok = @ /\ m[1] = "byte"]
    [] ~q.end /\ q.n = 0 /\ m[1] \in {"block", "stored"} ->
         [q EXCEPT !.ok = @ /\ ~q.last, !.last = m[3],
                   !.n = IF m[1] = "stored" THEN m[2] ELSE 0]
    [] ~q.end /\ q.n = 0 /\ m[1] = "check" ->
         [q EXCEPT !.ok = @ /\ q.last
                          /\ m[2] = [i \in 1 .. s.next_in - DictLen |-> DictLen + i]
                          /\ m[3] = s.next_in, !.end = TRUE]
    [] ~q.end /\ q.n = 0 /\ m[1] = "full" -> q
    [] OTHER -> [q EXCEPT !.ok = FALSE]

ParsedBody(marks) ==
  LET after[i \in 0 .. Len(marks)] ==
        IF i = 0 THEN [n |-> 0, last |-> FALSE, end |-> FALSE, ok |-> TRUE]
        ELSE Parse(after[i - 1], marks[i])
  IN  after[Len(marks)]

(* The stream is well formed at every moment: the header once and whole,   *)
(* its check value over all of it, then blocks, each stored block with as  *)
(* many bytes as it announces, nothing after the last block but one        *)
(* trailer, whose check value covers exactly the input.  When deflate has  *)
(* returned Z_STREAM_END all of that has left.                             *)
WellFormed ==
  s.status # "freed" =>
    LET q == ParsedBody(SubSeq(Sent, Len(Header) + 1, Len(Sent)))
    IN  IF Len(Sent) < Len(Header) THEN IsPrefix(Sent, Header)
        ELSE /\ IsPrefix(Header, Sent)
             /\ q.ok
             /\ ret = "STREAM_END" /\ pc = "idle" =>
                  /\ s.out = Sent /\ q.last /\ q.n = 0
                  /\ q.end <=> s.wrap # 0
                  /\ s.avail_in = 0

(* The match finders stay in memory that exists and was written: the scan  *)
(* reads up to MAX_MATCH bytes past its start, whatever slides, resets,    *)
(* changes of level and ends of input came before.                         *)
ReadsInitialised ==
  pc \in {"fast1", "slow1"} =>
    \A i \in s.strstart .. s.strstart + MAX_MATCH :
      i < window_size /\ s.window[i] # Uninit

\* deflateGetDictionary: the last window's worth of data.
GetDictionary ==
  LET len == MIN(s.strstart + s.lookahead, w_size)
      from == s.strstart + s.lookahead - len
  IN  [i \in 1 .. len |-> s.window[from + i - 1]]

(* The window ends with the input taken, in order: between calls           *)
(* deflateGetDictionary returns the most recent history.                   *)
WindowIsHistory ==
  pc = "idle" /\ s.status # "freed" =>
    LET d == GetDictionary
        n == Len(d)
        start == IF s.next_in - n >= DictLen \/ s.dict THEN s.next_in - n ELSE DictLen
    IN  d = [i \in 1 .. n |-> start + i]

(* Once the application has asked for the end of the stream, deflate       *)
(* reaches it, however little room each call is given.                     *)
FinishEnds == loc.fin ~> (ret = "STREAM_END" \/ ~loc.fin)

-----------------------------------------------------------------------------
(* What the runs check.                                                    *)

\* deflate.c:1500, 1570: the window holds the history it should, within its
\* bounds, and everything the match finders read was written before.
WindowSound == TypeOK /\ WindowIsHistory /\ ReadsInitialised

\* deflate.c:763: at every moment, however little room each call gave, the stream
\* sent so far is well formed and stands for exactly the input taken.
StreamSound == WellFormed /\ Lossless

=============================================================================
