----------------------------- MODULE MCInflate -----------------------------
(* Small instances of Inflate: streams written out element by element.    *)
EXTENDS Inflate

El(k, n, v) == [k |-> k, n |-> n, ok |-> TRUE, v |-> v, x |-> 0]
Invalid(e) == [e EXCEPT !.ok = FALSE]

Zlib == <<El("head", 16, "zlib")>>
ZlibDict == <<El("head", 16, "zlibdict"), El("dictid", 32, Dictionary)>>
RawDict == <<El("dictid", 0, Dictionary)>>
Gzip(hcrc, extra, name, comment) ==
  <<El("head", 16, "gzip"),
    El("flags", 16, [gz |-> TRUE, hcrc |-> hcrc, extra |-> extra, name |-> name,
                     comment |-> comment]),
    El("time", 32, 0), El("os", 16, 0)>>
  \o (IF extra THEN <<El("exlen", 16, 2), El("extra", 16, 0)>> ELSE <<>>)
  \o (IF name THEN <<El("chars", 8, 0), El("nul", 8, 0)>> ELSE <<>>)
  \o (IF comment THEN <<El("chars", 8, 0), El("nul", 8, 0)>> ELSE <<>>)
  \o (IF hcrc THEN <<El("hcrc", 16, 0)>> ELSE <<>>)

Type3(v, last) == [k |-> "type", n |-> 3, ok |-> TRUE, v |-> v, x |-> 0, last |-> last]
StoredBlock(bytes, last) ==
  <<Type3("stored", last), El("slen", 32, Len(bytes))>>
  \o [i \in DOMAIN bytes |-> El("sbyte", 8, bytes[i])]
\* Four code length codes, then a code for 3 lengths and a repeat of 4.
Tables ==
  <<[El("table", 14, 4) EXCEPT !.x = 7], El("clen", 3, 0), El("clen", 3, 0),
    El("clen", 3, 0), El("clen", 3, 0),
    [k |-> "lens", n |-> 9, ok |-> TRUE, v |-> 3, x |-> 7, rep |-> FALSE],
    [k |-> "lens", n |-> 9, ok |-> TRUE, v |-> 4, x |-> 2, rep |-> TRUE]>>

Lit15(v) == El("lit", 15, v)
Lit2(v) == El("lit", 2, v)
\* A match whose length and distance have extra bits, or not.
MatchX(len, dist) ==
  <<[El("len", 15, len - 1) EXCEPT !.x = 5], El("lext", 5, 1),
    [El("dist", 15, dist - 1) EXCEPT !.x = 13], El("dext", 13, 1)>>
MatchS(len, dist) == <<El("len", 7, len), El("dist", 5, dist)>>
Eob == <<El("eob", 7, 0)>>
Adler == <<El("check", 32, 0)>>
GzTail == <<El("check", 32, 0), El("length", 32, 0)>>

Preset == <<91, 92, 93, 94, 95>>

\* Every kind of block, codes of the longest lengths, matches that reach into
\* the previous call's output from every position of the window.
Mixed ==
  <<Type3("dynamic", FALSE)>> \o Tables
  \o <<Lit15(1), Lit2(2), Lit15(3)>> \o MatchX(5, 2) \o <<Lit2(4)>> \o MatchS(3, 4)
  \o Eob \o StoredBlock(<<5, 6>>, FALSE)
  \o <<Type3("fixed", TRUE), Lit2(7)>> \o MatchS(4, 4) \o MatchX(5, 3) \o <<Lit2(8)>> \o Eob

Literals(n) == [i \in 1 .. n |-> Lit2(i)]
\* Matches that wrap around the circular window, from every position of it.
Wrapping ==
  <<Type3("fixed", TRUE)>> \o Literals(5) \o MatchS(3, 4) \o <<Lit2(6)>> \o MatchS(5, 3)
  \o <<Lit2(7), Lit2(8)>> \o MatchX(5, 4) \o MatchX(3, 2) \o Eob

MixedElements ==
  [raw |-> Mixed,
   far |-> <<Type3("fixed", TRUE)>> \o Literals(2) \o MatchS(3, 3) \o Literals(3) \o Eob,
   code |-> <<Type3("fixed", TRUE)>> \o Literals(4) \o <<Invalid(Lit2(9))>> \o Literals(3) \o Eob]
WrapElements == [wrapping |-> Wrapping]
HeaderElements ==
  [gzip |-> Gzip(TRUE, TRUE, TRUE, TRUE) \o StoredBlock(<<1, 2>>, TRUE) \o GzTail,
   plain |-> Gzip(FALSE, FALSE, FALSE, FALSE) \o StoredBlock(<<1>>, TRUE)
             \o <<El("check", 32, 0), Invalid(El("length", 32, 0))>>,
   zlib |-> Zlib \o <<Type3("fixed", TRUE), Lit2(1), Lit15(2)>> \o Eob \o Adler,
   header |-> <<Invalid(El("head", 16, "zlib"))>> \o StoredBlock(<<1>>, TRUE) \o Adler,
   flags |-> <<El("head", 16, "gzip"), Invalid(El("flags", 16, NoFlags)), El("time", 32, 0)>>,
   hcrc |-> SubSeq(Gzip(TRUE, FALSE, TRUE, FALSE), 1, 6) \o <<Invalid(El("hcrc", 16, 0))>>
            \o StoredBlock(<<1>>, TRUE) \o GzTail,
   check |-> Zlib \o StoredBlock(<<1, 2>>, TRUE) \o <<Invalid(El("check", 32, 0))>>,
   slen |-> Zlib \o <<Type3("stored", TRUE), Invalid(El("slen", 32, 3))>> \o Adler,
   block |-> Zlib \o <<Invalid(Type3("stored", TRUE))>> \o Adler,
   table |-> Zlib \o <<Type3("dynamic", TRUE), Invalid(El("table", 14, 4)), El("lit", 15, 0)>>,
   clens |-> Zlib \o <<Type3("dynamic", TRUE), [El("table", 14, 1) EXCEPT !.x = 7],
                       Invalid(El("clen", 3, 0)), El("lit", 15, 0)>>,
   \* a repeat before the first length, and one past the last
   rep |-> Zlib \o <<Type3("dynamic", TRUE)>> \o SubSeq(Tables, 1, 5)
           \o <<Invalid(Tables[7])>> \o <<El("lit", 15, 0)>>,
   past |-> Zlib \o <<Type3("dynamic", TRUE)>> \o SubSeq(Tables, 1, 6)
           \o <<Invalid([Tables[7] EXCEPT !.v = 6])>> \o <<El("lit", 15, 0)>>,
   codes |-> Zlib \o <<Type3("dynamic", TRUE)>> \o SubSeq(Tables, 1, 6)
           \o <<Invalid(Tables[7])>> \o <<El("lit", 15, 0)>>,
   dist |-> Zlib \o <<Type3("fixed", TRUE)>> \o Literals(3)
            \o <<El("len", 7, 3), Invalid(El("dist", 5, 1)), El("lit", 15, 0)>>]
DictElements ==
  [zlib |-> ZlibDict \o <<Type3("fixed", TRUE), Lit2(1)>> \o MatchS(3, 4) \o MatchX(4, 4)
            \o Eob \o Adler,
   raw |-> RawDict \o <<Type3("fixed", TRUE)>> \o MatchX(5, 4) \o <<Lit2(1)>> \o MatchS(3, 4)
           \o Eob]
\* Two flush points, the second one cutting the history too.
SyncElements ==
  [damaged |-> Zlib \o <<Type3("dynamic", FALSE), El("mark", 0, 4),
                         Invalid([El("table", 14, 4) EXCEPT !.x = 7]), El("rest", 47, 0)>>,
   flushed |-> Zlib \o <<Type3("fixed", FALSE), Lit15(1), Lit2(2), Lit15(3)>> \o Eob
               \o StoredBlock(<<>>, FALSE) \o <<Type3("fixed", FALSE), Lit15(4)>> \o MatchS(3, 2) \o Eob
               \o StoredBlock(<<>>, FALSE) \o <<Type3("fixed", TRUE), Lit15(5)>> \o MatchS(3, 1)
               \o Eob \o Adler]
All(elems) == {Prepared(elems[s]) : s \in DOMAIN elems}
MCStreams == [
  mixed |-> All(MixedElements), wrap |-> All(WrapElements), header |-> All(HeaderElements),
  dict |-> {Prepared(DictElements.zlib)}, rawdict |-> {Prepared(DictElements.raw)},
  sync |-> All(SyncElements), stops |-> All(MixedElements)]

Plain == [wraps |-> {{}}, flushes |-> {"NO_FLUSH"}, inSizes |-> {1, 2, 7},
          outSizes |-> {1, 2, 5, 9}, others |-> {}, maxCalls |-> 0]

\* Every kind of block in every cut; the circular window; headers, trailers and
\* damage anywhere; a preset dictionary; resynchronisation; stops at blocks.
MCUses == [
  mixed |-> Plain,
  wrap |-> [Plain EXCEPT !.inSizes = {2, 9}, !.outSizes = {1, 2, 3, 7}],
  header |-> [Plain EXCEPT !.wraps = {{"zlib", "gzip", "validate"}}, !.inSizes = {1, 2, 5},
                !.flushes = {"NO_FLUSH", "BLOCK", "TREES", "FINISH"}, !.outSizes = {1}],
  dict |-> [Plain EXCEPT !.wraps = {{"zlib", "validate"}}, !.inSizes = {1, 3, 7},
              !.outSizes = {1, 2, 7}, !.others = {"SetDictionary", "Reset"}, !.maxCalls = 2],
  rawdict |-> [Plain EXCEPT !.inSizes = {1, 3, 7}, !.outSizes = {1, 2, 7},
                 !.others = {"SetDictionary", "Reset"}, !.maxCalls = 2],
  sync |-> [Plain EXCEPT !.wraps = {{"zlib", "validate"}}, !.inSizes = {2, 9}, !.outSizes = {6},
              !.others = {"Sync", "Validate", "End"}, !.maxCalls = 2],
  stops |-> [Plain EXCEPT !.flushes = {"BLOCK", "TREES"}, !.inSizes = {1, 7}, !.outSizes = {1, 6}]]
=============================================================================
