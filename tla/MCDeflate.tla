------------------------------ MODULE MCDeflate ------------------------------
(* Small instances of Deflate.                                             *)
EXTENDS Deflate

\* Three bytes hash into eight entries; different strings may share one.
MCHash(h, c) == (2 * h + c) % 8

MCConfig == [l \in 0 .. 6 |->
  CASE l = 0 -> [good |-> 0, lazy |-> 0, nice |-> 0, chain |-> 0]
    [] l = 1 -> [good |-> 4, lazy |-> 3, nice |-> 4, chain |-> 4]
    [] OTHER -> [good |-> 4, lazy |-> 4, nice |-> 5, chain |-> 4]]

\* Repeats at several distances, runs, and bytes that do not repeat.
Mixed == <<1, 1, 1, 1, 2, 1, 1, 1, 2, 3, 1, 1, 2, 1, 1, 1, 2, 3, 1, 1, 2>>
Short == <<1, 2, 1, 1, 2, 1, 2, 1, 1, 2>>
WithDict == <<3, 1, 2, 1, 1, 2, 3, 1, 2, 1, 1, 1, 2, 1, 2>>

MCGzHeads == {[given |-> TRUE, extra |-> e, name |-> 2, comment |-> 1, hcrc |-> h] :
                e \in {-1, 3}, h \in BOOLEAN}

Plain == [inputs |-> {Mixed}, dictLen |-> 0, pendingSize |-> 16,
          levels |-> {0, 1, 4}, strategies |-> {"default"}, wraps |-> {0}, gzHeads |-> {},
          flushes |-> {0, 4}, inSizes |-> {11}, outSizes |-> {3, 20}, encodings |-> {"small"},
          primeBits |-> {}, others |-> {}, maxCalls |-> 2]

\* Every match finder over a window that slides; every flush; changes of level;
\* headers through a small pending buffer; a preset dictionary; output byte
\* by byte.
MCUses == [
  match |-> [Plain EXCEPT !.levels = {1, 4}, !.encodings = {"small", "large"},
               !.strategies = {"default", "filtered", "rle", "huffman"}],
  flush |-> [Plain EXCEPT !.inputs = {SubSeq(Mixed, 1, 16)}, !.levels = {1},
               !.flushes = {0, 1, 3, 4}, !.inSizes = {8}, !.outSizes = {5, 20}],
  params |-> [Plain EXCEPT !.inputs = {Mixed \o SubSeq(Mixed, 1, 11)},
                !.levels = {0, 1}, !.inSizes = {8}, !.outSizes = {15}, !.others = {"Params"}],
  header |-> [Plain EXCEPT !.inputs = {<<1, 2, 1, 1>>}, !.pendingSize = 7, !.levels = {1},
                !.wraps = {0, 1, 2}, !.gzHeads = MCGzHeads, !.inSizes = {4},
                !.outSizes = {0, 2, 20}, !.primeBits = {5},
                !.others = {"SetHeader", "Reset", "Prime", "End"}],
  dict |-> [Plain EXCEPT !.inputs = {WithDict}, !.dictLen = 11, !.wraps = {0, 1},
              !.inSizes = {2}, !.outSizes = {6}, !.primeBits = {5},
              !.others = {"SetDictionary", "Tune", "Reset", "Prime"}, !.levels = {0, 4}],
  small |-> [Plain EXCEPT !.inputs = {Short}, !.wraps = {1}, !.flushes = {0, 2, 4}, !.levels = {0, 4},
               !.inSizes = {5}, !.outSizes = {1, 8}, !.maxCalls = 1]]
=============================================================================
