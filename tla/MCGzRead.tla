------------------------------ MODULE MCGzRead ------------------------------
(***************************************************************************)
(* Files for GzRead, small enough for TLC: gzip members whose bytes decode *)
(* to several bytes or to none, members one after the other, garbage after *)
(* them, raw data, files that are cut off, invalid or still growing.       *)
(***************************************************************************)
EXTENDS GzRead

Byte(b, out, gz, last, bad) == [b |-> b, out |-> out, gz |-> gz, last |-> last, bad |-> bad]
Header == <<Byte(31, <<>>, TRUE, FALSE, FALSE), Byte(139, <<>>, TRUE, FALSE, FALSE)>>
Data(out) == <<Byte(0, out, TRUE, FALSE, FALSE)>>
Trailer == <<Byte(0, <<>>, TRUE, TRUE, FALSE)>>
Invalid == <<Byte(0, <<>>, TRUE, FALSE, TRUE)>>
Raw(b) == <<Byte(b, <<>>, FALSE, FALSE, FALSE)>>
First == Header \o Data(<<0, 1, 2>>) \o Data(<<3>>) \o Trailer
Second == Header \o Data(<<4, 5, 6, 7, 8>>) \o Data(<<>>) \o Trailer
Two == First \o Second
Wide == Header \o Data(<<0>>) \o Data(<<1, 2, 3, 4, 5, 6, 7>>) \o Data(<<8>>) \o Trailer
Empty == Header \o Trailer
RawFile == Raw(0) \o Raw(31) \o Raw(139) \o Raw(0) \o Raw(0) \o Raw(0) \o Raw(0)

Whole(s) == [cells |-> s, grows |-> <<Len(s)>>]
Cut(s, n) == [cells |-> s, grows |-> <<n>>]
Growing(s, g_) == [cells |-> s, grows |-> g_]

\* Members, one of them empty, garbage behind them, raw data; tiny files behind
\* a byte that is not theirs.
MixedFiles == {Whole(Two \o Raw(0) \o Raw(0)), Whole(First \o Empty), Whole(Wide),
               Whole(RawFile)}
TinyFiles == {Whole(Raw(0) \o s) : s \in {<<>>, Raw(31), Header, Empty \o Raw(31),
                Empty \o Raw(0) \o Raw(31) \o Raw(139)}}

\* Cut off anywhere, or growing (a header in one piece).
CutFiles == {Cut(Two, n) : n \in 0 .. Len(Two)} \cup {Cut(Wide, n) : n \in 3 .. 5}
GrowFiles == {Growing(Two, <<0, 3, 5>>), Growing(Two, <<4, 5, 8, 10>>),
              Growing(Wide, <<3, 5, 6>>), Growing(RawFile, <<0, 1, 4, 7>>)}

\* Invalid data in the first or in the second member, or a member cut off.
BadFiles == {Whole(Header \o Data(<<0, 1, 2>>) \o Invalid \o Trailer),
             Whole(First \o Header \o Invalid), Whole(RawFile), Cut(First, 4)}

ReadModes == {<<"r">>}
AllModes == {<<"r", "b">>, <<"r", "T">>, <<"r", "+">>, <<"b">>}
SomeSeeks == {<<0, "SET">>, <<5, "SET">>, <<2, "CUR">>, <<-1, "CUR">>, <<20, "SET">>, <<0, "END">>}

MCFiles == [mixed |-> MixedFiles, over |-> MixedFiles, buffer |-> TinyFiles, grow |-> GrowFiles,
            again |-> {Growing(RawFile, <<0, 1, 4, 7>>), Growing(Two, <<4, 8, 10>>)},
            cut |-> CutFiles, fault |-> BadFiles]

Plain == [start |-> 0, modes |-> ReadModes, lengths |-> {0, 2, 6},
          calls |-> {"gzread", "gzfread", "gzgetc", "gzungetc", "gzgets", "gzseek", "gzrewind"},
          seeks |-> SomeSeeks, buffers |-> {}, newlines |-> {2, 5}, faults |-> {}, maxCalls |-> 4]

\* All functions; gzgetc after gzdirect and gzseek; buffer sizes, modes and
\* descriptors; a file still written, gzgets and gzseek included; files that are
\* cut off; reads, memory and data that are bad.
MCUses == [
  mixed |-> Plain,
  over |-> [Plain EXCEPT !.lengths = {2}, !.seeks = {<<5, "SET">>, <<2, "CUR">>}, !.maxCalls = 5,
              !.calls = {"gzread", "gzgetc", "gzdirect", "gzseek"}],
  buffer |-> [Plain EXCEPT !.start = 1, !.modes = AllModes, !.lengths = {1, 3, 9},
                !.calls = {"gzbuffer", "gzread", "gzungetc", "gzdirect", "gzseek"},
                !.seeks = {<<3, "SET">>}, !.buffers = {1, 3, 9}, !.faults = {"lseek"}, !.maxCalls = 5],
  grow |-> [Plain EXCEPT !.lengths = {1, 6}, !.maxCalls = 6,
              !.calls = {"gzread", "gzgetc", "gzclearerr", "gzdirect"}],
  again |-> [Plain EXCEPT !.lengths = {2, 4}, !.maxCalls = 5, !.seeks = {<<5, "SET">>},
               !.calls = {"gzread", "gzgets", "gzseek", "gzclearerr"}],
  cut |-> [Plain EXCEPT !.lengths = {1, 4, 7},
             !.calls = {"gzread", "gzgets", "gzungetc", "gzseek"}],
  fault |-> [Plain EXCEPT !.lengths = {1, 3, 7}, !.seeks = {<<3, "SET">>},
               !.calls = {"gzread", "gzungetc", "gzgets", "gzseek", "gzdirect"}, !.maxCalls = 5,
               !.faults = {"read", "mem"}]]
=============================================================================
