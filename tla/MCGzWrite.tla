----------------------------- MODULE MCGzWrite -----------------------------
(***************************************************************************)
(* Ways to use a file for GzWrite under TLC.                               *)
(***************************************************************************)
EXTENDS GzWrite

WriteModes == {<<"w", "b">>, <<"a">>, <<"w", "T">>}
GzipMode == {<<"w", "9", "h">>}

Plain == [modes |-> WriteModes, seeks |-> {}, flushes |-> {"SYNC"}, params |-> {}, malloc |-> {0},
          faults |-> {}, maxFaults |-> 0,
          calls |-> {"gzwrite", "gzputc", "gzprintf", "gzflush", "gzclose"},
          lengths |-> {2}, maxCalls |-> 4]

\* All functions; seeks (into memory that may not be zero) and changed
\* parameters; writes, memory and close() that fail, also in the middle of a
\* Z_FINISH; errors that are cleared.
MCUses == [
  mixed |-> [Plain EXCEPT !.lengths = {0, 2, 4, 9}, !.flushes = {"SYNC", "BLOCK"}, !.maxCalls = 3,
                          !.calls = @ \cup {"gzfwrite", "gzbuffer", "gzputs"}],
  seek |-> [Plain EXCEPT !.modes = {<<"w", "b">>, <<"w", "T">>}, !.flushes = {"SYNC", "FINISH"},
                         !.seeks = {<<3, "CUR">>, <<5, "SET">>, <<-1, "CUR">>, <<0, "END">>},
                         !.params = {<<"1", "dflt">>}, !.maxCalls = 3, !.malloc = {0, -1},
                         !.calls = @ \cup {"gzseek", "gzsetparams"}],
  fault |-> [Plain EXCEPT !.modes = {<<"w", "b">>, <<"w", "T">>}, !.lengths = {2, 4}, !.faults = {"write", "mem", "close"},
                          !.flushes = {"SYNC", "FINISH"}, !.maxFaults = 2, !.maxCalls = 3],
  clearerr |-> [Plain EXCEPT !.faults = {"write", "mem"}, !.maxFaults = 2,
                             !.calls = {"gzwrite", "gzputc", "gzflush", "gzclearerr", "gzclose"}],
  finish |-> [Plain EXCEPT !.modes = GzipMode, !.seeks = {<<5, "SET">>}, !.flushes = {"FINISH"},
                           !.calls = @ \cup {"gzseek"}],
  refused |-> [Plain EXCEPT !.modes = {<<"w", "b">>}, !.flushes = {"SYNC", "FINISH"}, !.maxFaults = 1,
                            !.faults = {"write"}, !.maxCalls = 4,
                            !.calls = {"gzwrite", "gzflush", "gzclearerr", "gzclose"}]]
=============================================================================
