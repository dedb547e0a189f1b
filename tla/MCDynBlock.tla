----------------------------- MODULE MCDynBlock -----------------------------
(***************************************************************************)
(* DynBlock under TLC: all frequencies from small sets, with a limit that  *)
(* no code exceeds and with one that codes exceed; all small sets of code  *)
(* lengths; and, to be sent, complete sets of lengths put together from    *)
(* runs <<length, count>> around the limits 3, 4, 6, 7, 10, 11 and 138.    *)
(***************************************************************************)
EXTENDS DynBlock, SequencesExt

MCDescs ==
  {[elems |-> 5, max_length |-> 4, extra |-> 2, static |-> 5, freqs |-> {0, 1, 2, 4}],
   [elems |-> 6, max_length |-> 3, extra |-> 1, static |-> 0, freqs |-> {1, 2, 7}]}

Expand(runs) == FlattenSeq([i \in DOMAIN runs |-> [j \in 1 .. runs[i][2] |-> runs[i][1]]])
Share(run) == run[2] * 2 ^ (6 - run[1])

RunsOfCodes == (1 .. 6) \X {1, 3, 4, 7, 8, 14}
Filling == {t \in RunsOfCodes \X RunsOfCodes \X RunsOfCodes :
              Share(t[1]) + Share(t[2]) + Share(t[3]) = 64}
Zeros == {<<0, 1>>, <<0, 3>>, <<0, 10>>, <<0, 11>>}

\* The trees of a list in which the end of block code e and the last one are
\* used.
Proper(e, trees) ==
  {<<e, t>> : t \in {u \in trees : /\ Len(u) \in e + 1 .. e + 30
                                   /\ u[e + 1] # 0 /\ u[Len(u)] # 0}}

ShortLits ==
  Proper(3, {Expand(<<t[1], z, t[2], t[3]>>) : t \in Filling, z \in Zeros}
            \cup {Expand(<<z, t[1], t[2], t[3]>>) : t \in Filling, z \in {<<0, 3>>}})
LongLits ==
  Proper(256, {Expand(<<<<0, z>>, t[1], t[2], <<0, 256 - t[1][2] - z - t[2][2]>>, t[3]>>) :
                 t \in {u \in Filling : u[1][2] + u[2][2] <= 5 /\ u[3][2] \in {1, 7}},
                 z \in {138, 139, 149}})

MCLitTrees == ShortLits \cup LongLits
MCDist == <<3, 3, 3, 3, 0, 0, 0, 1>>

MCAsked ==
  ({"CODES", "LENS", "DISTS"} \X (1 .. 4) \X {1, 2, 4}) \cup ({"LENS"} \X {6} \X {1, 2})
    \cup {<<"DISTS", 5, 4>>}
=============================================================================
