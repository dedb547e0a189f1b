------------------------------ MODULE DynBlock ------------------------------
(***************************************************************************)
(* A dynamic block from the frequencies of its symbols to the table that   *)
(* decodes it: HuffTree builds the code (trees.c, build_tree), TreeCode    *)
(* sends its lengths and reads them back (trees.c, send_all_trees;         *)
(* inflate.c, TABLE to CODELENS), InfTable makes the decoding table from   *)
(* what was read (inftrees.c, inflate_table).  A behaviour is one block on *)
(* its way through all three, or one call of a single part with inputs a   *)
(* block that small cannot give it.                                        *)
(***************************************************************************)
EXTENDS Integers, Sequences

CONSTANTS
  MAX_BITS, Descs, LitTrees, Asked, END_BLOCK, LAST, ENOUGH,
  Dist,      \* the distance tree
  Roots      \* root table bits for a block that goes all the way

VARIABLES
  stage,
  t_pc, desc, given, freq, dl, code, heap, heap_len, heap_max, depth, bl_count, max_code,
  t_opt_len, static_len, l,
  s_pc, lit, dist, end_block, which, r, blfreq, bllen, max_blindex, s_opt_len, sent, sentbits,
  rbl, s_lens, pos,
  i_pc, type, i_lens, bits, count, work, table, ret, v

T == INSTANCE HuffTree WITH pc <- t_pc, opt_len <- t_opt_len
S == INSTANCE TreeCode WITH pc <- s_pc, END_BLOCK <- end_block, opt_len <- s_opt_len,
                            lens <- s_lens, DistTrees <- {Dist}
I == INSTANCE InfTable WITH pc <- i_pc, MAXBITS <- MAX_BITS, lens <- i_lens

t_vars == <<t_pc, desc, given, freq, dl, code, heap, heap_len, heap_max, depth, bl_count,
            max_code, t_opt_len, static_len, l>>
s_vars == <<s_pc, lit, dist, end_block, which, r, blfreq, bllen, max_blindex, s_opt_len, sent,
            sentbits, rbl, s_lens, pos>>
i_vars == <<i_pc, type, i_lens, bits, count, work, table, ret, v>>
vars == <<stage, t_vars, s_vars, i_vars>>

Init ==
  \/ stage = "tree" /\ T!Init /\ S!Idle /\ I!Idle
  \/ stage = "send" /\ T!Idle /\ S!Init /\ I!Idle
  \/ stage = "table" /\ T!Idle /\ S!Idle /\ I!Init

Build == stage = "tree" /\ T!Next /\ UNCHANGED <<stage, s_vars, i_vars>>
Transfer == stage = "send" /\ S!Next /\ UNCHANGED <<stage, t_vars, i_vars>>
Tabulate == stage = "table" /\ I!Next /\ UNCHANGED <<stage, t_vars, s_vars>>

\* The end of block code is in every literal/length tree (init_block).
IsBlock == T!Done /\ desc.elems > END_BLOCK /\ given[END_BLOCK] # 0

\* send_all_trees gets the tree up to max_code.
ToSend ==
  /\ stage = "tree" /\ IsBlock
  /\ stage' = "send" /\ s_pc' = "scan"
  /\ \E tree \in {[n \in 1 .. max_code + 1 |-> dl[n - 1]]} : lit' = tree /\ r' = S!Start(tree)
  /\ dist' = Dist /\ end_block' = END_BLOCK
  /\ UNCHANGED <<t_vars, which, blfreq, bllen, max_blindex, s_opt_len, sent, sentbits, rbl,
                 s_lens, pos, i_vars>>

\* inflate_table gets the first nlen of the lengths that were read.
ToTable ==
  /\ stage = "send" /\ s_pc = "end" /\ T!Done
  /\ stage' = "table" /\ i_pc' = "count"
  /\ type' = "LENS" /\ bits' \in Roots
  /\ i_lens' = [n \in 0 .. S!Nlen - 1 |-> s_lens[n + 1]]
  /\ UNCHANGED <<t_vars, s_vars, count, work, table, ret, v>>

End ==
  /\ \/ stage = "tree" /\ T!Done /\ ~IsBlock
     \/ stage = "send" /\ s_pc \in {"end", "BAD"} /\ ~(s_pc = "end" /\ T!Done)
     \/ stage = "table" /\ I!Done
  /\ stage' = "end"
  /\ UNCHANGED <<t_vars, s_vars, i_vars>>

Next == Build \/ ToSend \/ Transfer \/ ToTable \/ Tabulate \/ End

\* All of it is ordinary sequential code.
Spec == Init /\ [][Next]_vars /\ WF_vars(Next)

-----------------------------------------------------------------------------
(* Properties of the whole way.                                            *)

\* trees.c:600, inftrees.c:21: whatever the frequencies of a block were, its
\* lengths arrive, inflate_table accepts them and has space enough, and each
\* code compress_block will send is looked up by inflate() as the symbol it was
\* made for, whatever bits follow it.
BlockDecodes ==
  stage = "end" /\ IsBlock =>
    /\ s_pc = "end" /\ ret = "0"
    /\ \A n \in T!Leaves : \A w \in I!Words :
         w % 2 ^ dl[n] = code[n] => I!Lookup(w) = I!Here(n, dl[n])

\* trees.c:542, 551, inflate.c:960: the repair of long codes, the reading of the
\* lengths and the filling of the table come to an end.
BlockEnds == <>(stage = "end")

-----------------------------------------------------------------------------
(* The properties of the parts, while they are at work.                    *)

\* trees.c:448, 479, 523, 592, 600: the heap keeps its order and gen_bitlen meets
\* a father before its sons; the lengths then fill the code space, keep to the
\* limit, follow the frequencies and are optimal unless the limit had to be
\* enforced; opt_len is what they take; the codes are canonical, bit-reversed.
TreeSound ==
  /\ T!TypeOK
  /\ stage = "tree" =>
       /\ T!HeapOrder /\ T!TreeSorted
       /\ T!Complete /\ T!Monotone /\ T!Optimal /\ T!OptLenExact /\ T!CodesCanonical

\* trees.c:721, 766, 775, 822, inflate.c:997: codes are counted as often as they
\* are sent, repeat counts fit in their extra bits, the header takes the bits
\* computed for it, and the lengths are read as they were sent.
HeaderSound ==
  /\ S!TypeOK
  /\ stage = "send" =>
       S!ScanMatchesSend /\ S!ExtraFits /\ S!HeaderLenExact /\ S!LengthsArrive

\* inftrees.c:21, 131, 208, 277: exactly the sets of lengths that make a code are
\* accepted, the table stays in its space and decodes each word as the format
\* says.
TableSound ==
  /\ I!TypeOK
  /\ stage = "table" => I!AcceptsExactly /\ I!TableInSpace /\ I!TableDecodes
=============================================================================
