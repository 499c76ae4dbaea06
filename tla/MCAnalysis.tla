----------------------------- MODULE MCAnalysis -----------------------------
(* Instances of Analysis for TLC. *)
EXTENDS Analysis

Type(n, g, uses) == [name |-> n, generated |-> g, uses |-> uses]

Pkg(path, files, broken, testMain, module, types) ==
  [path |-> path, files |-> files, broken |-> broken, testMain |-> testMain, module |-> module,
   types |-> types]

\* Two main modules, as in a workspace, and one that is required.
M1 == [path |-> 1, main |-> TRUE]
M2 == [path |-> 2, main |-> TRUE]
Required == [path |-> 3, main |-> FALSE]

\* Package 1 and its test variant, which has a further file and type; type 2 is
\* generated.  Package 2, of another main module, refers back and forth, to
\* generated and unknown types.
A     == Pkg(1, 1, FALSE, FALSE, M1, << Type(1, FALSE, {<<2, 1>>, <<1, 2>>, <<9, 1>>}),
                                        Type(2, TRUE, {<<1, 1>>}) >>)
ATest == Pkg(1, 2, FALSE, FALSE, M1, << Type(1, FALSE, {<<2, 1>>, <<1, 2>>, <<9, 1>>}),
                                        Type(2, TRUE, {<<1, 1>>}),
                                        Type(3, FALSE, {<<1, 3>>, <<1, 1>>, <<3, 1>>}) >>)
AMain == Pkg(4, 1, TRUE, TRUE, M1, <<>>)
ABroken == Pkg(1, 2, TRUE, FALSE, M1, <<>>)
B     == Pkg(2, 1, FALSE, FALSE, M2, << Type(1, FALSE, {<<1, 1>>, <<1, 2>>, <<1, 3>>}),
                                        Type(2, FALSE, {}) >>)
C     == Pkg(3, 1, FALSE, FALSE, Required, << Type(1, FALSE, {<<2, 2>>, <<2, 1>>}) >>)
D     == Pkg(5, 1, FALSE, FALSE, NoModule, <<>>)

\* Every order of the sound packages after a synthesized main; a broken variant
\* that hides a sound one; packages of no main module, and of none.
MCLoads == {<<AMain>> \o l : l \in SetToSeqs({A, ATest, B, C})}
           \cup SetToSeqs({A, ABroken, B}) \cup SetToSeqs({ABroken, C, D}) \cup {<<D>>}
=============================================================================
