---------------------------- MODULE MCTypeIndex ----------------------------
(* Types and weights for TLC. *)
EXTENDS TypeIndex, SequencesExt

\* Every call graph in which no method calls itself, CalledSiblings sorted as
\* assignSiblings leaves them.
MCCallGraphs ==
  {[m \in Method |-> SetToSortSeq(g[m], LAMBDA a, b : a < b)] :
     g \in {h \in [Method -> SUBSET Method] : \A m \in Method : m \notin h[m]}}

NoCalls == [m \in Method |-> <<>>]
Cycle   == [m \in Method |-> <<(m + 1) % MethodCount>>]

Shape(m, b, r, e, d) ==
  [methods |-> m, branches |-> b, references |-> r, exported |-> e, documented |-> d]

Weighing(a, b, c, d) == [k \in 1 .. 4 |-> [n |-> <<a, b, c, d>>[k], d |-> 1]]

\* Types with methods, branchy or coupled, and without methods, coupled or not,
\* with no, some and all exported members documented.
Shapes ==
  {Shape(s[1], s[2], s[3], e[1], e[2]) :
     s \in {<<MethodCount, 0, 2>>, <<MethodCount, 2, 0>>, <<0, 0, 0>>, <<0, 0, 2>>},
     e \in {<<0, 0>>, <<2, 1>>, <<2, 2>>}}

\* No weights, which asks for the defaults, one component alone, one component
\* left out, uneven weights, and a negative one.
Only(k) == [j \in 1 .. 4 |-> [n |-> IF j = k THEN 1 ELSE 0, d |-> 1]]
AllBut(k) == [j \in 1 .. 4 |-> [n |-> IF j = k THEN 0 ELSE 1, d |-> 1]]
WeightChoices ==
  {Weighing(0, 0, 0, 0), Weighing(3, 1, 0, 2), Weighing(1, 0 - 1, 1, 1)}
    \cup {Only(k) : k \in 1 .. 4} \cup {AllBut(k) : k \in 1 .. 4}

\* Weights too large for their sum, on all components or on one, weights that are
\* infinite or no number; for types without methods and for one with methods.
OddWeights ==
  {Weighing(4, 4, 4, 4), [k \in 1 .. 4 |-> [n |-> 1, d |-> 0]]}
    \cup {[AllBut(k) EXCEPT ![j] = w] : k \in {2, 4}, j \in {1, 4},
            w \in {[n |-> 10, d |-> 1], [n |-> 1, d |-> 0], [n |-> 0, d |-> 0], [n |-> 0 - 1, d |-> 0]}}
OddShapes == {s \in Shapes : s.methods = 0} \cup {Shape(MethodCount, 1, 1, 2, 1)}

CaseOf(s, w) == [calls |-> IF s.methods = 0 THEN NoCalls ELSE Cycle, shape |-> s, weights |-> w]

MCCases ==
  {[calls |-> g, shape |-> Shape(MethodCount, 1, 1, 2, 1), weights |-> Weighing(0, 0, 0, 0)] :
     g \in MCCallGraphs}
  \cup {CaseOf(s, w) : s \in Shapes, w \in WeightChoices}
  \cup {CaseOf(s, w) : s \in OddShapes, w \in OddWeights}
=============================================================================
