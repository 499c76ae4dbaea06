----------------------------- MODULE MCSettings -----------------------------
(* Settings blocks for TLC: one or two fields off the default, in every      *)
(* spelling, with good, bad, empty and mistyped values.                      *)
EXTENDS Settings

ValuesOf ==
  [dependency_scope    |-> {"", "all", "every"},
   field_usage         |-> {"transitive", "none"},
   reusability_weights |-> {<<>>, [cohesion |-> 0], [cohesion |-> 0 - 1],
                            [c \in DOMAIN DefaultWeights |-> 0]},
   patterns            |-> {<<>>, <<"./a">>, <<"./a", "">>},
   rules               |-> {<<[pattern |-> "**", min |-> <<10>>]>>,
                            <<[pattern |-> "**", min |-> <<>>]>>,
                            <<[pattern |-> "**", min |-> <<10>>], [pattern |-> "", min |-> <<0>>]>>},
   other               |-> {""}]

\* A value of the key's field, or one of another type.
Given(key) ==
  {[typed |-> TRUE, value |-> v] : v \in ValuesOf[key[1]]}
    \cup {[typed |-> FALSE, value |-> ZeroSettings[f]] : f \in {key[1]} \cap Fields}

MCMaxKeys == 3

\* The blocks with exactly these keys; a field keeps to values of one type.
Blocks[ks \in SUBSET Keys] ==
  IF ks = {} THEN {<<>>}
  ELSE LET key == CHOOSE k \in ks : TRUE IN
       {[k \in ks |-> IF k = key THEN g ELSE b[k]] : b \in Blocks[ks \ {key}], g \in Given(key)}

MCInputs == UNION {Blocks[ks] : ks \in {s \in SUBSET Keys : Cardinality(s) <= MCMaxKeys}}
=============================================================================
