------------------------------ MODULE MCPolicy ------------------------------
(* Instances of Policy for TLC. *)
EXTENDS Policy, SequencesExt

\* All patterns and all paths of at most three segments over two names: every
\* mix of literals, single and double stars.
Patterns == UNION {[1 .. n -> {"a", "b", "*", "**"}] : n \in 1 .. 3}
Paths    == UNION {[1 .. n -> {"a", "b"}] : n \in 1 .. 3}

Below == [applicable |-> TRUE, value |-> 4]
Close == [applicable |-> TRUE, value |-> 6]
Above == [applicable |-> TRUE, value |-> 7]
NotApplicable == [applicable |-> FALSE, value |-> 0]

Package(p, ts) == [path |-> p, types |-> ts]

\* One package on its own, and two packages whose rules differ.
MCReports ==
  {<<>>}
  \cup {<<Package(p, <<Below, NotApplicable, Close, Below, Above>>)>> : p \in Paths}
  \cup {<<Package(<<"a">>, <<Below, Above>>), Package(<<"b", "a">>, <<Close, Below, Below>>)>>}

\* A choice of patterns that overlap and tie in specificity.
Overlapping == { <<"**">>, <<"*">>, <<"a">>, <<"a", "**">>, <<"**", "a">>, <<"*", "a">> }

MinFor(k) == IF k = 1 THEN 7 ELSE IF k = 2 THEN 5 ELSE 8

RuleSeq(ps) == [k \in DOMAIN ps |-> [pattern |-> ps[k], min |-> MinFor(k)]]

\* No rule, one rule with any pattern, and every list of two and three rules.
MCRuleLists ==
  {<<>>} \cup {RuleSeq(<<p>>) : p \in Patterns}
  \cup {RuleSeq(ps) : ps \in [1 .. 2 -> Overlapping] \cup [1 .. 3 -> Overlapping]}
=============================================================================
