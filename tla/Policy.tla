------------------------------- MODULE Policy -------------------------------
(***************************************************************************)
(* The policy gate (policy/domain/funcs.go): for each package of a report  *)
(* one scan over the rules picks the rule that decides, and every type of  *)
(* the package is held against that rule's minimum.                        *)
(*                                                                         *)
(* A path and a pattern are sequences of segments.  Values and minimums    *)
(* are integers: multiples of the comparison tolerance.                    *)
(***************************************************************************)
EXTENDS Integers, Sequences, FiniteSets

CONSTANTS
  Segment,    \* the segments of paths and patterns, the two wildcards included
  Reports,    \* sequences of packages, each with its path and its types
  RuleLists,  \* sequences of rules that Validate accepts
  DefaultMin, \* defaultMinReusability
  Tolerance   \* comparisonTolerance; values are in [0, 1], so it is constant

PathType == Seq(Segment)
RuleType == [pattern : Seq(Segment), min : Int]
TypeType == [applicable : BOOLEAN, value : Int]

ASSUME PolicyAssumption ==
  /\ {"*", "**"} \subseteq Segment
  /\ Reports \subseteq Seq([path : PathType, types : Seq(TypeType)])
  /\ RuleLists \subseteq Seq(RuleType)
  /\ \A rs \in RuleLists : \A k \in DOMAIN rs : rs[k].pattern # <<>>
  /\ DefaultMin \in Int
  /\ Tolerance \in Nat

VARIABLES
  report,      \* the report; never changes
  rules,       \* the rules in force
  pc,          \* "start", "scan" or "done"
  pkg, rule,   \* the package and the rule looked at next
  typ,         \* the type of the package looked at next
  deciding,    \* the index of the rule that decides so far, 0 for none
  violations   \* <<package, type, threshold>> triples, in order

vars == <<report, rules, pc, pkg, rule, typ, deciding, violations>>

-----------------------------------------------------------------------------
\* Where the rest of the path may start after a double star that leaves off at
\* segment j of n (mutant: the end of the path is forgotten).
AfterDoubleStar_NotEnd(j, n) == j .. n
AfterDoubleStar(j, n) == j .. n + 1

\* matchDoubleStar and matchOne: where segment i of the pattern may start, when
\* the segments behind it may start at the positions rest.
StartsOf(p, s, i, rest) ==
  {j \in 1 .. Len(s) + 1 :
    IF p[i] = "**" THEN i = Len(p) \/ \E k \in AfterDoubleStar(j, Len(s)) : k \in rest
    ELSE j <= Len(s) /\ p[i] \in {"*", s[j]} /\ j + 1 \in rest}

\* matchFrom: where the path from j on matches the pattern from segment i on.
MatchFrom(p, s) ==
  LET M[i \in 1 .. Len(p) + 1] ==
        IF i > Len(p) THEN {Len(s) + 1} ELSE StartsOf(p, s, i, M[i + 1])
  IN M

MatchPackage(p, s) == 1 \in MatchFrom(p, s)[1]

\* patternSpecificity.
Wildcards(p) == Cardinality({i \in DOMAIN p : p[i] \in {"*", "**"}})
Literals(p)  == Len(p) - Wildcards(p)

\* moreSpecific: may the candidate replace the current pattern (mutant: only
\* the literal segments are compared)?
MoreSpecific_LiteralsOnly(c, p) == Literals(c) >= Literals(p)

MoreSpecific(c, p) ==
  IF Literals(c) # Literals(p) THEN Literals(c) > Literals(p)
  ELSE IF Wildcards(c) # Wildcards(p) THEN Wildcards(c) < Wildcards(p)
  ELSE Len(c) >= Len(p)

\* violationForType: not applicable is never a violation.
Violates(t, min) == t.applicable /\ t.value + Tolerance < min

\* The rule that decides when the scan of a package starts (mutant: the one that
\* decided for the package before).
FreshScan_Kept == deciding
FreshScan == 0

-----------------------------------------------------------------------------
Init ==
  /\ report \in Reports
  /\ rules \in RuleLists
  /\ pc = "start"
  /\ pkg = 1
  /\ rule = 1 /\ typ = 1
  /\ deciding = 0
  /\ violations = <<>>

\* Evaluate: no rules means the default ones.
Start ==
  /\ pc = "start"
  /\ rules' = IF rules = <<>> THEN <<[pattern |-> <<"**">>, min |-> DefaultMin]>>
                              ELSE rules
  /\ pc' = IF report = <<>> THEN "done" ELSE "scan"
  /\ UNCHANGED <<report, pkg, rule, typ, deciding, violations>>

\* One iteration of matchingRule.
ConsiderRule ==
  /\ pc = "scan"
  /\ rule <= Len(rules)
  /\ LET candidate == rules[rule].pattern IN
       deciding' = IF /\ MatchPackage(candidate, report[pkg].path)
                      /\ deciding = 0 \/ MoreSpecific(candidate, rules[deciding].pattern)
                     THEN rule ELSE deciding
  /\ rule' = rule + 1
  /\ UNCHANGED <<report, rules, pc, pkg, typ, violations>>

\* One iteration of evaluatePackage's loop over the types.
CheckType ==
  /\ pc = "scan"
  /\ rule > Len(rules) /\ deciding # 0
  /\ typ <= Len(report[pkg].types)
  /\ LET min == rules[deciding].min IN
       violations' = IF Violates(report[pkg].types[typ], min)
                       THEN Append(violations, <<pkg, typ, min>>) ELSE violations
  /\ typ' = typ + 1
  /\ UNCHANGED <<report, rules, pc, pkg, rule, deciding>>

\* Evaluate goes on to the next package; one that no rule matches passes.
NextPackage ==
  /\ pc = "scan"
  /\ rule > Len(rules)
  /\ deciding = 0 \/ typ > Len(report[pkg].types)
  /\ pc' = IF pkg = Len(report) THEN "done" ELSE "scan"
  /\ pkg' = pkg + 1
  /\ rule' = 1 /\ typ' = 1
  /\ deciding' = FreshScan
  /\ UNCHANGED <<report, rules, violations>>

Done == pc = "done" /\ UNCHANGED vars

Next == Start \/ ConsiderRule \/ CheckType \/ NextPackage \/ Done

Spec == Init /\ [][Next]_vars

-----------------------------------------------------------------------------
\* The type invariant.
TypeOK ==
  /\ report \in Reports
  /\ rules \in Seq(RuleType)
  /\ pc \in {"start", "scan", "done"}
  /\ pkg \in 1 .. Len(report) + 1
  /\ rule \in 1 .. Len(rules) + 1
  /\ deciding \in 0 .. rule - 1
  /\ typ \in Nat \ {0}
  /\ violations \in Seq((DOMAIN report) \X Nat \X Int)

\* What "*" and "**" mean (funcs.go:58-60): the pattern's segments cover the
\* path from left to right, "*" and a literal one segment each, "**" any number
\* of them.  cut[i] is where pattern segment i starts.
Covers(p, s) ==
  \E cut \in [1 .. Len(p) + 1 -> 1 .. Len(s) + 1] :
    /\ cut[1] = 1
    /\ cut[Len(p) + 1] = Len(s) + 1
    /\ \A i \in DOMAIN p :
         IF p[i] = "**" THEN cut[i] <= cut[i + 1]
         ELSE /\ cut[i + 1] = cut[i] + 1
              /\ p[i] = "*" \/ p[i] = s[cut[i]]

\* The backtracking matcher decides exactly that.
MatchIsCover ==
  pc = "scan" /\ rule <= Len(rules) =>
    (MatchPackage(rules[rule].pattern, report[pkg].path)
       <=> Covers(rules[rule].pattern, report[pkg].path))

\* The documented order of rules (README, "When multiple rules match"): more
\* literal segments, then fewer wildcards, then longer, then later.
Beats(i, j) ==
  LET a == rules[i].pattern
      b == rules[j].pattern
  IN \/ Literals(a) > Literals(b)
     \/ /\ Literals(a) = Literals(b)
        /\ \/ Wildcards(a) < Wildcards(b)
           \/ Wildcards(a) = Wildcards(b) /\ Len(a) > Len(b)
           \/ Wildcards(a) = Wildcards(b) /\ Len(a) = Len(b) /\ i > j

Matches(k, p) == MatchPackage(rules[k].pattern, report[p].path)

\* Rule k is the best of the first n rules for package p.
BestOf(k, n, p) ==
  /\ k \in 1 .. n
  /\ Matches(k, p)
  /\ \A i \in (1 .. n) \ {k} : Matches(i, p) => Beats(k, i)

\* After the scan the deciding rule is the one that order names, however the
\* rules are listed: keeping only the best so far loses nothing.
DecidingRuleIsMostSpecific ==
  pc = "scan" /\ rule > Len(rules) =>
    IF deciding = 0
      THEN \A k \in DOMAIN rules : ~Matches(k, pkg)
      ELSE BestOf(deciding, Len(rules), pkg)

\* Type t of package p is below the minimum of the rule that decides for p.
Falls(t, p, min) ==
  \E k \in DOMAIN rules :
    /\ BestOf(k, Len(rules), p) /\ min = rules[k].min
    /\ Violates(report[p].types[t], min)

\* The verdict: a violation for every type below the minimum of the rule that
\* decides for its own package, which the violation names, and for no other type;
\* each once, in report order.
VerdictIsExact ==
  pc = "done" =>
    /\ \A n \in DOMAIN violations :
         LET v == violations[n] IN
           v[1] \in DOMAIN report /\ v[2] \in DOMAIN report[v[1]].types /\ Falls(v[2], v[1], v[3])
    /\ \A p \in DOMAIN report : \A t \in DOMAIN report[p].types :
         (\E k \in DOMAIN rules : Falls(t, p, rules[k].min)) =>
           \E n \in DOMAIN violations : violations[n][1] = p /\ violations[n][2] = t
    /\ \A m, n \in DOMAIN violations : m < n =>
         \/ violations[m][1] < violations[n][1]
         \/ violations[m][1] = violations[n][1] /\ violations[m][2] < violations[n][2]

\* doc/adr/0021:29 "Multiple matching rules apply the strictest (highest `min`)."
StrictestRuleApplies ==
  pc = "scan" /\ rule > Len(rules) /\ deciding # 0 =>
    \A k \in DOMAIN rules :
      Matches(k, pkg) => rules[k].min <= rules[deciding].min
=============================================================================
