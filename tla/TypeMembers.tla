---------------------------- MODULE TypeMembers ----------------------------
(***************************************************************************)
(* The facts of one type's members (typefacts/adapters/goloader/funcs.go): *)
(* the package's files are indexed, the type's methods with a body in an   *)
(* analysed file are sorted and numbered, each body is walked for the      *)
(* fields and the methods of the type it selects and for its branches, and *)
(* the documented exported members are counted.  FieldUsage and            *)
(* Reusability start from these facts.                                     *)
(*                                                                         *)
(* Names are numbers, in the order of the strings; so are positions.  A    *)
(* node of a body is what the walk tells apart, in the order of the walk.  *)
(***************************************************************************)
EXTENDS Integers, Sequences, FiniteSets, SequencesExt, Sorting

CONSTANT Declarations \* types, each with what the syntax says of it

Branches == {"if", "for", "range", "case", "comm", "logical"}
Node == [kind : Branches \cup {"field", "call", "methodExpr", "other"}, target : Nat]

FieldRange == [start : Int, end : Int, documented : BOOLEAN]

\* ranges: the struct fields declared anywhere in the package, in the order of
\* the files; declared: the method has a body in a file that is not skipped.
IsDeclaration(d) ==
  /\ d.methods \in Seq(Range(d.methods)) /\ d.ranges \in Seq(FieldRange)
  /\ \A k \in DOMAIN d.fields : d.fields[k].pos \in Int
  /\ \A k \in DOMAIN d.methods : d.methods[k].name \in Int /\ d.methods[k].body \in Seq(Node)
  /\ \A k, l \in DOMAIN d.methods : d.methods[k].name = d.methods[l].name => k = l
  /\ \A k \in DOMAIN d.ranges : d.ranges[k].start <= d.ranges[k].end
  /\ \A k, l \in DOMAIN d.ranges : k # l =>
       d.ranges[k].end < d.ranges[l].start \/ d.ranges[l].end < d.ranges[k].start

VARIABLES
  decl,      \* the type; never changes
  stage,     \* "index", "method", "body" or "done"
  ranges,    \* the index of field declarations, [start, end, documented]
  methods,   \* the type's methods as they are numbered
  node,      \* the node of the current body that is walked next
  siblings,  \* the numbers of the methods the current body calls
  facts,     \* the facts of the methods so far, the current one the last
  members    \* the exported members and those documented

vars == <<decl, stage, ranges, methods, node, siblings, facts, members>>

-----------------------------------------------------------------------------
\* indexSyntax: the ranges by their start (mutant: as the files come).
SortedRanges_FileOrder(rs) == rs
SortedRanges(rs) == Sorted(Range(rs), [r \in Range(rs) |-> r.start])

\* sortedMethods: the declared ones by name.
SortedMethods(d) ==
  LET declared == {m \in Range(d.methods) : m.declared}
  IN Sorted(declared, [m \in declared |-> m.name])

\* indexMethodDecls: the numbers of the methods of that name, one or none (mutant:
\* the number in the declaration's order).
Numbers_AsDeclared(name) == {k \in DOMAIN decl.methods : decl.methods[k].name = name}
Numbers(name) == {k \in DOMAIN methods : methods[k].name = name}

\* recordSiblingCall: a method that calls itself is not its own sibling.
Callees(name) == Numbers(name) \ {Len(facts)}

\* fieldDocumented: the last range that starts at or before the position, if it
\* reaches that far, has the answer.
Before(pos) == {k \in DOMAIN ranges : \A l \in 1 .. k : ranges[l].start <= pos}
Documented(pos) ==
  Before(pos) # {} /\ LET r == ranges[Cardinality(Before(pos))] IN pos <= r.end /\ r.documented

\* newMethodFacts.
NoFacts == [used |-> {}, siblings |-> <<>>, branches |-> [b \in Branches |-> 0]]

\* walkBodyVisitor for one node: countBranch, then recordSelection.
Counted(branches, n) == IF n.kind \in Branches THEN [branches EXCEPT ![n.kind] = @ + 1] ELSE branches
Selected(used, n) ==
  IF n.kind = "field" /\ n.target \in DOMAIN decl.fields THEN used \cup {n.target} ELSE used

\* memberDocs: the type itself, its fields and its methods.
Count(s, P(_)) == Cardinality({k \in DOMAIN s : P(s[k])})
MemberDocs ==
  LET own(flag) == IF flag THEN 1 ELSE 0 IN
  [exported |-> own(decl.exported)
                  + Count(decl.fields, LAMBDA f : f.exported) + Count(methods, LAMBDA m : m.exported),
   documented |-> own(decl.exported /\ decl.documented)
                    + Count(decl.fields, LAMBDA f : f.exported /\ Documented(f.pos))
                    + Count(methods, LAMBDA m : m.exported /\ m.documented)]

-----------------------------------------------------------------------------
Init ==
  /\ decl \in Declarations
  /\ stage = "index" /\ ranges = <<>> /\ methods = <<>> /\ node = 1
  /\ siblings = {} /\ facts = <<>> /\ members = [exported |-> 0, documented |-> 0]

\* extractPackage indexes the files, extractType begins.
Index ==
  /\ stage = "index" /\ stage' = "method"
  /\ ranges' = SortedRanges(decl.ranges)
  /\ methods' = SortedMethods(decl)
  /\ UNCHANGED <<decl, node, siblings, facts, members>>

\* methodFacts for the next method, up to the walk of its body.
BeginMethod ==
  /\ stage = "method" /\ Len(facts) < Len(methods)
  /\ stage' = "body" /\ node' = 1 /\ siblings' = {}
  /\ facts' = Append(facts, NoFacts)
  /\ UNCHANGED <<decl, ranges, methods, members>>

Body == methods[Len(facts)].body

WalkNode ==
  /\ stage = "body" /\ node <= Len(Body)
  /\ LET n == Body[node] IN
     /\ facts' = [facts EXCEPT ![Len(facts)].branches = Counted(@, n),
                               ![Len(facts)].used = Selected(@, n)]
     /\ siblings' = IF n.kind = "call" THEN siblings \cup Callees(n.target) ELSE siblings
  /\ node' = node + 1
  /\ UNCHANGED <<decl, stage, ranges, methods, members>>

\* assignSiblings.
EndMethod ==
  /\ stage = "body" /\ node > Len(Body)
  /\ stage' = "method"
  /\ facts' = [facts EXCEPT ![Len(facts)].siblings = SortedNumbers(siblings)]
  /\ UNCHANGED <<decl, ranges, methods, node, siblings, members>>

\* attachTypeRefsDocs.
CountDocs ==
  /\ stage = "method" /\ Len(facts) = Len(methods)
  /\ stage' = "done" /\ members' = MemberDocs
  /\ UNCHANGED <<decl, ranges, methods, node, siblings, facts>>

-----------------------------------------------------------------------------
\* Read back by name, a method's facts are those of its own body: sorting and
\* leaving out methods, generated ones say, renumbers them all, and every sibling
\* still is the method that is called.
FactsAreOfTheBody ==
  stage = "done" => \A k \in DOMAIN methods :
    LET body == Range(methods[k].body)
        called == {n.target : n \in {m \in body : m.kind = "call"}}
    IN /\ Range(facts[k].siblings) \subseteq DOMAIN methods
       /\ {methods[s].name : s \in Range(facts[k].siblings)}
            = {decl.methods[l].name : l \in {j \in DOMAIN decl.methods :
                 decl.methods[j].declared /\ decl.methods[j].name \in called \ {methods[k].name}}}
       /\ facts[k].used = {n.target : n \in {m \in body : m.kind = "field"}} \cap DOMAIN decl.fields
       /\ \A b \in Branches :
            facts[k].branches[b] = Cardinality({j \in DOMAIN methods[k].body : methods[k].body[j].kind = b})

\* A field counts as documented when its own declaration is, wherever the files
\* put it, and not when it was declared in another package.
DocsAreOfTheField ==
  stage = "done" => \A k \in DOMAIN decl.fields :
    Documented(decl.fields[k].pos) <=>
      \E j \in DOMAIN decl.ranges :
        /\ decl.ranges[j].documented
        /\ decl.fields[k].pos \in decl.ranges[j].start .. decl.ranges[j].end

=============================================================================
