---------------------------- MODULE TypeExtract ----------------------------
(***************************************************************************)
(* extractType (typefacts/adapters/goloader/funcs.go): one type of a       *)
(* package becomes facts.  The members are described by TypeMembers; the   *)
(* types of the fields, then the signature of each method before its body  *)
(* is walked, are handed to the one reference collector of TypeRefs.       *)
(***************************************************************************)
EXTENDS TypeRefs

CONSTANT Declarations \* see TypeMembers; fields have a type, methods a signature

VARIABLES decl, stage, ranges, methods, node, siblings, facts, members \* see TypeMembers

M == INSTANCE TypeMembers

described == <<decl, stage, ranges, methods, node, siblings, facts, members>>

ASSUME TypeExtractAssumption ==
  \A d \in Declarations :
    /\ M!IsDeclaration(d)
    /\ \A k \in DOMAIN d.fields : d.fields[k].type \in Type
    /\ \A k \in DOMAIN d.methods : d.methods[k].signature \in Type

-----------------------------------------------------------------------------
\* What addType is called with, in the order of the calls.
RootsOf(d) ==
  LET numbered == M!SortedMethods(d) IN
  [k \in DOMAIN d.fields |-> d.fields[k].type]
    \o [k \in DOMAIN numbered |-> numbered[k].signature]

\* The calls made so far: those of structFields, and one for each method begun.
Due == IF stage = "index" THEN 0 ELSE Len(decl.fields) + Len(facts)
Collecting == stack # <<>> \/ next <= Due

ExtractInit == M!Init /\ NewCollector /\ roots = RootsOf(decl)

\* A call of addType goes on to its end before the caller does.
Collect ==
  /\ Collecting
  /\ AddRoot \/ SkipVisited \/ AddType
  /\ UNCHANGED described

Describe ==
  /\ ~Collecting
  /\ M!Index \/ M!BeginMethod \/ M!WalkNode \/ M!EndMethod \/ M!CountDocs
  /\ UNCHANGED collector

Extracted == stage = "done" /\ UNCHANGED <<described, collector>>

ExtractNext == Collect \/ Describe \/ Extracted

ExtractSpec == ExtractInit /\ [][ExtractNext]_<<described, collector>>

-----------------------------------------------------------------------------
\* ReferencesAreExact is stated by TypeRefs.  Every step that collects references
\* is one of TypeRefs.

\* The facts of a method read back by name are those of its own body, whatever
\* methods are left out and however they are sorted (TypeMembers).
FactsAreOfTheBody == M!FactsAreOfTheBody

\* A field counts as documented when its own declaration is, in whatever order
\* the files were indexed (TypeMembers).
DocsAreOfTheField == M!DocsAreOfTheField
=============================================================================
