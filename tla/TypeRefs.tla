------------------------------ MODULE TypeRefs ------------------------------
(***************************************************************************)
(* Which types of the program a type refers to                             *)
(* (typefacts/adapters/goloader/funcs.go, refCollector): the types of its  *)
(* fields and the signatures of its methods are taken apart down to the    *)
(* named types they mention.  A named type is recorded and not entered,    *)
(* except for its type arguments; the collector keeps one set of visited   *)
(* types for all fields and methods.                                       *)
(*                                                                         *)
(* A type is what types.Unalias leaves.  The recursion of addType is a     *)
(* stack of the calls still to be made, the next one first.                *)
(***************************************************************************)
EXTENDS Integers, Sequences, FiniteSets

CONSTANTS
  Type,      \* the types
  Name,      \* the names of named types, without their type arguments
  Shape,     \* per type its kind, the types it is made of and its name
  Declared,  \* sequences of types: a type's field types, then its signatures
  Self,      \* the name of the type whose references are collected
  Analyzed   \* the names declared in packages under analysis

Kinds == {"named", "map", "elem", "signature", "struct", "interface", "other"}

\* parts: the key and the element of a map, the element of a pointer, slice,
\* array or channel, the parameters and results of a signature, the fields of a
\* struct, for an interface what it embeds and then the parameters and results of
\* its methods; for a named type what it is declared as.
ShapeType == [kind : Kinds, parts : Seq(Type), args : Seq(Type), name : Name]

ASSUME TypeRefsAssumption ==
  /\ Shape \in [Type -> ShapeType]
  /\ Declared \subseteq Seq(Type)
  /\ Self \in Name
  /\ Analyzed \subseteq Name

VARIABLES
  roots,    \* the declared types; never changes
  next,     \* the declared type that is added next
  stack,    \* calls of addType still to be made
  visited,  \* types addType has been called for
  seen      \* names recorded

collector == <<roots, next, stack, visited, seen>>

-----------------------------------------------------------------------------
Members(s) == {s[k] : k \in DOMAIN s}

\* addTypeArgRefs, descendContainer and descendComposite: the types addType is
\* called for next (mutant: a named type's arguments are left out).
Followed_NoArguments(t) ==
  IF Shape[t].kind \in {"named", "other"} THEN <<>> ELSE Shape[t].parts
Followed(t) ==
  IF Shape[t].kind = "named" THEN Shape[t].args
  ELSE IF Shape[t].kind = "other" THEN <<>> ELSE Shape[t].parts

\* recordNamedRef: the analysed named types but the type itself.
Recorded(t) ==
  IF Shape[t].kind = "named" THEN ({Shape[t].name} \cap Analyzed) \ {Self} ELSE {}

-----------------------------------------------------------------------------
\* newRefCollector.
NewCollector ==
  /\ roots \in Declared
  /\ next = 1 /\ stack = <<>> /\ visited = {} /\ seen = {}

\* collectStructFields and methodFacts hand over the next declared type.
AddRoot ==
  /\ stack = <<>> /\ next \in DOMAIN roots
  /\ stack' = <<roots[next]>> /\ next' = next + 1
  /\ UNCHANGED <<roots, visited, seen>>

\* addType for a type seen before.
SkipVisited ==
  /\ stack # <<>> /\ Head(stack) \in visited
  /\ stack' = Tail(stack)
  /\ UNCHANGED <<roots, next, visited, seen>>

\* addType for a new one.
AddType ==
  /\ stack # <<>> /\ Head(stack) \notin visited
  /\ visited' = visited \cup {Head(stack)}
  /\ seen' = seen \cup Recorded(Head(stack))
  /\ stack' = Followed(Head(stack)) \o Tail(stack)
  /\ UNCHANGED <<roots, next>>

CollectorDone == stack = <<>> /\ next \notin DOMAIN roots

CollectorNext == AddRoot \/ SkipVisited \/ AddType \/ (CollectorDone /\ UNCHANGED collector)

CollectorSpec == NewCollector /\ [][CollectorNext]_collector

-----------------------------------------------------------------------------
\* The collector works on types of the program and records no type but the
\* analysed ones, and never the type it works for.
CollectorTypeOK ==
  /\ roots \in Declared
  /\ next \in Nat \ {0}
  /\ stack \in Seq(Type)
  /\ visited \subseteq Type
  /\ seen \subseteq Analyzed \ {Self}

\* The types a type's notation mentions: a named type stands for itself and its
\* type arguments, whatever it is declared as.
Mentions(t) ==
  CASE Shape[t].kind = "named" -> Members(Shape[t].args)
    [] Shape[t].kind = "other" -> {}
    [] OTHER -> Members(Shape[t].parts)

ContainsItsMentions(S) == \A t \in S : Mentions(t) \subseteq S

\* In the notation of the declared types: in every set that holds them and, with
\* a type, the types it mentions.
IsMentioned(t) ==
  \A S \in SUBSET Type : Members(roots) \subseteq S /\ ContainsItsMentions(S) => t \in S

\* The references a type ends up with are the analysed types, other than itself,
\* that the notation of its fields and signatures names: all of them, although
\* one set of visited types serves all fields and methods, and no type that is
\* only reached through another one's declaration.
ReferencesAreExact ==
  CollectorDone => seen = {Shape[t].name : t \in {u \in Type : Shape[u].kind = "named" /\ IsMentioned(u)}}
                   \cap (Analyzed \ {Self})

=============================================================================
