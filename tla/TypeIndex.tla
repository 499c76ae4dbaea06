----------------------------- MODULE TypeIndex -----------------------------
(***************************************************************************)
(* The metric stage for one type: the service is made from the weights     *)
(* (reusability/application), then Compute (reusability/domain) asks for   *)
(* the field usage (FieldUsage), counts the accesses in it, and evaluates  *)
(* the index (Reusability) on that and on the other facts of the type.     *)
(***************************************************************************)
EXTENDS FieldUsage

CONSTANTS
  Cases,   \* [calls, shape, weights]: types and weights to consider
  MaxFloat \* see Reusability

\* shape: the facts of the type besides its fields' usage; a type that has no
\* methods has no calls.
TypeShape == [methods : {0, MethodCount}, branches : Nat, references : Nat,
              exported : Nat, documented : Nat]

ASSUME MaxFloatAssumption == MaxFloat \in Nat

ASSUME CasesAssumption ==
  \A c \in Cases : /\ c.calls \in CallGraphs
                   /\ c.shape \in TypeShape
                   /\ c.shape.documented <= c.shape.exported
                   /\ c.shape.methods = 0 => c.shape.branches = 0
                   /\ \A k \in 1 .. 4 : LET w == c.weights[k] IN
                         w \in [n : Int, d : Nat] /\ (w.d = 0 => w.n \in -1 .. 1)

VARIABLES
  shape,    \* see TypeShape; never changes
  input,    \* the input of the index; its accesses count from the end of the usage on
  weights, step, turn, weightSum, dropped, value, result \* see Reusability

usage   == vars
indexed == <<weights, step, turn, weightSum, dropped, value, result>>
all     == <<usage, shape, input, indexed>>

HasMethods == shape.methods # 0

\* TotalFieldAccesses: the method-field cells that are used.
Accesses == Cardinality({cell \in Method \X Field : cell[2] \in sets[cell[1]]})

\* The input of Compute.
FactsOfType ==
  [fields |-> fieldCount, methods |-> shape.methods,
   accesses |-> IF HasMethods THEN Accesses ELSE 0, branches |-> shape.branches,
   references |-> shape.references, exported |-> shape.exported,
   documented |-> shape.documented]

R == INSTANCE Reusability WITH facts <- input, pc <- step, i <- turn

-----------------------------------------------------------------------------
TypeInit ==
  /\ \E c \in Cases : calls = c.calls /\ shape = c.shape /\ weights = c.weights
  /\ Init
  /\ R!Init
  /\ HasMethods \/ (\A m \in Method : fieldsUsed[m] = {})
  /\ input = FactsOfType

\* NewService.
Serve == UNCHANGED <<usage, shape>> /\ R!NewService

\* typeLCOM: EffectiveFieldSets of a type with methods.
UseFields ==
  /\ step = "sum" /\ HasMethods
  /\ UNCHANGED <<shape, indexed>>
  /\ Start \/ Absorb \/ NextMethod \/ EndRound
  /\ input' = IF pc' = "done" THEN FactsOfType' ELSE input

\* metrics.Reusability, once the usage is known.
Evaluate ==
  /\ HasMethods => pc = "done"
  /\ UNCHANGED <<usage, shape>>
  /\ R!SumStep \/ R!SumEnds \/ R!ValueStep \/ R!ValueEnds

Evaluated == UNCHANGED all /\ R!Stopped

TypeNext == Serve \/ UseFields \/ Evaluate \/ Evaluated

\* The computation is one goroutine, which is never blocked.
TypeSpec == TypeInit /\ [][TypeNext]_all /\ WF_all(TypeNext)

-----------------------------------------------------------------------------
\* An index lies between the smallest and the largest of the components that are
\* weighed, hence in [0, 1], whatever was dropped and however the weights add up
\* (metrics/funcs.go:170-172), unless they add up to no number (see there).
IndexBetweenItsComponents == R!IndexBetweenItsComponents

\* Every evaluation ends, also when methods call each other in a cycle.
EvaluationEnds == <>(step \in {"rejected", "done"})
=============================================================================
