----------------------------- MODULE FieldUsage -----------------------------
(***************************************************************************)
(* Which fields each method of a type uses (cohesion/domain/funcs.go): as  *)
(* extracted, or propagated through calls of sibling methods, in place,    *)
(* method after method, until a whole round changes nothing.  LCOM counts  *)
(* what comes out.                                                         *)
(***************************************************************************)
EXTENDS Integers, Sequences, FiniteSets

CONSTANTS
  MethodCount,   \* len(t.Methods)
  MaxFields,     \* bound on len(t.Fields)
  CallGraphs     \* the CalledSiblings a type's methods may have

Method == 0 .. MethodCount - 1

ASSUME UsageAssumption ==
  /\ MethodCount \in Nat
  /\ MaxFields \in Nat
  /\ CallGraphs \subseteq [Method -> Seq(Method)]

VARIABLES
  mode,        \* the field-usage mode
  fieldCount,  \* len(t.Fields)
  calls,       \* CalledSiblings of each method
  fieldsUsed,  \* the FieldsUsed of the facts, which other readers share
  sets,        \* the sets being computed
  pc,          \* "start", "round" or "done"
  index, sib,  \* the method and the position in its siblings
  changed      \* has this round changed anything

vars == <<mode, fieldCount, calls, fieldsUsed, sets, pc, index, sib, changed>>

Field == 0 .. fieldCount - 1

-----------------------------------------------------------------------------
\* What the facts hold once the computed sets are s: cloneSets keeps them apart
\* (mutant: the sets are the facts' own).
FactsAfter_NoClone(s) == s
FactsAfter(s) == fieldsUsed

\* absorbSiblings compares the counts before and after a union (mutant:
\* always a change).
Differs_Always(before, after) == TRUE
Differs(before, after) == Cardinality(before) # Cardinality(after)

\* Where the next method's siblings start.
FirstSibling == 1

\* The sibling absorbed for method i (mutant: the caller's fields go to the
\* callee).
Absorbed_Backwards(i, j) == [sets EXCEPT ![j] = @ \cup sets[i]]
Absorbed(i, j) == [sets EXCEPT ![i] = @ \cup sets[j]]

-----------------------------------------------------------------------------
Init ==
  /\ mode \in {"direct", "transitive"}
  /\ fieldCount \in 0 .. MaxFields
  /\ calls \in CallGraphs
  /\ fieldsUsed \in [Method -> SUBSET Field]
  /\ sets = [m \in Method |-> {}]
  /\ pc = "start"
  /\ index = 0
  /\ sib = 1
  /\ changed = FALSE

\* fieldSetsFor: the extracted sets, which is all there is to do in direct mode
\* and for a type without fields.
Start ==
  /\ pc = "start"
  /\ sets' = fieldsUsed
  /\ pc' = IF mode = "transitive" /\ fieldCount # 0 THEN "round" ELSE "done"
  /\ UNCHANGED <<mode, fieldCount, calls, fieldsUsed, index, sib, changed>>

\* One union of absorbSiblings.
Absorb ==
  /\ pc = "round"
  /\ index < MethodCount
  /\ sib <= Len(calls[index])
  /\ sets' = Absorbed(index, calls[index][sib])
  /\ fieldsUsed' = FactsAfter(sets')
  /\ changed' = (changed \/ Differs(sets[index], sets'[index]))
  /\ sib' = sib + 1
  /\ UNCHANGED <<mode, fieldCount, calls, pc, index>>

\* The siblings of this method are done.
NextMethod ==
  /\ pc = "round"
  /\ index < MethodCount
  /\ sib > Len(calls[index])
  /\ index' = index + 1
  /\ sib' = FirstSibling
  /\ UNCHANGED <<mode, fieldCount, calls, fieldsUsed, sets, pc, changed>>

\* The round is over: another one after a change, or the result.
EndRound ==
  /\ pc = "round"
  /\ index = MethodCount
  /\ pc' = IF changed THEN "round" ELSE "done"
  /\ index' = 0
  /\ sib' = 1
  /\ changed' = FALSE
  /\ UNCHANGED <<mode, fieldCount, calls, fieldsUsed, sets>>

Done == pc = "done" /\ UNCHANGED vars

Next == Start \/ Absorb \/ NextMethod \/ EndRound \/ Done

Spec == Init /\ [][Next]_vars

-----------------------------------------------------------------------------
\* The type invariant.
TypeOK ==
  /\ mode \in {"direct", "transitive"}
  /\ fieldCount \in 0 .. MaxFields
  /\ calls \in CallGraphs
  /\ fieldsUsed \in [Method -> SUBSET Field]
  /\ sets \in [Method -> SUBSET Field]
  /\ pc \in {"start", "round", "done"}
  /\ index \in 0 .. MethodCount
  /\ sib \in 1 .. (IF index < MethodCount THEN Len(calls[index]) + 1 ELSE 1)
  /\ changed \in BOOLEAN

\* A usage that holds what is extracted, and with each method what its siblings
\* use.
Covers(u)  == \A m \in Method : fieldsUsed[m] \subseteq u[m]
IsClosed(u) ==
  \A m \in Method : \A k \in DOMAIN calls[m] : u[calls[m][k]] \subseteq u[m]

Usages == [Method -> SUBSET Field]

\* The documented result ("until a fixpoint") is the least one: the sets cover
\* the extracted usage, are closed under sibling calls, and no field is in them
\* that some closed usage does without - recursion among the methods included.
IsLeastUsage(u) ==
  /\ Covers(u) /\ IsClosed(u)
  /\ \A v \in Usages : Covers(v) /\ IsClosed(v) => \A m \in Method : u[m] \subseteq v[m]

\* The result in each mode: the extracted usage as-is, or the least closed one.
ResultIsLeastUsage ==
  pc = "done" => IF mode = "transitive" THEN IsLeastUsage(sets) ELSE sets = fieldsUsed

\* Propagation works on copies: the facts stay as they were extracted, for the
\* next computation that reads them.
FactsUntouched == [][fieldsUsed' = fieldsUsed]_vars
=============================================================================
