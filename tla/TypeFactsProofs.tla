-------------------------- MODULE TypeFactsProofs --------------------------
(***************************************************************************)
(* Proofs about the facts of a type, for every program, in the four parts  *)
(* that make and use them: the fields used, propagated through sibling     *)
(* calls (FieldUsage), the types referred to (TypeRefs), what is read off  *)
(* the members (TypeMembers, in TypeExtract), and the index that all of it *)
(* is weighed into (Reusability, in TypeIndex).                            *)
(***************************************************************************)
EXTENDS TypeExtract, TypeIndex, SharedLemmas, FiniteSetTheorems

-----------------------------------------------------------------------------
(***************************************************************************)
(* FieldUsage, for every number of methods and fields and every call       *)
(* graph: what propagation leaves behind is the least usage that is closed *)
(* under sibling calls, and the facts are never written.                   *)
(***************************************************************************)
(***************************************************************************)
(* The strengthening.  Throughout, the sets lie between the extracted      *)
(* usage and every closed usage that covers it; and as long as a round has *)
(* changed nothing, what it has visited is closed.                         *)
(***************************************************************************)
LowerBound == pc # "start" => Covers(sets)

UpperBound ==
  pc # "start" =>
    \A v \in Usages : Covers(v) /\ IsClosed(v) => \A m \in Method : sets[m] \subseteq v[m]

Visited(m, k) == m < index \/ (m = index /\ k < sib)

QuietRoundIsClosed ==
  pc = "round" /\ ~changed =>
    \A m \in Method : \A k \in DOMAIN calls[m] :
      Visited(m, k) => sets[calls[m][k]] \subseteq sets[m]

\* The inductive invariant.
UsageInv ==
  /\ TypeOK
  /\ pc = "start" => index = 0 /\ sib = 1
  /\ pc = "round" => mode = "transitive"
  /\ LowerBound
  /\ UpperBound
  /\ QuietRoundIsClosed
  /\ ResultIsLeastUsage

-----------------------------------------------------------------------------
\* Siblings are methods of the type.
LEMMA CallsType ==
  ASSUME calls \in CallGraphs
  PROVE  /\ calls \in [Method -> Seq(Method)]
         /\ \A m \in Method : /\ Len(calls[m]) \in Nat
                              /\ DOMAIN calls[m] = 1 .. Len(calls[m])
                              /\ \A k \in DOMAIN calls[m] : calls[m][k] \in Method
<1>1. calls \in [Method -> Seq(Method)]
  BY UsageAssumption
<1>2. ASSUME NEW m \in Method
      PROVE  /\ Len(calls[m]) \in Nat
             /\ DOMAIN calls[m] = 1 .. Len(calls[m])
             /\ \A k \in DOMAIN calls[m] : calls[m][k] \in Method
  <2>1. calls[m] \in Seq(Method)
    BY <1>1
  <2> QED
    BY <2>1
<1> QED
  BY <1>1, <1>2

\* Comparing the counts before and after a union tells whether it added
\* anything.
LEMMA EqualCountsEqualSets ==
  ASSUME fieldCount \in Nat, NEW s \in SUBSET Field, NEW t \in SUBSET Field,
         ~Differs(s, s \cup t)
  PROVE  t \subseteq s
<1>1. IsFiniteSet(Field)
  BY FS_Interval DEF Field
<1>2. s \cup t \in SUBSET Field
  OBVIOUS
<1>3. IsFiniteSet(s \cup t)
  BY <1>1, <1>2, FS_Subset
<1>4. s \in SUBSET (s \cup t)
  OBVIOUS
<1>5. Cardinality(s) = Cardinality(s \cup t)
  BY DEF Differs
<1>6. s \cup t = s
  BY <1>3, <1>4, <1>5, FS_Subset
<1> QED
  BY <1>6

LEMMA InitInv == Init => UsageInv
<1> SUFFICES ASSUME Init PROVE UsageInv
  OBVIOUS
<1>1. TypeOK
  <2>1. MethodCount \in Nat /\ MaxFields \in Nat
    BY UsageAssumption
  <2>2. \A m \in Method : Len(calls[m]) \in Nat
    BY CallsType DEF Init
  <2>3. 0 < MethodCount => 0 \in Method
    BY <2>1 DEF Method
  <2>4. sib \in 1 .. (IF index < MethodCount THEN Len(calls[index]) + 1 ELSE 1)
    BY <2>1, <2>2, <2>3 DEF Init
  <2>5. index \in 0 .. MethodCount /\ sets \in [Method -> SUBSET Field]
    BY <2>1 DEF Init
  <2> QED
    BY <2>4, <2>5 DEF Init, TypeOK
<1>2. pc = "start" /\ index = 0 /\ sib = 1
  BY DEF Init
<1> QED
  BY <1>1, <1>2 DEF UsageInv, LowerBound, UpperBound, QuietRoundIsClosed, ResultIsLeastUsage

-----------------------------------------------------------------------------
\* Copying the extracted sets establishes both bounds, and is the result when
\* nothing is to be propagated.
LEMMA StartPreserves == UsageInv /\ Start => UsageInv'
<1> SUFFICES ASSUME UsageInv, Start PROVE UsageInv'
  OBVIOUS
<1>1. TypeOK'
  BY DEF UsageInv, TypeOK, Start, Field
<1>2. Covers(sets)'
  BY DEF Start, Covers
<1>3. LowerBound' /\ UpperBound'
  BY <1>2 DEF Start, LowerBound, UpperBound, Covers
<1>4. QuietRoundIsClosed'
  <2>1. index' = 0 /\ sib' = 1 /\ calls' = calls
    BY DEF UsageInv, Start
  <2>2. calls' \in CallGraphs
    BY <1>1 DEF TypeOK
  <2>3. \A m \in Method : \A k \in DOMAIN calls'[m] : ~Visited(m, k)'
    <3>1. \A m \in Method : \A k \in DOMAIN calls[m] : m \in Nat /\ k \in Nat \ {0}
      BY <2>1, <2>2, CallsType, UsageAssumption DEF Method
    <3> QED
      BY <2>1, <3>1 DEF Visited
  <2> QED
    BY <2>3 DEF QuietRoundIsClosed
<1>5. ResultIsLeastUsage'
  <2> SUFFICES ASSUME pc' = "done", mode' = "transitive"
               PROVE  IsLeastUsage(sets)'
    BY DEF Start, ResultIsLeastUsage
  <2>1. fieldCount' = 0
    BY DEF Start
  <2>2. Field' = {}
    BY <2>1 DEF Field
  <2>3. \A m \in Method : sets'[m] = {}
    BY <1>1, <2>2 DEF TypeOK
  <2>4. IsClosed(sets)'
    BY <1>1, <2>3, CallsType DEF IsClosed, TypeOK, Start
  <2> QED
    BY <1>2, <2>3, <2>4 DEF IsLeastUsage
<1> QED
  BY <1>1, <1>3, <1>4, <1>5 DEF UsageInv, Start

\* A union keeps the sets below every closed usage, and a union that changes
\* nothing extends the closed part of the round by the sibling it visited.
LEMMA AbsorbPreserves == UsageInv /\ Absorb => UsageInv'
<1> SUFFICES ASSUME UsageInv, Absorb PROVE UsageInv'
  OBVIOUS
<1> DEFINE j == calls[index][sib]
<1>1. /\ index \in Method
      /\ sib \in DOMAIN calls[index]
      /\ j \in Method
      /\ Len(calls[index]) \in Nat
      /\ sib \in Nat
      /\ calls \in CallGraphs
      /\ index \in Nat
  <2>1. calls \in CallGraphs /\ index \in Nat /\ sib \in Nat /\ sib >= 1
    BY UsageAssumption, CallsType DEF UsageInv, TypeOK, Absorb, Method
  <2>2. index \in Method
    BY <2>1, UsageAssumption DEF Absorb, Method
  <2>3. sib \in 1 .. Len(calls[index])
    BY <2>1, <2>2, CallsType DEF Absorb
  <2> QED
    BY <2>1, <2>2, <2>3, CallsType
<1>2. sets' = [sets EXCEPT ![index] = @ \cup sets[j]]
  BY DEF Absorb, Absorbed
<1>3. /\ sets \in [Method -> SUBSET Field]
      /\ sets'[index] = sets[index] \cup sets[j]
      /\ \A m \in Method : sets[m] \subseteq sets'[m]
      /\ \A m \in Method : m # index => sets'[m] = sets[m]
  BY <1>1, <1>2 DEF UsageInv, TypeOK
<1>4. UNCHANGED <<mode, fieldCount, calls, fieldsUsed, pc, index>> /\ sib' = sib + 1
  BY DEF Absorb, FactsAfter
<1>5. Field' = Field /\ Usages' = Usages
  BY <1>4 DEF Field, Usages
<1>6. TypeOK'
  <2>1. sets' \in [Method -> SUBSET Field]
    BY <1>1, <1>2, <1>3
  <2>2. changed' \in BOOLEAN
    BY DEF UsageInv, TypeOK, Absorb, Differs
  <2>3. sib' \in 1 .. (IF index < MethodCount THEN Len(calls[index]) + 1 ELSE 1)
    BY <1>1, <1>4 DEF Absorb
  <2> QED
    BY <1>4, <1>5, <2>1, <2>2, <2>3 DEF UsageInv, TypeOK
<1>7. pc = "round" /\ pc' = "round"
  BY <1>4 DEF Absorb
<1>8. LowerBound'
  BY <1>3, <1>4, <1>7 DEF UsageInv, LowerBound, Covers
<1>9. UpperBound'
  <2> SUFFICES ASSUME NEW v \in Usages, Covers(v), IsClosed(v), NEW m \in Method
               PROVE  sets'[m] \subseteq v[m]
    BY <1>4, <1>5 DEF UpperBound, Covers, IsClosed
  <2>1. \A n \in Method : sets[n] \subseteq v[n]
    BY <1>7 DEF UsageInv, UpperBound
  <2>2. v[j] \subseteq v[index]
    BY <1>1 DEF IsClosed
  <2> QED
    BY <1>1, <1>3, <2>1, <2>2
<1>10. QuietRoundIsClosed'
  <2> SUFFICES ASSUME ~changed', NEW m \in Method, NEW k \in DOMAIN calls[m], Visited(m, k)'
               PROVE  sets'[calls[m][k]] \subseteq sets'[m]
    BY <1>4 DEF QuietRoundIsClosed
  <2>1. ~changed /\ ~Differs(sets[index], sets'[index])
    BY DEF Absorb
  <2>2. sets[j] \subseteq sets[index]
    <3>1. sets[index] \in SUBSET Field /\ sets[j] \in SUBSET Field
      BY <1>1, <1>3
    <3>2. fieldCount \in Nat
      BY UsageAssumption DEF UsageInv, TypeOK
    <3>3. ~Differs(sets[index], sets[index] \cup sets[j])
      BY <1>3, <2>1
    <3> QED
      BY <3>1, <3>2, <3>3, EqualCountsEqualSets
  <2>3. sets' = sets
    BY <1>1, <1>2, <1>3, <2>2
  <2>4. CASE m = index /\ k = sib
    BY <2>2, <2>3, <2>4
  <2>5. CASE ~(m = index /\ k = sib)
    <3>1. k \in Nat /\ m \in Nat
      <4>1. calls \in CallGraphs
        BY DEF UsageInv, TypeOK
      <4>2. Len(calls[m]) \in Nat /\ DOMAIN calls[m] = 1 .. Len(calls[m])
        BY <4>1, CallsType
      <4>3. MethodCount \in Nat
        BY UsageAssumption
      <4> QED BY <4>2, <4>3 DEF Method
    <3>2. Visited(m, k)
      BY <1>1, <1>4, <2>5, <3>1 DEF Visited
    <3> QED
      BY <1>7, <2>1, <2>3, <3>2 DEF UsageInv, QuietRoundIsClosed
  <2> QED
    BY <2>4, <2>5
<1> QED
  BY <1>4, <1>6, <1>7, <1>8, <1>9, <1>10 DEF UsageInv, ResultIsLeastUsage

\* Going on to the next method visits nothing new.
LEMMA NextMethodPreserves == UsageInv /\ NextMethod => UsageInv'
<1> SUFFICES ASSUME UsageInv, NextMethod PROVE UsageInv'
  OBVIOUS
<1>1. /\ index \in Nat /\ index < MethodCount /\ MethodCount \in Nat
      /\ index \in Method
      /\ sib \in Nat
      /\ calls \in CallGraphs
  BY UsageAssumption, CallsType DEF UsageInv, TypeOK, NextMethod, Method
<1>2. /\ UNCHANGED <<mode, fieldCount, calls, fieldsUsed, sets, pc, changed>>
      /\ index' = index + 1
      /\ sib' = 1
      /\ pc = "round"
      /\ sib > Len(calls[index])
  BY DEF NextMethod, FirstSibling
<1>3. Field' = Field /\ Usages' = Usages
  BY <1>2 DEF Field, Usages
<1>4. TypeOK'
  <2>1. index' \in 0 .. MethodCount
    BY <1>1, <1>2
  <2>2. index' < MethodCount => Len(calls[index']) \in Nat
    BY <1>1, <1>2, CallsType DEF Method
  <2>3. sib' \in 1 .. (IF index' < MethodCount THEN Len(calls[index']) + 1 ELSE 1)
    BY <1>2, <2>2
  <2> QED
    BY <1>2, <1>3, <2>1, <2>3 DEF UsageInv, TypeOK
<1>5. QuietRoundIsClosed'
  <2> SUFFICES ASSUME ~changed, NEW m \in Method, NEW k \in DOMAIN calls[m], Visited(m, k)'
               PROVE  sets[calls[m][k]] \subseteq sets[m]
    BY <1>2 DEF QuietRoundIsClosed
  <2>1. m \in Nat /\ k \in 1 .. Len(calls[m]) /\ Len(calls[m]) \in Nat
    BY <1>1, CallsType, UsageAssumption DEF Method
  <2>2. Visited(m, k)
    BY <1>1, <1>2, <2>1 DEF Visited
  <2> QED
    BY <1>2, <2>2 DEF UsageInv, QuietRoundIsClosed
<1> QED
  BY <1>2, <1>3, <1>4, <1>5
     DEF UsageInv, LowerBound, UpperBound, Covers, IsClosed, ResultIsLeastUsage

\* A whole quiet round means that the sets are closed, so they are the least
\* closed usage; after any other round the next one starts from scratch.
LEMMA EndRoundPreserves == UsageInv /\ EndRound => UsageInv'
<1> SUFFICES ASSUME UsageInv, EndRound PROVE UsageInv'
  OBVIOUS
<1>1. /\ UNCHANGED <<mode, fieldCount, calls, fieldsUsed, sets>>
      /\ index' = 0 /\ sib' = 1 /\ changed' = FALSE
      /\ pc = "round" /\ index = MethodCount
      /\ pc' = IF changed THEN "round" ELSE "done"
  BY DEF EndRound
<1>2. Field' = Field /\ Usages' = Usages
  BY <1>1 DEF Field, Usages
<1>3. calls \in CallGraphs /\ MethodCount \in Nat
  BY UsageAssumption DEF UsageInv, TypeOK
<1>4. \A m \in Method : \A k \in DOMAIN calls[m] :
        m \in Nat /\ m < MethodCount /\ k \in Nat \ {0}
  BY <1>3, CallsType DEF Method
<1>5. TypeOK'
  <2>1. 0 < MethodCount => Len(calls[0]) \in Nat
    BY <1>3, CallsType DEF Method
  <2>2. sib' \in 1 .. (IF index' < MethodCount THEN Len(calls'[index']) + 1 ELSE 1)
    BY <1>1, <2>1
  <2>3. index' \in 0 .. MethodCount
    BY <1>1, <1>3
  <2>4. pc' \in {"start", "round", "done"} /\ changed' \in BOOLEAN
    BY <1>1
  <2> QED
    BY <1>1, <1>2, <2>2, <2>3, <2>4 DEF UsageInv, TypeOK
<1>6. QuietRoundIsClosed'
  BY <1>1, <1>4 DEF QuietRoundIsClosed, Visited
<1>7. LowerBound' /\ UpperBound'
  BY <1>1, <1>2 DEF UsageInv, LowerBound, UpperBound, Covers, IsClosed
<1>8. ResultIsLeastUsage'
  <2> SUFFICES ASSUME ~changed PROVE IsLeastUsage(sets)
    BY <1>1, <1>2 DEF ResultIsLeastUsage, IsLeastUsage, Covers, IsClosed, UsageInv
  <2>1. IsClosed(sets)
    BY <1>1, <1>4 DEF UsageInv, QuietRoundIsClosed, Visited, IsClosed
  <2> QED
    BY <1>1, <2>1 DEF UsageInv, LowerBound, UpperBound, IsLeastUsage
<1> QED
  BY <1>1, <1>5, <1>6, <1>7, <1>8 DEF UsageInv

LEMMA StutterPreserves == UsageInv /\ UNCHANGED vars => UsageInv'
BY DEF UsageInv, vars, TypeOK, Field, Usages, LowerBound, UpperBound, QuietRoundIsClosed, Visited,
       ResultIsLeastUsage, IsLeastUsage, Covers, IsClosed

LEMMA NextInv == UsageInv /\ [Next]_vars => UsageInv'
BY StartPreserves, AbsorbPreserves, NextMethodPreserves, EndRoundPreserves, StutterPreserves
   DEF Next, Done

THEOREM UsageInvariance == Spec => []UsageInv
BY InitInv, NextInv, PTL DEF Spec

-----------------------------------------------------------------------------
\* Every variable keeps its type: in particular the loops of absorbSiblings and
\* propagateRound never index past the siblings or the methods.
THEOREM UsageTypeCorrect == Spec => []TypeOK
<1>1. UsageInv => TypeOK
  BY DEF UsageInv
<1> QED
  BY UsageInvariance, <1>1, PTL

\* EffectiveFieldSets returns the extracted sets in direct mode, and the least
\* usage closed under sibling calls in transitive mode, whatever the call graph.
THEOREM PropagationIsExact == Spec => []ResultIsLeastUsage
<1>1. UsageInv => ResultIsLeastUsage
  BY DEF UsageInv
<1> QED
  BY UsageInvariance, <1>1, PTL

\* No step of the propagation writes to the extracted facts.
THEOREM FactsAreReadOnly == Spec => FactsUntouched
<1>1. [Next]_vars => [fieldsUsed' = fieldsUsed]_vars
  BY DEF Next, Start, Absorb, FactsAfter, NextMethod, EndRound, Done, vars
<1> QED
  BY <1>1, PTL DEF Spec, FactsUntouched
-----------------------------------------------------------------------------
(***************************************************************************)
(* TypeRefs: the references collected are the named types the notation     *)
(* mentions.  What has been visited and what is still on the stack         *)
(* together are closed under "mentions"; once the stack is empty that is a *)
(* closed set, so it holds all that is mentioned, and it never held        *)
(* anything else.                                                          *)
(***************************************************************************)
\* The types a call of addType has been made for or is going to be.
Pending == visited \cup Members(stack)

\* Every declared type handed over has been taken in.
RootsAreTaken == \A k \in DOMAIN roots : k < next => roots[k] \in Pending

\* What a visited type mentions has been, or is going to be, visited.
VisitedAreExpanded == \A t \in visited : Mentions(t) \subseteq Pending

\* Nothing else is ever taken in.
OnlyMentionedTypes == \A t \in Pending : IsMentioned(t)

\* The names recorded are those of the types visited.
SeenIsOfVisited == \A n : n \in seen <=> \E t \in visited : n \in Recorded(t)

CollectorInv == CollectorTypeOK /\ RootsAreTaken /\ VisitedAreExpanded /\ OnlyMentionedTypes /\ SeenIsOfVisited

-----------------------------------------------------------------------------
\* The members of a concatenation are those of its parts.
LEMMA MembersOfConcat ==
  ASSUME NEW s \in Seq(Type), NEW t \in Seq(Type)
  PROVE  s \o t \in Seq(Type) /\ Members(s \o t) = Members(s) \cup Members(t)
<1>1. s \o t \in Seq(Type) /\ Len(s \o t) = Len(s) + Len(t)
  OBVIOUS
<1>2. Members(s \o t) \subseteq Members(s) \cup Members(t)
  BY DEF Members
<1>3. Members(s) \subseteq Members(s \o t)
  BY DEF Members
<1>4. ASSUME NEW k \in DOMAIN t PROVE t[k] \in Members(s \o t)
  <2>1. Len(s) + k \in DOMAIN (s \o t) /\ (s \o t)[Len(s) + k] = t[k]
    OBVIOUS
  <2> QED BY <2>1 DEF Members
<1> QED
  BY <1>1, <1>2, <1>3, <1>4 DEF Members

\* The members of a sequence that is not empty are its head and its tail's.
LEMMA MembersOfTail ==
  ASSUME NEW s \in Seq(Type), s # <<>>
  PROVE  /\ Head(s) \in Type /\ Tail(s) \in Seq(Type)
         /\ Members(s) = {Head(s)} \cup Members(Tail(s))
<1>1. Head(s) \in Type /\ Head(s) = s[1] /\ 1 \in DOMAIN s
  OBVIOUS
<1>2. Tail(s) \in Seq(Type) /\ Len(Tail(s)) = Len(s) - 1
  OBVIOUS
<1>3. Members(Tail(s)) \subseteq Members(s)
  BY <1>2 DEF Members
<1>4. ASSUME NEW k \in DOMAIN s, k # 1 PROVE s[k] \in Members(Tail(s))
  <2>1. k - 1 \in DOMAIN Tail(s) /\ Tail(s)[k - 1] = s[k]
    BY <1>2, <1>4
  <2> QED BY <2>1 DEF Members
<1> QED
  BY <1>1, <1>2, <1>3, <1>4 DEF Members

\* addType goes on to what the notation mentions: Followed lists Mentions.
LEMMA FollowedIsMentions ==
  ASSUME NEW t \in Type
  PROVE  Followed(t) \in Seq(Type) /\ Members(Followed(t)) = Mentions(t)
<1>1. Shape[t] \in ShapeType
  BY TypeRefsAssumption
<1>2. CASE Shape[t].kind = "named"
  BY <1>1, <1>2 DEF Followed, Mentions, ShapeType
<1>3. CASE Shape[t].kind = "other"
  <2>1. Followed(t) = <<>> /\ Mentions(t) = {}
    BY <1>3 DEF Followed, Mentions
  <2> QED BY <2>1 DEF Members
<1>4. CASE Shape[t].kind \notin {"named", "other"}
  <2>1. Followed(t) = Shape[t].parts /\ Mentions(t) = Members(Shape[t].parts)
    BY <1>4 DEF Followed, Mentions
  <2> QED BY <1>1, <2>1 DEF ShapeType
<1> QED
  BY <1>2, <1>3, <1>4

\* What a mentioned type mentions is mentioned.
LEMMA MentionedIsClosed ==
  ASSUME NEW t \in Type, IsMentioned(t), NEW u \in Mentions(t)
  PROVE  IsMentioned(u)
  BY DEF IsMentioned, ContainsItsMentions

-----------------------------------------------------------------------------
LEMMA NewCollectorInv == NewCollector => CollectorInv
<1> SUFFICES ASSUME NewCollector PROVE CollectorInv
  OBVIOUS
<1>1. stack = <<>> /\ visited = {} /\ seen = {} /\ next = 1 /\ Members(stack) = {}
  BY DEF NewCollector, Members
<1>2. roots \in Seq(Type)
  BY TypeRefsAssumption DEF NewCollector
<1>3. CollectorTypeOK
  BY <1>1 DEF NewCollector, CollectorTypeOK
<1>4. RootsAreTaken
  BY <1>1, <1>2 DEF RootsAreTaken
<1> QED
  BY <1>1, <1>3, <1>4
     DEF CollectorInv, VisitedAreExpanded, OnlyMentionedTypes, SeenIsOfVisited, Pending

LEMMA AddRootInv == CollectorInv /\ AddRoot => CollectorInv'
<1> SUFFICES ASSUME CollectorInv, AddRoot PROVE CollectorInv'
  OBVIOUS
<1> USE DEF CollectorInv
<1>1. roots \in Seq(Type) /\ next \in DOMAIN roots /\ roots[next] \in Type
  BY TypeRefsAssumption DEF CollectorTypeOK, AddRoot
<1>2. Members(stack) = {} /\ Members(stack') = {roots[next]}
  BY DEF AddRoot, Members
<1>3. Pending' = Pending \cup {roots[next]} /\ UNCHANGED <<roots, visited, seen>>
  BY <1>2 DEF Pending, AddRoot
<1>4. CollectorTypeOK'
  BY <1>1 DEF CollectorTypeOK, AddRoot
<1>5. RootsAreTaken'
  <2>1. next' = next + 1 /\ next \in Nat
    BY DEF AddRoot, CollectorTypeOK
  <2> SUFFICES ASSUME NEW k \in DOMAIN roots, k < next + 1 PROVE roots[k] \in Pending'
    BY <1>3, <2>1 DEF RootsAreTaken
  <2>2. k < next \/ k = next
    BY <1>1, <2>1
  <2> QED BY <1>3, <2>2 DEF RootsAreTaken
<1>6. VisitedAreExpanded'
  BY <1>3 DEF VisitedAreExpanded, Mentions, Members
<1>7. IsMentioned(roots[next])
  BY <1>1 DEF IsMentioned, Members
<1>8. OnlyMentionedTypes'
  BY <1>3, <1>7 DEF OnlyMentionedTypes, IsMentioned
<1>9. SeenIsOfVisited'
  BY <1>3 DEF SeenIsOfVisited, Recorded
<1> QED
  BY <1>4, <1>5, <1>6, <1>8, <1>9

LEMMA SkipVisitedInv == CollectorInv /\ SkipVisited => CollectorInv'
<1> SUFFICES ASSUME CollectorInv, SkipVisited PROVE CollectorInv'
  OBVIOUS
<1> USE DEF CollectorInv
<1>1. stack \in Seq(Type) /\ stack # <<>> /\ Head(stack) \in visited
  BY DEF CollectorTypeOK, SkipVisited
<1>2. stack' \in Seq(Type) /\ Members(stack) = {Head(stack)} \cup Members(stack')
  BY <1>1, MembersOfTail DEF SkipVisited
<1>3. Pending' = Pending /\ UNCHANGED <<roots, next, visited, seen>>
  BY <1>1, <1>2 DEF Pending, SkipVisited
<1>4. CollectorTypeOK'
  BY <1>2, <1>3 DEF CollectorTypeOK
<1>5. RootsAreTaken' /\ VisitedAreExpanded'
  BY <1>3 DEF RootsAreTaken, VisitedAreExpanded, Mentions, Members
<1>6. OnlyMentionedTypes'
  BY <1>3 DEF OnlyMentionedTypes, IsMentioned
<1>7. SeenIsOfVisited'
  BY <1>3 DEF SeenIsOfVisited, Recorded
<1> QED
  BY <1>4, <1>5, <1>6, <1>7

LEMMA AddTypeInv == CollectorInv /\ AddType => CollectorInv'
<1> SUFFICES ASSUME CollectorInv, AddType PROVE CollectorInv'
  OBVIOUS
<1> USE DEF CollectorInv
<1> DEFINE t == Head(stack)
<1>1. stack \in Seq(Type) /\ stack # <<>>
  BY DEF CollectorTypeOK, AddType
<1>2. /\ t \in Type /\ Tail(stack) \in Seq(Type)
      /\ Members(stack) = {t} \cup Members(Tail(stack))
  BY <1>1, MembersOfTail
<1>3. Followed(t) \in Seq(Type) /\ Members(Followed(t)) = Mentions(t)
  BY <1>2, FollowedIsMentions
<1>4. stack' \in Seq(Type) /\ Members(stack') = Mentions(t) \cup Members(Tail(stack))
  BY <1>2, <1>3, MembersOfConcat DEF AddType
<1>5. /\ visited' = visited \cup {t} /\ seen' = seen \cup Recorded(t)
      /\ UNCHANGED <<roots, next>>
  BY DEF AddType
<1>6. Pending' = Pending \cup Mentions(t) /\ t \in Pending
  BY <1>2, <1>4, <1>5 DEF Pending
<1> HIDE DEF t
<1>7. CollectorTypeOK'
  <2>1. Recorded(t) \subseteq Analyzed \ {Self}
    BY DEF Recorded
  <2> QED BY <1>2, <1>4, <1>5, <2>1 DEF CollectorTypeOK
<1>8. RootsAreTaken'
  BY <1>5, <1>6 DEF RootsAreTaken
<1>9. VisitedAreExpanded'
  <2> SUFFICES ASSUME NEW u \in visited \cup {t} PROVE Mentions(u) \subseteq Pending'
    BY <1>5 DEF VisitedAreExpanded, Mentions, Members
  <2> QED BY <1>6 DEF VisitedAreExpanded
<1>10. OnlyMentionedTypes'
  <2>1. ASSUME NEW u \in Pending' PROVE IsMentioned(u)
    <3>1. IsMentioned(t)
      BY <1>6 DEF OnlyMentionedTypes
    <3>2. u \in Pending \/ u \in Mentions(t)
      BY <1>6
    <3> QED BY <1>2, <3>1, <3>2, MentionedIsClosed DEF OnlyMentionedTypes
  <2> QED BY <1>5, <2>1 DEF OnlyMentionedTypes, IsMentioned
<1>11. SeenIsOfVisited'
  <2>1. ASSUME NEW n PROVE n \in seen' <=> \E u \in visited' : n \in Recorded(u)
    BY <1>5 DEF SeenIsOfVisited
  <2> QED BY <2>1 DEF SeenIsOfVisited, Recorded
<1> QED
  BY <1>7, <1>8, <1>9, <1>10, <1>11

\* The invariant of the collector, for every program.
THEOREM CollectorInvariance == CollectorSpec => []CollectorInv
<1>1. CollectorInv /\ [CollectorNext]_collector => CollectorInv'
  <2>1. CollectorInv /\ UNCHANGED collector => CollectorInv'
    BY DEF CollectorInv, CollectorTypeOK, RootsAreTaken, VisitedAreExpanded, OnlyMentionedTypes, SeenIsOfVisited,
           Pending, IsMentioned, Mentions, Members, Recorded, ContainsItsMentions, collector
  <2> QED
    BY <2>1, AddRootInv, SkipVisitedInv, AddTypeInv DEF CollectorNext
<1> QED
  BY <1>1, NewCollectorInv, PTL DEF CollectorSpec

\* The types on the stack are the program's, and what is recorded is analysed and
\* not the type itself, for every program.
THEOREM CollectorTypeCorrect == CollectorSpec => []CollectorTypeOK
<1>1. CollectorInv => CollectorTypeOK
  BY DEF CollectorInv
<1> QED
  BY <1>1, CollectorInvariance, PTL

\* When it is done the visited types are those mentioned.
LEMMA VisitedIsMentioned ==
  ASSUME CollectorInv, CollectorDone, NEW t \in Type
  PROVE  t \in visited <=> IsMentioned(t)
<1> USE DEF CollectorInv
<1>1. Pending = visited /\ visited \in SUBSET Type
  BY DEF CollectorDone, Pending, Members, CollectorTypeOK
<1>2. Members(roots) \subseteq visited
  <2>1. roots \in Seq(Type) /\ next \in Nat \ {0}
    BY TypeRefsAssumption DEF CollectorTypeOK
  <2>2. ASSUME NEW k \in DOMAIN roots PROVE k < next
    BY <2>1 DEF CollectorDone
  <2> QED BY <1>1, <2>2 DEF RootsAreTaken, Members
<1>3. ContainsItsMentions(visited)
  BY <1>1 DEF ContainsItsMentions, VisitedAreExpanded
<1>4. IsMentioned(t) => t \in visited
  BY <1>1, <1>2, <1>3 DEF IsMentioned
<1> QED
  BY <1>1, <1>4 DEF OnlyMentionedTypes

\* The references a type ends up with are exactly the analysed types its fields
\* and signatures name, for every program.
THEOREM ReferencesExact == CollectorSpec => []ReferencesAreExact
<1>1. CollectorInv => ReferencesAreExact
  <2> SUFFICES ASSUME CollectorInv, CollectorDone PROVE
        seen = {Shape[t].name : t \in {u \in Type : Shape[u].kind = "named" /\ IsMentioned(u)}}
                 \cap (Analyzed \ {Self})
    BY DEF ReferencesAreExact
  <2>1. visited \subseteq Type
    BY DEF CollectorInv, CollectorTypeOK
  <2>2. \A t \in Type : t \in visited <=> IsMentioned(t)
    BY VisitedIsMentioned
  <2>3. \A n : n \in seen <=> \E t \in visited : n \in Recorded(t)
    BY DEF CollectorInv, SeenIsOfVisited
  <2>4. \A n : n \in seen <=>
          \E t \in Type : /\ Shape[t].kind = "named" /\ IsMentioned(t)
                          /\ n = Shape[t].name /\ n \in Analyzed \ {Self}
    BY <2>1, <2>2, <2>3 DEF Recorded
  <2> QED BY <2>4
<1> QED
  BY <1>1, CollectorInvariance, PTL

\* Describing the members leaves the collector alone and collecting is nothing but
\* the collector's steps: extractType uses one collector, as TypeRefs has it.
THEOREM ExtractCollects == ExtractSpec => CollectorSpec
<1>1. ExtractInit => NewCollector
  BY DEF ExtractInit
<1>2. [ExtractNext]_<<described, collector>> => [CollectorNext]_collector
  BY DEF ExtractNext, Collect, Describe, Extracted, CollectorNext
<1> QED
  BY <1>1, <1>2, PTL DEF ExtractSpec, CollectorSpec

\* So the references extracted with a type are exactly those its notation names.
THEOREM ExtractedReferencesExact == ExtractSpec => []ReferencesAreExact
BY ExtractCollects, ReferencesExact

-----------------------------------------------------------------------------
(***************************************************************************)
(* The members (TypeMembers), for every type: what is read back by name    *)
(* from the numbered facts is what the bodies say, and a field has the     *)
(* documentation of its own declaration.                                   *)
(***************************************************************************)
\* ms are the declared methods of d, each with a number of its own.
AreNumbered(ms, d) ==
  /\ ms \in Seq(Range(d.methods))
  /\ \A k \in DOMAIN ms : ms[k].declared
  /\ \A l \in DOMAIN d.methods : d.methods[l].declared => \E k \in DOMAIN ms : ms[k] = d.methods[l]
  /\ \A k, l \in DOMAIN ms : ms[k].name = ms[l].name => k = l

\* rs are the ranges of d from the first to the last, apart from one another.
AreIndexed(rs, d) ==
  /\ rs \in Seq(M!FieldRange)
  /\ Range(rs) = Range(d.ranges)
  /\ \A k \in DOMAIN rs : rs[k].start <= rs[k].end
  /\ \A k, l \in DOMAIN rs : k < l => rs[k].end < rs[l].start

LEMMA CardinalityIsOurs == \A S : M!Cardinality(S) = Cardinality(S)
  BY DEF M!Cardinality, Cardinality, M!IsFiniteSet, IsFiniteSet

LEMMA SortedIsOurs == \A S, key : M!Sorted(S, key) = Sorted(S, key)
  BY CardinalityIsOurs DEF M!Sorted, Sorted, M!Ascending, Ascending

LEMMA NumbersSortedOurs == \A S : M!SortedNumbers(S) = SortedNumbers(S)
  BY SortedIsOurs DEF M!SortedNumbers, SortedNumbers

\* sortedMethods numbers the declared methods.
LEMMA MethodsAreNumbered ==
  ASSUME NEW d, M!IsDeclaration(d)
  PROVE  AreNumbered(M!SortedMethods(d), d)
<1> DEFINE U == Range(d.methods)
           D == {m \in U : m.declared}
           key == [m \in D |-> m.name]
           n == Len(d.methods)
<1>1. n \in Nat /\ d.methods \in [1 .. n -> U] /\ DOMAIN d.methods = 1 .. n
  BY DEF M!IsDeclaration, M!Range, Range
<1>2. IsFiniteSet(U)
  BY <1>1, RangeIsFinite
<1>3. IsFiniteSet(D)
  <2>1. D \in SUBSET U
    OBVIOUS
  <2> QED BY <1>2, <2>1, FS_Subset
<1>4. \A m \in U : \E k \in DOMAIN d.methods : d.methods[k] = m
  BY DEF Range
<1>5. key \in [D -> Int]
  BY <1>4 DEF M!IsDeclaration
<1>6. \A x, y \in D : key[x] = key[y] => x = y
  BY <1>4 DEF M!IsDeclaration
<1>7. M!SortedMethods(d) = Sorted(D, key)
  BY SortedIsOurs DEF M!SortedMethods, M!Range, Range
<1> DEFINE ms == Sorted(D, key)
<1>8. ms \in Seq(D) /\ Range(ms) = D /\ Ascending(ms, key)
  <2> HIDE DEF key, D
  <2> QED BY <1>3, <1>5, <1>6, SortedHasAll
<1>9. \A m \in D : key[m] = m.name /\ m.name \in Int
  BY <1>5
<1> HIDE DEF ms, key
<1>10. ms \in Seq(U) /\ \A k \in DOMAIN ms : ms[k] \in D
  BY <1>8
<1>11. \A l \in DOMAIN d.methods : d.methods[l].declared => \E k \in DOMAIN ms : ms[k] = d.methods[l]
  BY <1>1, <1>8 DEF Range
<1>12. ASSUME NEW k \in DOMAIN ms, NEW l \in DOMAIN ms, ms[k].name = ms[l].name PROVE k = l
  <2>1. key[ms[k]] = key[ms[l]] /\ key[ms[k]] \in Int
    BY <1>9, <1>10, <1>12
  <2>2. k \in Int /\ l \in Int /\ ~ (k < l) /\ ~ (l < k)
    BY <1>8, <2>1 DEF Ascending
  <2> QED BY <2>2
<1> QED
  BY <1>7, <1>10, <1>11, <1>12 DEF ms, AreNumbered

\* indexSyntax orders the ranges.
LEMMA RangesAreIndexed ==
  ASSUME NEW d, M!IsDeclaration(d)
  PROVE  AreIndexed(M!SortedRanges(d.ranges), d)
<1> DEFINE U == Range(d.ranges)
           key == [r \in U |-> r.start]
           n == Len(d.ranges)
<1>1. n \in Nat /\ d.ranges \in [1 .. n -> U] /\ DOMAIN d.ranges = 1 .. n
  BY DEF M!IsDeclaration, Range
<1>2. IsFiniteSet(U)
  BY <1>1, RangeIsFinite
<1>3. \A r \in U : \E k \in DOMAIN d.ranges : d.ranges[k] = r
  BY DEF Range
<1>4. ASSUME NEW r \in U PROVE r \in M!FieldRange /\ r.start \in Int /\ r.end \in Int /\ r.start <= r.end
  <2>1. PICK k \in DOMAIN d.ranges : d.ranges[k] = r
    BY <1>3
  <2>2. r \in M!FieldRange
    BY <2>1 DEF M!IsDeclaration
  <2>3. r.start <= r.end
    BY <2>1 DEF M!IsDeclaration
  <2> QED BY <2>2, <2>3 DEF M!FieldRange
<1>5. \A x, y \in U : x # y => x.end < y.start \/ y.end < x.start
  BY <1>3 DEF M!IsDeclaration
<1>6. key \in [U -> Int]
  BY <1>4
<1>7. \A x, y \in U : key[x] = key[y] => x = y
  BY <1>4, <1>5
<1>8. M!SortedRanges(d.ranges) = Sorted(U, key)
  BY SortedIsOurs DEF M!SortedRanges, M!Range, Range
<1> DEFINE rs == Sorted(U, key)
<1>9. rs \in Seq(U) /\ Range(rs) = U /\ Ascending(rs, key)
  <2> HIDE DEF key, U
  <2> QED BY <1>2, <1>6, <1>7, SortedHasAll
<1>10. \A r \in U : key[r] = r.start
  OBVIOUS
<1> HIDE DEF rs, key, U
<1>11. rs \in Seq(M!FieldRange) /\ \A k \in DOMAIN rs : rs[k] \in U
  BY <1>4, <1>9
<1>12. ASSUME NEW k \in DOMAIN rs, NEW l \in DOMAIN rs, k < l PROVE rs[k].end < rs[l].start
  <2>1. rs[k] \in U /\ rs[l] \in U /\ rs[k].start < rs[l].start
    BY <1>9, <1>10, <1>11, <1>12 DEF Ascending
  <2>2. rs[k] # rs[l]
    BY <1>4, <2>1
  <2>3. rs[k].end < rs[l].start \/ rs[l].end < rs[k].start
    BY <1>5, <2>1, <2>2
  <2> QED BY <1>4, <2>1, <2>3
<1> QED
  BY <1>4, <1>8, <1>9, <1>11, <1>12 DEF rs, U, AreIndexed

-----------------------------------------------------------------------------
Fact == [used : SUBSET Nat, siblings : Seq(Nat), branches : [M!Branches -> Nat]]

\* The nodes of that kind among the first n.
OfKind(body, b, n) == {j \in 1 .. n : body[j].kind = b}

\* f has the fields and the branches of the first n nodes of body.
HasWalked(f, body, n, fields) ==
  /\ f.used = {body[j].target : j \in {i \in 1 .. n : body[i].kind = "field"}} \cap DOMAIN fields
  /\ \A b \in M!Branches : f.branches[b] = Cardinality(OfKind(body, b, n))

\* The other methods that the first n nodes of the body of the method numbered k call.
CalledBy(ms, k, n) ==
  {s \in DOMAIN ms \ {k} :
     \E j \in 1 .. n : ms[k].body[j].kind = "call" /\ ms[k].body[j].target = ms[s].name}

\* The facts of method k are complete.
IsFinished(k) ==
  /\ HasWalked(facts[k], methods[k].body, Len(methods[k].body), decl.fields)
  /\ facts[k].siblings = SortedNumbers(CalledBy(methods, k, Len(methods[k].body)))

\* Those of the last method begun are as far as the walk is.
IsUnderWay(k) ==
  /\ k \in DOMAIN facts
  /\ node \in 1 .. Len(methods[k].body) + 1
  /\ HasWalked(facts[k], methods[k].body, node - 1, decl.fields)
  /\ siblings = CalledBy(methods, k, node - 1)

\* The inductive invariant.
MembersInv ==
  /\ decl \in Declarations
  /\ facts \in Seq(Fact)
  /\ stage \in {"index", "method", "body", "done"}
  /\ IF stage = "index"
     THEN facts = <<>>
     ELSE AreNumbered(methods, decl) /\ AreIndexed(ranges, decl) /\ Len(facts) <= Len(methods)
  /\ stage = "body" => IsUnderWay(Len(facts))
  /\ \A k \in DOMAIN facts : (stage = "body" /\ k = Len(facts)) \/ IsFinished(k)
  /\ stage = "done" => Len(facts) = Len(methods)

\* Nothing is walked before the first node.
LEMMA WalkBegins ==
  ASSUME NEW body, NEW fields
  PROVE  M!NoFacts \in Fact /\ HasWalked(M!NoFacts, body, 0, fields)
<1>1. M!NoFacts \in Fact
  BY DEF M!NoFacts, Fact
<1>2. ASSUME NEW b \in M!Branches PROVE Cardinality(OfKind(body, b, 0)) = 0
  <2>1. OfKind(body, b, 0) = {}
    BY DEF OfKind
  <2> QED BY <2>1, FS_EmptySet
<1>3. M!NoFacts.used = {} /\ \A b \in M!Branches : M!NoFacts.branches[b] = 0
  BY DEF M!NoFacts
<1>4. {body[j].target : j \in {i \in 1 .. 0 : body[i].kind = "field"}} = {}
  OBVIOUS
<1> QED
  BY <1>1, <1>2, <1>3, <1>4 DEF HasWalked

\* One node counts for itself.
LEMMA CountsOneMore ==
  ASSUME NEW n \in Nat, NEW body, NEW b
  PROVE  /\ Cardinality(OfKind(body, b, n)) \in Nat
         /\ Cardinality(OfKind(body, b, n + 1)) =
              Cardinality(OfKind(body, b, n)) + (IF body[n + 1].kind = b THEN 1 ELSE 0)
<1> DEFINE S == OfKind(body, b, n)
           T == OfKind(body, b, n + 1)
           c == Cardinality(S)
<1>1. IsFiniteSet(S)
  <2>1. IsFiniteSet(1 .. n) /\ S \in SUBSET (1 .. n)
    BY FS_Interval DEF OfKind
  <2> QED BY <2>1, FS_Subset
<1>2. c \in Nat
  BY <1>1, FS_CardinalityType
<1>3. CASE body[n + 1].kind = b
  <2>1. n + 1 \notin S /\ T = S \cup {n + 1}
    BY <1>3 DEF OfKind
  <2> HIDE DEF S, T
  <2>2. Cardinality(T) = c + 1
    BY <1>1, <2>1, FS_AddElement
  <2> QED BY <1>2, <1>3, <2>2 DEF S, T
<1>4. CASE body[n + 1].kind # b
  <2>1. T = S
    BY <1>4 DEF OfKind
  <2>2. Cardinality(T) = c
    BY <2>1
  <2> HIDE DEF c
  <2>3. c = c + 0
    BY <1>2
  <2> QED BY <1>2, <1>4, <2>2, <2>3 DEF c
<1> QED
  BY <1>3, <1>4

\* walkBodyVisitor takes the facts one node further.
LEMMA WalkGoesOn ==
  ASSUME NEW body \in Seq(M!Node), NEW n \in Nat, n < Len(body), NEW f \in Fact,
         HasWalked(f, body, n, decl.fields), NEW g,
         g.used = M!Selected(f.used, body[n + 1]),
         g.branches = M!Counted(f.branches, body[n + 1])
  PROVE  /\ g.used \in SUBSET Nat /\ g.branches \in [M!Branches -> Nat]
         /\ HasWalked(g, body, n + 1, decl.fields)
<1> DEFINE x == body[n + 1]
           T(m) == {body[j].target : j \in {i \in 1 .. m : body[i].kind = "field"}}
<1>1. x \in M!Node /\ n + 1 \in 1 .. Len(body)
  OBVIOUS
<1>2. x.target \in Nat
  BY <1>1 DEF M!Node
<1>3. f.used \in SUBSET Nat /\ f.branches \in [M!Branches -> Nat]
  BY DEF Fact
<1>4. g.used = IF x.kind = "field" /\ x.target \in DOMAIN decl.fields THEN f.used \cup {x.target} ELSE f.used
  BY DEF M!Selected
<1>5. T(n + 1) = IF x.kind = "field" THEN T(n) \cup {x.target} ELSE T(n)
  <2>1. \A t : t \in T(n + 1) <=> t \in T(n) \/ (x.kind = "field" /\ t = x.target)
    OBVIOUS
  <2> HIDE DEF T
  <2> QED BY <2>1
<1>6. f.used = T(n) \cap DOMAIN decl.fields
  BY DEF HasWalked
<1>7. g.used = T(n + 1) \cap DOMAIN decl.fields
  <2> HIDE DEF T, x
  <2> QED BY <1>4, <1>5, <1>6
<1>8. g.used \in SUBSET Nat
  BY <1>2, <1>3, <1>4
<1>9. g.branches = IF x.kind \in M!Branches THEN [f.branches EXCEPT ![x.kind] = @ + 1] ELSE f.branches
  BY DEF M!Counted
<1>10. g.branches \in [M!Branches -> Nat]
  <2> HIDE DEF x
  <2> QED BY <1>3, <1>9
<1>11. ASSUME NEW b \in M!Branches
       PROVE  g.branches[b] = Cardinality(OfKind(body, b, n + 1))
  <2>1. g.branches[b] = f.branches[b] + (IF x.kind = b THEN 1 ELSE 0)
    <3> HIDE DEF x
    <3>1. f.branches[b] \in Nat
      BY <1>3
    <3> QED BY <1>3, <1>9, <3>1
  <2>2. f.branches[b] = Cardinality(OfKind(body, b, n))
    BY DEF HasWalked
  <2>3. Cardinality(OfKind(body, b, n + 1))
          = Cardinality(OfKind(body, b, n)) + (IF x.kind = b THEN 1 ELSE 0)
    BY CountsOneMore
  <2> QED BY <2>1, <2>2, <2>3
<1> QED
  BY <1>7, <1>8, <1>10, <1>11 DEF HasWalked

LEMMA CallsNoneYet == ASSUME NEW ms, NEW k PROVE CalledBy(ms, k, 0) = {}
  BY DEF CalledBy

\* recordSiblingCall adds those of that name.
LEMMA CallsGoOn ==
  ASSUME NEW n \in Nat, NEW k, k = Len(facts), siblings = CalledBy(methods, k, n)
  PROVE  CalledBy(methods, k, n + 1) =
           IF methods[k].body[n + 1].kind = "call"
           THEN siblings \cup M!Callees(methods[k].body[n + 1].target) ELSE siblings
<1> DEFINE x == methods[k].body[n + 1]
<1>1. M!Callees(x.target) = {s \in DOMAIN methods \ {k} : methods[s].name = x.target}
  BY DEF M!Callees, M!Numbers
<1>2. ASSUME NEW s
      PROVE  s \in CalledBy(methods, k, n + 1) <=>
               \/ s \in CalledBy(methods, k, n)
               \/ x.kind = "call" /\ s \in M!Callees(x.target)
  <2>1. \A j : j \in 1 .. n + 1 <=> j \in 1 .. n \/ j = n + 1
    OBVIOUS
  <2> QED BY <1>1, <2>1 DEF CalledBy
<1> QED
  BY <1>2

-----------------------------------------------------------------------------
LEMMA MembersInit == M!Init => MembersInv
  BY DEF M!Init, MembersInv, IsUnderWay, IsFinished

\* Facts that stay as they are stay finished.
LEMMA StaysFinished ==
  ASSUME UNCHANGED <<decl, methods>>, NEW k, facts'[k] = facts[k], IsFinished(k)
  PROVE  IsFinished(k)'
  BY DEF IsFinished

LEMMA IndexPreserves ==
  ASSUME MembersInv, M!Index PROVE MembersInv'
<1>1. M!IsDeclaration(decl)
  BY TypeExtractAssumption DEF MembersInv
<1>2. facts = <<>> /\ facts' = facts /\ decl' = decl /\ stage' = "method"
  BY DEF MembersInv, M!Index
<1>3. AreNumbered(methods, decl)'
  BY <1>1, <1>2, MethodsAreNumbered DEF M!Index
<1>4. AreIndexed(ranges, decl)'
  BY <1>1, <1>2, RangesAreIndexed DEF M!Index
<1>5. Len(facts') = 0 /\ DOMAIN facts' = {} /\ Len(methods') >= 0
  <2>1. methods' \in Seq(Range(decl'.methods))
    BY <1>3 DEF AreNumbered
  <2> QED BY <1>2, <2>1
<1>6. Len(facts') <= Len(methods')
  <2>1. methods' \in Seq(Range(decl'.methods))
    BY <1>3 DEF AreNumbered
  <2>2. Len(methods') \in Nat
    BY <2>1
  <2> QED BY <1>5, <2>2
<1> QED
  BY <1>2, <1>3, <1>4, <1>5, <1>6 DEF MembersInv

LEMMA BeginMethodPreserves ==
  ASSUME MembersInv, M!BeginMethod PROVE MembersInv'
<1>0. PICK c : c = Len(facts)
  OBVIOUS
<1> DEFINE L == Len(methods)
<1>1. facts \in Seq(Fact) /\ c \in Nat /\ DOMAIN facts = 1 .. c
  BY <1>0 DEF MembersInv
<1>2. AreNumbered(methods, decl) /\ AreIndexed(ranges, decl)
  BY DEF MembersInv, M!BeginMethod
<1>3. M!NoFacts \in Fact /\ facts' = Append(facts, M!NoFacts) /\ c < L
  BY <1>0, WalkBegins DEF M!BeginMethod
<1>4. L \in Nat /\ DOMAIN methods = 1 .. L
  BY <1>2 DEF AreNumbered
<1>5. /\ facts' \in Seq(Fact) /\ Len(facts') = c + 1 /\ DOMAIN facts' = 1 .. c + 1
      /\ facts'[c + 1] = M!NoFacts /\ \A k \in 1 .. c : facts'[k] = facts[k]
  BY <1>1, <1>3
<1>6. UNCHANGED <<decl, methods, ranges>> /\ stage' = "body" /\ node' = 1 /\ siblings' = {} /\ stage = "method"
  BY DEF M!BeginMethod
<1>7. Len(facts') <= Len(methods')
  BY <1>1, <1>3, <1>4, <1>5, <1>6
<1>8. methods[c + 1].body \in Seq(M!Node)
  <2>1. c + 1 \in 1 .. L
    BY <1>1, <1>3, <1>4
  <2>2. methods[c + 1] \in Range(decl.methods)
    BY <1>2, <1>4, <2>1 DEF AreNumbered
  <2>3. M!IsDeclaration(decl)
    BY TypeExtractAssumption DEF MembersInv
  <2> QED BY <2>2, <2>3 DEF M!IsDeclaration, Range
<1>9. IsUnderWay(c + 1)'
  <2>1. c + 1 \in DOMAIN facts'
    BY <1>1, <1>5
  <2>2. 1 \in 1 .. Len(methods[c + 1].body) + 1
    BY <1>8
  <2>3. HasWalked(M!NoFacts, methods[c + 1].body, 0, decl.fields) /\ CalledBy(methods, c + 1, 0) = {}
    BY WalkBegins, CallsNoneYet
  <2>4. (facts[c + 1])' = M!NoFacts /\ (node - 1)' = 0
    BY <1>5, <1>6
  <2> QED BY <1>5, <1>6, <2>1, <2>2, <2>3, <2>4 DEF IsUnderWay
<1>10. ASSUME NEW k \in DOMAIN facts', k # Len(facts') PROVE IsFinished(k)'
  <2>1. k \in 1 .. c /\ facts'[k] = facts[k]
    BY <1>1, <1>5, <1>10
  <2>2. IsFinished(k)
    BY <1>1, <1>6, <2>1 DEF MembersInv
  <2> QED BY <1>6, <2>1, <2>2, StaysFinished
<1>11. AreNumbered(methods, decl)' /\ AreIndexed(ranges, decl)' /\ (decl \in Declarations)'
  BY <1>2, <1>6 DEF MembersInv
<1> QED
  <2>1. IsUnderWay(Len(facts))'
    <3>1. Len(facts)' = c + 1
      BY <1>5
    <3> QED BY <1>9, <3>1
  <2> QED BY <1>5, <1>6, <1>7, <1>10, <1>11, <2>1 DEF MembersInv

\* The method whose body is walked.
LEMMA LastMethod ==
  ASSUME MembersInv, stage = "body", NEW c, c = Len(facts)
  PROVE  /\ facts \in Seq(Fact) /\ c \in Nat /\ DOMAIN facts = 1 .. c /\ c \in DOMAIN facts
         /\ facts[c] \in Fact
         /\ AreNumbered(methods, decl) /\ AreIndexed(ranges, decl) /\ c <= Len(methods)
         /\ methods[c].body \in Seq(M!Node)
         /\ M!Body = methods[c].body
         /\ IsUnderWay(c)
<1>1. facts \in Seq(Fact) /\ IsUnderWay(c)
  BY DEF MembersInv
<1>2. c \in DOMAIN facts
  BY <1>1 DEF IsUnderWay
<1>3. c \in Nat /\ DOMAIN facts = 1 .. c /\ facts[c] \in Fact
  BY <1>1, <1>2
<1>4. AreNumbered(methods, decl) /\ AreIndexed(ranges, decl) /\ c <= Len(methods)
  BY DEF MembersInv
<1>5. methods[c] \in Range(decl.methods)
  <2>1. methods \in Seq(Range(decl.methods)) /\ Len(methods) \in Nat
    BY <1>4 DEF AreNumbered
  <2>2. c \in 1 .. Len(methods)
    BY <1>2, <1>3, <1>4, <2>1
  <2> QED BY <2>1, <2>2
<1>6. M!IsDeclaration(decl)
  BY TypeExtractAssumption DEF MembersInv
<1>7. methods[c].body \in Seq(M!Node)
  BY <1>5, <1>6 DEF M!IsDeclaration, Range
<1> QED
  BY <1>1, <1>2, <1>3, <1>4, <1>7 DEF M!Body

LEMMA WalkNodePreserves ==
  ASSUME MembersInv, M!WalkNode PROVE MembersInv'
<1>0. PICK c : c = Len(facts)
  OBVIOUS
<1>1. stage = "body" /\ node <= Len(M!Body)
  BY DEF M!WalkNode
<1>2. /\ facts \in Seq(Fact) /\ c \in Nat /\ DOMAIN facts = 1 .. c /\ c \in DOMAIN facts
      /\ facts[c] \in Fact
      /\ AreNumbered(methods, decl) /\ AreIndexed(ranges, decl) /\ c <= Len(methods)
      /\ methods[c].body \in Seq(M!Node)
      /\ M!Body = methods[c].body
  BY <1>0, <1>1, LastMethod
<1>3. IsUnderWay(c)
  BY <1>0, <1>1, LastMethod
<1>4. PICK n : n = node - 1
  OBVIOUS
<1>5. n \in Nat /\ node = n + 1 /\ n < Len(methods[c].body) /\ Len(methods[c].body) \in Nat
  <2>1. node \in 1 .. Len(methods[c].body) + 1 /\ Len(methods[c].body) \in Nat
    BY <1>2, <1>3 DEF IsUnderWay
  <2> QED BY <1>1, <1>2, <1>4, <2>1
<1>6. UNCHANGED <<decl, stage, ranges, methods>> /\ node' = node + 1
  BY DEF M!WalkNode
<1> DEFINE x == methods[c].body[n + 1]
<1>7. facts' = [facts EXCEPT ![c].branches = M!Counted(@, x), ![c].used = M!Selected(@, x)]
  BY <1>0, <1>2, <1>5 DEF M!WalkNode
<1>8. siblings' = IF x.kind = "call" THEN siblings \cup M!Callees(x.target) ELSE siblings
  BY <1>2, <1>5 DEF M!WalkNode
<1>9. DOMAIN facts' = 1 .. c /\ \A k \in 1 .. c : k # c => facts'[k] = facts[k]
  BY <1>2, <1>7
<1>10. facts'[c] = [used |-> M!Selected(facts[c].used, x), siblings |-> facts[c].siblings,
                    branches |-> M!Counted(facts[c].branches, x)]
  <2> HIDE DEF x
  <2>1. facts'[c] = [facts[c] EXCEPT !.branches = M!Counted(@, x), !.used = M!Selected(@, x)]
    BY <1>2, <1>7
  <2> QED BY <1>2, <2>1 DEF Fact
<1>11. HasWalked(facts[c], methods[c].body, n, decl.fields)
  BY <1>3, <1>4 DEF IsUnderWay
<1>12. PICK g : g = facts'[c]
  OBVIOUS
<1>13. g.used = M!Selected(facts[c].used, x) /\ g.branches = M!Counted(facts[c].branches, x)
       /\ g.siblings = facts[c].siblings
  BY <1>10, <1>12
<1>14. /\ g.used \in SUBSET Nat /\ g.branches \in [M!Branches -> Nat]
       /\ HasWalked(g, methods[c].body, n + 1, decl.fields)
  BY <1>2, <1>5, <1>11, <1>13, WalkGoesOn
<1>15. g \in Fact
  <2>1. g = [used |-> g.used, siblings |-> g.siblings, branches |-> g.branches]
    BY <1>10, <1>12
  <2>2. g.siblings \in Seq(Nat)
    BY <1>2, <1>13 DEF Fact
  <2> QED BY <1>14, <2>1, <2>2 DEF Fact
<1>16. facts' \in Seq(Fact) /\ Len(facts') = c
  <2>1. \A k \in 1 .. c : facts'[k] \in Fact
    BY <1>2, <1>9, <1>12, <1>15
  <2>2. facts' \in [1 .. c -> Fact]
    <3>1. facts' = [k \in 1 .. c |-> facts'[k]]
      BY <1>2, <1>7
    <3> QED BY <2>1, <3>1
  <2> QED BY <1>2, <2>2
<1>17. siblings' = CalledBy(methods, c, n + 1)
  <2>1. siblings = CalledBy(methods, c, n)
    BY <1>3, <1>4 DEF IsUnderWay
  <2> QED BY <1>0, <1>5, <1>8, <2>1, CallsGoOn
<1>18. IsUnderWay(c)'
  <2>1. c \in DOMAIN facts' /\ node' - 1 = n + 1 /\ node' \in 1 .. Len(methods[c].body) + 1
    BY <1>2, <1>5, <1>6, <1>9
  <2> QED BY <1>6, <1>12, <1>14, <1>17, <2>1 DEF IsUnderWay
<1>19. ASSUME NEW k \in DOMAIN facts', k # c PROVE IsFinished(k)'
  <2>1. k \in 1 .. c /\ facts'[k] = facts[k]
    BY <1>9, <1>19
  <2>2. IsFinished(k)
    BY <1>0, <1>2, <1>19, <2>1 DEF MembersInv
  <2> QED BY <1>6, <2>1, <2>2, StaysFinished
<1>20. IsUnderWay(Len(facts))' /\ (Len(facts) <= Len(methods))'
  <2>1. Len(facts)' = c
    BY <1>16
  <2> QED BY <1>2, <1>6, <1>18, <2>1
<1>21. (decl \in Declarations)' /\ AreNumbered(methods, decl)' /\ AreIndexed(ranges, decl)' /\ stage' = "body"
  BY <1>1, <1>2, <1>6 DEF MembersInv
<1> QED
  BY <1>16, <1>19, <1>20, <1>21 DEF MembersInv

\* What is recorded for a method are numbers of methods.
LEMMA CalledAreNumbers ==
  ASSUME NEW ms, NEW U, ms \in Seq(U), NEW k, NEW n
  PROVE  /\ IsFiniteSet(CalledBy(ms, k, n))
         /\ CalledBy(ms, k, n) \subseteq Nat
         /\ SortedNumbers(CalledBy(ms, k, n)) \in Seq(Nat)
         /\ Range(SortedNumbers(CalledBy(ms, k, n))) = CalledBy(ms, k, n)
<1> DEFINE S == CalledBy(ms, k, n)
<1>1. IsFiniteSet(1 .. Len(ms)) /\ S \in SUBSET (1 .. Len(ms))
  <2>1. Len(ms) \in Nat /\ DOMAIN ms = 1 .. Len(ms)
    OBVIOUS
  <2>2. IsFiniteSet(1 .. Len(ms))
    BY <2>1, FS_Interval
  <2>3. S \subseteq DOMAIN ms
    BY DEF CalledBy
  <2> QED BY <2>1, <2>2, <2>3
<1>2. IsFiniteSet(S)
  BY <1>1, FS_Subset
<1>3. S \subseteq Nat
  BY <1>1
<1> HIDE DEF S
<1>4. SortedNumbers(S) \in Seq(S) /\ Range(SortedNumbers(S)) = S
  BY <1>2, <1>3, SortedNumbersAre
<1>5. SortedNumbers(S) \in Seq(Nat)
  <2>1. PICK s : s = SortedNumbers(S)
    OBVIOUS
  <2>2. s \in [1 .. Len(s) -> S] /\ Len(s) \in Nat
    BY <1>4, <2>1
  <2>3. s \in [1 .. Len(s) -> Nat]
    BY <1>3, <2>2
  <2> QED BY <2>1, <2>2, <2>3
<1> QED
  BY <1>2, <1>3, <1>4, <1>5 DEF S

LEMMA EndMethodPreserves ==
  ASSUME MembersInv, M!EndMethod PROVE MembersInv'
<1>0. PICK c : c = Len(facts)
  OBVIOUS
<1>1. stage = "body" /\ node > Len(M!Body)
  BY DEF M!EndMethod
<1>2. /\ facts \in Seq(Fact) /\ c \in Nat /\ DOMAIN facts = 1 .. c /\ c \in DOMAIN facts
      /\ facts[c] \in Fact
      /\ AreNumbered(methods, decl) /\ AreIndexed(ranges, decl) /\ c <= Len(methods)
      /\ methods[c].body \in Seq(M!Node)
      /\ M!Body = methods[c].body
  BY <1>0, <1>1, LastMethod
<1>3. IsUnderWay(c)
  BY <1>0, <1>1, LastMethod
<1>4. PICK n : n = Len(methods[c].body)
  OBVIOUS
<1>5. n \in Nat /\ node - 1 = n
  <2>1. node \in 1 .. n + 1 /\ n \in Nat
    BY <1>2, <1>3, <1>4 DEF IsUnderWay
  <2> QED BY <1>1, <1>2, <1>4, <2>1
<1>6. UNCHANGED <<decl, ranges, methods>> /\ stage' = "method"
  BY DEF M!EndMethod
<1>7. PICK sorted : sorted = SortedNumbers(siblings)
  OBVIOUS
<1>8. facts' = [facts EXCEPT ![c].siblings = sorted]
  BY <1>0, <1>7, NumbersSortedOurs DEF M!EndMethod
<1>9. siblings = CalledBy(methods, c, n) /\ HasWalked(facts[c], methods[c].body, n, decl.fields)
  BY <1>3, <1>5 DEF IsUnderWay
<1>10. sorted \in Seq(Nat)
  <2>1. methods \in Seq(Range(decl.methods))
    BY <1>2 DEF AreNumbered
  <2> QED BY <1>7, <1>9, <2>1, CalledAreNumbers
<1>11. DOMAIN facts' = 1 .. c /\ \A k \in 1 .. c : k # c => facts'[k] = facts[k]
  BY <1>2, <1>8
<1>12. facts'[c] = [used |-> facts[c].used, siblings |-> sorted, branches |-> facts[c].branches]
  <2>1. facts'[c] = [facts[c] EXCEPT !.siblings = sorted]
    BY <1>2, <1>8
  <2> QED BY <1>2, <2>1 DEF Fact
<1>13. facts'[c] \in Fact
  BY <1>2, <1>10, <1>12 DEF Fact
<1>14. facts' \in Seq(Fact) /\ Len(facts') = c
  <2>1. \A k \in 1 .. c : facts'[k] \in Fact
    BY <1>2, <1>11, <1>13
  <2>2. facts' \in [1 .. c -> Fact]
    <3>1. facts' = [k \in 1 .. c |-> facts'[k]]
      BY <1>2, <1>8
    <3> QED BY <2>1, <3>1
  <2> QED BY <1>2, <2>2
<1>15. IsFinished(c)'
  <2>1. HasWalked(facts'[c], methods[c].body, n, decl.fields)
    BY <1>9, <1>12 DEF HasWalked
  <2>2. facts'[c].siblings = SortedNumbers(CalledBy(methods, c, n))
    BY <1>7, <1>9, <1>12
  <2> QED BY <1>4, <1>6, <2>1, <2>2 DEF IsFinished
<1>16. ASSUME NEW k \in DOMAIN facts' PROVE IsFinished(k)'
  <2>1. CASE k = c
    BY <1>15, <2>1
  <2>2. CASE k # c
    <3>1. k \in 1 .. c /\ facts'[k] = facts[k]
      BY <1>11, <1>16, <2>2
    <3>2. IsFinished(k)
      BY <1>0, <1>2, <2>2, <3>1 DEF MembersInv
    <3> QED BY <1>6, <3>1, <3>2, StaysFinished
  <2> QED BY <2>1, <2>2
<1>17. (Len(facts) <= Len(methods))'
  BY <1>2, <1>6, <1>14
<1>18. (decl \in Declarations)' /\ AreNumbered(methods, decl)' /\ AreIndexed(ranges, decl)'
  BY <1>2, <1>6 DEF MembersInv
<1> QED
  BY <1>6, <1>14, <1>16, <1>17, <1>18 DEF MembersInv

LEMMA MembersInductive == MembersInv /\ [ExtractNext]_<<described, collector>> => MembersInv'
<1>1. MembersInv /\ UNCHANGED described => MembersInv'
  BY DEF MembersInv, described, IsUnderWay, IsFinished
<1>2. ASSUME MembersInv, M!CountDocs PROVE MembersInv'
  <2>1. UNCHANGED <<decl, ranges, methods, facts>> /\ stage = "method" /\ stage' = "done" /\ Len(facts) = Len(methods)
    BY <1>2 DEF M!CountDocs
  <2>2. \A k \in DOMAIN facts : IsFinished(k)'
    BY <1>2, <2>1, StaysFinished DEF MembersInv
  <2> QED BY <1>2, <2>1, <2>2 DEF MembersInv
<1> QED
  BY <1>1, <1>2, IndexPreserves, BeginMethodPreserves, WalkNodePreserves, EndMethodPreserves
  DEF ExtractNext, Collect, Describe, Extracted

LEMMA MembersAlways == ExtractSpec => []MembersInv
<1>1. ExtractInit => MembersInv
  BY MembersInit DEF ExtractInit
<1> QED
  BY <1>1, MembersInductive, PTL DEF ExtractSpec

\* Every program, every type: the facts of a method read back by name are those
\* of its own body, whatever methods are left out and however they are numbered.
THEOREM FactsOfTheBody == ExtractSpec => []FactsAreOfTheBody
<1> SUFFICES ASSUME MembersInv PROVE FactsAreOfTheBody
  BY MembersAlways, PTL
<1> SUFFICES ASSUME stage = "done", NEW k \in DOMAIN methods
    PROVE LET body == M!Range(methods[k].body)
              called == {n.target : n \in {m \in body : m.kind = "call"}}
          IN /\ M!Range(facts[k].siblings) \subseteq DOMAIN methods
             /\ {methods[s].name : s \in M!Range(facts[k].siblings)}
                  = {decl.methods[l].name : l \in {j \in DOMAIN decl.methods :
                       decl.methods[j].declared /\ decl.methods[j].name \in called \ {methods[k].name}}}
             /\ facts[k].used = {n.target : n \in {m \in body : m.kind = "field"}} \cap DOMAIN decl.fields
             /\ \A b \in M!Branches :
                  facts[k].branches[b]
                    = M!Cardinality({j \in DOMAIN methods[k].body : methods[k].body[j].kind = b})
  BY DEF FactsAreOfTheBody, M!FactsAreOfTheBody
<1> DEFINE body == methods[k].body
           n == Len(body)
           called == {x.target : x \in {m \in Range(body) : m.kind = "call"}}
           S == CalledBy(methods, k, n)
<1>1. /\ facts \in Seq(Fact) /\ methods \in Seq(Range(decl.methods)) /\ Len(facts) = Len(methods)
      /\ AreNumbered(methods, decl) /\ M!IsDeclaration(decl)
  BY TypeExtractAssumption DEF MembersInv, AreNumbered
<1>2. k \in DOMAIN facts /\ IsFinished(k)
  <2>1. DOMAIN facts = DOMAIN methods
    BY <1>1
  <2> QED BY <2>1 DEF MembersInv
<1>3. body \in Seq(M!Node)
  BY <1>1 DEF M!IsDeclaration, Range
<1>4. n \in Nat /\ DOMAIN body = 1 .. n
  BY <1>3
<1>5. Range(facts[k].siblings) = S
  <2>1. facts[k].siblings = SortedNumbers(S)
    BY <1>2 DEF IsFinished
  <2> QED BY <1>1, <2>1, CalledAreNumbers
<1>6. HasWalked(facts[k], body, n, decl.fields)
  BY <1>2 DEF IsFinished
<1>7. \A t : t \in called <=> \E j \in 1 .. n : body[j].kind = "call" /\ body[j].target = t
  <2> HIDE DEF body, n
  <2> QED BY <1>4 DEF Range
<1>8. S = {s \in DOMAIN methods \ {k} : methods[s].name \in called}
  <2> HIDE DEF called
  <2> QED BY <1>7 DEF CalledBy
<1>9. {methods[s].name : s \in S}
        = {decl.methods[l].name : l \in {j \in DOMAIN decl.methods :
             decl.methods[j].declared /\ decl.methods[j].name \in called \ {methods[k].name}}}
  <2> HIDE DEF called, S
  <2>1. ASSUME NEW s \in S
        PROVE  \E l \in DOMAIN decl.methods :
                 /\ decl.methods[l].declared /\ decl.methods[l].name = methods[s].name
                 /\ methods[s].name \in called \ {methods[k].name}
    <3>1. s \in DOMAIN methods /\ s # k /\ methods[s].name \in called
      BY <1>8
    <3>2. methods[s] \in Range(decl.methods)
      BY <1>1, <3>1
    <3> QED BY <1>1, <3>1, <3>2 DEF AreNumbered, Range
  <2>2. ASSUME NEW l \in DOMAIN decl.methods, decl.methods[l].declared,
               decl.methods[l].name \in called \ {methods[k].name}
        PROVE  \E s \in S : methods[s].name = decl.methods[l].name
    <3>1. PICK s \in DOMAIN methods : methods[s] = decl.methods[l]
      BY <1>1, <2>2 DEF AreNumbered
    <3> QED BY <1>8, <2>2, <3>1
  <2> QED BY <2>1, <2>2
<1>10. {x.target : x \in {m \in Range(body) : m.kind = "field"}}
         = {body[j].target : j \in {i \in 1 .. n : body[i].kind = "field"}}
  <2> HIDE DEF body, n
  <2> QED BY <1>4 DEF Range
<1>11. facts[k].used = {x.target : x \in {m \in Range(body) : m.kind = "field"}} \cap DOMAIN decl.fields
  <2> HIDE DEF body, n
  <2> QED BY <1>6, <1>10 DEF HasWalked
<1>12. ASSUME NEW b \in M!Branches
       PROVE  facts[k].branches[b] = M!Cardinality({j \in DOMAIN body : body[j].kind = b})
  <2>1. OfKind(body, b, n) = {j \in DOMAIN body : body[j].kind = b}
    BY <1>4 DEF OfKind
  <2>2. facts[k].branches[b] = Cardinality(OfKind(body, b, n))
    BY <1>6 DEF HasWalked
  <2> QED BY <2>1, <2>2, CardinalityIsOurs
<1>13. S \subseteq DOMAIN methods
  BY <1>8
<1>14. \A s : M!Range(s) = Range(s)
  BY DEF M!Range, Range
<1> HIDE DEF S
<1> QED
  BY <1>5, <1>9, <1>11, <1>12, <1>13, <1>14

-----------------------------------------------------------------------------
\* The ranges that start at or before a position are the first c.
LEMMA BeforeIs ==
  ASSUME AreIndexed(ranges, decl), NEW pos \in Int
  PROVE  \E c \in 0 .. Len(ranges) :
           /\ M!Before(pos) = 1 .. c
           /\ \A m \in DOMAIN ranges : m <= c <=> ranges[m].start <= pos
<1> DEFINE T == {m \in 1 .. Len(ranges) + 1 : m \in DOMAIN ranges => pos < ranges[m].start}
<1>0. PICK L : L = Len(ranges)
  OBVIOUS
<1>1. L \in Nat /\ DOMAIN ranges = 1 .. L
  BY <1>0 DEF AreIndexed
<1>2. ASSUME NEW m \in 1 .. L PROVE ranges[m].start \in Int /\ ranges[m].end \in Int
  <2>1. ranges[m] \in M!FieldRange
    BY <1>0, <1>1 DEF AreIndexed
  <2> QED BY <2>1 DEF M!FieldRange
<1>3. T \subseteq Nat /\ L + 1 \in T
  BY <1>0, <1>1
<1>4. PICK f \in T : \A m \in T : f <= m
  <2> HIDE DEF T
  <2> QED BY <1>3, LeastElement
<1>5. PICK c : c = f - 1
  OBVIOUS
<1>6. f \in 1 .. L + 1 /\ c \in 0 .. L /\ f = c + 1
  BY <1>0, <1>1, <1>4, <1>5
<1>7. ASSUME NEW m \in 1 .. L, m <= c PROVE ranges[m].start <= pos
  <2>1. m \notin T
    <3> HIDE DEF T
    <3> QED BY <1>1, <1>4, <1>6, <1>7
  <2>2. ~ (pos < ranges[m].start)
    BY <1>0, <1>1, <2>1
  <2> QED BY <1>2, <2>2
<1>8. ASSUME NEW m \in 1 .. L, ~ (m <= c) PROVE ~ (ranges[m].start <= pos)
  <2>1. f \in 1 .. L /\ f <= m
    BY <1>1, <1>6, <1>8
  <2>2. pos < ranges[f].start
    BY <1>1, <1>4, <2>1
  <2>3. f = m \/ ranges[f].end < ranges[m].start
    BY <1>1, <2>1 DEF AreIndexed
  <2>4. ranges[f].start <= ranges[f].end
    BY <1>1, <2>1 DEF AreIndexed
  <2>5. pos < ranges[m].start
    <3>1. ranges[f].start \in Int /\ ranges[f].end \in Int /\ ranges[m].start \in Int
      BY <1>2, <2>1
    <3> QED BY <2>2, <2>3, <2>4, <3>1
  <2> QED BY <1>2, <2>5
<1>9. M!Before(pos) = 1 .. c
  <2>1. ASSUME NEW m \in M!Before(pos) PROVE m \in 1 .. c
    <3>1. m \in 1 .. L /\ m \in 1 .. m /\ ranges[m].start <= pos
      BY <1>1 DEF M!Before
    <3> QED BY <1>6, <1>8, <3>1
  <2>2. ASSUME NEW m \in 1 .. c PROVE m \in M!Before(pos)
    <3>1. m \in 1 .. L /\ \A l \in 1 .. m : l \in 1 .. L /\ l <= c
      BY <1>1, <1>6
    <3> QED BY <1>1, <1>7, <3>1 DEF M!Before
  <2> QED BY <2>1, <2>2
<1> QED
  BY <1>0, <1>1, <1>6, <1>7, <1>8, <1>9

\* Every program, every type: a field counts as documented exactly when its own
\* declaration is, in whatever order the files were indexed.
THEOREM DocsOfTheField == ExtractSpec => []DocsAreOfTheField
<1> SUFFICES ASSUME MembersInv PROVE DocsAreOfTheField
  BY MembersAlways, PTL
<1> SUFFICES ASSUME stage = "done", NEW k \in DOMAIN decl.fields
    PROVE M!Documented(decl.fields[k].pos) <=>
            \E j \in DOMAIN decl.ranges :
              /\ decl.ranges[j].documented
              /\ decl.fields[k].pos \in decl.ranges[j].start .. decl.ranges[j].end
  BY DEF DocsAreOfTheField, M!DocsAreOfTheField
<1>0. PICK pos : pos = decl.fields[k].pos
  OBVIOUS
<1>1. AreIndexed(ranges, decl) /\ M!IsDeclaration(decl)
  BY TypeExtractAssumption DEF MembersInv
<1>2. pos \in Int
  BY <1>0, <1>1 DEF M!IsDeclaration
<1>3. PICK c \in 0 .. Len(ranges) : /\ M!Before(pos) = 1 .. c
                                    /\ \A m \in DOMAIN ranges : m <= c <=> ranges[m].start <= pos
  BY <1>1, <1>2, BeforeIs
<1>4. PICK L : L = Len(ranges)
  OBVIOUS
<1>5. L \in Nat /\ DOMAIN ranges = 1 .. L /\ c \in 0 .. L
  BY <1>1, <1>3, <1>4 DEF AreIndexed
<1>6. ASSUME NEW m \in 1 .. L
      PROVE  ranges[m].start \in Int /\ ranges[m].end \in Int
  <2>1. ranges[m] \in M!FieldRange
    BY <1>1, <1>4, <1>5 DEF AreIndexed
  <2> QED BY <2>1 DEF M!FieldRange
<1>7. M!Cardinality(M!Before(pos)) = c /\ (M!Before(pos) # {} <=> c # 0)
  <2>1. Cardinality(1 .. c) = c
    BY <1>5, FS_Interval
  <2> QED BY <1>3, <1>5, <2>1, CardinalityIsOurs
<1>8. M!Documented(pos) <=> c # 0 /\ pos <= ranges[c].end /\ ranges[c].documented
  BY <1>7 DEF M!Documented
<1>9. Range(ranges) = Range(decl.ranges)
  BY <1>1 DEF AreIndexed
<1>10. ASSUME c # 0, pos <= ranges[c].end, ranges[c].documented
       PROVE  \E j \in DOMAIN decl.ranges :
                decl.ranges[j].documented /\ pos \in decl.ranges[j].start .. decl.ranges[j].end
  <2>1. c \in 1 .. L
    BY <1>5, <1>10
  <2>2. ranges[c].start <= pos
    BY <1>3, <1>5, <2>1
  <2>3. PICK j \in DOMAIN decl.ranges : decl.ranges[j] = ranges[c]
    BY <1>5, <1>9, <2>1 DEF Range
  <2>4. pos \in ranges[c].start .. ranges[c].end
    BY <1>2, <1>6, <1>10, <2>1, <2>2
  <2> QED BY <1>10, <2>3, <2>4
<1>11. ASSUME NEW j \in DOMAIN decl.ranges, decl.ranges[j].documented,
              pos \in decl.ranges[j].start .. decl.ranges[j].end
       PROVE  c # 0 /\ pos <= ranges[c].end /\ ranges[c].documented
  <2>1. PICK m \in 1 .. L : ranges[m] = decl.ranges[j]
    BY <1>5, <1>9 DEF Range
  <2>2. ranges[m].start <= pos /\ pos <= ranges[m].end
    BY <1>2, <1>6, <1>11, <2>1
  <2>3. m <= c
    BY <1>3, <1>5, <2>1, <2>2
  <2>4. c \in 1 .. L
    BY <1>5, <2>1, <2>3
  <2>5. ranges[c].start <= pos
    BY <1>3, <1>5, <2>4
  <2>6. ~ (m < c)
    <3>1. m < c => ranges[m].end < ranges[c].start
      BY <1>1, <1>5, <2>1, <2>4 DEF AreIndexed
    <3>2. ranges[m].end \in Int /\ ranges[c].start \in Int
      BY <1>6, <2>1, <2>4
    <3> QED BY <1>2, <2>2, <2>5, <3>1, <3>2
  <2>7. m = c
    BY <2>1, <2>3, <2>4, <2>6
  <2> QED BY <1>11, <2>1, <2>2, <2>4, <2>7
<1> QED
  BY <1>0, <1>8, <1>10, <1>11

-----------------------------------------------------------------------------
(***************************************************************************)
(* Reusability, for all weights and facts: fractions in lowest terms are   *)
(* the same numbers, and the index is a mean of its components.            *)
(***************************************************************************)
Divides(g, a) == \E q \in Int : a = q * g
CommonDivisors(a, b) == {g \in Nat : Divides(g, a) /\ Divides(g, b)}
Greatest(S) == CHOOSE g \in S : \A h \in S : h <= g

\* Euclid: the divisors of a and b are those of b and of what b leaves of a.
LEMMA Remainders ==
  ASSUME NEW a \in Int, NEW b \in Nat \ {0}
  PROVE  a % b \in Nat /\ a % b < b /\ CommonDivisors(b, a % b) = CommonDivisors(a, b)
<1>1. PICK q \in Int, r \in Nat : r = a % b /\ r < b /\ a = b * q + r
  <2>1. a \div b \in Int /\ a % b \in Nat /\ a % b < b /\ a = b * (a \div b) + (a % b)
    OBVIOUS
  <2> QED BY <2>1
<1>2. ASSUME NEW g \in Nat, Divides(g, a), Divides(g, b) PROVE Divides(g, r)
  <2>1. PICK x \in Int, y \in Int : a = x * g /\ b = y * g
    BY <1>2 DEF Divides
  <2>2. r = (x - y * q) * g
    <3>1. (x - y * q) * g = x * g - (y * g) * q
      OBVIOUS
    <3>2. r = a - b * q
      BY <1>1
    <3> QED BY <2>1, <3>1, <3>2
  <2>3. x - y * q \in Int
    OBVIOUS
  <2> QED BY <2>2, <2>3 DEF Divides
<1>3. ASSUME NEW g \in Nat, Divides(g, r), Divides(g, b) PROVE Divides(g, a)
  <2>1. PICK x \in Int, y \in Int : r = x * g /\ b = y * g
    BY <1>3 DEF Divides
  <2>2. a = (y * q + x) * g
    <3>1. (y * q + x) * g = (y * g) * q + x * g
      OBVIOUS
    <3> QED BY <1>1, <2>1, <3>1
  <2>3. y * q + x \in Int
    OBVIOUS
  <2> QED BY <2>2, <2>3 DEF Divides
<1>4. CommonDivisors(b, r) = CommonDivisors(a, b)
  BY <1>2, <1>3 DEF CommonDivisors
<1> QED BY <1>1, <1>4

LEMMA GreatestOfOne ==
  ASSUME NEW b \in Nat \ {0} PROVE Greatest(CommonDivisors(b, 0)) = b
<1>1. b \in CommonDivisors(b, 0)
  <2>1. b = 1 * b /\ 0 = 0 * b
    OBVIOUS
  <2> QED BY <2>1 DEF CommonDivisors, Divides
<1>2. ASSUME NEW g \in CommonDivisors(b, 0) PROVE g <= b
  <2>1. g \in Nat /\ Divides(g, b)
    BY <1>2 DEF CommonDivisors
  <2>2. PICK q \in Int : b = q * g
    BY <2>1 DEF Divides
  <2>3. q >= 1
    BY <2>1, <2>2
  <2> QED BY <2>1, <2>2, <2>3
<1>3. \A g \in CommonDivisors(b, 0) : (\A h \in CommonDivisors(b, 0) : h <= g) => g = b
  <2> SUFFICES ASSUME NEW g \in CommonDivisors(b, 0), \A h \in CommonDivisors(b, 0) : h <= g PROVE g = b
    OBVIOUS
  <2>1. g \in Nat /\ b <= g /\ g <= b
    BY <1>1, <1>2 DEF CommonDivisors
  <2> QED BY <2>1
<1> QED BY <1>1, <1>2, <1>3 DEF Greatest

\* There is a function as Gcd's definition asks for.
LEMMA GcdUnfolds ==
  \A p \in Int \X Nat : R!Gcd[p] = IF p[2] = 0 THEN p[1] ELSE R!Gcd[<<p[2], p[1] % p[2]>>]
<1> DEFINE Unfolded(f) == [p \in Int \X Nat |-> IF p[2] = 0 THEN p[1] ELSE f[<<p[2], p[1] % p[2]>>]]
           G == [p \in Int \X Nat |-> IF p[2] = 0 THEN p[1] ELSE Greatest(CommonDivisors(p[1], p[2]))]
<1>1. G = Unfolded(G)
  <2>1. ASSUME NEW p \in Int \X Nat, p[2] # 0
        PROVE  G[<<p[2], p[1] % p[2]>>] = Greatest(CommonDivisors(p[1], p[2]))
    <3>1. PICK a \in Int, b \in Nat \ {0} : a = p[1] /\ b = p[2]
      BY <2>1
    <3>2. PICK r \in Nat : r = a % b /\ CommonDivisors(b, r) = CommonDivisors(a, b)
      BY Remainders
    <3>3. <<b, r>> \in Int \X Nat /\ <<b, r>>[1] = b /\ <<b, r>>[2] = r
      OBVIOUS
    <3>4. G[<<b, r>>] = IF r = 0 THEN b ELSE Greatest(CommonDivisors(b, r))
      BY <3>3
    <3> HIDE DEF G
    <3>5. CASE r = 0
      BY <3>1, <3>2, <3>4, <3>5, GreatestOfOne
    <3>6. CASE r # 0
      BY <3>1, <3>2, <3>4, <3>6
    <3> QED BY <3>5, <3>6
  <2> QED BY <2>1
<1>2. R!Gcd = Unfolded(R!Gcd)
  <2> HIDE DEF G
  <2>1. \E f : f = Unfolded(f)
    BY <1>1
  <2>2. R!Gcd = CHOOSE f : f = Unfolded(f)
    BY DEF R!Gcd
  <2> HIDE DEF Unfolded
  <2> QED BY <2>1, <2>2
<1> QED
  <2>1. \A p \in Int \X Nat : Unfolded(R!Gcd)[p] = IF p[2] = 0 THEN p[1] ELSE R!Gcd[<<p[2], p[1] % p[2]>>]
    OBVIOUS
  <2> HIDE DEF Unfolded
  <2> QED BY <1>2, <2>1

LEMMA GcdIs ==
  ASSUME NEW a \in Nat, NEW b \in Nat
  PROVE  R!Gcd[<<a, b>>] = IF b = 0 THEN a ELSE R!Gcd[<<b, a % b>>]
<1>1. <<a, b>> \in Int \X Nat
  OBVIOUS
<1>2. PICK p : p = <<a, b>>
  OBVIOUS
<1>3. p \in Int \X Nat /\ p[1] = a /\ p[2] = b
  BY <1>1, <1>2
<1>4. R!Gcd[p] = IF p[2] = 0 THEN p[1] ELSE R!Gcd[<<p[2], p[1] % p[2]>>]
  BY <1>3, GcdUnfolds
<1> QED BY <1>2, <1>3, <1>4

LEMMA LowestTerms ==
  ASSUME NEW a \in Nat, NEW b \in Nat, a # 0 \/ b # 0, NEW g, g = R!Gcd[<<a, b>>]
  PROVE  R!Reduced(a, b) = R!Frac(a \div g, b \div g)
<1>1. <<a, b>> \in Int \X Nat /\ <<a, b>> # <<0, 0>>
  OBVIOUS
<1>2. PICK p : p = <<a, b>>
  OBVIOUS
<1>3. p \in Int \X Nat /\ p[1] = a /\ p[2] = b /\ p # <<0, 0>>
  BY <1>1, <1>2
<1>4. R!Lowest[p] = R!Frac(a \div g, b \div g)
  BY <1>2, <1>3 DEF R!Lowest
<1> QED BY <1>2, <1>4 DEF R!Reduced

\* What it gives divides both.
IsDivisor(g, a, b) == g \in Nat \ {0} /\ Divides(g, a) /\ Divides(g, b)

LEMMA GcdDivides ==
  ASSUME NEW a \in Nat, NEW b \in Nat, a # 0 \/ b # 0
  PROVE  IsDivisor(R!Gcd[<<a, b>>], a, b)
<1> DEFINE Holds(y) == \A x \in Nat : x # 0 \/ y # 0 => IsDivisor(R!Gcd[<<x, y>>], x, y)
           T == {m \in 0 .. b : \A y \in 0 .. m : Holds(y)}
<1>1. \A x \in Nat, y \in Nat : R!Gcd[<<x, y>>] = IF y = 0 THEN x ELSE R!Gcd[<<y, x % y>>]
  BY GcdIs
<1>2. Holds(0)
  <2> SUFFICES ASSUME NEW x \in Nat, x # 0 PROVE IsDivisor(R!Gcd[<<x, 0>>], x, 0)
    OBVIOUS
  <2>1. R!Gcd[<<x, 0>>] = x
    BY <1>1
  <2>2. x = 1 * x /\ 0 = 0 * x
    OBVIOUS
  <2> QED BY <2>1, <2>2 DEF IsDivisor, Divides
<1>3. 0 \in T
  BY <1>2
<1>4. ASSUME NEW m \in 0 .. b - 1, m \in T PROVE m + 1 \in T
  <2>1. m + 1 \in 0 .. b /\ m + 1 \in Nat \ {0}
    OBVIOUS
  <2>2. ASSUME NEW x \in Nat PROVE IsDivisor(R!Gcd[<<x, m + 1>>], x, m + 1)
    <3>1. PICK y \in Nat \ {0} : y = m + 1
      OBVIOUS
    <3>2. PICK r \in Nat : r = x % y /\ r < y /\ CommonDivisors(y, r) = CommonDivisors(x, y)
      <4>1. x \in Int
        OBVIOUS
      <4> QED BY <4>1, Remainders
    <3>3. r \in 0 .. m
      BY <3>1, <3>2
    <3>4. IsDivisor(R!Gcd[<<y, r>>], y, r)
      <4>1. Holds(r)
        BY <1>4, <3>3
      <4> QED BY <4>1
    <3>5. R!Gcd[<<x, y>>] = R!Gcd[<<y, r>>]
      BY <1>1, <3>2
    <3>6. R!Gcd[<<x, y>>] \in CommonDivisors(x, y) /\ R!Gcd[<<x, y>>] \in Nat \ {0}
      BY <3>2, <3>4, <3>5 DEF IsDivisor, CommonDivisors
    <3> QED BY <3>1, <3>6 DEF IsDivisor, CommonDivisors
  <2>3. ASSUME NEW y \in 0 .. m + 1 PROVE Holds(y)
    <3>1. CASE y = m + 1
      BY <2>2, <3>1
    <3>2. CASE y # m + 1
      <4>1. y \in 0 .. m
        BY <3>2
      <4> HIDE DEF Holds
      <4> QED BY <1>4, <4>1
    <3> QED BY <3>1, <3>2
  <2> HIDE DEF Holds
  <2> QED BY <2>1, <2>3
<1>5. b \in T
  <2>1. 0 .. b \subseteq T
    <3> HIDE DEF T
    <3> QED BY <1>3, <1>4, UpTo
  <2>2. b \in 0 .. b
    OBVIOUS
  <2> QED BY <2>1, <2>2
<1>6. Holds(b)
  <2>1. b \in 0 .. b
    OBVIOUS
  <2> HIDE DEF Holds
  <2> QED BY <1>5, <2>1
<1> QED BY <1>6

\* The floats: the fractions, infinity and no number.
Fractions == [n : Nat, d : Nat \ {0}]
NoNumber  == R!Frac(0, 0)
Floats    == Fractions \cup {R!Infinity, NoNumber}

\* x is n over d.
Is(x, n, d) == x \in Fractions /\ x.n * d = n * x.d

LEMMA ReducedIs ==
  ASSUME NEW n \in Nat, NEW d \in Nat \ {0}
  PROVE  Is(R!Reduced(n, d), n, d)
<1>1. PICK g \in Nat \ {0} : g = R!Gcd[<<n, d>>] /\ Divides(g, n) /\ Divides(g, d)
  BY GcdDivides DEF IsDivisor
<1>2. PICK p \in Int, q \in Int : n = p * g /\ d = q * g
  BY <1>1 DEF Divides
<1>3. p \in Nat
  <2>1. ~ (p < 0)
    BY <1>2
  <2> QED BY <2>1
<1>4. q \in Nat \ {0}
  <2>1. ~ (q <= 0)
    BY <1>2
  <2> QED BY <2>1
<1>5. n \div g = p /\ d \div g = q
  BY <1>2, <1>3, <1>4
<1>6. R!Reduced(n, d) = R!Frac(p, q)
  <2>1. R!Reduced(n, d) = R!Frac(n \div g, d \div g)
    BY <1>1, LowestTerms
  <2> QED BY <1>5, <2>1
<1>7. p * d = n * q
  BY <1>2, <1>3, <1>4
<1> QED BY <1>3, <1>4, <1>6, <1>7 DEF Is, Fractions, R!Frac

\* Nothing, something and nothing again over nothing or something.
LEMMA ReducedOdd ==
  /\ \A d \in Nat \ {0} : R!Reduced(0, d) = R!Zero
  /\ \A n \in Nat \ {0} : R!Reduced(n, 0) = R!Infinity
  /\ R!Reduced(0, 0) = NoNumber
<1>1. ASSUME NEW d \in Nat \ {0} PROVE R!Reduced(0, d) = R!Zero
  <2>1. R!Gcd[<<0, d>>] = d
    <3>1. 0 % d = 0
      OBVIOUS
    <3>2. R!Gcd[<<0, d>>] = R!Gcd[<<d, 0>>]
      BY <3>1, GcdIs
    <3>3. R!Gcd[<<d, 0>>] = d
      BY GcdIs
    <3> QED BY <3>2, <3>3
  <2>2. 0 \div d = 0 /\ d \div d = 1
    OBVIOUS
  <2>3. R!Reduced(0, d) = R!Frac(0 \div d, d \div d)
    BY <2>1, LowestTerms
  <2> QED BY <2>2, <2>3 DEF R!Zero
<1>2. ASSUME NEW n \in Nat \ {0} PROVE R!Reduced(n, 0) = R!Infinity
  <2>1. R!Gcd[<<n, 0>>] = n
    BY GcdIs
  <2>2. n \div n = 1 /\ 0 \div n = 0
    OBVIOUS
  <2>3. R!Reduced(n, 0) = R!Frac(n \div n, 0 \div n)
    BY <2>1, LowestTerms
  <2> QED BY <2>2, <2>3 DEF R!Infinity
<1>3. R!Reduced(0, 0) = NoNumber
  <2>1. <<0, 0>> \in Int \X Nat
    OBVIOUS
  <2> QED BY <2>1 DEF R!Reduced, R!Lowest, NoNumber
<1> QED BY <1>1, <1>2, <1>3

-----------------------------------------------------------------------------
\* Fractions as numbers: sums and products before they are reduced, and how they
\* compare.
Add(x, y) == R!Frac(x.n * y.d + y.n * x.d, x.d * y.d)
Mul(x, y) == R!Frac(x.n * y.n, x.d * y.d)
AtMost(x, y) == x.n * y.d <= y.n * x.d
Equal(x, y)  == x.n * y.d = y.n * x.d

LEMMA FractionParts ==
  ASSUME NEW x \in Fractions PROVE \E n \in Nat, d \in Nat \ {0} : x.n = n /\ x.d = d
  BY DEF Fractions

LEMMA Closed ==
  ASSUME NEW x \in Fractions, NEW y \in Fractions PROVE Add(x, y) \in Fractions /\ Mul(x, y) \in Fractions
<1>1. PICK a \in Nat, b \in Nat \ {0} : x.n = a /\ x.d = b
  BY FractionParts
<1>2. PICK c \in Nat, d \in Nat \ {0} : y.n = c /\ y.d = d
  BY FractionParts
<1>3. a * d + c * b \in Nat /\ b * d \in Nat \ {0} /\ a * c \in Nat
  OBVIOUS
<1> QED BY <1>1, <1>2, <1>3 DEF Add, Mul, Fractions, R!Frac

LEMMA EqualIsAtMost ==
  ASSUME NEW x \in Fractions, NEW y \in Fractions
  PROVE  Equal(x, y) <=> AtMost(x, y) /\ AtMost(y, x)
<1>1. PICK a \in Nat, b \in Nat \ {0} : x.n = a /\ x.d = b
  BY FractionParts
<1>2. PICK c \in Nat, d \in Nat \ {0} : y.n = c /\ y.d = d
  BY FractionParts
<1>3. PICK ad \in Nat, cb \in Nat : ad = a * d /\ cb = c * b
  OBVIOUS
<1>4. (Equal(x, y) <=> ad = cb) /\ (AtMost(x, y) <=> ad <= cb) /\ (AtMost(y, x) <=> cb <= ad)
  BY <1>1, <1>2, <1>3 DEF Equal, AtMost
<1> QED BY <1>4

LEMMA AtMostTotal ==
  ASSUME NEW x \in Fractions, NEW y \in Fractions PROVE AtMost(x, y) \/ AtMost(y, x)
<1>1. PICK a \in Nat, b \in Nat \ {0} : x.n = a /\ x.d = b
  BY FractionParts
<1>2. PICK c \in Nat, d \in Nat \ {0} : y.n = c /\ y.d = d
  BY FractionParts
<1> QED BY <1>1, <1>2 DEF AtMost

LEMMA AtMostTransitive ==
  ASSUME NEW x \in Fractions, NEW y \in Fractions, NEW z \in Fractions, AtMost(x, y), AtMost(y, z)
  PROVE  AtMost(x, z)
<1>1. PICK a \in Nat, b \in Nat \ {0} : x.n = a /\ x.d = b
  BY FractionParts
<1>2. PICK c \in Nat, d \in Nat \ {0} : y.n = c /\ y.d = d
  BY FractionParts
<1>3. PICK e \in Nat, f \in Nat \ {0} : z.n = e /\ z.d = f
  BY FractionParts
<1>4. a * d <= c * b /\ c * f <= e * d
  BY <1>1, <1>2, <1>3 DEF AtMost
<1>5. a * f <= e * b
  BY <1>4
<1> QED BY <1>1, <1>3, <1>5 DEF AtMost

\* Sums and products grow with their parts.
LEMMA AddGrows ==
  ASSUME NEW x \in Fractions, NEW y \in Fractions, NEW u \in Fractions, NEW v \in Fractions,
         AtMost(x, y), AtMost(u, v)
  PROVE  AtMost(Add(x, u), Add(y, v))
<1>1. PICK a \in Nat, b \in Nat \ {0} : x.n = a /\ x.d = b
  BY FractionParts
<1>2. PICK c \in Nat, d \in Nat \ {0} : y.n = c /\ y.d = d
  BY FractionParts
<1>3. PICK e \in Nat, f \in Nat \ {0} : u.n = e /\ u.d = f
  BY FractionParts
<1>4. PICK g \in Nat, h \in Nat \ {0} : v.n = g /\ v.d = h
  BY FractionParts
<1>5. a * d <= c * b /\ e * h <= g * f
  BY <1>1, <1>2, <1>3, <1>4 DEF AtMost
<1>6. (a * d) * (f * h) <= (c * b) * (f * h) /\ (e * h) * (b * d) <= (g * f) * (b * d)
  <2>1. f * h \in Nat /\ b * d \in Nat /\ a * d \in Nat /\ c * b \in Nat /\ e * h \in Nat /\ g * f \in Nat
    OBVIOUS
  <2>2. \A p \in Nat, q \in Nat, r \in Nat : p <= q => p * r <= q * r
    OBVIOUS
  <2> QED BY <1>5, <2>1, <2>2
<1>7. (a * f + e * b) * (d * h) = (a * d) * (f * h) + (e * h) * (b * d)
  OBVIOUS
<1>8. (c * h + g * d) * (b * f) = (c * b) * (f * h) + (g * f) * (b * d)
  OBVIOUS
<1>9. (a * f + e * b) * (d * h) <= (c * h + g * d) * (b * f)
  BY <1>6, <1>7, <1>8
<1> QED BY <1>1, <1>2, <1>3, <1>4, <1>9 DEF AtMost, Add, R!Frac

LEMMA MulGrows ==
  ASSUME NEW x \in Fractions, NEW y \in Fractions, NEW u \in Fractions, NEW v \in Fractions,
         AtMost(x, y), AtMost(u, v)
  PROVE  AtMost(Mul(x, u), Mul(y, v))
<1>1. PICK a \in Nat, b \in Nat \ {0} : x.n = a /\ x.d = b
  BY FractionParts
<1>2. PICK c \in Nat, d \in Nat \ {0} : y.n = c /\ y.d = d
  BY FractionParts
<1>3. PICK e \in Nat, f \in Nat \ {0} : u.n = e /\ u.d = f
  BY FractionParts
<1>4. PICK g \in Nat, h \in Nat \ {0} : v.n = g /\ v.d = h
  BY FractionParts
<1>5. a * d <= c * b /\ e * h <= g * f
  BY <1>1, <1>2, <1>3, <1>4 DEF AtMost
<1>6. (a * d) * (e * h) <= (c * b) * (g * f)
  <2>1. a * d \in Nat /\ c * b \in Nat /\ e * h \in Nat /\ g * f \in Nat
    OBVIOUS
  <2>2. \A p \in Nat, q \in Nat, r \in Nat, s \in Nat : p <= q /\ r <= s => p * r <= q * s
    OBVIOUS
  <2> QED BY <1>5, <2>1, <2>2
<1>7. (a * e) * (d * h) = (a * d) * (e * h) /\ (c * g) * (b * f) = (c * b) * (g * f)
  OBVIOUS
<1>8. (a * e) * (d * h) <= (c * g) * (b * f)
  BY <1>6, <1>7
<1> QED BY <1>1, <1>2, <1>3, <1>4, <1>8 DEF AtMost, Mul, R!Frac

\* Products distribute over sums, and their order does not matter.
LEMMA Distributes ==
  ASSUME NEW x \in Fractions, NEW y \in Fractions, NEW z \in Fractions
  PROVE  Equal(Mul(x, Add(y, z)), Add(Mul(x, y), Mul(x, z))) /\ Equal(Mul(Add(y, z), x), Add(Mul(y, x), Mul(z, x)))
<1>1. PICK a \in Nat, b \in Nat \ {0} : x.n = a /\ x.d = b
  BY FractionParts
<1>2. PICK c \in Nat, d \in Nat \ {0} : y.n = c /\ y.d = d
  BY FractionParts
<1>3. PICK e \in Nat, f \in Nat \ {0} : z.n = e /\ z.d = f
  BY FractionParts
<1>4. (a * (c * f + e * d)) * ((b * d) * (b * f)) = ((a * c) * (b * f) + (a * e) * (b * d)) * (b * (d * f))
  OBVIOUS
<1>5. ((c * f + e * d) * a) * ((d * b) * (f * b)) = ((c * a) * (f * b) + (e * a) * (d * b)) * ((d * f) * b)
  OBVIOUS
<1> QED BY <1>1, <1>2, <1>3, <1>4, <1>5 DEF Equal, Add, Mul, R!Frac

LEMMA Rearranged ==
  ASSUME NEW x \in Fractions, NEW y \in Fractions, NEW z \in Fractions
  PROVE  Mul(Mul(x, y), z) = Mul(y, Mul(x, z)) /\ Mul(x, y) = Mul(y, x)
<1>1. PICK a \in Nat, b \in Nat \ {0} : x.n = a /\ x.d = b
  BY FractionParts
<1>2. PICK c \in Nat, d \in Nat \ {0} : y.n = c /\ y.d = d
  BY FractionParts
<1>3. PICK e \in Nat, f \in Nat \ {0} : z.n = e /\ z.d = f
  BY FractionParts
<1>4. (a * c) * e = c * (a * e) /\ (b * d) * f = d * (b * f) /\ a * c = c * a /\ b * d = d * b
  OBVIOUS
<1> QED BY <1>1, <1>2, <1>3, <1>4 DEF Mul, R!Frac

-----------------------------------------------------------------------------
\* What the float operations make of fractions ...
Ceiling == R!Frac(MaxFloat, 1)
IsSum(s, x, y) == s \in Fractions /\ Equal(s, Add(x, y)) /\ AtMost(s, Ceiling)

LEMMA CeilingIs == Ceiling \in Fractions
  BY MaxFloatAssumption DEF Ceiling, Fractions, R!Frac

LEMMA PlusIs ==
  ASSUME NEW x \in Fractions, NEW y \in Fractions
  PROVE  /\ R!Plus(x, y) = R!Infinity \/ IsSum(R!Plus(x, y), x, y)
         /\ AtMost(Add(x, y), Ceiling) => IsSum(R!Plus(x, y), x, y)
<1>1. PICK a \in Nat, b \in Nat \ {0} : x.n = a /\ x.d = b
  BY FractionParts
<1>2. PICK c \in Nat, d \in Nat \ {0} : y.n = c /\ y.d = d
  BY FractionParts
<1>3. a * d + c * b \in Nat /\ b * d \in Nat \ {0}
  OBVIOUS
<1>4. PICK s : s = R!Reduced(a * d + c * b, b * d)
  OBVIOUS
<1>5. Is(s, a * d + c * b, b * d)
  BY <1>3, <1>4, ReducedIs
<1>6. s \in Fractions /\ Equal(s, Add(x, y))
  BY <1>1, <1>2, <1>5 DEF Is, Equal, Add, R!Frac
<1>7. x # R!Infinity /\ R!IsFinite(s)
  BY <1>1, <1>6 DEF R!Infinity, R!Frac, R!IsFinite, Fractions
<1>8. R!Plus(x, y) = IF s.n > MaxFloat * s.d THEN R!Infinity ELSE s
  BY <1>1, <1>2, <1>4, <1>7 DEF R!Plus
<1>9. s.n > MaxFloat * s.d <=> ~ AtMost(s, Ceiling)
  <2>1. PICK e \in Nat, f \in Nat \ {0} : s.n = e /\ s.d = f
    BY <1>6, FractionParts
  <2> QED BY <2>1, MaxFloatAssumption DEF AtMost, Ceiling, R!Frac
<1>10. AtMost(Add(x, y), Ceiling) => AtMost(s, Ceiling)
  <2>1. Add(x, y) \in Fractions
    BY Closed
  <2>2. AtMost(s, Add(x, y))
    BY <1>6, <2>1, EqualIsAtMost
  <2> QED BY <1>6, <2>1, <2>2, AtMostTransitive, CeilingIs
<1> QED BY <1>6, <1>8, <1>9, <1>10 DEF IsSum

LEMMA TimesIs ==
  ASSUME NEW x \in Fractions, NEW y \in Fractions
  PROVE  R!Times(x, y) \in Fractions /\ Equal(R!Times(x, y), Mul(x, y))
<1>1. PICK a \in Nat, b \in Nat \ {0} : x.n = a /\ x.d = b
  BY FractionParts
<1>2. PICK c \in Nat, d \in Nat \ {0} : y.n = c /\ y.d = d
  BY FractionParts
<1>3. a * c \in Nat /\ b * d \in Nat \ {0}
  OBVIOUS
<1>4. Is(R!Reduced(a * c, b * d), a * c, b * d)
  BY <1>3, ReducedIs
<1> QED BY <1>1, <1>2, <1>4 DEF Is, Equal, Mul, R!Frac, R!Times

LEMMA OverIs ==
  ASSUME NEW x \in Fractions, NEW y \in Fractions, y.n # 0
  PROVE  R!Over(x, y) \in Fractions /\ Equal(Mul(R!Over(x, y), y), x)
<1>1. PICK a \in Nat, b \in Nat \ {0} : x.n = a /\ x.d = b
  BY FractionParts
<1>2. PICK c \in Nat \ {0}, d \in Nat \ {0} : y.n = c /\ y.d = d
  BY FractionParts
<1>3. a * d \in Nat /\ b * c \in Nat \ {0}
  OBVIOUS
<1>4. PICK q : q = R!Reduced(a * d, b * c)
  OBVIOUS
<1>5. Is(q, a * d, b * c)
  BY <1>3, <1>4, ReducedIs
<1>6. PICK e \in Nat, f \in Nat \ {0} : q.n = e /\ q.d = f
  BY <1>5, FractionParts DEF Is
<1>7. e * (b * c) = (a * d) * f
  BY <1>5, <1>6 DEF Is
<1>8. (e * c) * b = a * (f * d)
  <2>1. (e * c) * b = e * (b * c) /\ a * (f * d) = (a * d) * f
    OBVIOUS
  <2> QED BY <1>7, <2>1
<1> QED BY <1>1, <1>2, <1>4, <1>5, <1>6, <1>8 DEF Is, Equal, Mul, R!Frac, R!Over

\* ... and of what is none.
LEMMA OddParts == R!Infinity.n = 1 /\ R!Infinity.d = 0 /\ NoNumber.n = 0 /\ NoNumber.d = 0 /\ R!Infinity # NoNumber
  BY DEF R!Infinity, NoNumber, R!Frac

LEMMA FloatParts ==
  ASSUME NEW x \in Floats
  PROVE  x.n \in Nat /\ x.d \in Nat /\ (x.d # 0 <=> x \in Fractions)
  BY OddParts DEF Floats, Fractions

LEMMA PlusNoNumber ==
  ASSUME NEW x \in Floats PROVE R!Plus(x, NoNumber) = NoNumber /\ R!Plus(NoNumber, x) = NoNumber
<1>1. PICK a \in Nat, b \in Nat : x.n = a /\ x.d = b
  BY FloatParts
<1>2. a * 0 + 0 * b = 0 /\ 0 * b + a * 0 = 0 /\ b * 0 = 0 /\ 0 * b = 0
  OBVIOUS
<1>3. R!Reduced(0, 0) = NoNumber /\ ~ R!IsFinite(NoNumber) /\ NoNumber # R!Infinity
  BY OddParts, ReducedOdd DEF R!IsFinite
<1> QED BY <1>1, <1>2, <1>3, OddParts DEF R!Plus

LEMMA PlusInfinity ==
  ASSUME NEW x \in Fractions \cup {R!Infinity}
  PROVE  R!Plus(x, R!Infinity) = R!Infinity /\ R!Plus(R!Infinity, x) = R!Infinity
<1>1. CASE x = R!Infinity
  BY <1>1 DEF R!Plus
<1>2. CASE x \in Fractions
  <2>1. PICK a \in Nat, b \in Nat \ {0} : x.n = a /\ x.d = b
    BY <1>2, FractionParts
  <2>2. a * 0 + 1 * b = b /\ 1 * b + a * 0 = b /\ b * 0 = 0 /\ 0 * b = 0
    OBVIOUS
  <2>3. R!Reduced(b, 0) = R!Infinity /\ ~ R!IsFinite(R!Infinity)
    BY <2>1, OddParts, ReducedOdd DEF R!IsFinite
  <2> QED BY <2>1, <2>2, <2>3, OddParts DEF R!Plus
<1> QED BY <1>1, <1>2

LEMMA PlusIsFloat ==
  ASSUME NEW x \in Floats, NEW y \in Floats PROVE R!Plus(x, y) \in Floats
<1>1. CASE x = NoNumber \/ y = NoNumber
  BY <1>1, PlusNoNumber DEF Floats
<1>2. CASE x \in Fractions \cup {R!Infinity} /\ y \in Fractions \cup {R!Infinity}
  BY <1>2, PlusInfinity, PlusIs DEF Floats, IsSum
<1> QED BY <1>1, <1>2 DEF Floats

LEMMA TimesNoNumber == ASSUME NEW x \in Fractions PROVE R!Times(NoNumber, x) = NoNumber
<1>1. PICK a \in Nat, b \in Nat \ {0} : x.n = a /\ x.d = b
  BY FractionParts
<1>2. 0 * a = 0 /\ 0 * b = 0
  OBVIOUS
<1> QED BY <1>1, <1>2, OddParts, ReducedOdd DEF R!Times

LEMMA TimesZero == ASSUME NEW x \in Fractions PROVE R!Times(R!Zero, x) = R!Zero
<1>1. PICK a \in Nat, b \in Nat \ {0} : x.n = a /\ x.d = b
  BY FractionParts
<1>2. 0 * a = 0 /\ 1 * b = b
  OBVIOUS
<1> QED BY <1>1, <1>2, ReducedOdd DEF R!Times, R!Zero, R!Frac

LEMMA OverInfinity == ASSUME NEW x \in Fractions PROVE R!Over(x, R!Infinity) = R!Zero
<1>1. PICK a \in Nat, b \in Nat \ {0} : x.n = a /\ x.d = b
  BY FractionParts
<1>2. a * 0 = 0 /\ b * 1 = b
  OBVIOUS
<1> QED BY <1>1, <1>2, OddParts, ReducedOdd DEF R!Over

LEMMA OverNoNumber ==
  ASSUME NEW x \in Floats, NEW y \in {R!Infinity, NoNumber}, x \notin Fractions \/ y = NoNumber
  PROVE  R!Over(x, y) = NoNumber
<1>1. PICK a \in Nat, b \in Nat : x.n = a /\ x.d = b /\ (b # 0 <=> x \in Fractions)
  BY FloatParts
<1>2. a * 0 = 0 /\ b * 0 = 0 /\ 0 * 1 = 0
  OBVIOUS
<1>3. R!Reduced(0, 0) = NoNumber
  BY ReducedOdd
<1> QED BY <1>1, <1>2, <1>3, OddParts DEF R!Over

-----------------------------------------------------------------------------
\* The components are fractions up to one, as far as they apply.
CountsRight(f) ==
  /\ {f.fields, f.methods, f.accesses, f.branches, f.references, f.exported, f.documented} \subseteq Nat
  /\ f.accesses <= f.fields * f.methods
  /\ f.documented <= f.exported

IsShare(x) == x \in Fractions /\ AtMost(x, R!One)

LEMMA ShareIs == ASSUME NEW n \in Nat, NEW d \in Nat \ {0}, n <= d PROVE IsShare(R!Reduced(n, d))
<1>1. PICK x : x = R!Reduced(n, d)
  OBVIOUS
<1>2. x \in Fractions /\ x.n * d = n * x.d
  BY <1>1, ReducedIs DEF Is
<1>3. PICK a \in Nat, b \in Nat \ {0} : x.n = a /\ x.d = b
  BY <1>2, FractionParts
<1>4. a * d = n * b /\ n * b <= d * b
  BY <1>2, <1>3
<1>5. a <= b
  BY <1>4
<1>6. a * 1 <= 1 * b
  BY <1>5
<1> QED BY <1>1, <1>2, <1>3, <1>6 DEF IsShare, AtMost, R!One, R!Frac

LEMMA OneAndZero == R!One \in Fractions /\ R!Zero \in Fractions /\ IsShare(R!Zero) /\ IsShare(R!One)
  BY DEF R!One, R!Zero, R!Frac, Fractions, IsShare, AtMost

LEMMA OneMinusIs ==
  ASSUME NEW n \in Nat, NEW d \in Nat \ {0}, n <= d, NEW x, x.n = n, x.d = d
  PROVE  IsShare(R!OneMinus(x))
<1>1. d - n \in Nat /\ d - n <= d
  OBVIOUS
<1> QED BY <1>1, ShareIs DEF R!OneMinus

LEMMA CohesionIs ==
  ASSUME NEW f, CountsRight(f), f.fields # 0, f.methods # 0 PROVE IsShare(R!OneMinus(R!LCOM(f)))
<1>1. PICK a \in Nat, m \in Nat \ {0}, c \in Nat : a = f.accesses /\ m = f.fields * f.methods /\ a <= m
  <2>1. PICK b \in Nat \ {0}, m \in Nat \ {0} : b = f.fields /\ m = f.methods
    BY DEF CountsRight
  <2>2. b * m \in Nat \ {0}
    OBVIOUS
  <2> QED BY <2>1, <2>2 DEF CountsRight
<1>2. R!Frac(a, m).n = a /\ R!Frac(a, m).d = m
  BY DEF R!Frac
<1>3. IsShare(R!OneMinus(R!Frac(a, m)))
  BY <1>1, <1>2, OneMinusIs
<1>4. PICK x : x = R!LCOM(f) /\ IsShare(x)
  BY <1>1, <1>3 DEF R!LCOM
<1>5. PICK p \in Nat, q \in Nat \ {0} : x.n = p /\ x.d = q
  BY <1>4, FractionParts DEF IsShare
<1>6. p <= q
  <2>1. p * 1 <= 1 * q
    BY <1>4, <1>5 DEF IsShare, AtMost, R!One, R!Frac
  <2> QED BY <2>1
<1> QED BY <1>4, <1>5, <1>6, OneMinusIs

LEMMA IndependenceIs ==
  ASSUME NEW f, CountsRight(f) PROVE IsShare(R!OneMinus(R!Frac(f.references, f.references + 1)))
<1>1. PICK r \in Nat : r = f.references
  BY DEF CountsRight
<1>2. R!Frac(r, r + 1).n = r /\ R!Frac(r, r + 1).d = r + 1 /\ r + 1 \in Nat \ {0} /\ r <= r + 1
  BY DEF R!Frac
<1> QED BY <1>1, <1>2, OneMinusIs

LEMMA SimplicityIs ==
  ASSUME NEW f, CountsRight(f), f.methods # 0
  PROVE  IsShare(R!Over(R!One, R!Plus(R!One, R!Excess(R!AMC(f)))))
<1>1. PICK m \in Nat \ {0}, b \in Nat : m = f.methods /\ b = f.branches
  BY DEF CountsRight
<1>2. PICK e : e = R!Excess(R!AMC(f)) /\ e \in Fractions
  <2>1. R!AMC(f).n = m + b /\ R!AMC(f).d = m
    BY <1>1 DEF R!AMC, R!Frac
  <2>2. R!Excess(R!AMC(f)) = R!Frac(b, m)
    <3>1. ~ (m + b < m) /\ (m + b) - m = b
      OBVIOUS
    <3> QED BY <2>1, <3>1 DEF R!Excess
  <2>3. R!Frac(b, m) \in Fractions
    BY DEF R!Frac, Fractions
  <2> QED BY <2>2, <2>3
<1>3. PICK x : x = R!Plus(R!One, e)
  OBVIOUS
<1>4. CASE x = R!Infinity
  BY <1>2, <1>3, <1>4, OverInfinity, OneAndZero
<1>5. CASE IsSum(x, R!One, e)
  <2>1. PICK p \in Nat, q \in Nat \ {0} : x.n = p /\ x.d = q
    BY <1>5, FractionParts DEF IsSum
  <2>2. PICK c \in Nat, d \in Nat \ {0} : e.n = c /\ e.d = d
    BY <1>2, FractionParts
  <2>3. p * (1 * d) = (1 * d + c * 1) * q
    BY <1>5, <2>1, <2>2 DEF IsSum, Equal, Add, R!One, R!Frac
  <2>4. q <= p /\ p \in Nat \ {0}
    <3>1. p * d = d * q + c * q
      BY <2>3
    <3>2. c * q >= 0
      OBVIOUS
    <3>3. d * q <= p * d
      BY <3>1, <3>2
    <3>4. q <= p
      BY <3>3
    <3> QED BY <3>4
  <2>5. R!Over(R!One, x) = R!Reduced(q, p)
    <3>1. 1 * q = q /\ 1 * p = p
      OBVIOUS
    <3> QED BY <2>1, <3>1 DEF R!Over, R!One, R!Frac
  <2> QED BY <1>2, <1>3, <2>4, <2>5, ShareIs
<1> QED BY <1>2, <1>3, <1>4, <1>5, PlusIs, OneAndZero

LEMMA ComponentIs ==
  ASSUME NEW f, CountsRight(f), NEW k \in 1 .. 4, R!Applies(f)[k] PROVE IsShare(R!Component(f, k))
<1>1. CASE k = 1
  <2>1. f.fields # 0 /\ f.methods # 0
    BY <1>1 DEF R!Applies
  <2> QED BY <1>1, <2>1, CohesionIs DEF R!Component
<1>2. CASE k = 2
  BY <1>2, IndependenceIs DEF R!Component
<1>3. CASE k = 3
  <2>1. f.methods # 0
    BY <1>3 DEF R!Applies
  <2> QED BY <1>3, <2>1, SimplicityIs DEF R!Component
<1>4. CASE k = 4
  <2>1. f.exported # 0
    BY <1>4 DEF R!Applies
  <2>2. PICK n \in Nat, d \in Nat \ {0} : n = f.documented /\ d = f.exported /\ n <= d
    BY <2>1 DEF CountsRight
  <2>3. n * 1 <= 1 * d
    BY <2>2
  <2>4. IsShare(R!Frac(n, d))
    BY <2>2, <2>3 DEF IsShare, Fractions, AtMost, R!One, R!Frac
  <2> QED BY <1>4, <2>2, <2>4 DEF R!Component
<1> QED BY <1>1, <1>2, <1>3, <1>4

-----------------------------------------------------------------------------
\* One round of the weighted mean: with p the weight so far, w the next weight, of
\* total, v the mean so far, c the next component and q a bound.
LEMMA AddEqual ==
  ASSUME NEW x \in Fractions, NEW y \in Fractions, NEW u \in Fractions, NEW v \in Fractions,
         Equal(x, y), Equal(u, v)
  PROVE  Equal(Add(x, u), Add(y, v)) /\ Equal(Mul(x, u), Mul(y, v))
<1>1. AtMost(x, y) /\ AtMost(y, x) /\ AtMost(u, v) /\ AtMost(v, u)
  BY EqualIsAtMost
<1>2. AtMost(Add(x, u), Add(y, v)) /\ AtMost(Add(y, v), Add(x, u))
  BY <1>1, AddGrows
<1>3. AtMost(Mul(x, u), Mul(y, v)) /\ AtMost(Mul(y, v), Mul(x, u))
  BY <1>1, MulGrows
<1> QED BY <1>2, <1>3, Closed, EqualIsAtMost

LEMMA EqualSelf == ASSUME NEW x \in Fractions PROVE Equal(x, x)
  BY DEF Equal

LEMMA EqualTransitive ==
  ASSUME NEW x \in Fractions, NEW y \in Fractions, NEW z \in Fractions, Equal(x, y), Equal(y, z)
  PROVE  Equal(x, z) /\ Equal(z, x)
<1>1. AtMost(x, y) /\ AtMost(y, x) /\ AtMost(y, z) /\ AtMost(z, y)
  BY EqualIsAtMost
<1>2. AtMost(x, z) /\ AtMost(z, x)
  BY <1>1, AtMostTransitive
<1> QED BY <1>2, EqualIsAtMost

IsRound(p, w, total, v, c, s, t, p2, v2) ==
  /\ {p, w, total, v, c, s, t, p2, v2} \subseteq Fractions
  /\ Equal(p2, Add(p, w)) /\ Equal(Mul(s, total), w) /\ Equal(t, Mul(s, c)) /\ Equal(v2, Add(v, t))

LEMMA RoundScaled ==
  ASSUME NEW p, NEW w, NEW total, NEW v, NEW c, NEW s, NEW t, NEW p2, NEW v2,
         IsRound(p, w, total, v, c, s, t, p2, v2)
  PROVE  Equal(Mul(v2, total), Add(Mul(v, total), Mul(c, w)))
<1>1. /\ p \in Fractions /\ w \in Fractions /\ total \in Fractions /\ v \in Fractions /\ c \in Fractions
      /\ s \in Fractions /\ t \in Fractions /\ p2 \in Fractions /\ v2 \in Fractions
  BY DEF IsRound
<1>2. Add(v, t) \in Fractions /\ Mul(v, total) \in Fractions /\ Mul(t, total) \in Fractions
      /\ Mul(s, c) \in Fractions /\ Mul(s, total) \in Fractions /\ Mul(c, w) \in Fractions
  BY <1>1, Closed
<1>3. Equal(Mul(v2, total), Mul(Add(v, t), total))
  BY <1>1, <1>2, AddEqual, EqualSelf DEF IsRound
<1>4. Equal(Mul(Add(v, t), total), Add(Mul(v, total), Mul(t, total)))
  BY <1>1, Distributes
<1>5. Equal(Mul(t, total), Mul(c, w))
  <2>1. Equal(Mul(t, total), Mul(Mul(s, c), total))
    BY <1>1, <1>2, AddEqual, EqualSelf DEF IsRound
  <2>2. Mul(Mul(s, c), total) = Mul(c, Mul(s, total))
    BY <1>1, Rearranged
  <2>3. Equal(Mul(c, Mul(s, total)), Mul(c, w))
    BY <1>1, <1>2, AddEqual, EqualSelf DEF IsRound
  <2>4. Mul(c, Mul(s, total)) \in Fractions
    BY <1>1, <1>2, Closed
  <2> QED BY <1>2, <2>1, <2>2, <2>3, <2>4, EqualTransitive
<1>6. Equal(Add(Mul(v, total), Mul(t, total)), Add(Mul(v, total), Mul(c, w)))
  BY <1>2, <1>5, AddEqual, EqualSelf
<1>7. /\ Mul(v2, total) \in Fractions /\ Mul(Add(v, t), total) \in Fractions
      /\ Add(Mul(v, total), Mul(t, total)) \in Fractions /\ Add(Mul(v, total), Mul(c, w)) \in Fractions
  BY <1>1, <1>2, Closed
<1>8. Equal(Mul(v2, total), Add(Mul(v, total), Mul(t, total)))
  BY <1>3, <1>4, <1>7, EqualTransitive
<1> QED BY <1>6, <1>7, <1>8, EqualTransitive

LEMMA RoundBounds ==
  ASSUME NEW p, NEW w, NEW total, NEW v, NEW c, NEW s, NEW t, NEW p2, NEW v2,
         IsRound(p, w, total, v, c, s, t, p2, v2), NEW q \in Fractions
  PROVE  /\ AtMost(q, c) /\ AtMost(Mul(q, p), Mul(v, total)) => AtMost(Mul(q, p2), Mul(v2, total))
         /\ AtMost(c, q) /\ AtMost(Mul(v, total), Mul(q, p)) => AtMost(Mul(v2, total), Mul(q, p2))
<1>1. /\ p \in Fractions /\ w \in Fractions /\ total \in Fractions /\ v \in Fractions /\ c \in Fractions
      /\ p2 \in Fractions /\ v2 \in Fractions
  BY DEF IsRound
<1> DEFINE mean  == Add(Mul(v, total), Mul(c, w))
           bound == Add(Mul(q, p), Mul(q, w))
<1>2. /\ Mul(q, p) \in Fractions /\ Mul(v, total) \in Fractions /\ Mul(q, w) \in Fractions /\ Mul(c, w) \in Fractions
      /\ Mul(v2, total) \in Fractions /\ Mul(q, p2) \in Fractions /\ Add(p, w) \in Fractions
  BY <1>1, Closed
<1>3. mean \in Fractions /\ bound \in Fractions /\ Mul(q, Add(p, w)) \in Fractions
  BY <1>1, <1>2, Closed
<1>4. Equal(Mul(q, p2), bound)
  <2>1. Equal(Mul(q, p2), Mul(q, Add(p, w)))
    BY <1>1, <1>2, AddEqual, EqualSelf DEF IsRound
  <2>2. Equal(Mul(q, Add(p, w)), bound)
    BY <1>1, Distributes
  <2> QED BY <1>2, <1>3, <2>1, <2>2, EqualTransitive
<1>5. Equal(Mul(v2, total), mean)
  BY RoundScaled
<1>6. AtMost(w, w)
  BY <1>1, EqualSelf, EqualIsAtMost
<1>7. AtMost(q, c) => AtMost(Mul(q, w), Mul(c, w))
  BY <1>1, <1>6, MulGrows
<1>8. AtMost(c, q) => AtMost(Mul(c, w), Mul(q, w))
  BY <1>1, <1>6, MulGrows
<1>9. AtMost(q, c) /\ AtMost(Mul(q, p), Mul(v, total)) => AtMost(bound, mean)
  BY <1>2, <1>7, AddGrows
<1>10. AtMost(c, q) /\ AtMost(Mul(v, total), Mul(q, p)) => AtMost(mean, bound)
  BY <1>2, <1>8, AddGrows
<1> HIDE DEF mean, bound
<1>11. AtMost(Mul(q, p2), bound) /\ AtMost(bound, Mul(q, p2)) /\ AtMost(Mul(v2, total), mean) /\ AtMost(mean, Mul(v2, total))
  BY <1>2, <1>3, <1>4, <1>5, EqualIsAtMost
<1>12. AtMost(bound, mean) => AtMost(Mul(q, p2), Mul(v2, total))
  BY <1>2, <1>3, <1>11, AtMostTransitive
<1>13. AtMost(mean, bound) => AtMost(Mul(v2, total), Mul(q, p2))
  BY <1>2, <1>3, <1>11, AtMostTransitive
<1> QED BY <1>9, <1>10, <1>12, <1>13

\* What is at most another, scaled alike, is so unscaled.
LEMMA Unscaled ==
  ASSUME NEW x \in Fractions, NEW y \in Fractions, NEW z \in Fractions, z.n # 0
  PROVE  AtMost(Mul(x, z), Mul(y, z)) => AtMost(x, y)
<1>1. PICK a \in Nat, b \in Nat \ {0} : x.n = a /\ x.d = b
  BY FractionParts
<1>2. PICK c \in Nat, d \in Nat \ {0} : y.n = c /\ y.d = d
  BY FractionParts
<1>3. PICK e \in Nat \ {0}, f \in Nat \ {0} : z.n = e /\ z.d = f
  BY FractionParts
<1>4. e * f \in Nat \ {0} /\ a * d \in Nat /\ c * b \in Nat
  OBVIOUS
<1>5. (a * e) * (d * f) = (a * d) * (e * f) /\ (c * e) * (b * f) = (c * b) * (e * f)
  OBVIOUS
<1>6. \A g \in Nat, h \in Nat, m \in Nat \ {0} : g * m <= h * m => g <= h
  OBVIOUS
<1>7. (a * e) * (d * f) <= (c * e) * (b * f) => a * d <= c * b
  BY <1>4, <1>5, <1>6
<1> QED BY <1>1, <1>2, <1>3, <1>7 DEF AtMost, Mul, R!Frac

-----------------------------------------------------------------------------
\* The partial sums of the weights that count, from none of them to all four.
Added(f, w, s, k) == IF k \in R!Counted(f) THEN R!Plus(s, w[k]) ELSE s
SumOf1(f, w)  == Added(f, w, R!Zero, 1)
SumOf2(f, w)  == Added(f, w, SumOf1(f, w), 2)
SumOf3(f, w)  == Added(f, w, SumOf2(f, w), 3)
SumOf4(f, w)  == Added(f, w, SumOf3(f, w), 4)
Partial(f, w) == <<R!Zero, SumOf1(f, w), SumOf2(f, w), SumOf3(f, w), SumOf4(f, w)>>
Total(f, w)   == Partial(f, w)[5]

AreFloats(w) == \A k \in 1 .. 4 : w[k] \in Floats

LEMMA PartialIs ==
  ASSUME NEW f, NEW w
  PROVE  Partial(f, w)[1] = R!Zero /\ \A k \in 1 .. 4 : Partial(f, w)[k + 1] = Added(f, w, Partial(f, w)[k], k)
<1>1. /\ Partial(f, w)[1] = R!Zero
      /\ Partial(f, w)[2] = SumOf1(f, w) /\ Partial(f, w)[3] = SumOf2(f, w)
      /\ Partial(f, w)[4] = SumOf3(f, w) /\ Partial(f, w)[5] = SumOf4(f, w)
  BY DEF Partial
<1>2. /\ Partial(f, w)[2] = Added(f, w, Partial(f, w)[1], 1) /\ Partial(f, w)[3] = Added(f, w, Partial(f, w)[2], 2)
      /\ Partial(f, w)[4] = Added(f, w, Partial(f, w)[3], 3) /\ Partial(f, w)[5] = Added(f, w, Partial(f, w)[4], 4)
  BY <1>1, Zenon DEF SumOf1, SumOf2, SumOf3, SumOf4
<1> QED BY <1>1, <1>2

\* A sum is odd exactly if a part is or it overflows; an odd part leaves no fraction.
LEMMA PlusOdd ==
  ASSUME NEW x \in Floats, NEW y \in Floats, x \notin Fractions \/ y \notin Fractions
  PROVE  R!Plus(x, y) \in Floats \ Fractions
<1>0. R!Infinity \notin Fractions /\ NoNumber \notin Fractions
  BY FloatParts, OddParts DEF Floats
<1>1. CASE x = NoNumber \/ y = NoNumber
  BY <1>0, <1>1, PlusNoNumber DEF Floats
<1>2. CASE x \in Fractions \cup {R!Infinity} /\ y \in Fractions \cup {R!Infinity}
  BY <1>0, <1>2, PlusInfinity DEF Floats
<1> QED BY <1>1, <1>2 DEF Floats

\* What is added makes a sum no smaller.
LEMMA SumIsMore ==
  ASSUME NEW x \in Fractions, NEW y \in Fractions, NEW s, IsSum(s, x, y)
  PROVE  AtMost(x, s)
<1>1. PICK a \in Nat, b \in Nat \ {0} : x.n = a /\ x.d = b
  BY FractionParts
<1>2. PICK c \in Nat, d \in Nat \ {0} : y.n = c /\ y.d = d
  BY FractionParts
<1>3. a * d + c * b \in Nat /\ b * d \in Nat \ {0} /\ a * (b * d) = (a * d) * b /\ (a * d + c * b) * b = (a * d) * b + (c * b) * b
      /\ (c * b) * b \in Nat /\ (a * d) * b \in Nat
  OBVIOUS
<1>4. a * (b * d) <= (a * d + c * b) * b
  BY <1>3
<1>5. AtMost(x, Add(x, y)) /\ Add(x, y) \in Fractions
  BY <1>1, <1>2, <1>4, Closed DEF AtMost, Add, R!Frac
<1> QED BY <1>5, EqualIsAtMost, AtMostTransitive DEF IsSum

LEMMA PartialFloats ==
  ASSUME NEW f, NEW w, AreFloats(w) PROVE \A k \in 1 .. 5 : Partial(f, w)[k] \in Floats
<1>1. ASSUME NEW s \in Floats, NEW k \in 1 .. 4 PROVE Added(f, w, s, k) \in Floats
  BY <1>1, PlusIsFloat DEF Added, AreFloats
<1>2. Partial(f, w)[1] \in Floats
  BY PartialIs, OneAndZero DEF Floats
<1>3. \A k \in 1 .. 4 : Partial(f, w)[k] \in Floats => Partial(f, w)[k + 1] \in Floats
  BY <1>1, PartialIs
<1> QED BY <1>2, <1>3

\* A finite total has finite parts, each partial sum at most the next.
AddsUp(f, w, k) ==
  /\ Partial(f, w)[k] \in Fractions /\ AtMost(Partial(f, w)[k], Partial(f, w)[k + 1])
  /\ k \in R!Counted(f) => w[k] \in Fractions /\ IsSum(Partial(f, w)[k + 1], Partial(f, w)[k], w[k])
  /\ k \notin R!Counted(f) => Partial(f, w)[k + 1] = Partial(f, w)[k]

LEMMA PartsAddUp ==
  ASSUME NEW f, NEW w, AreFloats(w), NEW k \in 1 .. 4, Partial(f, w)[k + 1] \in Fractions
  PROVE  AddsUp(f, w, k)
<1>1. PICK s \in Floats : s = Partial(f, w)[k]
  BY PartialFloats
<1>2. PICK z : z = Partial(f, w)[k + 1]
  OBVIOUS
<1>3. z = Added(f, w, s, k) /\ z \in Fractions
  BY <1>1, <1>2, PartialIs
<1>4. CASE k \in R!Counted(f)
  <2>1. z = R!Plus(s, w[k]) /\ w[k] \in Floats
    BY <1>3, <1>4 DEF Added, AreFloats
  <2>2. s \in Fractions /\ w[k] \in Fractions
    BY <1>3, <2>1, PlusOdd
  <2>3. R!Infinity \notin Fractions
    BY FloatParts, OddParts DEF Floats
  <2>4. IsSum(z, s, w[k])
    BY <1>3, <2>1, <2>2, <2>3, PlusIs
  <2> QED BY <1>1, <1>2, <1>4, <2>2, <2>4, SumIsMore DEF AddsUp
<1>5. CASE k \notin R!Counted(f)
  <2>1. z = s
    BY <1>3, <1>5 DEF Added
  <2>2. AtMost(s, s)
    BY <1>3, <2>1, EqualSelf, EqualIsAtMost
  <2> QED BY <1>1, <1>2, <1>3, <1>5, <2>1, <2>2 DEF AddsUp
<1> QED BY <1>4, <1>5

LEMMA TotalAddsUp ==
  ASSUME NEW f, NEW w, AreFloats(w), Total(f, w) \in Fractions
  PROVE  /\ \A k \in 1 .. 4 : AddsUp(f, w, k)
         /\ \A k \in 1 .. 5 : Partial(f, w)[k] \in Fractions /\ AtMost(Partial(f, w)[k], Total(f, w))
         /\ AtMost(Total(f, w), Ceiling)
<1>1. Partial(f, w)[5] \in Fractions
  BY DEF Total
<1>2. \A k \in 1 .. 4 : Partial(f, w)[k + 1] \in Fractions => AddsUp(f, w, k)
  BY PartsAddUp
<1>3. \A k \in 1 .. 4 : Partial(f, w)[k + 1] \in Fractions => Partial(f, w)[k] \in Fractions
  BY <1>2 DEF AddsUp
<1>4. \A k \in 1 .. 5 : Partial(f, w)[k] \in Fractions
  BY <1>1, <1>3
<1>5. \A k \in 1 .. 4 : AddsUp(f, w, k)
  BY <1>2, <1>4
<1> DEFINE P(k) == Partial(f, w)[k]
<1>6. P(1) \in Fractions /\ P(2) \in Fractions /\ P(3) \in Fractions /\ P(4) \in Fractions /\ P(5) \in Fractions
  BY <1>4
<1>7. AtMost(P(1), P(2)) /\ AtMost(P(2), P(3)) /\ AtMost(P(3), P(4)) /\ AtMost(P(4), P(5)) /\ AtMost(P(5), P(5))
  <2>1. \A k \in 1 .. 4 : AtMost(Partial(f, w)[k], Partial(f, w)[k + 1])
    BY <1>5, Zenon DEF AddsUp
  <2>2. AtMost(P(5), P(5))
    BY <1>6, EqualSelf, EqualIsAtMost
  <2> QED BY <2>1, <2>2
<1>8. \A k \in 1 .. 5 : AtMost(P(k), P(5))
  <2> HIDE DEF P
  <2>1. AtMost(P(3), P(5))
    BY <1>6, <1>7, AtMostTransitive
  <2>2. AtMost(P(2), P(5))
    BY <1>6, <1>7, <2>1, AtMostTransitive
  <2>3. AtMost(P(1), P(5))
    BY <1>6, <1>7, <2>2, AtMostTransitive
  <2> QED BY <1>7, <2>1, <2>2, <2>3
<1>9. \A k \in 1 .. 5 : AtMost(P(k), Ceiling)
  <2>1. AtMost(P(1), Ceiling)
    BY PartialIs, MaxFloatAssumption DEF AtMost, R!Zero, R!Frac, Ceiling
  <2>2. \A k \in 1 .. 4 : AtMost(P(k), Ceiling) => AtMost(P(k + 1), Ceiling)
    BY <1>5 DEF AddsUp, IsSum
  <2> HIDE DEF P
  <2> QED BY <2>1, <2>2
<1> QED BY <1>4, <1>5, <1>8, <1>9 DEF Total

\* Fractions add up to one or overflow.
LEMMA TotalIsNumber ==
  ASSUME NEW f, NEW w, \A k \in R!Counted(f) : w[k] \in Fractions
  PROVE  Total(f, w) \in Fractions \cup {R!Infinity}
<1> DEFINE N == Fractions \cup {R!Infinity}
<1>1. ASSUME NEW s \in N, NEW k \in 1 .. 4 PROVE Added(f, w, s, k) \in N
  <2>1. CASE k \in R!Counted(f)
    <3>1. Added(f, w, s, k) = R!Plus(s, w[k]) /\ w[k] \in Fractions
      BY <2>1 DEF Added
    <3> QED BY <1>1, <3>1, PlusIs, PlusInfinity DEF IsSum
  <2>2. CASE k \notin R!Counted(f)
    BY <1>1, <2>2 DEF Added
  <2> QED BY <2>1, <2>2
<1>2. Partial(f, w)[1] \in N
  BY PartialIs, OneAndZero
<1>3. \A k \in 1 .. 4 : Partial(f, w)[k] \in N => Partial(f, w)[k + 1] \in N
  BY <1>1, PartialIs
<1> HIDE DEF N
<1>4. Partial(f, w)[5] \in N
  BY <1>2, <1>3
<1> QED BY <1>4 DEF N, Total

\* A total is no number as soon as a weight that counts is none.
LEMMA TotalIsOdd ==
  ASSUME NEW f, NEW w, AreFloats(w), NEW k \in R!Counted(f), w[k] \notin Fractions
  PROVE  Total(f, w) \in {R!Infinity, NoNumber}
<1>1. k \in 1 .. 4 /\ Total(f, w) \in Floats
  BY PartialFloats DEF R!Counted, Total
<1>2. Total(f, w) \notin Fractions
  BY <1>1, TotalAddsUp DEF AddsUp
<1> QED BY <1>1, <1>2 DEF Floats

-----------------------------------------------------------------------------
\* The components that are weighed, and the mean of those before the k-th, v,
\* scaled by the total: between bounds that are components, and at most one.
WeighedOf(f, w) == {k \in 1 .. 4 : R!Applies(f)[k] /\ ~ R!IsZero(w[k])}
SomeIsOdd(f, w, n) == \E j \in WeighedOf(f, w) : j < n /\ w[j] \notin Fractions

NotBelow(f, w, p, m) == \E j \in WeighedOf(f, w) : AtMost(Mul(R!Component(f, j), p), m)
NotAbove(f, w, p, m) == \E j \in WeighedOf(f, w) : AtMost(m, Mul(R!Component(f, j), p))
IsMean(f, w, p, v) ==
  /\ v \in Fractions
  /\ AtMost(Mul(v, Total(f, w)), Mul(R!One, p))
  /\ \/ p.n = 0 /\ v.n = 0
     \/ /\ NotBelow(f, w, p, Mul(v, Total(f, w)))
        /\ NotAbove(f, w, p, Mul(v, Total(f, w)))

\* The value before the k-th component.
ValueRight(f, w, k, v) ==
  /\ v \in Floats
  /\ SomeIsOdd(f, w, k) => v = NoNumber
  /\ ~ SomeIsOdd(f, w, 5) =>
       IF Total(f, w) \in Fractions THEN IsMean(f, w, Partial(f, w)[k], v) ELSE v = R!Zero

NextValue(f, w, k, v) ==
  IF R!Applies(f)[k] THEN R!Plus(v, R!Times(R!Share(w[k], Total(f, w)), R!Component(f, k))) ELSE v

\* Weights that count and are not odd are fractions.
LEMMA CountedIs ==
  ASSUME NEW f, NEW w, AreFloats(w), NEW n, NEW j \in 1 .. 4, R!Applies(f)[j], j < n, ~ SomeIsOdd(f, w, n)
  PROVE  w[j] \in Fractions
<1>1. CASE R!IsZero(w[j])
  BY <1>1, FloatParts DEF R!IsZero, R!IsFinite, AreFloats
<1>2. CASE ~ R!IsZero(w[j])
  BY <1>2 DEF SomeIsOdd, WeighedOf
<1> QED BY <1>1, <1>2

\* A weight of zero leaves the round as it is whatever the component.
LEMMA WeightlessRound ==
  ASSUME NEW p, NEW w, NEW total, NEW v, NEW c, NEW s, NEW t, NEW p2, NEW v2,
         IsRound(p, w, total, v, c, s, t, p2, v2), w.n = 0, total.n # 0, NEW q \in Fractions
  PROVE  IsRound(p, w, total, v, q, s, t, p2, v2) /\ (p.n = 0 => p2.n = 0) /\ (v.n = 0 => v2.n = 0)
<1>1. /\ p \in Fractions /\ w \in Fractions /\ total \in Fractions /\ v \in Fractions /\ c \in Fractions
      /\ s \in Fractions /\ t \in Fractions /\ p2 \in Fractions /\ v2 \in Fractions
  BY DEF IsRound
<1>2. s.n = 0
  <2>1. PICK a \in Nat, b \in Nat \ {0} : s.n = a /\ s.d = b
    BY <1>1, FractionParts
  <2>2. PICK e \in Nat \ {0}, g \in Nat \ {0} : total.n = e /\ total.d = g
    BY <1>1, FractionParts
  <2>3. PICK h \in Nat \ {0} : w.d = h
    BY <1>1, FractionParts
  <2>4. (a * e) * h = 0 * (b * g)
    BY <2>1, <2>2, <2>3 DEF IsRound, Equal, Mul, R!Frac
  <2>5. (a * e) * h = a * (e * h) /\ e * h \in Nat \ {0} /\ 0 * (b * g) = 0
    OBVIOUS
  <2>6. \A x \in Nat, y \in Nat \ {0} : x * y = 0 => x = 0
    OBVIOUS
  <2> QED BY <2>1, <2>4, <2>5, <2>6
<1>3. t.n = 0
  <2>1. PICK a \in Nat, b \in Nat \ {0} : t.n = a /\ t.d = b
    BY <1>1, FractionParts
  <2>2. PICK e \in Nat, g \in Nat \ {0} : c.n = e /\ c.d = g
    BY <1>1, FractionParts
  <2>3. PICK h \in Nat \ {0} : s.d = h
    BY <1>1, FractionParts
  <2>4. a * (h * g) = (0 * e) * b
    BY <1>2, <2>1, <2>2, <2>3 DEF IsRound, Equal, Mul, R!Frac
  <2>5. h * g \in Nat \ {0} /\ (0 * e) * b = 0
    OBVIOUS
  <2>6. \A x \in Nat, y \in Nat \ {0} : x * y = 0 => x = 0
    OBVIOUS
  <2> QED BY <2>1, <2>4, <2>5, <2>6
<1>4. Equal(t, Mul(s, q))
  <2>1. PICK e \in Nat, g \in Nat \ {0} : q.n = e /\ q.d = g
    BY FractionParts
  <2>2. PICK h \in Nat \ {0}, b \in Nat \ {0} : s.d = h /\ t.d = b
    BY <1>1, FractionParts
  <2>3. 0 * (h * g) = (0 * e) * b
    OBVIOUS
  <2> QED BY <1>2, <1>3, <2>1, <2>2, <2>3 DEF Equal, Mul, R!Frac
<1>5. ASSUME NEW x \in Fractions, NEW y \in Fractions, NEW z \in Fractions, x.n = 0, y.n = 0, Equal(z, Add(x, y))
      PROVE  z.n = 0
  <2>1. PICK a \in Nat, b \in Nat \ {0} : z.n = a /\ z.d = b
    BY <1>5, FractionParts
  <2>2. PICK g \in Nat \ {0}, h \in Nat \ {0} : x.d = g /\ y.d = h
    BY <1>5, FractionParts
  <2>3. a * (g * h) = (0 * h + 0 * g) * b
    BY <1>5, <2>1, <2>2 DEF Equal, Add, R!Frac
  <2>4. g * h \in Nat \ {0} /\ (0 * h + 0 * g) * b = 0
    OBVIOUS
  <2>5. \A k \in Nat, m \in Nat \ {0} : k * m = 0 => k = 0
    OBVIOUS
  <2> QED BY <2>1, <2>3, <2>4, <2>5
<1>6. Equal(p2, Add(p, w)) /\ Equal(v2, Add(v, t))
  BY DEF IsRound
<1>7. p.n = 0 => p2.n = 0
  BY <1>1, <1>5, <1>6
<1>8. v.n = 0 => v2.n = 0
  BY <1>1, <1>3, <1>5, <1>6
<1> QED BY <1>4, <1>7, <1>8 DEF IsRound

\* What is nothing, scaled, is nothing.
LEMMA NothingScaled ==
  ASSUME NEW x \in Fractions, NEW y \in Fractions, x.n = 0
  PROVE  Mul(x, y).n = 0 /\ Mul(y, x).n = 0
<1>1. PICK e \in Nat, g \in Nat \ {0} : y.n = e /\ y.d = g
  BY FractionParts
<1>2. PICK h \in Nat \ {0} : x.d = h
  BY FractionParts
<1>3. 0 * e = 0 /\ e * 0 = 0
  OBVIOUS
<1> QED BY <1>1, <1>2, <1>3 DEF Mul, R!Frac

LEMMA NothingIsAtMost ==
  ASSUME NEW x \in Fractions, NEW y \in Fractions, x.n = 0 PROVE AtMost(x, y)
<1>1. PICK e \in Nat, g \in Nat \ {0} : y.n = e /\ y.d = g
  BY FractionParts
<1>2. PICK h \in Nat \ {0} : x.d = h
  BY FractionParts
<1>3. 0 * g <= e * h
  OBVIOUS
<1> QED BY <1>1, <1>2, <1>3 DEF AtMost

\* A bound of the rounds so far is kept or replaced by the component of this one.
Round(f, w, k, p, v, s, t, p2, v2) == IsRound(p, w[k], Total(f, w), v, R!Component(f, k), s, t, p2, v2)

LEMMA BoundsKept ==
  ASSUME NEW f, NEW w, CountsRight(f), NEW k \in 1 .. 4, R!Applies(f)[k], Total(f, w).n # 0,
         NEW p, NEW v, NEW s, NEW t, NEW p2, NEW v2, Round(f, w, k, p, v, s, t, p2, v2),
         \/ p.n = 0 /\ v.n = 0
         \/ NotBelow(f, w, p, Mul(v, Total(f, w))) /\ NotAbove(f, w, p, Mul(v, Total(f, w)))
  PROVE  \/ p2.n = 0 /\ v2.n = 0
         \/ NotBelow(f, w, p2, Mul(v2, Total(f, w))) /\ NotAbove(f, w, p2, Mul(v2, Total(f, w)))
<1> DEFINE S    == Total(f, w)
           C(j) == R!Component(f, j)
<1>1. IsRound(p, w[k], S, v, C(k), s, t, p2, v2)
  BY DEF Round
<1>2. /\ p \in Fractions /\ w[k] \in Fractions /\ S \in Fractions /\ v \in Fractions /\ C(k) \in Fractions
      /\ p2 \in Fractions /\ v2 \in Fractions
  BY <1>1 DEF IsRound
<1>3. \A j \in WeighedOf(f, w) : C(j) \in Fractions
  BY ComponentIs DEF WeighedOf, IsShare
<1>4. Mul(v, S) \in Fractions /\ Mul(v2, S) \in Fractions /\ Mul(C(k), p) \in Fractions
  BY <1>2, Closed
<1>5. AtMost(C(k), C(k)) /\ AtMost(p, p)
  BY <1>2, EqualSelf, EqualIsAtMost
<1> HIDE DEF S, C
<1>6. CASE w[k].n = 0
  <2>1. \A q \in Fractions : IsRound(p, w[k], S, v, q, s, t, p2, v2)
    BY <1>1, <1>6, WeightlessRound DEF S
  <2>2. (p.n = 0 => p2.n = 0) /\ (v.n = 0 => v2.n = 0)
    BY <1>1, <1>2, <1>6, WeightlessRound DEF S
  <2>3. ASSUME NEW q \in Fractions
        PROVE  /\ AtMost(Mul(q, p), Mul(v, S)) => AtMost(Mul(q, p2), Mul(v2, S))
               /\ AtMost(Mul(v, S), Mul(q, p)) => AtMost(Mul(v2, S), Mul(q, p2))
    <3>1. IsRound(p, w[k], S, v, q, s, t, p2, v2) /\ AtMost(q, q)
      BY <2>1, EqualSelf, EqualIsAtMost
    <3> QED BY <3>1, RoundBounds
  <2>4. NotBelow(f, w, p, Mul(v, S)) => NotBelow(f, w, p2, Mul(v2, S))
    BY <1>3, <2>3 DEF NotBelow, C
  <2>5. NotAbove(f, w, p, Mul(v, S)) => NotAbove(f, w, p2, Mul(v2, S))
    BY <1>3, <2>3 DEF NotAbove, C
  <2> QED BY <2>2, <2>4, <2>5 DEF S
<1>7. CASE w[k].n # 0
  <2>1. k \in WeighedOf(f, w)
    BY <1>7 DEF WeighedOf, R!IsZero
  <2>2. AtMost(Mul(C(k), p), Mul(v, S)) => NotBelow(f, w, p2, Mul(v2, S))
    <3>1. AtMost(Mul(C(k), p), Mul(v, S)) => AtMost(Mul(C(k), p2), Mul(v2, S))
      BY <1>1, <1>2, <1>5, RoundBounds
    <3> QED BY <2>1, <3>1 DEF NotBelow, C
  <2>3. AtMost(Mul(v, S), Mul(C(k), p)) => NotAbove(f, w, p2, Mul(v2, S))
    <3>1. AtMost(Mul(v, S), Mul(C(k), p)) => AtMost(Mul(v2, S), Mul(C(k), p2))
      BY <1>1, <1>2, <1>5, RoundBounds
    <3> QED BY <2>1, <3>1 DEF NotAbove, C
  <2>4. ASSUME NEW j \in WeighedOf(f, w), AtMost(Mul(C(j), p), Mul(v, S))
        PROVE  NotBelow(f, w, p2, Mul(v2, S))
    <3>1. C(j) \in Fractions /\ Mul(C(j), p) \in Fractions
      BY <1>2, <1>3, Closed
    <3>2. CASE AtMost(C(j), C(k))
      <4>1. AtMost(Mul(C(j), p2), Mul(v2, S))
        BY <1>1, <2>4, <3>1, <3>2, RoundBounds
      <4> QED BY <4>1 DEF NotBelow, C
    <3>3. CASE AtMost(C(k), C(j))
      <4>1. AtMost(Mul(C(k), p), Mul(C(j), p))
        BY <1>2, <1>5, <3>1, <3>3, MulGrows
      <4>2. AtMost(Mul(C(k), p), Mul(v, S))
        BY <1>4, <2>4, <3>1, <4>1, AtMostTransitive
      <4> QED BY <2>2, <4>2
    <3> QED BY <1>2, <3>1, <3>2, <3>3, AtMostTotal
  <2>5. ASSUME NEW j \in WeighedOf(f, w), AtMost(Mul(v, S), Mul(C(j), p))
        PROVE  NotAbove(f, w, p2, Mul(v2, S))
    <3>1. C(j) \in Fractions /\ Mul(C(j), p) \in Fractions
      BY <1>2, <1>3, Closed
    <3>2. CASE AtMost(C(k), C(j))
      <4>1. AtMost(Mul(v2, S), Mul(C(j), p2))
        BY <1>1, <2>5, <3>1, <3>2, RoundBounds
      <4> QED BY <4>1 DEF NotAbove, C
    <3>3. CASE AtMost(C(j), C(k))
      <4>1. AtMost(Mul(C(j), p), Mul(C(k), p))
        BY <1>2, <1>5, <3>1, <3>3, MulGrows
      <4>2. AtMost(Mul(v, S), Mul(C(k), p))
        BY <1>4, <2>5, <3>1, <4>1, AtMostTransitive
      <4> QED BY <2>3, <4>2
    <3> QED BY <1>2, <3>1, <3>2, <3>3, AtMostTotal
  <2>6. CASE p.n = 0 /\ v.n = 0
    <3>1. Mul(C(k), p).n = 0 /\ Mul(v, S).n = 0
      BY <1>2, <2>6, NothingScaled
    <3>2. AtMost(Mul(C(k), p), Mul(v, S)) /\ AtMost(Mul(v, S), Mul(C(k), p))
      BY <1>4, <3>1, NothingIsAtMost
    <3> QED BY <2>2, <2>3, <3>2 DEF S
  <2>7. CASE NotBelow(f, w, p, Mul(v, S)) /\ NotAbove(f, w, p, Mul(v, S))
    <3>1. NotBelow(f, w, p2, Mul(v2, S))
      BY <2>4, <2>7 DEF NotBelow, C
    <3>2. NotAbove(f, w, p2, Mul(v2, S))
      BY <2>5, <2>7 DEF NotAbove, C
    <3> QED BY <3>1, <3>2 DEF S
  <2> QED BY <2>6, <2>7 DEF S
<1> QED BY <1>6, <1>7

\* One round keeps the mean: no part of it overflows, as it is at most one.
LEMMA MeanSteps ==
  ASSUME NEW f, NEW w, CountsRight(f), AreFloats(w), Total(f, w) \in Fractions, Total(f, w).n # 0,
         NEW k \in 1 .. 4, NEW v, IsMean(f, w, Partial(f, w)[k], v)
  PROVE  IsMean(f, w, Partial(f, w)[k + 1], NextValue(f, w, k, v))
<1>0. AddsUp(f, w, k) /\ Partial(f, w)[k + 1] \in Fractions /\ AtMost(Partial(f, w)[k + 1], Total(f, w))
      /\ AtMost(Total(f, w), Ceiling)
  BY TotalAddsUp
<1>1. CASE ~ R!Applies(f)[k]
  <2>1. Partial(f, w)[k + 1] = Partial(f, w)[k]
    BY <1>0, <1>1 DEF AddsUp, R!Counted
  <2> QED BY <1>1, <2>1 DEF NextValue
<1>2. CASE R!Applies(f)[k]
  <2>1. PICK S : S = Total(f, w)
    OBVIOUS
  <2>2. PICK p : p = Partial(f, w)[k]
    OBVIOUS
  <2>3. PICK p2 : p2 = Partial(f, w)[k + 1]
    OBVIOUS
  <2>4. PICK c : c = R!Component(f, k)
    OBVIOUS
  <2>5. /\ S \in Fractions /\ S.n # 0 /\ p \in Fractions /\ p2 \in Fractions /\ w[k] \in Fractions
        /\ IsSum(p2, p, w[k]) /\ AtMost(p2, S) /\ AtMost(S, Ceiling) /\ v \in Fractions
        /\ AtMost(Mul(v, S), Mul(R!One, p))
    BY <1>0, <1>2, <2>1, <2>2, <2>3 DEF AddsUp, R!Counted, IsMean
  <2>6. c \in Fractions /\ AtMost(c, R!One)
    BY <1>2, <2>4, ComponentIs DEF IsShare
  <2>7. PICK s : s = R!Over(w[k], S)
    OBVIOUS
  <2>8. PICK t : t = R!Times(s, c)
    OBVIOUS
  <2>9. s \in Fractions /\ Equal(Mul(s, S), w[k])
    BY <2>5, <2>7, OverIs
  <2>10. t \in Fractions /\ Equal(t, Mul(s, c))
    BY <2>6, <2>8, <2>9, TimesIs
  <2>11. ASSUME NEW v2 \in Fractions, Equal(v2, Add(v, t))
         PROVE  IsRound(p, w[k], S, v, c, s, t, p2, v2) /\ AtMost(Mul(v2, S), Mul(R!One, p2))
    <3>1. IsRound(p, w[k], S, v, c, s, t, p2, v2)
      BY <2>5, <2>6, <2>9, <2>10, <2>11 DEF IsRound, IsSum
    <3> QED BY <2>5, <2>6, <3>1, OneAndZero, RoundBounds
  <2>12. Add(v, t) \in Fractions /\ Equal(Add(v, t), Add(v, t))
    BY <2>5, <2>10, Closed, EqualSelf
  <2>13. AtMost(Add(v, t), R!One)
    <3>1. AtMost(Mul(Add(v, t), S), Mul(R!One, p2))
      BY <2>11, <2>12
    <3>2. R!One \in Fractions /\ AtMost(R!One, R!One)
      BY OneAndZero DEF IsShare
    <3>3. AtMost(Mul(R!One, p2), Mul(R!One, S))
      BY <2>5, <3>2, MulGrows
    <3>4. Mul(Add(v, t), S) \in Fractions /\ Mul(R!One, p2) \in Fractions /\ Mul(R!One, S) \in Fractions
      BY <2>5, <2>12, <3>2, Closed
    <3>5. AtMost(Mul(Add(v, t), S), Mul(R!One, S))
      BY <3>1, <3>3, <3>4, AtMostTransitive
    <3> QED BY <2>5, <2>12, <3>2, <3>5, Unscaled
  <2>14. AtMost(R!One, Ceiling)
    <3>1. PICK a \in Nat \ {0}, b \in Nat \ {0} : S.n = a /\ S.d = b
      BY <2>5, FractionParts
    <3>2. PICK m \in Nat : m = MaxFloat
      BY MaxFloatAssumption
    <3>3. a * 1 <= m * b
      BY <2>5, <3>1, <3>2 DEF AtMost, Ceiling, R!Frac
    <3>4. m # 0
      BY <3>3
    <3>5. 1 * 1 <= m * 1
      BY <3>4
    <3> QED BY <3>2, <3>5 DEF AtMost, Ceiling, R!One, R!Frac
  <2>15. AtMost(Add(v, t), Ceiling)
    BY <2>12, <2>13, <2>14, OneAndZero, CeilingIs, AtMostTransitive
  <2>16. PICK v2 : v2 = R!Plus(v, t)
    OBVIOUS
  <2>17. v2 \in Fractions /\ Equal(v2, Add(v, t))
    BY <2>5, <2>10, <2>15, <2>16, PlusIs DEF IsSum
  <2>18. IsRound(p, w[k], S, v, c, s, t, p2, v2) /\ AtMost(Mul(v2, S), Mul(R!One, p2))
    BY <2>11, <2>17
  <2>19. Round(f, w, k, p, v, s, t, p2, v2)
    BY <2>1, <2>4, <2>18 DEF Round
  <2>20. \/ p.n = 0 /\ v.n = 0
         \/ NotBelow(f, w, p, Mul(v, Total(f, w))) /\ NotAbove(f, w, p, Mul(v, Total(f, w)))
    BY <2>2 DEF IsMean
  <2>21. \/ p2.n = 0 /\ v2.n = 0
         \/ NotBelow(f, w, p2, Mul(v2, Total(f, w))) /\ NotAbove(f, w, p2, Mul(v2, Total(f, w)))
    BY <1>2, <2>19, <2>20, BoundsKept
  <2>22. NextValue(f, w, k, v) = v2
    BY <1>2, <2>1, <2>4, <2>7, <2>8, <2>16 DEF NextValue, R!Share
  <2> QED BY <2>1, <2>3, <2>17, <2>18, <2>21, <2>22 DEF IsMean
<1> QED BY <1>1, <1>2

\* What the first loop leaves is right for the second to start from.
LEMMA ValueStarts ==
  ASSUME NEW f, NEW w PROVE ValueRight(f, w, 1, R!Zero)
<1>1. ~ SomeIsOdd(f, w, 1)
  BY DEF SomeIsOdd, WeighedOf
<1>2. R!Zero \in Fractions /\ R!Zero.n = 0 /\ R!One \in Fractions
  BY OneAndZero DEF R!Zero, R!Frac
<1>3. ASSUME Total(f, w) \in Fractions PROVE IsMean(f, w, R!Zero, R!Zero)
  <2>1. Mul(R!Zero, Total(f, w)).n = 0
    BY <1>2, <1>3, NothingScaled
  <2>2. AtMost(Mul(R!Zero, Total(f, w)), Mul(R!One, R!Zero))
    BY <1>2, <1>3, <2>1, Closed, NothingIsAtMost
  <2> QED BY <1>2, <2>2 DEF IsMean
<1>4. Partial(f, w)[1] = R!Zero
  BY PartialIs
<1> QED BY <1>1, <1>2, <1>3, <1>4 DEF ValueRight, Floats

\* The part of one component that applies.
LEMMA PartIs ==
  ASSUME NEW f, NEW w, CountsRight(f), AreFloats(w), ~ R!IsZero(Total(f, w)),
         NEW k \in 1 .. 4, R!Applies(f)[k],
         NEW t, t = R!Times(R!Share(w[k], Total(f, w)), R!Component(f, k))
  PROVE  /\ t \in Floats
         /\ w[k] \notin Fractions => t = NoNumber
         /\ w[k] \in Fractions /\ Total(f, w) = R!Infinity => t = R!Zero
<1>1. PICK c \in Fractions : c = R!Component(f, k)
  BY ComponentIs DEF IsShare
<1>2. PICK S : S = Total(f, w)
  OBVIOUS
<1>3. k \in R!Counted(f) /\ w[k] \in Floats /\ S \in Floats
  BY <1>2, PartialFloats DEF R!Counted, AreFloats, Total
<1>4. PICK s : s = R!Over(w[k], S)
  OBVIOUS
<1>5. t = R!Times(s, c)
  BY <1>1, <1>2, <1>4 DEF R!Share
<1>6. CASE w[k] \notin Fractions
  <2>1. S \in {R!Infinity, NoNumber}
    BY <1>2, <1>3, <1>6, TotalIsOdd
  <2>2. s = NoNumber
    BY <1>3, <1>4, <1>6, <2>1, OverNoNumber
  <2> QED BY <1>5, <1>6, <2>2, TimesNoNumber DEF Floats
<1>7. CASE w[k] \in Fractions
  <2>1. CASE S \in Fractions
    <3>1. S.n # 0
      BY <1>2, <2>1 DEF R!IsZero, R!IsFinite, Fractions
    <3>2. s \in Fractions
      BY <1>4, <1>7, <2>1, <3>1, OverIs
    <3>3. S # R!Infinity
      BY <2>1, FloatParts, OddParts DEF Floats
    <3> QED BY <1>2, <1>5, <1>7, <3>2, <3>3, TimesIs DEF Floats
  <2>2. CASE S = R!Infinity
    <3>1. s = R!Zero
      BY <1>4, <1>7, <2>2, OverInfinity
    <3> QED BY <1>5, <1>7, <3>1, TimesZero, OneAndZero DEF Floats
  <2>3. CASE S = NoNumber
    <3>1. s = NoNumber
      BY <1>3, <1>4, <2>3, OverNoNumber
    <3> QED BY <1>2, <1>5, <1>7, <2>3, <3>1, TimesNoNumber, OddParts DEF Floats
  <2> QED BY <1>3, <2>1, <2>2, <2>3 DEF Floats
<1> QED BY <1>6, <1>7

LEMMA PlusZero == R!Plus(R!Zero, R!Zero) = R!Zero
<1>1. 0 * 1 + 0 * 1 = 0 /\ 1 * 1 = 1 /\ 1 \in Nat \ {0}
  OBVIOUS
<1>2. R!Reduced(0, 1) = R!Zero
  BY ReducedOdd
<1>3. R!Zero.n = 0 /\ R!Zero.d = 1 /\ R!Zero # R!Infinity
  BY DEF R!Zero, R!Frac, R!Infinity
<1>4. ~(0 > MaxFloat * 1)
  BY MaxFloatAssumption
<1> QED BY <1>1, <1>2, <1>3, <1>4 DEF R!Plus

LEMMA ValueSteps ==
  ASSUME NEW f, NEW w, CountsRight(f), AreFloats(w), ~ R!IsZero(Total(f, w)),
         NEW k \in 1 .. 4, NEW v, ValueRight(f, w, k, v)
  PROVE  ValueRight(f, w, k + 1, NextValue(f, w, k, v))
<1>1. v \in Floats
  BY DEF ValueRight
<1>2. PICK t : t = R!Times(R!Share(w[k], Total(f, w)), R!Component(f, k))
  OBVIOUS
<1>3. PICK v2 : v2 = NextValue(f, w, k, v)
  OBVIOUS
<1>4. v2 = IF R!Applies(f)[k] THEN R!Plus(v, t) ELSE v
  BY <1>2, <1>3 DEF NextValue
<1>5. R!Applies(f)[k] =>
        /\ t \in Floats
        /\ w[k] \notin Fractions => t = NoNumber
        /\ w[k] \in Fractions /\ Total(f, w) = R!Infinity => t = R!Zero
  BY <1>2, PartIs
<1>6. v2 \in Floats
  BY <1>1, <1>4, <1>5, PlusIsFloat
<1>7. ASSUME SomeIsOdd(f, w, k + 1) PROVE v2 = NoNumber
  <2>1. PICK j \in WeighedOf(f, w) : j < k + 1 /\ w[j] \notin Fractions
    BY <1>7 DEF SomeIsOdd
  <2>2. CASE j = k
    <3>1. R!Applies(f)[k] /\ t = NoNumber
      BY <1>5, <2>1, <2>2 DEF WeighedOf
    <3> QED BY <1>1, <1>4, <3>1, PlusNoNumber
  <2>3. CASE j # k
    <3>1. j < k
      BY <2>1, <2>3 DEF WeighedOf
    <3>2. v = NoNumber
      BY <2>1, <3>1 DEF SomeIsOdd, ValueRight
    <3> QED BY <1>4, <1>5, <3>2, PlusNoNumber
  <2> QED BY <2>2, <2>3
<1>8. ASSUME ~ SomeIsOdd(f, w, 5)
      PROVE  IF Total(f, w) \in Fractions THEN IsMean(f, w, Partial(f, w)[k + 1], v2) ELSE v2 = R!Zero
  <2>1. CASE Total(f, w) \in Fractions
    <3>1. Total(f, w).n # 0
      BY <2>1 DEF R!IsZero, R!IsFinite, Fractions
    <3>2. IsMean(f, w, Partial(f, w)[k], v)
      BY <1>8, <2>1 DEF ValueRight
    <3>3. IsMean(f, w, Partial(f, w)[k + 1], v2)
      BY <1>3, <2>1, <3>1, <3>2, MeanSteps
    <3> QED BY <2>1, <3>3
  <2>2. CASE Total(f, w) \notin Fractions
    <3>1. \A j \in R!Counted(f) : w[j] \in Fractions
      <4> SUFFICES ASSUME NEW j \in R!Counted(f) PROVE w[j] \in Fractions
        OBVIOUS
      <4>1. j \in 1 .. 4 /\ R!Applies(f)[j] /\ j < 5
        BY DEF R!Counted
      <4> QED BY <1>8, <4>1, CountedIs
    <3>2. Total(f, w) = R!Infinity
      BY <2>2, <3>1, TotalIsNumber
    <3>3. v = R!Zero
      BY <1>8, <2>2 DEF ValueRight
    <3>4. R!Applies(f)[k] => t = R!Zero
      BY <1>5, <3>1, <3>2 DEF R!Counted
    <3>5. v2 = R!Zero
      BY <1>4, <3>3, <3>4, PlusZero
    <3> QED BY <2>2, <3>5
  <2> QED BY <2>1, <2>2
<1>9. ValueRight(f, w, k + 1, v2)
  BY <1>6, <1>7, <1>8 DEF ValueRight
<1> QED BY <1>3, <1>9

\* What the second loop ends with.
LEMMA ValueEndsRight ==
  ASSUME NEW f, NEW w, CountsRight(f), AreFloats(w), ~ R!IsZero(Total(f, w)),
         NEW v, ValueRight(f, w, 5, v)
  PROVE  IF \E k \in WeighedOf(f, w) : ~ R!IsFinite(w[k]) THEN v = R!Frac(0, 0)
         ELSE IF ~ R!IsFinite(Total(f, w)) THEN v = R!Zero
         ELSE /\ \E k \in WeighedOf(f, w) : R!Leq(R!Component(f, k), v)
              /\ \E k \in WeighedOf(f, w) : R!Leq(v, R!Component(f, k))
<1>1. ASSUME NEW x \in Floats PROVE R!IsFinite(x) <=> x \in Fractions
  BY <1>1, FloatParts DEF R!IsFinite
<1>2. Total(f, w) \in Floats /\ \A k \in WeighedOf(f, w) : w[k] \in Floats
  BY PartialFloats DEF Total, AreFloats, WeighedOf
<1>3. (\E k \in WeighedOf(f, w) : ~ R!IsFinite(w[k])) <=> SomeIsOdd(f, w, 5)
  <2>1. \A k \in WeighedOf(f, w) : k < 5
    BY DEF WeighedOf
  <2> QED BY <1>1, <1>2, <2>1 DEF SomeIsOdd
<1>4. ASSUME SomeIsOdd(f, w, 5) PROVE v = R!Frac(0, 0)
  BY <1>4 DEF ValueRight, NoNumber
<1>5. ASSUME ~ SomeIsOdd(f, w, 5), ~ R!IsFinite(Total(f, w)) PROVE v = R!Zero
  BY <1>1, <1>2, <1>5 DEF ValueRight
<1>6. ASSUME ~ SomeIsOdd(f, w, 5), R!IsFinite(Total(f, w))
      PROVE  /\ \E k \in WeighedOf(f, w) : R!Leq(R!Component(f, k), v)
             /\ \E k \in WeighedOf(f, w) : R!Leq(v, R!Component(f, k))
  <2>1. PICK S \in Fractions : S = Total(f, w)
    BY <1>1, <1>2, <1>6
  <2>2. S.n # 0
    BY <1>6, <2>1 DEF R!IsZero
  <2>3. Partial(f, w)[5] = S
    BY <2>1 DEF Total
  <2>4. v \in Fractions /\ NotBelow(f, w, S, Mul(v, S)) /\ NotAbove(f, w, S, Mul(v, S))
    BY <1>6, <2>1, <2>2, <2>3 DEF ValueRight, IsMean
  <2>5. \A k \in WeighedOf(f, w) : R!Component(f, k) \in Fractions
    BY ComponentIs DEF WeighedOf, IsShare
  <2>6. \E k \in WeighedOf(f, w) : R!Leq(R!Component(f, k), v)
    <3>1. PICK k \in WeighedOf(f, w) : AtMost(Mul(R!Component(f, k), S), Mul(v, S))
      BY <2>4 DEF NotBelow
    <3>2. AtMost(R!Component(f, k), v)
      BY <2>2, <2>4, <2>5, <3>1, Unscaled
    <3> QED BY <3>2 DEF R!Leq, AtMost
  <2>7. \E k \in WeighedOf(f, w) : R!Leq(v, R!Component(f, k))
    <3>1. PICK k \in WeighedOf(f, w) : AtMost(Mul(v, S), Mul(R!Component(f, k), S))
      BY <2>4 DEF NotAbove
    <3>2. AtMost(v, R!Component(f, k))
      BY <2>2, <2>4, <2>5, <3>1, Unscaled
    <3> QED BY <3>2 DEF R!Leq, AtMost
  <2> QED BY <2>6, <2>7
<1> QED BY <1>3, <1>4, <1>5, <1>6

-----------------------------------------------------------------------------
\* The steps of a type's evaluation are steps of its field usage, or leave it alone.
LEMMA UsageSteps == [TypeNext]_all => [Next]_vars
BY DEF TypeNext, Serve, UseFields, Evaluate, Evaluated, all, usage, Next

\* The evaluation of a type runs the propagation of FieldUsage, whose theorems
\* hold of it.
THEOREM IndexRunsFieldUsage == TypeSpec => Spec
<1>1. TypeInit => Init
  BY DEF TypeInit
<1> QED BY <1>1, UsageSteps, PTL DEF TypeSpec, Spec

-----------------------------------------------------------------------------
(***************************************************************************)
(* The inductive invariant of the evaluation, loop by loop.                *)
(***************************************************************************)
ShapeOK == shape \in TypeShape /\ shape.documented <= shape.exported /\ (shape.methods = 0 => shape.branches = 0)

AskedFor(w) == w \in [n : Int, d : Nat] /\ (w.d = 0 => w.n \in -1 .. 1)

\* Before the service is made.
AtService == turn = 1 /\ weightSum = R!Zero /\ value = R!Zero /\ \A k \in 1 .. 4 : AskedFor(weights[k])

\* In the first loop, which begins once the usage is known.
AtSum ==
  /\ turn \in 1 .. 5 /\ AreFloats(weights)
  /\ HasMethods /\ pc # "done" => turn = 1
  /\ weightSum = Partial(input, weights)[turn]
  /\ value = R!Zero

\* In the second.
AtValue ==
  /\ turn \in 1 .. 5 /\ AreFloats(weights)
  /\ weightSum = Total(input, weights) /\ ~ R!IsZero(weightSum)
  /\ ValueRight(input, weights, turn, value)

IndexInv ==
  /\ UsageInv
  /\ ShapeOK
  /\ CountsRight(input)
  /\ step \in {"service", "rejected", "sum", "value", "done"}
  /\ step = "service" => AtService
  /\ step = "sum" => AtSum
  /\ step = "value" => AtValue
  /\ result.kind = "value" => step = "done"
  /\ IndexBetweenItsComponents

\* At most every method uses every field.
LEMMA FactsAreRight == TypeOK /\ ShapeOK => CountsRight(FactsOfType)
<1> SUFFICES ASSUME TypeOK, ShapeOK PROVE CountsRight(FactsOfType)
  OBVIOUS
<1>1. fieldCount \in Nat /\ shape.methods \in {0, MethodCount} /\ MethodCount \in Nat
  BY UsageAssumption DEF TypeOK, ShapeOK, TypeShape
<1>2. {shape.branches, shape.references, shape.exported, shape.documented} \subseteq Nat
      /\ shape.documented <= shape.exported
  BY DEF ShapeOK, TypeShape
<1>3. IsFiniteSet(Method) /\ Cardinality(Method) = MethodCount
  <2>1. Method = 0 .. MethodCount - 1 /\ MethodCount - 1 \in Int
    BY <1>1 DEF Method
  <2> QED BY <1>1, <2>1, FS_Interval
<1>4. IsFiniteSet(Field) /\ Cardinality(Field) = fieldCount
  <2>1. Field = 0 .. fieldCount - 1 /\ fieldCount - 1 \in Int
    BY <1>1 DEF Field
  <2> QED BY <1>1, <2>1, FS_Interval
<1>5. IsFiniteSet(Method \X Field) /\ Cardinality(Method \X Field) = MethodCount * fieldCount
  BY <1>3, <1>4, FS_Product
<1>6. Accesses \in Nat /\ Accesses <= MethodCount * fieldCount
  <2> DEFINE cells == {cell \in Method \X Field : cell[2] \in sets[cell[1]]}
  <2>1. cells \in SUBSET (Method \X Field)
    OBVIOUS
  <2> HIDE DEF cells
  <2>2. IsFiniteSet(cells) /\ Cardinality(cells) <= Cardinality(Method \X Field)
    BY <1>5, <2>1, FS_Subset
  <2>3. Accesses = Cardinality(cells)
    BY DEF Accesses, cells
  <2> QED BY <1>5, <2>2, <2>3, FS_CardinalityType
<1>7. PICK a : a = IF HasMethods THEN Accesses ELSE 0
  OBVIOUS
<1>8. a \in Nat /\ a <= fieldCount * shape.methods
  <2>1. CASE HasMethods
    <3>1. shape.methods = MethodCount /\ a = Accesses
      BY <1>1, <1>7, <2>1 DEF HasMethods
    <3>2. MethodCount * fieldCount = fieldCount * MethodCount
      BY <1>1
    <3> QED BY <1>6, <3>1, <3>2
  <2>2. CASE ~ HasMethods
    <3>1. shape.methods = 0 /\ a = 0 /\ fieldCount * 0 = 0
      BY <1>1, <1>7, <2>2 DEF HasMethods
    <3> QED BY <3>1
  <2> QED BY <2>1, <2>2
<1>9. FactsOfType = [fields |-> fieldCount, methods |-> shape.methods, accesses |-> a, branches |-> shape.branches,
                     references |-> shape.references, exported |-> shape.exported, documented |-> shape.documented]
  BY <1>7 DEF FactsOfType
<1>10. shape.methods \in Nat
  BY <1>1
<1> QED BY <1>1, <1>2, <1>8, <1>9, <1>10 DEF CountsRight

\* Weights the service accepts are floats.
LEMMA ServiceGivesFloats ==
  ASSUME NEW w, \A k \in 1 .. 4 : AskedFor(w[k]), R!ValidWeights(R!ResolvedWeights(w))
  PROVE  AreFloats(R!ResolvedWeights(w))
<1>1. CASE R!ResolvedWeights(w) = R!DefaultWeights
  <2>1. \A k \in 1 .. 4 : R!DefaultWeights[k] \in Fractions
    BY DEF R!DefaultWeights, R!Frac, Fractions
  <2> QED BY <1>1, <2>1 DEF AreFloats, Floats
<1>2. CASE R!ResolvedWeights(w) = w
  <2> SUFFICES ASSUME NEW k \in 1 .. 4 PROVE w[k] \in Floats
    BY <1>2 DEF AreFloats
  <2>1. w[k] \in [n : Int, d : Nat] /\ (w[k].d = 0 => w[k].n \in -1 .. 1) /\ ~ (w[k].n < 0)
    BY <1>2 DEF AskedFor, R!ValidWeights, R!CheckWeight
  <2>2. PICK x \in [n : Int, d : Nat] : x = w[k]
    BY <2>1
  <2>3. x = R!Frac(x.n, x.d) /\ x.n \in Nat
    BY <2>1, <2>2 DEF R!Frac
  <2>4. CASE x.d # 0
    BY <2>2, <2>3, <2>4 DEF Floats, Fractions
  <2>5. CASE x.d = 0
    <3>1. x.n \in {0, 1}
      BY <2>1, <2>2, <2>5
    <3>2. x = R!Frac(0, 0) \/ x = R!Frac(1, 0)
      BY <2>3, <2>5, <3>1
    <3> QED BY <2>2, <3>2 DEF Floats, NoNumber, R!Infinity
  <2> QED BY <2>4, <2>5
<1> QED BY <1>1, <1>2 DEF R!ResolvedWeights

-----------------------------------------------------------------------------
LEMMA IndexStarts == TypeInit => IndexInv
<1> SUFFICES ASSUME TypeInit PROVE IndexInv
  OBVIOUS
<1>1. PICK c \in Cases : shape = c.shape /\ weights = c.weights
  BY DEF TypeInit
<1>2. ShapeOK
  BY <1>1, CasesAssumption DEF ShapeOK
<1>3. \A k \in 1 .. 4 : AskedFor(weights[k])
  BY <1>1, CasesAssumption DEF AskedFor
<1>4. UsageInv
  BY InitInv DEF TypeInit
<1>5. CountsRight(input)
  BY <1>2, <1>4, FactsAreRight DEF UsageInv, TypeInit
<1>6. step = "service" /\ AtService
  BY <1>3 DEF TypeInit, R!Init, AtService
<1>7. result.kind # "value"
  BY DEF TypeInit, R!Init, R!Pending
<1> QED BY <1>2, <1>4, <1>5, <1>6, <1>7 DEF IndexInv, IndexBetweenItsComponents, R!IndexBetweenItsComponents

LEMMA ServeKeeps == IndexInv /\ UsageInv' /\ Serve => IndexInv'
<1> SUFFICES ASSUME IndexInv, UsageInv', Serve PROVE IndexInv'
  OBVIOUS
<1>1. /\ step = "service" /\ weights' = R!ResolvedWeights(weights)
      /\ step' = IF R!ValidWeights(weights') THEN "sum" ELSE "rejected"
      /\ input' = input /\ turn' = turn /\ weightSum' = weightSum /\ value' = value /\ result' = result /\ shape' = shape
  BY DEF Serve, R!NewService
<1>2. AtService
  BY <1>1 DEF IndexInv
<1>3. step' = "sum" => AtSum'
  <2> SUFFICES ASSUME step' = "sum" PROVE AtSum'
    OBVIOUS
  <2>1. R!ValidWeights(R!ResolvedWeights(weights))
    BY <1>1
  <2>2. AreFloats(weights')
    BY <1>1, <1>2, <2>1, ServiceGivesFloats DEF AtService
  <2>3. Partial(input', weights')[1] = R!Zero
    BY PartialIs
  <2>4. weightSum' = Partial(input', weights')[turn'] /\ turn' = 1 /\ value' = R!Zero
    BY <1>1, <1>2, <2>3 DEF AtService
  <2> QED BY <2>2, <2>4 DEF AtSum
<1>4. ShapeOK' /\ CountsRight(input')
  BY <1>1 DEF IndexInv, ShapeOK
<1>5. result'.kind # "value" /\ step' \in {"sum", "rejected"}
  BY <1>1 DEF IndexInv
<1> QED BY <1>3, <1>4, <1>5 DEF IndexInv, IndexBetweenItsComponents, R!IndexBetweenItsComponents

LEMMA UseFieldsKeeps == IndexInv /\ UsageInv' /\ UseFields => IndexInv'
<1> SUFFICES ASSUME IndexInv, UsageInv', UseFields PROVE IndexInv'
  OBVIOUS
<1>1. /\ step = "sum" /\ HasMethods /\ shape' = shape /\ weights' = weights /\ step' = step /\ turn' = turn
      /\ weightSum' = weightSum /\ value' = value /\ result' = result
      /\ input' = IF pc' = "done" THEN FactsOfType' ELSE input
  BY DEF UseFields, indexed
<1>2. pc # "done"
  BY DEF UseFields, Start, Absorb, NextMethod, EndRound
<1>3. AtSum /\ turn = 1
  BY <1>1, <1>2 DEF IndexInv, AtSum
<1>4. weightSum = R!Zero
  BY <1>3, PartialIs DEF AtSum
<1>5. AtSum'
  <2>1. Partial(input', weights')[1] = R!Zero
    BY PartialIs
  <2>2. AreFloats(weights') /\ value' = R!Zero
    BY <1>1, <1>3 DEF AtSum
  <2> QED BY <1>1, <1>3, <1>4, <2>1, <2>2 DEF AtSum
<1>6. ShapeOK'
  BY <1>1 DEF IndexInv, ShapeOK
<1>7. CountsRight(FactsOfType)'
  <2>1. TypeOK'
    BY DEF UsageInv
  <2>2. (TypeOK /\ ShapeOK => CountsRight(FactsOfType))'
    BY FactsAreRight, PTL
  <2> QED BY <1>6, <2>1, <2>2
<1>8. CountsRight(input')
  BY <1>1, <1>7 DEF IndexInv
<1>9. result'.kind # "value" /\ step' = "sum"
  BY <1>1 DEF IndexInv
<1> QED BY <1>5, <1>6, <1>8, <1>9 DEF IndexInv, IndexBetweenItsComponents, R!IndexBetweenItsComponents

LEMMA SumStepKeeps == IndexInv /\ UNCHANGED <<usage, shape>> /\ (HasMethods => pc = "done") /\ R!SumStep => IndexInv'
<1> SUFFICES ASSUME IndexInv, UNCHANGED <<usage, shape>>, HasMethods => pc = "done", R!SumStep PROVE IndexInv'
  OBVIOUS
<1>1. /\ step = "sum" /\ turn <= 4 /\ turn' = turn + 1
      /\ weightSum' = Added(input, weights, weightSum, turn)
      /\ input' = input /\ weights' = weights /\ step' = step /\ value' = value /\ result' = result /\ shape' = shape
  BY DEF R!SumStep, Added
<1>2. AtSum
  BY <1>1 DEF IndexInv
<1>3. turn \in 1 .. 4 /\ turn' \in 1 .. 5
  BY <1>1, <1>2 DEF AtSum
<1>4. weightSum' = Partial(input', weights')[turn']
  BY <1>1, <1>2, <1>3, PartialIs DEF AtSum
<1>5. HasMethods' => pc' = "done"
  BY <1>1 DEF HasMethods, usage, vars
<1>6. AtSum'
  BY <1>1, <1>2, <1>3, <1>4, <1>5 DEF AtSum, AreFloats
<1>7. UsageInv' /\ ShapeOK' /\ CountsRight(input')
  <2>1. UsageInv'
    BY NextInv DEF IndexInv, usage
  <2> QED BY <1>1, <2>1 DEF IndexInv, ShapeOK
<1>8. result'.kind # "value" /\ step' = "sum"
  BY <1>1 DEF IndexInv
<1> QED BY <1>6, <1>7, <1>8 DEF IndexInv, IndexBetweenItsComponents, R!IndexBetweenItsComponents

LEMMA SumEndsKeeps == IndexInv /\ UNCHANGED <<usage, shape>> /\ R!SumEnds => IndexInv'
<1> SUFFICES ASSUME IndexInv, UNCHANGED <<usage, shape>>, R!SumEnds PROVE IndexInv'
  OBVIOUS
<1>1. /\ step = "sum" /\ turn > 4
      /\ input' = input /\ weights' = weights /\ weightSum' = weightSum /\ value' = value /\ shape' = shape
  BY DEF R!SumEnds
<1>2. AtSum /\ result.kind # "value"
  BY <1>1 DEF IndexInv
<1>3. turn = 5 /\ weightSum = Total(input, weights)
  BY <1>1, <1>2 DEF AtSum, Total
<1>4. \/ step' = "done" /\ result'.kind = "n/a"
      \/ step' = "value" /\ turn' = 1 /\ result' = result /\ ~ R!IsZero(weightSum)
  BY DEF R!SumEnds, R!Unavailable, R!NotApplicable
<1>5. step' = "value" => AtValue'
  <2> SUFFICES ASSUME step' = "value" PROVE AtValue'
    OBVIOUS
  <2>1. turn' = 1 /\ ~ R!IsZero(weightSum)
    BY <1>4
  <2>2. ValueRight(input, weights, 1, R!Zero)
    BY ValueStarts
  <2>3. ValueRight(input', weights', turn', value')
    BY <1>1, <1>2, <2>1, <2>2 DEF AtSum
  <2> QED BY <1>1, <1>2, <1>3, <2>1, <2>3 DEF AtSum, AtValue
<1>6. UsageInv' /\ ShapeOK' /\ CountsRight(input')
  <2>1. UsageInv'
    BY NextInv DEF IndexInv, usage
  <2> QED BY <1>1, <2>1 DEF IndexInv, ShapeOK
<1>7. result'.kind # "value" /\ step' \in {"value", "done"}
  BY <1>2, <1>4
<1> QED BY <1>5, <1>6, <1>7 DEF IndexInv, IndexBetweenItsComponents, R!IndexBetweenItsComponents

LEMMA ValueStepKeeps == IndexInv /\ UNCHANGED <<usage, shape>> /\ R!ValueStep => IndexInv'
<1> SUFFICES ASSUME IndexInv, UNCHANGED <<usage, shape>>, R!ValueStep PROVE IndexInv'
  OBVIOUS
<1>1. /\ step = "value" /\ turn <= 4 /\ turn' = turn + 1
      /\ input' = input /\ weights' = weights /\ step' = step /\ weightSum' = weightSum /\ result' = result /\ shape' = shape
  BY DEF R!ValueStep
<1>2. AtValue /\ CountsRight(input)
  BY <1>1 DEF IndexInv
<1>3. turn \in 1 .. 4 /\ turn' \in 1 .. 5
  BY <1>1, <1>2 DEF AtValue
<1>4. value' = NextValue(input, weights, turn, value)
  BY <1>2 DEF R!ValueStep, NextValue, AtValue
<1>5. ValueRight(input, weights, turn + 1, NextValue(input, weights, turn, value))
  BY <1>2, <1>3, ValueSteps DEF AtValue
<1>6. ValueRight(input', weights', turn', value')
  BY <1>1, <1>4, <1>5
<1>7. AtValue'
  BY <1>1, <1>2, <1>3, <1>6 DEF AtValue
<1>8. UsageInv' /\ ShapeOK' /\ CountsRight(input')
  <2>1. UsageInv'
    BY NextInv DEF IndexInv, usage
  <2> QED BY <1>1, <2>1 DEF IndexInv, ShapeOK
<1>9. result'.kind # "value" /\ step' = "value"
  BY <1>1 DEF IndexInv
<1> QED BY <1>7, <1>8, <1>9 DEF IndexInv, IndexBetweenItsComponents, R!IndexBetweenItsComponents

LEMMA ValueEndsKeeps == IndexInv /\ UNCHANGED <<usage, shape>> /\ R!ValueEnds => IndexInv'
<1> SUFFICES ASSUME IndexInv, UNCHANGED <<usage, shape>>, R!ValueEnds PROVE IndexInv'
  OBVIOUS
<1>1. /\ step = "value" /\ turn > 4 /\ step' = "done" /\ result'.value = value
      /\ input' = input /\ weights' = weights /\ weightSum' = weightSum /\ shape' = shape
  BY DEF R!ValueEnds, R!Applicable
<1>2. AtValue /\ CountsRight(input)
  BY <1>1 DEF IndexInv
<1>3. turn = 5
  BY <1>1, <1>2 DEF AtValue
<1>4. IF \E k \in WeighedOf(input, weights) : ~ R!IsFinite(weights[k]) THEN value = R!Frac(0, 0)
      ELSE IF ~ R!IsFinite(Total(input, weights)) THEN value = R!Zero
      ELSE /\ \E k \in WeighedOf(input, weights) : R!Leq(R!Component(input, k), value)
           /\ \E k \in WeighedOf(input, weights) : R!Leq(value, R!Component(input, k))
  <2>1. /\ AreFloats(weights) /\ ~ R!IsZero(Total(input, weights))
        /\ ValueRight(input, weights, 5, value)
    BY <1>2, <1>3 DEF AtValue
  <2> QED BY <1>2, <2>1, ValueEndsRight, Zenon
<1>5. R!Weighed' = WeighedOf(input, weights)
  BY <1>1 DEF R!Weighed, WeighedOf
<1>6. weightSum = Total(input, weights)
  BY <1>2 DEF AtValue
<1>7. IndexBetweenItsComponents'
  BY <1>1, <1>4, <1>5, <1>6 DEF IndexBetweenItsComponents, R!IndexBetweenItsComponents
<1>8. UsageInv' /\ ShapeOK' /\ CountsRight(input')
  <2>1. UsageInv'
    BY NextInv DEF IndexInv, usage
  <2> QED BY <1>1, <2>1 DEF IndexInv, ShapeOK
<1> QED BY <1>1, <1>7, <1>8 DEF IndexInv

LEMMA StoppedKeeps == IndexInv /\ UNCHANGED all => IndexInv'
<1> SUFFICES ASSUME IndexInv, UNCHANGED all PROVE IndexInv'
  OBVIOUS
<1>1. UNCHANGED vars /\ UNCHANGED <<shape, input, weights, step, turn, weightSum, dropped, value, result>>
  BY DEF all, usage, indexed
<1>2. UsageInv'
  BY <1>1, NextInv DEF IndexInv
<1>3. ShapeOK' /\ CountsRight(input')
  BY <1>1 DEF IndexInv, ShapeOK
<1>4. (step' = "service" => AtService') /\ (step' = "sum" => AtSum') /\ (step' = "value" => AtValue')
  BY <1>1 DEF IndexInv, AtService, AtSum, AtValue, HasMethods, AreFloats, vars
<1>5. IndexBetweenItsComponents'
  <2>1. R!Weighed' = R!Weighed
    BY <1>1 DEF R!Weighed
  <2> QED BY <1>1, <2>1 DEF IndexInv, IndexBetweenItsComponents, R!IndexBetweenItsComponents
<1> QED BY <1>1, <1>2, <1>3, <1>4, <1>5 DEF IndexInv

LEMMA IndexKeeps == IndexInv /\ [TypeNext]_all => IndexInv'
<1> SUFFICES ASSUME IndexInv, [TypeNext]_all PROVE IndexInv'
  OBVIOUS
<1>1. UsageInv'
  BY UsageSteps, NextInv DEF IndexInv
<1>2. ASSUME Evaluate PROVE IndexInv'
  BY <1>2, SumStepKeeps, SumEndsKeeps, ValueStepKeeps, ValueEndsKeeps DEF Evaluate
<1> QED
  BY <1>1, <1>2, ServeKeeps, UseFieldsKeeps, StoppedKeeps DEF TypeNext, Evaluated

THEOREM IndexInvariance == TypeSpec => []IndexInv
BY IndexStarts, IndexKeeps, PTL DEF TypeSpec

\* An index lies between the smallest and the largest of the components that are
\* weighed, whatever was dropped, in whatever way the weights add up and wherever
\* floats end; weights that add up to no number give 0, a weight that is no number
\* gives NaN (reusabilityValue).
THEOREM IndexIsMean == TypeSpec => []IndexBetweenItsComponents
<1>1. IndexInv => IndexBetweenItsComponents
  BY DEF IndexInv
<1> QED
  BY IndexInvariance, <1>1, PTL
=============================================================================
