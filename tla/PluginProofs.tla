---------------------------- MODULE PluginProofs ----------------------------
(***************************************************************************)
(* Proofs about the linter plugin, in the two halves that Settings and     *)
(* SharedAnalysis model.  Whatever block of settings is read and in        *)
(* whatever order, the settings it makes are those of one spelling of each *)
(* field.  And whatever passes, other callers and settings there are, the  *)
(* analysis runs under the settings New saw, the cache between it and its  *)
(* callers is a OnceCell, and each pass reports the violations of its own  *)
(* package.                                                                *)
(***************************************************************************)
EXTENDS SharedAnalysis, Settings, SharedLemmas, SequenceTheorems

-----------------------------------------------------------------------------
(***************************************************************************)
(* SharedAnalysis.                                                         *)
(***************************************************************************)
Calls == Pass \cup Holder
AsNew == [f \in Field |-> "original"]

\* The factory starts once, after a call; until it has settled there is no
\* outcome, and then there is one that callers can tell from the library's own.
CacheInv ==
  /\ factory \in {"idle", "running", "settled"}
  /\ factory # "settled" => outcome = Cache!None
  /\ factory = "settled" => outcome \in Cache!Outcomes
  /\ factory # "idle" => \E c \in Calls : caller[c] # "idle"
  /\ caller \in [Calls -> {"idle", "waiting", "returned"}]

\* Nothing the host writes reaches the copy, and so the outcome.
SettingsInv == snapshot = AsNew /\ SettingsAsOfNew

IInv == CacheInv /\ SettingsInv

\* The steps of the cache, whichever part of the program takes them.
CacheStep ==
  \/ \E c \in Calls : Cache!Call(c) \/ Cache!Answer(c) \/ Cache!GiveUp(c)
  \/ \E h \in Holder : Cache!CancelCaller(h)
  \/ \E o \in Cache!Outcomes : Cache!Settle(o)
  \/ UNCHANGED cachevars

-----------------------------------------------------------------------------
\* The outcomes are told apart from each other and from what is no outcome.
LEMMA OutcomeKinds ==
  \A o \in Cache!Outcomes :
    /\ o # Cache!None
    /\ o # Cache!InitError
    /\ o.kind \in {"value", "failure", "panic"}
BY DEF Cache!Outcomes, Cache!Result, Cache!Failure, Cache!Panic, Cache!None, Cache!InitError

\* The analysis settles the cache on an outcome: a failure, a panic, or what it
\* found under the settings of New.
LEMMA AnalysisSettles ==
  ASSUME SettingsInv, AnalysisEnds
  PROVE  /\ \E o \in Cache!Outcomes : Cache!Settle(o)
         /\ outcome'.kind = "value" => outcome' = Cache!Result(ViolationsUnder(AsNew))
<1>1. CASE Cache!Settle(Cache!Result(ViolationsUnder(snapshot)))
  <2>1. snapshot = AsNew
    BY DEF SettingsInv
  <2>2. Cache!Result(ViolationsUnder(AsNew)) \in Cache!Outcomes
    BY DEF Cache!Outcomes, Cache!Result, AsNew
  <2> QED BY <1>1, <2>1, <2>2 DEF Cache!Settle, Cache!FactoryCanceled
<1>2. CASE Cache!Settle(Cache!Failure)
  <2>1. Cache!Failure \in Cache!Outcomes /\ Cache!Failure.kind # "value"
    BY DEF Cache!Outcomes, Cache!Failure
  <2> QED BY <1>2, <2>1 DEF Cache!Settle, Cache!FactoryCanceled
<1>3. CASE Cache!Settle(Cache!Panic)
  <2>1. Cache!Panic \in Cache!Outcomes /\ Cache!Panic.kind # "value"
    BY DEF Cache!Outcomes, Cache!Panic
  <2> QED BY <1>3, <2>1 DEF Cache!Settle, Cache!FactoryCanceled
<1> QED BY <1>1, <1>2, <1>3 DEF AnalysisEnds

\* Every step of the program is one of the cache's.
LEMMA StepOfCache == SettingsInv /\ [Next]_vars => CacheStep
<1> SUFFICES ASSUME SettingsInv, [Next]_vars PROVE CacheStep
  OBVIOUS
<1> USE DEF CacheStep, Calls
<1>1. ASSUME NEW p \in Pass, StartPass(p) \/ EndPass(p) PROVE CacheStep
  BY <1>1 DEF StartPass, EndPass
<1>2. ASSUME NEW h \in Holder, HolderStep(h) PROVE CacheStep
  BY <1>2 DEF HolderStep
<1>3. CASE AnalysisEnds
  BY <1>3, AnalysisSettles
<1>4. CASE (\E f \in Field : HostWrites(f)) \/ AllDone \/ UNCHANGED vars
  BY <1>4 DEF HostWrites, AllDone, vars
<1> QED BY <1>1, <1>2, <1>3, <1>4 DEF Next

\* The cache keeps its invariant.
LEMMA CacheKeeps == CacheInv /\ CacheStep => CacheInv'
<1> SUFFICES ASSUME CacheInv, CacheStep PROVE CacheInv'
  OBVIOUS
<1> USE DEF CacheInv
<1>1. ASSUME NEW c \in Calls, Cache!Call(c) PROVE CacheInv'
  BY <1>1 DEF Cache!Call, Cache!MayStart
<1>2. ASSUME NEW c \in Calls, Cache!Answer(c) \/ Cache!GiveUp(c) PROVE CacheInv'
  BY <1>2 DEF Cache!Answer, Cache!GiveUp
<1>3. ASSUME NEW h \in Holder, Cache!CancelCaller(h) PROVE CacheInv'
  BY <1>3 DEF Cache!CancelCaller
<1>4. ASSUME NEW o \in Cache!Outcomes, Cache!Settle(o) PROVE CacheInv'
  BY <1>4 DEF Cache!Settle, Cache!FactoryCanceled
<1>5. CASE UNCHANGED cachevars
  BY <1>5 DEF cachevars
<1> QED BY <1>1, <1>2, <1>3, <1>4, <1>5 DEF CacheStep

\* The copy and the outcome keep theirs.
LEMMA SettingsKept == CacheInv /\ SettingsInv /\ [Next]_vars => SettingsInv'
<1> SUFFICES ASSUME CacheInv, SettingsInv, [Next]_vars PROVE SettingsInv'
  OBVIOUS
<1>1. snapshot' = snapshot
  BY DEF Next, HostWrites, Shared, StartPass, EndPass, HolderStep, AnalysisEnds, AllDone, vars
<1>2. outcome'.kind = "value" => outcome' = Cache!Result(ViolationsUnder(AsNew))
  <2>1. CASE AnalysisEnds
    BY <2>1, AnalysisSettles
  <2>2. ASSUME NEW c \in Calls, Cache!Call(c) PROVE outcome' = outcome \/ outcome' = Cache!None
    BY <2>2 DEF Cache!Call
  <2>3. ASSUME NEW c \in Calls, Cache!Answer(c) \/ Cache!GiveUp(c) PROVE outcome' = outcome
    BY <2>3 DEF Cache!Answer, Cache!GiveUp
  <2>4. ASSUME NEW h \in Holder, Cache!CancelCaller(h) PROVE outcome' = outcome
    BY <2>4 DEF Cache!CancelCaller
  <2>5. CASE ~AnalysisEnds
    <3>1. outcome' = outcome \/ outcome' = Cache!None
      BY <2>2, <2>3, <2>4, <2>5
      DEF Next, HostWrites, StartPass, EndPass, HolderStep, AllDone, vars, cachevars, Calls
    <3> QED BY <3>1 DEF SettingsInv, SettingsAsOfNew, AsNew, Cache!None
  <2> QED BY <2>1, <2>5
<1> QED BY <1>1, <1>2 DEF SettingsInv, SettingsAsOfNew, AsNew

\* The invariant, of a program in which New has just returned and ever after.
LEMMA InvInit == Init => IInv
BY DEF Init, Cache!Init, IInv, CacheInv, SettingsInv, SettingsAsOfNew, AsNew, Cache!None, Calls

LEMMA Invariance == Spec => []IInv
<1>1. IInv /\ [Next]_vars => IInv'
  BY StepOfCache, CacheKeeps, SettingsKept DEF IInv
<1> QED BY <1>1, InvInit, PTL DEF Spec

-----------------------------------------------------------------------------
\* The analysis runs under the settings New was given, whatever the host writes
\* into the object it handed in, and whenever.
THEOREM SettingsAreFrozen == Spec => []SettingsAsOfNew
<1>1. IInv => SettingsAsOfNew
  BY DEF IInv, SettingsInv
<1> QED BY <1>1, Invariance, PTL

\* Each step of the cache is one of the cell, or none.
LEMMA StepOfCell == CacheInv /\ CacheStep => [Once!Next]_(Once!oncevars)
<1> SUFFICES ASSUME CacheInv, CacheStep PROVE Once!Next \/ UNCHANGED Once!oncevars
  OBVIOUS
<1> USE DEF Calls
<1>1. ASSUME NEW c \in Calls, Cache!Call(c) PROVE Once!Ask(c)
  BY <1>1 DEF CacheInv, Cache!Call, Cache!MayStart, Once!Ask
<1>2. ASSUME NEW c \in Calls, Cache!Answer(c) PROVE Once!Get(c)
  <2>1. outcome \in Cache!Outcomes
    BY <1>2 DEF CacheInv, Cache!Answer
  <2>2. Cache!CacheError(Cache!GetResult) = outcome
    BY <2>1, OutcomeKinds DEF Cache!CacheError, Cache!GetResult
  <2>3. outcome # Once!None
    BY <2>1, OutcomeKinds DEF Once!None, Cache!None
  <2> QED BY <1>2, <2>2, <2>3 DEF Cache!Answer, Once!Get, Once!Return
<1>3. ASSUME NEW c \in Calls, Cache!GiveUp(c) PROVE Once!Leave(c)
  BY <1>3 DEF Cache!GiveUp, Cache!GaveUp, Once!Leave, Once!Return, Once!GaveUp
<1>4. ASSUME NEW h \in Holder, Cache!CancelCaller(h) PROVE Once!Cancel(h)
  BY <1>4 DEF Cache!CancelCaller, Once!Cancel
<1>5. ASSUME NEW o \in Cache!Outcomes, Cache!Settle(o) PROVE Once!Fill(o)
  BY <1>5 DEF CacheInv, Cache!Settle, Cache!FactoryCanceled, Cache!None, Once!None, Once!Fill
<1>6. CASE UNCHANGED cachevars
  BY <1>6 DEF cachevars, Once!oncevars
<1> QED BY <1>1, <1>2, <1>3, <1>4, <1>5, <1>6 DEF CacheStep, Once!Next

\* Every caller gets the first outcome or its own cancellation, however many
\* passes and other callers there are.
THEOREM CacheIsOnceCell == Spec => ImplementsOnceCell
<1>1. Init => Once!Init
  BY DEF Init, Cache!Init, Once!Init, Cache!None, Once!None
<1>2. IInv /\ [Next]_vars => [Once!Next]_(Once!oncevars)
  BY StepOfCache, StepOfCell DEF IInv
<1> QED BY <1>1, <1>2, Invariance, PTL DEF Spec, ImplementsOnceCell, Once!Spec

-----------------------------------------------------------------------------
\* The recursion of Own is a definition: it has a solution.
LEMMA OwnUnfolds ==
  ASSUME NEW S, NEW vs \in Seq(S), NEW p
  PROVE  /\ Own(vs, p)[0] = <<>>
         /\ \A n \in 1 .. Len(vs) :
              Own(vs, p)[n] = IF vs[n][1] = p THEN Append(Own(vs, p)[n - 1], vs[n])
                                              ELSE Own(vs, p)[n - 1]
<1> DEFINE N == Len(vs)
           Row(f, n) == IF n = 0 THEN <<>>
                        ELSE IF vs[n][1] = p THEN Append(f[n - 1], vs[n]) ELSE f[n - 1]
           Solves(f) == f = [n \in 0 .. N |-> Row(f, n)]
           step == [x \in (1 .. N) \X Seq(S) |->
                      IF vs[x[1]][1] = p THEN Append(x[2], vs[x[1]]) ELSE x[2]]
<1>1. N \in Nat /\ <<>> \in Seq(S) /\ \A n \in 1 .. N : vs[n] \in S
  OBVIOUS
<1>2. step \in [(1 .. N) \X Seq(S) -> Seq(S)]
  <2> SUFFICES ASSUME NEW x \in (1 .. N) \X Seq(S)
               PROVE  (IF vs[x[1]][1] = p THEN Append(x[2], vs[x[1]]) ELSE x[2]) \in Seq(S)
    OBVIOUS
  <2>1. x[1] \in 1 .. N /\ x[2] \in Seq(S) /\ vs[x[1]] \in S
    BY <1>1
  <2> HIDE DEF N
  <2> QED BY <2>1
<1>3. PICK f : IsHistory(f, N, Seq(S), <<>>, step)
  <2> HIDE DEF step, N
  <2> QED BY <1>1, <1>2, Iteration
<1> USE DEF IsHistory
<1>4. \A n \in 1 .. N : f[n] = Row(f, n)
  <2> SUFFICES ASSUME NEW n \in 1 .. N PROVE f[n] = Row(f, n)
    OBVIOUS
  <2>1. n - 1 \in 0 .. N /\ n # 0
    BY <1>1
  <2>2. <<n, f[n - 1]>> \in (1 .. N) \X Seq(S)
    BY <1>3, <2>1
  <2> HIDE DEF N
  <2> QED BY <1>3, <2>1, <2>2
<1>5. \A n \in 0 .. N : f[n] = Row(f, n)
  <2>1. \A n \in 0 .. N : n = 0 \/ n \in 1 .. N
    BY <1>1
  <2>2. f[0] = Row(f, 0)
    BY <1>3
  <2> HIDE DEF N, Row
  <2> QED BY <1>4, <2>1, <2>2
<1>6. Solves(f)
  <2> HIDE DEF Row, N
  <2> QED BY <1>3, <1>5
<1>7. Own(vs, p) = CHOOSE g : Solves(g)
  BY Zenon DEF Own
<1>8. Solves(Own(vs, p))
  <2> HIDE DEF Solves
  <2> QED BY <1>6, <1>7, Zenon
<1>9. 0 \in 0 .. N /\ \A n \in 1 .. N : n \in 0 .. N /\ n # 0
  BY <1>1
<1> HIDE DEF N
<1> QED BY <1>8, <1>9 DEF N

\* The empty sequence lists nothing.
LEMMA ListsNothing == ASSUME NEW vs PROVE Lists(<<>>, vs, {})
<1> DEFINE none == [k \in {} |-> 0]
           empty == DOMAIN <<>>
<1>1. empty = {}
  OBVIOUS
<1> HIDE DEF empty
<1>2. none \in [empty -> DOMAIN vs] /\ {} = {none[k] : k \in empty}
  BY <1>1
<1> HIDE DEF none
<1>3. \E pos \in [empty -> DOMAIN vs] :
        /\ \A k, l \in empty : k < l => pos[k] < pos[l]
        /\ \A k \in empty : <<>>[k] = vs[pos[k]]
        /\ {} = {pos[k] : k \in empty}
  BY <1>1, <1>2
<1> QED BY <1>3, Zenon DEF Lists, empty

\* groupByPackage keeps, of the first n violations, those of the package.
LEMMA OwnLists ==
  ASSUME NEW S, NEW vs \in Seq(S), NEW p
  PROVE  /\ Own(vs, p)[Len(vs)] \in Seq(S)
         /\ Lists(Own(vs, p)[Len(vs)], vs, {n \in DOMAIN vs : vs[n][1] = p})
<1> DEFINE N == Len(vs)
           own == Own(vs, p)
           At(n) == {k \in 1 .. n : vs[k][1] = p}
           T == {n \in 0 .. N : own[n] \in Seq(S) /\ Lists(own[n], vs, At(n))}
<1>1. N \in Nat /\ DOMAIN vs = 1 .. N /\ \A n \in 1 .. N : vs[n] \in S
  OBVIOUS
<1>2. /\ own[0] = <<>>
      /\ \A n \in 1 .. N :
           own[n] = IF vs[n][1] = p THEN Append(own[n - 1], vs[n]) ELSE own[n - 1]
  BY OwnUnfolds
<1> HIDE DEF own
<1>3. 0 \in T
  <2>1. Lists(<<>>, vs, {})
    BY ListsNothing
  <2>2. At(0) = {}
    OBVIOUS
  <2>3. 0 \in 0 .. N /\ own[0] \in Seq(S)
    BY <1>1, <1>2
  <2> HIDE DEF At, N
  <2>4. Lists(own[0], vs, At(0))
    BY <1>2, <2>1, <2>2
  <2> QED BY <2>3, <2>4
<1>4. ASSUME NEW m \in 0 .. N - 1, m \in T PROVE m + 1 \in T
  <2>1. /\ m \in Nat /\ m + 1 \in 1 .. N /\ m + 1 \in 0 .. N /\ (m + 1) - 1 = m
        /\ own[m] \in Seq(S) /\ vs[m + 1] \in S
    BY <1>1, <1>4
  <2>2. Lists(own[m], vs, At(m))
    BY <1>4
  <2>3. CASE vs[m + 1][1] # p
    <3>1. At(m + 1) = At(m)
      BY <2>1, <2>3
    <3>2. own[m + 1] = own[m]
      BY <1>2, <2>1, <2>3
    <3> HIDE DEF At, N
    <3> QED BY <2>1, <2>2, <3>1, <3>2
  <2>4. CASE vs[m + 1][1] = p
    <3> DEFINE s == own[m]
               t == Append(s, vs[m + 1])
               L == Len(s)
    <3>1. own[m + 1] = t
      BY <1>2, <2>1, <2>4
    <3>2. /\ L \in Nat /\ DOMAIN s = 1 .. L /\ DOMAIN t = 1 .. L + 1
          /\ t \in Seq(S) /\ t[L + 1] = vs[m + 1] /\ \A k \in 1 .. L : t[k] = s[k]
      BY <2>1
    <3>3. At(m + 1) = At(m) \cup {m + 1}
      BY <2>1, <2>4
    <3> HIDE DEF s, t, L, At
    <3>4. PICK pos \in [1 .. L -> DOMAIN vs] :
            /\ \A k, l \in 1 .. L : k < l => pos[k] < pos[l]
            /\ \A k \in 1 .. L : s[k] = vs[pos[k]]
            /\ At(m) = {pos[k] : k \in 1 .. L}
      BY <2>2, <3>2 DEF Lists, s
    <3>5. \A k \in 1 .. L : pos[k] < m + 1
      <4>1. \A k \in 1 .. L : pos[k] \in At(m)
        BY <3>4
      <4> QED BY <2>1, <4>1 DEF At
    <3> DEFINE longer == [k \in 1 .. L + 1 |-> IF k = L + 1 THEN m + 1 ELSE pos[k]]
    <3>6. /\ longer[L + 1] = m + 1
          /\ \A k \in 1 .. L : longer[k] = pos[k] /\ k \in 1 .. L + 1
          /\ L + 1 \in 1 .. L + 1
          /\ \A k \in 1 .. L + 1 : k = L + 1 \/ k \in 1 .. L
      BY <3>2
    <3>7. longer \in [1 .. L + 1 -> DOMAIN vs]
      BY <1>1, <2>1, <3>2, <3>4
    <3> HIDE DEF longer, N
    <3>8. \A k, l \in 1 .. L + 1 : k < l => longer[k] < longer[l]
      <4> SUFFICES ASSUME NEW k \in 1 .. L + 1, NEW l \in 1 .. L + 1, k < l
                   PROVE  longer[k] < longer[l]
        OBVIOUS
      <4>1. k \in 1 .. L
        BY <3>2
      <4>2. l = L + 1 \/ l \in 1 .. L
        BY <3>6
      <4> QED BY <3>4, <3>5, <3>6, <4>1, <4>2
    <3>9. \A k \in 1 .. L + 1 : t[k] = vs[longer[k]]
      BY <3>2, <3>4, <3>6
    <3>10. At(m + 1) = {longer[k] : k \in 1 .. L + 1}
      BY <3>3, <3>4, <3>6
    <3>11. Lists(t, vs, At(m + 1))
      BY <3>2, <3>7, <3>8, <3>9, <3>10 DEF Lists
    <3> QED BY <2>1, <3>1, <3>2, <3>11
  <2> QED BY <2>3, <2>4
<1>5. N \in T
  <2> HIDE DEF T, N
  <2>1. \A m \in 0 .. N - 1 : m \in T => m + 1 \in T
    BY <1>4
  <2>2. 0 .. N \subseteq T
    BY <1>1, <1>3, <2>1, UpTo
  <2> QED BY <1>1, <2>2
<1>6. At(N) = {n \in DOMAIN vs : vs[n][1] = p}
  BY <1>1
<1> HIDE DEF At
<1> QED BY <1>5, <1>6 DEF own

-----------------------------------------------------------------------------
\* What has been reported: a pass with a value the violations of its package as
\* they were found under the settings of New, every other pass nothing.
ReportInv ==
  /\ answer = [c \in Calls |-> answer[c]]
  /\ reported = [p \in Pass |-> reported[p]]
  /\ \A p \in Pass :
       /\ caller[p] # "returned" => answer[p].kind # "value"
       /\ reported[p] = IF answer[p].kind = "value" THEN Diagnostics(p, ViolationsUnder(AsNew))
                                                   ELSE <<>>

\* A pass is answered with what the cache holds and reports its share of it.
LEMMA EndPassReports ==
  ASSUME IInv, ReportInv, NEW p \in Pass, EndPass(p)
  PROVE  ReportInv'
<1>1. /\ caller[p] = "waiting" /\ caller' = [caller EXCEPT ![p] = "returned"]
      /\ answer' = [answer EXCEPT ![p] = Cache!CacheError(Cache!GetResult)]
      /\ outcome \in Cache!Outcomes /\ p \in Calls
      /\ caller \in [Calls -> {"idle", "waiting", "returned"}]
  BY DEF EndPass, Cache!Answer, IInv, CacheInv, Calls
<1>2. Cache!CacheError(Cache!GetResult) = outcome
  BY <1>1, OutcomeKinds DEF Cache!CacheError, Cache!GetResult
<1>3. answer'[p] = outcome /\ \A c \in Calls \ {p} : answer'[c] = answer[c]
  BY <1>1, <1>2 DEF ReportInv
<1>4. answer[p].kind # "value" /\ reported[p] = <<>>
  BY <1>1 DEF ReportInv
<1>5. outcome.kind = "value" => outcome.value = ViolationsUnder(AsNew)
  BY DEF IInv, SettingsInv, SettingsAsOfNew, AsNew, Cache!Result
<1>6. /\ reported'[p] = IF outcome.kind = "value" THEN Diagnostics(p, ViolationsUnder(AsNew))
                                                  ELSE <<>>
      /\ \A q \in Pass \ {p} : reported'[q] = reported[q]
  BY <1>4, <1>5 DEF EndPass, ReportInv
<1>7. answer' = [c \in Calls |-> answer'[c]] /\ reported' = [q \in Pass |-> reported'[q]]
  BY <1>1 DEF ReportInv, EndPass
<1>8. ASSUME NEW q \in Pass
      PROVE  /\ caller'[q] # "returned" => answer'[q].kind # "value"
             /\ reported'[q] = IF answer'[q].kind = "value"
                                 THEN Diagnostics(q, ViolationsUnder(AsNew)) ELSE <<>>
  <2>1. CASE q = p
    BY <1>1, <1>3, <1>6, <2>1
  <2>2. CASE q # p
    BY <1>1, <1>3, <1>6, <2>2 DEF ReportInv, Calls
  <2> QED BY <2>1, <2>2
<1> QED BY <1>7, <1>8 DEF ReportInv, AsNew, Diagnostics, ViolationsUnder

LEMMA ReportKept == IInv /\ ReportInv /\ [Next]_vars => ReportInv'
<1> SUFFICES ASSUME IInv, ReportInv, [Next]_vars PROVE ReportInv'
  OBVIOUS
<1> DEFINE Same == UNCHANGED reported /\ answer' = [c \in Calls |-> answer'[c]]
<1>1. ASSUME Same, \A p \in Pass :
               answer'[p] = answer[p] /\ (caller'[p] # "returned" => caller[p] # "returned")
      PROVE  ReportInv'
  BY <1>1 DEF ReportInv, AsNew, Diagnostics, ViolationsUnder
<1>2. caller \in [Calls -> {"idle", "waiting", "returned"}] /\ answer = [c \in Calls |-> answer[c]]
  BY DEF IInv, CacheInv, ReportInv
<1>3. ASSUME NEW p \in Pass, StartPass(p) PROVE ReportInv'
  BY <1>1, <1>2, <1>3 DEF StartPass, Cache!Call, Calls
<1>4. ASSUME NEW h \in Holder, HolderStep(h) PROVE ReportInv'
  <2>1. h \in Calls /\ h \notin Pass /\ UNCHANGED reported
    BY <1>4, SharedAssumption DEF HolderStep, Calls
  <2>2. \A c \in Calls \ {h} : answer'[c] = answer[c] /\ caller'[c] = caller[c]
    BY <1>2, <1>4
       DEF HolderStep, Cache!Call, Cache!Answer, Cache!GiveUp, Cache!CancelCaller
  <2>3. answer' = [c \in Calls |-> answer'[c]]
    BY <1>2, <1>4
       DEF HolderStep, Cache!Call, Cache!Answer, Cache!GiveUp, Cache!CancelCaller
  <2>4. \A p \in Pass : p \in Calls \ {h}
    BY <2>1 DEF Calls
  <2> QED BY <1>1, <2>1, <2>2, <2>3, <2>4
<1>5. CASE AnalysisEnds
  BY <1>1, <1>2, <1>5 DEF AnalysisEnds, Cache!Settle
<1>6. CASE (\E f \in Field : HostWrites(f)) \/ AllDone \/ UNCHANGED vars
  BY <1>1, <1>2, <1>6 DEF HostWrites, AllDone, vars, cachevars
<1> QED BY <1>3, <1>4, <1>5, <1>6, EndPassReports DEF Next

\* A pass with a value has reported the violations of its own package, all of them
\* and no other, in order, and every other pass none - whatever the violations,
\* however many passes share a package or have one that is not in the module.
THEOREM EveryViolationIsReported == Spec => []EveryViolationReportedAtHome
<1>1. Init => ReportInv
  BY DEF Init, Cache!Init, ReportInv, Calls, Cache!None
<1>2. ReportInv => EveryViolationReportedAtHome
  <2> DEFINE all == Found["original"]
  <2> SUFFICES ASSUME ReportInv, NEW p \in Pass, answer[p].kind = "value"
               PROVE  Lists(reported[p], all, {n \in DOMAIN all : all[n][1] = PackageOf[p]})
    BY DEF EveryViolationReportedAtHome, ReportInv
  <2>1. all \in Seq(Package \X STRING)
    BY SharedAssumption
  <2>2. reported[p] = Diagnostics(p, ViolationsUnder(AsNew))
    BY DEF ReportInv
  <2>3. ViolationsUnder(AsNew) = GroupByPackage(all)
    BY DEF ViolationsUnder, AsNew
  <2>4. CASE PackageOf[p] \in Package
    <3>1. reported[p] = Own(all, PackageOf[p])[Len(all)]
      BY <2>2, <2>3, <2>4 DEF Diagnostics, GroupByPackage
    <3> HIDE DEF all
    <3> QED BY <2>1, <3>1, OwnLists
  <2>5. CASE PackageOf[p] \notin Package
    <3>1. reported[p] = <<>>
      BY <2>2, <2>5 DEF Diagnostics
    <3> HIDE DEF all
    <3>2. \A n \in DOMAIN all : all[n][1] # PackageOf[p]
      BY <2>1, <2>5
    <3>3. {n \in DOMAIN all : all[n][1] = PackageOf[p]} = {}
      BY <3>2
    <3> QED BY <3>1, <3>3, ListsNothing
  <2> QED BY <2>4, <2>5
<1> QED BY <1>1, <1>2, ReportKept, Invariance, PTL DEF Spec
-----------------------------------------------------------------------------
(***************************************************************************)
(* Settings.  The renamed map has, for each field, the value of one of its *)
(* spellings; which one depends on the order, that there is one does not.  *)
(* From there on a run is a function of those values.                      *)
(***************************************************************************)

\* The keys can be read: no key but a field's, no value of another type.
Readable(keys) == \A k \in keys : k[1] # "other" /\ raw[k].typed

\* The settings they give.
Values(keys) == [f \in Fields |-> ValueOf(keys, f)]

\* The map so far: a value of one of the keys it has been given for each field.
RenamedSoFar ==
  /\ DOMAIN out = {k[1] : k \in done}
  /\ \A f \in DOMAIN out : \E k \in done : k[1] = f /\ out[f] = raw[k]

\* What a run of one spelling each comes out as (OutcomeIsOfOneSpelling, one run).
IsOfOneSpelling(r) ==
  \E keys \in OneSpellingEach :
    /\ result[r].verdict \in Expected(keys)
    /\ result[r].verdict # "undecodable" =>
         \A f \in Fields : ValueOf(keys, f) # ZeroSettings[f] =>
           result[r].settings[f] = ValueOf(keys, f)

FailsByPattern(r) ==
  result[r].verdict = "fails" =>
    \E k \in DOMAIN result[r].settings.patterns : result[r].settings.patterns[k] = ""

ReadType ==
  /\ raw \in Inputs /\ run \in Runs /\ pc \in {"remap", "new", "analyze", "end"}
  /\ done \subseteq DOMAIN raw
  /\ DOMAIN result = Runs
  /\ \A r \in Runs : result[r].verdict \in Verdicts
  /\ DOMAIN config = Fields

\* The inductive invariant of Settings.
ReadInv ==
  /\ ReadType
  /\ RenamedSoFar
  /\ pc = "new" => \E keys \in OneSpellingEach : Readable(keys) /\ config = Values(keys)
  /\ pc = "analyze" =>
       /\ SettingsAccepted(config)
       /\ \E keys \in OneSpellingEach : Readable(keys) /\ config = WithDefaults(Values(keys))
  /\ \A r \in Runs : result[r].verdict # "pending" => IsOfOneSpelling(r) /\ FailsByPattern(r)

\* The key of a field in one spelling each is the only one.
LEMMA ValueOfKey ==
  ASSUME NEW keys \in OneSpellingEach, NEW k \in keys
  PROVE  ValueOf(keys, k[1]) = raw[k].value
<1>1. \A l \in keys : l[1] = k[1] => l = k
  BY DEF OneSpellingEach
<1>2. (CHOOSE l \in keys : l[1] = k[1]) = k
  BY <1>1
<1> QED BY <1>2 DEF ValueOf

\* Once every key has been renamed the map is that of one spelling each.
LEMMA MapOfOneSpelling ==
  ASSUME RenamedSoFar, done = DOMAIN raw
  PROVE  \E keys \in OneSpellingEach :
           DOMAIN out = {k[1] : k \in keys} /\ \A k \in keys : out[k[1]] = raw[k]
<1> DEFINE pick(f) == CHOOSE k \in done : k[1] = f /\ out[f] = raw[k]
           keys == {pick(f) : f \in DOMAIN out}
<1>1. \A f \in DOMAIN out : pick(f) \in done /\ pick(f)[1] = f /\ out[f] = raw[pick(f)]
  BY DEF RenamedSoFar
<1> HIDE DEF pick
<1>2. keys \subseteq DOMAIN raw /\ \A k \in keys : k = pick(k[1]) /\ k[1] \in DOMAIN out
  BY <1>1
<1>3. \A k \in DOMAIN raw : pick(k[1]) \in keys /\ pick(k[1])[1] = k[1]
  BY <1>1 DEF RenamedSoFar
<1>4. keys \in OneSpellingEach
  BY <1>2, <1>3 DEF OneSpellingEach
<1>5. DOMAIN out = {k[1] : k \in keys}
  BY <1>1, <1>2
<1>6. \A k \in keys : out[k[1]] = raw[k]
  BY <1>1, <1>2
<1> QED BY <1>4, <1>5, <1>6

\* The strict decoder accepts the map exactly when its keys can be read, and then
\* makes of it what they say.
LEMMA DecodesKeys ==
  ASSUME raw \in Inputs, NEW keys \in OneSpellingEach,
         DOMAIN out = {k[1] : k \in keys}, \A k \in keys : out[k[1]] = raw[k]
  PROVE  /\ Decodable(out) <=> Readable(keys)
         /\ Decoded(out) = Values(keys)
<1>1. \A k \in keys : k[1] \in Fields \cup {"other"} /\ k[1] \in DOMAIN out
  BY SettingsAssumption DEF OneSpellingEach, Keys, Fields
<1>2. "other" \notin Fields
  BY DEF Fields, MultiWord
<1>3. Decodable(out) <=> Readable(keys)
  BY <1>1, <1>2 DEF Decodable, Readable
<1>4. ASSUME NEW f \in Fields
      PROVE  ValueOf(keys, f) = IF f \in DOMAIN out THEN out[f].value ELSE ZeroSettings[f]
  <2>1. CASE \E k \in keys : k[1] = f
    <3>1. PICK k \in keys : k[1] = f
      BY <2>1
    <3> QED BY <1>1, <3>1, ValueOfKey
  <2>2. CASE ~ \E k \in keys : k[1] = f
    BY <2>2 DEF ValueOf
  <2> QED BY <2>1, <2>2
<1> QED BY <1>3, <1>4 DEF Decoded, Values

\* The values of keys that can be read have their types.
LEMMA ValuesTyped ==
  ASSUME raw \in Inputs, NEW keys \in OneSpellingEach, Readable(keys), NEW f \in Fields
  PROVE  OfType(f, ValueOf(keys, f))
<1>1. CASE \E k \in keys : k[1] = f
  <2>1. PICK k \in keys : k[1] = f
    BY <1>1
  <2>2. ValueOf(keys, f) = raw[k].value
    BY <2>1, ValueOfKey
  <2>3. k \in DOMAIN raw /\ raw[k].typed
    BY <2>1 DEF OneSpellingEach, Readable
  <2> QED BY <2>1, <2>2, <2>3, SettingsAssumption
<1>2. CASE ~ \E k \in keys : k[1] = f
  <2>1. ValueOf(keys, f) = ZeroSettings[f]
    BY <1>2 DEF ValueOf
  <2>2. DOMAIN <<>> = {}
    OBVIOUS
  <2>3. ZeroSettings.reusability_weights = <<>> /\ ZeroSettings.rules = <<>>
    BY DEF ZeroSettings
  <2> QED BY <2>1, <2>2, <2>3 DEF OfType
<1> QED BY <1>1, <1>2

\* The overrides are good, laid over the defaults, exactly when none is negative
\* and they do not set every component to zero.
LEMMA WeightsAccepted ==
  ASSUME NEW w, OfType("reusability_weights", w),
         NEW s, s.reusability_weights = w
  PROVE  ValidWeights(WeightsOf(s)) <=>
           /\ \A c \in DOMAIN w : w[c] >= 0
           /\ DOMAIN w = DOMAIN DefaultWeights => \E c \in DOMAIN DefaultWeights : w[c] # 0
<1> DEFINE C == DOMAIN DefaultWeights
<1>1. DOMAIN w \subseteq C /\ \A c \in DOMAIN w : w[c] \in Int
  BY DEF OfType
<1>2. \A c \in C : DefaultWeights[c] \in Int /\ DefaultWeights[c] > 0
  BY DEF DefaultWeights
<1>3. DOMAIN WeightsOf(s) = C
  BY DEF WeightsOf
<1>4. \A c \in C : WeightsOf(s)[c] = IF c \in DOMAIN w THEN w[c] ELSE DefaultWeights[c]
  BY DEF WeightsOf
<1> HIDE DEF C
<1> QED BY <1>1, <1>2, <1>3, <1>4 DEF ValidWeights, C

\* A rule is good when it has a pattern and a minimum from 0 to 1.
LEMMA RuleAccepted ==
  ASSUME NEW r, r.min \in Seq(Int), Len(r.min) <= 1
  PROVE  ValidRule(r) <=> r.pattern # "" /\ \E m \in 0 .. 20 : r.min = <<m>>
<1>1. ASSUME NEW x \in Seq(Int), Len(x) <= 1 PROVE x = <<>> \/ x = <<x[1]>>
  <2>1. CASE Len(x) = 0
    BY <2>1
  <2>2. CASE Len(x) = 1
    <3>1. x[1] \in Int
      BY <2>2
    <3>2. <<x[1]>> \in Seq(Int) /\ Len(<<x[1]>>) = 1 /\ <<x[1]>>[1] = x[1]
      BY <3>1
    <3> DEFINE y == <<x[1]>>
    <3>3. y \in Seq(Int) /\ Len(y) = 1 /\ y[1] = x[1]
      BY <3>2
    <3> HIDE DEF y
    <3>4. x = y
      BY <2>2, <3>3, SeqEqual
    <3> QED BY <3>4 DEF y
  <2>3. Len(x) = 0 \/ Len(x) = 1
    <3> DEFINE n == Len(x)
    <3>1. n \in Nat /\ n <= 1
      BY <1>1, LenProperties
    <3> HIDE DEF n
    <3>2. n = 0 \/ n = 1
      BY <3>1
    <3> QED BY <3>2 DEF n
  <2> QED BY <2>1, <2>2, <2>3
<1>2. r.min = <<>> \/ r.min = <<r.min[1]>>
  BY <1>1
<1>3. \A m : <<m>> # <<>> /\ <<m>>[1] = m
  OBVIOUS
<1> QED BY <1>2, <1>3 DEF ValidRule

\* The verdict New gives is the one the values call for.
LEMMA AcceptedAsExpected ==
  ASSUME raw \in Inputs, NEW keys \in OneSpellingEach, Readable(keys)
  PROVE  Expected(keys) = IF SettingsAccepted(WithDefaults(Values(keys)))
                            THEN {"fails", "runs"} ELSE {"refused"}
<1> DEFINE v(f) == ValueOf(keys, f)
           s == Values(keys)
           d == WithDefaults(s)
<1>1. /\ s.dependency_scope = v("dependency_scope") /\ s.field_usage = v("field_usage")
      /\ s.reusability_weights = v("reusability_weights") /\ s.rules = v("rules")
      /\ s.patterns = v("patterns")
  BY DEF Values, Fields, MultiWord
<1>2. /\ d.dependency_scope = IF v("dependency_scope") = "" THEN "module" ELSE v("dependency_scope")
      /\ d.field_usage = IF v("field_usage") = "" THEN "direct" ELSE v("field_usage")
      /\ d.reusability_weights = v("reusability_weights") /\ d.rules = v("rules")
  <2>1. DOMAIN s = Fields
    BY DEF Values
  <2> HIDE DEF s, v
  <2> QED BY <1>1, <2>1 DEF WithDefaults, Fields, MultiWord
<1>3. OfType("reusability_weights", v("reusability_weights")) /\ OfType("rules", v("rules"))
  BY ValuesTyped DEF Fields, MultiWord
<1> HIDE DEF v, s, d
<1>4. ModesAccepted(d) <=> /\ v("dependency_scope") \in Scopes \cup {""}
                           /\ v("field_usage") \in Usages \cup {""}
  BY <1>2 DEF ModesAccepted, Scopes, Usages
<1>5. ValidWeights(WeightsOf(d)) <=>
        /\ \A c \in DOMAIN v("reusability_weights") : v("reusability_weights")[c] >= 0
        /\ DOMAIN v("reusability_weights") = DOMAIN DefaultWeights =>
             \E c \in DOMAIN DefaultWeights : v("reusability_weights")[c] # 0
  BY <1>2, <1>3, WeightsAccepted
<1>6. \A k \in DOMAIN v("rules") :
        ValidRule(v("rules")[k]) <=> /\ v("rules")[k].pattern # ""
                                     /\ \E m \in 0 .. 20 : v("rules")[k].min = <<m>>
  BY <1>3, RuleAccepted DEF OfType
<1>7. ~ \E k \in keys : k[1] = "other" \/ ~raw[k].typed
  BY DEF Readable
<1>8. Expected(keys) = IF SettingsAccepted(d) THEN {"fails", "runs"} ELSE {"refused"}
  BY <1>2, <1>4, <1>5, <1>6, <1>7 DEF Expected, SettingsAccepted, v
<1> QED BY <1>8 DEF d, s
-----------------------------------------------------------------------------
LEMMA SettingsInitInv == SettingsInit => ReadInv
<1> SUFFICES ASSUME SettingsInit PROVE ReadInv
  OBVIOUS
<1>1. out = <<>> /\ DOMAIN <<>> = {} /\ done = {}
  BY DEF SettingsInit
<1>2. RenamedSoFar
  BY <1>1 DEF RenamedSoFar
<1>3. ReadType
  BY <1>1 DEF SettingsInit, ReadType, Runs, Verdicts, ZeroSettings, Fields, MultiWord
<1> QED BY <1>2, <1>3 DEF SettingsInit, ReadInv

\* The block never changes, nor what it gives rise to.
LEMMA BlockStays ==
  ASSUME UNCHANGED raw
  PROVE  /\ OneSpellingEach' = OneSpellingEach
         /\ \A keys, f : ValueOf(keys, f)' = ValueOf(keys, f)
         /\ \A keys : Expected(keys)' = Expected(keys)
<1>1. OneSpellingEach' = OneSpellingEach
  BY DEF OneSpellingEach
<1>2. \A keys, f : ValueOf(keys, f)' = ValueOf(keys, f)
  BY DEF ValueOf
<1>3. ASSUME NEW keys PROVE Expected(keys)' = Expected(keys)
  BY <1>2 DEF Expected
<1> QED BY <1>1, <1>2, <1>3

\* What has been concluded stays, as the block does.
LEMMA ConclusionsStay ==
  ASSUME UNCHANGED raw, NEW r, result'[r] = result[r]
  PROVE  /\ IsOfOneSpelling(r) => IsOfOneSpelling(r)'
         /\ FailsByPattern(r) => FailsByPattern(r)'
BY BlockStays DEF IsOfOneSpelling, FailsByPattern

\* A key is renamed.
LEMMA RemapKeeps ==
  ASSUME ReadInv, NEW key, Remap(key)
  PROVE  ReadInv'
<1>1. /\ pc = "remap" /\ UNCHANGED <<raw, run, pc, config, result>>
      /\ key \in DOMAIN raw /\ done' = done \cup {key}
      /\ DOMAIN out' = DOMAIN out \cup {key[1]}
      /\ \A f \in DOMAIN out' : out'[f] = IF f = key[1] THEN raw[key] ELSE out[f]
  BY DEF Remap, Renamed
<1>2. RenamedSoFar'
  <2>1. DOMAIN out = {k[1] : k \in done} /\ \A f \in DOMAIN out : \E k \in done : k[1] = f /\ out[f] = raw[k]
    BY DEF ReadInv, RenamedSoFar
  <2>2. DOMAIN out' = {k[1] : k \in done'}
    BY <1>1, <2>1
  <2>3. ASSUME NEW f \in DOMAIN out' PROVE \E k \in done' : k[1] = f /\ out'[f] = raw'[k]
    <3>1. CASE f = key[1]
      BY <1>1, <3>1
    <3>2. CASE f # key[1]
      BY <1>1, <2>1, <3>2
    <3> QED BY <3>1, <3>2
  <2> QED BY <2>2, <2>3 DEF RenamedSoFar
<1>3. ReadType'
  BY <1>1 DEF ReadInv, ReadType
<1>4. \A r \in Runs : result'[r].verdict # "pending" => IsOfOneSpelling(r)' /\ FailsByPattern(r)'
  BY <1>1, ConclusionsStay DEF ReadInv
<1> QED BY <1>1, <1>2, <1>3, <1>4 DEF ReadInv

\* A run concludes with what its values call for.
LEMMA ConcludeKeeps ==
  ASSUME ReadInv, NEW v \in Verdicts, NEW s, Conclude(v, s), UNCHANGED <<raw, run, out, done>>,
         DOMAIN config' = Fields,
         NEW keys \in OneSpellingEach, v \in Expected(keys),
         v # "undecodable" =>
           \A f \in Fields : ValueOf(keys, f) # ZeroSettings[f] => s[f] = ValueOf(keys, f),
         v = "fails" => \E k \in DOMAIN s.patterns : s.patterns[k] = ""
  PROVE  ReadInv'
<1>1. /\ run \in Runs /\ DOMAIN result = Runs /\ pc' = "end"
      /\ result' = [result EXCEPT ![run] = [verdict |-> v, settings |-> s]]
  BY DEF ReadInv, ReadType, Conclude
<1>2. /\ DOMAIN result' = Runs
      /\ result'[run].verdict = v /\ result'[run].settings = s
      /\ \A r \in Runs \ {run} : result'[r] = result[r]
  BY <1>1
<1>3. OneSpellingEach' = OneSpellingEach /\ Expected(keys)' = Expected(keys)
  BY BlockStays
<1>4. \A f : ValueOf(keys, f)' = ValueOf(keys, f)
  BY BlockStays
<1>5. IsOfOneSpelling(run)' /\ FailsByPattern(run)'
  <2>1. run' = run
    OBVIOUS
  <2>2. IsOfOneSpelling(run)'
    BY <1>2, <1>3, <1>4, <2>1 DEF IsOfOneSpelling
  <2>3. FailsByPattern(run)'
    BY <1>2, <2>1 DEF FailsByPattern
  <2> QED BY <2>2, <2>3
<1>6. ASSUME NEW r \in Runs, result'[r].verdict # "pending"
      PROVE  IsOfOneSpelling(r)' /\ FailsByPattern(r)'
  <2>1. CASE r = run
    <3>1. run' = run
      OBVIOUS
    <3> QED BY <1>5, <2>1, <3>1
  <2>2. CASE r # run
    BY <1>2, <1>6, <2>2, ConclusionsStay DEF ReadInv
  <2> QED BY <2>1, <2>2
<1>7. ReadType'
  BY <1>1, <1>2 DEF ReadInv, ReadType
<1>8. RenamedSoFar'
  BY DEF ReadInv, RenamedSoFar
<1> QED BY <1>1, <1>6, <1>7, <1>8 DEF ReadInv

LEMMA DecodeKeeps == ReadInv /\ Decode => ReadInv'
<1> SUFFICES ASSUME ReadInv, Decode PROVE ReadInv'
  OBVIOUS
<1>1. UNCHANGED <<raw, run, out, done>> /\ done = DOMAIN raw /\ raw \in Inputs
  BY DEF Decode, ReadInv, ReadType
<1>2. PICK keys \in OneSpellingEach :
        DOMAIN out = {k[1] : k \in keys} /\ \A k \in keys : out[k[1]] = raw[k]
  BY <1>1, MapOfOneSpelling DEF ReadInv
<1>3. (Decodable(out) <=> Readable(keys)) /\ Decoded(out) = Values(keys)
  BY <1>1, <1>2, DecodesKeys
<1>4. CASE Decodable(out)
  <2>1. config' = Values(keys) /\ pc' = "new" /\ UNCHANGED result
    BY <1>3, <1>4 DEF Decode
  <2>2. keys \in OneSpellingEach' /\ Readable(keys)' /\ config' = Values(keys)'
    BY <1>1, <1>3, <1>4, <2>1 DEF OneSpellingEach, Readable, Values, ValueOf
  <2>3. ReadType'
    BY <1>1, <2>1 DEF ReadInv, ReadType, Values
  <2>4. \A r \in Runs : result'[r].verdict # "pending" => IsOfOneSpelling(r)' /\ FailsByPattern(r)'
    BY <1>1, <2>1, ConclusionsStay DEF ReadInv
  <2>5. RenamedSoFar'
    BY <1>1 DEF ReadInv, RenamedSoFar
  <2> QED BY <2>1, <2>2, <2>3, <2>4, <2>5 DEF ReadInv
<1>5. CASE ~Decodable(out)
  <2>1. Conclude("undecodable", ZeroSettings) /\ UNCHANGED config
    BY <1>5 DEF Decode
  <2>2. "undecodable" \in Expected(keys)
    BY <1>3, <1>5 DEF Expected, Readable
  <2>3. DOMAIN config' = Fields /\ "undecodable" \in Verdicts
    BY <2>1 DEF ReadInv, ReadType, Verdicts
  <2> QED BY <1>1, <2>1, <2>2, <2>3, ConcludeKeeps
<1> QED BY <1>4, <1>5

\* The defaults fill in what has its zero value and leave the rest.
LEMMA DefaultsKeepValues ==
  ASSUME NEW keys
  PROVE  /\ DOMAIN WithDefaults(Values(keys)) = Fields
         /\ \A f \in Fields : ValueOf(keys, f) # ZeroSettings[f] =>
              WithDefaults(Values(keys))[f] = ValueOf(keys, f)
<1>1. DOMAIN Values(keys) = Fields /\ \A f \in Fields : Values(keys)[f] = ValueOf(keys, f)
  BY DEF Values
<1>2. /\ ZeroSettings["patterns"] = <<>> /\ ZeroSettings["dependency_scope"] = ""
      /\ ZeroSettings["field_usage"] = ""
  BY DEF ZeroSettings
<1> DEFINE s == Values(keys)
<1> HIDE DEF s
<1>3. DOMAIN WithDefaults(s) = DOMAIN s
  BY DEF WithDefaults
<1>4. /\ "patterns" \in Fields /\ "dependency_scope" \in Fields /\ "field_usage" \in Fields
  BY DEF Fields, MultiWord
<1>5. ASSUME NEW f \in Fields, s[f] # ZeroSettings[f] PROVE WithDefaults(s)[f] = s[f]
  BY <1>1, <1>2, <1>4, <1>5 DEF WithDefaults, s
<1> QED BY <1>1, <1>3, <1>5 DEF s

LEMMA BuildAnalyzerKeeps == ReadInv /\ BuildAnalyzer => ReadInv'
<1> SUFFICES ASSUME ReadInv, BuildAnalyzer PROVE ReadInv'
  OBVIOUS
<1>1. /\ UNCHANGED <<raw, run, out, done>> /\ raw \in Inputs
      /\ config' = WithDefaults(config)
  BY DEF BuildAnalyzer, ReadInv, ReadType
<1>2. PICK keys \in OneSpellingEach : Readable(keys) /\ config = Values(keys)
  BY DEF BuildAnalyzer, ReadInv
<1>3. /\ DOMAIN config' = Fields
      /\ \A f \in Fields : ValueOf(keys, f) # ZeroSettings[f] => config'[f] = ValueOf(keys, f)
  BY <1>1, <1>2, DefaultsKeepValues
<1>4. Expected(keys) = IF SettingsAccepted(config') THEN {"fails", "runs"} ELSE {"refused"}
  BY <1>1, <1>2, AcceptedAsExpected
<1>5. CASE SettingsAccepted(config')
  <2>1. pc' = "analyze" /\ UNCHANGED result
    BY <1>5 DEF BuildAnalyzer
  <2>2. keys \in OneSpellingEach' /\ Readable(keys)' /\ config' = WithDefaults(Values(keys))'
    BY <1>1, <1>2 DEF OneSpellingEach, Readable, Values, ValueOf, WithDefaults
  <2>3. ReadType'
    BY <1>1, <1>3, <2>1 DEF ReadInv, ReadType
  <2>4. \A r \in Runs : result'[r].verdict # "pending" => IsOfOneSpelling(r)' /\ FailsByPattern(r)'
    BY <1>1, <2>1, ConclusionsStay DEF ReadInv
  <2>5. RenamedSoFar'
    BY <1>1 DEF ReadInv, RenamedSoFar
  <2>6. SettingsAccepted(config)'
    BY <1>5 DEF SettingsAccepted, ModesAccepted, ValidWeights, WeightsOf
  <2> QED BY <2>1, <2>2, <2>3, <2>4, <2>5, <2>6 DEF ReadInv
<1>6. CASE ~SettingsAccepted(config')
  <2>1. Conclude("refused", config')
    BY <1>6 DEF BuildAnalyzer
  <2>2. "refused" \in Expected(keys) /\ "refused" \in Verdicts
    BY <1>4, <1>6 DEF Verdicts
  <2> QED BY <1>1, <1>3, <2>1, <2>2, ConcludeKeeps
<1> QED BY <1>5, <1>6

LEMMA AnalyzeKeeps == ReadInv /\ Analyze => ReadInv'
<1> SUFFICES ASSUME ReadInv, Analyze PROVE ReadInv'
  OBVIOUS
<1>1. /\ UNCHANGED <<raw, run, out, done, config>> /\ raw \in Inputs
      /\ DOMAIN config = Fields /\ SettingsAccepted(config)
  BY DEF Analyze, ReadInv, ReadType
<1>2. PICK keys \in OneSpellingEach : Readable(keys) /\ config = WithDefaults(Values(keys))
  BY DEF Analyze, ReadInv
<1>3. \A f \in Fields : ValueOf(keys, f) # ZeroSettings[f] => config[f] = ValueOf(keys, f)
  BY <1>2, DefaultsKeepValues
<1>4. Expected(keys) = {"fails", "runs"}
  BY <1>1, <1>2, AcceptedAsExpected
<1>5. ConfigAccepted(config) \/ \E k \in DOMAIN config.patterns : config.patterns[k] = ""
  BY <1>1 DEF ConfigAccepted, ConfigModes, SettingsAccepted, ModesAccepted
<1> DEFINE v == IF ConfigAccepted(config) THEN "runs" ELSE "fails"
<1>6. /\ v \in Verdicts /\ v \in Expected(keys) /\ Conclude(v, config)
      /\ v = "fails" => \E k \in DOMAIN config.patterns : config.patterns[k] = ""
  BY <1>4, <1>5 DEF Analyze, Verdicts
<1> HIDE DEF v
<1> QED BY <1>1, <1>3, <1>6, ConcludeKeeps

LEMMA RunAgainKeeps == ReadInv /\ RunAgain => ReadInv'
<1> SUFFICES ASSUME ReadInv, RunAgain PROVE ReadInv'
  OBVIOUS
<1>1. /\ UNCHANGED <<raw, result>> /\ run' = 2 /\ pc' = "remap"
      /\ out' = <<>> /\ done' = {} /\ config' = ZeroSettings
  BY DEF RunAgain
<1>2. DOMAIN <<>> = {} /\ DOMAIN ZeroSettings = Fields
  BY DEF ZeroSettings, Fields, MultiWord
<1>3. RenamedSoFar'
  BY <1>1, <1>2 DEF RenamedSoFar
<1>4. ReadType'
  BY <1>1, <1>2 DEF ReadInv, ReadType, Runs
<1>5. \A r \in Runs : result'[r].verdict # "pending" => IsOfOneSpelling(r)' /\ FailsByPattern(r)'
  BY <1>1, ConclusionsStay DEF ReadInv
<1> QED BY <1>1, <1>3, <1>4, <1>5 DEF ReadInv

LEMMA SettingsStutter == ReadInv /\ UNCHANGED settingsVars => ReadInv'
<1> SUFFICES ASSUME ReadInv, UNCHANGED settingsVars PROVE ReadInv'
  OBVIOUS
<1>1. UNCHANGED <<raw, run, pc, out, done, config, result>>
  BY DEF settingsVars
<1>2. \A r \in Runs : result'[r].verdict # "pending" => IsOfOneSpelling(r)' /\ FailsByPattern(r)'
  BY <1>1, ConclusionsStay DEF ReadInv
<1>3. RenamedSoFar' /\ ReadType'
  BY <1>1 DEF ReadInv, RenamedSoFar, ReadType
<1>4. OneSpellingEach' = OneSpellingEach /\ \A keys : Readable(keys)' <=> Readable(keys)
  BY <1>1 DEF OneSpellingEach, Readable
<1>5. \A keys : Values(keys)' = Values(keys)
  BY <1>1 DEF Values, ValueOf
<1>6. \A keys : WithDefaults(Values(keys))' = WithDefaults(Values(keys))
  BY <1>5 DEF WithDefaults
<1>7. SettingsAccepted(config)' <=> SettingsAccepted(config)
  BY <1>1 DEF SettingsAccepted, ModesAccepted, ValidWeights, WeightsOf
<1> QED BY <1>1, <1>2, <1>3, <1>4, <1>5, <1>6, <1>7 DEF ReadInv

\* The invariant, for every settings block and every order of its keys.
THEOREM SettingsInvariance == SettingsSpec => []ReadInv
<1>1. ReadInv /\ [SettingsNext]_settingsVars => ReadInv'
  BY RemapKeeps, DecodeKeeps, BuildAnalyzerKeeps, AnalyzeKeeps, RunAgainKeeps, SettingsStutter
     DEF SettingsNext
<1> QED BY <1>1, SettingsInitInv, PTL DEF SettingsSpec

\* No analysis starts with a mode the code does not know, whatever the block.
THEOREM SettingsTypeCorrect == SettingsSpec => []SettingsTypeOK
<1>1. ReadInv => SettingsTypeOK
  <2> SUFFICES ASSUME ReadInv PROVE SettingsTypeOK
    OBVIOUS
  <2>1. DOMAIN raw \subseteq Keys /\ DOMAIN out = {k[1] : k \in done} /\ done \subseteq DOMAIN raw
    BY SettingsAssumption DEF ReadInv, ReadType, RenamedSoFar
  <2>2. \A k \in Keys : k[1] \in Fields \cup {"other"}
    <3>1. \A k \in MultiWord \X {"-", "_"} : k[1] \in MultiWord
      OBVIOUS
    <3>2. \A k \in {"patterns", "rules", "other"} \X {"_"} :
            k[1] \in {"patterns", "rules", "other"}
      OBVIOUS
    <3> QED BY <3>1, <3>2 DEF Keys, Fields
  <2>3. \A f \in DOMAIN out : \E k \in Keys : f = k[1]
    BY <2>1
  <2>4. DOMAIN out \subseteq Fields \cup {"other"}
    BY <2>2, <2>3
  <2> QED BY <2>1, <2>4 DEF ReadInv, ReadType, SettingsTypeOK, SettingsAccepted, ModesAccepted
<1> QED BY <1>1, SettingsInvariance, PTL

\* Whatever the block and the order its keys are renamed in: a run comes out as the
\* block with one spelling of every field does.
THEOREM OneSpellingCounts == SettingsSpec => []OutcomeIsOfOneSpelling
<1>1. ReadInv => OutcomeIsOfOneSpelling
  BY DEF ReadInv, OutcomeIsOfOneSpelling, IsOfOneSpelling
<1> QED BY <1>1, SettingsInvariance, PTL

\* Settings the linter was built with fail in the analysis for an empty package
\* pattern alone: on everything else the two checks agree.
THEOREM LateFailures == SettingsSpec => []LateFailureIsAnEmptyPattern
<1>1. ReadInv => LateFailureIsAnEmptyPattern
  BY DEF ReadInv, ReadType, LateFailureIsAnEmptyPattern, FailsByPattern
<1> QED BY <1>1, SettingsInvariance, PTL
=============================================================================
