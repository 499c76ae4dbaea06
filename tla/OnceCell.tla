------------------------------ MODULE OnceCell ------------------------------
(***************************************************************************)
(* What callers may rely on in the result cache, with no factory and no    *)
(* library in sight: a cell that is filled once, after somebody asked, and *)
(* every caller gets what is in the cell unless it leaves because its own  *)
(* context is done.  ResultCache implements it.                            *)
(***************************************************************************)
CONSTANTS
  Caller,     \* the calls
  Cancelable, \* those whose context may be canceled
  Outcome     \* what the cell may be filled with

VARIABLES
  cell,    \* an outcome, or None
  caller,  \* where each call is
  answer,  \* what each call returned
  ctxDone  \* the callers whose context is canceled

oncevars == <<cell, caller, answer, ctxDone>>

None   == [kind |-> "none"]
GaveUp == [kind |-> "canceled"]

Init ==
  /\ cell = None
  /\ caller = [c \in Caller |-> "idle"]
  /\ answer = [c \in Caller |-> None]
  /\ ctxDone = {}

Ask(c) ==
  /\ caller[c] = "idle"
  /\ caller' = [caller EXCEPT ![c] = "waiting"]
  /\ UNCHANGED <<cell, answer, ctxDone>>

\* The cell is never emptied and never filled again.
Fill(o) ==
  /\ cell = None
  /\ \E c \in Caller : caller[c] # "idle"
  /\ cell' = o
  /\ UNCHANGED <<caller, answer, ctxDone>>

Return(c, a) ==
  /\ caller[c] = "waiting"
  /\ caller' = [caller EXCEPT ![c] = "returned"]
  /\ answer' = [answer EXCEPT ![c] = a]
  /\ UNCHANGED <<cell, ctxDone>>

Get(c)   == cell # None /\ Return(c, cell)
Leave(c) == c \in ctxDone /\ Return(c, GaveUp)

Cancel(c) ==
  /\ ctxDone' = ctxDone \cup {c}
  /\ UNCHANGED <<cell, caller, answer>>

Next ==
  \/ \E c \in Caller : Ask(c) \/ Get(c) \/ Leave(c)
  \/ \E o \in Outcome : Fill(o)
  \/ \E c \in Cancelable : Cancel(c)

Spec == Init /\ [][Next]_oncevars

-----------------------------------------------------------------------------
\* Every call that did not give up returned one and the same outcome, and only
\* a caller whose own context is done gave up.
OneAnswer ==
  /\ \A c, d \in Caller :
       /\ caller[c] = "returned" /\ answer[c] # GaveUp
       /\ caller[d] = "returned" /\ answer[d] # GaveUp
       => answer[c] = answer[d]
  /\ \A c \in Caller : answer[c] = GaveUp => c \in ctxDone
=============================================================================
