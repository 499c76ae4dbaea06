------------------------------- MODULE Loader -------------------------------
(***************************************************************************)
(* What the analysis may rely on when it loads packages, without the       *)
(* backoff, the budget or the configuration: calls one after the other,    *)
(* none of them once the context is done and none after a context error,   *)
(* and an answer that is the last call's.  PackageLoad implements it.      *)
(***************************************************************************)
CONSTANTS
  Failure,       \* the errors a call may end with, as sets of what they wrap
  SelectionError \* the errors for a list that cannot be used

VARIABLES
  call,       \* none, open, or how the last call ended: ok, transient, permanent
  err,        \* the error it ended with, {} for none
  packages,   \* the kinds of packages it brought
  canceled,   \* the caller's context is done
  skipBroken, \* whether broken packages may be left out; never changes
  answer      \* what the load returned

loadervars == <<call, err, packages, canceled, skipBroken, answer>>

ContextError == {"Canceled", "DeadlineExceeded"}

Waiting == [kind |-> "pending", err |-> {}]
Success == [kind |-> "loaded", err |-> {}]
Failed(e) == [kind |-> "failed", err |-> e]

\* A list that makes a report: something sound in it, and nothing broken that
\* may not be skipped.
Usable == "sound" \in packages /\ ("broken" \in packages => skipBroken)

Init ==
  /\ call = "none"
  /\ err = {}
  /\ packages = {}
  /\ canceled \in BOOLEAN
  /\ skipBroken \in BOOLEAN
  /\ answer = Waiting

\* A first call, or another one after a failure that may pass.
Begin ==
  /\ answer = Waiting
  /\ call \in {"none", "transient"}
  /\ ~canceled
  /\ call' = "open"
  /\ err' = {}
  /\ packages' = {}
  /\ UNCHANGED <<canceled, skipBroken, answer>>

\* A call ends well only if the context is still alive, and is worth repeating
\* only if neither the context nor the error says that the caller is gone.
End ==
  /\ call = "open"
  /\ err' \in Failure \cup {{}}
  /\ packages' \subseteq {"sound", "broken", "testmain"}
  /\ call' \in {"ok", "transient", "permanent"}
  /\ call' = "ok" => ~canceled /\ err' = {}
  /\ call' = "transient" => ~canceled /\ err' # {} /\ err' \cap ContextError = {}
  /\ call' = "permanent" => canceled \/ err' # {}
  /\ UNCHANGED <<canceled, skipBroken, answer>>

Answer(a) ==
  /\ answer = Waiting
  /\ answer' = a
  /\ UNCHANGED <<call, err, packages, canceled, skipBroken>>

\* A good call is answered with its packages, or with what is wrong with them ...
Use    == call = "ok" /\ Usable /\ Answer(Success)
Refuse == call = "ok" /\ ~Usable /\ \E e \in SelectionError : Answer(Failed(e))

\* ... a bad one, or none at all, with the cancellation or else with its error.
GiveUp ==
  \/ canceled /\ call \in {"none", "transient", "permanent"} /\ Answer(Failed({"Canceled"}))
  \/ ~canceled /\ call \in {"transient", "permanent"} /\ Answer(Failed(err))

Cancel == canceled' = TRUE /\ UNCHANGED <<call, err, packages, skipBroken, answer>>

Next == Begin \/ End \/ Use \/ Refuse \/ GiveUp \/ Cancel

Spec == Init /\ [][Next]_loadervars
=============================================================================
