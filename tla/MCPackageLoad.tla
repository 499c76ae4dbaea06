--------------------------- MODULE MCPackageLoad ---------------------------
(* Instances of PackageLoad for TLC. *)
EXTENDS PackageLoad

\* One error of every class: unknown to the classifier, a permanent errno, a
\* transient errno, a network error that timed out and one that did not, the
\* context errors (DeadlineExceeded is also a timed-out net.Error), and a chain
\* that joins a context error with a transient errno.
MCFailures ==
  { {"untyped"}, {"EPERM"}, {"EAGAIN"}, {"NetTimeout"}, {"Canceled"},
    {"DeadlineExceeded", "NetTimeout"}, {"Canceled", "EMFILE"} }

\* Ticks of 20 ms.  The budget is 100: after 88 the second delay (8 to 12) and
\* after 95 the first one (4 to 6) may or may not fit; 101 overruns it in one call.
MCLoadTicks == {0, 88, 95, 101}
=============================================================================
