------------------------------- MODULE MCCli -------------------------------
(* Instances of Cli for TLC. *)
EXTENDS Cli

\* Flags that are not given.
Defaults == [mode |-> "run", format |-> "unset", web |-> FALSE, output |-> "unset",
             check |-> FALSE, rules |-> "none", weights |-> "valid", terminal |-> FALSE,
             cpu |-> FALSE, heap |-> FALSE]

\* Every combination of the flags of an analysis, and each of the other ways to
\* call the command.
MCArguments ==
  [mode : {"run"}, format : {"unset", "text", "web", "unknown"}, web : BOOLEAN,
   output : {"unset", "file"}, check : BOOLEAN, rules : {"none", "valid", "invalid"},
   weights : {"valid"}, terminal : BOOLEAN, cpu : BOOLEAN, heap : BOOLEAN]
  \cup {[Defaults EXCEPT !.mode = m, !.web = w, !.rules = r, !.terminal = t, !.weights = v] :
          m \in {"run", "version", "help", "badflags"}, w \in BOOLEAN,
          r \in {"none", "malformed"}, t \in BOOLEAN, v \in {"valid", "invalid"}}

\* One plain analysis, interrupted or not.
MCPlainRun == {Defaults}
=============================================================================
