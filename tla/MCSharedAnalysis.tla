-------------------------- MODULE MCSharedAnalysis --------------------------
(* Instances of SharedAnalysis for TLC. *)
EXTENDS SharedAnalysis, TLC

\* Two passes of package a (the second is its test variant, which has the same
\* path), one of b, and one of a package outside the module.
MCPackageOf == "a1" :> "a" @@ "a2" :> "a" @@ "b1" :> "b" @@ "x1" :> "x"

\* Under the settings New saw, a has two violations with one of b between them.
MCFound == "original" :> << <<"a", "T">>, <<"b", "U">>, <<"a", "V">> >>
        @@ "written"  :> << <<"b", "U">>, <<"b", "W">> >>
=============================================================================
