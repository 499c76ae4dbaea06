--------------------------- MODULE MCTypeExtract ---------------------------
(* Types for TLC.  Their fields and signatures are typed from the program    *)
(*   type Self struct { ... }          type Box[T any] struct { next *Box[T]; o Other }  *)
(*   type Other struct { far Far }     type Far struct{}    (time.Time is not analysed)  *)
(* All have two fields and three methods a < b < c declared as b, c, a, one  *)
(* of which may be left out, with bodies of at most two nodes; the fields    *)
(* are found among the declarations that the files hold in either order.     *)
EXTENDS TypeExtract, TLC

T(kind, parts, args, name) == [kind |-> kind, parts |-> parts, args |-> args, name |-> name]

MCShape ==
  ("int"              :> T("other", <<>>, <<>>, "") @@
   "Self"             :> T("named", <<"struct{Other}">>, <<>>, "Self") @@
   "Other"            :> T("named", <<"Far">>, <<>>, "Other") @@
   "Far"              :> T("named", <<>>, <<>>, "Far") @@
   "time.Time"        :> T("named", <<>>, <<>>, "time.Time") @@
   "Box[*Other]"      :> T("named", <<"*Other">>, <<"*Other">>, "Box") @@
   "*Other"           :> T("elem", <<"Other">>, <<>>, "") @@
   "*Self"            :> T("elem", <<"Self">>, <<>>, "") @@
   "map[int]Box"      :> T("map", <<"int", "Box[*Other]">>, <<>>, "") @@
   "struct{Other}"    :> T("struct", <<"Other", "*Self">>, <<>>, "") @@
   "func()"           :> T("signature", <<>>, <<>>, "") @@
   "func(Far) map"    :> T("signature", <<"Far", "time.Time", "map[int]Box">>, <<>>, ""))

MCType == DOMAIN MCShape
MCName == {"", "Self", "Other", "Far", "Box", "time.Time"}

N(kind, target) == [kind |-> kind, target |-> target]
CallsB == <<N("call", 2), N("if", 0)>>  \* of method c, which calls b
MCNodes == {N("call", 1), N("call", 2), N("field", 2), N("logical", 0)}
MCBodies == {<<>>} \cup {<<n>> : n \in MCNodes} \cup {<<N("call", 3), N("call", 1)>>, <<N("field", 9), N("case", 0)>>}

Field(type, pos) == [exported |-> TRUE, pos |-> pos, type |-> type]
Method(name, declared, body, signature) ==
  [name |-> name, declared |-> declared, exported |-> name # 2, documented |-> name = 1,
   body |-> body, signature |-> signature]

R(start, end, documented) == [start |-> start, end |-> end, documented |-> documented]
MCRanges == {<<R(5, 6, FALSE), R(7, 8, TRUE), R(1, 3, TRUE)>>, <<R(1, 3, FALSE), R(5, 6, TRUE)>>, <<>>}

\* With one typing of the members: every choice of ranges and positions, and
\* every choice of bodies.
Shaped(exported, rs, p, q, b1, b2, declared) ==
  [exported |-> exported, documented |-> TRUE, ranges |-> rs,
   fields |-> <<Field("struct{Other}", p), Field("Box[*Other]", q)>>,
   methods |-> <<Method(2, TRUE, b2, "func()"), Method(3, declared, CallsB, "func(Far) map"),
                 Method(1, TRUE, b1, "func()")>>]
Documents ==
  {Shaped(exported, rs, p, q, <<>>, <<>>, TRUE) :
     exported \in BOOLEAN, rs \in MCRanges, p \in {2, 4}, q \in {5, 9}}
Bodies ==
  {Shaped(TRUE, <<>>, 2, 5, b1, b2, declared) : b1 \in MCBodies, b2 \in MCBodies, declared \in BOOLEAN}

\* Every typing of two fields, with a method whose signature may be left out.
Typings ==
  {[exported |-> TRUE, documented |-> TRUE, ranges |-> <<>>,
    fields |-> <<Field(t, 2), Field(u, 5)>>,
    methods |-> <<Method(2, TRUE, <<>>, "func()"), Method(1, declared, <<N("call", 2)>>, "func(Far) map")>>] :
     t \in MCType, u \in MCType, declared \in BOOLEAN}

MCDeclarations == Documents \cup Bodies \cup Typings
MCDeclared == {RootsOf(d) : d \in MCDeclarations}
=============================================================================
