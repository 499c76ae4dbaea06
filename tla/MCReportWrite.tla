--------------------------- MODULE MCReportWrite ---------------------------
(* Reports for TLC: some of these packages, in the order of their paths,     *)
(* each with one of a few lists of types, read with and without a module.    *)
EXTENDS ReportWrite

MCPaths ==
  <<<<"m">>, <<"m", "a">>, <<"m", "a", "b">>, <<"m", "a", "b", "c", "d">>, <<"m", "b", "c">>, <<"z">>>>

Typed(name, applicable, value, reason) ==
  [name |-> name, applicable |-> applicable, value |-> value, reason |-> reason]

\* A value, a value some component of which was dropped, and no value.
T == Typed("T", TRUE, 3, "")
D == Typed("D", TRUE, 1, "dropped")
U == Typed("U", FALSE, 0, "none")

MCTypeLists == {<<>>, <<T, U>>, <<D>>}

\* For a few packages: reasons shared by some, all or none of their types, and a
\* name that spells a placeholder of the web page.
V == Typed("__DOCS_DATA__", FALSE, 0, "none")
MCMoreTypeLists == MCTypeLists \cup {<<U>>, <<U, V>>, <<V, D, U>>, <<T, V>>}

\* All reports over a sequence of paths.
Over(module, paths, lists) ==
  {[module |-> module, packages |-> [k \in DOMAIN s |-> [path |-> s[k], types |-> types[k]]]] :
     <<s, types>> \in UNION {{SelectSeq(paths, LAMBDA p : p \in chosen)}
                                \X [1 .. Cardinality(chosen) -> lists] :
                             chosen \in SUBSET Range(paths)}}

MCTreeReports  == Over(<<"m">>, MCPaths, MCTypeLists) \cup Over(<<>>, SubSeq(MCPaths, 2, 4), MCTypeLists)
MCSmallReports == Over(<<"m">>, SubSeq(MCPaths, 1, 2), MCMoreTypeLists) \cup Over(<<>>, <<<<"z">>>>, MCMoreTypeLists)

\* Two packages that the report writes as z.
MCSamePaths    == Over(<<"m">>, <<<<"m", "z">>, <<"z">>>>, MCTypeLists)
MCReports      == MCTreeReports \cup MCSmallReports \cup MCSamePaths

\* Every report as text on a terminal that takes it all, and the small ones in
\* every format, to either sink, with any lack of room.
MCPlenty == 100
MCJobs ==
  [report : MCReports, format : {"text"}, sink : {"stdout"}, explain : {TRUE},
   encodable : {TRUE}, room : {MCPlenty}]
  \cup
  [report : MCSmallReports, format : {"text", "csv", "json", "web"}, sink : {"file", "stdout"},
   explain : {TRUE}, encodable : {TRUE}, room : 0 .. 6 \cup {MCPlenty}]
  \cup
  [report : MCSmallReports, format : {"json", "web"}, sink : {"file", "stdout"},
   explain : {TRUE}, encodable : {FALSE}, room : {MCPlenty}]
  \cup
  [report : MCSmallReports, format : {"text"}, sink : {"file"},
   explain : {FALSE}, encodable : {TRUE}, room : {2, MCPlenty}]

MCRunes == [w \in {"m", "a", "b", "c", "d", "z", "T", "D", "U", "__DOCS_DATA__"} |->
              CASE w = "__DOCS_DATA__" -> 13 [] w = "b" -> 6 [] OTHER -> 1]
=============================================================================
