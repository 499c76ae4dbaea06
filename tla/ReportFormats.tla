--------------------------- MODULE ReportFormats ---------------------------
(***************************************************************************)
(* What the four formats make of a report (reporting/domain and            *)
(* reporting/application): the lines of the text format around the table   *)
(* of ReportTree, the records of CSV, the document of JSON and the page of *)
(* the web format.  Numbers are not formatted and text is not coloured.    *)
(***************************************************************************)
EXTENDS ReportTree, Sorting

CONSTANT Runes \* how many runes a segment of a path or the name of a type has

ASSUME RunesAssumption ==
  /\ Runes \in [DOMAIN Runes -> Nat]
  /\ \A r \in Reports :
       /\ r.module \in Seq(DOMAIN Runes)
       /\ \A k \in DOMAIN r.packages :
            /\ r.packages[k].path \in Seq(DOMAIN Runes)
            /\ \A typ \in Range(r.packages[k].types) : typ.name \in DOMAIN Runes

Entry(pkg, typ, value) == [pkg |-> pkg.path, name |-> typ.name, value |-> value]

\* The value a reader gets: a number, or none where the mark of a value that does
\* not apply stands.
NA == <<>>

-----------------------------------------------------------------------------
\* A cell's width counts its prefix: four runes for a glyph or its
\* continuation, one for the bar of a gap row (mutant: the text alone).
GlyphRunes == 4
PrefixWidth(row) ==
  IF row.kind = "gap" THEN (IF row.prefix = <<>> THEN 0 ELSE GlyphRunes * (Len(row.prefix) - 1) + 1)
  ELSE GlyphRunes * (Len(row.prefix) + IF row.connector = "" THEN 0 ELSE 1)

\* A node's segments are joined by slashes; the root is written ".".
NameWidth(name) ==
  LET Width[k \in 0 .. Len(name)] == IF k = 0 THEN -1 ELSE Width[k - 1] + Runes[name[k]] + 1
  IN Width[Len(name)]
TextWidth(row) ==
  IF row.kind = "gap" THEN 0 ELSE IF row.name = <<>> THEN 1 ELSE NameWidth(row.name)

CellWidth_TextOnly(row) == TextWidth(row)
CellWidth(row) == PrefixWidth(row) + TextWidth(row)

HeaderWidth == 11 \* "PATH / TYPE"

\* measureTable for the column of names.
NameColumn == Max({HeaderWidth} \cup {CellWidth(row) : row \in Range(rows)})

\* writeCellPad: what goes between a name and its value; a row that ends with
\* its name (lastFilledCell) is not padded.
Padding(row) == IF row.cells = <<>> THEN 0 ELSE NameColumn - CellWidth(row) + 2

\* measureRow, for the legend: does any row show the mark (mutant: only the
\* last row decides)?
SawNA_LastRow == rows # <<>> /\ rows[Len(rows)].cells = <<NoStat>>
SawNA == \E i \in DOMAIN rows : rows[i].cells = <<NoStat>>

-----------------------------------------------------------------------------
\* collectNoteEntries: the reasons of a package's types in the order they come
\* up, each with the types that have it, in theirs.
FirstWith(pkg, reason) ==
  CHOOSE k \in DOMAIN pkg.types :
    pkg.types[k].reason = reason /\ \A l \in 1 .. k - 1 : pkg.types[l].reason # reason
ReasonsOf(pkg) ==
  LET reasons == {typ.reason : typ \in Range(pkg.types)} \ {""}
  IN Sorted(reasons, [reason \in reasons |-> FirstWith(pkg, reason)])
TypesWith(pkg, reason) == Keep(pkg.types, {typ \in Range(pkg.types) : typ.reason = reason})

\* formatOneNote (mutant: a package with one reason says so of all its types).
AllTypes_OneReason(pkg, reason) == Len(ReasonsOf(pkg)) = 1 /\ Len(pkg.types) > 1
AllTypes(pkg, reason) ==
  Len(TypesWith(pkg, reason)) = Len(pkg.types) /\ Len(pkg.types) > 1

Note(pkg, reason) ==
  [kind |-> "note", reason |-> reason, all |-> AllTypes(pkg, reason),
   who |-> IF AllTypes(pkg, reason) THEN {} ELSE {typ.name : typ \in Range(TypesWith(pkg, reason))}]

PackageNotes(pkg) == [k \in DOMAIN ReasonsOf(pkg) |-> Note(pkg, ReasonsOf(pkg)[k])]

\* writeNotes: the title before the first package that has something to explain.
Notes ==
  LET Section(pkg) == IF ReasonsOf(pkg) = <<>> THEN <<>>
                      ELSE <<[kind |-> "notes path", path |-> pkg.path]>> \o PackageNotes(pkg)
      body == FlattenSeq([k \in DOMAIN Packages |-> Section(Packages[k])])
  IN IF body = <<>> THEN <<>> ELSE <<[kind |-> "notes title"]>> \o body

\* writeOptionalNALegend with writeNALegend, and writeExplainNotes.
Legend == IF SawNA THEN <<[kind |-> "legend"]>> ELSE <<>>
Explanation(explain) == IF explain THEN Notes ELSE <<>>

\* writeTextHeader, writeTextRows and writeTextTail, line by line.
TextHeader == <<[kind |-> "tool"]>>
                \o (IF report.module = <<>> THEN <<>> ELSE <<[kind |-> "module"]>>)
TextTable  == <<[kind |-> "header"]>> \o rows
TextTail(explain) == Legend \o Explanation(explain)

-----------------------------------------------------------------------------
\* CSVRecords below the header: nothing for a package without types.
CSVRecord(pkg, typ) == Entry(pkg, typ, IF typ.applicable THEN <<typ.value>> ELSE NA)
CSVRecords ==
  FlattenSeq([k \in DOMAIN Packages |->
    [j \in DOMAIN Packages[k].types |-> CSVRecord(Packages[k], Packages[k].types[j])]])

\* metricJSON: no value unless it applies (mutant: always the number).
MetricJSON_Always(typ) == <<typ.value>>
MetricJSON(typ) == IF typ.applicable THEN <<typ.value>> ELSE NA

\* buildJSONReport.
JSONReport ==
  [k \in DOMAIN Packages |->
    [path |-> Packages[k].path,
     types |-> [j \in DOMAIN Packages[k].types |->
                  [name |-> Packages[k].types[j].name, value |-> MetricJSON(Packages[k].types[j])]]]]

\* injectPlaceholder: the first occurrence is replaced, and what is put there is
\* not looked at again.  A page is a sequence of pieces of text; a piece of the
\* report is a name that may spell a placeholder.  The error for a page without the
\* placeholder is left out: WebTemplate has both, and the guide takes neither away.
Inject(page, placeholder, pieces) ==
  LET first == CHOOSE i \in DOMAIN page :
              page[i] = placeholder /\ \A j \in 1 .. i - 1 : page[j] # placeholder
  IN IF placeholder \in Range(page)
       THEN SubSeq(page, 1, first - 1) \o pieces \o SubSeq(page, first + 1, Len(page))
       ELSE page

WebTemplate == <<"<report>", "__REPORT_DATA__", "<docs>", "__DOCS_DATA__", "<end>">>
ReportPieces ==
  FlattenSeq([k \in DOMAIN Packages |->
    [j \in DOMAIN Packages[k].types |-> Packages[k].types[j].name]])

\* injectWebPayloads: the guide first, then the report, whose names are
\* anybody's (mutant: the other way round).
WebPage_ReportFirst ==
  Inject(Inject(WebTemplate, "__REPORT_DATA__", ReportPieces), "__DOCS_DATA__", <<"guide">>)
WebPage ==
  Inject(Inject(WebTemplate, "__DOCS_DATA__", <<"guide">>), "__REPORT_DATA__", ReportPieces)
=============================================================================
