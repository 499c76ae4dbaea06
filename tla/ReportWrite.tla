---------------------------- MODULE ReportWrite ----------------------------
(***************************************************************************)
(* Writing one report (reporting/application Write and the sinks): the     *)
(* sink is opened, the renderer of the format hands over its page piece by *)
(* piece, the sink is closed whatever the renderer said, and the first     *)
(* error is the answer.  The text format builds its table, ReportTree,     *)
(* between the header and the rows.                                        *)
(*                                                                         *)
(* A file takes every piece at once; standard output has a buffer that is  *)
(* flushed when it is full and when the sink is closed; csv has one more   *)
(* of its own.  The device below may run out of room.  A piece is a line   *)
(* of text, a record of CSV, or an arbitrary share of the single write of  *)
(* the other formats.                                                      *)
(***************************************************************************)
EXTENDS ReportFormats

CONSTANTS
  Jobs,      \* [report, format, sink, explain, encodable, room]
  BufferSize \* of the buffers of stdout and of csv, in pieces

ASSUME WriteAssumption ==
  /\ Jobs \subseteq [report    : Reports,
                     format    : {"text", "csv", "json", "web"},
                     sink      : {"file", "stdout"},
                     explain   : BOOLEAN,
                     encodable : BOOLEAN, \* JSON knows no NaN and no infinity
                     room      : Nat]
  /\ BufferSize \in Nat \ {0}

VARIABLES
  how,       \* the rest of the request; never changes
  stage,     \* "open", "render", "close" or "returned"
  sink,      \* "unopened", "open", "closed" or "closeFailed"
  left,      \* pieces the renderer knows it has yet to produce
  rendered,  \* the renderer reached the end of its page without an error
  csvHeld,   \* pieces in csv's buffer
  held,      \* pieces in stdout's buffer
  broken,    \* stdout's buffer met an error, which it repeats from then on
  room,      \* what the device still takes
  delivered, \* what it took
  outcome    \* "none", "ok" or "failed"

streamvars == <<held, broken, room, delivered>>
writevars  == <<tablevars, how, stage, sink, left, rendered, csvHeld, streamvars, outcome>>

-----------------------------------------------------------------------------
\* The page of each format.
TextBody == IF Packages = <<>> THEN <<>> ELSE TextTable \o TextTail(how.explain)
PageSize ==
  CASE how.format = "text" -> Len(TextHeader) + Len(TextBody)
    [] how.format = "csv"  -> 1 + Len(CSVRecords)
    [] how.format = "json" -> 1 + Len(JSONReport) + Len(CSVRecords)
    [] how.format = "web"  -> Len(WebPage)

\* bufio.Writer (external): what stays in a buffer that held h pieces and is
\* written n more; the others are passed on.
Kept(h, n) ==
  IF h + n <= BufferSize THEN h + n
  ELSE IF h = 0 \/ h + n > 2 * BufferSize THEN 0 ELSE h + n - BufferSize

\* The device (external) takes what it has room for and reports the rest.
Device(n) ==
  LET taken == IF n <= room THEN n ELSE room IN
  room' = room - taken /\ delivered' = delivered + taken

\* Stream.Write of n pieces; ok tells whether they were accepted.
WriteFile(n, ok) == ok = (n <= room) /\ Device(n) /\ UNCHANGED <<held, broken>>
WriteStdout(n, ok) ==
  IF broken THEN ok = FALSE /\ UNCHANGED streamvars
  ELSE LET pass == held + n - Kept(held, n) IN
       /\ ok = (pass <= room)
       /\ Device(pass)
       /\ held' = IF pass <= room THEN Kept(held, n) ELSE held
       /\ broken' = (pass > room)
StreamWrite(n, ok) ==
  IF how.sink = "file" THEN WriteFile(n, ok) ELSE WriteStdout(n, ok)

\* reporting.Write: the renderer's error, then the closing's (mutant: only the
\* closing's).
Answer_CloseOnly(closed) == IF closed THEN "ok" ELSE "failed"
Answer(closed) == IF rendered /\ closed THEN "ok" ELSE "failed"

-----------------------------------------------------------------------------
WriteInit ==
  /\ \E job \in Jobs : how = job /\ room = job.room /\ report = job.report
  /\ TreeInit
  /\ stage = "open" /\ sink = "unopened"
  /\ left = 0 /\ rendered = FALSE
  /\ csvHeld = 0 /\ held = 0 /\ broken = FALSE /\ delivered = 0
  /\ outcome = "none"

\* outbound.Open: the file cannot be created, or there is no standard output ...
OpenFails ==
  /\ stage = "open"
  /\ stage' = "returned" /\ outcome' = "failed"
  /\ UNCHANGED <<tablevars, how, sink, left, rendered, csvHeld, streamvars>>

\* ... or the renderer can start.
OpenSink ==
  /\ stage = "open"
  /\ stage' = "render" /\ sink' = "open"
  /\ left' = IF how.format = "text" THEN Len(TextHeader) ELSE PageSize
  /\ UNCHANGED <<tablevars, how, rendered, csvHeld, streamvars, outcome>>

\* A renderer goes on after a write that was accepted, and ends after an error.
Continue(ok) == stage' = IF ok THEN "render" ELSE "close"

\* WriteText: the header, the table once it is built, and what follows it.
WriteLine ==
  /\ stage = "render" /\ how.format = "text"
  /\ left > 0 /\ left' = left - 1
  /\ \E ok \in BOOLEAN : StreamWrite(1, ok) /\ Continue(ok)
  /\ UNCHANGED <<tablevars, how, sink, rendered, csvHeld, outcome>>

BuildStep ==
  /\ stage = "render" /\ how.format = "text"
  /\ left = 0 /\ Packages # <<>>
  /\ BuildTable
  /\ UNCHANGED <<how, stage, sink, rendered, csvHeld, streamvars, outcome>>
  /\ left' = IF phase' = "done" THEN Len(TextBody)' ELSE 0

\* renderCSV: a record goes into csv's buffer, which is passed on when full ...
WriteRecord ==
  /\ stage = "render" /\ how.format = "csv"
  /\ left > 0 /\ left' = left - 1
  /\ csvHeld' = Kept(csvHeld, 1)
  /\ IF csvHeld + 1 <= BufferSize THEN stage' = stage /\ UNCHANGED streamvars
     ELSE \E ok \in BOOLEAN : StreamWrite(csvHeld + 1 - Kept(csvHeld, 1), ok) /\ Continue(ok)
  /\ UNCHANGED <<tablevars, how, sink, rendered, outcome>>

\* ... and once more at the end.
FlushRecords ==
  /\ stage = "render" /\ how.format = "csv"
  /\ left = 0 /\ csvHeld > 0
  /\ csvHeld' = 0
  /\ \E ok \in BOOLEAN : StreamWrite(csvHeld, ok) /\ Continue(ok)
  /\ UNCHANGED <<tablevars, how, sink, left, rendered, outcome>>

\* renderJSON and renderWeb encode everything first and then write it at once.
WriteDocument ==
  /\ stage = "render" /\ how.format \in {"json", "web"}
  /\ left > 0 /\ left' = 0
  /\ IF how.encodable
       THEN \E ok \in BOOLEAN : StreamWrite(left, ok) /\ Continue(ok)
       ELSE stage' = "close" /\ UNCHANGED streamvars
  /\ UNCHANGED <<tablevars, how, sink, rendered, csvHeld, outcome>>

\* The renderer returns without an error.
Rendered ==
  /\ stage = "render"
  /\ how.format = "text" => Packages = <<>> \/ phase = "done"
  /\ left = 0 /\ csvHeld = 0
  /\ rendered' = TRUE /\ stage' = "close"
  /\ UNCHANGED <<tablevars, how, sink, left, csvHeld, streamvars, outcome>>

\* Closing a file may fail for reasons of its own; closing stdout flushes it.
CloseSink ==
  /\ stage = "close"
  /\ \E closed \in BOOLEAN :
       /\ IF how.sink = "file" THEN UNCHANGED streamvars
          ELSE IF broken THEN closed = FALSE /\ UNCHANGED streamvars
          ELSE /\ closed = (held <= room)
               /\ Device(held)
               /\ held' = 0 /\ UNCHANGED broken
       /\ sink' = IF closed THEN "closed" ELSE "closeFailed"
       /\ outcome' = Answer(closed)
  /\ stage' = "returned"
  /\ UNCHANGED <<tablevars, how, left, rendered, csvHeld>>

WriteNext ==
  \/ OpenFails \/ OpenSink
  \/ WriteLine \/ BuildStep
  \/ WriteRecord \/ FlushRecords
  \/ WriteDocument
  \/ Rendered \/ CloseSink
  \/ (stage = "returned" /\ UNCHANGED writevars)

WriteSpec == WriteInit /\ [][WriteNext]_writevars

-----------------------------------------------------------------------------
\* The type invariant.
WriteTypeOK ==
  /\ stage \in {"open", "render", "close", "returned"}
  /\ sink \in {"unopened", "open", "closed", "closeFailed"}
  /\ left \in 0 .. PageSize
  /\ {csvHeld, held} \subseteq 0 .. BufferSize
  /\ {rendered, broken} \subseteq BOOLEAN
  /\ room + delivered = how.room
  /\ outcome \in {"none", "ok", "failed"}

\* The write keeps what the command relies on: whatever the format, the buffers
\* between the renderer and the device and the step that fails - a late flush of
\* the buffer that hides an early error included - it answers success exactly if
\* every piece of the page reached a destination that was closed without error,
\* and it never leaves the destination open.
Destination ==
  IF sink = "closed" /\ delivered = PageSize THEN "complete"
  ELSE IF delivered > 0 \/ (how.sink = "file" /\ sink # "unopened") THEN "partial"
  ELSE "untouched"

Sink == INSTANCE ReportSink WITH
  sink <- IF sink = "closeFailed" THEN "closed" ELSE sink,
  dest <- Destination
ImplementsReportSink == Sink!Spec

-----------------------------------------------------------------------------
\* The properties of the text page, once it is written.
PageWritten == how.format = "text" /\ stage = "close" /\ rendered

\* Every package of the report has its row, with its types beneath it, and no
\* other row spells its path, provided the packages' relative paths differ:
\* folding and hanging paths into the tree neither swallows a package nor tears
\* it apart.
DistinctPackagesAreListed ==
  PageWritten /\ RelativePathsDiffer =>
    \A k \in DOMAIN Packages : \E i \in NodeRowsOf :
      /\ IsRowOf(i, Packages[k])
      /\ \A j \in NodeRowsOf : PathOf[j] = Rel(Packages[k].path) => j = i

\* Each row's mean is over all applicable values at or below the path it spells,
\* each once: the sums added bottom to top neither miss a package that sits on an
\* inner node nor leak from one subtree into its neighbour.  The relative paths
\* have to differ: of two packages on one node the later one's values count.
MeansAreOfTheSubtree ==
  PageWritten /\ RelativePathsDiffer => \A i \in NodeRowsOf : rows[i].cells # <<>> =>
    LET values == ValuesBelow(PathOf[i])
        stat == rows[i].cells[1]
    IN /\ stat.count = Cardinality(values)
       /\ stat.sum = MapThenSumSet(ValueOf, values)
       /\ \A v \in values : ValueOf(v) \in stat.minimum .. stat.maximum

\* The glyphs are right: under one row, exactly the last branch is a corner.
CornersCloseTheirBranch ==
  PageWritten => \A i \in DOMAIN rows : rows[i].kind # "gap" /\ Depth(i) > 0 =>
    (rows[i].connector = "corner") <=>
      ~\E j \in DOMAIN rows :
         j > i /\ rows[j].kind # "gap" /\ Depth(j) = Depth(i) /\ ParentRow(j) = ParentRow(i)

\* In the text report all values stand in one column, at least two blanks to the
\* right of the longest name beneath its branches.
ColumnsLineUp ==
  PageWritten => \A i \in DOMAIN rows : rows[i].cells # <<>> =>
    /\ Padding(rows[i]) >= 2
    /\ PrefixWidth(rows[i]) + TextWidth(rows[i]) + Padding(rows[i]) = NameColumn + 2

\* The mark of a value that does not apply is explained: the legend is there
\* exactly if the mark is, and with -explain each type that has a reason is named
\* beneath its package, once, by the note with that reason and by no other.
NotesExplainNA ==
  PageWritten =>
    /\ (\E k \in DOMAIN TextTail(FALSE) : TextTail(FALSE)[k].kind = "legend")
         <=> \E i \in DOMAIN rows : \E c \in Range(rows[i].cells) : c.count = 0
    /\ LET notes == Notes
           Beneath(path) == {i \in DOMAIN notes : \E j \in 1 .. i - 1 :
                               /\ notes[j].kind = "notes path" /\ notes[j].path = path
                               /\ \A l \in j + 1 .. i : notes[l].kind = "note"}
       IN \A k \in DOMAIN Packages :
            LET own == Beneath(Packages[k].path) IN
            \A typ \in Range(Packages[k].types) :
              LET naming == {i \in own : notes[i].all \/ typ.name \in notes[i].who}
              IN IF typ.reason = "" THEN naming = {}
                 ELSE \E i \in own : naming = {i} /\ notes[i].reason = typ.reason

\* The formats agree: whoever reads the table, the records or the document learns
\* of the same types of the same packages and of the same values, and the web
\* page holds the guide and the report each in its place, whatever the names
\* spell.  The table holds what the others do as long as the relative paths
\* differ.
TableEntries ==
  {[pkg |-> PathOf[ParentRow(i)], name |-> rows[i].name[1],
    value |-> IF rows[i].cells[1].count = 0 THEN NA ELSE <<rows[i].cells[1].sum>>] :
     i \in {j \in DOMAIN rows : rows[j].kind = "type"}}
Relative(entries) == {[e EXCEPT !.pkg = Rel(@)] : e \in entries}
JSONEntries ==
  UNION {{[pkg |-> p.path, name |-> t.name, value |-> t.value] : t \in Range(p.types)} :
           p \in Range(JSONReport)}

EveryFormatTellsTheSame ==
  PageWritten =>
    /\ JSONEntries = Range(CSVRecords)
    /\ Len(CSVRecords) = Len(ReportPieces)
    /\ WebPage = <<"<report>">> \o ReportPieces \o <<"<docs>", "guide", "<end>">>
    /\ RelativePathsDiffer => TableEntries = Relative(Range(CSVRecords))
=============================================================================
