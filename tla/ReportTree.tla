----------------------------- MODULE ReportTree -----------------------------
(***************************************************************************)
(* The text report's table (reporting/domain/funcs.go): the packages are   *)
(* hung into a tree by the segments of their paths, chains of groups with  *)
(* one child are folded into one row, the types' values are summed up      *)
(* bottom to top, and the tree is written out row by row with branch       *)
(* glyphs that show where a row belongs.                                   *)
(*                                                                         *)
(* A path, and the name of a node, is a sequence of segments.  Colours and *)
(* number formats are left out.                                            *)
(***************************************************************************)
EXTENDS Integers, Sequences, FiniteSets, SequencesExt

CONSTANT Reports \* [module, packages]; a package has a path and types, a type has a
                 \* name, a value that may not apply, and the reason given for it

PathType == Seq(STRING)

\* No two packages have one import path, and no two types of a package one name.
ASSUME ReportTreeAssumption ==
  \A r \in Reports :
    /\ r.module \in PathType /\ r.packages \in Seq(Range(r.packages))
    /\ \A k \in DOMAIN r.packages :
         /\ r.packages[k].path \in PathType \ {<<>>}
         /\ r.packages[k].types \in Seq(Range(r.packages[k].types))
         /\ \A typ \in Range(r.packages[k].types) : typ.applicable \in BOOLEAN /\ typ.value \in Int
         /\ \A l \in DOMAIN r.packages : r.packages[k].path = r.packages[l].path => k = l
         /\ \A i, j \in DOMAIN r.packages[k].types :
              r.packages[k].types[i].name = r.packages[k].types[j].name => i = j

VARIABLES
  report,   \* the report; never changes
  phase,    \* "attach", "compress", "aggregate", "emit" or "done"
  tree,     \* the nodes [name, pkg, children] by number; the root is node 1
  todo,     \* attach: packages left; compress: nodes left, the next one first
  at,       \* attach: how far down its path the next package is: [node, depth]
  stack,    \* the calls of aggregateTree under way: [node, next]
  summary,  \* per node visited [pkgs, types, stat]; stat is a cell, 0 for none
  cells,    \* the columnStats allocated so far
  pending,  \* emit: the calls of emitNode left, the next one first
  rows      \* the rows of the table below its header

tablevars == <<report, phase, tree, todo, at, stack, summary, cells, pending, rows>>

Root == 1
Packages == report.packages

-----------------------------------------------------------------------------
\* relPath; the module itself is the empty path, written ".".
Rel(path) ==
  IF report.module # <<>> /\ IsPrefix(report.module, path)
    THEN SubSeq(path, Len(report.module) + 1, Len(path)) ELSE path

NewNode(name) == [name |-> name, pkg |-> 0, children |-> <<>>]

\* child: the children of that name; one is created when there is none.
Named(n, segment) == {k \in DOMAIN tree[n].children : tree[tree[n].children[k]].name = <<segment>>}
FirstNamed(n, segment) ==
  LET found == Named(n, segment)
  IN tree[n].children[CHOOSE k \in found : \A l \in found : k <= l]
WithChild(n, segment) ==
  [Append(tree, NewNode(<<segment>>)) EXCEPT ![n].children = Append(@, Len(tree) + 1)]

\* compressTree's loop: does the node take its only child's place (mutant: a
\* package is folded into its only child as well)?
Absorbs_Packages(n) == Len(tree[n].children) = 1
Absorbs(n) == tree[n].pkg = 0 /\ Len(tree[n].children) = 1

\* absorbOnlyChild: the name it has then.
AbsorbedName(n, c) == tree[n].name \o tree[c].name

-----------------------------------------------------------------------------
\* columnStats with the values added one after the other.
AddStat(stat, value) ==
  IF stat.count = 0 THEN [sum |-> value, count |-> 1, minimum |-> value, maximum |-> value]
  ELSE [sum |-> stat.sum + value, count |-> stat.count + 1,
        minimum |-> IF value < stat.minimum THEN value ELSE stat.minimum,
        maximum |-> IF value > stat.maximum THEN value ELSE stat.maximum]
NoStat == [sum |-> 0, count |-> 0, minimum |-> 0, maximum |-> 0]

\* collectPackageStats: only applicable values count.
PackageStat(pkg) ==
  LET Stat[k \in 0 .. Len(pkg.types)] ==
        IF k = 0 THEN NoStat
        ELSE IF pkg.types[k].applicable THEN AddStat(Stat[k - 1], pkg.types[k].value)
        ELSE Stat[k - 1]
  IN Stat[Len(pkg.types)]

\* mergeOneStat into a statistic that is there.
Merged(dst, src) ==
  [sum |-> dst.sum + src.sum, count |-> dst.count + src.count,
   minimum |-> IF src.minimum < dst.minimum THEN src.minimum ELSE dst.minimum,
   maximum |-> IF src.maximum > dst.maximum THEN src.maximum ELSE dst.maximum]

\* mergeOneStat: the cell of the parent and the cells afterwards.  A parent with
\* no statistic gets a copy of the child's (mutant: it gets the child's own).
FirstStat_Shared(src) == [cell |-> src, cells |-> cells]
FirstStat(src) == [cell |-> Len(cells) + 1, cells |-> Append(cells, cells[src])]
MergeStat(dst, src) ==
  IF src = 0 THEN [cell |-> dst, cells |-> cells]
  ELSE IF dst = 0 THEN FirstStat(src)
  ELSE [cell |-> dst, cells |-> [cells EXCEPT ![dst] = Merged(@, cells[src])]]

\* accumulateSelf on entering aggregateTree for the node.
SelfStat(n) == IF tree[n].pkg = 0 THEN NoStat ELSE PackageStat(Packages[tree[n].pkg])
Entered(n) ==
  [pkgs  |-> IF tree[n].pkg = 0 THEN 0 ELSE 1,
   types |-> IF tree[n].pkg = 0 THEN 0 ELSE Len(Packages[tree[n].pkg].types),
   stat  |-> IF SelfStat(n).count = 0 THEN 0 ELSE Len(cells) + 1]
CellsAfterEntering(n) == IF SelfStat(n).count = 0 THEN cells ELSE Append(cells, SelfStat(n))

-----------------------------------------------------------------------------
\* branchGlyph (mutant: the total is taken for the last index).
BranchGlyph_TotalIsLast(index, total) == IF index = total THEN "corner" ELSE "tee"
BranchGlyph(index, total) == IF index = total - 1 THEN "corner" ELSE "tee"

\* childIndent.
ChildIndent(prefix, connector) ==
  CASE connector = "tee" -> Append(prefix, "bar")
    [] connector = "corner" -> Append(prefix, "space")
    [] OTHER -> prefix

\* nodeTypeAggCells and meanCell: nothing below a node without types; else the
\* sum and the number the mean is made of, none for n/a.
NodeCells(n) ==
  IF summary[n].types = 0 THEN <<>>
  ELSE <<IF summary[n].stat = 0 THEN NoStat ELSE cells[summary[n].stat]>>

NodeRow(n, prefix, connector) ==
  [kind |-> "node", prefix |-> prefix, connector |-> connector,
   name |-> tree[n].name, cells |-> NodeCells(n)]

\* nodeTypeCount counts these.
TypesOf(n) == IF tree[n].pkg = 0 THEN <<>> ELSE Packages[tree[n].pkg].types

\* typeRow for the index-th type, counted from 0, with oneReusabilityCell.
TypeRow(n, index, prefix, total) ==
  LET typ == TypesOf(n)[index + 1] IN
  [kind |-> "type", prefix |-> prefix, connector |-> BranchGlyph(index, total),
   name |-> <<typ.name>>,
   cells |-> <<IF typ.applicable THEN AddStat(NoStat, typ.value) ELSE NoStat>>]
TypeRows(n, prefix, total) == [i \in DOMAIN TypesOf(n) |-> TypeRow(n, i - 1, prefix, total)]

Gap(prefix) == [kind |-> "gap", prefix |-> prefix, connector |-> "", name |-> <<>>, cells |-> <<>>]

\* emitChildNodes: the calls for the children, each with the row before it.
ChildCalls(n, prefix) ==
  LET types == Len(TypesOf(n)) IN
  [i \in DOMAIN tree[n].children |->
    [node |-> tree[n].children[i], prefix |-> prefix,
     connector |-> BranchGlyph(types + i - 1, types + Len(tree[n].children)),
     gap |-> IF types + i > 1 THEN <<Gap(Append(prefix, "bar"))>> ELSE <<>>]]

\* emitTreeRows: the root's own row is there only for a package, and what is on
\* top has no glyph.
ModuleRows ==
  IF tree[Root].pkg = 0 THEN <<>>
  ELSE <<NodeRow(Root, <<>>, "")>> \o TypeRows(Root, <<>>, Len(TypesOf(Root)))
TopCalls ==
  [i \in DOMAIN tree[Root].children |->
    [node |-> tree[Root].children[i], prefix |-> <<>>, connector |-> "",
     gap |-> IF tree[Root].pkg # 0 \/ i > 1 THEN <<Gap(<<>>)>> ELSE <<>>]]

-----------------------------------------------------------------------------
TreeInit ==
  /\ report \in Reports
  /\ phase = "attach" /\ tree = <<NewNode(<<>>)>>
  /\ todo = [k \in DOMAIN report.packages |-> k] /\ at = [node |-> Root, depth |-> 0]
  /\ stack = <<>> /\ summary = <<>> /\ cells = <<>> /\ pending = <<>> /\ rows = <<>>

\* attachPackage of the next package goes down to the child for a segment ...
AttachPath == Rel(Packages[Head(todo)].path)
Down ==
  /\ phase = "attach" /\ todo # <<>> /\ at.depth < Len(AttachPath)
  /\ LET segment == AttachPath[at.depth + 1]
         found == Named(at.node, segment) # {}
     IN /\ tree' = IF found THEN tree ELSE WithChild(at.node, segment)
        /\ at' = [node  |-> IF found THEN FirstNamed(at.node, segment) ELSE Len(tree) + 1,
                  depth |-> at.depth + 1]
  /\ UNCHANGED <<report, phase, todo, stack, summary, cells, pending, rows>>

\* ... and puts the package where the path ends.
Attach ==
  /\ phase = "attach" /\ todo # <<>> /\ at.depth = Len(AttachPath)
  /\ tree' = [tree EXCEPT ![at.node].pkg = Head(todo)]
  /\ todo' = Tail(todo) /\ at' = [node |-> Root, depth |-> 0]
  /\ UNCHANGED <<report, phase, stack, summary, cells, pending, rows>>

\* compressChildren starts on the children of the root, never on the root.
StartCompress ==
  /\ phase = "attach" /\ todo = <<>>
  /\ phase' = "compress" /\ todo' = tree[Root].children
  /\ UNCHANGED <<report, tree, at, stack, summary, cells, pending, rows>>

Absorb ==
  /\ phase = "compress" /\ todo # <<>> /\ Absorbs(Head(todo))
  /\ LET n == Head(todo)  c == tree[n].children[1] IN
     tree' = [tree EXCEPT ![n] = [tree[c] EXCEPT !.name = AbsorbedName(n, c)]]
  /\ UNCHANGED <<report, phase, todo, at, stack, summary, cells, pending, rows>>

\* compressTreeChildren: the node is done, its children are next.
Descend ==
  /\ phase = "compress" /\ todo # <<>> /\ ~Absorbs(Head(todo))
  /\ todo' = tree[Head(todo)].children \o Tail(todo)
  /\ UNCHANGED <<report, phase, tree, at, stack, summary, cells, pending, rows>>

Enter(n) ==
  /\ summary' = [m \in DOMAIN summary \cup {n} |-> IF m = n THEN Entered(n) ELSE summary[m]]
  /\ cells' = CellsAfterEntering(n)

StartAggregate ==
  /\ phase = "compress" /\ todo = <<>>
  /\ phase' = "aggregate" /\ stack' = <<[node |-> Root, next |-> 1]>> /\ Enter(Root)
  /\ UNCHANGED <<report, tree, todo, at, pending, rows>>

\* aggregateTree of the next child of the node on top.
Visit ==
  /\ phase = "aggregate" /\ stack # <<>>
  /\ LET top == Head(stack) IN
     /\ top.next <= Len(tree[top.node].children)
     /\ LET c == tree[top.node].children[top.next] IN
        Enter(c) /\ stack' = <<[node |-> c, next |-> 1]>> \o stack
  /\ UNCHANGED <<report, phase, tree, todo, at, pending, rows>>

\* It returns, and its summary is added to its parent's.
Return ==
  /\ phase = "aggregate" /\ Len(stack) > 1
  /\ LET c == Head(stack).node  n == stack[2].node
         merge == MergeStat(summary[n].stat, summary[c].stat) IN
     /\ Head(stack).next > Len(tree[c].children)
     /\ summary' = [summary EXCEPT ![n] = [pkgs  |-> @.pkgs + summary[c].pkgs,
                                           types |-> @.types + summary[c].types,
                                           stat  |-> merge.cell]]
     /\ cells' = merge.cells
     /\ stack' = [Tail(stack) EXCEPT ![1].next = @ + 1]
  /\ UNCHANGED <<report, phase, tree, todo, at, pending, rows>>

StartEmit ==
  /\ phase = "aggregate" /\ Len(stack) = 1 /\ Head(stack).next > Len(tree[Root].children)
  /\ phase' = "emit" /\ rows' = ModuleRows /\ pending' = TopCalls
  /\ UNCHANGED <<report, tree, todo, at, stack, summary, cells>>

\* emitNode, with emitTypeBranches, up to its calls for the children.
EmitNode ==
  /\ phase = "emit" /\ pending # <<>>
  /\ LET call == Head(pending)
         below == ChildIndent(call.prefix, call.connector)
         total == Len(TypesOf(call.node)) + Len(tree[call.node].children)
     IN /\ rows' = rows \o call.gap \o <<NodeRow(call.node, call.prefix, call.connector)>>
                     \o TypeRows(call.node, below, total)
        /\ pending' = ChildCalls(call.node, below) \o Tail(pending)
  /\ UNCHANGED <<report, phase, tree, todo, at, stack, summary, cells>>

EndEmit ==
  /\ phase = "emit" /\ pending = <<>>
  /\ phase' = "done"
  /\ UNCHANGED <<report, tree, todo, at, stack, summary, cells, pending, rows>>

\* buildTextTable.
BuildTable ==
  \/ Down \/ Attach \/ StartCompress \/ Absorb \/ Descend
  \/ StartAggregate \/ Visit \/ Return
  \/ StartEmit \/ EmitNode \/ EndEmit

-----------------------------------------------------------------------------
\* A node is a child of at most one node it can be reached from, and children are
\* created after their parents: what hangs below the root is a tree throughout,
\* while the nodes that were absorbed are left behind.  A statistic counts no more
\* values than its node has types.
TreeTypeOK ==
  /\ phase \in {"attach", "compress", "aggregate", "emit", "done"}
  /\ \A n \in DOMAIN tree :
       /\ tree[n].pkg \in 0 .. Len(Packages)
       /\ \A k \in DOMAIN tree[n].children : tree[n].children[k] \in (n + 1) .. Len(tree)
       /\ IsInjective(tree[n].children)
  /\ \A n \in DOMAIN summary : summary[n].stat # 0 =>
       /\ summary[n].stat \in DOMAIN cells
       /\ cells[summary[n].stat].count \in 1 .. summary[n].types

\* What a reader makes of the rows: how deep a row is, the row it hangs from, and
\* the path the names spell out; a row with no glyph starts over.
Depth(i) == Len(rows[i].prefix) + (IF rows[i].connector = "" THEN 0 ELSE 1)
NodeRowsOf == {i \in DOMAIN rows : rows[i].kind = "node"}
ParentRow(i) ==
  LET above == {j \in NodeRowsOf : j < i /\ Depth(j) = Depth(i) - 1}
  IN CHOOSE j \in above : \A k \in above : k <= j
PathOf[i \in NodeRowsOf] == IF Depth(i) = 0 THEN rows[i].name ELSE PathOf[ParentRow(i)] \o rows[i].name

\* Two packages of one relative path share a node, and the later one is all that
\* is left: an import path may begin where the module's ends.
RelativePathsDiffer ==
  \A k, l \in DOMAIN Packages : Rel(Packages[k].path) = Rel(Packages[l].path) => k = l

\* Row i is the package's: it spells its path and the package's types, and no
\* others, hang directly from it.
IsRowOf(i, pkg) ==
  /\ PathOf[i] = Rel(pkg.path)
  /\ \A j \in DOMAIN pkg.types :
       i + j \in DOMAIN rows /\ rows[i + j].kind = "type" /\ ParentRow(i + j) = i
         /\ rows[i + j].name = <<pkg.types[j].name>>
  /\ \A j \in DOMAIN rows :
       rows[j].kind = "type" /\ ParentRow(j) = i => j \in i + 1 .. i + Len(pkg.types)

\* The values below a path, package by package.
ValuesBelow(path) ==
  UNION {{<<k, j>> : j \in {i \in DOMAIN Packages[k].types : Packages[k].types[i].applicable}} :
           k \in {l \in DOMAIN Packages : IsPrefix(path, Rel(Packages[l].path))}}
ValueOf(v) == Packages[v[1]].types[v[2]].value
=============================================================================
