-------------------------------- MODULE Ast ---------------------------------
(***************************************************************************)
(* The queries on a tree (ast.rs) and on a forest (sppf.rs), as operators. *)
(*                                                                         *)
(* A tree is a sequence of cells [label, count, first]; the children of a  *)
(* node are next to each other.  A forest is [nodes], a node the sequence  *)
(* of its versions [label, kids], a kid has a place in id.  A span of the  *)
(* text is [index, length], and spans[k] is that of token k.  Positions    *)
(* are ordered as indices are, and stand for them.                         *)
(***************************************************************************)
EXTENDS Integers, Sequences
LOCAL INSTANCE SequencesExt
LOCAL INSTANCE FiniteSetsExt

IsToken(label) == label[1] = "Token"
NoSpan == [position |-> 0, index |-> 0, length |-> -1]

\* The first of some places, as <<place>>, or <<>>
FirstOf(places) == IF places = {} THEN <<>> ELSE <<Min(places)>>
-----------------------------------------------------------------------------
(***************************************************************************)
(* The total span of a sub-tree: that of the first token is widened.       *)
(***************************************************************************)
End(span) == span.index + span.length
PositiveOr0(n) == IF n > 0 THEN n ELSE 0

\* Fault: as if the tokens came in the order of the text
Widened_Forward(total, span) ==
    IF total = NoSpan THEN [position |-> span.index, index |-> span.index, length |-> span.length]
    ELSE [total EXCEPT !.length = @ + PositiveOr0(End(span) - End(total))]

\* The body of the loops of get_total_position_and_span
Widened(total, span) ==
    IF total = NoSpan THEN [position |-> span.index, index |-> span.index, length |-> span.length]
    ELSE LET before == PositiveOr0(total.index - span.index)
             after == PositiveOr0(End(span) - End(total))
         IN [position |-> IF span.index < total.position THEN span.index ELSE total.position,
             index |-> total.index - before, length |-> total.length + before + after]

\* Over the labels of a traversal; get_span_at answers for the tokens only
TotalOver(labels, spans) ==
    LET tokens == SelectSeq(labels, IsToken)
    IN FoldLeft(LAMBDA total, label : Widened(total, spans[label[2]]), NoSpan, tokens)
-----------------------------------------------------------------------------
(***************************************************************************)
(* Ast.                                                                    *)
(***************************************************************************)
\* traverse: the places of a sub-tree, a node before its children; the stack has
\* its top first
RECURSIVE Visited(_, _)
Visited(cells, stack) ==
    IF stack = <<>> THEN <<>>
    ELSE LET cell == cells[Head(stack)]
             kids == [k \in 1 .. cell.count |-> cell.first + k - 1]
         IN <<Head(stack)>> \o Visited(cells, kids \o Tail(stack))

Traversed(cells, from) == Visited(cells, <<from>>)

TotalSpan(cells, spans, node) ==
    LET order == Traversed(cells, node)
    IN TotalOver([k \in DOMAIN order |-> cells[order[k]].label], spans)

\* find_node_for and find_parent_of look through the cells, not the tree
FindNodeFor(cells, token) == FirstOf({at \in DOMAIN cells : cells[at].label = <<"Token", token>>})

FindParentOf(cells, node) ==
    FirstOf({at \in DOMAIN cells : /\ cells[at].count > 0
                                   /\ node >= cells[at].first
                                   /\ node < cells[at].first + cells[at].count})
-----------------------------------------------------------------------------
(***************************************************************************)
(* Sppf, where a node that has several parents is visited from each.       *)
(***************************************************************************)
\* The kids of the last version come first
KidsIn(node) ==
    LET places(version) == [k \in DOMAIN version.kids |-> version.kids[k].id]
    IN FlattenSeq(Reverse([v \in DOMAIN node |-> places(node[v])]))

RECURSIVE VisitedIn(_, _)
VisitedIn(forest, stack) ==
    IF stack = <<>> THEN <<>>
    ELSE <<Head(stack)>> \o VisitedIn(forest, KidsIn(forest.nodes[Head(stack)]) \o Tail(stack))

\* The labels of the versions that a traversal from some places comes to
LabelsIn(forest, places) ==
    LET order == VisitedIn(forest, places)
        labels(node) == [v \in DOMAIN node |-> node[v].label]
    IN FlattenSeq([k \in DOMAIN order |-> labels(forest.nodes[order[k]])])

TotalSpanOfNode(forest, spans, id) == TotalOver(LabelsIn(forest, <<id>>), spans)

\* get_total_position_and_span_version: what is below, the label itself left out
TotalSpanOfVersion(forest, spans, version) ==
    TotalOver(LabelsIn(forest, [k \in DOMAIN version.kids |-> version.kids[k].id]), spans)

\* The first version of a traversal among some [id, version], as <<[id, version]>>, or <<>>
FirstVersion(forest, root, found) ==
    LET order == VisitedIn(forest, <<root>>)
        versions(k) == {x \in found : x.id = order[k]}
        first == FirstOf({k \in DOMAIN order : versions(k) # {}})
    IN IF first = <<>> THEN <<>>
       ELSE <<[id |-> order[first[1]], version |-> Min({x.version : x \in versions(first[1])})]>>

\* The versions of all nodes; a traversal comes to some
VersionsOf(forest) ==
    UNION {{[id |-> id, version |-> v] : v \in DOMAIN forest.nodes[id]} : id \in DOMAIN forest.nodes}

FindNodeForIn(forest, root, token) ==
    FirstVersion(forest, root, {x \in VersionsOf(forest) :
                                    forest.nodes[x.id][x.version].label = <<"Token", token>>})

FindParentIn(forest, root, ref) ==
    FirstVersion(forest, root, {x \in VersionsOf(forest) :
                                    ref \in ToSet(forest.nodes[x.id][x.version].kids)})
-----------------------------------------------------------------------------
(***************************************************************************)
(* build_final_ast (parsers/rnglr.rs): a tree of a forest, the first       *)
(* version of each node.  The children of a node are stored after those of *)
(* all of them; the result is [cells, cell].                               *)
(***************************************************************************)
RECURSIVE BuildFinalAst(_, _, _)
BuildFinalAst(forest, cells, id) ==
    LET version == forest.nodes[id][1]
        built == FoldLeft(LAMBDA b, kid : LET next == BuildFinalAst(forest, b.cells, kid.id)
                                          IN [cells |-> next.cells,
                                              buffer |-> Append(b.buffer, next.cell)],
                          [cells |-> cells, buffer |-> <<>>], version.kids)
    IN [cells |-> built.cells \o built.buffer,
        cell |-> [label |-> version.label, count |-> Len(version.kids),
                  first |-> IF version.kids = <<>> THEN 0 ELSE Len(built.cells) + 1]]

\* commit_root: the root comes last
FinalAst(forest, root) ==
    LET built == BuildFinalAst(forest, <<>>, root) IN Append(built.cells, built.cell)
=============================================================================
