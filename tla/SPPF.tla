-------------------------------- MODULE SPPF --------------------------------
(***************************************************************************)
(* The shared packed parse forest of the Rust runtime (sppf.rs) and the    *)
(* builder that fills it (SPPFBuilder, parsers/rnglr.rs), as operators.    *)
(*                                                                         *)
(* A forest is [nodes, lists].  A node is the sequence of its versions     *)
(* [label, kids]; a version more is an ambiguity more.  A list stands for  *)
(* a variable that is replaced by its children: its versions are           *)
(* [label, kids, actions], and it is not in the final forest.  Places      *)
(* start at 1.                                                             *)
(***************************************************************************)
EXTENDS Integers, Sequences
LOCAL INSTANCE SequencesExt

EmptyForest == [nodes |-> <<>>, lists |-> <<>>]

\* SppfImplNodeRef: a place, in the nodes or in the lists
NodeRef(id) == [replaceable |-> FALSE, id |-> id]
ListRef(id) == [replaceable |-> TRUE, id |-> id]

Has(versions, version) == \E k \in DOMAIN versions : versions[k] = version

\* new_normal_node, new_promoted_node: a forest with a node more, and its place
WithNode(forest, versions) == [forest EXCEPT !.nodes = Append(@, versions)]
LastNode(forest) == NodeRef(Len(forest.nodes))

\* SppfImplNodeVersions::with_new_version, told from the others by label and kids
WithVersion(versions, new) ==
    IF \E k \in DOMAIN versions : versions[k].label = new.label /\ versions[k].kids = new.kids
    THEN versions ELSE Append(versions, new)

\* Vec::dedup: only repeats that are next to each other are removed
Dedup(versions) ==
    LET kept == {k \in DOMAIN versions : k = 1 \/ versions[k] # versions[k - 1]}
        order == SelectSeq([k \in DOMAIN versions |-> k], LAMBDA k : k \in kept)
    IN [n \in DOMAIN order |-> versions[order[n]]]

\* SppfImplNodeVersions::with_new_versions: a single version goes after several
WithVersions(versions, more) ==
    IF Len(more) = 1 THEN IF Has(versions, more[1]) THEN versions ELSE Append(versions, more[1])
    ELSE IF Len(versions) = 1
    THEN IF Has(more, versions[1]) THEN more ELSE Append(more, versions[1])
    ELSE Dedup(versions \o more)

\* create_promoted_node: the versions of a node with nodes around its children
Promoted(forest, ref, head, tail) ==
    LET versions == forest.nodes[ref.id]
    IN [k \in DOMAIN versions |-> [versions[k] EXCEPT !.kids = head \o @ \o tail]]
-----------------------------------------------------------------------------
(***************************************************************************)
(* The body of a reduction: SPPFReduction.  It is built in several         *)
(* versions when a list that it takes in has several.                      *)
(***************************************************************************)
NoBody == [kids |-> <<>>, actions |-> <<>>]
AddTo(body, kids, actions) == [kids |-> body.kids \o kids, actions |-> body.actions \o actions]
AddToAll(bodies, kids, actions) == [k \in DOMAIN bodies |-> AddTo(bodies[k], kids, actions)]

\* Fault: only the first version of the list
AddToCache_First(forest, bodies, ref, action) ==
    IF action = "DROP" THEN bodies
    ELSE IF ~ ref.replaceable THEN AddToAll(bodies, <<ref>>, <<action>>)
    ELSE LET versions == forest.lists[ref.id]
         IN AddToAll(bodies, versions[1].kids, versions[1].actions)

\* reduction_add_to_cache: the children of a list, with the actions they had in
\* it, for each version of the list and each version of the body
AddToCache(forest, bodies, ref, action) ==
    IF action = "DROP" THEN bodies
    ELSE IF ~ ref.replaceable THEN AddToAll(bodies, <<ref>>, <<action>>)
    ELSE LET versions == forest.lists[ref.id]
         IN FlattenSeq([k \in DOMAIN versions |->
                            AddToAll(bodies, versions[k].kids, versions[k].actions)])

\* One op-code of build_sppf; stack is SPPFReduction.stack.  The node of a
\* nullable variable is taken among the nodes, whatever it was.
ExecuteOp(build, op, stack, nullables) ==
    CASE op.op = "POP" ->
            [build EXCEPT !.bodies = AddToCache(build.forest, @, stack[build.popped + 1], op.action),
                          !.popped = @ + 1]
      [] op.op = "NULLABLE" ->
            [build EXCEPT !.bodies =
                            AddToCache(build.forest, @, NodeRef(nullables[op.symbol]), op.action)]
      [] op.op = "VIRTUAL" ->
            LET grown == WithNode(build.forest, <<[label |-> <<"Virtual", op.symbol>>, kids |-> <<>>]>>)
            IN [build EXCEPT !.forest = grown,
                             !.bodies = AddToAll(@, <<LastNode(grown)>>, <<op.action>>)]
      [] op.op = "ACTION" -> build

\* reduce_normal_version, first part: a node promoted after another takes it, with
\* what was between them, as its first child.  The state of the loop is
\* [forest, before, promoted, after]
PackKid(pack, kid, action) ==
    IF action # "PROMOTE"
    THEN IF pack.promoted = <<>> THEN [pack EXCEPT !.before = Append(@, kid)]
         ELSE [pack EXCEPT !.after = Append(@, kid)]
    ELSE IF pack.promoted = <<>> THEN [pack EXCEPT !.promoted = <<kid>>]
    ELSE LET grown == WithNode(pack.forest,
                               Promoted(pack.forest, pack.promoted[1], pack.before, pack.after))
         IN [forest |-> grown, before |-> <<LastNode(grown)>>, promoted |-> <<kid>>, after |-> <<>>]

Pack(forest, body) ==
    FoldLeft(LAMBDA pack, k : PackKid(pack, body.kids[k], body.actions[k]),
             [forest |-> forest, before |-> <<>>, promoted |-> <<>>, after |-> <<>>],
             [k \in DOMAIN body.kids |-> k])

\* reduce_normal_version: a new node, or versions more of the target
ReduceVersion(built, label, body) ==
    LET pack == Pack(built.forest, body)
        plain == [label |-> label, kids |-> pack.before]
        versions == IF pack.promoted = <<>> THEN <<plain>>
                    ELSE Promoted(pack.forest, pack.promoted[1], pack.before, pack.after)
    IN IF built.target = <<>>
       THEN LET grown == WithNode(pack.forest, versions)
            IN [forest |-> grown, target |-> <<LastNode(grown)>>]
       ELSE [built EXCEPT !.forest =
                [pack.forest EXCEPT !.nodes[built.target[1].id] =
                    IF pack.promoted = <<>> THEN WithVersion(@, plain)
                    ELSE WithVersions(@, versions)]]

\* reduce_replaceable
ReduceList(built, label, bodies) ==
    LET new == [k \in DOMAIN bodies |-> [label |-> label, kids |-> bodies[k].kids,
                                         actions |-> bodies[k].actions]]
    IN IF built.target = <<>>
       THEN [forest |-> [built.forest EXCEPT !.lists = Append(@, new)],
             target |-> <<ListRef(Len(built.forest.lists) + 1)>>]
       ELSE [built EXCEPT !.forest.lists[built.target[1].id] = FoldLeft(WithVersion, @, new)]

LabelOf(prod) == IF prod.headAction = "REPLACE_BY_EPSILON" THEN <<"None", 0>>
                 ELSE <<"Variable", prod.head>>

\* build_sppf: the forest after a reduction, and what stands for its head in
\* target; target is what stood for it before, if anything did
BuildSppf(forest, prod, stack, nullables, target) ==
    LET build == FoldLeft(LAMBDA b, op : ExecuteOp(b, op, stack, nullables),
                          [forest |-> forest, bodies |-> <<NoBody>>, popped |-> 0], prod.ops)
        start == [forest |-> build.forest, target |-> target]
    IN IF prod.headAction = "REPLACE_BY_CHILDREN"
       THEN ReduceList(start, <<"Variable", prod.head>>, build.bodies)
       ELSE FoldLeft(LAMBDA b, body : ReduceVersion(b, LabelOf(prod), body), start, build.bodies)
=============================================================================
