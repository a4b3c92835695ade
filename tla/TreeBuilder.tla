---------------------------- MODULE TreeBuilder -----------------------------
(***************************************************************************)
(* What the LR(k) parser promises of the tree it builds: a forest of plain *)
(* trees, in which a reduction replaces the last values by one.            *)
(*                                                                         *)
(* A tree is [label, kids].  A value is [list, items]: a single tree, or a *)
(* list, when the rule says that its head is replaced by its children.  An *)
(* item is [tree, action], the action that its new parent will apply.      *)
(***************************************************************************)
EXTENDS Integers, Sequences
LOCAL INSTANCE SequencesExt

VARIABLES
    prods,      \* the productions [head, headAction, length, ops]
    taken,      \* how many tokens are in the forest
    forest,     \* the values of the symbols recognised
    tree        \* the tree published, or NoTree

Leaf(label) == [label |-> label, kids |-> <<>>]
NoTree == Leaf(<<"NoTree", 0>>)
Alone(t) == [list |-> FALSE, items |-> <<[tree |-> t, action |-> "NONE"]>>]

\* The items that a value gives to the body of a reduction, under an action; to
\* drop a node is to drop it with all its descendants
Given(value, action) ==
    IF action = "DROP" THEN <<>>
    ELSE IF value.list \/ action = "NONE" THEN value.items
    ELSE <<[value.items[1] EXCEPT !.action = action]>>

\* The body built by the first n op-codes of a production
Body(prod, values, n) ==
    LET pops(k) == Len(SelectSeq(SubSeq(prod.ops, 1, k), LAMBDA o : o.op = "POP"))
        of(k) == LET op == prod.ops[k]
                 IN IF op.op = "POP" THEN Given(values[pops(k)], op.action)
                    ELSE IF op.op = "VIRTUAL" /\ op.action # "DROP"
                    THEN <<[tree |-> Leaf(<<"Virtual", op.symbol>>), action |-> op.action]>>
                    ELSE <<>>
    IN FlattenSeq([k \in 1 .. n |-> of(k)])

\* The tree of a label over a body.  A promoted node takes the place of the
\* label, with the nodes before it as its first children; what was promoted
\* before becomes its first child
Assemble(label, body) ==
    LET Extend(t, item) ==
            IF item.action # "PROMOTE"
            THEN [t EXCEPT !.kids = Append(@, item.tree)]
            ELSE LET before == IF t.promoted
                               THEN <<[label |-> t.label, kids |-> t.kids]>> ELSE t.kids
                 IN [label |-> item.tree.label, kids |-> before \o item.tree.kids,
                     promoted |-> TRUE]
        whole == FoldLeft(Extend, [label |-> label, kids |-> <<>>, promoted |-> FALSE], body)
    IN [label |-> whole.label, kids |-> whole.kids]

LabelOf(prod) == IF prod.headAction = "REPLACE_BY_EPSILON" THEN <<"None", 0>>
                 ELSE <<"Variable", prod.head>>

ValueOf(prod, body) ==
    IF prod.headAction = "REPLACE_BY_CHILDREN" THEN [list |-> TRUE, items |-> body]
    ELSE Alone(Assemble(LabelOf(prod), body))

LastValues(n) == SubSeq(forest, Len(forest) - n + 1, Len(forest))

Init ==
    /\ taken = 0
    /\ forest = <<>>
    /\ tree = NoTree

\* The next token joins the forest
Take ==
    /\ taken' = taken + 1
    /\ forest' = Append(forest, Alone(Leaf(<<"Token", taken + 1>>)))
    /\ UNCHANGED <<prods, tree>>

Reduce ==
    /\ \E p \in DOMAIN prods :
        LET prod == prods[p]
        IN /\ prod.length <= Len(forest)
           /\ forest' = Append(SubSeq(forest, 1, Len(forest) - prod.length),
                               ValueOf(prod, Body(prod, LastValues(prod.length), Len(prod.ops))))
    /\ UNCHANGED <<prods, taken, tree>>

\* The tree of the axiom, which comes before the end of the input
Publish ==
    /\ Len(forest) = 2
    /\ tree = NoTree
    /\ tree' = forest[1].items[1].tree
    /\ UNCHANGED <<prods, taken, forest>>

Next == Take \/ Reduce \/ Publish

Spec == Init /\ [][Next]_<<prods, taken, forest, tree>>
=============================================================================
