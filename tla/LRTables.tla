------------------------------ MODULE LRTables ------------------------------
(***************************************************************************)
(* From a grammar with tree actions to the automaton of its parser: the    *)
(* LR(1) and LALR(1) graphs with their reductions, and the table and the   *)
(* productions that output/parser_data.rs writes for the RNGLR parser.     *)
(***************************************************************************)
EXTENDS LRGraphs, TLC
LOCAL INSTANCE SequencesExt

SymbolsOfBody(ops) == LET pops == SelectSeq(ops, LAMBDA o : o.op = "POP")
                      IN [k \in DOMAIN pops |-> pops[k].symbol]

\* prepare(): the grammar of the rules, in which virtual symbols and semantic
\* actions have no part
GrammarOf(rules, symbols) ==
    Prepared([r \in DOMAIN rules |-> [Rule(rules[r].head, SymbolsOfBody(rules[r].ops))
                                        EXCEPT !.context = rules[r].context]], symbols)

\* Graph::from
RECURSIVE GraphFrom(_, _, _, _)
GraphFrom(g, states, i, mode) ==
    IF i > Len(states) THEN states
    ELSE GraphFrom(g, BuildAtState(g, states, i, mode), i + 1, mode)

GraphOf(g, mode) == GraphFrom(g, <<IntoState(g, AxiomKernel(g, {}), mode)>>, 1, mode)

\* get_graph_lr1: the axiom has no lookahead
LR1Graph(g) == GraphOf(g, "LR1")

\* The canonical graph, in which the end of the input is the lookahead of the axiom: the
\* lookaheads that build_graph_lalr1_kernels and build_graph_lalr1_propagate start from
CanonicalGraph(g) == GraphFrom(g, <<IntoState(g, AxiomKernel(g, {Epsilon}), "LR1")>>, 1, "LR1")

\* The LR(0) graph whose kernels have the lookaheads of the canonical kernels they
\* merge, closed again
LALR1Graph(g) ==
    LET lr0 == GraphOf(g, "LR0")
        lr1 == CanonicalGraph(g)
        bases(kernel) == {<<x.rule, x.position>> : x \in Elements(kernel)}
        merged(item, kernel) ==
            UNION {UNION {x.lookaheads : x \in {y \in Elements(s.kernel) : SameBase(y, item)}} :
                    s \in {z \in Elements(lr1) : bases(z.kernel) = bases(kernel)}}
        closed(s) == IntoState(g, [n \in DOMAIN s.kernel |->
                        [s.kernel[n] EXCEPT !.lookaheads = merged(s.kernel[n], s.kernel)]], "LALR1")
    IN [i \in DOMAIN lr0 |-> [closed(lr0[i]) EXCEPT !.children = lr0[i].children,
                                                    !.contexts = lr0[i].contexts]]

\* State::build_reductions_lr1: the first item that reduces on a terminal has it
WithReductions(g, state) ==
    LET on(t) == {n \in DOMAIN state.items : IsReduce(g, state.items[n]) /\ t \in state.items[n].lookaheads}
        first(t) == state.items[CHOOSE n \in on(t) : \A m \in on(t) : n <= m]
    IN [state EXCEPT !.reductions =
            {[terminal |-> t, rule |-> first(t).rule, length |-> first(t).position] :
                t \in {u \in UNION {x.lookaheads : x \in Elements(state.items)} :
                            on(u) # {} /\ u \notin DOMAIN state.children}}]

TableFor(g, graph, rules) ==
    AutomatonOf(g, [s \in DOMAIN graph |-> WithReductions(g, graph[s])], rules)

LR1Automaton(rules, symbols) ==
    LET g == GrammarOf(rules, symbols) IN TableFor(g, LR1Graph(g), rules)
LALR1Automaton(rules, symbols) ==
    LET g == GrammarOf(rules, symbols) IN TableFor(g, LALR1Graph(g), rules)
-----------------------------------------------------------------------------
(***************************************************************************)
(* The tables of a RNGLR parser: write_parser_rnglr_data, for a graph      *)
(* whose reductions are those of build_reductions_rnglr1 (lr.rs).  A rule  *)
(* may be reduced before its end when what remains may be empty: the table *)
(* has a production for each length, and one of length 0 for a nullable    *)
(* variable.                                                               *)
(***************************************************************************)
MayBeEmpty(g, r, k) == Epsilon \in g.firsts[r][k]
InRuleOrder(g, rules) == SelectSeq([r \in 1 .. Len(g.rules) |-> r], LAMBDA r : r \in rules)

\* The variables in the order of the grammar: that of their first rules
VariablesInOrder(g) ==
    LET first == {r \in RulesOf(g) : \A s \in 1 .. r - 1 : g.rules[s].head # g.rules[r].head}
        order == InRuleOrder(g, first)
    IN [k \in DOMAIN order |-> g.rules[order[k]].head]

\* The lengths <<rule, length>> at which a rule is reduced
Lengths(g, r) ==
    LET last == Len(BodyOf(g, r))
        shorter == SelectSeq([k \in 1 .. last - 1 |-> k], LAMBDA k : MayBeEmpty(g, r, k))
    IN <<<<r, last>>>> \o [n \in DOMAIN shorter |-> <<r, shorter[n]>>]

\* The lengths for the rules of a variable; a nullable one that has no empty rule
\* has its first nullable rule reduced from length 0 too
LengthsFor(g, v) ==
    LET rules == InRuleOrder(g, RulesFor(g, v))
        own == FlattenSeq([n \in DOMAIN rules |-> Lengths(g, rules[n])])
        nullable == SelectSeq(rules, LAMBDA r : MayBeEmpty(g, r, 0))
    IN IF nullable = <<>> \/ \E n \in DOMAIN own : own[n][2] = 0 THEN own
       ELSE Append(own, <<nullable[1], 0>>)

Reductions(g) ==
    LET heads == VariablesInOrder(g)
    IN FlattenSeq([n \in DOMAIN heads |-> LengthsFor(g, heads[n])])

NumberOf(g, r, length) ==
    LET all == Reductions(g) IN {p \in DOMAIN all : all[p] = <<r, length>>}

\* The production of length 0 of a nullable variable, or 0
NullableProduction(g, v) ==
    LET all == Reductions(g)
        empty == {p \in DOMAIN all : g.rules[all[p][1]].head = v /\ all[p][2] = 0}
    IN IF empty = {} THEN 0 ELSE CHOOSE p \in empty : \A q \in empty : p <= q

\* build_reductions_rnglr1, on a terminal and in the order of the items
ReducedOn(g, state, t) ==
    SelectSeq(state.items, LAMBDA item : /\ t \in item.lookaheads
                                         /\ MayBeEmpty(g, item.rule, item.position))

\* A cell of the action table.  A reduction whose rule is nowhere at that length would
\* stop the generation (unwrap): no table of the model has one
CellOf(g, state, X) ==
    LET reduced == ReducedOn(g, state, X)
    IN (IF X \in DOMAIN state.children THEN <<[code |-> "SHIFT", data |-> state.children[X]]>>
        ELSE <<>>)
       \o [n \in DOMAIN reduced |->
            [code |-> "REDUCE",
             data |-> CHOOSE p \in NumberOf(g, reduced[n].rule, reduced[n].position) : TRUE]]

\* write_parser_rnglr_data_rule: the symbols after the length are replaced by the
\* constant sub-trees of nullable variables
OpsOfLength(ops, length) ==
    LET pops(k) == Len(SelectSeq(SubSeq(ops, 1, k), LAMBDA o : o.op = "POP"))
    IN [k \in DOMAIN ops |-> IF ops[k].op = "POP" /\ pops(k) > length
                             THEN [ops[k] EXCEPT !.op = "NULLABLE"] ELSE ops[k]]

\* The only reduction on epsilon is that of the axiom, and it is written as ACCEPT: no
\* state of a RNGLR(1) graph has it
RNGLRAutomatonOf(g, graph, rules) ==
    LET terminals == {g.symbols[i] : i \in DOMAIN g.symbols} \ VariablesOf(g)
        all == WithRealAxiom(rules)
        written == Reductions(g)
    IN [terminals |-> terminals,
        variables |-> VariablesInOrder(g),
        cells |-> [s \in DOMAIN graph |->
                    [X \in terminals \cup VariablesOf(g) |-> CellOf(g, graph[s], X)]
                        @@ (Epsilon :> <<>>)],
        accepting |-> {s \in DOMAIN graph : ReducedOn(g, graph[s], Epsilon) # <<>>},
        prods |-> [p \in DOMAIN written |->
                    [head |-> all[written[p][1]].head,
                     headAction |-> all[written[p][1]].headAction,
                     length |-> written[p][2],
                     ops |-> OpsOfLength(all[written[p][1]].ops, written[p][2])]],
        empty |-> [v \in VariablesOf(g) |-> NullableProduction(g, v)],
        opens |-> [s \in DOMAIN graph |-> OpeningsOf(graph[s])],
        bodies |-> all,
        rules |-> g.rules]

RNGLR1Automaton(rules, symbols) ==
    LET g == GrammarOf(rules, symbols) IN RNGLRAutomatonOf(g, LR1Graph(g), rules)
RNGLALR1Automaton(rules, symbols) ==
    LET g == GrammarOf(rules, symbols) IN RNGLRAutomatonOf(g, LALR1Graph(g), rules)
==============================================================================
