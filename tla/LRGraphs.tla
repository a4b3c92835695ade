------------------------------ MODULE LRGraphs ------------------------------
(***************************************************************************)
(* The LR items and the LR graph of the SDK (lr.rs) as operators on a      *)
(* grammar: the candidates that an item brings to a closure, the closure   *)
(* of a kernel, the children of a state, the LR(0) and LR(1) graphs.       *)
(*                                                                         *)
(* An item is a rule, a position in its body and a set of lookaheads.  The *)
(* origins of a lookahead, kept to explain the conflicts, are left out.    *)
(* A state is [kernel, items, children, contexts, reductions].             *)
(***************************************************************************)
EXTENDS Grammars

Modes == {"LR0", "LR1", "LALR1"}       \* LookaheadMode

Item(rule, position, lookaheads) ==
    [rule |-> rule, position |-> position, lookaheads |-> lookaheads]

SameBase(a, b) == a.rule = b.rule /\ a.position = b.position

\* The == of two items, where that of Lookaheads is an inclusion
SameItem(a, b) == SameBase(a, b) /\ a.lookaheads \subseteq b.lookaheads

Elements(seq) == {seq[i] : i \in DOMAIN seq}
Has(items, item) == \E x \in Elements(items) : SameItem(x, item)

IsReduce(g, item) == item.position = Len(BodyOf(g, item.rule))
NextSymbol(g, item) == BodyOf(g, item.rule)[item.position + 1]
IsBefore(g, item, symbol) == ~ IsReduce(g, item) /\ NextSymbol(g, item) = symbol
Child(item) == [item EXCEPT !.position = @ + 1]

\* Fault: nothing but the rest of the body
Following_OfRest(g, item) == g.firsts[item.rule][item.position + 1] \ {Epsilon}

\* What may follow the next symbol of the item: the FIRSTS of the rest of the
\* body, and the lookaheads of the item if that rest may be empty
Following(g, item) ==
    LET firsts == g.firsts[item.rule][item.position + 1]
    IN IF Epsilon \in firsts THEN (firsts \ {Epsilon}) \cup item.lookaheads ELSE firsts

\* The lookaheads of the candidates that the item brings, one set per candidate
CandidateLookaheads(g, item, mode) ==
    CASE mode = "LR0"   -> {{}}
      [] mode = "LR1"   -> {{t} : t \in Following(g, item)}
      [] mode = "LALR1" -> {Following(g, item)}

\* Item::close_to: the candidates the item brings to a closure
Candidates(g, item, mode) ==
    IF IsReduce(g, item) THEN {}
    ELSE {Item(r, 0, la) : r \in RulesFor(g, NextSymbol(g, item)),
                           la \in CandidateLookaheads(g, item, mode)}

\* Fault: the position is not compared
WithCandidate_ByRule(items, candidate, mode) ==
    IF \E i \in DOMAIN items : items[i].rule = candidate.rule THEN items
    ELSE Append(items, candidate)

\* Item::close_to: the closure with one candidate more
WithCandidate(items, candidate, mode) ==
    IF mode = "LALR1" /\ \E i \in DOMAIN items : SameBase(items[i], candidate)
    THEN LET i == CHOOSE i \in DOMAIN items : SameBase(items[i], candidate)
         IN [items EXCEPT ![i].lookaheads = @ \cup candidate.lookaheads]
    ELSE IF mode # "LALR1" /\ Has(items, candidate) THEN items
    ELSE Append(items, candidate)
-----------------------------------------------------------------------------
\* The elements of a finite set, in any order
Listed(set) ==
    LET list[n \in 0 .. Cardinality(set)] ==
            IF n = 0 THEN <<>>
            ELSE LET before == list[n - 1]
                 IN Append(before, CHOOSE x \in set : x \notin Elements(before))
    IN list[Cardinality(set)]

\* Item::close_to: the closure with all the candidates of an item
AddAll(items, candidates, mode) ==
    LET added[n \in 0 .. Len(candidates)] ==
            IF n = 0 THEN items ELSE WithCandidate(added[n - 1], candidates[n], mode)
    IN added[Len(candidates)]

\* More items than a closure has: those of the kernel, and those that begin a rule with
\* the lookaheads that LALR1 merges, or that LR1 keeps apart
MostItems(g, kernel) == Len(kernel) + Len(g.rules) * (Cardinality(SymbolsOf(g) \ VariablesOf(g)) + 2)

\* StateKernel::into_state: the items are closed in order, those added included
Closure(g, kernel, mode) ==
    LET closed[n \in 0 .. MostItems(g, kernel)] ==
            IF n = 0 THEN kernel
            ELSE LET before == closed[n - 1]
                 IN IF n \in DOMAIN before
                    THEN AddAll(before, Listed(Candidates(g, before[n], mode)), mode)
                    ELSE before
    IN closed[MostItems(g, kernel)]

NoChildren == [symbol \in {} |-> 0]
NoContexts == [terminal \in {} |-> {}]

\* StateKernel::into_state
IntoState(g, kernel, mode) ==
    [kernel |-> kernel, items |-> Closure(g, kernel, mode),
     children |-> NoChildren, contexts |-> NoContexts, reductions |-> {}]

\* StateKernel::eq
SameKernel(a, b) ==
    Len(a) = Len(b) /\ \A item \in Elements(a) : Has(b, item)

\* Graph::build_at_state: the kernel that a state shifts to on a symbol
ShiftKernel(g, items, symbol) ==
    LET kernel[n \in 0 .. Len(items)] ==
            IF n = 0 THEN <<>>
            ELSE LET before == kernel[n - 1]
                 IN IF IsBefore(g, items[n], symbol) /\ ~ Has(before, Child(items[n]))
                    THEN Append(before, Child(items[n]))
                    ELSE before
    IN kernel[Len(items)]

\* Graph::get_state_for, or the next state to be added
StateFor(states, kernel) ==
    LET known == {i \in DOMAIN states : SameKernel(states[i].kernel, kernel)}
    IN IF known = {} THEN Len(states) + 1
       ELSE CHOOSE i \in known : \A j \in known : i <= j

\* Graph::build_at_state: the graph, with a state for a kernel
WithState(g, states, kernel, mode) ==
    IF kernel = <<>> \/ StateFor(states, kernel) \in DOMAIN states THEN states
    ELSE Append(states, IntoState(g, kernel, mode))

\* Graph::build_at_state: the terminals that open a context from a state
OpenedContexts(g, items) ==
    LET opening == {item \in Elements(items) :
                        /\ item.position = 0
                        /\ ~ IsReduce(g, item)
                        /\ g.rules[item.rule].context # 0}
        first(item) == LET X == NextSymbol(g, item)
                       IN IF X \in VariablesOf(g)
                          THEN UNION {g.firsts[r][0] : r \in RulesFor(g, X)}
                          ELSE {X}
    IN [t \in UNION {first(item) : item \in opening} |->
            {g.rules[item.rule].context : item \in {o \in opening : t \in first(o)}}]

\* Graph::build_at_state: the kernels are looked for, and added, in the order of the symbols
BuildAtState(g, states, i, mode) ==
    LET items == states[i].items
        shifted == {X \in Elements(g.symbols) : ShiftKernel(g, items, X) # <<>>}
        built[n \in 0 .. Len(g.symbols)] ==
            IF n = 0 THEN states
            ELSE WithState(g, built[n - 1], ShiftKernel(g, items, g.symbols[n]), mode)
        all == built[Len(g.symbols)]
    IN [all EXCEPT ![i].children = [X \in shifted |-> StateFor(all, ShiftKernel(g, items, X))],
                   ![i].contexts = OpenedContexts(g, items)]

AxiomKernel(g, lookaheads) == <<Item(AxiomRule(g), 0, lookaheads)>>
-----------------------------------------------------------------------------
(***************************************************************************)
(* The table of a LR(k) parser, that write_parser_lrk_data writes for a    *)
(* graph and the rules with their tree actions.  These are [head,          *)
(* headAction, ops, context]; an op is an element of the body: [op,        *)
(* action, symbol], op being "POP" for a symbol of the grammar, "VIRTUAL"  *)
(* or "ACTION".                                                            *)
(***************************************************************************)
Opcode(op, action, symbol) == [op |-> op, action |-> action, symbol |-> symbol]

\* add_real_axiom: _Axiom -> axiom^ $!
WithRealAxiom(rules) == Append(rules,
    [head |-> Axiom, headAction |-> "NONE", context |-> 0,
     ops |-> <<Opcode("POP", "PROMOTE", rules[1].head), Opcode("POP", "DROP", Dollar)>>])

AnyTerminal == "null"       \* NullTerminal, the lookahead of LR(0) reductions

\* State::get_reduction_for, the rules there are to find
ReductionsOn(state, terminal) == {r.rule : r \in {q \in state.reductions : q.terminal = terminal}}

\* write_parser_lrk_data_state: a shift comes before a reduction
ActionOf(g, state, X) ==
    LET own == ReductionsOn(state, X)
        reducing == IF own = {} THEN ReductionsOn(state, AnyTerminal) ELSE own
    IN IF X \in DOMAIN state.children THEN [code |-> "SHIFT", data |-> state.children[X]]
       ELSE IF X \notin VariablesOf(g) /\ reducing # {}
       THEN [code |-> "REDUCE", data |-> CHOOSE r \in reducing : TRUE]
       ELSE [code |-> "NONE", data |-> 0]

\* write_parser_opening_contexts: the terminals that open a context from a state
OpeningsOf(state) == UNION {{t} \X state.contexts[t] : t \in DOMAIN state.contexts}

\* write_parser_lrk_data, for a graph of the grammar
AutomatonOf(g, graph, rules) ==
    LET terminals == {g.symbols[i] : i \in DOMAIN g.symbols} \ VariablesOf(g)
        all == WithRealAxiom(rules)
    IN [terminals |-> terminals,
        action |-> [s \in DOMAIN graph |-> [X \in terminals \cup VariablesOf(g) |->
                        ActionOf(g, graph[s], X)]],
        prods |-> [p \in DOMAIN all |-> [head |-> all[p].head, headAction |-> all[p].headAction,
                                         length |-> Len(BodyOf(g, p)), ops |-> all[p].ops]],
        opens |-> [s \in DOMAIN graph |-> OpeningsOf(graph[s])],
        items |-> [s \in DOMAIN graph |-> {<<x.rule, x.position>> : x \in Elements(graph[s].items)}],
        rules |-> g.rules]
-----------------------------------------------------------------------------
\* The symbols that items wait for, and the items that wait for one, moved on
Awaited(g, items) == {NextSymbol(g, x) : x \in {y \in Elements(items) : ~ IsReduce(g, y)}}
Moved(g, items, symbol) == {Child(x) : x \in {y \in Elements(items) : IsBefore(g, y, symbol)}}

\* A canonical LR(1) graph: from the axiom followed by Epsilon, with the states in the
\* order in which they are found
IsCanonical(g, graph) ==
    /\ Len(graph) \in Nat \ {0}
    /\ DOMAIN graph = 1 .. Len(graph)
    /\ graph[1].kernel = AxiomKernel(g, {Epsilon})
    /\ \A i \in DOMAIN graph :
        /\ graph[i].kernel \in Seq(Elements(graph[i].kernel))
        /\ graph[i].items = Closure(g, graph[i].kernel, "LR1")
        /\ DOMAIN graph[i].children = Awaited(g, graph[i].items)
        /\ \A X \in DOMAIN graph[i].children :
            /\ graph[i].children[X] \in DOMAIN graph
            /\ Elements(graph[graph[i].children[X]].kernel) = Moved(g, graph[i].items, X)
    /\ \A j \in 2 .. Len(graph) : \E i \in 1 .. j - 1 :
            \E X \in DOMAIN graph[i].children : graph[i].children[X] = j
=============================================================================
