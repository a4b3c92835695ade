--------------------------- MODULE LRConstruction ---------------------------
(***************************************************************************)
(* build_graph of the SDK (lr.rs): the LR graph of a grammar by one of the *)
(* five methods.  LR(0) and LR(1) graphs are built state by state.  For    *)
(* LALR(1) the kernels of the LR(0) graph get their lookaheads, generated  *)
(* or propagated along a table, then are closed again.  The reductions and *)
(* the conflicts come last.                                                *)
(***************************************************************************)
EXTENDS LRGraphs

CONSTANTS
    InputGrammars,     \* the prepared grammars
    Methods,           \* the methods tried, among AllMethods
    CanonicalLR1       \* the canonical LR(1) graph of each grammar

AllMethods == {"LR0", "LR1", "LALR1", "RNGLR1", "RNGLALR1"}   \* ParsingMethod

ASSUME InputGrammarsAssumption == \A g \in InputGrammars : IsPrepared(g)
ASSUME AxiomAssumption == \A g \in InputGrammars : HasRealAxiom(g)
ASSUME MethodsAssumption == Methods \subseteq AllMethods
ASSUME CanonicalAssumption == \A g \in InputGrammars : IsCanonical(g, CanonicalLR1[g])

VARIABLES
    grammar,      \* the grammar
    method,       \* the ParsingMethod
    phase,        \* where build_graph is
    at,           \* the index of the loop of that phase
    states,       \* the states of the graph
    kernels,      \* LALR(1): the kernels, with their lookaheads
    table,        \* LALR(1): the propagation table, as pairs <<from, to>> of
                  \* places <<state, item>> in the kernels
    modified,     \* LALR(1): whether the pass of propagation changed anything
    conflicts     \* the conflicts found

vars == <<grammar, method, phase, at, states, kernels, table, modified, conflicts>>

IsLALR == method \in {"LALR1", "RNGLALR1"}
IsRNGLR == method \in {"RNGLR1", "RNGLALR1"}
GraphModeOf(m) == IF m \in {"LR1", "RNGLR1"} THEN "LR1" ELSE "LR0"
GraphMode == GraphModeOf(method)

Goto(next) == phase' = next /\ at' = 1

\* Graph::from
BuildState ==
    /\ phase = "graph"
    /\ at \in DOMAIN states
    /\ states' = BuildAtState(grammar, states, at, GraphMode)
    /\ at' = at + 1
    /\ UNCHANGED <<grammar, method, phase, kernels, table, modified, conflicts>>

\* build_graph_lalr1_kernels
GraphBuilt ==
    /\ phase = "graph"
    /\ at \notin DOMAIN states
    /\ Goto(IF IsLALR THEN "table" ELSE "reductions")
    /\ kernels' = IF IsLALR
                  THEN [i \in DOMAIN states |->
                            IF i = 1 THEN AxiomKernel(grammar, {Epsilon})
                                     ELSE states[i].kernel]
                  ELSE kernels
    /\ UNCHANGED <<grammar, method, states, table, modified, conflicts>>

\* The links from the kernel of a state to its children: the closure of each of
\* its items, with the dummy lookahead, tells what reaches which kernel item
Links(i) ==
    UNION {LET item == kernels[i][n]
               dummy == Item(item.rule, item.position, {Dummy})
               closure == IntoState(grammar, <<dummy>>, "LR1").items
           IN {LET child == states[i].children[NextSymbol(grammar, d)]
               IN [from |-> <<i, n>>,
                   to |-> <<child, CHOOSE k \in DOMAIN kernels[child] :
                                SameBase(kernels[child][k], Child(d))>>,
                   lookaheads |-> d.lookaheads]
               : d \in {e \in Elements(closure) : ~ IsReduce(grammar, e)}}
           : n \in DOMAIN kernels[i]}

Propagates(link) == Dummy \in link.lookaheads

\* build_graph_lalr1_propagation_table, one state
BuildTable ==
    /\ phase = "table"
    /\ at \in DOMAIN kernels
    /\ LET links == Links(at)
           carried == {<<l.from, l.to>> : l \in {k \in links : Propagates(k)}}
           generated(place) == UNION {l.lookaheads : l \in
                                        {k \in links : k.to = place /\ ~ Propagates(k)}}
       IN /\ table' = table \o Listed(carried)
          /\ kernels' = [i \in DOMAIN kernels |-> [n \in DOMAIN kernels[i] |->
                [kernels[i][n] EXCEPT !.lookaheads = @ \cup generated(<<i, n>>)]]]
    /\ IF at + 1 \in DOMAIN kernels
       THEN at' = at + 1 /\ UNCHANGED phase
       ELSE Goto("propagate")
    /\ UNCHANGED <<grammar, method, states, modified, conflicts>>

\* Fault: every entry counts as a modification
Modifies_Always == TRUE

Modifies == kernels' # kernels

\* build_graph_lalr1_propagate, one entry of the table
Propagate ==
    /\ phase = "propagate"
    /\ at \in DOMAIN table
    /\ LET from == table[at][1]
           to == table[at][2]
       IN kernels' = [kernels EXCEPT ![to[1]][to[2]].lookaheads =
                        @ \cup kernels[from[1]][from[2]].lookaheads]
    /\ modified' = (modified \/ Modifies)
    /\ at' = at + 1
    /\ UNCHANGED <<grammar, method, phase, states, table, conflicts>>

\* Fault: a single pass
PassesDone_Once == TRUE

PassesDone == ~ modified

\* build_graph_lalr1_propagate, the test of the loop
EndPass ==
    /\ phase = "propagate"
    /\ at \notin DOMAIN table
    /\ Goto(IF PassesDone THEN "close" ELSE "propagate")
    /\ modified' = FALSE
    /\ UNCHANGED <<grammar, method, states, kernels, table, conflicts>>

\* Fault: a state is made anew
Reclosed_Anew(state, kernel) == IntoState(grammar, kernel, "LALR1")

\* The state of the LR(0) graph, with the items that its LALR(1) kernel brings
Reclosed(state, kernel) ==
    [IntoState(grammar, kernel, "LALR1") EXCEPT !.children = state.children,
                                                !.contexts = state.contexts]

\* build_graph_lalr1_graph, one state
CloseState ==
    /\ phase = "close"
    /\ states' = [states EXCEPT ![at] = Reclosed(states[at], kernels[at])]
    /\ IF at + 1 \in DOMAIN kernels
       THEN at' = at + 1 /\ UNCHANGED phase
       ELSE Goto("reductions")
    /\ UNCHANGED <<grammar, method, kernels, table, modified, conflicts>>
-----------------------------------------------------------------------------
\* The items a state may reduce: for RNGLR also those whose rest may be empty
Reduces(item) ==
    \/ IsReduce(grammar, item)
    \/ IsRNGLR /\ Epsilon \in grammar.firsts[item.rule][item.position]

LookaheadsOf(item) == IF method = "LR0" THEN {AnyTerminal} ELSE item.lookaheads

Shifts(state, terminal) ==
    IF method = "LR0" THEN DOMAIN state.children # {} ELSE terminal \in DOMAIN state.children

\* The candidates <<n, t>>: the item number n may be reduced on t
Candidate(state) ==
    UNION {{<<n, t>> : t \in LookaheadsOf(state.items[n])} :
                n \in {k \in DOMAIN state.items : Reduces(state.items[k])}}

Taken(state, n, t) == \E m \in 1 .. n - 1 : <<m, t>> \in Candidate(state)

\* Fault: a reduction that comes second is taken for a repeat of the first
ConflictKinds_NoReduce(state, n, t) == IF Shifts(state, t) THEN {"ShiftReduce"} ELSE {}

\* The kinds of the conflicts raised for the candidate: only an LR(0) table
\* looks for another reduction when there is a shift too
ConflictKinds(state, n, t) ==
    (IF Shifts(state, t) THEN {"ShiftReduce"} ELSE {})
    \cup (IF Taken(state, n, t) /\ (method = "LR0" \/ ~ Shifts(state, t))
          THEN {"ReduceReduce"} ELSE {})

\* State::build_reductions_lr0, _lr1, _rnglr1: a conflict drops the reduction in
\* an LR(1) table, only if another reduction has the place in an LR(0) one, and
\* never in a RNGLR one
Kept(state, n, t) ==
    \/ IsRNGLR
    \/ ConflictKinds(state, n, t) = {}
    \/ method = "LR0" /\ ~ Taken(state, n, t)

\* Conflicts::find_similar
Raised(kind, terminal) == \E c \in conflicts : c.kind = kind /\ c.terminal = terminal

\* Conflicts::aggregate: conflicts of the same kind on the same terminal are one,
\* that of the first state; their items are left out
BuildReductions ==
    /\ phase = "reductions"
    /\ LET state == states[at]
           new == UNION {{[kind |-> kind, terminal |-> c[2], state |-> at] :
                                kind \in {k \in ConflictKinds(state, c[1], c[2]) : ~ Raised(k, c[2])}} :
                            c \in Candidate(state)}
       IN /\ states' = [states EXCEPT ![at].reductions =
                            {[terminal |-> c[2], rule |-> state.items[c[1]].rule,
                              length |-> state.items[c[1]].position] :
                                c \in {d \in Candidate(state) : Kept(state, d[1], d[2])}}]
          /\ conflicts' = conflicts \cup new
    /\ IF at + 1 \in DOMAIN states
       THEN at' = at + 1 /\ UNCHANGED phase
       ELSE Goto("done")
    /\ UNCHANGED <<grammar, method, kernels, table, modified>>

Construct ==
    \/ BuildState
    \/ GraphBuilt
    \/ BuildTable
    \/ Propagate
    \/ EndPass
    \/ CloseState
    \/ BuildReductions
-----------------------------------------------------------------------------
Bases(items) == {<<item.rule, item.position>> : item \in Elements(items)}

IsItemOf(g, item) ==
    /\ item.rule \in RulesOf(g)
    /\ item.position \in ChoicesOf(g, item.rule)

TypeOK ==
    /\ grammar \in InputGrammars
    /\ method \in Methods
    /\ phase \in {"graph", "table", "propagate", "close", "reductions", "done"}
    /\ at \in Nat \ {0}
    /\ \A s \in Elements(states) :
        /\ \A item \in Elements(s.items) : IsItemOf(grammar, item)
        /\ \A symbol \in DOMAIN s.children : s.children[symbol] \in DOMAIN states
    /\ \A i \in DOMAIN kernels : Bases(kernels[i]) = Bases(states[i].kernel)
    /\ \A link \in Elements(table), end \in {1, 2} :
        /\ link[end][1] \in DOMAIN kernels
        /\ link[end][2] \in DOMAIN kernels[link[end][1]]
    /\ modified \in BOOLEAN

\* The graph is the automaton of the items, for every grammar and method: a
\* state shifts on exactly the symbols its items wait for, to a state whose
\* kernel is exactly those items moved on, and no kernel has two states.
TransitionsExact ==
    phase # "graph" =>
        /\ \A s \in Elements(states) :
            /\ DOMAIN s.children = {NextSymbol(grammar, item) :
                    item \in {x \in Elements(s.items) : ~ IsReduce(grammar, x)}}
            /\ \A symbol \in DOMAIN s.children :
                  Bases(states[s.children[symbol]].kernel) =
                    {<<item.rule, item.position + 1>> :
                        item \in {x \in Elements(s.items) : IsBefore(grammar, x, symbol)}}
        /\ \A i, j \in DOMAIN states : Elements(states[i].kernel) = Elements(states[j].kernel)
                                        => i = j

\* The lookaheads of the canonical LR(1) items that an item of a state merges
MergedLookaheads(i, item) ==
    UNION {UNION {x.lookaheads : x \in {y \in Elements(s.kernel) : SameBase(y, item)}} :
            s \in {z \in Elements(CanonicalLR1[grammar]) : Bases(z.kernel) = Bases(kernels[i])}}

\* The end of every rule can be reached with phrases: without them an LR(1) closure
\* lacks items that an LR(0) one has.
HasPhrases(g) == \A r \in RulesOf(g) : \A k \in ChoicesOf(g, r) : g.firsts[r][k] # {}

\* The LALR(1) kernels, computed from the LR(0) graph by generation and
\* propagation, have exactly the lookaheads of the LR(1) states they merge: one
\* missing rejects valid inputs, one too many reports conflicts that are not.
KernelsExact ==
    IsLALR /\ phase \in {"close", "reductions", "done"} /\ HasPhrases(grammar) =>
        \A i \in DOMAIN kernels : \A item \in Elements(kernels[i]) :
            item.lookaheads = MergedLookaheads(i, item)

\* A table for which no conflict is raised has, for every state and terminal,
\* the one action that the items of the state call for: the parser may trust it
\* without looking further.
TableSound ==
    phase = "done" /\ ~ IsRNGLR /\ conflicts = {} =>
        \A s \in Elements(states) :
            LET reduced == {x \in Elements(s.items) : IsReduce(grammar, x)}
                on(t) == {x.rule : x \in {y \in reduced : t \in LookaheadsOf(y)}}
            IN \A t \in UNION {LookaheadsOf(x) : x \in reduced} :
                /\ Cardinality(on(t)) = 1
                /\ ~ Shifts(s, t)
                /\ {r.rule : r \in {q \in s.reductions : q.terminal = t}} = on(t)
=============================================================================
