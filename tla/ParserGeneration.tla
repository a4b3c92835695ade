-------------------------- MODULE ParserGeneration --------------------------
(***************************************************************************)
(* The construction of a parser from its grammar: Grammar::prepare computes *)
(* the sets, build_graph builds the graph with the FIRSTS it computed, then *)
(* looks for what is wrong with it and for phrases that show it.           *)
(***************************************************************************)
EXTENDS LRConstruction
Seqs == INSTANCE SequencesExt

CONSTANTS
    ContextOf(_)       \* the context of each terminal, 0 for the default one

VARIABLES
    step,         \* where prepare() is
    rule, pos,    \* the rule and the choice of its pass
    changed,      \* whether the pass changed anything
    firsts, varFirsts, followers,
    expected,     \* the terminals that the lexer can give
    errors        \* the errors of build_graph

setsVars == <<step, rule, pos, changed, firsts, varFirsts, followers>>
reportVars == <<expected, errors>>
allVars == <<vars, setsVars, reportVars>>

Sets == INSTANCE GrammarSets WITH phase <- step, modified <- changed

GenerationInit ==
    /\ Sets!Init
    /\ method = "none"
    /\ phase = "prepare"
    /\ at = 1
    /\ states = <<>>
    /\ kernels = <<>>
    /\ table = <<>>
    /\ modified = FALSE
    /\ conflicts = {}
    /\ expected = {}
    /\ errors = {}

Prepare ==
    /\ Sets!Next
    /\ UNCHANGED <<method, phase, at, states, kernels, table, modified, conflicts, reportVars>>

\* Grammar::build goes from prepare() to build_graph
StartGraph ==
    /\ phase = "prepare"
    /\ step = "done"
    /\ grammar' = [grammar EXCEPT !.firsts = firsts]
    /\ method' \in Methods
    /\ Goto("graph")
    /\ states' = <<IntoState(grammar', AxiomKernel(grammar', {}), GraphModeOf(method'))>>
    /\ UNCHANGED <<kernels, table, modified, conflicts, setsVars, reportVars>>
-----------------------------------------------------------------------------
(***************************************************************************)
(* InverseGraph.  A path of the graph is the sequence of the [state,       *)
(* symbol], the transition being the one that leaves the state; the last   *)
(* one has none.                                                           *)
(***************************************************************************)
NoSymbol == "none"

Transitions ==
    UNION {{[from |-> i, symbol |-> X, to |-> states[i].children[X]] : X \in DOMAIN states[i].children} :
            i \in DOMAIN states}

\* The elements of a sequence that are in a set, in their order
Among(seq, set) ==
    LET chosen[n \in 0 .. Len(seq)] ==
            IF n = 0 THEN <<>>
            ELSE IF seq[n] \in set THEN Append(chosen[n - 1], seq[n]) ELSE chosen[n - 1]
    IN chosen[Len(seq)]

\* InverseGraph::from: the transitions to each state, in an order that stands for the
\* one in which the hash maps give them
InverseGraph(order) ==
    [target \in DOMAIN states |-> Among(order, {t \in Transitions : t.to = target})]

\* Fault: a state is visited once, whatever it is left with
Unvisited_ByState(visited, transition) == \A place \in visited : place.state # transition.from

Unvisited(visited, transition) ==
    [state |-> transition.from, symbol |-> transition.symbol] \notin visited

\* InverseGraph::get_paths_to, the loop over the queue: the n-th path is extended by
\* the transitions that lead to it.  Each place is entered once, so that there is no
\* more to extend after as many paths as places.
Extended(inverse, search, n) ==
    LET head == search.paths[n][1].state
        more == {t \in Elements(inverse[head]) : head # 1 /\ Unvisited(search.visited, t)}
        before == Among(inverse[head], more)
        places == [k \in DOMAIN before |-> [state |-> before[k].from, symbol |-> before[k].symbol]]
    IN [paths |-> search.paths \o [k \in DOMAIN before |-> <<places[k]>> \o search.paths[n]],
        visited |-> search.visited \cup Elements(places)]

\* The paths found that start from the state 1 are the goals.
PathsTo(inverse, target) ==
    LET most == 1 + Cardinality(UNION {Elements(inverse[i]) : i \in DOMAIN inverse})
        search[n \in 0 .. most] ==
            IF n = 0 THEN [paths |-> <<<<[state |-> target, symbol |-> NoSymbol]>>>>, visited |-> {}]
            ELSE LET before == search[n - 1]
                 IN IF n \in DOMAIN before.paths THEN Extended(inverse, before, n) ELSE before
    IN {p \in Elements(search[most].paths) : p[1].state = 1}

\* Phrase::build_input: the terminals of the first rule of the variable that is not
\* in use; a variable that a rule in use already has is skipped
BuildInput(g, variable) ==
    LET phrase[v \in VariablesOf(g), used \in SUBSET RulesOf(g)] ==
            LET rules == RulesFor(g, v)
                free == {r \in rules : r \notin used}
                candidates == IF free = {} THEN rules ELSE free
                chosen == CHOOSE r \in candidates : \A q \in candidates : r <= q
                found(X) == \E r \in used : X \in Elements(BodyOf(g, r))
                nullable == \E r \in rules : Epsilon \in g.firsts[r][0]
                Part(X) == IF X \notin VariablesOf(g) THEN <<X>>
                           ELSE IF found(X) THEN <<>>
                           ELSE phrase[X, used \cup {chosen}]
            IN IF nullable THEN <<>>
               ELSE Seqs!FoldLeft(LAMBDA some, X : some \o Part(X), <<>>, BodyOf(g, chosen))
    IN phrase[variable, {}]

\* Path::get_phrase; what is neither a variable nor a terminal of the grammar is ignored
PhraseOf(path) ==
    Seqs!FoldLeft(LAMBDA phrase, elem : phrase \o
                IF elem.symbol \in {NoSymbol, Dollar} THEN <<>>
                ELSE IF elem.symbol \in VariablesOf(grammar) THEN BuildInput(grammar, elem.symbol)
                ELSE <<elem.symbol>>,
             <<>>, path)
-----------------------------------------------------------------------------
\* The rules that are a context open at a state
Opening(state, context) ==
    {item.rule : item \in {x \in Elements(state.items) :
                    x.position = 0 /\ grammar.rules[x.rule].context = context}}

\* find_context_errors_in: whether the context of the terminal may be open along the
\* path.  Only the first item of a state that opens it is looked at, and its variable
\* is looked for among the children of the state after the terminal.
FirstOpening(state, context) ==
    LET opens == SelectSeq(state.items, LAMBDA x : x.position = 0 /\ grammar.rules[x.rule].context = context)
    IN grammar.rules[opens[1].rule].head

\* Fault: only what the terminal itself opens
MayBeOpen_After(path, to, context) == Opening(states[to], context) # {}

MayBeOpen(path, to, context) ==
    \/ Opening(states[to], context) # {}
    \/ \E i \in DOMAIN path :
        /\ Opening(states[path[i].state], context) # {}
        /\ LET v == FirstOpening(states[path[i].state], context)
               next == IF i = Len(path) THEN to ELSE path[i + 1].state
           IN v \in DOMAIN states[to].children => states[to].children[v] # next

\* find_context_errors
ContextErrors(inverse) ==
    {e \in {[kind |-> "TerminalOutsideContext", terminal |-> t.symbol, state |-> t.from,
             paths |-> {p \in PathsTo(inverse, t.from) : ~ MayBeOpen(p, t.to, ContextOf(t.symbol))}] :
                t \in {x \in UNION {Elements(inverse[i]) : i \in DOMAIN states} :
                        x.symbol \notin VariablesOf(grammar) /\ ContextOf(x.symbol) # 0}} :
        e.paths # {}}

\* ParsingMethod::raise_conflict
RaisesConflict == method \in {"LR0", "LR1", "LALR1"}

ConflictErrors(inverse) ==
    {[kind |-> "LrConflict", terminal |-> c.terminal, state |-> c.state,
      paths |-> PathsTo(inverse, c.state)] : c \in {x \in conflicts : RaisesConflict}}

\* find_unmatchable_tokens
Unmatchable(matched) ==
    {X \in UNION {{NextSymbol(grammar, item) : item \in {x \in Elements(s.items) : ~ IsReduce(grammar, x)}} :
                    s \in Elements(states)} :
        X \notin VariablesOf(grammar) \cup {Dollar} \cup matched}

UnmatchableErrors(matched) ==
    {[kind |-> "TerminalCannotBeMatched", terminal |-> t, state |-> 0, phrases |-> {}] : t \in Unmatchable(matched)}

\* The errors as they are given: the phrases of the paths, with the terminal
Explained(e) ==
    [kind |-> e.kind, terminal |-> e.terminal, state |-> e.state,
     phrases |-> {PhraseOf(p) \o <<e.terminal>> : p \in e.paths}]

Terminals == Elements(grammar.symbols) \ (VariablesOf(grammar) \cup {Dollar})

\* build_graph, once the graph is built
Report ==
    /\ phase = "done"
    /\ phase' = "returned"
    /\ LET inverse == InverseGraph(Listed(Transitions))
           found == {Explained(e) : e \in ConflictErrors(inverse) \cup ContextErrors(inverse)}
       IN \E matched \in {Terminals} \cup {Terminals \ {t} : t \in Terminals} :
            /\ expected' = matched
            /\ errors' = found \cup UnmatchableErrors(matched)
    /\ UNCHANGED <<grammar, method, at, states, kernels, table, modified, conflicts, setsVars>>

GenerationNext ==
    \/ Prepare
    \/ StartGraph
    \/ Construct /\ UNCHANGED <<setsVars, reportVars>>
    \/ Report

\* A sequential computation: it goes on until it is done.  As there is no
\* deadlock before, this is weak fairness in a form that does not compute the next
\* state again
GenerationSpec ==
    /\ GenerationInit
    /\ [][GenerationNext]_allVars
    /\ []<>(phase = "returned") \/ []<><<TRUE>>_allVars
-----------------------------------------------------------------------------
\* The sets are read only when the passes have stopped.  By then the FIRSTS of
\* every suffix of every rule, and of every variable, are what a derivation can
\* start with, and the FOLLOWERS what can come after a variable: stopping one pass
\* early, or on a flag that misses a change, leaves a set too small, and the parser
\* built from it rejects valid inputs.
SetsExact == phase = "prepare" => Sets!FirstsExact /\ Sets!FollowersExact

\* The construction ends: both fixpoints of prepare() are reached whatever the
\* recursion between the rules (cycles of nullable variables included), the graph
\* is finite, and the propagation reaches its fixpoint.
Terminates == <>(phase = "returned")

Reachable(from) ==
    LET more[n \in 0 .. Len(states)] ==
            IF n = 0 THEN {from}
            ELSE LET before == more[n - 1]
                 IN before \cup {t.to : t \in {x \in Transitions : x.from \in before}}
    IN more[Len(states)]

Backwards(seq) == [k \in DOMAIN seq |-> seq[Len(seq) + 1 - k]]

\* A path of the graph, from its first state
IsPath(path, target) ==
    /\ path[1].state = 1
    /\ path[Len(path)].state = target
    /\ \A k \in 1 .. Len(path) - 1 :
        /\ path[k].symbol \in DOMAIN states[path[k].state].children
        /\ states[path[k].state].children[path[k].symbol] = path[k + 1].state

\* With the transitions visited in some order
PathsShow(order) ==
    \A target \in 2 .. Len(states) :
        LET found == PathsTo(InverseGraph(order), target)
        IN /\ \A path \in found : IsPath(path, target)
           /\ {path[1].symbol : path \in found} =
                {X \in DOMAIN states[1].children : target \in Reachable(states[1].children[X])}

\* A conflict is shown by inputs that lead to its state: whatever the order in which
\* the transitions are visited, the paths found to a state are paths of the graph,
\* and there is one for each way out of the state 1 that leads there, so that no
\* error is left without an example.
PathsExact ==
    phase = "returned" /\ expected = Terminals =>
        \A order \in {Listed(Transitions), Backwards(Listed(Transitions))} : PathsShow(order)
=============================================================================
