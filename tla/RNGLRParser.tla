----------------------------- MODULE RNGLRParser -----------------------------
(***************************************************************************)
(* The RNGLR parser of the Rust runtime (parsers/rnglr.rs): all the parses *)
(* of the input are followed at once, on a graph-structured stack (GSS).   *)
(* A step is one shift, one path of one reduction, or one token.  The      *)
(* lexer is open: any terminal may come next.  Indices start at 1.         *)
(*                                                                         *)
(* An automaton is a record, see LRTables:                                 *)
(*    terminals, variables, rules, bodies                                  *)
(*    cells      cells[state][symbol]: the actions [code, data], in order  *)
(*    accepting  the states that accept at the end of the input            *)
(*    prods      the productions [head, headAction, length, ops]           *)
(*    empty      the production of length 0 of each variable, or 0         *)
(*    opens      the contexts <<terminal, context>> opened from each state *)
(***************************************************************************)
EXTENDS SPPF, FiniteSets
LOCAL INSTANCE SequencesExt
LOCAL INSTANCE FiniteSetsExt

CONSTANTS
    Automata,       \* the automata the parser may run
    MaxTokens       \* bound of the model on the tokens before the end

Dollar == "$"
Epsilon == "eps"
ASSUME MaxTokensAssumption == MaxTokens \in Nat

VARIABLES
    automaton,      \* the automaton
    tokens,         \* the terminals of the tokens lexed so far
    lookahead,      \* the terminal of the next token, Epsilon when there is none
    status,         \* "nullables", "start", "reduce", "shift", or the end:
                    \* "accepted", "unfinished", "error", "panic", "hangs"
    variable,       \* build_nullables: the variable of the loop
    resolved,       \* build_nullables: the variables resolved by this pass
    nullables,      \* the places of the constant sub-trees of nullable variables
    nodes,          \* GSS nodes [state, generation]
    edges,          \* GSS edges [from, to, label], in order; a label is [ref, symbol]
    generation,     \* the current generation
    stem,           \* how many nodes it had before the reductions
    shifts,         \* the queue of shifts [from, to]
    pending,        \* the shifts still to do for this token
    label,          \* their label
    reductions,     \* the queue of reductions [node, prod, first]
    paths,          \* the paths still to do of the reduction under way
    current,        \* that reduction
    forest,         \* the forest
    root,           \* SppfImpl.root
    expected        \* the terminals said to be expected

builderVars == <<variable, resolved, nullables>>
gssVars == <<nodes, edges, generation, stem>>
queueVars == <<shifts, pending, label, reductions, paths, current>>
vars == <<automaton, tokens, lookahead, status, builderVars, gssVars, queueVars,
          forest, root, expected>>

None == [kind |-> "none"]
NoPlace == 0

Cell(state, symbol) == automaton.cells[state][symbol]
Coded(cell, code) == SelectSeq(cell, LAMBDA a : a.code = code)
Prod(p) == automaton.prods[p]

\* get_next_by_var
NextByVar(state, head) == Coded(Cell(state, head), "SHIFT")
-----------------------------------------------------------------------------
(***************************************************************************)
(* The graph-structured stack.  An edge goes from a node of a generation   *)
(* to a node of the same or of an earlier one.                             *)
(***************************************************************************)
Generation(gen) == {n \in DOMAIN nodes : nodes[n].generation = gen}

\* find_node, get_edge: at most one each, as a sequence
FindNode(gen, state) ==
    SelectSeq([n \in DOMAIN nodes |-> n],
              LAMBDA n : nodes[n].generation = gen /\ nodes[n].state = state)
EdgesBetween(from, to) == SelectSeq(edges, LAMBDA e : e.from = from /\ e.to = to)

EdgesFrom(node) == SelectSeq(edges, LAMBDA e : e.from = node)
Extended(path, edge) == [last |-> edge.to, labels |-> Append(path.labels, edge.label)]

\* A hop of get_paths: every path goes on along the first edge of its last node;
\* those along the other edges come after them all
Hop(found) ==
    LET out(k) == EdgesFrom(found[k].last)
    IN FlattenSeq([k \in DOMAIN found |->
            IF out(k) = <<>> THEN <<>> ELSE <<Extended(found[k], out(k)[1])>>])
       \o FlattenSeq([k \in DOMAIN found |->
            [n \in 1 .. Len(out(k)) - 1 |-> Extended(found[k], out(k)[n + 1])]])

Paths(from, length) ==
    LET after[n \in 0 .. length] ==
            IF n = 0 THEN <<[last |-> from, labels |-> <<>>]>> ELSE Hop(after[n - 1])
    IN after[length]
-----------------------------------------------------------------------------
(***************************************************************************)
(* The queues.                                                             *)
(***************************************************************************)
ShiftsAt(node, state, token) ==
    LET found == Coded(Cell(state, token), "SHIFT")
    IN [k \in DOMAIN found |-> [from |-> node, to |-> found[k].data]]

\* The reductions of length 0 are from the node itself, the others from the
\* second node of their paths, after the edge that has just been added
ReductionsAt(node, second, edgeLabel, state, token) ==
    LET found == Coded(Cell(state, token), "REDUCE")
    IN [k \in DOMAIN found |->
            IF Prod(found[k].data).length = 0
            THEN [node |-> node, prod |-> found[k].data, first |-> None]
            ELSE [node |-> second, prod |-> found[k].data, first |-> edgeLabel]]

\* Fault: the reductions that an edge more allows are forgotten
NewReductions_None(second, edgeLabel, state, token) == <<>>

\* Of a node that was there, only the reductions along the new edge
NewReductions(second, edgeLabel, state, token) ==
    SelectSeq(ReductionsAt(0, second, edgeLabel, state, token),
              LAMBDA r : Prod(r.prod).length > 0)

AddNode(state) == nodes' = Append(nodes, [state |-> state, generation |-> generation])
AddEdge(from, to, edgeLabel) ==
    edges' = Append(edges, [from |-> from, to |-> to, label |-> edgeLabel])

\* An edge to a node, from a node of the current generation for the state, which
\* is created if it is not there.  The actions are those on the next token.  When
\* renew is false, an edge more brings no reduction.
Connect(state, to, edgeLabel, renew) ==
    LET found == FindNode(generation, state)
    IN IF found # <<>>
       THEN /\ AddEdge(found[1], to, edgeLabel)
            /\ reductions' = reductions \o
                    IF renew THEN NewReductions(to, edgeLabel, state, lookahead) ELSE <<>>
            /\ UNCHANGED <<nodes, shifts>>
       ELSE LET new == Len(nodes) + 1
            IN /\ AddNode(state)
               /\ AddEdge(new, to, edgeLabel)
               /\ shifts' = shifts \o ShiftsAt(new, state, lookahead)
               /\ reductions' = reductions
                                \o ReductionsAt(new, to, edgeLabel, state, lookahead)
-----------------------------------------------------------------------------
Init ==
    /\ automaton \in Automata
    /\ tokens = <<>>
    /\ lookahead = Epsilon
    /\ status = "nullables"
    /\ variable = 1
    /\ resolved = {}
    /\ nullables = [v \in DOMAIN automaton.empty |-> NoPlace]
    /\ nodes = <<>>
    /\ edges = <<>>
    /\ generation = 0
    /\ stem = 0
    /\ shifts = <<>>
    /\ pending = 0
    /\ label = None
    /\ reductions = <<>>
    /\ paths = <<>>
    /\ current = None
    /\ forest = EmptyForest
    /\ root = NoPlace
    /\ expected = {}

\* build_nullables_dependencies
DependenciesOf(v) ==
    LET ops == Prod(automaton.empty[v]).ops
    IN {ops[k].symbol : k \in {n \in DOMAIN ops : ops[n].op = "NULLABLE"}}

Unresolved == {v \in DOMAIN nullables : automaton.empty[v] # 0 /\ nullables[v] = NoPlace}

\* build_nullables, on one variable
BuildNullable ==
    /\ status = "nullables"
    /\ variable \in DOMAIN automaton.variables
    /\ LET v == automaton.variables[variable]
       IN IF v \in Unresolved /\ DependenciesOf(v) \cap Unresolved = {}
          THEN LET built == BuildSppf(forest, Prod(automaton.empty[v]), <<>>, nullables, <<>>)
               IN /\ nullables' = [nullables EXCEPT ![v] = built.target[1].id]
                  /\ forest' = built.forest
                  /\ resolved' = resolved \cup {v}
          ELSE UNCHANGED <<nullables, forest, resolved>>
    /\ variable' = variable + 1
    /\ UNCHANGED <<automaton, tokens, lookahead, status, gssVars, queueVars, root, expected>>

\* The end of a pass; a cycle stops the program
EndNullables ==
    /\ status = "nullables"
    /\ variable = Len(automaton.variables) + 1
    /\ status' = IF Unresolved = {} THEN "start"
                 ELSE IF resolved = {} THEN "panic" ELSE "nullables"
    /\ variable' = 1
    /\ resolved' = {}
    /\ UNCHANGED <<automaton, tokens, lookahead, nullables, gssVars, queueVars, forest,
                   root, expected>>

\* get_next_token: the tokens end with Dollar
Lex ==
    IF tokens # <<>> /\ tokens[Len(tokens)] = Dollar
    THEN lookahead' = Epsilon /\ UNCHANGED tokens
    ELSE \E t \in automaton.terminals :
            /\ t # Dollar => Len(tokens) < MaxTokens
            /\ tokens' = Append(tokens, t)
            /\ lookahead' = t

\* parse, up to its loop
Start ==
    /\ status = "start"
    /\ generation' = 1
    /\ nodes' = <<[state |-> 1, generation |-> 1]>>
    /\ stem' = 1
    /\ Lex
    /\ shifts' = ShiftsAt(1, 1, lookahead')
    /\ reductions' = ReductionsAt(1, 1, None, 1, lookahead')
    /\ status' = "reduce"
    /\ UNCHANGED <<automaton, builderVars, edges, pending, label, paths, current, forest,
                   root, expected>>

\* parse_reduction: the paths are all found before any is followed
TakeReduction ==
    /\ status = "reduce"
    /\ paths = <<>>
    /\ reductions # <<>>
    /\ current' = Head(reductions)
    /\ reductions' = Tail(reductions)
    /\ paths' = LET length == Prod(current'.prod).length
                IN Paths(current'.node, IF length = 0 THEN 0 ELSE length - 1)
    /\ UNCHANGED <<automaton, tokens, lookahead, status, builderVars, gssVars, shifts,
                   pending, label, forest, root, expected>>

\* reduction_prepare: the labels from the start of the body, the first one last
BodyStack(path) ==
    IF current.first = None THEN <<>>
    ELSE LET all == Reverse(path.labels) \o <<current.first>>
         IN [k \in DOMAIN all |-> all[k].ref]

\* What was found before for the same symbol at the same place gets a version more
TargetOf(previous) == IF previous = <<>> THEN <<>> ELSE <<previous[1].label.ref>>

\* parse_reduction_path: what stands for the head of the reduction under way
HeadBuilt(path, previous) ==
    LET prod == Prod(current.prod)
    IN IF automaton.empty[prod.head] = current.prod
       THEN [forest |-> forest, target |-> <<NodeRef(nullables[prod.head])>>]
       ELSE BuildSppf(forest, prod, BodyStack(path), nullables, TargetOf(previous))

\* Fault: the reductions along an edge are queued again each time it is found
Link_Again(previous, to, below, edgeLabel, renew) ==
    IF previous = <<>> THEN Connect(to, below, edgeLabel, renew)
    ELSE /\ reductions' = reductions \o NewReductions(below, edgeLabel, to, lookahead)
         /\ UNCHANGED <<nodes, edges, shifts>>

\* An edge is added once: what is found again is in the forest only
Link(previous, to, below, edgeLabel, renew) ==
    IF previous = <<>> THEN Connect(to, below, edgeLabel, renew)
    ELSE UNCHANGED <<nodes, edges, shifts, reductions>>

\* parse_reduction_path
ReducePath ==
    /\ status = "reduce"
    /\ paths # <<>>
    /\ LET path == Head(paths)
           prod == Prod(current.prod)
           to == NextByVar(nodes[path.last].state, prod.head)[1].data
           found == FindNode(generation, to)
           previous == IF found = <<>> THEN <<>> ELSE EdgesBetween(found[1], path.last)
           built == HeadBuilt(path, previous)
       IN /\ forest' = built.forest
          /\ Link(previous, to, path.last, [ref |-> built.target[1], symbol |-> prod.head],
                  prod.length # 0)
    /\ paths' = Tail(paths)
    /\ UNCHANGED <<automaton, tokens, lookahead, status, builderVars, generation, stem,
                   pending, label, current, root, expected>>

Reduced == status = "reduce" /\ paths = <<>> /\ reductions = <<>>

\* The next token is read before the shifts of this one: parse, then parse_shifts
Advance ==
    /\ Reduced
    /\ shifts # <<>>
    /\ Lex
    /\ LET grown == WithNode(forest, <<[label |-> <<"Token", Len(tokens)>>, kids |-> <<>>]>>)
       IN /\ forest' = grown
          /\ label' = [ref |-> LastNode(grown), symbol |-> lookahead]
    /\ generation' = generation + 1
    /\ pending' = Len(shifts)
    /\ status' = "shift"
    /\ UNCHANGED <<automaton, builderVars, nodes, edges, stem, shifts, reductions, paths,
                   current, root, expected>>

\* parse_shift
Shift ==
    /\ status = "shift"
    /\ pending > 0
    /\ LET shift == Head(shifts)
           found == FindNode(generation, shift.to)
       IN IF found # <<>>
          THEN /\ AddEdge(found[1], shift.from, label)
               /\ reductions' = reductions
                                \o NewReductions(shift.from, label, shift.to, lookahead)
               /\ shifts' = Tail(shifts)
               /\ UNCHANGED nodes
          ELSE LET new == Len(nodes) + 1
               IN /\ AddNode(shift.to)
                  /\ AddEdge(new, shift.from, label)
                  /\ shifts' = Tail(shifts) \o ShiftsAt(new, shift.to, lookahead)
                  /\ reductions' = reductions
                        \o ReductionsAt(new, shift.from, label, shift.to, lookahead)
    /\ pending' = pending - 1
    /\ UNCHANGED <<automaton, tokens, lookahead, status, builderVars, generation, stem,
                   label, paths, current, forest, root, expected>>

\* The end of parse: every node for an accepting state commits a root
Roots == {n \in Generation(generation) : nodes[n].state \in automaton.accepting}

EndOfShifts ==
    /\ status = "shift"
    /\ pending = 0
    /\ stem' = Cardinality(Generation(generation))
    /\ IF lookahead # Epsilon THEN status' = "reduce" /\ UNCHANGED root
       ELSE /\ root' = IF Roots = {} THEN NoPlace
                       ELSE LET n == CHOOSE n \in Roots : \A m \in Roots : m <= n
                            IN Paths(n, 2)[1].labels[2].ref.id
            /\ status' = IF Roots = {} THEN "unfinished" ELSE "accepted"
    /\ UNCHANGED <<automaton, tokens, lookahead, builderVars, nodes, edges, generation,
                   queueVars, forest, expected>>
-----------------------------------------------------------------------------
(***************************************************************************)
(* The error on an unexpected token.  Whether a terminal for which there   *)
(* is a reduction is expected is found by reducing on virtual stacks       *)
(* [node, states], the states above a node of the GSS, in a queue.         *)
(***************************************************************************)
\* Bound of the model on the virtual stacks that are looked at
MaxChecks == 40

Goto(state, head) ==
    LET found == NextByVar(state, head) IN IF found = <<>> THEN NoPlace ELSE found[1].data
TopOf(virtual) == virtual.states[Len(virtual.states)]

\* The virtual stacks after a reduction that goes down to the GSS
Landings(node, length, head) ==
    LET found == Paths(node, length)
    IN [k \in DOMAIN found |-> [node |-> found[k].last,
                                states |-> <<Goto(nodes[found[k].last].state, head)>>]]

\* check_is_expected: the virtual stacks after a reduction.  When some of the
\* virtual states are left, the transition on the head is taken, here as in the
\* code, from the state on top before the reduction and not from the one uncovered.
AfterReduction(virtual, prod) ==
    LET size == Len(virtual.states)
        next == Goto(TopOf(virtual), prod.head)
    IN IF prod.length = 0 THEN <<[virtual EXCEPT !.states = Append(@, next)]>>
       ELSE IF prod.length < size
       THEN <<[virtual EXCEPT !.states = Append(SubSeq(@, 1, size - prod.length), next)]>>
       ELSE Landings(virtual.node, prod.length - size, prod.head)

ReducedBy(cell) == LET found == Coded(cell, "REDUCE")
                   IN [k \in DOMAIN found |-> Prod(found[k].data)]

Enqueued(check, virtuals) ==
    IF \E k \in DOMAIN virtuals : TopOf(virtuals[k]) = NoPlace
    THEN [check EXCEPT !.answer = "panic"]
    ELSE [check EXCEPT !.queue = @ \o virtuals]

FirstReductions(node, terminal) ==
    LET prods == ReducedBy(Cell(nodes[node].state, terminal))
    IN Enqueued([queue |-> <<>>, answer |-> "open"],
                FlattenSeq([k \in DOMAIN prods |->
                                Landings(node, prods[k].length, prods[k].head)]))

\* One turn of the loop
Look(check, terminal) ==
    IF check.answer # "open" THEN check
    ELSE IF check.queue = <<>> THEN [check EXCEPT !.answer = "no"]
    ELSE LET virtual == Head(check.queue)
             cell == Cell(TopOf(virtual), terminal)
             prods == ReducedBy(cell)
         IN IF Coded(cell, "SHIFT") # <<>> THEN [check EXCEPT !.answer = "yes"]
            ELSE Enqueued([check EXCEPT !.queue = Tail(@)],
                          FlattenSeq([k \in DOMAIN prods |-> AfterReduction(virtual, prods[k])]))

\* check_is_expected: "yes", "no", "panic", or "open" when the bound is reached
CheckIsExpected(node, terminal) ==
    LET after[n \in 0 .. MaxChecks] ==
            IF n = 0 THEN FirstReductions(node, terminal) ELSE Look(after[n - 1], terminal)
    IN after[MaxChecks].answer

\* The nodes of the generation that have an action of a kind on a terminal
HeadsWith(code, terminal) ==
    {n \in Generation(generation) : Coded(Cell(nodes[n].state, terminal), code) # <<>>}
Stem == {n \in Generation(generation) :
            Cardinality({m \in Generation(generation) : m < n}) < stem}

\* build_error: a terminal is not checked again once it is known to be expected
Answers(terminal) ==
    LET shifting == HeadsWith("SHIFT", terminal)
        reducing == HeadsWith("REDUCE", terminal) \cap Stem
        asked == {n \in reducing : \A m \in shifting : m > n}
    IN {CheckIsExpected(n, terminal) :
            n \in {n \in asked : \A m \in asked : m < n => CheckIsExpected(m, terminal) # "yes"}}

\* No shift is left: parse() reports the token and stops.  A check that panics, or
\* that does not end, stops it there.
Reject ==
    /\ Reduced
    /\ shifts = <<>>
    /\ LET answers == [t \in automaton.terminals |-> Answers(t)]
           all == UNION {answers[t] : t \in automaton.terminals}
       IN /\ status' = IF "panic" \in all THEN "panic"
                       ELSE IF "open" \in all THEN "hangs" ELSE "error"
          /\ expected' = {t \in automaton.terminals :
                            HeadsWith("SHIFT", t) # {} \/ "yes" \in answers[t]}
    /\ UNCHANGED <<automaton, tokens, lookahead, builderVars, gssVars, queueVars, forest, root>>
-----------------------------------------------------------------------------
(***************************************************************************)
(* get_context_priority: the lexer asks how near a context is before it     *)
(* reads a token, when the shifts of the last one are in the queue and not *)
(* done yet.  A priority is a set of at most one number, the lesser the    *)
(* better; it has none if the context is not available.                    *)
(***************************************************************************)
DefaultContext == 0
LeastPriority == 1000       \* usize::MAX: no stack of the model is as high
Unavailable == {}
NoAnswer == {-1}            \* the program panics, or does not end

\* LRContexts::opens
Opens(state, symbol, context) == <<symbol, context>> \in automaton.opens[state]

OpensByShift(state, terminal, context) ==
    Coded(Cell(state, terminal), "SHIFT") # <<>> /\ Opens(state, terminal, context)

\* The last token opened the context, and an action on the terminal leaves it open
OpenedByLast(terminal, context) ==
    \E k \in DOMAIN shifts :
        /\ Opens(nodes[shifts[k].from].state, lookahead, context)
        /\ \E a \in ToSet(Cell(shifts[k].to, terminal)) :
                a.code = "SHIFT" \/ Prod(a.data).length = 0

\* The tracks [node, length, distance] followed down the GSS: for the actions on the
\* terminal, how many symbols they reduce.  A node is on one track only.
Track(tracks, track) ==
    IF \E k \in DOMAIN tracks : tracks[k].node = track.node THEN tracks ELSE Append(tracks, track)

FirstTracks(terminal) ==
    LET after(shift) ==
            LET cell == Cell(shift.to, terminal)
            IN [n \in DOMAIN cell |->
                    [node |-> shift.from, distance |-> 2,
                     length |-> IF cell[n].code = "SHIFT" THEN 0 ELSE Prod(cell[n].data).length]]
    IN FoldLeft(Track, <<>>, FlattenSeq([k \in DOMAIN shifts |-> after(shifts[k])]))

TracksBelow(tracks, n) ==
    IF n > Len(tracks) THEN tracks
    ELSE LET below == EdgesFrom(tracks[n].node)
         IN FoldLeft(Track, tracks, [k \in DOMAIN below |->
                [tracks[n] EXCEPT !.node = below[k].to, !.distance = @ + 1]])

Tracks(terminal) ==
    LET after[n \in 0 .. Len(nodes)] ==
            IF n = 0 THEN FirstTracks(terminal) ELSE TracksBelow(after[n - 1], n)
    IN after[Len(nodes)]

\* Fault: a context that the reduction closes is still open
IsLeftOpen_Always(track) == TRUE

IsLeftOpen(track) == track.length < track.distance

Distances(terminal, context) ==
    {track.distance : track \in {t \in ToSet(Tracks(terminal)) : IsLeftOpen(t) /\
        \E e \in ToSet(EdgesFrom(t.node)) : Opens(nodes[e.to].state, e.label.symbol, context)}}

\* A turn of the loop that closes the virtual stacks under the reductions on the
\* terminal; none of them is taken out
CloseAt(check, n, terminal) ==
    IF check.answer # "open" THEN check
    ELSE IF n > Len(check.queue) THEN [check EXCEPT !.answer = "closed"]
    ELSE LET virtual == check.queue[n]
             prods == ReducedBy(Cell(TopOf(virtual), terminal))
         IN Enqueued(check, FlattenSeq([k \in DOMAIN prods |-> AfterReduction(virtual, prods[k])]))

ClosedVirtuals(terminal) ==
    LET start == SelectSeq(shifts, LAMBDA s : Cell(s.to, terminal) # <<>>)
        after[n \in 0 .. MaxChecks] ==
            IF n = 0 THEN [queue |-> [k \in DOMAIN start |->
                                        [node |-> start[k].from, states |-> <<start[k].to>>]],
                           answer |-> "open"]
            ELSE CloseAt(after[n - 1], n, terminal)
    IN after[MaxChecks]

\* Whether a shift opens the context after the reductions on the terminal
OpenedAfterReductions(terminal, context) ==
    LET virtuals == ClosedVirtuals(terminal)
    IN IF virtuals.answer # "closed" THEN NoAnswer
       ELSE IF \E v \in ToSet(virtuals.queue) : OpensByShift(TopOf(v), terminal, context) THEN {0}
       ELSE Unavailable

ContextPriority(context, terminal) ==
    IF context = DefaultContext THEN {LeastPriority}
    ELSE IF tokens = <<>> THEN (IF Opens(1, terminal, context) THEN {0} ELSE Unavailable)
    ELSE IF \E k \in DOMAIN shifts : OpensByShift(shifts[k].to, terminal, context) THEN {0}
    ELSE IF OpenedByLast(terminal, context) THEN {1}
    ELSE IF FirstTracks(terminal) = <<>> THEN Unavailable
    ELSE IF Distances(terminal, context) # {} THEN {Min(Distances(terminal, context))}
    ELSE OpenedAfterReductions(terminal, context)

Ends == status \in {"accepted", "unfinished", "error", "panic", "hangs"}
Returned == Ends /\ UNCHANGED vars

Next ==
    \/ BuildNullable
    \/ EndNullables
    \/ Start
    \/ TakeReduction
    \/ ReducePath
    \/ Advance
    \/ Shift
    \/ EndOfShifts
    \/ Reject
    \/ Returned

\* A sequential program: it goes on until it returns.  As there is no deadlock
\* before, this is weak fairness in a form that does not compute the next state again
Spec == Init /\ [][Next]_vars /\ ([]<>Ends \/ []<><<TRUE>>_vars)
=============================================================================
