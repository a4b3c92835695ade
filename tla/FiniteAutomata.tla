--------------------------- MODULE FiniteAutomata ---------------------------
(***************************************************************************)
(* The finite automata of the SDK (sdk-rust/src/finite.rs): the building   *)
(* of NFAs, and their translation into minimal DFAs; the table of a lexer, *)
(* how the SDK writes it (sdk-rust/src/output/lexer_data.rs) and how the   *)
(* runtime reads it (runtime-rust/src/lexers/automaton.rs).                *)
(*                                                                         *)
(* An automaton is a graph: its states are 1 .. size, its edges a set of   *)
(* <<from, span, to>> and its finals a set of <<state, item>>; an NFA has  *)
(* an entry, an exit and a set of marks <<state, mark>>; a DFA begins at   *)
(* the state 1.  An item is the number of the terminal to recognise: of    *)
(* those of a state, the greatest goes first (FinalItem::cmp).             *)
(*                                                                         *)
(* The table holds the blocks of the states by their offset, in u16.  A    *)
(* block keeps the transitions on the units 0 .. 255 in a cache, and the   *)
(* others as a list of spans.  A terminal of the table is what the DFA     *)
(* calls an item; the code has its index in the list of the expected ones. *)
(***************************************************************************)
EXTENDS Texts
LOCAL INSTANCE SequencesExt
LOCAL INSTANCE FiniteSetsExt

Dummy == 0                             \* FinalItem::Dummy

-----------------------------------------------------------------------------
(* The NFAs *)

\* NFA::new_minimal
Minimal == [size |-> 2, entry |-> 1, exit |-> 2, edges |-> {}, finals |-> {}, marks |-> {}]

\* NFA::add_transition, for each edge of a set
Linked(nfa, edges) == [nfa EXCEPT !.edges = @ \cup edges]
Free(from, to) == <<from, EPSILON, to>>

\* NFA::add_entry_exit
AddEntryExit(nfa) ==
    [nfa EXCEPT !.size = @ + 2, !.entry = nfa.size + 1, !.exit = nfa.size + 2]

\* NFA::insert_sub_nfa: the states of another automaton come after
InsertSub(nfa, other) ==
    LET offset == nfa.size
    IN [nfa EXCEPT !.size = @ + other.size,
                   !.edges = @ \cup {<<e[1] + offset, e[2], e[3] + offset>> : e \in other.edges},
                   !.finals = @ \cup {<<f[1] + offset, f[2]>> : f \in other.finals},
                   !.marks = @ \cup {<<m[1] + offset, m[2]>> : m \in other.marks}]

SubEntry(nfa, other) == nfa.size + other.entry
SubExit(nfa, other) == nfa.size + other.exit

\* NFA::clone_no_finals
WithoutFinals(nfa) == [nfa EXCEPT !.finals = {}, !.marks = {}]

\* NFA::into_optional
Optional(sub) ==
    LET r == AddEntryExit(sub)
    IN Linked(r, {Free(r.entry, sub.entry), Free(r.entry, r.exit), Free(sub.exit, r.exit)})

\* NFA::into_zero_or_more
ZeroOrMore(sub) ==
    LET r == AddEntryExit(sub)
    IN Linked(r, {Free(r.entry, sub.entry), Free(r.entry, r.exit), Free(sub.exit, r.exit),
                  Free(r.exit, sub.entry)})

\* NFA::into_one_or_more
OneOrMore(sub) ==
    LET r == AddEntryExit(sub)
    IN Linked(r, {Free(r.entry, sub.entry), Free(sub.exit, r.exit), Free(r.exit, sub.entry)})

\* NFA::into_union_with
Union(left, right) ==
    LET r == AddEntryExit(InsertSub(left, right))
    IN Linked(r, {Free(r.entry, left.entry), Free(r.entry, SubEntry(left, right)),
                  Free(left.exit, r.exit), Free(SubExit(left, right), r.exit)})

\* NFA::into_concatenation
Concatenation(left, right) ==
    LET r == AddEntryExit(InsertSub(left, right))
    IN Linked(r, {Free(r.entry, left.entry), Free(left.exit, SubEntry(left, right)),
                  Free(SubExit(left, right), r.exit)})

\* NFA::into_repeat_range: one more copy, after the state `last`
Repeated(acc, sub) ==
    [nfa |-> Linked(InsertSub(acc.nfa, sub), {Free(acc.last, SubEntry(acc.nfa, sub))}),
     last |-> SubExit(acc.nfa, sub)]

\* NFA::into_repeat_range: min copies, then optional ones up to max; the exit
\* is reached from the entry if min is 0
RepeatRange(sub, min, max) ==
    LET copies == [k \in 1 .. (IF max < min THEN min ELSE max) |->
                      IF k <= min THEN sub ELSE Optional(sub)]
        all == FoldLeft(Repeated, [nfa |-> Minimal, last |-> 1], copies)
    IN Linked(all.nfa, {Free(all.last, all.nfa.exit)}
                       \cup (IF min = 0 THEN {Free(all.nfa.entry, all.nfa.exit)} ELSE {}))

-----------------------------------------------------------------------------
(* Sets of states of an NFA *)

From(automaton, set) == {e \in automaton.edges : e[1] \in set}
EpsilonTargets(nfa, set) == {e[3] : e \in {x \in From(nfa, set) : x[2] = EPSILON}}
Reading(nfa, set) == {e \in From(nfa, set) : e[2] # EPSILON}

\* NFAStateSet::close_normal
RECURSIVE CloseNormal(_, _)
CloseNormal(nfa, set) ==
    LET more == set \cup EpsilonTargets(nfa, set)
    IN IF more = set THEN set ELSE CloseNormal(nfa, more)

\* NFAStateSet::close_with_marks: where a word is recognised on both sides of a
\* difference, the exit that the positive side leads to is removed
CloseWithMarks(nfa, set) ==
    LET all == CloseNormal(nfa, set)
        marked(m) == {s \in all : <<s, m>> \in nfa.marks}
    IN IF marked(1) # {} /\ marked(-1) # {} THEN all \ EpsilonTargets(nfa, marked(1)) ELSE all

\* Spans, given where the first of them begin and the values they end before
Between(begins, ends) == {Span(b, Min({e \in ends : b <= e})) : b \in begins}

\* NFAState::normalize: the pieces of a span, cut before each value where one of
\* the spans begins and after each one where one ends
Pieces(span, spans) ==
    LET cuts == {c \in {v.begin : v \in spans} \cup {v.end + 1 : v \in spans} :
                    span.begin < c /\ c <= span.end}
    IN Between({span.begin} \cup cuts, {span.end} \cup {c - 1 : c \in cuts})

\* NFAStateSet::normalize: no span of the set overlaps another
Normalized(nfa, set) ==
    LET read == Reading(nfa, set)
        spans == {e[2] : e \in read}
    IN [nfa EXCEPT !.edges = (@ \ read) \cup
           UNION {{<<e[1], piece, e[3]>> : piece \in Pieces(e[2], spans)} : e \in read}]

\* NFAStateSet::get_transitions
ChildSet(nfa, set, span) ==
    CloseWithMarks(nfa, {e[3] : e \in {x \in From(nfa, set) : x[2] = span}})

-----------------------------------------------------------------------------
(* The DFAs *)

\* DFA::from_nfa: the sets of states in the order they are met, and the DFA
\* they are the states of, with one transition more from the set number i
WithChildSet(work, i, span) ==
    LET child == ChildSet(work.nfa, work.sets[i], span)
        known == {k \in DOMAIN work.sets : work.sets[k] = child}
        next == IF known = {} THEN Len(work.sets) + 1 ELSE CHOOSE k \in known : TRUE
    IN [work EXCEPT !.sets = IF known = {} THEN Append(@, child) ELSE @,
                    !.edges = @ \cup {<<i, span, next>>}]

\* DFA::from_nfa, from the set number i on
RECURSIVE FromSet(_, _)
FromSet(work, i) ==
    IF i > Len(work.sets)
    THEN [size |-> Len(work.sets), edges |-> work.edges, finals |-> work.finals]
    ELSE LET set == work.sets[i]
             nfa == Normalized(work.nfa, set)
             spans == InOrder({e[2] : e \in Reading(nfa, set)},
                              LAMBDA a, b : a.begin < b.begin)
             items == {<<i, f[2]>> : f \in {x \in nfa.finals : x[1] \in set}}
         IN FromSet(FoldLeft(LAMBDA w, span : WithChildSet(w, i, span),
                             [work EXCEPT !.nfa = nfa, !.finals = @ \cup items], spans),
                    i + 1)

FromNfa(nfa) ==
    FromSet([nfa |-> nfa, sets |-> <<CloseWithMarks(nfa, {nfa.entry})>>, edges |-> {},
             finals |-> {}], 1)

ItemsOf(dfa, s) == {f[2] : f \in {x \in dfa.finals : x[1] = s}}

RECURSIVE ReachedFrom(_, _)
ReachedFrom(dfa, set) ==
    LET more == set \cup {e[3] : e \in From(dfa, set)}
    IN IF more = set THEN set ELSE ReachedFrom(dfa, more)

\* DFAInverse::close_by_antecedents, of the final states
LiveStates(dfa) ==
    {s \in ReachedFrom(dfa, {1}) : \E t \in ReachedFrom(dfa, {s}) : ItemsOf(dfa, t) # {}}

\* The automaton of some states, under new numbers
Renumbered(dfa, size, number(_), edges, finals) ==
    [size |-> size, edges |-> {<<number(e[1]), e[2], number(e[3])>> : e \in edges},
     finals |-> {<<number(f[1]), f[2]>> : f \in finals}]

\* DFA::prune: the states that lead to a final one
Pruned(dfa) ==
    LET kept == LiveStates(dfa)
    IN Renumbered(dfa, Cardinality(kept), LAMBDA s : Cardinality({k \in kept : k <= s}),
                  {e \in dfa.edges : e[1] \in kept /\ e[3] \in kept},
                  {f \in dfa.finals : f[1] \in kept})

\* NFA::into_difference.  The DFA of two languages whose difference is empty has
\* no state: the new exit is then the entry as well
Difference(left, right) ==
    LET joined == AddEntryExit(InsertSub(left, right))
        positive == joined.size + 1
        negative == joined.size + 2
        marked == [joined EXCEPT !.size = @ + 2, !.marks = @ \cup {<<positive, 1>>, <<negative, -1>>},
                                 !.finals = @ \cup {<<joined.exit, Dummy>>}]
        dfa == Pruned(FromNfa(Linked(marked,
                    {Free(joined.entry, left.entry), Free(joined.entry, SubEntry(left, right)),
                     Free(left.exit, positive), Free(SubExit(left, right), negative),
                     Free(positive, joined.exit)})))
        exit == dfa.size + 1
    IN [size |-> exit, entry |-> 1, exit |-> exit, marks |-> {}, finals |-> {},
        edges |-> dfa.edges \cup {Free(f[1], exit) : f \in dfa.finals}]

-----------------------------------------------------------------------------
(* The minimal DFA.  A partition is a set of sets of states                  *)

GroupOf(partition, s) == CHOOSE g \in partition : s \in g

\* Fault: the targets of the transitions are not compared
Steps_Spans(dfa, partition, s) == {e[2] : e \in From(dfa, {s})}

\* DFAPartition::in_same_group: what the states of a group have in common
Steps(dfa, partition, s) == {<<e[2], GroupOf(partition, e[3])>> : e \in From(dfa, {s})}

\* DFAPartition::from_dfa
FirstPartition(dfa) ==
    {{t \in 1 .. dfa.size : ItemsOf(dfa, t) = ItemsOf(dfa, s)} : s \in 1 .. dfa.size}

\* DFAPartition::refine
Refined(dfa, partition) ==
    LET steps == [s \in 1 .. dfa.size |-> Steps(dfa, partition, s)]
    IN UNION {{{t \in group : steps[t] = steps[s]} : s \in group} : group \in partition}

RECURSIVE Stable(_, _)
Stable(dfa, partition) ==
    LET finer == Refined(dfa, partition)
    IN IF Cardinality(finer) = Cardinality(partition) THEN partition ELSE Stable(dfa, finer)

\* DFA::minimize, DFAPartition::into_dfa_states.  The state 1 is in the first
\* group; the other groups are numbered by their first state
Minimized(dfa) ==
    LET partition == Stable(dfa, FirstPartition(dfa))
        firsts == {Min(g) : g \in partition}
        number(s) == Cardinality({f \in firsts : f <= Min(GroupOf(partition, s))})
    IN Renumbered(dfa, Cardinality(firsts), number, From(dfa, firsts),
                  {f \in dfa.finals : f[1] \in firsts})

\* DFAState::repack_transitions: the spans to the same state that touch are one
Merged(spans) ==
    Between({v.begin : v \in {x \in spans : \A y \in spans : ~ Covers(y, x.begin - 1)}},
            {v.end : v \in {x \in spans : \A y \in spans : ~ Covers(y, x.end + 1)}})

Repacked(dfa) ==
    LET spans(s, t) == {e[2] : e \in {x \in dfa.edges : x[1] = s /\ x[3] = t}}
    IN [dfa EXCEPT !.edges = UNION {{<<p[1], span, p[2]>> : span \in Merged(spans(p[1], p[2]))} :
                                    p \in {<<e[1], e[3]>> : e \in dfa.edges}}]

\* Grammar::build_dfa: one automaton for all the terminals
WholeNfa(nfas) ==
    FoldLeft(LAMBDA all, nfa : Linked(InsertSub(all, nfa), {Free(1, SubEntry(all, nfa))}),
             Minimal, nfas)

BuiltDfa(nfas) == Pruned(Repacked(Minimized(FromNfa(WholeNfa(nfas)))))

-----------------------------------------------------------------------------
(* What a DFA recognises, given the contexts of the terminals *)

\* The first item of each context
FirstOfContexts(items, contextOf) ==
    {i \in items : \A j \in items : contextOf[j] = contextOf[i] => j <= i}

\* DFA::get_expected, but for epsilon and $
ExpectedTerminals(dfa, contextOf) ==
    UNION {FirstOfContexts(ItemsOf(dfa, s), contextOf) : s \in 1 .. dfa.size}

\* DFA::get_overriders
Overriders(dfa, terminal, contextOf) ==
    {i \in UNION {ItemsOf(dfa, s) : s \in {x \in 1 .. dfa.size : terminal \in ItemsOf(dfa, x)}} :
        i > terminal /\ contextOf[i] = contextOf[terminal]}
-----------------------------------------------------------------------------
(* Writing the table *)

LastCached == 255
DEAD_STATE == 0                        \* 0xFFFF, where the first state is 0

\* write_lexer_data_state: a terminal for each context, in the order of the items
MatchesOf(items, contextOf) ==
    LET first == FirstOfContexts(items, contextOf)
        order == InOrder(first, LAMBDA i, j : i > j)
    IN [k \in DOMAIN order |-> [context |-> contextOf[order[k]], terminal |-> order[k]]]

\* write_lexer_data_state: the transitions that are cached, wholly or in part,
\* and the rest of them
Cached(edges) ==
    {<<Span(e[2].begin, Min({e[2].end, LastCached})), e[3]>> :
        e \in {x \in edges : x[2].begin <= LastCached}}

Slow(edges) ==
    {<<Span(Max({e[2].begin, LastCached + 1}), e[2].end), e[3]>> :
        e \in {x \in edges : x[2].end > LastCached}}

Block(dfa, contextOf, s) ==
    LET edges == From(dfa, {s})
    IN [matches |-> MatchesOf(ItemsOf(dfa, s), contextOf), cache |-> Cached(edges),
        bulk |-> InOrder(Slow(edges), LAMBDA a, b : a[1].begin < b[1].begin),
        transitions |-> Cardinality(Cached(edges)) + Cardinality(Slow(edges))]

\* The size of a block as it is written
Size(block) == 3 + 2 * Len(block.matches) + 256 + 3 * Len(block.bulk)

\* The size that write_lexer_data counts for the block of a state
CountedSize(dfa, contextOf, s) ==
    3 + 256 + 2 * Cardinality({contextOf[i] : i \in ItemsOf(dfa, s)})
        + 3 * Cardinality({e \in From(dfa, {s}) : e[2].end > LastCached})

SumTo(n, size(_)) == LET sum[k \in 0 .. n] == IF k = 0 THEN 0 ELSE sum[k - 1] + size(k) IN sum[n]

\* write_lexer_data
Written(dfa, contextOf) ==
    LET block(s) == Block(dfa, contextOf, s)
        position(s) == SumTo(s - 1, LAMBDA k : Size(block(k)))
    IN [offsets |-> [s \in 1 .. dfa.size |-> SumTo(s - 1, LAMBDA k : CountedSize(dfa, contextOf, k))],
        blocks |-> {<<position(s), block(s)>> : s \in 1 .. dfa.size}]

-----------------------------------------------------------------------------
(* Reading the table *)

\* Automaton::get_state
StateAt(table, s) == (CHOOSE b \in table.blocks : b[1] = table.offsets[s])[2]

\* AutomatonState::is_dead_end
IsDeadEnd(state) == state.transitions = 0
IsMatching(state) == state.matches # <<>>

\* AutomatonState::get_target_by
TargetBy(state, unit) ==
    LET known == IF unit <= LastCached THEN {e \in state.cache : Covers(e[1], unit)}
                 ELSE {state.bulk[k] : k \in {x \in DOMAIN state.bulk : Covers(state.bulk[x][1], unit)}}
    IN IF known = {} THEN DEAD_STATE ELSE (CHOOSE e \in known : TRUE)[2]

\* The targets of a state in the order the cache and the list are read in
TargetsOf(state) ==
    LET cached == InOrder(state.cache, LAMBDA a, b : a[1].begin < b[1].begin)
        all == cached \o state.bulk
    IN [k \in DOMAIN all |-> all[k][2]]
=============================================================================
