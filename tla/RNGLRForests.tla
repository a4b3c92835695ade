---------------------------- MODULE RNGLRForests -----------------------------
(***************************************************************************)
(* The RNGLR parser against the language of its grammar, and its forest    *)
(* against the trees of the derivations.                                   *)
(***************************************************************************)
EXTENDS RNGLRParser
LOCAL Reference == INSTANCE Languages
LOCAL INSTANCE SequencesExt
LOCAL INSTANCE FiniteSetsExt
LOCAL Reading == INSTANCE Ast
LOCAL Trees == INSTANCE TreeBuilder WITH
    prods <- automaton.bodies, taken <- 0, forest <- <<>>, tree <- 0

CONSTANTS
    RNGLR1Automata,     \* the automata of the method RNGLR(1)
    MatchedTexts,       \* texts that several terminals match: sequences of [terminal, context]
    MaxRead             \* bound of the model on the tokens of the forests that are read: a
                        \* traversal comes to a node as often as there are ways to it

\* What may come after some tokens, as pairs of them and a marked letter
ContinuationsOf(g) ==
    {<<[k \in 1 .. Len(w) - 1 |-> w[k].terminal], w[Len(w)]>> :
        w \in Reference!MarkedPrefixes(g, MaxTokens + 1) \ {<<>>}}

\* The language of each grammar, up to the bound
LanguageOf == [rules \in {a.rules : a \in Automata} |->
    LET g == [rules |-> rules]
    IN [sentences |-> Reference!Words(g, MaxTokens + 1)[Reference!Axiom],
        beginnings |-> Reference!Prefixes(g, MaxTokens + 1)[Reference!Axiom],
        continuations |-> IF \E r \in DOMAIN rules : rules[r].context # DefaultContext
                          THEN ContinuationsOf(g) ELSE {}]]

Sentences == LanguageOf[automaton.rules].sentences
Beginnings == LanguageOf[automaton.rules].beginnings
Continuations == LanguageOf[automaton.rules].continuations

Before == SubSeq(tokens, 1, Len(tokens) - 1)

\* The tokens that have been shifted, or are about to be
Shifted == IF lookahead = Epsilon THEN tokens ELSE Before

Follows(sentences, beginnings) ==
    /\ status = "shift" => Shifted \in beginnings
    /\ status \in {"accepted", "unfinished"} =>
            tokens \in sentences /\ (status = "accepted" <=> automaton \notin RNGLR1Automata)
    /\ status \in {"error", "panic", "hangs"} => Before \in beginnings /\ tokens \notin beginnings
    /\ status = "error" => \A t \in expected : Append(Before, t) \in beginnings

\* All the sentences of the grammar are accepted by a RNGLALR(1) parser and nothing else,
\* whatever the ambiguities and the empty variables: a token is shifted only after the
\* beginning of a sentence that it continues, and the parser stops at the first one that
\* no sentence has there.  No terminal is then said to be expected that could not have
\* come.  A RNGLR(1) parser reads the sentences too, and those only, but it has no
\* accepting state: it ends without a tree and without an error.
ParsesTheLanguage == Follows(Sentences, Beginnings)
-----------------------------------------------------------------------------
(***************************************************************************)
(* The contexts: the terminals that may come in theirs.                    *)
(***************************************************************************)
\* ContextSensitiveLexer::get_terminal_for
TerminalFor(text) ==
    LET priority == [k \in DOMAIN text |-> ContextPriority(text[k].context, text[k].terminal)]
        better(k, best) == \E p \in priority[k] : \A q \in priority[best] : p < q
    IN FoldLeft(LAMBDA best, k : IF better(k, best) THEN k ELSE best, 1,
                [k \in DOMAIN text |-> k])

HasContexts == \E s \in DOMAIN automaton.opens : automaton.opens[s] # {}

\* The letters that a candidate may be here, in its context
Possible(candidate) ==
    {x \in {c[2] : c \in {d \in Continuations : d[1] = tokens}} :
        /\ x.terminal = candidate.terminal
        /\ candidate.context # DefaultContext => candidate.context \in DOMAIN x.since}

TextsOfAutomaton ==
    {text \in MatchedTexts : \A k \in DOMAIN text : text[k].terminal \in automaton.terminals}

BeforeLexing == status = "start" \/ (Reduced /\ shifts # <<>> /\ lookahead # Dollar)

\* The choice for a text, given the letters that each of its candidates may be
IsInContext(text, possible) ==
    LET since(k) == IF text[k].context = DefaultContext THEN {LeastPriority}
                    ELSE {x.since[text[k].context] : x \in possible[k]}
        chosen == TerminalFor(text)
    IN \A k \in DOMAIN text :
        /\ ContextPriority(text[k].context, text[k].terminal) # NoAnswer
        /\ possible[k] # {} => possible[chosen] # {} /\ Min(since(chosen)) <= Min(since(k))

\* Whatever the parses that are followed at once, the lexer is given the terminal of a
\* text that may come there in its own context, if there is one, and none has a context
\* that began later; it always has an answer.  The contexts are looked for in a stack
\* that the last token is not on yet, along edges that reductions have put in the place
\* of others.
ChoosesInContext ==
    BeforeLexing /\ HasContexts =>
        \A text \in TextsOfAutomaton : IsInContext(text, [k \in DOMAIN text |-> Possible(text[k])])
-----------------------------------------------------------------------------
(***************************************************************************)
(* The trees of the derivations, with the tree actions of the grammar.     *)
(***************************************************************************)
\* The sequences that take an element of each set of a sequence of sets
RECURSIVE PickEach(_)
PickEach(sets) ==
    IF sets = <<>> THEN {<<>>}
    ELSE {<<x>> \o rest : x \in sets[1], rest \in PickEach(Tail(sets))}

\* The values of a body over the tokens from+1 .. to, given those of the variables
RECURSIVE BodyValues(_, _, _, _)
BodyValues(values, body, from, to) ==
    IF body = <<>> THEN IF from = to THEN {<<>>} ELSE {}
    ELSE LET X == body[1]
             of(k) == IF <<X, from, k>> \in DOMAIN values THEN values[<<X, from, k>>]
                      ELSE IF k = from + 1 /\ tokens[k] = X
                      THEN {Trees!Alone(Trees!Leaf(<<"Token", k>>))} ELSE {}
         IN UNION {{<<x>> \o rest : x \in of(k), rest \in BodyValues(values, Tail(body), k, to)} :
                    k \in {k \in from .. to : of(k) # {}}}

RuleValues(values, r, from, to) ==
    LET prod == automaton.bodies[r]
    IN {Trees!ValueOf(prod, Trees!Body(prod, kids, Len(prod.ops))) :
            kids \in BodyValues(values, automaton.rules[r].body, from, to)}

RECURSIVE ValuesFrom(_)
ValuesFrom(values) ==
    LET more == [at \in DOMAIN values |->
                    UNION {RuleValues(values, r, at[2], at[3]) :
                            r \in {r \in DOMAIN automaton.rules : automaton.rules[r].head = at[1]}}]
    IN IF more = values THEN values ELSE ValuesFrom(more)

\* The values of each variable over each span of the tokens
Values ==
    ValuesFrom([at \in (DOMAIN automaton.empty) \X (0 .. Len(tokens)) \X (0 .. Len(tokens)) |-> {}])

\* The trees of a place of the forest
RECURSIVE TreesOf(_)
TreesOf(id) ==
    UNION {{[label |-> version.label, kids |-> kids] :
                kids \in PickEach([k \in DOMAIN version.kids |-> TreesOf(version.kids[k].id)])} :
            version \in ToSet(forest.nodes[id])}

\* X may be derived into itself: the rest of the body of a rule of X may be empty
Derives(a) ==
    LET nullable == {v \in DOMAIN a.empty : a.empty[v] # 0}
        alone(body, k) == \A j \in DOMAIN body \ {k} : body[j] \in nullable
    IN UNION {{<<a.rules[r].head, a.rules[r].body[k]>> :
                k \in {k \in DOMAIN a.rules[r].body : alone(a.rules[r].body, k)}} :
               r \in DOMAIN a.rules}

\* No variable is derived into itself: a sentence has finitely many trees
Acyclic(a) ==
    ~ \E S \in (SUBSET DOMAIN a.empty) \ {{}} : \A v \in S : \E w \in S : <<v, w>> \in Derives(a)

FiniteTrees == {a \in Automata : Acyclic(a)}

\* The tree of a cell
RECURSIVE TreeOfCell(_, _)
TreeOfCell(cells, at) ==
    LET cell == cells[at]
    IN [label |-> cell.label,
        kids |-> [k \in 1 .. cell.count |-> TreeOfCell(cells, cell.first + k - 1)]]

\* Tokens of one or two characters, with blanks between them
SpanOf(k) == [index |-> 3 * k, length |-> 1 + (k % 2)]
Spans == [k \in DOMAIN tokens |-> SpanOf(k)]

RECURSIVE TokensIn(_)
TokensIn(t) == (IF Reading!IsToken(t.label) THEN {t.label[2]} ELSE {})
                \cup UNION {TokensIn(t.kids[k]) : k \in DOMAIN t.kids}

Hull(taken) ==
    IF taken = {} THEN Reading!NoSpan
    ELSE [position |-> SpanOf(Min(taken)).index, index |-> SpanOf(Min(taken)).index,
          length |-> Reading!End(SpanOf(Max(taken))) - SpanOf(Min(taken)).index]

Reached == ToSet(Reading!VisitedIn(forest, <<root>>))

\* What a reader of the forest is told: the span of a node is that of the tokens of its
\* trees, and what is found has the token, or the child, that was looked for.
QueriesExact ==
    /\ \A id \in Reached :
        /\ Reading!TotalSpanOfNode(forest, Spans, id) =
                Hull(UNION {TokensIn(t) : t \in TreesOf(id)})
        /\ LET parents == Reading!FindParentIn(forest, root, NodeRef(id))
               kids(parent) == forest.nodes[parent.id][parent.version].kids
           IN IF id = root THEN parents = <<>>
              ELSE parents # <<>> /\ NodeRef(id) \in ToSet(kids(parents[1]))
    /\ \A k \in DOMAIN tokens :
        Reading!FindNodeForIn(forest, root, k) # <<>>
            <=> \E t \in TreesOf(root) : k \in TokensIn(t)

\* The nodes that the tree of a result has after n steps down from the root
FirstVersions(places) ==
    UNION {{version.kids[k].id : k \in DOMAIN version.kids} :
            version \in {forest.nodes[id][1] : id \in places}}
BelowRoot[n \in Nat] == IF n = 0 THEN {root} ELSE FirstVersions(BelowRoot[n - 1])

\* "A SPPF is a compact representation of multiple variants of an AST at once"
\* (rnglr.rs:560): those of all the derivations of the input and no other.  A
\* tree can be taken out of it even when there are endless derivations; it is one of
\* them.
ForestExact ==
    status = "accepted" =>
        /\ BelowRoot[Len(forest.nodes)] = {}
        /\ automaton \in FiniteTrees =>
           LET trees == TreesOf(root)
               cells == Reading!FinalAst(forest, root)
           IN
           /\ trees = {value.items[1].tree :
                            value \in Values[<<automaton.variables[1], 0, Len(tokens) - 1>>]}
           /\ TreeOfCell(cells, Len(cells)) \in trees
           /\ Len(tokens) <= MaxRead => QueriesExact

\* The parser ends on every input, although reductions go on from the edges that
\* other reductions add, and a grammar may be cyclic.
Terminates == <>Ends
=============================================================================
