----------------------------- MODULE LRkResults -----------------------------
(***************************************************************************)
(* What the parser returns: the tree that it builds, read out of its flat  *)
(* cells, against the plain trees of TreeBuilder; the texts that it reads, *)
(* against the language of its grammar; and the contexts that the lexer    *)
(* asks it for (ContextProvider, lrk.rs), against the contexts that the    *)
(* rules of the grammar are.                                               *)
(*                                                                         *)
(* A text is matched by several terminals: it is the sequence of the       *)
(* candidates [terminal, context] of the state of the lexer, the first     *)
(* having the priority.  The context 0 is the default one.                 *)
(***************************************************************************)
EXTENDS LRkParser
LOCAL INSTANCE SequencesExt
LOCAL INSTANCE FiniteSetsExt
LOCAL Reading == INSTANCE Ast
LOCAL Reference == INSTANCE Languages

CONSTANT MatchedTexts       \* texts that several terminals match

DefaultContext == 0         \* DEFAULT_CONTEXT

ASSUME MatchedTextsAssumption ==
    \A text \in MatchedTexts : text \in Seq([terminal : STRING, context : Nat]) /\ text # <<>>
-----------------------------------------------------------------------------
(* The trees *)

\* The trees of the cells stored so far, whose children come before them
StoredTrees ==
    LET treeOf[c \in DOMAIN ast] ==
            [label |-> ast[c].label,
             kids |-> [j \in 1 .. ast[c].count |-> treeOf[ast[c].first + j - 1]]]
    IN treeOf

\* The tree of a node of a sub-tree whose children come right after it
TreeAt(nodes, at) ==
    LET kid(cell) == [label |-> cell.label,
                      kids |-> [j \in 1 .. cell.count |-> StoredTrees[cell.first + j - 1]]]
    IN [label |-> nodes[at].label,
        kids |-> [j \in 1 .. nodes[at].count |-> kid(nodes[at + j])]]

ItemAt(sub, at) == [tree |-> TreeAt(sub.nodes, at), action |-> sub.actions[at]]

ValueOfSub(sub) ==
    LET list == sub.actions[1] = "REPLACE_BY_CHILDREN"
    IN [list |-> list,
        items |-> IF list
                  THEN [k \in 1 .. sub.nodes[1].count |-> ItemAt(sub, ChildAt(sub, k))]
                  ELSE <<ItemAt(sub, 1)>>]

Forest == [n \in DOMAIN subtrees |-> ValueOfSub(subtrees[n])]

Trees == INSTANCE TreeBuilder WITH
    prods <- automaton.prods,
    taken <- IF status \in {"token", "reduce", "error"} THEN Len(tokens) - 1 ELSE Len(tokens),
    forest <- Forest,
    tree <- IF root = NoRoot THEN [label |-> <<"NoTree", 0>>, kids |-> <<>>]
            ELSE StoredTrees[root]

\* The sub-trees packed, moved and stored piece by piece are, at each reduction,
\* the trees that the grammar's tree actions describe; each token is in at most
\* one place, in order; what is published is the tree of the axiom.
BuildsTrees == Trees!Spec

\* In the middle of a reduction, the body that a semantic action reads is the one
\* that the op-codes executed so far describe: "Drop the node and all its
\* descendants" (parsers/mod.rs:41), a node replaced by its children is not there
\* and they are, in its place.
BodyExact ==
    status = "reduce" =>
        [k \in DOMAIN handle |-> ItemAt(reduction.cache, handle[k])] =
            Trees!Body(Prod, Trees!LastValues(Prod.length), reduction.ip - 1)
-----------------------------------------------------------------------------
(***************************************************************************)
(* What a reader of the tree is told.                                      *)
(***************************************************************************)
\* Tokens of one or two characters, with blanks between them
SpanOf(k) == [index |-> 3 * k, length |-> 1 + (k % 2)]
Spans == [k \in DOMAIN tokens |-> SpanOf(k)]

Reached == ToSet(Reading!Traversed(ast, root))
Kids(at) == ast[at].first .. ast[at].first + ast[at].count - 1

\* The tokens of the sub-tree of a cell
TokensOf[at \in DOMAIN ast] ==
    (IF Reading!IsToken(ast[at].label) THEN {ast[at].label[2]} ELSE {})
        \cup UNION {TokensOf[kid] : kid \in Kids(at)}

\* From the first character of the first token to the last of the last
Hull(taken) ==
    IF taken = {} THEN Reading!NoSpan
    ELSE [position |-> SpanOf(Min(taken)).index, index |-> SpanOf(Min(taken)).index,
          length |-> Reading!End(SpanOf(Max(taken))) - SpanOf(Min(taken)).index]

\* Whatever tree actions have moved, promoted or dropped, the span of a node is that
\* of the text of its tokens, the spans of its children come in the order of the
\* text, the parent looked for among the cells is that of the tree, and so is the cell of
\* a token of the tree, even though sub-trees that were dropped have left cells behind.
\* The token of such a sub-tree is found as well, in a cell that is not in the tree.
QueriesExact ==
    status = "accepted" =>
        LET total == [at \in Reached |-> Reading!TotalSpan(ast, Spans, at)]
        IN \A at \in Reached :
            /\ total[at] = Hull(TokensOf[at])
            /\ \A one, other \in Kids(at) :
                    one < other /\ Reading!NoSpan \notin {total[one], total[other]}
                        => Reading!End(total[one]) <= total[other].index
            /\ Reading!FindParentOf(ast, at) =
                    SetToSeq({parent \in Reached : at \in Kids(parent)})
            /\ Reading!IsToken(ast[at].label) =>
                    Reading!FindNodeFor(ast, ast[at].label[2]) = <<at>>
-----------------------------------------------------------------------------
(***************************************************************************)
(* LRkParserData::get_context_priority.  A priority is a set of at most    *)
(* one number, the lesser the better; it has none if the context is not    *)
(* available.                                                              *)
(***************************************************************************)
\* usize::MAX: no stack of the model is as high
LeastPriority == 1000

Unavailable == {}

\* LRContexts::opens
Opens(state, symbol, context) == <<symbol, context>> \in automaton.opens[state]

\* The places of the stack from which the symbol above opened the context
OpenPlaces(context) ==
    {i \in 1 .. Len(stack) - 1 : Opens(stack[i].state, stack[i + 1].symbol, context)}

\* Fault: a context that the reduction closes is still open
Kept_All(action) == 1 .. Len(stack)

\* The places that the reduction, if any, leaves on the stack below its variable
Kept(action) ==
    IF action.code = "REDUCE" THEN 1 .. Len(stack) - automaton.prods[action.data].length - 1
    ELSE 1 .. Len(stack)

\* The reductions that the terminal calls for, then a shift that opens the context
OpensAfterReductions(terminal, context) ==
    LET s == Simulated(terminal)
    IN /\ Action(s[Len(s)], terminal).code = "SHIFT"
       /\ Opens(s[Len(s)], terminal, context)

ContextPriority(context, terminal) ==
    LET action == Action(Top.state, terminal)
        places == OpenPlaces(context) \cap Kept(action)
    IN IF context = DefaultContext THEN {LeastPriority}
       ELSE IF tokens = <<>> THEN (IF Opens(1, terminal, context) THEN {0} ELSE Unavailable)
       ELSE IF action.code = "NONE" THEN Unavailable
       ELSE IF action.code = "SHIFT" /\ Opens(Top.state, terminal, context) THEN {0}
       ELSE IF places # {} THEN {Len(stack) - Max(places)}
       ELSE IF action.code = "REDUCE" /\ OpensAfterReductions(terminal, context) THEN {0}
       ELSE Unavailable

\* ContextSensitiveLexer::get_terminal_for; a text that is also a separator, which
\* "trumps all", never comes to the parser
TerminalFor(text) ==
    LET priority == [k \in DOMAIN text |-> ContextPriority(text[k].context, text[k].terminal)]
        better(k, best) == \E p \in priority[k] : \A q \in priority[best] : p < q
    IN FoldLeft(LAMBDA best, k : IF better(k, best) THEN k ELSE best, 1,
                [k \in DOMAIN text |-> k])
-----------------------------------------------------------------------------
HasContexts == \E s \in DOMAIN automaton.opens : automaton.opens[s] # {}

\* What may come after some tokens, as pairs of them and a marked letter
ContinuationsOf(g) ==
    {<<[k \in 1 .. Len(w) - 1 |-> w[k].terminal], w[Len(w)]>> :
        w \in Reference!MarkedPrefixes(g, MaxTokens + 1) \ {<<>>}}

\* The language of each grammar, up to the bound
LanguageOf == [rules \in {a.rules : a \in Automata} |->
    LET g == [rules |-> rules]
    IN [sentences |-> Reference!Words(g, MaxTokens + 1)[Reference!Axiom],
        beginnings |-> Reference!Prefixes(g, MaxTokens + 1)[Reference!Axiom],
        continuations |-> IF \E r \in DOMAIN rules : rules[r].context # DefaultContext
                          THEN ContinuationsOf(g) ELSE {}]]

Sentences == LanguageOf[automaton.rules].sentences
Beginnings == LanguageOf[automaton.rules].beginnings
Continuations == LanguageOf[automaton.rules].continuations

Before == SubSeq(tokens, 1, Len(tokens) - 1)

\* The parser accepts the sentences of its grammar and nothing else: it shifts a
\* token only if it has read the beginning of a sentence, and stops at the first
\* token that no sentence has there.
ParsesTheLanguage ==
    /\ status = "next" => tokens \in Beginnings
    /\ status = "accepted" => tokens \in Sentences
    /\ status = "error" => /\ Before \in Beginnings
                           /\ tokens \notin Beginnings

\* No terminal is said to be expected that could not have come there: the check
\* by simulation is there because in a LALR table "some terminals expected for
\* reduction in the automaton are coming from other paths" (lrk.rs:489).
ExpectedSound ==
    status = "error" => \A t \in errors[1] : Append(Before, t) \in Beginnings

\* "The expected terminals" (errors.rs:176): all those that could have come.
ExpectedComplete ==
    status = "error" => {t \in automaton.terminals : Append(Before, t) \in Beginnings}
                            \subseteq errors[1]
-----------------------------------------------------------------------------
\* The letters that a candidate may be here, in its context
Possible(candidate) ==
    {x \in {c[2] : c \in {d \in Continuations : d[1] = tokens}} :
        /\ x.terminal = candidate.terminal
        /\ candidate.context # DefaultContext => candidate.context \in DOMAIN x.since}

TextsOfAutomaton ==
    {text \in MatchedTexts : \A k \in DOMAIN text : text[k].terminal \in automaton.terminals}

\* Of the terminals that match a text, the lexer chooses one that may come there in
\* its own context, if there is one, and none has a context that began later: the
\* priorities are computed from a stack on which the last reductions are not done
\* yet, and that keeps symbols where the terminals that opened the contexts were.
ChoosesInContext ==
    status = "next" /\ HasContexts =>
        \A text \in TextsOfAutomaton :
            LET possible == [k \in DOMAIN text |-> Possible(text[k])]
                since(k) == IF text[k].context = DefaultContext THEN {LeastPriority}
                            ELSE {x.since[text[k].context] : x \in possible[k]}
                chosen == TerminalFor(text)
            IN \A k \in DOMAIN text : possible[k] # {} =>
                    possible[chosen] # {} /\ Min(since(chosen)) <= Min(since(k))

\* "The absence of value represents the unavailability of the required context"
\* (lexers/mod.rs:35): a terminal that may come here in its context has one.
AvailableInContext ==
    status = "next" /\ HasContexts =>
        \A text \in TextsOfAutomaton : \A k \in DOMAIN text :
            Possible(text[k]) # {} => ContextPriority(text[k].context, text[k].terminal) # Unavailable
=============================================================================
