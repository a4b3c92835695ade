------------------------------ MODULE MCRNGLR -------------------------------
(***************************************************************************)
(* RNGLR parsers of small grammars, ambiguous ones among them.             *)
(***************************************************************************)
EXTENDS RNGLRForests
LOCAL G == INSTANCE SampleGrammars
LOCAL S == INSTANCE SampleTrees

\* A grammar is the rules of its productions and its symbols
Plain(g) == <<S!Plain(g), g.symbols>>

\* Ambiguities, empty variables at every place of a rule, hidden recursions
PlainGrammars == {Plain(g) : g \in {G!Sums, G!Dangling, G!Nullables, G!HiddenLeft, G!Trailing,
                                      G!Hidden, G!Units, G!MathExp, G!NotLALR, G!Assign,
                                      G!Optional, G!Merged, G!Shared}}

\* Tree actions, without and with ambiguities
TreeGrammars ==
    {<<S!MathExpRules, S!MathExpSymbols>>,
     <<S!AmbiguousSumRules, S!AmbiguousSumSymbols>>,
     <<S!AmbiguousListRules, S!AmbiguousListSymbols>>,
     <<S!NullableListRules, S!NullableListSymbols>>,
     <<S!PromoteRules, S!PromoteSymbols>>,
     <<S!ListRules, S!ListSymbols>>,
     <<S!KeptSubRules, S!SubSymbols>>}

\* Grammars for which ForestExact does not hold.  A copy of a node, or of the elements of
\* a list, does not get the versions that are found later; a virtual symbol that is
\* dropped is kept; a copy of the versions of a node may have its target below it, and
\* the tree that is taken out of the forest is then endless
LossyGrammars ==
    {<<S!EarlyPromotionRules, S!EarlySymbols>>, <<S!EarlyListRules, S!EarlySymbols>>,
     <<S!CyclicPromotionRules, S!CyclicPromotionSymbols>>, <<S!SubRules, S!SubSymbols>>}

\* Contexts, two of which the parser follows at once
Contexts == {Plain(g) : g \in {G!OneContext, G!NestedContexts, G!ForkedContexts}}

\* Grammars that RNGLR(1) tables are made for too
Split == {Plain(g) : g \in {G!NotLALR, G!Nullables, G!HiddenLeft}}

Candidate(t, c) == [terminal |-> t, context |-> c]
Texts == {<<Candidate("x2", 2), Candidate("x1", 1), Candidate("x0", 0)>>,
          <<Candidate("x0", 0), Candidate("x1", 1)>>, <<Candidate("x1", 1), Candidate("x2", 2)>>,
          <<Candidate("x1", 0), Candidate("x1", 1), Candidate("x1", 2)>>}

LR1AutomataOf(grammars) == {S!RNGLR1Automaton(g[1], g[2]) : g \in grammars}
LALR1AutomataOf(grammars) == {S!RNGLALR1Automaton(g[1], g[2]) : g \in grammars}

LR1Automata == LR1AutomataOf(Split \cup Contexts)
AllAutomata == LR1Automata \cup LALR1AutomataOf(PlainGrammars \cup TreeGrammars \cup Contexts)
ContextAutomata == LR1AutomataOf(Contexts) \cup LALR1AutomataOf(Contexts)
LossyAutomata == LALR1AutomataOf(LossyGrammars)
=============================================================================
