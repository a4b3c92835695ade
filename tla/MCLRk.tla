------------------------------- MODULE MCLRk --------------------------------
EXTENDS LRkResults
LOCAL S == INSTANCE SampleTrees
LOCAL G == INSTANCE SampleGrammars

Plain(g) == <<S!Plain(g), g.symbols>>

PlainLR1 == {Plain(g) : g \in {G!MathExp, G!Assign, G!NotLALR, G!HiddenLeft, G!Merged}}
PlainLALR1 == {Plain(g) : g \in {G!MathExp, G!Assign, G!Optional, G!Merged}}
TreeLR1 == {<<S!MathExpRules, S!MathExpSymbols>>}
TreeLALR1 == {<<S!PromoteRules, S!PromoteSymbols>>, <<S!ListRules, S!ListSymbols>>,
              <<S!SubRules, S!SubSymbols>>}
Contexts == {Plain(g) : g \in {G!OneContext, G!NestedContexts}}

LR1AutomataOf(grammars) == {S!LR1Automaton(g[1], g[2]) : g \in grammars}
LALR1AutomataOf(grammars) == {S!LALR1Automaton(g[1], g[2]) : g \in grammars}

LR1Automata == LR1AutomataOf(PlainLR1 \cup TreeLR1 \cup Contexts)
LALR1Automata == LALR1AutomataOf(PlainLALR1 \cup TreeLALR1 \cup Contexts)
AllAutomata == LR1Automata \cup LALR1Automata

DroppedList == LALR1AutomataOf({<<S!DroppedListRules, S!DroppedListSymbols>>})
ListContexts == LALR1AutomataOf({Plain(G!ListContext)})

\* Automata for which ChoosesInContext does not hold
LossyContexts == LR1AutomataOf({Plain(g) : g \in {G!ListContext, G!ChainContext, G!FirstContext}})

Candidate(t, c) == [terminal |-> t, context |-> c]
Texts == {<<Candidate("x2", 2), Candidate("x1", 1), Candidate("x0", 0)>>,
          <<Candidate("x0", 0), Candidate("x1", 1)>>, <<Candidate("x1", 1), Candidate("x2", 2)>>}

\* No terminal is said to be expected that could not have come; on LR(1) tables
\* all that could are said to be (errors.rs:176): no reduction is made there on a
\* token that is not expected.
ExpectedExact == ExpectedSound /\ (automaton \in LR1Automata => ExpectedComplete)
=============================================================================
