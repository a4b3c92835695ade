--------------------------- MODULE SampleGrammars ---------------------------
(***************************************************************************)
(* Small grammars for model checking, each the shape of a difficulty.      *)
(***************************************************************************)
EXTENDS Grammars

\* Expressions with two levels of priority, as in the MathExp grammars
MathExp == Prepared(
    <<Rule("exp", <<"exp", "+", "term">>), Rule("exp", <<"term">>),
      Rule("term", <<"(", "exp", ")">>), Rule("term", <<"n">>)>>,
    <<"n", "+", "(", ")", Dollar, "exp", "term">>)

\* Every part of the body may be empty, and the end of a rule too
Nullables == Prepared(
    <<Rule("S", <<"A", "B", "c", "A">>), Rule("A", <<"a">>), Rule("A", <<>>),
      Rule("B", <<"A", "A">>), Rule("B", <<"b">>)>>,
    <<"a", "b", "c", Dollar, "S", "A", "B">>)

\* Left recursion through another variable, ended by an empty rule: the
\* variable that starts the recursion is closed before its lookaheads are known
HiddenLeft == Prepared(
    <<Rule("S", <<"A">>), Rule("A", <<"B">>), Rule("B", <<"A", "c">>), Rule("B", <<>>)>>,
    <<"c", Dollar, "S", "A", "B">>)

\* The textbook grammar that is LR(1) and not LALR(1)
NotLALR == Prepared(
    <<Rule("S", <<"a", "A", "d">>), Rule("S", <<"b", "B", "d">>),
      Rule("S", <<"a", "B", "e">>), Rule("S", <<"b", "A", "e">>),
      Rule("A", <<"c">>), Rule("B", <<"c">>)>>,
    <<"a", "b", "c", "d", "e", Dollar, "S", "A", "B">>)

\* LALR(1) and not SLR(1): assignments
Assign == Prepared(
    <<Rule("S", <<"L", "=", "R">>), Rule("S", <<"R">>),
      Rule("L", <<"*", "R">>), Rule("L", <<"i">>), Rule("R", <<"L">>)>>,
    <<"=", "*", "i", Dollar, "S", "L", "R">>)

\* Ambiguous: the dangling else
Dangling == Prepared(
    <<Rule("S", <<"if", "S", "else", "S">>), Rule("S", <<"if", "S">>), Rule("S", <<"x">>)>>,
    <<"if", "else", "x", Dollar, "S">>)

\* A list as the loader writes e* with a generated variable, and a cycle
\* S -> L -> S of nullable variables
Cyclic == Prepared(
    <<Rule("S", <<"L">>), Rule("S", <<"x">>), Rule("L", <<"S", "L">>), Rule("L", <<>>)>>,
    <<"x", Dollar, "S", "L">>)

\* An optional part at the end of a directly recursive rule
Trailing == Prepared(
    <<Rule("S", <<"S", "B">>), Rule("S", <<"x">>), Rule("B", <<"b">>), Rule("B", <<>>)>>,
    <<"x", "b", Dollar, "S", "B">>)

\* A variable that ends a rule because what comes next may be empty
Optional == Prepared(
    <<Rule("S", <<"(", "T", ")">>), Rule("T", <<"A", "B">>), Rule("A", <<"a">>),
      Rule("B", <<"b">>), Rule("B", <<>>)>>,
    <<"(", ")", "a", "b", Dollar, "S", "T", "A", "B">>)

\* T is entered from two places; what follows the second one reaches the end of
\* T along states numbered in the other direction
Shared == Prepared(
    <<Rule("S", <<"a", "T", "x">>), Rule("S", <<"Q", "y">>), Rule("Q", <<"b", "a", "T">>),
      Rule("T", <<"t", "U">>), Rule("U", <<"u">>)>>,
    <<"a", "b", "t", "u", "x", "y", Dollar, "S", "Q", "T", "U">>)

\* Two places where A ends have one LALR(1) state, in which it may also go on
Merged == Prepared(
    <<Rule("S", <<"x", "A", "y">>), Rule("S", <<"z", "A", "w">>),
      Rule("A", <<"a">>), Rule("A", <<"a", "b">>)>>,
    <<"a", "b", "x", "y", "z", "w", Dollar, "S", "A">>)

\* Sums and concatenations without priorities
Sums == Prepared(
    <<Rule("E", <<"E", "E">>), Rule("E", <<"E", "+", "E">>), Rule("E", <<"x">>)>>,
    <<"x", "+", Dollar, "E">>)

\* A recursion that a variable that is always empty hides on the left
Hidden == Prepared(
    <<Rule("S", <<"B", "S", "c">>), Rule("S", <<"x">>), Rule("B", <<>>)>>,
    <<"x", "c", Dollar, "S", "B">>)

\* A sentence with endless derivations: S -> A -> S
Units == Prepared(
    <<Rule("S", <<"A">>), Rule("S", <<"x">>), Rule("A", <<"S">>)>>, <<"x", Dollar, "S", "A">>)

\* A rule that is a context: that of the variable which the loader generates for
\* #context{ ... }
In(context, head, body) == [Rule(head, body) EXCEPT !.context = context]

\* Parts in a context: "x" is x0, or x1 in it; x1 is also expected out of it, where
\* the lexer cannot give it (ContextSensitive.suite:390)
OneContext == Prepared(
    <<Rule("S", <<"x0">>), Rule("S", <<"S", "C">>), Rule("S", <<"S", "x0">>), Rule("S", <<"S", "x1">>),
      In(1, "C", <<"(", "L", ")">>), Rule("L", <<"x1">>), Rule("L", <<"L", "x1">>)>>,
    <<"x0", "x1", "(", ")", Dollar, "S", "C", "L">>)

\* Two contexts that nest, closed by a word, and one that opens after a reduction
NestedContexts == Prepared(
    <<Rule("S", <<"A", "C">>), Rule("A", <<"x0">>), Rule("A", <<"A", "x0">>),
      In(1, "C", <<"(", "x1", "D", "x1">>), In(2, "D", <<"[", "x2", "E", "]">>),
      Rule("E", <<"x2">>), In(1, "E", <<"(", "x1", "E", ")">>)>>,
    <<"x0", "x1", "x2", "(", ")", "[", "]", Dollar, "S", "A", "C", "D", "E">>)

\* Two contexts that begin with the same tokens
ForkedContexts == Prepared(
    <<Rule("S", <<"P">>), Rule("S", <<"Q", "x1">>),
      In(1, "P", <<"(", "A", "x1">>), In(2, "Q", <<"(", "B", "x2">>),
      Rule("A", <<"x0">>), Rule("A", <<"A", "x0">>), Rule("A", <<"(", "x1">>),
      Rule("B", <<"x0">>), Rule("B", <<"B", "x0">>)>>,
    <<"x0", "x1", "x2", "(", Dollar, "S", "P", "Q", "A", "B">>)

\* The context is a list, as in the fixtures (ContextSensitive.suite:44): the list
\* is reduced and what opened the context is gone
ListContext == Prepared(
    <<Rule("S", <<"x0", "(", "C", ")">>), In(1, "C", <<"L">>),
      Rule("L", <<"x1">>), Rule("L", <<"L", "x1">>)>>,
    <<"x0", "x1", "(", ")", Dollar, "S", "C", "L">>)

\* The reduction that closes the context is the second of a chain
ChainContext == Prepared(
    <<Rule("S", <<"C", "x0">>), Rule("S", <<"C", "x1">>), In(1, "C", <<"(", "L">>),
      Rule("L", <<"x1">>)>>,
    <<"x0", "x1", "(", Dollar, "S", "C", "L">>)

\* The first token comes after an empty variable, then opens the context
FirstContext == Prepared(
    <<Rule("S", <<"E", "C">>), Rule("E", <<>>), In(1, "C", <<"x1", "x0">>)>>,
    <<"x0", "x1", Dollar, "S", "E", "C">>)

\* x1 begins a sentence out of its context too
OutOfContext == Prepared(
    <<Rule("S", <<"x1", "x0">>), Rule("S", <<"x0", "C">>), In(1, "C", <<"x1">>)>>,
    <<"x0", "x1", Dollar, "S", "C">>)

AllGrammars == {MathExp, Nullables, HiddenLeft, NotLALR, Assign, Dangling, Cyclic, Trailing,
                Optional, Shared}
=============================================================================
