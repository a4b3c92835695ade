---------------------------- MODULE SampleTrees -----------------------------
(***************************************************************************)
(* Small grammars with tree actions, as rules [head, headAction, ops], and *)
(* the automata of their parsers.                                          *)
(***************************************************************************)
EXTENDS LRTables

T(symbol) == Opcode("POP", "NONE", symbol)
Promote(symbol) == Opcode("POP", "PROMOTE", symbol)
Drop(symbol) == Opcode("POP", "DROP", symbol)
Virtual(action, symbol) == Opcode("VIRTUAL", action, symbol)
Call(symbol) == Opcode("ACTION", "NONE", symbol)

To(head, ops) == [head |-> head, headAction |-> "NONE", ops |-> ops, context |-> 0]
\* The rules of a variable that the loader generates for a repetition, and for
\* the braces of a sub-rule
List(head, ops) == [head |-> head, headAction |-> "REPLACE_BY_CHILDREN", ops |-> ops, context |-> 0]
Sub(head, ops) == [head |-> head, headAction |-> "REPLACE_BY_EPSILON", ops |-> ops, context |-> 0]

\* exp -> exp +^ term | term ^; term -> (! exp^ )! | n^
MathExpRules ==
    <<To("exp", <<T("exp"), Promote("+"), T("term")>>), To("exp", <<Promote("term")>>),
      To("term", <<Drop("("), Promote("exp"), Drop(")")>>), To("term", <<Promote("n")>>)>>
MathExpSymbols == <<"n", "+", "(", ")", Dollar, "exp", "term">>

\* Promotions in a chain, several in a rule, and of nodes that have children
PromoteRules ==
    <<To("e", <<Promote("x"), T("a")>>), To("e", <<T("a"), Promote("x"), Promote("b"), T("x")>>),
      To("x", <<Promote("y"), T("b")>>), To("y", <<Promote("c"), T("c")>>),
      To("y", <<T("c"), Virtual("PROMOTE", "v")>>)>>
PromoteSymbols == <<"a", "b", "c", Dollar, "e", "x", "y">>

\* e -> (a | b^ x!)* c, a list whose elements are promoted and dropped in the
\* rule that the list ends in, with virtual symbols and a semantic action
ListRules ==
    <<To("e", <<Virtual("NONE", "v"), T("l"), Call("act"), T("c")>>), To("e", <<T("c")>>),
      List("l", <<T("a")>>), List("l", <<Promote("b"), Drop("x"), Call("act")>>),
      List("l", <<T("l"), T("x")>>), List("l", <<T("l"), Promote("x"), Drop("a")>>),
      To("x", <<T("y")>>), To("y", <<T("c"), T("c")>>)>>
ListSymbols == <<"a", "b", "c", Dollar, "e", "l", "x", "y">>

\* Sub-rules in braces, and empty ones
SubRules ==
    <<To("e", <<T("s"), T("o"), T("e"), T("b")>>), To("e", <<T("a")>>),
      Sub("s", <<T("b"), Virtual("DROP", "v"), Drop("o")>>),
      To("o", <<>>), To("o", <<T("c"), Virtual("NONE", "v")>>)>>
SubSymbols == <<"a", "b", "c", Dollar, "e", "s", "o">>

\* e -> a (b | c c)+! c: the list is dropped
DroppedListRules ==
    <<To("e", <<T("a"), Drop("l"), T("d")>>), List("l", <<T("b")>>), List("l", <<T("l"), T("b")>>)>>
DroppedListSymbols == <<"a", "b", "d", Dollar, "e", "l">>

\* Promotions in the two trees of an ambiguity: E -> E +^ E | x^
AmbiguousSumRules == <<To("E", <<T("E"), Promote("+"), T("E")>>), To("E", <<Promote("x")>>)>>
AmbiguousSumSymbols == <<"x", "+", Dollar, "E">>

\* Lists that may be cut in several ways, with several elements of a place
AmbiguousListRules ==
    <<To("S", <<T("L"), T("c")>>), List("L", <<T("L"), T("L")>>), List("L", <<T("a")>>),
      List("L", <<T("p")>>), To("a", <<T("x")>>), To("p", <<T("x")>>)>>
AmbiguousListSymbols == <<"x", "c", Dollar, "S", "L", "a", "p">>

\* A list with an empty element
NullableListRules ==
    <<To("S", <<T("a"), T("L"), T("c")>>), List("L", <<T("o")>>), To("o", <<T("b")>>), To("o", <<>>)>>
NullableListSymbols == <<"a", "b", "c", Dollar, "S", "L", "o">>

\* S -> A^ and S -> A, where A is ambiguous and, in the second, a list: S is built
\* before the second tree of A is found
EarlyPromotionRules ==
    <<To("S", <<Promote("A")>>), To("A", <<T("a")>>), To("A", <<T("B")>>), To("B", <<T("a")>>)>>
EarlyListRules ==
    <<To("S", <<T("A")>>), List("A", <<T("a")>>), List("A", <<T("B")>>), To("B", <<T("a")>>)>>
EarlySymbols == <<"a", Dollar, "S", "A", "B">>

\* S -> P^, where P may be S again: the versions of P take the place of the first one of
\* S, and S is below itself in them
CyclicPromotionRules ==
    <<To("S", <<Promote("P")>>), To("S", <<T("x")>>), To("P", <<T("S")>>), To("P", <<T("Q")>>),
      To("Q", <<T("x")>>)>>
CyclicPromotionSymbols == <<"x", Dollar, "S", "P", "Q">>

\* SubRules with no virtual symbol that is dropped
KeptSubRules == [SubRules EXCEPT ![3].ops[2].action = "NONE"]

\* The rules of a grammar as they are, without tree actions
Plain(g) == [r \in 1 .. Len(g.rules) - 1 |->
                [To(g.rules[r].head, [k \in DOMAIN BodyOf(g, r) |-> T(BodyOf(g, r)[k])])
                    EXCEPT !.context = g.rules[r].context]]
=============================================================================
