------------------------------ MODULE MCLexing ------------------------------
(***************************************************************************)
(* Small grammars, for their terminals only, each with texts to lex.       *)
(***************************************************************************)
EXTENDS Lexing

a == 97
b == 98
c == 99
blank == 32
euro == 8364                           \* three bytes
smile == 128512                        \* out of plane 0: D83D DE00
A == <<65>>
B == <<66>>
S == <<83>>

Blanks == TerminalRule(S, Text(<<blank>>))

Source(rules, used, separator, texts) ==
    [rules |-> rules, used |-> used, separator |-> separator, texts |-> texts]

\* A keyword among names, and blanks
Keywords ==
    Source(<<TerminalRule(A, Repeat("plus", Class(TRUE, << <<a, b>> >>))), Blanks, Inline(Text(<<a, b>>))>>, {A}, S,
           {<<a, b, blank, b, a>>, <<blank, a, c, b>>, <<c, a, b>>, <<b, blank, blank, c>>, <<>>})

\* Nothing begins with the characters that are in the middle
Brackets ==
    Source(<<TerminalRule(A, Two("concat", Text(<<a, b>>), Two("concat", Repeat("star", Text(<<c>>)), Text(<<a>>)))),
             Blanks>>, {A}, S,
           {<<a, b, c, a>>, <<a, c, a, blank, a, b, a>>, <<a, b, a, a, c, a>>, <<a, a, b, a>>, <<b, c, blank, a>>})

\* Repetitions, options and other cases
Repetitions ==
    Source(<<Fragment(B, Times(AnyCase(<<a>>), 1, 2)),
             TerminalRule(A, Two("concat", Name(B), Repeat("optional", Text(<<b>>)))),
             TerminalRule(S, Repeat("plus", Two("union", Text(<<b, b>>), CodePoint(10))))>>, {A}, S,
           {<<a, 65, b, b, b>>, <<a, a, a>>, <<b, a>>, <<65, b, 10, a>>})

\* Several languages less others: of what begins with a, what is not aa or ab
Differences ==
    Source(<<TerminalRule(B, Two("concat", Text(<<a>>), Repeat("star", AnyCharacter))),
             TerminalRule(A, Two("minus", Name(B), Two("union", Text(<<a, a>>), Text(<<a, b>>))))>>, {A}, <<>>,
           {<<a, a, b>>, <<b, a, smile>>, <<a, euro>>, <<smile>>})

\* Classes and spans, in plane 0 and out of it
Planes ==
    Source(<<TerminalRule(A, Class(FALSE, << <<a, b>>, <<euro, euro>> >>)),
             TerminalRule(B, UnicodeSpan(128000, 130000)),
             TerminalRule(S, Repeat("plus", Class(TRUE, << <<b, 300>> >>)))>>, {A, B, S}, <<>>,
           {<<a, smile, euro>>, <<b, 300, 301, smile, 233>>, <<smile, 66000>>})

\* A word that is a terminal of its own in a context
Contexts ==
    Source(<<TerminalRule(A, Repeat("plus", Class(TRUE, << <<a, c>> >>))), RuleIn("x", B, Text(<<a, b>>)),
             RuleIn("y", <<67>>, Text(<<a>>)), RuleIn("y", <<68>>, Repeat("plus", Text(<<a>>)))>>,
           {A, B, <<68>>}, <<>>, {<<a, b>>, <<a, a>>, <<a>>})

\* Lines
Lined ==
    Source(<<TerminalRule(A, Text(<<a>>)), TerminalRule(S, Repeat("plus", Class(TRUE, << <<10, 13>>, <<8232, 8233>> >>)))>>, {A}, S,
           {<<a, 13, 10, a, 13, a, 10, 10>>, <<13, 13, a, 8232, euro, 10, a>>, <<euro, a, 13>>, <<a, 13, 8232, a, 13, 8233, 13, 10, a>>})

\* Escape sequences: \n, \u00e9a, and the class [\t-\r\]]
Escapees ==
    Source(<<TerminalRule(A, Two("union", Escaped(<<92, 110>>, <<10>>),
                                 Escaped(<<92, 117, 48, 48, 101, 57, a, 92, 92>>, <<233, a, 92>>))),
             TerminalRule(B, Repeat("plus", EscapedClass(TRUE, <<92, 116, 45, 92, 114, 92, 93>>,
                                                         {<<9, 13>>, <<93, 93>>})))>>, {A}, <<>>,
           {<<10, 10>>, <<233, a, 92, 9, 93>>, <<11, 233, 9>>})

\* A category with characters in and out of plane 0, and blocks
Tables ==
    Source(<<TerminalRule(A, Two("union", UnicodeCategory("Co"), UnicodeCategory("Cc"))),
             TerminalRule(B, Repeat("plus", UnicodeBlock("Emoticons"))), TerminalRule(S, UnicodeCategory("Zp"))>>, {A, B}, S,
           {<<57344, smile, smile, 8233>>, <<1000000, 127, smile>>, <<8233, 130000, 31>>})

\* What is refused
Hidden ==                              \* A is always taken for the rules below it
    Source(<<TerminalRule(A, Text(<<a>>)), TerminalRule(B, Class(TRUE, << <<a, b>> >>))>>, {A, B}, <<>>, {<<a, b>>})
HiddenSeparator == [Hidden EXCEPT !.used = {B}, !.separator = A]
ContextualSeparator ==
    Source(<<TerminalRule(A, Text(<<a>>)), RuleIn("x", S, Text(<<blank>>))>>, {A}, S, {<<a, blank>>})
Empty == Source(<<TerminalRule(A, Repeat("star", Text(<<a>>)))>>, {A}, <<>>, {<<a>>})
Undefined == Source(<<TerminalRule(A, Two("concat", Name(B), CodePoint(55296))), TerminalRule(A, UnicodeSpan(98, 97))>>,
                    {A}, S, {<<a>>})

NoTables ==
    Source(<<TerminalRule(A, Two("union", UnicodeCategory("Xx"), UnicodeBlock("Atlantis"))),
             TerminalRule(B, EscapedClass(TRUE, <<smile>>, {<<smile, smile>>}))>>, {A}, <<>>, {<<a>>})

\* The end of the range [\u8000-smile] is out of plane 0, which is not reported
\* The range [b-a], on which the program stops, beside another class
Inverted ==
    Source(<<TerminalRule(A, Repeat("plus", Class(TRUE, << <<a, b>> >>))), TerminalRule(B, Class(TRUE, << <<b, a>> >>))>>,
           {A}, <<>>, {<<a>>})

LongRange == Source(<<TerminalRule(A, Class(TRUE, << <<32768, smile>> >>))>>, {A}, <<>>, {<<smile>>, <<65000>>})

\* The class [\u9000-\uFFF0] has the surrogates in its span
Surrogated ==
    Source(<<TerminalRule(A, Class(TRUE, << <<36864, 65520>> >>))>>, {A}, <<>>, {<<smile>>})
-----------------------------------------------------------------------------
AllSources == {Keywords, Brackets, Repetitions, Differences, Planes, Contexts, Lined, Escapees,
               Tables, Hidden, HiddenSeparator, ContextualSeparator, Empty, Undefined, NoTables, Inverted}
SurrogateSource == {Surrogated}
LongRangeSource == {LongRange}

\* Everything but the last units: [^b-\uFFFF], which excludes nothing
Excluding == Source(<<TerminalRule(A, Class(FALSE, << <<b, 65535>> >>))>>, {A}, <<>>, {<<a>>, <<b>>})
ExcludingSource == {Excluding}
=============================================================================
