---------------------------- MODULE TerminalRules ---------------------------
(***************************************************************************)
(* The definitions of terminals, as the loader turns them into automata    *)
(* (sdk-rust/src/loaders/mod.rs).  A definition is a tree of records, its  *)
(* characters are code points.  Texts and classes are as they are written, *)
(* escape sequences included; the fields means and ranges, which the loader *)
(* does not read, say what is meant.                                       *)
(***************************************************************************)
EXTENDS FiniteAutomata
LOCAL INSTANCE SequencesExt
LOCAL INSTANCE TLC

Escaped(codes, means) == [op |-> "text", codes |-> codes, means |-> means, insensitive |-> FALSE]
Text(codes) == Escaped(codes, codes)
AnyCase(codes) == [Text(codes) EXCEPT !.insensitive = TRUE]
CodePoint(code) == [op |-> "codepoint", code |-> code]
EscapedClass(positive, codes, ranges) ==
    [op |-> "class", positive |-> positive, codes |-> codes, ranges |-> ranges]
Class(positive, ranges) ==
    EscapedClass(positive,
                 FlattenSeq([k \in DOMAIN ranges |-> <<ranges[k][1], 45, ranges[k][2]>>]),
                 ToSet(ranges))
UnicodeSpan(begin, end) == [op |-> "span", begin |-> begin, end |-> end]
UnicodeCategory(name) == [op |-> "category", of |-> name]
UnicodeBlock(name) == [op |-> "block", of |-> name]
AnyCharacter == [op |-> "any"]
Name(name) == [op |-> "name", name |-> name]
Repeat(op, inner) == [op |-> op, inner |-> inner]
Times(inner, min, max) == [op |-> "times", inner |-> inner, min |-> min, max |-> max]
Two(op, left, right) == [op |-> op, left |-> left, right |-> right]

-----------------------------------------------------------------------------
\* The character after a backslash, for those that have a meaning of their own
Escapes == 48 :> 0 @@ 97 :> 7 @@ 98 :> 8 @@ 102 :> 12 @@ 110 :> 10 @@ 114 :> 13 @@ 116 :> 9 @@ 118 :> 11

HexDigit(code) == CASE code \in 48 .. 57 -> code - 48
                    [] code \in 65 .. 70 -> code - 55
                    [] code \in 97 .. 102 -> code - 87
                    [] OTHER -> -1
Hexadecimal(codes) == FoldLeft(LAMBDA value, code : 16 * value + HexDigit(code), 0, codes)

\* The digits of a \u: eight, or four, or all there are.  With none, or when no character
\* has that number, the program stops
DigitsFrom(codes, i) ==
    LET l == CHOOSE n \in 0 .. Len(codes) + 1 - i :
                /\ \A k \in i .. i + n - 1 : HexDigit(codes[k]) >= 0
                /\ i + n > Len(codes) \/ HexDigit(codes[i + n]) < 0
    IN IF l >= 8 THEN 8 ELSE IF l >= 4 THEN 4 ELSE l

\* get_char_value: the character at an index, and the length of what stands for it
CharValue(codes, i) ==
    IF codes[i] # 92 \/ i = Len(codes) THEN <<codes[i], 1>>
    ELSE LET c == codes[i + 1]
         IN CASE c \in DOMAIN Escapes -> <<Escapes[c], 2>>
              [] c = 117 -> LET l == DigitsFrom(codes, i + 2)
                            IN <<Hexadecimal(SubSeq(codes, i + 2, i + 1 + l)), l + 2>>
              [] OTHER -> <<c, 2>>

\* replace_escapees
RECURSIVE UnescapedFrom(_, _)
UnescapedFrom(codes, i) ==
    IF i > Len(codes) THEN <<>>
    ELSE <<CharValue(codes, i)[1]>> \o UnescapedFrom(codes, i + CharValue(codes, i)[2])
Unescaped(codes) == UnescapedFrom(codes, 1)

-----------------------------------------------------------------------------
\* The rules for terminals, and the inline texts of syntactic rules
TerminalRule(name, definition) ==
    [kind |-> "rule", name |-> name, context |-> "default", definition |-> definition]
Fragment(name, definition) == [TerminalRule(name, definition) EXCEPT !.kind = "fragment"]
RuleIn(context, name, definition) == [TerminalRule(name, definition) EXCEPT !.context = context]
Inline(text) == [TerminalRule(Unescaped(text.codes), text) EXCEPT !.kind = "inline"]

IsCodePoint(code) == code <= 1114111 /\ code \notin Surrogates

\* A chain of states, each reached from the one before by one of some units;
\* the state 2 of the minimal automaton is not used
Chain(units) ==
    LET at(k) == IF k = 0 THEN 1 ELSE k + 2
    IN [Minimal EXCEPT !.size = @ + Len(units), !.exit = at(Len(units)),
                       !.edges = UNION {{<<at(k - 1), Single(u), at(k)>> : u \in units[k]} :
                                        k \in DOMAIN units}]

OtherCase(code) ==
    IF code \in 97 .. 122 THEN code - 32 ELSE IF code \in 65 .. 90 THEN code + 32 ELSE code

\* load_nfa_simple_text
TextNfa(codes, insensitive) ==
    Chain(FlattenSeq([k \in DOMAIN codes |->
        IF insensitive /\ OtherCase(codes[k]) # codes[k]
        THEN <<{codes[k], OtherCase(codes[k])}>>
        ELSE [i \in DOMAIN Utf16(codes[k]) |-> {Utf16(codes[k])[i]}]]))

\* load_nfa_class: what is written between the brackets, as ranges
RECURSIVE RangesFrom(_, _)
RangesFrom(codes, i) ==
    IF i > Len(codes) THEN {}
    ELSE LET begin == CharValue(codes, i)
             next == i + begin[2]
             end == CharValue(codes, next + 1)
         IN IF next < Len(codes) /\ codes[next] = 45
            THEN {<<begin[1], end[1]>>} \cup RangesFrom(codes, next + 1 + end[2])
            ELSE {<<begin[1], begin[1]>>} \cup RangesFrom(codes, next)

\* The spans of the ranges, cut at the surrogates; units are 16 bits of the code points.
\* The program stops on a span that ends before it begins (HasInvertedSpan)
ClassSpans(ranges) ==
    UNION {IF r[1] < 36096 /\ r[2] > 57343           \* 0x8D00, 0xDFFF
           THEN {Span(r[1], 55295), Span(57344, r[2] % 65536)}
           ELSE {Span(r[1] % 65536, r[2] % 65536)} : r \in ranges}

\* The beginning of the next gap, after the surrogates (b is a u16: after the last unit
\* it comes back to 0, or the program stops, see HasLastUnitExcluded)
PastSpan(b) == IF (b + 1) % 65536 \in Surrogates THEN 57344 ELSE (b + 1) % 65536

\* load_nfa_class: the gaps between spans sorted by their beginning
GapAfter(gaps, span) ==
    [spans |-> IF span.begin > gaps.next
               THEN gaps.spans \cup {Span(gaps.next, span.begin - 1)} ELSE gaps.spans,
     next |-> PastSpan(span.end)]

ClassGaps(spans) ==
    LET before(a, b) == a.begin < b.begin \/ (a.begin = b.begin /\ a.end < b.end)
        gaps == FoldLeft(GapAfter, [spans |-> {}, next |-> 0], InOrder(spans, before))
    IN gaps.spans \cup
       (IF gaps.next <= 55040                        \* 0xD700
        THEN {Span(gaps.next, 55295), Span(57344, MaxUnit)}
        ELSE IF gaps.next # MaxUnit THEN {Span(gaps.next, MaxUnit)}
        ELSE {})

\* The paths of a set of spans, and those of the characters out of plane 0
Paths(spans) == {<<span>> : span \in spans}
PairsTo(last) == {<<Span(55296, last), Span(56320, 57343)>>}

\* add_unicode_span_to_nfa, for a set of paths of one or two spans
PathsNfa(paths) ==
    LET before(p, q) == \/ p[1].begin < q[1].begin
                        \/ p[1].begin = q[1].begin /\ p[2].begin < q[2].begin
        pairs == InOrder({p \in paths : Len(p) = 2}, before)
    IN [Minimal EXCEPT !.size = @ + Len(pairs),
                       !.edges = {<<1, p[1], 2>> : p \in {x \in paths : Len(x) = 1}}
                           \cup UNION {{<<1, pairs[k][1], k + 2>>, <<k + 2, pairs[k][2], 2>>} :
                                       k \in DOMAIN pairs}]

\* load_nfa_class: the high surrogates go to 0xDEFF
ClassNfa(positive, codes) ==
    LET spans == ClassSpans(RangesFrom(codes, 1))
    IN IF positive THEN PathsNfa(Paths(spans))
       ELSE PathsNfa(Paths(ClassGaps(spans)) \cup PairsTo(57087))

\* Some of the categories and of the blocks of Unicode (unicode/categories.rs, blocks.rs)
Categories == [Cc |-> {<<0, 31>>, <<127, 159>>}, Zp |-> {<<8233, 8233>>},
               Co |-> {<<57344, 63743>>, <<983040, 1114109>>}]
Blocks == [BasicLatin |-> <<0, 127>>, Emoticons |-> <<128512, 128591>>]

\* load_nfa_unicode_span, load_nfa_unicode_category, load_nfa_unicode_block
SpanNfa(begin, end) == IF begin <= end THEN PathsNfa(CharSpansOf(begin, end)) ELSE Minimal
CategoryNfa(name) ==
    IF name \in DOMAIN Categories
    THEN PathsNfa(UNION {CharSpansOf(s[1], s[2]) : s \in Categories[name]}) ELSE Minimal
BlockNfa(name) ==
    IF name \in DOMAIN Blocks THEN SpanNfa(Blocks[name][1], Blocks[name][2]) ELSE Minimal

\* load_nfa_any
AnyNfa == PathsNfa(Paths({Span(0, 55295), Span(57344, MaxUnit)}) \cup PairsTo(56319))

NamedIn(terminals, name) == {k \in DOMAIN terminals : terminals[k].name = name}
Named(terminals, name) == terminals[CHOOSE k \in NamedIn(terminals, name) : TRUE]

\* load_nfa
RECURSIVE LoadNfa(_, _)
LoadNfa(terminals, d) ==
    CASE d.op = "text"      -> TextNfa(Unescaped(d.codes), d.insensitive)
      [] d.op = "codepoint" -> IF IsCodePoint(d.code) THEN TextNfa(<<d.code>>, FALSE) ELSE Minimal
      [] d.op = "class"     -> ClassNfa(d.positive, d.codes)
      [] d.op = "category"  -> CategoryNfa(d.of)
      [] d.op = "block"     -> BlockNfa(d.of)
      [] d.op = "span"      -> SpanNfa(d.begin, d.end)
      [] d.op = "any"       -> AnyNfa
      [] d.op = "name"      -> IF NamedIn(terminals, d.name) = {} THEN Minimal
                               ELSE WithoutFinals(Named(terminals, d.name).nfa)
      [] d.op = "optional"  -> Optional(LoadNfa(terminals, d.inner))
      [] d.op = "star"      -> ZeroOrMore(LoadNfa(terminals, d.inner))
      [] d.op = "plus"      -> OneOrMore(LoadNfa(terminals, d.inner))
      [] d.op = "times"     -> RepeatRange(LoadNfa(terminals, d.inner), d.min, d.max)
      [] d.op = "union"     -> Union(LoadNfa(terminals, d.left), LoadNfa(terminals, d.right))
      [] d.op = "minus"     -> Difference(LoadNfa(terminals, d.left), LoadNfa(terminals, d.right))
      [] d.op = "concat"    -> Concatenation(LoadNfa(terminals, d.left), LoadNfa(terminals, d.right))

\* The parts of a definition
RECURSIVE PartsOf(_)
PartsOf(d) ==
    {d} \cup (CASE d.op \in {"optional", "star", "plus", "times"} -> PartsOf(d.inner)
                [] d.op \in {"union", "minus", "concat"} -> PartsOf(d.left) \cup PartsOf(d.right)
                [] OTHER -> {})

ClassesOf(d) == {p \in PartsOf(d) : p.op = "class"}
SpansOfClass(p) == ClassSpans(RangesFrom(p.codes, 1))

\* CharSpan::new, which asserts that the span is valid
HasInvertedSpan(d) ==
    \E p \in ClassesOf(d) : \E span \in SpansOfClass(p) : span.begin > span.end

\* load_nfa_class: span.end + 1 overflows a u16
HasLastUnitExcluded(d) ==
    \E p \in ClassesOf(d) : ~ p.positive /\ \E span \in SpansOfClass(p) : span.end = MaxUnit

\* What the loader reports in a definition.  It is the beginning of a range of a class
\* that is looked at, also in the place of its end
DefinitionErrors(terminals, d) ==
    {p \in PartsOf(d) :
        \/ p.op = "codepoint" /\ ~ IsCodePoint(p.code)
        \/ p.op = "class" /\ \E r \in RangesFrom(p.codes, 1) : r[1] >= MaxUnit
        \/ p.op = "span" /\ p.begin > p.end
        \/ p.op = "category" /\ p.of \notin DOMAIN Categories
        \/ p.op = "block" /\ p.of \notin DOMAIN Blocks
        \/ p.op = "name" /\ NamedIn(terminals, p.name) = {}}
=============================================================================
