---------------------------------- MODULE Texts ----------------------------------
(***************************************************************************)
(* Characters: spans of UTF-16 units (sdk-rust/src/lib.rs) and of code     *)
(* points (sdk-rust/src/unicode/mod.rs), which label the automata; and the *)
(* text of the runtime (runtime-rust/src/text.rs): indices in bytes of     *)
(* UTF-8, the UTF-16 units that the automaton reads, lines and positions.  *)
(* A text is a sequence of code points.                                    *)
(***************************************************************************)
EXTENDS Integers, Sequences, FiniteSets
LOCAL INSTANCE SequencesExt

-----------------------------------------------------------------------------
(* Spans *)

MaxUnit == 65535                       \* u16::MAX
Surrogates == 55296 .. 57343           \* D800 .. DFFF: they come in pairs
HighSurrogates == 55296 .. 56319
LowSurrogates == 56320 .. 57343
Plane1 == 65536                        \* the first code point out of plane 0

Span(begin, end) == [begin |-> begin, end |-> end]
Single(unit) == Span(unit, unit)

\* CHARSPAN_INVALID, which also labels the epsilon transitions
EPSILON == Span(1, 0)

\* A finite set in an order that is total on it
InOrder(set, Before(_, _)) ==
    [k \in 1 .. Cardinality(set) |->
        CHOOSE x \in set : Cardinality({y \in set : Before(y, x)}) = k - 1]

Covers(span, unit) == span.begin <= unit /\ unit <= span.end

\* The UTF-16 encoding of a code point (CodePoint::get_utf16, whose second
\* unit is 0 in plane 0)
Utf16(code) ==
    IF code < Plane1 THEN <<code>>
    ELSE <<55296 + ((code - Plane1) \div 1024), 56320 + ((code - Plane1) % 1024)>>

\* Span::get_char_spans_plane_x: pairs of spans, for the high surrogate and
\* the low one, between the encodings b and e
PairSpans(b, e) ==
    CASE b[1] = e[1] ->
            {<<Single(b[1]), Span(b[2], e[2])>>}
      [] b[1] + 1 = e[1] ->
            {<<Single(b[1]), Span(b[2], 57343)>>, <<Single(e[1]), Span(56320, e[2])>>}
      [] OTHER ->
            {<<Single(b[1]), Span(b[2], 57343)>>,
             <<Span(b[1] + 1, e[1] - 1), Span(56320, 57343)>>,
             <<Single(e[1]), Span(56320, e[2])>>}

Plane16 == 1048576                     \* the first code point of the last plane

\* Span::get_char_spans, a set of paths of one or two spans.  A span that leaves
\* plane 0 goes on at plane 16: the planes in between are missed
CharSpansOf(begin, end) ==
    LET b == Utf16(begin)
        e == Utf16(end)
    IN IF end < Plane1 THEN {<<Span(b[1], e[1])>>}
       ELSE IF begin < Plane1 THEN PairSpans(Utf16(Plane16), e) \cup {<<Span(b[1], MaxUnit)>>}
       ELSE PairSpans(b, e)

-----------------------------------------------------------------------------
(* The text *)

CR == 13
LF == 10
\* The other characters that end a line
LineEnds == {11, 12, 133, 8232, 8233}
WhiteSpaces == {9, 10, 11, 12, 13, 32, 133, 160, 8232, 8233}

Utf8Length(code) ==
    IF code < 128 THEN 1 ELSE IF code < 2048 THEN 2 ELSE IF code < Plane1 THEN 3 ELSE 4

\* The size in bytes of the first n characters
Size8(text, n) ==
    LET size[k \in 0 .. n] == IF k = 0 THEN 0 ELSE size[k - 1] + Utf8Length(text[k]) IN size[n]

Indices(text) == {Size8(text, n) : n \in 0 .. Len(text)}
Length8(text) == Size8(text, Len(text))
IsEnd(text, index) == index >= Length8(text)

\* How many characters there are before an index (a slice panics between two)
CharsBefore(text, index) == CHOOSE n \in 0 .. Len(text) : Size8(text, n) = index
CharAt(text, index) == text[CharsBefore(text, index) + 1]

\* Utf16Iter: the units of a character; the first of two has no length
UnitsOf(code) ==
    LET units == Utf16(code)
    IN [i \in DOMAIN units |->
           [unit |-> units[i], length |-> IF i = Len(units) THEN Utf8Length(code) ELSE 0]]

\* Text::iter_utf16_from
UnitsFrom(text, index) ==
    LET rest == SubSeq(text, CharsBefore(text, index) + 1, Len(text))
    IN FlattenSeq([k \in DOMAIN rest |-> UnitsOf(rest[k])])

-----------------------------------------------------------------------------
(* Lines and positions *)

\* is_line_ending: CR with whatever comes after it, or an ending by itself
IsLineEnding(c1, c2) == c2 \in LineEnds \/ c1 = CR \/ c2 = LF

\* find_lines_in: the indices where lines begin
Lines(text) ==
    LET before(k) == IF k = 1 THEN 0 ELSE text[k - 1]
        begin(k) == IF before(k) = CR /\ text[k] # LF THEN Size8(text, k - 1) ELSE Size8(text, k)
        ended == SelectSeq([k \in DOMAIN text |-> k],
                           LAMBDA k : IsLineEnding(before(k), text[k]))
    IN <<0>> \o [i \in DOMAIN ended |-> begin(ended[i])]

\* find_line_at, numbered from 1
LineAt(lines, index) ==
    LET after == {i \in DOMAIN lines \ {1} : index < lines[i]}
    IN IF after = {} THEN Len(lines) ELSE (CHOOSE i \in after : \A j \in after : i <= j) - 1

\* Text::get_position_at
PositionAt(text, index) ==
    LET line == LineAt(Lines(text), index)
    IN [line |-> line,
        column |-> CharsBefore(text, index) - CharsBefore(text, Lines(text)[line]) + 1]

\* Text::get_index_at
IndexAt(text, position) ==
    LET begin == CharsBefore(text, Lines(text)[position.line])
        end == IF begin + position.column - 1 > Len(text) THEN Len(text)
               ELSE begin + position.column - 1
    IN Size8(text, end)

\* Text::get_line_content, without its ending and its heading white spaces
LineContent(text, line) ==
    LET lines == Lines(text)
        end == IF line = Len(lines) THEN Length8(text) ELSE lines[line + 1]
    IN SubSeq(text, CharsBefore(text, lines[line]) + 1, CharsBefore(text, end))

Heading(content) ==
    LET blank[k \in 0 .. Len(content)] ==
            IF k < Len(content) /\ content[k + 1] \in WhiteSpaces THEN blank[k + 1] ELSE k
    IN blank[0]

RECURSIVE TrimmedEnd(_)
TrimmedEnd(content) ==
    IF content # <<>> /\ Last(content) \in LineEnds \cup {CR, LF}
    THEN TrimmedEnd(Front(content)) ELSE content

\* Text::get_context_for: the characters shown, how many come before the
\* pointer (negative where the code's subtraction of sizes overflows) and how
\* many are pointed at
ContextFor(text, position, length) ==
    LET line == TrimmedEnd(LineContent(text, position.line))
        content == SubSeq(line, Heading(line) + 1, Len(line))
        blanks == position.column - 1 - Heading(line)
        rest == SubSeq(content, blanks + 1, Len(content))
        pointed == {k \in DOMAIN rest : Size8(rest, k - 1) < length}
    IN [content |-> content, blanks |-> blanks,
        pointed |-> IF blanks >= 0 /\ Cardinality(pointed) > 1 THEN Cardinality(pointed) ELSE 1]
=============================================================================
