-------------------------------- MODULE Lexing ------------------------------
(***************************************************************************)
(* A lexer from its grammar to its tokens: the SDK compiles the terminals, *)
(* and the runtime lexes texts with the table that was written.  What the  *)
(* lexer does is compared with the definitions of the terminals.           *)
(***************************************************************************)
EXTENDS LexerGeneration, Lexer
LOCAL INSTANCE FiniteSetsExt
LOCAL INSTANCE SequencesExt

CONSTANTS
    Recoveries,  \* the distances that LexerData::recovery is given
    MaxWord      \* the length of the words on which definitions and tables are compared

vars == <<source, next, terminals, contexts, reported, built, table, aborted,
          lexer, text, recovery, index, tokens, errors, hasRun, panicked>>

Init == GenInit /\ LexInit

\* A text is opened with the lexer that was written
OpenText ==
    /\ table # NoTable
    /\ lexer = NoLexer
    /\ \E input \in source.texts, distance \in Recoveries : Open(Generated, input, distance)
    /\ UNCHANGED genVars

Next ==
    \/ GenNext /\ UNCHANGED lexVars
    \/ OpenText
    \/ LexNext /\ UNCHANGED genVars

\* The compilation and the lexer go on as long as they can: this is the weak fairness
\* of GenNext and of LexNext, with what enables a change written out.  A turn that
\* covers nothing is not counted on
Compiling == Loading \/ (~ aborted /\ reported = {} /\ built = NotBuilt)
Turning == Running /\ (IsEnd(text, index) \/ Advance > 0)

Spec ==
    /\ Init
    /\ [][Next]_vars
    /\ []<>(~ Compiling) \/ []<><<GenNext>>_genVars
    /\ []<>(~ Turning) \/ []<><<LexNext>>_lexVars

-----------------------------------------------------------------------------
(* What a definition denotes: words of code points *)

Within(code, ranges) == \E r \in ranges : r[1] <= code /\ code <= r[2]

RECURSIVE Denotes(_, _)
Denotes(d, w) ==
    LET after(n) == SubSeq(w, n + 1, Len(w))
        first(n) == SubSeq(w, 1, n)
        again(rest) == \E n \in 1 .. Len(w) : Denotes(d.inner, first(n)) /\ Denotes(rest, after(n))
        less == [d EXCEPT !.min = IF @ = 0 THEN 0 ELSE @ - 1, !.max = @ - 1]
    IN CASE d.op = "text" -> /\ Len(w) = Len(d.means)
                             /\ \A k \in DOMAIN w : \/ w[k] = d.means[k]
                                                    \/ d.insensitive /\ w[k] = OtherCase(d.means[k])
         [] d.op = "codepoint" -> w = <<d.code>>
         [] d.op = "any" -> Len(w) = 1
         [] d.op = "class" -> Len(w) = 1 /\ (Within(w[1], d.ranges) <=> d.positive)
         [] d.op = "span" -> Len(w) = 1 /\ Within(w[1], {<<d.begin, d.end>>})
         [] d.op = "category" -> Len(w) = 1 /\ Within(w[1], Categories[d.of])
         [] d.op = "block" -> Len(w) = 1 /\ Within(w[1], {Blocks[d.of]})
         [] d.op = "name" -> Denotes(Named(terminals, d.name).definition, w)
         [] d.op = "optional" -> w = <<>> \/ Denotes(d.inner, w)
         [] d.op = "star" -> w = <<>> \/ again(d)
         [] d.op = "plus" -> Denotes(d.inner, w) \/ again([d EXCEPT !.op = "star"])
         [] d.op = "times" -> \/ w = <<>> /\ (d.min = 0 \/ Denotes(d.inner, w))
                              \/ d.max > 0 /\ again(less)
         [] d.op = "union" -> Denotes(d.left, w) \/ Denotes(d.right, w)
         [] d.op = "minus" -> Denotes(d.left, w) /\ ~ Denotes(d.right, w)
         [] d.op = "concat" -> \E n \in 0 .. Len(w) : /\ Denotes(d.left, first(n))
                                                      /\ Denotes(d.right, after(n))

\* The terminals that a word belongs to
TerminalsOf(w) == {k \in DOMAIN terminals : /\ terminals[k].kind # "fragment"
                                            /\ Denotes(terminals[k].definition, w)}

\* Those that a lexer may take it for
BestTerminalsOf(w) == FirstOfContexts(TerminalsOf(w), ContextOf)

Alphabet == UNION {Range(t) : t \in source.texts}
Words(n) == UNION {[1 .. k -> Alphabet] : k \in 1 .. n}

-----------------------------------------------------------------------------
(* Properties *)

\* What the automaton of a table makes of a word
TableReads(written, w) ==
    LET units == UnitsFrom(w, 0)
        state == Run(written, units)[Len(units)]
    IN IF state = DEAD_STATE THEN {}
       ELSE {m.terminal : m \in Range(StateAt(written, state).matches)}

\* The table that is written recognises each short word as the terminals whose
\* definitions denote it, one for each context: through the building of the NFAs, the
\* determinisation and the differences, the minimisation, the merging of the spans,
\* the pruning, the offsets of the blocks and the two parts of a block
RecognisesDefinitions ==
    (table # NoTable /\ lexer = NoLexer) =>
        \A w \in Words(MaxWord) : TableReads(table, w) = BestTerminalsOf(w)

\* A grammar is refused for a terminal that syntactic rules use exactly when no
\* word is read as that terminal, and for its separator likewise
RefusesUnmatchable ==
    (built # NotBuilt /\ lexer = NoLexer) =>
        LET seen == UNION {BestTerminalsOf(w) : w \in Words(MaxWord)}
            wanted == Used \cup Separator
        IN /\ table # NoTable => wanted \subseteq seen
           /\ \A r \in reported : r.kind = "TerminalCannotBeMatched" => r.what[1] \notin seen
           /\ \A r \in reported : r.kind = "SeparatorCannotBeMatched" => Separator \cap seen = {}
           /\ \A r \in reported : r.kind = "TerminalMatchesEmpty" => r.what \in TerminalsOf(<<>>)

\* The characters from an index, and how many of them the longest lexeme has
After(i) == SubSeq(text, CharsBefore(text, i) + 1, Len(text))
Word(t) == SubSeq(text, CharsBefore(text, t.index) + 1, CharsBefore(text, t.index + t.length))
LexemesAt(i) == {n \in 1 .. Len(After(i)) : TerminalsOf(SubSeq(After(i), 1, n)) # {}}

\* From an index to another there are only separators, and characters that begin
\* nothing and are reported
RECURSIVE OnlySkipped(_, _)
OnlySkipped(i, j) ==
    \/ i = j
    \/ /\ i < j
       /\ IF LexemesAt(i) = {}
          THEN /\ \E e \in errors : e.index = i
               /\ OnlySkipped(i + Utf8Length(CharAt(text, i)), j)
          ELSE LET word == SubSeq(After(i), 1, Max(LexemesAt(i)))
               IN lexer.separator \in TerminalsOf(word) /\ OnlySkipped(i + Length8(word), j)

EndOf(k) == IF k = 0 THEN 0 ELSE tokens[k].index + tokens[k].length

\* The tokens are the longest lexemes of the definitions, of the terminal that comes
\* last in the grammar (in some context), or what a recovery makes of a place where no
\* lexeme begins; nothing else of the text is passed over but separators and reported
\* characters.  With no recovery, nothing is made up
LexesByDefinition ==
    /\ \A k \in DOMAIN tokens :
          /\ OnlySkipped(EndOf(k - 1), tokens[k].index)
          /\ \/ tokens[k].terminal = Dollar
             \/ LexemesAt(tokens[k].index) = {} /\ recovery > 0
             \/ /\ Len(Word(tokens[k])) = Max(LexemesAt(tokens[k].index))
                /\ tokens[k].terminal \in BestTerminalsOf(Word(tokens[k]))
    /\ hasRun => tokens # <<>> /\ OnlySkipped(EndOf(Len(tokens)), Length8(text))

\* The states of the table by their distance to some units: what n edits, of a unit
\* dropped, replaced or inserted, make of them
Edited(units) ==
    LET step(states, u) == {TargetBy(StateAt(table, s), u) : s \in states} \ {DEAD_STATE}
        anywhere(states) == UNION {Range(TargetsOf(StateAt(table, s))) : s \in states}
        near[k \in 0 .. Len(units), d \in 0 .. recovery] ==
            IF k = 0 THEN IF d = 0 THEN {1} ELSE near[0, d - 1] \cup anywhere(near[0, d - 1])
            ELSE step(near[k - 1, d], units[k].unit) \cup
                 (IF d = 0 THEN {}
                  ELSE near[k - 1, d - 1] \cup anywhere(near[k - 1, d - 1])
                                          \cup anywhere(near[k, d - 1]) \cup near[k, d - 1])
    IN near[Len(units), recovery]

\* A token that a recovery produces is within the distance that was set of some
\* word of its terminal.  A recovery fails, in a build with overflow checks, on a
\* character out of plane 0 only (its first unit has no length), and with a distance
\* that leaves an error to make after another one.
RecoversNearby ==
    /\ panicked => recovery > 1 /\ CharAt(text, index) >= Plane1
    /\ \A k \in DOMAIN tokens :
        LET t == tokens[k]
        IN t.terminal = Dollar
           \/ \E s \in Edited(UnitsFrom(Word(t), 0)) :
                 \E m \in Range(StateAt(table, s).matches) : m.terminal = t.terminal

\* The tokens are in the order of the text, and looking for the token at an index
\* finds the one that contains it, if the index is not before them all
FindsTokens ==
    /\ \A k \in DOMAIN tokens \ {1} : EndOf(k - 1) <= tokens[k].index
    /\ tokens # <<>> => \A i \in tokens[1].index .. (Length8(text) + 1) :
          LET found == FindTokenAt(i)
          IN IF found = NoToken THEN \A k \in DOMAIN tokens : i \notin tokens[k].index .. (EndOf(k) - 1)
             ELSE i \in tokens[found].index .. (EndOf(found) - 1)

\* Where lines end: after LF, after CR if no LF follows, after other endings.  As in the
\* code, and unlike what is said above is_line_ending, a CR at the very end does not
\* count, and neither does one of the other endings just after a CR: it begins the line
\* that the CR has opened
EndsLine(k) ==
    \/ text[k] = LF
    \/ text[k] \in LineEnds /\ (k = 1 \/ text[k - 1] # CR)
    \/ text[k] = CR /\ k < Len(text) /\ text[k + 1] # LF

\* The positions of the characters count the lines (those of EndsLine) and the columns
\* as an editor does, and lead back to the same index; the context of a position points at its
\* character, unless it is among the blanks that head its line
PositionsExact ==
    \A n \in 0 .. Len(text) :
        LET i == Size8(text, n)
            p == PositionAt(text, i)
            ends == {k \in 1 .. n : EndsLine(k)}
        IN /\ p.line = Cardinality(ends) + 1
           /\ p.column = n - (IF ends = {} THEN 0 ELSE Max(ends)) + 1
           /\ IndexAt(text, p) = i
           /\ LET shown == ContextFor(text, p, 1)
              IN (shown.blanks \in 0 .. (Len(shown.content) - 1)) =>
                    shown.content[shown.blanks + 1] = text[n + 1]
           /\ (n < Len(text) /\ text[n + 1] \notin WhiteSpaces) =>
                 ContextFor(text, p, 1).blanks >= 0

\* Both ways of finding a place in a text
PlacesExact == FindsTokens /\ PositionsExact

\* What ends: the compilation of a grammar, and the lexing of a text
Terminates ==
    /\ <>(reported # {} \/ table # NoTable \/ aborted)
    /\ (lexer # NoLexer) ~> (hasRun \/ panicked)

-----------------------------------------------------------------------------
(* What the code says, and does not keep *)

\* runtime-rust/src/errors.rs:249, "Lexical error occurring when an unexpected
\* character is encountered": what is not a word of its terminal comes with an error
RepairsAreReported ==
    \A k \in DOMAIN tokens :
        \/ tokens[k].terminal \in TerminalsOf(Word(tokens[k])) \cup {Dollar}
        \/ \E e \in errors : e.index \in tokens[k].index .. EndOf(k)

\* sdk-rust/src/errors/mod.rs:177, "Terminal matches empty string, which is not
\* allowed": a token that is not the end of the text is not empty
NoEmptyToken == \A k \in DOMAIN tokens : tokens[k].terminal # Dollar => tokens[k].length > 0
=============================================================================
