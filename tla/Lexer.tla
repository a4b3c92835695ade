-------------------------------- MODULE Lexer -------------------------------
(***************************************************************************)
(* A generated lexer at work (runtime-rust/src/lexers/impls.rs): the       *)
(* tokens of a text, their repository (runtime-rust/src/tokens.rs) and the *)
(* lexical errors.  Each turn of the loop of a lexer is a step; a          *)
(* context-sensitive lexer asks the parser for the priorities of the       *)
(* contexts, which may be anything here.                                   *)
(***************************************************************************)
EXTENDS FuzzyMatcher
LOCAL INSTANCE SequencesExt
LOCAL INSTANCE FiniteSetsExt

VARIABLES
    lexer,       \* [table, contextual, separator]
    text,        \* the input
    recovery,    \* LexerData::recovery
    index,       \* where the lexer is in the input
    tokens,      \* the repository: [terminal, index, length]
    errors,      \* ParseErrors: [kind, index]
    hasRun,      \* LexerData::has_run
    panicked     \* the lexer has stopped on an overflow

lexVars == <<lexer, text, recovery, index, tokens, errors, hasRun, panicked>>

NoLexer == [table |-> [offsets |-> <<>>, blocks |-> {}], contextual |-> FALSE, separator |-> 0]
Dollar == 0                            \* index 1 of the terminals, and SID_DOLLAR

LexInit ==
    /\ lexer = NoLexer
    /\ text = <<>>
    /\ recovery = 0
    /\ index = 0
    /\ tokens = <<>>
    /\ errors = {}
    /\ hasRun = FALSE
    /\ panicked = FALSE

\* The constructors of the lexers; the recovery may be changed by the user
Open(generated, input, distance) ==
    /\ lexer' = generated
    /\ text' = input
    /\ recovery' = distance
    /\ index' = 0
    /\ tokens' = <<>>
    /\ errors' = {}
    /\ hasRun' = FALSE
    /\ panicked' = FALSE

-----------------------------------------------------------------------------
(* The automaton *)

NoTokenMatch == [state |-> DEAD_STATE, length |-> 0]

\* The states that the units of the input lead to, from the first state
Run(table, units) ==
    LET state[k \in 0 .. Len(units)] ==
            IF k = 0 THEN 1
            ELSE IF state[k - 1] = DEAD_STATE THEN DEAD_STATE
            ELSE TargetBy(StateAt(table, state[k - 1]), units[k].unit)
    IN state

UnitsLength(units, n) ==
    LET sum[k \in 0 .. n] == IF k = 0 THEN 0 ELSE sum[k - 1] + units[k].length IN sum[n]

\* Fault: the first accepting state
RunDfa_First(table, units) ==
    LET state == Run(table, units)
        matching == {k \in 0 .. Len(units) : /\ state[k] # DEAD_STATE
                                             /\ IsMatching(StateAt(table, state[k]))}
    IN IF matching = {} THEN NoTokenMatch
       ELSE [state |-> state[Min(matching)], length |-> UnitsLength(units, Min(matching))]

\* run_dfa, before the end of the input: the last accepting state
RunDfa(table, units) ==
    LET state == Run(table, units)
        matching == {k \in 0 .. Len(units) : /\ state[k] # DEAD_STATE
                                             /\ IsMatching(StateAt(table, state[k]))}
    IN IF matching = {} THEN NoTokenMatch
       ELSE [state |-> state[Max(matching)], length |-> UnitsLength(units, Max(matching))]

\* run_fuzzy_matcher
Recovered ==
    IF recovery = 0 THEN NoMatch
    ELSE FuzzyMatch(lexer.table, text, index, lexer.separator, recovery)

Straight == RunDfa(lexer.table, UnitsFrom(text, index))

\* What the turn works on
Found ==
    IF Straight # NoTokenMatch THEN Straight
    ELSE IF Recovered.length = 0 THEN NoTokenMatch
    ELSE [state |-> Recovered.state, length |-> Recovered.length]

\* Fault: a character is passed over by the length of its first unit
Advance_Unit == IF Found = NoTokenMatch THEN UnitsFrom(text, index)[1].length ELSE Found.length

\* How far the turn goes: a character that nothing matches is passed over
Advance == IF Found = NoTokenMatch THEN Utf8Length(CharAt(text, index)) ELSE Found.length

\* FuzzyMatcher::on_error, on_failure
ErrorAt(i) ==
    [kind |-> IF IsEnd(text, i) THEN "UnexpectedEndOfInput" ELSE "UnexpectedChar", index |-> i]

NewErrors ==
    IF Straight # NoTokenMatch THEN {}
    ELSE IF Recovered.length = 0 THEN {ErrorAt(index)}
    ELSE {ErrorAt(i) : i \in ReportedAt(index, Recovered)}

-----------------------------------------------------------------------------
(* The contexts *)

Always == 999                          \* usize::MAX, of the default context
None == 1000                           \* no priority, after the others

\* ContextSensitiveLexer::get_terminal_for: the separator first, then the first
\* terminal with the best priority; the first of all if none has any
TerminalFor(matches, priorities) ==
    LET rank(k) == priorities[matches[k].context]
        best == {k \in DOMAIN matches : \A j \in DOMAIN matches : rank(k) <= rank(j)}
    IN IF \E k \in DOMAIN matches : matches[k].terminal = lexer.separator
       THEN lexer.separator ELSE matches[Min(best)].terminal

\* What the parser may answer: each context but the first may be open, near or
\* further, or not
Priorities(state) ==
    LET all == {m.context : m \in Range(StateAt(lexer.table, state).matches)}
    IN {p \in [all -> {0, 1, Always, None}] : \A c \in all : c = 1 <=> p[c] = Always}

\* The first terminal of the state, without contexts
TerminalOf(state, priorities) ==
    LET matches == StateAt(lexer.table, state).matches
    IN IF lexer.contextual THEN TerminalFor(matches, priorities) ELSE matches[1].terminal

-----------------------------------------------------------------------------
(* The loop: find_tokens and get_next_token *)

Running == lexer # NoLexer /\ ~ hasRun /\ ~ panicked

\* TokenRepository::add
Add(terminal, i, length) ==
    tokens' = Append(tokens, [terminal |-> terminal, index |-> i, length |-> length])

LexDollar ==
    /\ Running
    /\ IsEnd(text, index)
    /\ Add(Dollar, index, 0)
    /\ hasRun' = TRUE
    /\ UNCHANGED <<lexer, text, recovery, index, errors, panicked>>

LexToken ==
    /\ Running
    /\ ~ IsEnd(text, index)
    /\ Found # NoTokenMatch
    /\ \E priorities \in Priorities(Found.state) :
          LET terminal == TerminalOf(Found.state, priorities)
          IN IF terminal = lexer.separator THEN UNCHANGED tokens
             ELSE Add(terminal, index, Found.length)
    /\ index' = index + Advance
    /\ errors' = errors \cup NewErrors
    /\ UNCHANGED <<lexer, text, recovery, hasRun, panicked>>

SkipChar ==
    /\ Running
    /\ ~ IsEnd(text, index)
    /\ Found = NoTokenMatch
    /\ index' = index + Advance
    /\ errors' = errors \cup NewErrors
    /\ UNCHANGED <<lexer, text, recovery, tokens, hasRun, panicked>>

\* A build with overflow checks stops where another one goes on
LexPanic ==
    /\ Running
    /\ ~ IsEnd(text, index)
    /\ Straight = NoTokenMatch
    /\ Recovered.overflows
    /\ panicked' = TRUE
    /\ UNCHANGED <<lexer, text, recovery, index, tokens, errors, hasRun>>

LexNext == LexDollar \/ LexToken \/ SkipChar \/ LexPanic

-----------------------------------------------------------------------------
(* TokenRepository::find_token_at *)

\* The code's sizes are unsigned: what is before the first token has no answer
NoToken == 0
Underflow == -1

\* Fault: the index after a token is still in it
FindTokenAt_Ends(i) ==
    LET search[l \in 1 .. (Len(tokens) + 1), r \in 0 .. Len(tokens)] ==
            IF l > r THEN NoToken
            ELSE LET m == (l + r - 2) \div 2 + 1
                     t == tokens[m]
                 IN IF i < t.index THEN (IF m = 1 THEN Underflow ELSE search[l, m - 1])
                    ELSE IF i <= t.index + t.length THEN m
                    ELSE search[m + 1, r]
    IN IF tokens = <<>> THEN NoToken ELSE search[1, Len(tokens)]

FindTokenAt(i) ==
    LET search[l \in 1 .. (Len(tokens) + 1), r \in 0 .. Len(tokens)] ==
            IF l > r THEN NoToken
            ELSE LET m == (l + r - 2) \div 2 + 1
                     t == tokens[m]
                 IN IF i < t.index THEN (IF m = 1 THEN Underflow ELSE search[l, m - 1])
                    ELSE IF i < t.index + t.length THEN m
                    ELSE search[m + 1, r]
    IN IF tokens = <<>> THEN NoToken ELSE search[1, Len(tokens)]
=============================================================================
