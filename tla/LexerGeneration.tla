--------------------------- MODULE LexerGeneration --------------------------
(***************************************************************************)
(* From the terminals of a grammar to the table of its lexer: the loader   *)
(* (sdk-rust/src/loaders/mod.rs), the checks of Grammar::build             *)
(* (sdk-rust/src/grammars.rs) and the writing of the table.                *)
(*                                                                         *)
(* A source is [rules, used, separator, texts]: the rules for terminals in *)
(* their order, then the inline texts of the syntactic rules; the names    *)
(* that the syntactic rules use; the option Separator, or NoName; the      *)
(* texts to lex.  A name is a sequence of code points, as a text is.       *)
(***************************************************************************)
EXTENDS TerminalRules
LOCAL INSTANCE FiniteSetsExt

CONSTANT Sources

VARIABLES
    source,      \* the grammar being compiled
    next,        \* the next rule to load
    terminals,   \* Grammar::terminals; the number of a terminal is its id
    contexts,    \* Grammar::contexts
    reported,    \* the errors
    built,       \* the DFA, once built
    table,       \* the table of the lexer, once written
    aborted      \* the program has stopped on a range of a class

genVars == <<source, next, terminals, contexts, reported, built, table, aborted>>

NoName == <<>>
NotBuilt == [size |-> -1, edges |-> {}, finals |-> {}]
NoTable == [offsets |-> <<>>, blocks |-> {}]
DefaultContext == 1

\* Grammar::resolve_context
Resolved(all, context) ==
    IF \E k \in DOMAIN all : all[k] = context THEN all ELSE Append(all, context)
ContextNumber(all, context) == CHOOSE k \in DOMAIN all : all[k] = context

\* Grammar::get_terminal_for_value: the value of a named terminal is its name
WithValue(value) == {k \in DOMAIN terminals : terminals[k].value = value}

\* Grammar::add_terminal: the exit recognises the terminal
Terminal(rule, nfa, all) ==
    LET id == Len(terminals) + 1
    IN [name |-> IF rule.kind = "inline" THEN NoName ELSE rule.name, value |-> rule.name,
        nfa |-> [nfa EXCEPT !.finals = @ \cup {<<nfa.exit, id>>}],
        context |-> ContextNumber(all, rule.context), kind |-> rule.kind,
        definition |-> rule.definition]

Report(kind, what) == [kind |-> kind, what |-> what]

GenInit ==
    /\ source \in Sources
    /\ next = 1
    /\ terminals = <<>>
    /\ contexts = <<"default">>
    /\ reported = {}
    /\ built = NotBuilt
    /\ table = NoTable
    /\ aborted = FALSE

Rule == source.rules[next]

Loading == next <= Len(source.rules) /\ ~ aborted

\* load_terminal_rule
LoadTerminalRule ==
    /\ Loading
    /\ Rule.kind # "inline"
    /\ NamedIn(terminals, Rule.name) # {} \/ ~ HasInvertedSpan(Rule.definition)
    /\ next' = next + 1
    /\ contexts' = Resolved(contexts, Rule.context)
    /\ IF NamedIn(terminals, Rule.name) # {}
       THEN /\ reported' = reported \cup {Report("OverridingPreviousTerminal", Rule.name)}
            /\ UNCHANGED terminals
       ELSE /\ reported' = reported \cup
                  {Report("Definition", p) : p \in DefinitionErrors(terminals, Rule.definition)}
            /\ terminals' = Append(terminals,
                  Terminal(Rule, LoadNfa(terminals, Rule.definition), contexts'))
    /\ UNCHANGED <<source, built, table, aborted>>

\* load_terminal_rule, when the definition has a span that CharSpan::new refuses, or,
\* in a build with overflow checks, a negative class with a span up to the last unit
AbortOnClass ==
    /\ Loading
    /\ Rule.kind # "inline"
    /\ NamedIn(terminals, Rule.name) = {}
    /\ HasInvertedSpan(Rule.definition) \/ HasLastUnitExcluded(Rule.definition)
    /\ aborted' = TRUE
    /\ UNCHANGED <<source, next, terminals, contexts, reported, built, table>>

\* load_simple_rule_atomic_inline_text
LoadInlineText ==
    /\ Loading
    /\ Rule.kind = "inline"
    /\ next' = next + 1
    /\ terminals' = IF WithValue(Rule.name) # {} THEN terminals
                    ELSE Append(terminals, Terminal(Rule, LoadNfa(terminals, Rule.definition), contexts))
    /\ UNCHANGED <<source, contexts, reported, built, table, aborted>>

Lexed == SelectSeq(terminals, LAMBDA t : t.kind # "fragment")
ContextOf == [k \in DOMAIN terminals |-> terminals[k].context]

\* The terminals of the syntactic rules: those they name, and their inline texts
Used == UNION ({NamedIn(terminals, name) : name \in source.used} \cup
               {WithValue(source.rules[k].name) :
                   k \in {x \in DOMAIN source.rules : source.rules[x].kind = "inline"}})

Separator == NamedIn(terminals, source.separator)

\* Fault: a separator that the lexer never produces is let through
SeparatorErrors_Named(dfa) ==
    IF source.separator # NoName /\ Separator = {}
    THEN {Report("SeparatorNotDefined", source.separator)} ELSE {}

\* Grammar::get_separator
SeparatorErrors(dfa) ==
    IF source.separator = NoName THEN {}
    ELSE IF Separator = {} THEN {Report("SeparatorNotDefined", source.separator)}
    ELSE LET s == Max(Separator)
         IN IF terminals[s].context # DefaultContext THEN {Report("SeparatorIsContextual", s)}
            ELSE IF s \in ExpectedTerminals(dfa, ContextOf) THEN {}
            ELSE {Report("SeparatorCannotBeMatched", Overriders(dfa, s, ContextOf))}

\* lr.rs, find_unmatchable_tokens
UnmatchableErrors(dfa) ==
    {Report("TerminalCannotBeMatched", <<t, Overriders(dfa, t, ContextOf)>>) :
        t \in Used \ ExpectedTerminals(dfa, ContextOf)}

\* Grammar::build, for the lexer: it stops at the first kind of error
BuildErrors(dfa) ==
    IF dfa.size > 0 /\ ItemsOf(dfa, 1) # {}
    THEN {Report("TerminalMatchesEmpty", i) : i \in ItemsOf(dfa, 1)}
    ELSE IF SeparatorErrors(dfa) # {} THEN SeparatorErrors(dfa)
    ELSE UnmatchableErrors(dfa)

Build ==
    /\ next = Len(source.rules) + 1
    /\ reported = {}
    /\ built = NotBuilt
    /\ built' = BuiltDfa([k \in DOMAIN Lexed |-> Lexed[k].nfa])
    /\ reported' = BuildErrors(built')
    /\ table' = IF reported' = {} THEN Written(built', ContextOf) ELSE NoTable
    /\ UNCHANGED <<source, next, terminals, contexts, aborted>>

GenNext == LoadTerminalRule \/ LoadInlineText \/ AbortOnClass \/ Build

\* The lexer that is generated, from context-free or context-sensitive code
Generated ==
    [table |-> table, contextual |-> Len(contexts) > 1,
     separator |-> IF source.separator = NoName THEN 0 ELSE Max(Separator)]
=============================================================================
