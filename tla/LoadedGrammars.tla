--------------------------- MODULE LoadedGrammars ---------------------------
(***************************************************************************)
(* What the rules of the sources mean, and the grammars that are loaded    *)
(* from them: the words of the variables up to a length, with the marks of *)
(* the tree actions, of the sub-rules and of the contexts.                 *)
(*                                                                         *)
(* A word is a sequence of letters.  A symbol with an action, a sub-rule   *)
(* and a part in a context are put between two marks.                      *)
(***************************************************************************)
EXTENDS Inheritance, GrammarLoading
LOCAL INSTANCE SequencesExt

CONSTANTS MaxLetters  \* bound: the words are compared up to this length

Between(mark, word) == <<<<"begin">> \o mark>> \o word \o <<<<"end">>>>
Acted(action, word) == IF action = "NONE" THEN word ELSE Between(<<action>>, word)
Short(words) == {w \in words : Len(w) <= MaxLetters}

\* Parts are sequences of [word, action], one for each symbol
Flat(part) == FlattenSeq([k \in DOMAIN part |-> Acted(part[k].action, part[k].word)])
ShortParts(parts) == {p \in parts : Len(Flat(p)) <= MaxLetters}
Concatenations(P, Q) == ShortParts({p \o q : p \in P, q \in Q})
One(words) == {<<[word |-> w, action |-> "NONE"]>> : w \in words}
-----------------------------------------------------------------------------
(***************************************************************************)
(* The sources: a template stands for its definition with its parameters   *)
(* replaced, for each of its calls.                                        *)
(***************************************************************************)
RECURSIVE Replaced(_, _, _)
Replaced(d, params, args) ==
    LET of(e) == Replaced(e, params, args)
        place == {k \in DOMAIN params : params[k] = d.name}
    IN CASE d.k = "ref" -> IF place = {} THEN d ELSE args[CHOOSE k \in place : TRUE]
         [] d.k = "call" -> [d EXCEPT !.args = [k \in DOMAIN @ |-> of(@[k])]]
         [] d.k \in {"concat", "union"} -> [d EXCEPT !.left = of(@), !.right = of(@)]
         [] d.k \in {"text", "action", "virtual", "empty"} -> d
         [] OTHER -> [d EXCEPT !.of = of(@)]

\* The rules a grammar holds
RulesHeldBy(l) == UNION {ToSet(grammars[i].source.rules) : i \in l.holds}
TerminalsHeldBy(l) == UNION {{t.name : t \in ToSet(grammars[i].source.terminals)} : i \in l.holds}

\* The definitions of a variable, or of a call
DefinitionsOf(rules, key) ==
    IF key.k = "call"
    THEN {Replaced(rule.d, rule.params, key.args) : rule \in {r \in rules : r.name = key.name}}
    ELSE {rule.d : rule \in {r \in rules : r.name = key.name /\ r.params = <<>>}}

RECURSIVE CallsIn(_)
CallsIn(d) ==
    CASE d.k = "call" -> {d} \cup UNION {CallsIn(d.args[k]) : k \in DOMAIN d.args}
      [] d.k \in {"concat", "union"} -> CallsIn(d.left) \cup CallsIn(d.right)
      [] d.k \in {"ref", "text", "action", "virtual", "empty"} -> {}
      [] OTHER -> CallsIn(d.of)

RECURSIVE KeysFrom(_, _)
KeysFrom(rules, keys) ==
    LET more == keys \cup UNION {UNION {CallsIn(d) : d \in DefinitionsOf(rules, key)} : key \in keys}
    IN IF more = keys THEN keys ELSE KeysFrom(rules, more)

Variable(name) == [k |-> "ref", name |-> name]
Keys(l) ==
    LET rules == RulesHeldBy(l)
    IN KeysFrom(rules, {Variable(r.name) : r \in {r \in rules : r.params = <<>>}})

\* The parts of a definition, given the words of the variables and of the calls
RECURSIVE PartsOf(_, _, _)
RECURSIVE Repetitions(_, _)
Repetitions(words, more) ==
    LET next == words \cup Short({w \o m : w \in words, m \in more})
    IN IF next = words THEN words ELSE Repetitions(next, more)

PartsOf(words, terminals, d) ==
    LET of(e) == PartsOf(words, terminals, e)
        inner == Short({Flat(p) : p \in of(d.of)})
    IN CASE d.k \in {"ref", "call"} -> IF d \in DOMAIN words THEN One(words[d])
                                       ELSE IF d.name \in terminals THEN One({<<d.name>>}) ELSE {}
         [] d.k = "text" -> One({<<d.name>>})
         [] d.k \in {"action", "virtual"} -> One({<<<<d.k>> \o d.name>>})
         [] d.k = "empty" -> {<<>>}
         [] d.k = "concat" -> Concatenations(of(d.left), of(d.right))
         [] d.k = "union" -> of(d.left) \cup of(d.right)
         [] d.k = "optional" -> of(d.of) \cup {<<>>}
         [] d.k = "onemore" -> One(Repetitions(inner, inner))
         [] d.k = "zeromore" -> One(Repetitions(inner, inner)) \cup {<<>>}
         [] d.k = "promote" -> ShortParts({[k \in DOMAIN p |-> [p[k] EXCEPT !.action = "PROMOTE"]] :
                                            p \in of(d.of)})
         [] d.k = "drop" -> ShortParts({[k \in DOMAIN p |-> [p[k] EXCEPT !.action = "DROP"]] :
                                            p \in of(d.of)})
         [] d.k = "sub" -> One(Short({Between(<<"sub">>, w) : w \in inner}))
         [] d.k = "context" -> One(Short({Between(d.name, w) : w \in inner}))

RECURSIVE MeaningFrom(_, _, _)
MeaningFrom(rules, terminals, words) ==
    LET more == [key \in DOMAIN words |->
                    Short(UNION {{Flat(p) : p \in PartsOf(words, terminals, d)} :
                                    d \in DefinitionsOf(rules, key)})]
    IN IF more = words THEN words ELSE MeaningFrom(rules, terminals, more)

\* The words of each variable and of each call in a grammar
Meaning(l) == MeaningFrom(RulesHeldBy(l), TerminalsHeldBy(l), [key \in Keys(l) |-> {}])
-----------------------------------------------------------------------------
(***************************************************************************)
(* The grammars.                                                           *)
(***************************************************************************)
WordsOfElement(g, words, element) ==
    CASE element.symbol.kind = "variable" -> words[element.symbol.name]
      [] element.symbol.kind = "terminal" -> {<<TheOne(g.terminals, element.symbol.name).value>>}
      [] OTHER -> {<<<<element.symbol.kind>> \o element.symbol.name>>}

WordsOfRule(g, words, rule) ==
    LET ofBody == FoldLeft(
            LAMBDA done, element :
                Short({w \o Acted(element.action, v) :
                        w \in done, v \in WordsOfElement(g, words, element)}),
            {<<>>}, rule.body)
        inHead == IF rule.headAction = "REPLACE_BY_EPSILON" THEN {Between(<<"sub">>, w) : w \in ofBody}
                  ELSE ofBody
    IN Short(IF rule.context = 1 THEN inHead
             ELSE {Between(g.contexts[rule.context], w) : w \in inHead})

RECURSIVE LanguageFrom(_, _)
LanguageFrom(g, words) ==
    LET more == [name \in DOMAIN words |->
                    UNION {WordsOfRule(g, words, rule) : rule \in ToSet(TheOne(g.variables, name).rules)}]
    IN IF more = words THEN words ELSE LanguageFrom(g, more)

\* The words of each variable of a grammar
Language(g) ==
    LanguageFrom(g, [name \in {g.variables[k].name : k \in DOMAIN g.variables} |-> {}])
-----------------------------------------------------------------------------
\* The references of the rules of an input that its grammar does not define
RECURSIVE RefsIn(_)
RefsIn(d) ==
    CASE d.k = "ref" -> {d.name}
      [] d.k = "call" -> UNION {RefsIn(d.args[k]) : k \in DOMAIN d.args}
      [] d.k \in {"concat", "union"} -> RefsIn(d.left) \cup RefsIn(d.right)
      [] d.k \in {"text", "action", "virtual", "empty"} -> {}
      [] OTHER -> RefsIn(d.of)

Undefined(l) ==
    LET heads == {r.name : r \in RulesHeldBy(l)}
    IN UNION {RefsIn(r.d) \ ToSet(r.params) : r \in ToSet(grammars[l.input].source.rules)}
       \ (heads \cup TerminalsHeldBy(l))

\* The names that are made from the number of a symbol: those of generated variables and
\* templates, and of the instances of which they are the template or an argument
RECURSIVE IsGenerated(_)
IsGenerated(name) ==
    \/ name[1] = "__V"
    \/ name[1] = "<>" /\ (IsGenerated(name[2]) \/ \E a \in DOMAIN name[3] : IsGenerated(name[3][a]))

GeneratedVariables(g) == {n \in {g.variables[k].name : k \in DOMAIN g.variables} : IsGenerated(n)}
TemplateNames(g) == {g.templates[k].name : k \in DOMAIN g.templates}

\* The names that came with the rules of an input
LoaderOf(i) == completed[CHOOSE k \in DOMAIN completed : completed[k].input = i]
BroughtBy(i, NamesOf(_)) ==
    NamesOf(LoaderOf(i).grammar)
    \ UNION {NamesOf(LoaderOf(j).grammar) : j \in LoaderOf(i).holds \ {i}}

\* Two of the inputs of a grammar bring the same name
Merges(l, NamesOf(_)) ==
    \E i, j \in l.holds : i # j /\ BroughtBy(i, NamesOf) \cap BroughtBy(j, NamesOf) # {}

\* The words that are loaded are those that the rules define
HasTheWords(l, words, meant) ==
    \/ Merges(l, TemplateNames)
    \/ Merges(l, GeneratedVariables) /\ meant \subseteq words
    \/ ~ Merges(l, GeneratedVariables) /\ words = meant

\* In a grammar that is complete, each variable of its sources and of those of the
\* grammars it inherits has the words and the marks that the rules define, those of
\* all its parents together: through the variables that are generated for
\* repetitions, groups, contexts and the instances of templates, one instance for
\* each list of arguments.  Names are generated from the numbers of the symbols
\* (grammars.rs:1366), and what two parents have under one name is merged: their
\* variables then have words of each other's, and of their templates the first is kept.
\* The references that are not defined, and these only, are errors (load_rules,
\* instantiate_template_rule, inherit).
LoadsTheLanguage ==
    returned => \A k \in DOMAIN completed :
        LET l == completed[k]
            meaning == Meaning(l)
            language == Language(l.grammar)
        IN /\ ~ l.grammar.panics
           /\ \A key \in {key \in DOMAIN meaning : key.k = "ref"} :
                    key.name \in DOMAIN language /\ HasTheWords(l, language[key.name], meaning[key])
           /\ l.grammar.errors = {<<"SymbolNotFound", n>> : n \in Undefined(l)}
=============================================================================
