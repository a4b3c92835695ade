----------------------------- MODULE Languages ------------------------------
(***************************************************************************)
(* The words of a grammar and their prefixes up to a length: what a parser *)
(* of the grammar should accept, and how far it should read.               *)
(***************************************************************************)
EXTENDS Grammars
LOCAL INSTANCE TLC

\* The concatenations of at most n terminals
Joined(S, T, n) == {w \in {u \o v : u \in S, v \in T} : Len(w) <= n}

\* The words of a sequence of symbols, given those of the variables
RECURSIVE WordsOfBody(_, _, _)
WordsOfBody(words, body, n) ==
    IF body = <<>> THEN {<<>>}
    ELSE LET X == body[1]
             first == IF X \in DOMAIN words THEN words[X] ELSE {<<X>>}
         IN Joined(first, WordsOfBody(words, Tail(body), n), n)

RECURSIVE WordsFrom(_, _, _)
WordsFrom(g, words, n) ==
    LET more == [v \in VariablesOf(g) |->
                    UNION {WordsOfBody(words, BodyOf(g, r), n) : r \in RulesFor(g, v)}]
    IN IF more = words THEN words ELSE WordsFrom(g, more, n)

\* The words of each variable, of at most n terminals
Words(g, n) == WordsFrom(g, [v \in VariablesOf(g) |-> {}], n)

\* The prefixes of the words of a body: those of a symbol after words of the
\* symbols before it; a prefix may be of a word longer than n
PrefixesOfBody(words, prefixes, body, n) ==
    UNION {LET X == body[k]
               begins == IF X \in DOMAIN words THEN prefixes[X] ELSE {<<>>, <<X>>}
           IN Joined(WordsOfBody(words, SubSeq(body, 1, k - 1), n), begins, n) :
           k \in DOMAIN body} \cup {<<>>}

RECURSIVE PrefixesFrom(_, _, _, _)
PrefixesFrom(g, words, prefixes, n) ==
    LET more == [v \in VariablesOf(g) |->
                    UNION {PrefixesOfBody(words, prefixes, BodyOf(g, r), n) : r \in RulesFor(g, v)}]
    IN IF more = prefixes THEN prefixes ELSE PrefixesFrom(g, words, more, n)

\* The prefixes of at most n terminals of the words of each variable
Prefixes(g, n) == PrefixesFrom(g, Words(g, n), [v \in VariablesOf(g) |-> {}], n)
-----------------------------------------------------------------------------
(***************************************************************************)
(* The same words with their contexts: the letters are [terminal, since],  *)
(* since[c] being how many letters before the innermost context c around   *)
(* the letter began.                                                       *)
(***************************************************************************)
Letter(t) == [terminal |-> t, since |-> [c \in {} |-> 0]]

Marked(word, context) ==
    IF context = 0 THEN word
    ELSE [k \in DOMAIN word |-> [word[k] EXCEPT !.since = @ @@ (context :> k - 1)]]

TerminalsOf(g) == {g.rules[p[1]].body[p[2]] : p \in Places(g)} \ VariablesOf(g)

RECURSIVE MarkedWordsFrom(_, _, _)
MarkedWordsFrom(g, words, n) ==
    LET more == [v \in VariablesOf(g) |->
                    UNION {{Marked(w, g.rules[r].context) : w \in WordsOfBody(words, BodyOf(g, r), n)} :
                            r \in RulesFor(g, v)}] @@ words
    IN IF more = words THEN words ELSE MarkedWordsFrom(g, more, n)

RECURSIVE MarkedPrefixesFrom(_, _, _, _)
MarkedPrefixesFrom(g, words, prefixes, n) ==
    LET more == [v \in VariablesOf(g) |->
                    UNION {{Marked(w, g.rules[r].context) :
                                w \in PrefixesOfBody(words, prefixes, BodyOf(g, r), n)} :
                            r \in RulesFor(g, v)}] @@ prefixes
    IN IF more = prefixes THEN prefixes ELSE MarkedPrefixesFrom(g, words, more, n)

MarkedPrefixes(g, n) ==
    LET none == [v \in VariablesOf(g) |-> {}]
        words == MarkedWordsFrom(g, none @@ [t \in TerminalsOf(g) |-> {<<Letter(t)>>}], n)
    IN MarkedPrefixesFrom(g, words, none @@ [t \in TerminalsOf(g) |-> {<<>>, <<Letter(t)>>}], n)[Axiom]
=============================================================================
