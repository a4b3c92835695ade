------------------------------ MODULE Grammars ------------------------------
(***************************************************************************)
(* The grammar as the parser construction of the SDK sees it once          *)
(* prepare() of grammars.rs has run: numbered rules, whose bodies are the  *)
(* elements that are neither virtual symbols nor semantic actions (the     *)
(* elements of the choice 0 of a rule; the choice k is the suffix of the   *)
(* body that starts after k symbols).                                      *)
(*                                                                         *)
(* A grammar g is a record:                                                *)
(*    g.rules     the rules [head, body, context], those of the variables  *)
(*                in order, the rule of the generated axiom last           *)
(*    g.symbols   the symbols in the order of SymbolRef                    *)
(*    g.firsts    the FIRSTS set of each choice of each rule               *)
(***************************************************************************)
EXTENDS Integers, Sequences, FiniteSets

Dollar == "$"
Epsilon == "eps"
Dummy == "dummy"
Axiom == "_Axiom"

Rule(head, body) == [head |-> head, body |-> body, context |-> 0]

RulesOf(g) == DOMAIN g.rules
VariablesOf(g) == {g.rules[r].head : r \in RulesOf(g)}
RulesFor(g, v) == {r \in RulesOf(g) : g.rules[r].head = v}
BodyOf(g, r) == g.rules[r].body
ChoicesOf(g, r) == 0 .. Len(BodyOf(g, r))

\* The rule of the generated axiom: _Axiom -> axiom $
AxiomRule(g) == Len(g.rules)
HeadOfAxiom(g) == g.rules[AxiomRule(g)].head
WithAxiom(rules) == Append(rules, Rule(Axiom, <<rules[1].head, Dollar>>))
-----------------------------------------------------------------------------
(***************************************************************************)
(* What FIRSTS and FOLLOWERS are, independently of how they are computed:  *)
(* smallest sets closed under what the rules allow.                        *)
(***************************************************************************)
\* The elements of S that are in every subset of S that is closed
Smallest(S, Closed(_)) ==
    LET closed == {N \in SUBSET S : Closed(N)}
    IN {x \in S : \A N \in closed : x \in N}

Nullable(g) ==
    LET Closed(N) == \A r \in RulesOf(g) :
                        (\A k \in DOMAIN BodyOf(g, r) : BodyOf(g, r)[k] \in N)
                            => g.rules[r].head \in N
    IN Smallest(VariablesOf(g), Closed)

SymbolsOf(g) == VariablesOf(g) \cup {g.symbols[i] : i \in DOMAIN g.symbols} \cup {Dollar}

\* The occurrences <<r, k>> of a symbol: the k-th of the body of the rule r
Places(g) == UNION {{<<r, k>> : k \in DOMAIN BodyOf(g, r)} : r \in RulesOf(g)}
At(g, p) == BodyOf(g, p[1])[p[2]]
HeadAt(g, p) == g.rules[p[1]].head

\* The symbols from .. to of the body of r are nullable
NullableSpan(g, r, from, to) == \A i \in from .. to : BodyOf(g, r)[i] \in Nullable(g)

\* The terminals, and possibly Epsilon, that the phrases of v begin with
TrueVarFirsts(g, v) ==
    LET begins == {p \in Places(g) : NullableSpan(g, p[1], 1, p[2] - 1)}
        Closed(S) == v \in S /\ \A p \in begins : HeadAt(g, p) \in S => At(g, p) \in S
    IN (Smallest(SymbolsOf(g), Closed) \ VariablesOf(g))
       \cup (IF v \in Nullable(g) THEN {Epsilon} ELSE {})

\* The same for the suffix of the rule r that starts after k symbols
TrueFirsts(g, r, k) ==
    LET last == Len(BodyOf(g, r))
        begin == {i \in k + 1 .. last : NullableSpan(g, r, k + 1, i - 1)}
        Of(X) == IF X \in VariablesOf(g) THEN TrueVarFirsts(g, X) \ {Epsilon} ELSE {X}
    IN (UNION {Of(BodyOf(g, r)[i]) : i \in begin})
       \cup (IF NullableSpan(g, r, k + 1, last) THEN {Epsilon} ELSE {})

\* The terminals that may follow v in a sentential form: those that begin what
\* comes after some u, when v may end a phrase of u
TrueFollowers(g, v) ==
    LET ends == {p \in Places(g) : /\ At(g, p) \in VariablesOf(g)
                                   /\ NullableSpan(g, p[1], p[2] + 1, Len(BodyOf(g, p[1])))}
        Closed(S) == v \in S /\ \A p \in ends : At(g, p) \in S => HeadAt(g, p) \in S
        ended == Smallest(VariablesOf(g), Closed)
    IN UNION {TrueFirsts(g, p[1], p[2]) \ {Epsilon} : p \in {q \in Places(g) : At(g, q) \in ended}}

\* A grammar as prepare() leaves it
Prepared(rules, symbols) ==
    LET g == [rules |-> WithAxiom(rules), symbols |-> symbols]
    IN [rules |-> g.rules,
        symbols |-> symbols,
        firsts |-> [r \in RulesOf(g) |->
                        [k \in ChoicesOf(g, r) |-> TrueFirsts(g, r, k)]]]

IsGrammar(g) ==
    /\ g.rules \in Seq([head : STRING, body : Seq(STRING), context : Nat])
    /\ Len(g.rules) > 0
    /\ \A p \in Places(g) : At(g, p) \in {g.symbols[i] : i \in DOMAIN g.symbols}
    /\ \A p \in Places(g) : At(g, p) # HeadOfAxiom(g)
    /\ {Epsilon, Dummy} \cap SymbolsOf(g) = {}
    /\ g.symbols \in Seq(STRING)

\* The last rule is that of the generated axiom, and Dollar, that ends it, is nowhere else.
HasRealAxiom(g) ==
    /\ HeadOfAxiom(g) = Axiom
    /\ Len(BodyOf(g, AxiomRule(g))) = 2
    /\ BodyOf(g, AxiomRule(g))[2] = Dollar
    /\ \A p \in Places(g) : At(g, p) = Dollar => p = <<AxiomRule(g), 2>>
    /\ Dollar \notin VariablesOf(g)

\* The FIRSTS sets are those that prepare() is expected to compute.
IsPrepared(g) ==
    /\ IsGrammar(g)
    /\ g = [rules |-> g.rules, symbols |-> g.symbols, firsts |-> g.firsts]
    /\ g.firsts = [r \in RulesOf(g) |-> [k \in ChoicesOf(g, r) |-> TrueFirsts(g, r, k)]]
=============================================================================
