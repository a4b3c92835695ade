------------------------- MODULE GrammarSets_proofs -------------------------
(***************************************************************************)
(* Grammar::prepare: for any grammar, the FIRSTS and FOLLOWERS sets that   *)
(* the passes leave are those of their definitions.  The passes never add  *)
(* too much, as the definitions are closed under what a pass adds; they    *)
(* do not stop too early, as a pass that changes nothing leaves sets that  *)
(* are closed, and the definitions are the smallest such sets.             *)
(***************************************************************************)
EXTENDS GrammarSets, TLAPS, WellFoundedInduction

LEMMA ShortestExample ==
    ASSUME NEW T, T \subseteq Nat, T # {}
    PROVE  \E n \in T : \A m \in T : n <= m
<1>1. PICK n \in T : \A m \in T : <<m, n>> \notin OpToRel(<, Nat)
  BY NatLessThanWellFounded, WFMin
<1>2. \A m \in T : ~ (m < n)
  BY <1>1 DEF OpToRel
<1> QED BY <1>2

-----------------------------------------------------------------------------
(***************************************************************************)
(* The definitions: each is closed under its rules, and in every set that  *)
(* is closed under them.                                                   *)
(***************************************************************************)
LEMMA Shape ==
    ASSUME NEW g, IsGrammar(g)
    PROVE  /\ Len(g.rules) \in Nat \ {0} /\ RulesOf(g) = 1 .. Len(g.rules)
           /\ \A r \in RulesOf(g) :
                /\ BodyOf(g, r) \in Seq(STRING)
                /\ Len(BodyOf(g, r)) \in Nat
                /\ DOMAIN BodyOf(g, r) = 1 .. Len(BodyOf(g, r))
                /\ ChoicesOf(g, r) = 0 .. Len(BodyOf(g, r))
                /\ g.rules[r].head \in VariablesOf(g)
<1>1. Len(g.rules) \in Nat \ {0} /\ RulesOf(g) = 1 .. Len(g.rules)
  BY DEF IsGrammar, RulesOf
<1>2. ASSUME NEW r \in RulesOf(g) PROVE BodyOf(g, r) \in Seq(STRING)
  <2> DEFINE Rules == [head : STRING, body : Seq(STRING), context : Nat]
  <2>1. g.rules \in Seq(Rules) /\ r \in 1 .. Len(g.rules)
    BY <1>1, <1>2 DEF IsGrammar
  <2>2. g.rules[r] \in Rules
    <3> HIDE DEF Rules
    <3> QED BY <2>1
  <2> QED BY <2>2 DEF BodyOf
<1>3. \A r \in RulesOf(g) : Len(BodyOf(g, r)) \in Nat /\ DOMAIN BodyOf(g, r) = 1 .. Len(BodyOf(g, r))
  BY <1>2
<1> QED BY <1>1, <1>2, <1>3 DEF ChoicesOf, VariablesOf

LEMMA PlacesShape ==
    ASSUME NEW g, IsGrammar(g)
    PROVE  /\ \A r \in RulesOf(g) : \A k \in DOMAIN BodyOf(g, r) : <<r, k>> \in Places(g)
           /\ \A p \in Places(g) : /\ p = <<p[1], p[2]>>
                                   /\ p[1] \in RulesOf(g) /\ p[2] \in DOMAIN BodyOf(g, p[1])
                                   /\ At(g, p) = BodyOf(g, p[1])[p[2]]
                                   /\ HeadAt(g, p) = g.rules[p[1]].head
                                   /\ At(g, p) \in SymbolsOf(g) /\ HeadAt(g, p) \in VariablesOf(g)
<1>1. \A r \in RulesOf(g) : \A k \in DOMAIN BodyOf(g, r) : <<r, k>> \in Places(g)
  BY DEF Places
<1>2. ASSUME NEW p \in Places(g)
      PROVE  p = <<p[1], p[2]>> /\ p[1] \in RulesOf(g) /\ p[2] \in DOMAIN BodyOf(g, p[1])
  BY DEF Places
<1>3. \A p \in Places(g) : At(g, p) \in SymbolsOf(g)
  BY DEF IsGrammar, SymbolsOf
<1> QED BY <1>1, <1>2, <1>3, Shape DEF At, HeadAt

NullableClosed(g, N) ==
    \A r \in RulesOf(g) :
        (\A k \in DOMAIN BodyOf(g, r) : BodyOf(g, r)[k] \in N) => g.rules[r].head \in N

LEMMA NullableIsLeast ==
    ASSUME NEW g, NEW N, N \subseteq VariablesOf(g), NullableClosed(g, N)
    PROVE  Nullable(g) \subseteq N
BY DEF Nullable, Smallest, NullableClosed

LEMMA NullableIsClosed ==
    ASSUME NEW g, IsGrammar(g)
    PROVE  Nullable(g) \subseteq VariablesOf(g) /\ NullableClosed(g, Nullable(g))
<1>1. \A v : v \in Nullable(g) <=> /\ v \in VariablesOf(g)
                                   /\ \A N \in SUBSET VariablesOf(g) : NullableClosed(g, N) => v \in N
  BY DEF Nullable, Smallest, NullableClosed
<1>2. ASSUME NEW r \in RulesOf(g), \A k \in DOMAIN BodyOf(g, r) : BodyOf(g, r)[k] \in Nullable(g),
             NEW N \in SUBSET VariablesOf(g), NullableClosed(g, N)
      PROVE  g.rules[r].head \in N
  BY <1>1, <1>2 DEF NullableClosed
<1>3. ASSUME NEW r \in RulesOf(g), \A k \in DOMAIN BodyOf(g, r) : BodyOf(g, r)[k] \in Nullable(g)
      PROVE  g.rules[r].head \in Nullable(g)
  BY <1>1, <1>2, <1>3, Shape
<1> QED BY <1>1, <1>3 DEF NullableClosed

Begins(g) == {p \in Places(g) : NullableSpan(g, p[1], 1, p[2] - 1)}

BeginsClosed(g, v, S) == v \in S /\ \A p \in Begins(g) : HeadAt(g, p) \in S => At(g, p) \in S

LEMMA TrueVarFirstsIs ==
    ASSUME NEW g, NEW v, NEW t
    PROVE  t \in TrueVarFirsts(g, v) <=>
              \/ /\ t \in SymbolsOf(g) \ VariablesOf(g)
                 /\ \A S \in SUBSET SymbolsOf(g) : BeginsClosed(g, v, S) => t \in S
              \/ v \in Nullable(g) /\ t = Epsilon
BY DEF TrueVarFirsts, Smallest, BeginsClosed, Begins

\* What one symbol of a body gives to the FIRSTS
FirstsOf(g, X) == IF X \in VariablesOf(g) THEN TrueVarFirsts(g, X) \ {Epsilon} ELSE {X}

LEMMA TrueFirstsIs ==
    ASSUME NEW g, NEW r, NEW k, NEW t
    PROVE  t \in TrueFirsts(g, r, k) <=>
              \/ \E i \in k + 1 .. Len(BodyOf(g, r)) :
                    NullableSpan(g, r, k + 1, i - 1) /\ t \in FirstsOf(g, BodyOf(g, r)[i])
              \/ NullableSpan(g, r, k + 1, Len(BodyOf(g, r))) /\ t = Epsilon
BY DEF TrueFirsts, FirstsOf

LEMMA EpsilonApart ==
    ASSUME NEW g, IsGrammar(g)
    PROVE  /\ \A v : Epsilon \in TrueVarFirsts(g, v) <=> v \in Nullable(g)
           /\ \A r \in RulesOf(g), k \in Nat :
                Epsilon \in TrueFirsts(g, r, k) <=> NullableSpan(g, r, k + 1, Len(BodyOf(g, r)))
<1>1. \A v : Epsilon \in TrueVarFirsts(g, v) <=> v \in Nullable(g)
  BY TrueVarFirstsIs DEF IsGrammar
<1>2. ASSUME NEW r \in RulesOf(g), NEW k \in Nat, NEW i \in k + 1 .. Len(BodyOf(g, r))
      PROVE  Epsilon \notin FirstsOf(g, BodyOf(g, r)[i])
  <2>1. i \in DOMAIN BodyOf(g, r)
    BY Shape
  <2>2. BodyOf(g, r)[i] \in SymbolsOf(g)
    BY <2>1, PlacesShape
  <2> QED BY <2>2 DEF FirstsOf, IsGrammar
<1> QED BY <1>1, <1>2, TrueFirstsIs

\* What a pass adds to a choice of a rule, for any sets
AddedTo(g, F, V, r, k) ==
    IF k = Len(BodyOf(g, r)) THEN {Epsilon}
    ELSE IF BodyOf(g, r)[k + 1] \notin VariablesOf(g) THEN {BodyOf(g, r)[k + 1]}
    ELSE (V[BodyOf(g, r)[k + 1]] \ {Epsilon})
            \cup (IF Epsilon \in V[BodyOf(g, r)[k + 1]] THEN F[r][k + 1] ELSE {})

\* What a pass adds to the definitions is in them already
LEMMA TrueFirstsClosed ==
    ASSUME NEW g, IsGrammar(g), NEW r \in RulesOf(g), NEW k \in ChoicesOf(g, r)
    PROVE  /\ k = Len(BodyOf(g, r)) => Epsilon \in TrueFirsts(g, r, k)
           /\ k # Len(BodyOf(g, r)) =>
                LET X == BodyOf(g, r)[k + 1] IN
                /\ X \notin VariablesOf(g) => X \in TrueFirsts(g, r, k)
                /\ X \in VariablesOf(g) => TrueVarFirsts(g, X) \ {Epsilon} \subseteq TrueFirsts(g, r, k)
                /\ X \in Nullable(g) => TrueFirsts(g, r, k + 1) \subseteq TrueFirsts(g, r, k)
<1> DEFINE n == Len(BodyOf(g, r))
           X == BodyOf(g, r)[k + 1]
<1>1. k \in 0 .. n /\ n \in Nat
  BY Shape
<1>2. k = n => Epsilon \in TrueFirsts(g, r, k)
  BY <1>1, TrueFirstsIs DEF NullableSpan
<1>3. ASSUME k # n
      PROVE  FirstsOf(g, X) \subseteq TrueFirsts(g, r, k)
  <2>1. k + 1 \in k + 1 .. n /\ NullableSpan(g, r, k + 1, (k + 1) - 1)
    BY <1>1, <1>3 DEF NullableSpan
  <2> QED BY <2>1, TrueFirstsIs
<1>4. ASSUME k # n, X \in Nullable(g), NEW t \in TrueFirsts(g, r, k + 1)
      PROVE  t \in TrueFirsts(g, r, k)
  <2>1. ASSUME NEW last, NullableSpan(g, r, k + 1 + 1, last) PROVE NullableSpan(g, r, k + 1, last)
    BY <1>1, <1>4, <2>1 DEF NullableSpan
  <2>2. CASE \E i \in k + 1 + 1 .. n :
                NullableSpan(g, r, k + 1 + 1, i - 1) /\ t \in FirstsOf(g, BodyOf(g, r)[i])
    <3>1. PICK i \in k + 1 + 1 .. n : NullableSpan(g, r, k + 1 + 1, i - 1) /\ t \in FirstsOf(g, BodyOf(g, r)[i])
      BY <2>2
    <3>2. i \in k + 1 .. n /\ NullableSpan(g, r, k + 1, i - 1)
      BY <1>1, <2>1, <3>1
    <3> QED BY <3>1, <3>2, TrueFirstsIs
  <2>3. CASE NullableSpan(g, r, k + 1 + 1, n) /\ t = Epsilon
    BY <2>1, <2>3, TrueFirstsIs
  <2> QED BY <1>4, <2>2, <2>3, TrueFirstsIs
<1> QED BY <1>2, <1>3, <1>4 DEF FirstsOf

LEMMA TrueVarFirstsClosed ==
    ASSUME NEW g, IsGrammar(g), NEW r \in RulesOf(g)
    PROVE  TrueFirsts(g, r, 0) \subseteq TrueVarFirsts(g, g.rules[r].head)
<1> DEFINE n == Len(BodyOf(g, r))
           head == g.rules[r].head
<1> SUFFICES ASSUME NEW t \in TrueFirsts(g, r, 0) PROVE t \in TrueVarFirsts(g, head)
  OBVIOUS
<1>0. n \in Nat /\ DOMAIN BodyOf(g, r) = 1 .. n
  BY Shape
<1>1. CASE NullableSpan(g, r, 0 + 1, n) /\ t = Epsilon
  <2>1. \A k \in DOMAIN BodyOf(g, r) : BodyOf(g, r)[k] \in Nullable(g)
    BY <1>0, <1>1 DEF NullableSpan
  <2>2. head \in Nullable(g)
    BY <2>1, NullableIsClosed DEF NullableClosed
  <2> QED BY <1>1, <2>2, TrueVarFirstsIs
<1>2. CASE \E i \in 0 + 1 .. n : NullableSpan(g, r, 0 + 1, i - 1) /\ t \in FirstsOf(g, BodyOf(g, r)[i])
  <2>1. PICK i \in 1 .. n : NullableSpan(g, r, 1, i - 1) /\ t \in FirstsOf(g, BodyOf(g, r)[i])
    BY <1>2
  <2> DEFINE X == BodyOf(g, r)[i]
             p == <<r, i>>
  <2>2. p \in Begins(g) /\ At(g, p) = X /\ HeadAt(g, p) = head /\ X \in SymbolsOf(g)
    BY <1>0, <2>1, PlacesShape DEF Begins
  <2>3. CASE X \notin VariablesOf(g)
    <3>1. t = X
      BY <2>1, <2>3 DEF FirstsOf
    <3>2. \A S \in SUBSET SymbolsOf(g) : BeginsClosed(g, head, S) => t \in S
      BY <2>2, <3>1 DEF BeginsClosed
    <3> QED BY <2>2, <2>3, <3>1, <3>2, TrueVarFirstsIs
  <2>4. CASE X \in VariablesOf(g)
    <3>1. t \in TrueVarFirsts(g, X) /\ t # Epsilon
      BY <2>1, <2>4 DEF FirstsOf
    <3>2. /\ t \in SymbolsOf(g) \ VariablesOf(g)
          /\ \A S \in SUBSET SymbolsOf(g) : BeginsClosed(g, X, S) => t \in S
      BY <3>1, TrueVarFirstsIs
    <3>3. ASSUME NEW S \in SUBSET SymbolsOf(g), BeginsClosed(g, head, S) PROVE t \in S
      <4>1. BeginsClosed(g, X, S)
        BY <2>2, <3>3 DEF BeginsClosed
      <4> QED BY <3>2, <4>1
    <3> QED BY <3>2, <3>3, TrueVarFirstsIs
  <2> QED BY <2>3, <2>4
<1> QED BY <1>1, <1>2, TrueFirstsIs

\* Sets to which a pass adds nothing
RuleClosed(g, F, V, r) ==
    /\ F[r][0] \subseteq V[g.rules[r].head]
    /\ \A k \in ChoicesOf(g, r) : AddedTo(g, F, V, r, k) \subseteq F[r][k]
FirstsClosed(g, F, V) == \A r \in RulesOf(g) : RuleClosed(g, F, V, r)

\* Over symbols that may be empty, the FIRSTS of a suffix are those of a longer one
LEMMA OverNullables ==
    ASSUME NEW g, IsGrammar(g), NEW F, NEW V, FirstsClosed(g, F, V),
           NEW r \in RulesOf(g), NEW k \in Nat, NEW j \in k .. Len(BodyOf(g, r)),
           \A i \in k + 1 .. j : BodyOf(g, r)[i] \in VariablesOf(g) /\ Epsilon \in V[BodyOf(g, r)[i]]
    PROVE  F[r][j] \subseteq F[r][k]
<1> DEFINE T == {n \in 0 .. j - k : ~ (F[r][j] \subseteq F[r][j - n])}
<1>1. T \subseteq Nat /\ j - k \in Nat /\ j \in Nat /\ Len(BodyOf(g, r)) \in Nat
  BY Shape
<1>2. ASSUME T # {} PROVE FALSE
  <2>1. PICK n \in T : \A m \in T : n <= m
    <3> HIDE DEF T
    <3> QED BY <1>1, <1>2, ShortestExample
  <2>2. n # 0
    BY <1>1
  <2>3. n - 1 \in 0 .. j - k /\ n - 1 \notin T
    BY <1>1, <2>1, <2>2
  <2>4. F[r][j] \subseteq F[r][j - (n - 1)]
    BY <2>3
  <2> DEFINE i == j - n
  <2>5. i \in 0 .. Len(BodyOf(g, r)) /\ i # Len(BodyOf(g, r)) /\ i + 1 \in k + 1 .. j /\ i + 1 = j - (n - 1)
    BY <1>1, <2>2
  <2>6. i \in ChoicesOf(g, r)
    BY <2>5, Shape
  <2>7. BodyOf(g, r)[i + 1] \in VariablesOf(g) /\ Epsilon \in V[BodyOf(g, r)[i + 1]]
    BY <2>5
  <2>8. AddedTo(g, F, V, r, i) \subseteq F[r][i]
    BY <2>6 DEF FirstsClosed, RuleClosed
  <2>9. F[r][i + 1] \subseteq F[r][i]
    <3> HIDE DEF i
    <3> QED BY <2>5, <2>7, <2>8 DEF AddedTo
  <2> QED BY <2>1, <2>4, <2>5, <2>9
<1>3. j - k \in 0 .. j - k /\ j - (j - k) = k
  BY <1>1
<1>4. j - k \notin T
  <2> HIDE DEF T
  <2> QED BY <1>2
<1> QED BY <1>3, <1>4

LEMMA NullableFound ==
    ASSUME NEW g, IsGrammar(g), NEW F, NEW V, FirstsClosed(g, F, V), NEW v \in Nullable(g)
    PROVE  v \in VariablesOf(g) /\ Epsilon \in V[v]
<1> DEFINE N == {u \in VariablesOf(g) : Epsilon \in V[u]}
<1>1. ASSUME NEW r \in RulesOf(g), \A k \in DOMAIN BodyOf(g, r) : BodyOf(g, r)[k] \in N
      PROVE  g.rules[r].head \in N
  <2> DEFINE n == Len(BodyOf(g, r))
  <2>1. n \in Nat /\ DOMAIN BodyOf(g, r) = 1 .. n /\ n \in ChoicesOf(g, r) /\ g.rules[r].head \in VariablesOf(g)
    BY Shape
  <2>2. F[r][n] \subseteq F[r][0]
    BY <1>1, <2>1, OverNullables
  <2>3. Epsilon \in F[r][n] /\ F[r][0] \subseteq V[g.rules[r].head]
    BY <2>1 DEF FirstsClosed, RuleClosed, AddedTo
  <2> QED BY <2>1, <2>2, <2>3
<1>2. NullableClosed(g, N)
  BY <1>1 DEF NullableClosed
<1>3. Nullable(g) \subseteq N
  BY <1>2, NullableIsLeast
<1> QED BY <1>3

\* What a symbol after others that may be empty gives
LEMMA FirstsFound ==
    ASSUME NEW g, IsGrammar(g), NEW F, NEW V, FirstsClosed(g, F, V),
           NEW r \in RulesOf(g), NEW k \in Nat, NEW i \in k + 1 .. Len(BodyOf(g, r)),
           NullableSpan(g, r, k + 1, i - 1)
    PROVE  LET X == BodyOf(g, r)[i] IN
           /\ X \in VariablesOf(g) => V[X] \ {Epsilon} \subseteq F[r][k]
           /\ X \notin VariablesOf(g) => X \in F[r][k]
<1>1. i \in Nat /\ Len(BodyOf(g, r)) \in Nat /\ i - 1 \in k .. Len(BodyOf(g, r)) /\ i - 1 \in Nat
  BY Shape
<1>2. F[r][i - 1] \subseteq F[r][k]
  <2>1. \A m \in k + 1 .. i - 1 : BodyOf(g, r)[m] \in VariablesOf(g) /\ Epsilon \in V[BodyOf(g, r)[m]]
    BY NullableFound DEF NullableSpan
  <2> QED BY <1>1, <2>1, OverNullables
<1>3. i - 1 \in ChoicesOf(g, r) /\ i - 1 # Len(BodyOf(g, r)) /\ (i - 1) + 1 = i
  BY <1>1, Shape
<1>4. AddedTo(g, F, V, r, i - 1) \subseteq F[r][i - 1]
  BY <1>3 DEF FirstsClosed, RuleClosed
<1> QED BY <1>2, <1>3, <1>4 DEF AddedTo

LEMMA VarFirstsFound ==
    ASSUME NEW g, IsGrammar(g), NEW F, NEW V, FirstsClosed(g, F, V), NEW v \in VariablesOf(g)
    PROVE  TrueVarFirsts(g, v) \subseteq V[v]
<1> SUFFICES ASSUME NEW t \in TrueVarFirsts(g, v) PROVE t \in V[v]
  OBVIOUS
<1>1. CASE v \in Nullable(g) /\ t = Epsilon
  BY <1>1, NullableFound
<1>2. CASE /\ t \in SymbolsOf(g) \ VariablesOf(g)
           /\ \A S \in SUBSET SymbolsOf(g) : BeginsClosed(g, v, S) => t \in S
  <2> DEFINE S == {X \in SymbolsOf(g) : IF X \in VariablesOf(g) THEN V[X] \ {Epsilon} \subseteq V[v]
                                                                ELSE X \in V[v]}
  <2>1. VariablesOf(g) \subseteq SymbolsOf(g)
    BY DEF SymbolsOf
  <2>2. ASSUME NEW p \in Begins(g), HeadAt(g, p) \in S PROVE At(g, p) \in S
    <3> DEFINE r == p[1]
               i == p[2]
               X == BodyOf(g, r)[i]
    <3>1. /\ r \in RulesOf(g) /\ i \in 0 + 1 .. Len(BodyOf(g, r)) /\ NullableSpan(g, r, 0 + 1, i - 1)
          /\ At(g, p) = X /\ X \in SymbolsOf(g) /\ HeadAt(g, p) = g.rules[r].head
          /\ HeadAt(g, p) \in VariablesOf(g)
      BY PlacesShape, Shape DEF Begins
    <3>2. /\ X \in VariablesOf(g) => V[X] \ {Epsilon} \subseteq F[r][0]
          /\ X \notin VariablesOf(g) => X \in F[r][0]
      BY <3>1, FirstsFound
    <3>3. F[r][0] \subseteq V[g.rules[r].head]
      BY <3>1 DEF FirstsClosed, RuleClosed
    <3>4. V[g.rules[r].head] \ {Epsilon} \subseteq V[v]
      BY <2>2, <3>1
    <3>5. X # Epsilon
      BY <3>1 DEF IsGrammar
    <3> QED BY <3>1, <3>2, <3>3, <3>4, <3>5
  <2>3. BeginsClosed(g, v, S)
    BY <2>1, <2>2 DEF BeginsClosed
  <2>4. t \in S
    BY <1>2, <2>3
  <2> QED BY <1>2, <2>4
<1> QED BY <1>1, <1>2, TrueVarFirstsIs

LEMMA SuffixFirstsFound ==
    ASSUME NEW g, IsGrammar(g), NEW F, NEW V, FirstsClosed(g, F, V),
           NEW r \in RulesOf(g), NEW k \in ChoicesOf(g, r)
    PROVE  TrueFirsts(g, r, k) \subseteq F[r][k]
<1> DEFINE n == Len(BodyOf(g, r))
<1> SUFFICES ASSUME NEW t \in TrueFirsts(g, r, k) PROVE t \in F[r][k]
  OBVIOUS
<1>0. n \in Nat /\ k \in Nat /\ n \in k .. n /\ n \in ChoicesOf(g, r) /\ DOMAIN BodyOf(g, r) = 1 .. n
  BY Shape
<1>1. CASE NullableSpan(g, r, k + 1, n) /\ t = Epsilon
  <2>1. \A m \in k + 1 .. n : BodyOf(g, r)[m] \in VariablesOf(g) /\ Epsilon \in V[BodyOf(g, r)[m]]
    BY <1>1, NullableFound DEF NullableSpan
  <2>2. F[r][n] \subseteq F[r][k]
    BY <1>0, <2>1, OverNullables
  <2>3. Epsilon \in F[r][n]
    BY <1>0 DEF FirstsClosed, RuleClosed, AddedTo
  <2> QED BY <1>1, <2>2, <2>3
<1>2. CASE \E i \in k + 1 .. n : NullableSpan(g, r, k + 1, i - 1) /\ t \in FirstsOf(g, BodyOf(g, r)[i])
  <2>1. PICK i \in k + 1 .. n : NullableSpan(g, r, k + 1, i - 1) /\ t \in FirstsOf(g, BodyOf(g, r)[i])
    BY <1>2
  <2> DEFINE X == BodyOf(g, r)[i]
  <2>2. /\ X \in VariablesOf(g) => V[X] \ {Epsilon} \subseteq F[r][k]
        /\ X \notin VariablesOf(g) => X \in F[r][k]
    BY <1>0, <2>1, FirstsFound
  <2>3. X \in VariablesOf(g) => TrueVarFirsts(g, X) \subseteq V[X]
    BY VarFirstsFound
  <2> HIDE DEF X
  <2> QED BY <2>1, <2>2, <2>3 DEF FirstsOf, X
<1> QED BY <1>1, <1>2, TrueFirstsIs

LEMMA FirstsAreLeast ==
    ASSUME NEW g, IsGrammar(g), NEW F, NEW V, FirstsClosed(g, F, V)
    PROVE  /\ \A r \in RulesOf(g) : \A k \in ChoicesOf(g, r) : TrueFirsts(g, r, k) \subseteq F[r][k]
           /\ \A v \in VariablesOf(g) : TrueVarFirsts(g, v) \subseteq V[v]
BY SuffixFirstsFound, VarFirstsFound
-----------------------------------------------------------------------------
Ends(g) == {p \in Places(g) : /\ At(g, p) \in VariablesOf(g)
                              /\ NullableSpan(g, p[1], p[2] + 1, Len(BodyOf(g, p[1])))}

EndsClosed(g, v, S) == v \in S /\ \A p \in Ends(g) : At(g, p) \in S => HeadAt(g, p) \in S

\* The variables that may end with v
EndedBy(g, v) == {u \in VariablesOf(g) : \A S \in SUBSET VariablesOf(g) : EndsClosed(g, v, S) => u \in S}

LEMMA TrueFollowersIs ==
    ASSUME NEW g, NEW v, NEW t
    PROVE  t \in TrueFollowers(g, v) <=>
              \E p \in Places(g) : At(g, p) \in EndedBy(g, v) /\ t \in TrueFirsts(g, p[1], p[2]) \ {Epsilon}
<1>1. TrueFollowers(g, v) =
        UNION {TrueFirsts(g, p[1], p[2]) \ {Epsilon} : p \in {q \in Places(g) : At(g, q) \in EndedBy(g, v)}}
  BY DEF TrueFollowers, Smallest, EndedBy, EndsClosed, Ends
<1> QED BY <1>1

\* What initial_follower and propagate_followers add to the definition is in it
LEMMA TrueFollowersClosed ==
    ASSUME NEW g, IsGrammar(g), NEW r \in RulesOf(g), NEW k \in DOMAIN BodyOf(g, r),
           BodyOf(g, r)[k] \in VariablesOf(g)
    PROVE  /\ TrueFirsts(g, r, k) \ {Epsilon} \subseteq TrueFollowers(g, BodyOf(g, r)[k])
           /\ Epsilon \in TrueFirsts(g, r, k) =>
                TrueFollowers(g, g.rules[r].head) \subseteq TrueFollowers(g, BodyOf(g, r)[k])
<1> DEFINE v == BodyOf(g, r)[k]
           p == <<r, k>>
<1>1. p \in Places(g) /\ At(g, p) = v /\ HeadAt(g, p) = g.rules[r].head /\ k \in Nat
  BY PlacesShape, Shape
<1>2. v \in EndedBy(g, v)
  BY DEF EndedBy, EndsClosed
<1>3. TrueFirsts(g, r, k) \ {Epsilon} \subseteq TrueFollowers(g, v)
  <2> SUFFICES ASSUME NEW t \in TrueFirsts(g, r, k) \ {Epsilon} PROVE t \in TrueFollowers(g, v)
    OBVIOUS
  <2>1. At(g, p) \in EndedBy(g, v) /\ t \in TrueFirsts(g, p[1], p[2]) \ {Epsilon}
    BY <1>1, <1>2
  <2> HIDE DEF p, v
  <2> QED BY <1>1, <2>1, TrueFollowersIs
<1>4. ASSUME Epsilon \in TrueFirsts(g, r, k), NEW t \in TrueFollowers(g, g.rules[r].head)
      PROVE  t \in TrueFollowers(g, v)
  <2>1. p \in Ends(g)
    BY <1>1, <1>4, EpsilonApart DEF Ends
  <2>2. \A S : EndsClosed(g, v, S) => EndsClosed(g, g.rules[r].head, S)
    BY <1>1, <2>1 DEF EndsClosed
  <2>3. EndedBy(g, g.rules[r].head) \subseteq EndedBy(g, v)
    BY <2>2 DEF EndedBy
  <2> QED BY <1>4, <2>3, TrueFollowersIs
<1> QED BY <1>3, <1>4

LEMMA FollowersAreLeast ==
    ASSUME NEW g, IsGrammar(g), NEW W,
           \A r \in RulesOf(g) : \A k \in DOMAIN BodyOf(g, r) :
              BodyOf(g, r)[k] \in VariablesOf(g) =>
                /\ TrueFirsts(g, r, k) \ {Epsilon} \subseteq W[BodyOf(g, r)[k]]
                /\ Epsilon \in TrueFirsts(g, r, k) => W[g.rules[r].head] \subseteq W[BodyOf(g, r)[k]],
           NEW v \in VariablesOf(g)
    PROVE  TrueFollowers(g, v) \subseteq W[v]
<1> DEFINE S == {u \in VariablesOf(g) : W[u] \subseteq W[v]}
<1>1. ASSUME NEW p \in Ends(g), At(g, p) \in S PROVE HeadAt(g, p) \in S
  <2>1. /\ p[1] \in RulesOf(g) /\ p[2] \in DOMAIN BodyOf(g, p[1]) /\ p[2] \in Nat
        /\ At(g, p) = BodyOf(g, p[1])[p[2]] /\ HeadAt(g, p) = g.rules[p[1]].head
        /\ HeadAt(g, p) \in VariablesOf(g)
    BY PlacesShape, Shape DEF Ends
  <2>2. Epsilon \in TrueFirsts(g, p[1], p[2])
    BY <2>1, EpsilonApart DEF Ends
  <2>3. W[HeadAt(g, p)] \subseteq W[At(g, p)]
    BY <2>1, <2>2, <1>1
  <2> QED BY <1>1, <2>1, <2>3
<1>2. EndsClosed(g, v, S)
  BY <1>1 DEF EndsClosed
<1>3. EndedBy(g, v) \subseteq S
  BY <1>2 DEF EndedBy
<1> SUFFICES ASSUME NEW t \in TrueFollowers(g, v) PROVE t \in W[v]
  OBVIOUS
<1>4. PICK p \in Places(g) : At(g, p) \in EndedBy(g, v) /\ t \in TrueFirsts(g, p[1], p[2]) \ {Epsilon}
  BY TrueFollowersIs
<1>5. p[1] \in RulesOf(g) /\ p[2] \in DOMAIN BodyOf(g, p[1]) /\ At(g, p) = BodyOf(g, p[1])[p[2]]
  BY PlacesShape
<1>6. At(g, p) \in VariablesOf(g) /\ W[At(g, p)] \subseteq W[v]
  BY <1>3, <1>4
<1> QED BY <1>4, <1>5, <1>6
-----------------------------------------------------------------------------
(***************************************************************************)
(* The passes.                                                             *)
(***************************************************************************)
Cursor ==
    /\ phase = "initial" => rule \in RulesOf(grammar)
    /\ phase # "firsts" \/ rule \notin RulesOf(grammar) => pos = Outside

\* Nothing is added that should not be.
Sound ==
    /\ \A r \in RulesOf(grammar) : \A k \in ChoicesOf(grammar, r) :
            firsts[r][k] \subseteq TrueFirsts(grammar, r, k)
    /\ \A v \in Variables : /\ varFirsts[v] \subseteq TrueVarFirsts(grammar, v)
                            /\ followers[v] \subseteq TrueFollowers(grammar, v)

\* As long as a pass changes nothing, the sets are closed for the rules and the
\* choices behind it.
ClosedBehind ==
    phase = "firsts" /\ ~ modified =>
        \A r \in RulesOf(grammar) :
            /\ r < rule => RuleClosed(grammar, firsts, varFirsts, r)
            /\ r = rule /\ pos # Outside =>
                    /\ firsts[r][0] \subseteq varFirsts[grammar.rules[r].head]
                    /\ \A k \in ChoicesOf(grammar, r) :
                            k > pos => AddedTo(grammar, firsts, varFirsts, r, k) \subseteq firsts[r][k]

\* What begins after a variable follows it.
HasInitials(r) ==
    \A k \in DOMAIN BodyOf(grammar, r) : BodyOf(grammar, r)[k] \in Variables =>
        firsts[r][k] \ {Epsilon} \subseteq followers[BodyOf(grammar, r)[k]]

\* What follows a variable follows those that end its rules.
HasFollowers(r) ==
    \A k \in DOMAIN BodyOf(grammar, r) :
        BodyOf(grammar, r)[k] \in Variables /\ Epsilon \in firsts[r][k] =>
            followers[grammar.rules[r].head] \subseteq followers[BodyOf(grammar, r)[k]]

FollowedBehind ==
    /\ \A r \in RulesOf(grammar) :
            phase \in {"followers", "done"} \/ (phase = "initial" /\ r < rule) => HasInitials(r)
    /\ phase = "followers" /\ ~ modified => \A r \in RulesOf(grammar) : r < rule => HasFollowers(r)

IInv ==
    /\ TypeOK /\ IsPrepared(grammar) /\ Cursor
    /\ Sound /\ ClosedBehind /\ FirstsExact /\ FollowedBehind /\ FollowersExact

LEMMA FirstsAddedIs == FirstsAdded = AddedTo(grammar, firsts, varFirsts, rule, pos)
BY DEF FirstsAdded, AddedTo, Body, Variables

LEMMA InitProof ==
    ASSUME Init, IsPrepared(grammar)
    PROVE  IInv
<1>0. IsGrammar(grammar)
  BY DEF IsPrepared
<1> USE DEF Init
<1>1. TypeOK
  <2>1. rule \in 1 .. Len(grammar.rules) + 1 /\ pos \in {Outside} /\ pos \in Int
    BY <1>0, Shape DEF Outside
  <2>2. DOMAIN firsts = RulesOf(grammar) /\ \A r \in RulesOf(grammar) : firsts[r] \in [ChoicesOf(grammar, r) -> Set]
    BY DEF Set
  <2>3. varFirsts \in [Variables -> Set] /\ followers \in [Variables -> SUBSET Terminals]
    BY DEF Set
  <2> QED BY <2>1, <2>2, <2>3 DEF TypeOK
<1>2. Cursor /\ FollowedBehind /\ FirstsExact /\ FollowersExact
  BY <1>0, Shape DEF Cursor, FollowedBehind, FirstsExact, FollowersExact
<1>3. Sound /\ ClosedBehind
  BY <1>0, Shape DEF Sound, ClosedBehind, Outside
<1> QED BY <1>1, <1>2, <1>3 DEF IInv

LEMMA EnterRuleProof ==
    ASSUME IInv, EnterRule
    PROVE  IInv'
<1>0. IsGrammar(grammar)
  BY DEF IInv, IsPrepared
<1>1. /\ rule \in RulesOf(grammar) /\ pos = Outside /\ phase = "firsts" /\ pos' = Len(BodyOf(grammar, rule))
      /\ UNCHANGED <<grammar, phase, rule, firsts, followers>>
      /\ varFirsts' = [varFirsts EXCEPT ![HeadVar] = @ \cup firsts[rule][0]]
      /\ modified' = (modified \/ varFirsts' # varFirsts)
      /\ HeadVar = grammar.rules[rule].head /\ HeadVar \in Variables
      /\ 0 \in ChoicesOf(grammar, rule) /\ pos' \in ChoicesOf(grammar, rule) /\ pos' # Outside
  BY <1>0, Shape DEF EnterRule, HeadVar, Variables, Outside, Body
<1>2. TypeOK'
  BY <1>0, <1>1, Shape DEF IInv, TypeOK, Variables, Set, Terminals
<1>3. Cursor' /\ FollowedBehind' /\ FirstsExact' /\ FollowersExact'
  BY <1>1 DEF IInv, Cursor, FollowedBehind, FirstsExact, FollowersExact, HasInitials, HasFollowers, Variables
<1>4. Sound'
  <2>1. firsts[rule][0] \subseteq TrueVarFirsts(grammar, HeadVar)
    BY <1>0, <1>1, TrueVarFirstsClosed DEF IInv, Sound
  <2> QED BY <1>1, <2>1 DEF IInv, TypeOK, Sound, Variables
<1>5. ClosedBehind'
  <2> SUFFICES ASSUME ~ modified' PROVE ClosedBehind'
    BY DEF ClosedBehind
  <2>1. ~ modified /\ varFirsts' = varFirsts
    BY <1>1
  <2>2. firsts[rule][0] \subseteq varFirsts[HeadVar]
    BY <1>1, <2>1 DEF IInv, TypeOK
  <2>3. \A k \in ChoicesOf(grammar, rule) : ~ (k > pos')
    BY <1>0, <1>1, Shape
  <2> QED BY <1>1, <2>1, <2>2, <2>3 DEF IInv, ClosedBehind
<1> QED BY <1>1, <1>2, <1>3, <1>4, <1>5 DEF IInv, IsPrepared

LEMMA ComputeChoiceProof ==
    ASSUME IInv, ComputeChoice
    PROVE  IInv'
<1>0. IsGrammar(grammar)
  BY DEF IInv, IsPrepared
<1>1. /\ rule \in RulesOf(grammar) /\ pos # Outside /\ phase = "firsts" /\ pos \in ChoicesOf(grammar, rule)
      /\ UNCHANGED <<grammar, phase, varFirsts, followers>>
      /\ firsts' = [firsts EXCEPT ![rule][pos] = @ \cup FirstsAdded]
      /\ modified' = (modified \/ firsts' # firsts)
      /\ pos' = pos - 1
      /\ rule' = IF pos = 0 THEN rule + 1 ELSE rule
  BY DEF ComputeChoice, IInv, TypeOK
<1>2. FirstsAdded = AddedTo(grammar, firsts, varFirsts, rule, pos)
  BY FirstsAddedIs
<1> DEFINE n == Len(BodyOf(grammar, rule))
           X == BodyOf(grammar, rule)[pos + 1]
           S == firsts[rule][pos] \cup FirstsAdded
<1>3. n \in Nat /\ pos \in 0 .. n /\ (pos # n => pos + 1 \in DOMAIN BodyOf(grammar, rule) /\ pos + 1 \in ChoicesOf(grammar, rule))
  BY <1>0, <1>1, Shape
<1>4. firsts' = [firsts EXCEPT ![rule][pos] = S]
  BY <1>1 DEF IInv, TypeOK
<1>5. /\ DOMAIN firsts' = RulesOf(grammar)
      /\ \A q \in RulesOf(grammar) : /\ DOMAIN firsts'[q] = ChoicesOf(grammar, q)
                                     /\ firsts'[q] = [c \in ChoicesOf(grammar, q) |-> firsts'[q][c]]
      /\ \A q \in RulesOf(grammar) : \A c \in ChoicesOf(grammar, q) :
            firsts'[q][c] = IF q = rule /\ c = pos THEN S ELSE firsts[q][c]
  <2> HIDE DEF S
  <2> DEFINE row == [firsts[rule] EXCEPT ![pos] = S]
  <2>1. /\ DOMAIN firsts = RulesOf(grammar)
        /\ \A q \in RulesOf(grammar) : firsts[q] = [c \in ChoicesOf(grammar, q) |-> firsts[q][c]]
    BY DEF IInv, TypeOK
  <2>2. /\ row = [c \in ChoicesOf(grammar, rule) |-> row[c]]
        /\ \A c \in ChoicesOf(grammar, rule) : row[c] = IF c = pos THEN S ELSE firsts[rule][c]
    BY <1>1, <2>1
  <2>3. firsts' = [firsts EXCEPT ![rule] = row]
    BY <1>4
  <2> HIDE DEF row
  <2>4. /\ DOMAIN firsts' = RulesOf(grammar)
        /\ \A q \in RulesOf(grammar) : firsts'[q] = IF q = rule THEN row ELSE firsts[q]
    BY <1>1, <2>1, <2>3
  <2> QED BY <1>1, <2>1, <2>2, <2>4
<1>6. FirstsAdded \subseteq TrueFirsts(grammar, rule, pos)
  <2>1. CASE pos = n
    BY <1>0, <1>1, <1>2, <2>1, TrueFirstsClosed DEF AddedTo
  <2>2. CASE pos # n /\ X \notin VariablesOf(grammar)
    BY <1>0, <1>1, <1>2, <2>2, TrueFirstsClosed DEF AddedTo
  <2>3. CASE pos # n /\ X \in VariablesOf(grammar)
    <3>1. varFirsts[X] \subseteq TrueVarFirsts(grammar, X)
      BY <2>3 DEF IInv, Sound, Variables
    <3>2. varFirsts[X] \ {Epsilon} \subseteq TrueFirsts(grammar, rule, pos)
      BY <1>0, <1>1, <2>3, <3>1, TrueFirstsClosed
    <3>3. firsts[rule][pos + 1] \subseteq TrueFirsts(grammar, rule, pos + 1)
      BY <1>1, <1>3, <2>3 DEF IInv, Sound
    <3>4. Epsilon \in varFirsts[X] => X \in Nullable(grammar)
      BY <1>0, <3>1, EpsilonApart
    <3>5. Epsilon \in varFirsts[X] => firsts[rule][pos + 1] \subseteq TrueFirsts(grammar, rule, pos)
      BY <1>0, <1>1, <2>3, <3>3, <3>4, TrueFirstsClosed
    <3> QED BY <1>2, <2>3, <3>2, <3>5 DEF AddedTo
  <2> QED BY <2>1, <2>2, <2>3
<1>7. FirstsAdded \subseteq Terminals \cup {Epsilon}
  <2>1. CASE pos = n \/ (pos # n /\ X \in VariablesOf(grammar))
    BY <1>1, <1>2, <1>3, <2>1 DEF AddedTo, IInv, TypeOK, Set, Variables
  <2>2. CASE pos # n /\ X \notin VariablesOf(grammar)
    <3>1. X \in Terminals
      BY <1>1, <1>3, <2>2 DEF Terminals, Variables
    <3> QED BY <1>2, <2>2, <3>1 DEF AddedTo
  <2> QED BY <2>1, <2>2
<1>8. TypeOK'
  <2>1. Terminals' = Terminals /\ Variables' = Variables /\ Set' = Set
    BY <1>1 DEF Terminals, Variables, Set
  <2>2. \A r \in RulesOf(grammar) : firsts'[r] \in [ChoicesOf(grammar, r) -> Set]
    <3> SUFFICES ASSUME NEW q \in RulesOf(grammar), NEW c \in ChoicesOf(grammar, q)
                 PROVE  firsts'[q][c] \in Set
      BY <1>5
    <3>1. firsts[q][c] \in Set /\ firsts[rule][pos] \in Set
      BY <1>1 DEF IInv, TypeOK
    <3>2. S \in Set
      BY <1>7, <3>1 DEF Set
    <3> HIDE DEF S
    <3> QED BY <1>5, <3>1, <3>2
  <2>3. /\ rule' \in 1 .. Len(grammar.rules) + 1 /\ pos' \in Int
        /\ rule' \in RulesOf(grammar) => pos' \in {Outside} \cup ChoicesOf(grammar, rule')
    BY <1>0, <1>1, <1>3, Shape DEF Outside
  <2>4. modified' \in BOOLEAN
    BY <1>1
  <2> QED BY <1>1, <1>5, <2>1, <2>2, <2>3, <2>4 DEF IInv, TypeOK
<1>9. Cursor' /\ FollowedBehind' /\ FirstsExact' /\ FollowersExact'
  BY <1>0, <1>1, <1>3, Shape DEF IInv, Cursor, FollowedBehind, FirstsExact, FollowersExact, Outside
<1>10. Sound'
  <2>1. S \subseteq TrueFirsts(grammar, rule, pos)
    BY <1>1, <1>6 DEF IInv, Sound
  <2> HIDE DEF S
  <2> QED BY <1>1, <1>5, <2>1 DEF IInv, Sound, Variables
<1>11. ClosedBehind'
  <2> SUFFICES ASSUME ~ modified' PROVE ClosedBehind'
    BY DEF ClosedBehind
  <2>1. ~ modified /\ firsts' = firsts
    BY <1>1
  <2>2. AddedTo(grammar, firsts, varFirsts, rule, pos) \subseteq firsts[rule][pos]
    BY <1>1, <1>2, <1>5, <2>1
  <2>3. /\ firsts[rule][0] \subseteq varFirsts[grammar.rules[rule].head]
        /\ \A k \in ChoicesOf(grammar, rule) :
                k > pos => AddedTo(grammar, firsts, varFirsts, rule, k) \subseteq firsts[rule][k]
    BY <1>1, <2>1 DEF IInv, ClosedBehind
  <2>4. \A k \in ChoicesOf(grammar, rule) :
                k > pos - 1 => AddedTo(grammar, firsts, varFirsts, rule, k) \subseteq firsts[rule][k]
    <3> SUFFICES ASSUME NEW k \in ChoicesOf(grammar, rule), k > pos - 1, k # pos PROVE k > pos
      BY <2>2, <2>3
    <3> QED BY <1>0, <1>1, <1>3, Shape
  <2>5. pos = 0 => RuleClosed(grammar, firsts, varFirsts, rule)
    <3> SUFFICES ASSUME pos = 0, NEW k \in ChoicesOf(grammar, rule) PROVE k > pos - 1
      BY <2>3, <2>4 DEF RuleClosed
    <3> QED BY <1>0, <1>1, Shape
  <2>6. \A r \in RulesOf(grammar) : r < rule => RuleClosed(grammar, firsts, varFirsts, r)
    BY <1>1, <2>1 DEF IInv, ClosedBehind
  <2>7. \A r \in RulesOf(grammar) : r \in Int /\ rule \in Int /\ (r < rule + 1 => r < rule \/ r = rule)
    BY <1>0, <1>1, Shape
  <2>8. CASE pos = 0
    <3>1. rule' = rule + 1 /\ pos' = Outside
      BY <1>1, <2>8 DEF Outside
    <3> QED BY <1>1, <2>1, <2>5, <2>6, <2>7, <2>8, <3>1 DEF ClosedBehind
  <2>9. CASE pos # 0
    BY <1>1, <2>1, <2>3, <2>4, <2>6, <2>9 DEF ClosedBehind
  <2> QED BY <2>8, <2>9
<1> QED BY <1>1, <1>8, <1>9, <1>10, <1>11 DEF IInv

LEMMA EndFirstsPassProof ==
    ASSUME IInv, EndFirstsPass
    PROVE  IInv'
<1>0. IsGrammar(grammar)
  BY DEF IInv, IsPrepared
<1>1. /\ phase = "firsts" /\ rule \notin RulesOf(grammar) /\ pos = Outside
      /\ phase' = IF modified THEN "firsts" ELSE "initial"
      /\ rule' = 1 /\ modified' = FALSE
      /\ UNCHANGED <<grammar, pos, firsts, varFirsts, followers>>
  BY DEF EndFirstsPass, Rewind, IInv, Cursor
<1>2. \A r \in RulesOf(grammar) : r < rule /\ r >= 1
  BY <1>0, <1>1, Shape DEF IInv, TypeOK
<1>3. 1 \in RulesOf(grammar)
  BY <1>0, Shape
<1>4. TypeOK'
  <2>1. /\ rule' \in 1 .. Len(grammar.rules) + 1 /\ pos' \in {Outside} /\ pos' \in Int
        /\ phase' \in {"firsts", "initial", "followers", "done"} /\ modified' \in BOOLEAN
    <3>1. Len(grammar.rules) \in Nat
      BY <1>0, Shape
    <3>2. rule' \in 1 .. Len(grammar.rules) + 1
      BY <1>1, <3>1
    <3>3. pos' \in {Outside} /\ pos' \in Int
      BY <1>1 DEF Outside
    <3>4. phase' \in {"firsts", "initial", "followers", "done"} /\ modified' \in BOOLEAN
      BY <1>1
    <3> QED BY <3>2, <3>3, <3>4
  <2>2. Terminals' = Terminals /\ Variables' = Variables /\ Set' = Set
    BY <1>1 DEF Terminals, Variables, Set
  <2> QED BY <1>1, <2>1, <2>2 DEF IInv, TypeOK
<1>5. Cursor' /\ FollowedBehind' /\ FollowersExact'
  <2>1. \A r \in RulesOf(grammar) : ~ (r < rule')
    BY <1>0, <1>1, Shape
  <2> QED BY <1>1, <1>3, <2>1 DEF Cursor, FollowedBehind, FollowersExact
<1>6. Sound'
  BY <1>1 DEF IInv, Sound, Variables
<1>7. ClosedBehind'
  BY <1>0, <1>1, Shape DEF ClosedBehind
<1>8. FirstsExact'
  <2> SUFFICES ASSUME ~ modified PROVE FirstsExact'
    BY <1>1 DEF FirstsExact
  <2>1. FirstsClosed(grammar, firsts, varFirsts)
    BY <1>1, <1>2 DEF IInv, ClosedBehind, FirstsClosed
  <2>2. /\ \A r \in RulesOf(grammar) : \A k \in ChoicesOf(grammar, r) :
                firsts[r][k] = TrueFirsts(grammar, r, k)
        /\ \A v \in Variables : varFirsts[v] = TrueVarFirsts(grammar, v)
    BY <1>0, <2>1, FirstsAreLeast DEF IInv, Sound, Variables
  <2>3. \A r \in RulesOf(grammar) : \A k \in ChoicesOf(grammar, r) :
                grammar.firsts[r][k] = TrueFirsts(grammar, r, k)
    BY DEF IInv, IsPrepared
  <2> QED BY <1>1, <2>2, <2>3 DEF FirstsExact, Variables
<1> QED BY <1>1, <1>4, <1>5, <1>6, <1>7, <1>8 DEF IInv

\* Once the FIRSTS are known, what a rule looks at is their definition.
LEMMA FirstsKnown ==
    ASSUME IInv, phase # "firsts", NEW r \in RulesOf(grammar), NEW k \in ChoicesOf(grammar, r)
    PROVE  firsts[r][k] = TrueFirsts(grammar, r, k)
BY DEF IInv, FirstsExact, IsPrepared

LEMMA InitialFollowerProof ==
    ASSUME IInv, InitialFollower
    PROVE  IInv'
<1>0. IsGrammar(grammar)
  BY DEF IInv, IsPrepared
<1> DEFINE Starts(v) == UNION {FirstsAfter(k) : k \in {i \in DOMAIN Body : Body[i] = v}}
<1>1. /\ phase = "initial" /\ rule \in RulesOf(grammar) /\ pos = Outside
      /\ followers' = [v \in Variables |-> followers[v] \cup Starts(v)]
      /\ rule' = IF rule + 1 \in RulesOf(grammar) THEN rule + 1 ELSE 1
      /\ phase' = IF rule + 1 \in RulesOf(grammar) THEN "initial" ELSE "followers"
      /\ UNCHANGED <<grammar, pos, modified, firsts, varFirsts>>
  BY DEF InitialFollower, IInv, Cursor
<1>2. /\ DOMAIN Body = 1 .. Len(Body) /\ Len(Body) \in Nat /\ Body = BodyOf(grammar, rule)
      /\ \A k \in DOMAIN Body : k \in ChoicesOf(grammar, rule)
  BY <1>0, <1>1, Shape DEF Body
<1>3. \A k \in DOMAIN Body : FirstsAfter(k) = TrueFirsts(grammar, rule, k) \ {Epsilon}
  BY <1>1, <1>2, FirstsKnown DEF FirstsAfter
<1>4. \A v, t : t \in Starts(v) <=> \E k \in DOMAIN Body : Body[k] = v /\ t \in FirstsAfter(k)
  OBVIOUS
<1> HIDE DEF Starts
<1>5. 1 \in RulesOf(grammar) /\ rule \in Nat /\ RulesOf(grammar) = 1 .. Len(grammar.rules) /\ Len(grammar.rules) \in Nat
  BY <1>0, <1>1, Shape
<1>6. ASSUME NEW v \in Variables PROVE Starts(v) \subseteq TrueFollowers(grammar, v)
  <2> SUFFICES ASSUME NEW k \in DOMAIN Body, Body[k] = v PROVE FirstsAfter(k) \subseteq TrueFollowers(grammar, v)
    BY <1>4
  <2> QED BY <1>0, <1>1, <1>2, <1>3, TrueFollowersClosed DEF Variables
<1>7. ASSUME NEW v \in Variables PROVE Starts(v) \subseteq Terminals
  <2>1. \A k \in DOMAIN Body : firsts[rule][k] \subseteq Terminals \cup {Epsilon}
    BY <1>1, <1>2 DEF IInv, TypeOK, Set
  <2> QED BY <1>4, <2>1 DEF FirstsAfter
<1>8. Terminals' = Terminals /\ Variables' = Variables /\ Set' = Set
  BY <1>1 DEF Terminals, Variables, Set
<1>9. TypeOK'
  <2>1. followers' \in [Variables -> SUBSET Terminals]
    BY <1>1, <1>7 DEF IInv, TypeOK
  <2>2. /\ rule' \in 1 .. Len(grammar.rules) + 1 /\ pos' \in {Outside} /\ pos' \in Int
        /\ phase' \in {"firsts", "initial", "followers", "done"}
    BY <1>1, <1>5 DEF Outside
  <2> QED BY <1>1, <1>8, <2>1, <2>2 DEF IInv, TypeOK
<1>10. Cursor'
  BY <1>1 DEF Cursor
<1>11. Sound'
  BY <1>1, <1>6, <1>8 DEF IInv, Sound
<1>12. ClosedBehind' /\ FirstsExact' /\ FollowersExact'
  BY <1>1, <1>8 DEF IInv, ClosedBehind, FirstsExact, FollowersExact
<1>13. FollowedBehind'
  <2>1. ASSUME NEW r \in RulesOf(grammar), HasInitials(r) PROVE HasInitials(r)'
    BY <1>1, <1>8, <2>1 DEF HasInitials
  <2>2. ASSUME NEW r \in RulesOf(grammar), r = rule PROVE HasInitials(r)'
    <3> SUFFICES ASSUME NEW k \in DOMAIN Body, Body[k] \in Variables
                 PROVE  firsts[rule][k] \ {Epsilon} \subseteq followers'[Body[k]]
      BY <1>1, <1>2, <1>8, <2>2 DEF HasInitials
    <3>1. FirstsAfter(k) \subseteq Starts(Body[k])
      BY <1>4
    <3> QED BY <1>1, <3>1 DEF FirstsAfter
  <2>3. \A r \in RulesOf(grammar) : r < rule => HasInitials(r)'
    BY <1>1, <2>1 DEF IInv, FollowedBehind
  <2>4. CASE rule + 1 \in RulesOf(grammar)
    <3>1. \A r \in RulesOf(grammar) : r < rule + 1 => r < rule \/ r = rule
      BY <1>5
    <3> QED BY <1>1, <2>2, <2>3, <2>4, <3>1 DEF FollowedBehind
  <2>5. CASE rule + 1 \notin RulesOf(grammar)
    <3>1. \A r \in RulesOf(grammar) : (r < rule \/ r = rule) /\ ~ (r < 1)
      BY <1>1, <1>5, <2>5
    <3> QED BY <1>1, <2>2, <2>3, <2>5, <3>1 DEF FollowedBehind
  <2> QED BY <2>4, <2>5
<1> QED BY <1>1, <1>9, <1>10, <1>11, <1>12, <1>13 DEF IInv

LEMMA PropagateFollowersProof ==
    ASSUME IInv, PropagateFollowers
    PROVE  IInv'
<1>0. IsGrammar(grammar)
  BY DEF IInv, IsPrepared
<1> DEFINE Ended(v) == \E k \in DOMAIN Body : Body[k] = v /\ EndsRule(k)
<1>1. /\ phase = "followers" /\ rule \in RulesOf(grammar) /\ pos = Outside
      /\ followers' = [v \in Variables |-> IF Ended(v) THEN followers[v] \cup followers[HeadVar] ELSE followers[v]]
      /\ modified' = (modified \/ followers' # followers)
      /\ rule' = rule + 1
      /\ UNCHANGED <<grammar, phase, pos, firsts, varFirsts>>
  BY DEF PropagateFollowers, IInv, Cursor
<1>2. /\ DOMAIN Body = 1 .. Len(Body) /\ Len(Body) \in Nat /\ Body = BodyOf(grammar, rule)
      /\ \A k \in DOMAIN Body : k \in ChoicesOf(grammar, rule)
      /\ HeadVar = grammar.rules[rule].head /\ HeadVar \in Variables
      /\ rule \in Nat /\ RulesOf(grammar) = 1 .. Len(grammar.rules) /\ Len(grammar.rules) \in Nat
  BY <1>0, <1>1, Shape DEF Body, HeadVar, Variables
<1>3. ASSUME NEW v \in Variables, Ended(v) PROVE followers[HeadVar] \subseteq TrueFollowers(grammar, v)
  <2>1. PICK k \in DOMAIN Body : Body[k] = v /\ Epsilon \in firsts[rule][k]
    BY <1>3 DEF EndsRule
  <2>2. Epsilon \in TrueFirsts(grammar, rule, k)
    BY <1>1, <1>2, <2>1, FirstsKnown
  <2>3. TrueFollowers(grammar, HeadVar) \subseteq TrueFollowers(grammar, v)
    BY <1>0, <1>1, <1>2, <2>1, <2>2, TrueFollowersClosed DEF Variables
  <2> QED BY <1>2, <2>3 DEF IInv, Sound
<1> HIDE DEF Ended
<1>4. Terminals' = Terminals /\ Variables' = Variables /\ Set' = Set
  BY <1>1 DEF Terminals, Variables, Set
<1>5. TypeOK'
  <2>1. followers' \in [Variables -> SUBSET Terminals]
    BY <1>1, <1>2 DEF IInv, TypeOK
  <2>2. rule' \in 1 .. Len(grammar.rules) + 1 /\ pos' \in {Outside} /\ modified' \in BOOLEAN
    BY <1>1, <1>2
  <2> QED BY <1>1, <1>4, <2>1, <2>2 DEF IInv, TypeOK
<1>6. Cursor' /\ ClosedBehind' /\ FirstsExact' /\ FollowersExact'
  BY <1>1, <1>4 DEF IInv, Cursor, ClosedBehind, FirstsExact, FollowersExact
<1>7. Sound'
  BY <1>1, <1>3, <1>4 DEF IInv, Sound
<1>8. FollowedBehind'
  <2>1. \A r \in RulesOf(grammar) : HasInitials(r)'
    BY <1>1, <1>4 DEF IInv, FollowedBehind, HasInitials
  <2>2. ASSUME ~ modified', NEW r \in RulesOf(grammar), r < rule + 1 PROVE HasFollowers(r)'
    <3>1. ~ modified /\ followers' = followers
      BY <1>1, <2>2
    <3>2. r < rule \/ r = rule
      BY <1>2, <2>2
    <3>3. HasFollowers(rule)
      <4> SUFFICES ASSUME NEW k \in DOMAIN Body, Body[k] \in Variables, Epsilon \in firsts[rule][k]
                   PROVE  followers[HeadVar] \subseteq followers[Body[k]]
        BY <1>2 DEF HasFollowers
      <4>1. Ended(Body[k])
        BY DEF Ended, EndsRule
      <4> QED BY <1>1, <3>1, <4>1
    <3>4. HasFollowers(r)
      BY <1>1, <3>1, <3>2, <3>3 DEF IInv, FollowedBehind
    <3> QED BY <1>1, <1>4, <3>1, <3>4 DEF HasFollowers
  <2> QED BY <1>1, <2>1, <2>2 DEF FollowedBehind
<1> QED BY <1>1, <1>5, <1>6, <1>7, <1>8 DEF IInv

LEMMA EndFollowersPassProof ==
    ASSUME IInv, EndFollowersPass
    PROVE  IInv'
<1>0. IsGrammar(grammar)
  BY DEF IInv, IsPrepared
<1>1. /\ phase = "followers" /\ rule \notin RulesOf(grammar) /\ pos = Outside
      /\ phase' = IF modified THEN "followers" ELSE "done"
      /\ rule' = 1 /\ modified' = FALSE
      /\ UNCHANGED <<grammar, pos, firsts, varFirsts, followers>>
  BY DEF EndFollowersPass, Rewind, IInv, Cursor
<1>2. \A r \in RulesOf(grammar) : r < rule /\ ~ (r < 1)
  BY <1>0, <1>1, Shape DEF IInv, TypeOK
<1>3. 1 \in RulesOf(grammar)
  BY <1>0, Shape
<1>4. Terminals' = Terminals /\ Variables' = Variables /\ Set' = Set
  BY <1>1 DEF Terminals, Variables, Set
<1>5. TypeOK'
  <2>1. /\ rule' \in 1 .. Len(grammar.rules) + 1 /\ pos' \in {Outside} /\ pos' \in Int
        /\ phase' \in {"firsts", "initial", "followers", "done"} /\ modified' \in BOOLEAN
    <3>1. Len(grammar.rules) \in Nat
      BY <1>0, Shape
    <3>2. rule' \in 1 .. Len(grammar.rules) + 1
      BY <1>1, <3>1
    <3>3. pos' \in {Outside} /\ pos' \in Int
      BY <1>1 DEF Outside
    <3>4. phase' \in {"firsts", "initial", "followers", "done"} /\ modified' \in BOOLEAN
      BY <1>1
    <3> QED BY <3>2, <3>3, <3>4
  <2> QED BY <1>1, <1>4, <2>1 DEF IInv, TypeOK
<1>6. Cursor' /\ Sound' /\ ClosedBehind' /\ FirstsExact'
  BY <1>1, <1>4 DEF IInv, Cursor, Sound, ClosedBehind, FirstsExact
<1>7. FollowedBehind'
  BY <1>1, <1>2, <1>4 DEF IInv, FollowedBehind, HasInitials
<1>8. FollowersExact'
  <2> SUFFICES ASSUME ~ modified, NEW v \in Variables PROVE followers[v] = TrueFollowers(grammar, v)
    BY <1>1, <1>4 DEF FollowersExact
  <2>1. \A r \in RulesOf(grammar) : HasInitials(r) /\ HasFollowers(r)
    BY <1>1, <1>2 DEF IInv, FollowedBehind
  <2>2. ASSUME NEW r \in RulesOf(grammar), NEW k \in DOMAIN BodyOf(grammar, r),
               BodyOf(grammar, r)[k] \in VariablesOf(grammar)
        PROVE  /\ TrueFirsts(grammar, r, k) \ {Epsilon} \subseteq followers[BodyOf(grammar, r)[k]]
               /\ Epsilon \in TrueFirsts(grammar, r, k) =>
                    followers[grammar.rules[r].head] \subseteq followers[BodyOf(grammar, r)[k]]
    <3>1. k \in ChoicesOf(grammar, r)
      BY <1>0, Shape
    <3>2. firsts[r][k] = TrueFirsts(grammar, r, k)
      BY <1>1, <3>1, FirstsKnown
    <3> QED BY <2>1, <2>2, <3>2 DEF HasInitials, HasFollowers, Variables
  <2>3. TrueFollowers(grammar, v) \subseteq followers[v]
    BY <1>0, <2>2, FollowersAreLeast DEF Variables
  <2> QED BY <2>3 DEF IInv, Sound
<1> QED BY <1>1, <1>5, <1>6, <1>7, <1>8 DEF IInv

LEMMA NextProof ==
    ASSUME IInv, [Next]_vars
    PROVE  IInv'
<1>1. CASE UNCHANGED vars
  BY <1>1 DEF vars, IInv, TypeOK, Cursor, Sound, ClosedBehind, FirstsExact, FollowedBehind, FollowersExact,
              HasInitials, HasFollowers, Variables, Set, Terminals
<1> QED BY <1>1, EnterRuleProof, ComputeChoiceProof, EndFirstsPassProof, InitialFollowerProof,
           PropagateFollowersProof, EndFollowersPassProof DEF Next
-----------------------------------------------------------------------------
\* For any grammars, the sets that prepare() leaves when it stops are the FIRSTS
\* and the FOLLOWERS of their definitions.
THEOREM SetsAreExact ==
    ASSUME \A g \in InputGrammars : IsPrepared(g)
    PROVE  Spec => [](TypeOK /\ FirstsExact /\ FollowersExact)
<1>1. Init => IInv
  BY InitProof DEF Init
<1>2. IInv /\ [Next]_vars => IInv'
  BY NextProof
<1>3. IInv => TypeOK /\ FirstsExact /\ FollowersExact
  BY DEF IInv
<1> QED BY <1>1, <1>2, <1>3, PTL DEF Spec
=============================================================================
