------------------------ MODULE LRConstruction_proofs -----------------------
(***************************************************************************)
(* What the operators on items, closures and graphs return.  They are      *)
(* recursive functions of a number, defined by a choice: that one exists   *)
(* is shown up to n by induction on n.  Then what the construction keeps:   *)
(* its graph, its table, and the lookaheads of the LALR(1) kernels.         *)
(***************************************************************************)
EXTENDS LRConstruction, FiniteSetTheorems, WellFoundedInduction, TLAPS

LEMMA ShortestExample ==
    ASSUME NEW T, T \subseteq Nat, T # {}
    PROVE  \E n \in T : \A m \in T : n <= m
<1>1. PICK n \in T : \A m \in T : <<m, n>> \notin OpToRel(<, Nat)
  BY NatLessThanWellFounded, WFMin
<1>2. \A m \in T : ~ (m < n)
  BY <1>1 DEF OpToRel
<1> QED BY <1>2

\* Induction up to a number, over a set.
LEMMA Induction ==
    ASSUME NEW N \in Nat, NEW T, 0 \in T, \A n \in 1 .. N : n - 1 \in T => n \in T
    PROVE  \A n \in 0 .. N : n \in T
<1> DEFINE Missing == {n \in 0 .. N : n \notin T}
<1>1. ASSUME Missing # {} PROVE FALSE
  <2>1. PICK n \in Missing : \A m \in Missing : n <= m
    <3>1. Missing \subseteq Nat
      OBVIOUS
    <3> HIDE DEF Missing
    <3> QED BY <1>1, <3>1, ShortestExample
  <2>2. n \in 1 .. N
    BY <2>1
  <2>3. n - 1 \in 0 .. N /\ n - 1 \notin Missing
    BY <2>1, <2>2
  <2> QED BY <2>1, <2>2, <2>3
<1> QED BY <1>1

\* A function on 1 .. N is a sequence.
LEMMA IsSequence ==
    ASSUME NEW N \in Nat, NEW K, NEW f, f = [i \in 1 .. N |-> f[i]], \A i \in 1 .. N : f[i] \in K
    PROVE  f \in Seq(K) /\ Len(f) = N /\ DOMAIN f = 1 .. N
<1>1. f \in [1 .. N -> K]
  OBVIOUS
<1> QED BY <1>1

\* What a recursive function of n is after N steps, the step being F.
Iterates(f, N, base, F) ==
    f = [n \in 0 .. N |-> IF n = 0 THEN base ELSE F[n][f[n - 1]]]

LEMMA Recursion ==
    ASSUME NEW N \in Nat, NEW base, NEW F
    PROVE  \E f : Iterates(f, N, base, F)
<1> DEFINE T == {n \in 0 .. N : \E f : Iterates(f, n, base, F)}
<1>1. Iterates([n \in 0 .. 0 |-> base], 0, base, F)
  BY DEF Iterates
<1>2. ASSUME NEW n \in 1 .. N, NEW f, Iterates(f, n - 1, base, F)
      PROVE  \E h : Iterates(h, n, base, F)
  <2> DEFINE h == [k \in 0 .. n |-> IF k = n THEN F[n][f[n - 1]] ELSE f[k]]
  <2>1. ASSUME NEW k \in 0 .. n
        PROVE  h[k] = IF k = 0 THEN base ELSE F[k][h[k - 1]]
    <3>1. CASE k = n
      <4>1. n - 1 \in 0 .. n /\ n - 1 # n /\ k # 0
        BY <3>1
      <4>2. h[n] = F[n][f[n - 1]] /\ h[n - 1] = f[n - 1]
        BY <4>1
      <4> QED BY <3>1, <4>1, <4>2
    <3>2. CASE k # n
      <4>1. k \in 0 .. n - 1
        BY <3>2
      <4>2. f[k] = IF k = 0 THEN base ELSE F[k][f[k - 1]]
        BY <1>2, <4>1 DEF Iterates
      <4>3. k # 0 => k - 1 \in 0 .. n /\ k - 1 # n
        BY <4>1
      <4> QED BY <3>2, <4>2, <4>3
    <3> QED BY <3>1, <3>2
  <2>2. h = [k \in 0 .. n |-> h[k]]
    OBVIOUS
  <2> HIDE DEF h
  <2>3. Iterates(h, n, base, F)
    BY <2>1, <2>2 DEF Iterates
  <2> QED BY <2>3
<1>3. \A n \in 1 .. N : n - 1 \in T => n \in T
  <2> SUFFICES ASSUME NEW n \in 1 .. N, n - 1 \in T PROVE n \in T
    OBVIOUS
  <2>1. PICK f : Iterates(f, n - 1, base, F)
    OBVIOUS
  <2> QED BY <1>2, <2>1
<1>4. 0 \in T
  BY <1>1
<1>5. \A n \in 0 .. N : n \in T
  <2> HIDE DEF T
  <2> QED BY <1>3, <1>4, Induction
<1> QED BY <1>5

\* A property that the base has, and that each step preserves
LEMMA StaysIn ==
    ASSUME NEW N \in Nat, NEW T, NEW f, f[0] \in T, \A n \in 1 .. N : f[n - 1] \in T => f[n] \in T
    PROVE  \A n \in 0 .. N : f[n] \in T
<1> DEFINE K == {n \in 0 .. N : f[n] \in T}
<1>1. 0 \in K /\ \A n \in 1 .. N : n - 1 \in K => n \in K
  OBVIOUS
<1>2. \A n \in 0 .. N : n \in K
  <2> HIDE DEF K
  <2> QED BY <1>1, Induction
<1> QED BY <1>2

\* The same, for a step that is given on the values of a set only.
IteratesIn(f, T, N, base, F) ==
    /\ f = [n \in 0 .. N |-> f[n]]
    /\ f[0] = base
    /\ \A n \in 1 .. N : f[n - 1] \in T /\ f[n] = F[n][f[n - 1]]

LEMMA RecursionOn ==
    ASSUME NEW N \in Nat, NEW T, NEW base \in T, NEW F,
           \A n \in 1 .. N : \A x \in T : F[n][x] \in T
    PROVE  \E f : IteratesIn(f, T, N, base, F)
<1>1. PICK f : Iterates(f, N, base, F)
  BY Recursion
<1>2. f[0] = base /\ \A n \in 1 .. N : f[n] = F[n][f[n - 1]]
  <2>1. 0 \in 0 .. N /\ \A n \in 1 .. N : n \in 0 .. N /\ n # 0
    OBVIOUS
  <2> QED BY <1>1, <2>1 DEF Iterates
<1>3. \A n \in 0 .. N : f[n] \in T
  BY <1>2, StaysIn
<1>4. \A n \in 1 .. N : n - 1 \in 0 .. N
  OBVIOUS
<1>5. f = [n \in 0 .. N |-> f[n]]
  BY <1>1 DEF Iterates
<1> QED BY <1>2, <1>3, <1>4, <1>5 DEF IteratesIn
-----------------------------------------------------------------------------
(***************************************************************************)
(* The items, the closures and the graphs have the shape that their        *)
(* operators rely on.                                                      *)
(***************************************************************************)
\* What a lookahead may be
Marks(g) == (SymbolsOf(g) \ VariablesOf(g)) \cup {Epsilon, Dummy}

ItemType(g) ==
    {x \in [rule : RulesOf(g), position : Nat, lookaheads : SUBSET Marks(g)] :
        x.position <= Len(BodyOf(g, x.rule))}

Items(g) == Seq(ItemType(g))

\* A grammar that build_graph works on
IsInput(g) ==
    /\ g.rules \in Seq([head : STRING, body : Seq(STRING), context : Nat])
    /\ Len(g.rules) > 0
    /\ g.symbols \in Seq(STRING)
    /\ \A r \in RulesOf(g) : \A k \in DOMAIN BodyOf(g, r) :
            BodyOf(g, r)[k] \in Elements(g.symbols) \ {HeadOfAxiom(g)}
    /\ \A r \in RulesOf(g) : \A k \in ChoicesOf(g, r) : g.firsts[r][k] \subseteq Marks(g)

LEMMA GrammarShape ==
    ASSUME NEW g, IsInput(g)
    PROVE  /\ Len(g.rules) \in Nat \ {0} /\ RulesOf(g) = 1 .. Len(g.rules)
           /\ \A r \in RulesOf(g) :
                /\ BodyOf(g, r) \in Seq(STRING)
                /\ Len(BodyOf(g, r)) \in Nat
                /\ DOMAIN BodyOf(g, r) = 1 .. Len(BodyOf(g, r))
                /\ ChoicesOf(g, r) = 0 .. Len(BodyOf(g, r))
<1>1. Len(g.rules) \in Nat \ {0} /\ RulesOf(g) = 1 .. Len(g.rules)
  BY DEF IsInput, RulesOf
<1>2. ASSUME NEW r \in RulesOf(g) PROVE BodyOf(g, r) \in Seq(STRING)
  <2> DEFINE Rules == [head : STRING, body : Seq(STRING), context : Nat]
  <2>1. g.rules \in Seq(Rules) /\ r \in 1 .. Len(g.rules)
    BY <1>1, <1>2 DEF IsInput
  <2>2. g.rules[r] \in Rules
    <3> HIDE DEF Rules
    <3> QED BY <2>1
  <2> QED BY <2>2 DEF BodyOf
<1>3. ASSUME NEW r \in RulesOf(g)
      PROVE  Len(BodyOf(g, r)) \in Nat /\ DOMAIN BodyOf(g, r) = 1 .. Len(BodyOf(g, r))
  BY <1>2
<1> QED BY <1>1, <1>2, <1>3 DEF ChoicesOf

LEMMA ImageFinite ==
    ASSUME NEW T, IsFiniteSet(T), NEW f
    PROVE  IsFiniteSet({f[x] : x \in T})
<1> DEFINE h == [x \in T |-> f[x]]
           I == {f[x] : x \in T}
<1>1. h \in Surjection(T, I)
  BY DEF Surjection
<1>2. IsFiniteSet(I)
  <2> HIDE DEF h, I
  <2> QED BY <1>1, FS_Surjection
<1> QED BY <1>2

LEMMA OneMoreCount ==
    ASSUME NEW S, IsFiniteSet(S), NEW x
    PROVE  /\ IsFiniteSet(S \cup {x}) /\ Cardinality(S) \in Nat /\ Cardinality(S \cup {x}) \in Nat
           /\ Cardinality(S \cup {x}) <= Cardinality(S) + 1
<1>1. IsFiniteSet(S \cup {x}) /\ Cardinality(S \cup {x}) \in {Cardinality(S), Cardinality(S) + 1}
  BY FS_AddElement
<1>2. Cardinality(S) \in Nat /\ Cardinality(S \cup {x}) \in Nat
  BY <1>1, FS_CardinalityType
<1> QED BY <1>1, <1>2

LEMMA MarksFinite ==
    ASSUME NEW g, IsInput(g)
    PROVE  /\ IsFiniteSet(Marks(g)) /\ IsFiniteSet(SymbolsOf(g)) /\ IsFiniteSet(RulesOf(g))
           /\ Cardinality(SymbolsOf(g) \ VariablesOf(g)) \in Nat
           /\ Cardinality(Marks(g)) <= Cardinality(SymbolsOf(g) \ VariablesOf(g)) + 2
<1>1. IsFiniteSet(1 .. Len(g.rules)) /\ IsFiniteSet(1 .. Len(g.symbols))
  <2>1. Len(g.symbols) \in Nat /\ Len(g.rules) \in Nat
    BY DEF IsInput
  <2>2. IsFiniteSet(1 .. Len(g.rules))
    BY <2>1, FS_Interval
  <2>3. IsFiniteSet(1 .. Len(g.symbols))
    BY <2>1, FS_Interval
  <2> QED BY <2>2, <2>3
<1>2. RulesOf(g) = 1 .. Len(g.rules) /\ DOMAIN g.symbols = 1 .. Len(g.symbols)
  <2>1. g.symbols \in Seq(STRING)
    BY DEF IsInput
  <2> QED BY <2>1, GrammarShape
<1>3. IsFiniteSet({g.rules[r].head : r \in RulesOf(g)})
  <2> DEFINE f == [r \in RulesOf(g) |-> g.rules[r].head]
  <2>1. {g.rules[r].head : r \in RulesOf(g)} = {f[r] : r \in RulesOf(g)}
    OBVIOUS
  <2> HIDE DEF f
  <2>2. IsFiniteSet(RulesOf(g))
    BY <1>1, <1>2
  <2>3. IsFiniteSet({f[r] : r \in RulesOf(g)})
    BY <2>2, ImageFinite
  <2> QED BY <2>1, <2>3
<1>4. IsFiniteSet({g.symbols[i] : i \in DOMAIN g.symbols})
  <2>1. IsFiniteSet(DOMAIN g.symbols)
    BY <1>1, <1>2
  <2> QED BY <2>1, ImageFinite
<1>5. IsFiniteSet({Dollar}) /\ IsFiniteSet({Epsilon, Dummy})
  <2>1. {Epsilon, Dummy} = {Epsilon} \cup {Dummy}
    OBVIOUS
  <2>2. IsFiniteSet({Dollar}) /\ IsFiniteSet({Epsilon})
    BY FS_Singleton
  <2>3. IsFiniteSet({Epsilon} \cup {Dummy})
    BY <2>2, FS_AddElement
  <2> QED BY <2>1, <2>2, <2>3
<1>6. IsFiniteSet(SymbolsOf(g))
  BY <1>3, <1>4, <1>5, FS_Union DEF SymbolsOf, VariablesOf
<1> DEFINE T == SymbolsOf(g) \ VariablesOf(g)
<1>7. IsFiniteSet(T)
  BY <1>6, FS_Difference
<1>8. IsFiniteSet(Marks(g)) /\ Cardinality(T) \in Nat /\ Cardinality(Marks(g)) <= Cardinality(T) + 2
  <2>1. Marks(g) = (T \cup {Epsilon}) \cup {Dummy}
    BY DEF Marks
  <2> HIDE DEF T
  <2> DEFINE U == T \cup {Epsilon}
  <2>2. IsFiniteSet(U) /\ Cardinality(T) \in Nat /\ Cardinality(U) <= Cardinality(T) + 1
    BY <1>7, OneMoreCount
  <2> HIDE DEF U
  <2>3. /\ IsFiniteSet(U \cup {Dummy}) /\ Cardinality(U) \in Nat /\ Cardinality(U \cup {Dummy}) \in Nat
        /\ Cardinality(U \cup {Dummy}) <= Cardinality(U) + 1
    BY <2>2, OneMoreCount
  <2> QED BY <2>1, <2>2, <2>3 DEF U
<1> QED BY <1>1, <1>2, <1>6, <1>8

\* The sequences of n different elements of a set
Different(set, n) == {s \in Seq(set) : Len(s) = n /\ \A i, j \in 1 .. n : s[i] = s[j] => i = j}

OneMore(set, s) == Append(s, CHOOSE x \in set : x \notin Elements(s))

LEMMA DifferentCount ==
    ASSUME NEW set, NEW n \in Nat, NEW s \in Different(set, n)
    PROVE  /\ DOMAIN s = 1 .. n /\ Elements(s) \subseteq set
           /\ IsFiniteSet(Elements(s)) /\ Cardinality(Elements(s)) = n
<1>1. s \in Seq(set) /\ Len(s) = n /\ \A i, j \in 1 .. n : s[i] = s[j] => i = j
  BY DEF Different
<1>2. DOMAIN s = 1 .. n /\ Elements(s) \subseteq set
  BY <1>1 DEF Elements
<1>3. s \in Bijection(1 .. n, Elements(s))
  BY <1>1, <1>2 DEF Elements, Bijection, Injection, Surjection, IsInjective
<1>4. IsFiniteSet(1 .. n) /\ Cardinality(1 .. n) = n
  BY FS_Interval
<1>5. IsFiniteSet(Elements(s)) /\ Cardinality(Elements(s)) = n
  BY <1>3, <1>4, FS_Bijection DEF ExistsBijection
<1> QED BY <1>2, <1>5

LEMMA DifferentStep ==
    ASSUME NEW set, IsFiniteSet(set), NEW n \in 1 .. Cardinality(set), NEW s \in Different(set, n - 1)
    PROVE  OneMore(set, s) \in Different(set, n)
<1>0. Cardinality(set) \in Nat
  BY FS_CardinalityType
<1>1. n \in Nat /\ n - 1 \in Nat /\ n - 1 < Cardinality(set)
  BY <1>0
<1>2. /\ DOMAIN s = 1 .. n - 1 /\ Elements(s) \subseteq set
      /\ IsFiniteSet(Elements(s)) /\ Cardinality(Elements(s)) = n - 1
  BY <1>1, DifferentCount
<1>3. Elements(s) # set
  BY <1>1, <1>2
<1> DEFINE x == CHOOSE x \in set : x \notin Elements(s)
<1>4. x \in set /\ x \notin Elements(s)
  BY <1>2, <1>3
<1> HIDE DEF x
<1>5. s \in Seq(set) /\ Len(s) = n - 1 /\ \A i, j \in 1 .. n - 1 : s[i] = s[j] => i = j
  BY DEF Different
<1>6. \A i \in 1 .. n - 1 : s[i] # x
  BY <1>2, <1>4 DEF Elements
<1> DEFINE t == Append(s, x)
<1>7. t \in Seq(set) /\ Len(t) = n /\ t[n] = x /\ \A i \in 1 .. n - 1 : t[i] = s[i]
  BY <1>1, <1>4, <1>5
<1> HIDE DEF t
<1>8. \A i, j \in 1 .. n : t[i] = t[j] => i = j
  <2> SUFFICES ASSUME NEW i \in 1 .. n, NEW j \in 1 .. n, t[i] = t[j] PROVE i = j
    OBVIOUS
  <2>1. (i = n \/ i \in 1 .. n - 1) /\ (j = n \/ j \in 1 .. n - 1)
    BY <1>1
  <2> QED BY <2>1, <1>5, <1>6, <1>7
<1>9. t \in Different(set, n)
  BY <1>7, <1>8 DEF Different
<1> QED BY <1>9 DEF t, x, OneMore

\* All the elements are listed.
LEMMA Listing ==
    ASSUME NEW set, IsFiniteSet(set)
    PROVE  /\ Listed(set) \in Seq(set)
           /\ Elements(Listed(set)) = set
           /\ \A i, j \in DOMAIN Listed(set) : Listed(set)[i] = Listed(set)[j] => i = j
<1> DEFINE N == Cardinality(set)
           IsList(list) == list = [n \in 0 .. N |-> IF n = 0 THEN <<>> ELSE OneMore(set, list[n - 1])]
           F == [n \in 1 .. N |-> [s \in Different(set, n - 1) |-> OneMore(set, s)]]
<1>1. N \in Nat
  BY FS_CardinalityType
<1>2. <<>> \in Different(set, 0)
  BY DEF Different
<1>3. ASSUME NEW f, f[0] = <<>>, \A n \in 1 .. N : f[n - 1] \in Different(set, n - 1) => f[n] = OneMore(set, f[n - 1])
      PROVE  \A n \in 0 .. N : f[n] \in Different(set, n)
  <2> DEFINE T == {n \in 0 .. N : f[n] \in Different(set, n)}
  <2>1. 0 \in T
    BY <1>1, <1>2, <1>3
  <2>2. \A n \in 1 .. N : n - 1 \in T => n \in T
    BY <1>1, <1>3, DifferentStep
  <2>3. \A n \in 0 .. N : n \in T
    <3> HIDE DEF T, N
    <3> QED BY <1>1, <2>1, <2>2, Induction
  <2> QED BY <2>3
<1>4. PICK f : Iterates(f, N, <<>>, F)
  <2> HIDE DEF N, F
  <2> QED BY <1>1, Recursion
<1>5. \A n \in 0 .. N : f[n] = IF n = 0 THEN <<>> ELSE F[n][f[n - 1]]
  <2> HIDE DEF N, F
  <2> QED BY <1>4 DEF Iterates
<1>6. f[0] = <<>> /\ \A n \in 1 .. N : f[n - 1] \in Different(set, n - 1) => f[n] = OneMore(set, f[n - 1])
  <2>1. f[0] = <<>>
    <3> HIDE DEF N, F
    <3> QED BY <1>1, <1>5
  <2>2. ASSUME NEW n \in 1 .. N, f[n - 1] \in Different(set, n - 1)
        PROVE  f[n] = OneMore(set, f[n - 1])
    <3>1. n \in 0 .. N /\ n # 0
      BY <1>1
    <3>2. f[n] = F[n][f[n - 1]]
      BY <3>1, <1>5
    <3> QED BY <2>2, <3>2
  <2> QED BY <2>1, <2>2
<1>7. \A n \in 0 .. N : f[n] \in Different(set, n)
  <2> HIDE DEF N, F
  <2> QED BY <1>3, <1>6
<1>8. IsList(f)
  <2>1. \A n \in 1 .. N : n - 1 \in 0 .. N
    BY <1>1
  <2>2. \A n \in 0 .. N : f[n] = IF n = 0 THEN <<>> ELSE OneMore(set, f[n - 1])
    <3> SUFFICES ASSUME NEW n \in 0 .. N, n # 0 PROVE f[n] = OneMore(set, f[n - 1])
      BY <1>6
    <3>1. n \in 1 .. N /\ n - 1 \in 0 .. N
      BY <1>1
    <3> HIDE DEF N, F
    <3> QED BY <3>1, <1>6, <1>7
  <2>3. f = [n \in 0 .. N |-> f[n]]
    <3> HIDE DEF N, F
    <3> QED BY <1>4 DEF Iterates
  <2> HIDE DEF N, F
  <2> QED BY <2>2, <2>3
<1> DEFINE list == CHOOSE l : IsList(l)
<1>9. IsList(list)
  <2> HIDE DEF IsList
  <2> QED BY <1>8
<1>10. Listed(set) = list[N]
  BY DEF Listed, OneMore
<1> HIDE DEF list
<1>11. list[0] = <<>> /\ \A n \in 1 .. N : list[n] = OneMore(set, list[n - 1])
  <2>1. 0 \in 0 .. N /\ \A n \in 1 .. N : n \in 0 .. N /\ n # 0
    BY <1>1
  <2> HIDE DEF N
  <2> QED BY <1>9, <2>1
<1>12. list[N] \in Different(set, N)
  <2> HIDE DEF N
  <2>1. N \in 0 .. N
    BY <1>1
  <2> QED BY <1>3, <1>11, <2>1
<1>13. Elements(list[N]) \subseteq set /\ Cardinality(Elements(list[N])) = Cardinality(set)
  BY <1>1, <1>12, DifferentCount
<1>14. Elements(list[N]) = set
  BY <1>13, FS_Subset
<1>15. list[N] \in Seq(set) /\ \A i, j \in DOMAIN list[N] : list[N][i] = list[N][j] => i = j
  BY <1>12 DEF Different
<1> QED BY <1>10, <1>14, <1>15
LEMMA ItemShape ==
    ASSUME NEW g, IsInput(g), NEW x \in ItemType(g)
    PROVE  /\ x \in [rule : RulesOf(g), position : Nat, lookaheads : SUBSET Marks(g)]
           /\ x.rule \in RulesOf(g) /\ x.position \in ChoicesOf(g, x.rule)
           /\ ~ IsReduce(g, x) => /\ x.position + 1 \in DOMAIN BodyOf(g, x.rule)
                                  /\ x.position + 1 \in ChoicesOf(g, x.rule)
                                  /\ NextSymbol(g, x) \in SymbolsOf(g)
                                  /\ NextSymbol(g, x) \in Elements(g.symbols) \ {HeadOfAxiom(g)}
                                  /\ Child(x) \in ItemType(g)
<1>1. x \in [rule : RulesOf(g), position : Nat, lookaheads : SUBSET Marks(g)]
      /\ x.position <= Len(BodyOf(g, x.rule))
  BY DEF ItemType
<1>2. x.rule \in RulesOf(g) /\ x.position \in Nat
  BY <1>1
<1>3. x.position \in ChoicesOf(g, x.rule)
  BY <1>1, <1>2, GrammarShape
<1>4. ASSUME ~ IsReduce(g, x)
      PROVE  /\ x.position + 1 \in DOMAIN BodyOf(g, x.rule)
             /\ x.position + 1 \in ChoicesOf(g, x.rule)
  BY <1>1, <1>2, <1>4, GrammarShape DEF IsReduce
<1>5. ASSUME ~ IsReduce(g, x)
      PROVE  NextSymbol(g, x) \in SymbolsOf(g) /\ NextSymbol(g, x) \in Elements(g.symbols) \ {HeadOfAxiom(g)}
  <2>1. NextSymbol(g, x) \in Elements(g.symbols) \ {HeadOfAxiom(g)}
    BY <1>2, <1>4, <1>5 DEF NextSymbol, IsInput
  <2> QED BY <2>1 DEF SymbolsOf, Elements
<1>6. ASSUME ~ IsReduce(g, x)
      PROVE  Child(x) \in ItemType(g)
  <2>1. x.position + 1 \in Nat /\ x.position + 1 <= Len(BodyOf(g, x.rule))
    BY <1>2, <1>4, <1>6, GrammarShape
  <2>2. Child(x) \in [rule : RulesOf(g), position : Nat, lookaheads : SUBSET Marks(g)]
    BY <1>1, <2>1 DEF Child
  <2>3. Child(x).rule = x.rule /\ Child(x).position = x.position + 1
    BY <1>1 DEF Child
  <2> QED BY <2>1, <2>2, <2>3 DEF ItemType
<1> QED BY <1>1, <1>2, <1>3, <1>4, <1>5, <1>6

LEMMA CandidatesShape ==
    ASSUME NEW g, IsInput(g), NEW x \in ItemType(g), NEW mode \in Modes
    PROVE  Candidates(g, x, mode) \subseteq ItemType(g) /\ IsFiniteSet(Candidates(g, x, mode))
<1> DEFINE Pairs == RulesOf(g) \X SUBSET Marks(g)
           f == [p \in Pairs |-> Item(p[1], 0, p[2])]
<1>1. IsFiniteSet(Pairs)
  <2>1. IsFiniteSet(RulesOf(g)) /\ IsFiniteSet(SUBSET Marks(g))
    BY MarksFinite, FS_SUBSET
  <2> QED BY <2>1, FS_Product
<1>2. IsFiniteSet({f[p] : p \in Pairs})
  <2> HIDE DEF Pairs, f
  <2> QED BY <1>1, ImageFinite
<1>3. ASSUME NEW r \in RulesOf(g), NEW la \in SUBSET Marks(g)
      PROVE  Item(r, 0, la) \in ItemType(g) /\ Item(r, 0, la) \in {f[p] : p \in Pairs}
  <2>1. Item(r, 0, la) \in ItemType(g)
    BY GrammarShape DEF Item, ItemType
  <2>2. <<r, la>> \in Pairs /\ f[<<r, la>>] = Item(r, 0, la)
    OBVIOUS
  <2> QED BY <2>1, <2>2
<1>4. ASSUME ~ IsReduce(g, x), NEW la \in CandidateLookaheads(g, x, mode)
      PROVE  la \in SUBSET Marks(g)
  <2>1. g.firsts[x.rule][x.position + 1] \subseteq Marks(g)
    BY <1>4, ItemShape DEF IsInput
  <2>2. x.lookaheads \subseteq Marks(g)
    BY ItemShape
  <2>3. Following(g, x) \subseteq Marks(g)
    BY <2>1, <2>2 DEF Following
  <2> QED BY <1>4, <2>3 DEF CandidateLookaheads, Modes
<1>5. ASSUME NEW c \in Candidates(g, x, mode)
      PROVE  c \in ItemType(g) /\ c \in {f[p] : p \in Pairs}
  <2>1. ~ IsReduce(g, x)
    BY DEF Candidates
  <2>2. PICK r \in RulesFor(g, NextSymbol(g, x)), la \in CandidateLookaheads(g, x, mode) : c = Item(r, 0, la)
    BY <2>1 DEF Candidates
  <2>3. r \in RulesOf(g)
    BY <2>2 DEF RulesFor
  <2> HIDE DEF f, Pairs
  <2> QED BY <1>3, <1>4, <2>1, <2>2, <2>3
<1>6. IsFiniteSet(Candidates(g, x, mode))
  <2> DEFINE I == {f[p] : p \in Pairs}
  <2>1. Candidates(g, x, mode) \in SUBSET I
    BY <1>5
  <2> HIDE DEF I
  <2> QED BY <1>2, <2>1, FS_Subset DEF I
<1> QED BY <1>5, <1>6

-----------------------------------------------------------------------------
(***************************************************************************)
(* The closure.                                                            *)
(***************************************************************************)
\* A set of items that a closure stays in
Closable(g, T, mode) ==
    /\ T \subseteq ItemType(g)
    /\ \A x \in T : Candidates(g, x, mode) \subseteq T
    /\ mode = "LALR1" =>
        \A x, c \in T : SameBase(x, c) => [x EXCEPT !.lookaheads = @ \cup c.lookaheads] \in T

\* The items of the graphs: no lookahead for LR0, one for LR1 except for the axiom
Exact(g, mode) ==
    {x \in ItemType(g) :
        /\ mode = "LR0" => x.lookaheads = {}
        /\ mode = "LR1" => IF x.rule = AxiomRule(g) THEN x.lookaheads = {}
                                                   ELSE \E t : x.lookaheads = {t}}

LEMMA ClosableItems ==
    ASSUME NEW g, IsInput(g), NEW mode \in Modes
    PROVE  Closable(g, ItemType(g), mode)
<1>1. \A x \in ItemType(g) : Candidates(g, x, mode) \subseteq ItemType(g)
  BY CandidatesShape
<1>2. ASSUME NEW x \in ItemType(g), NEW c \in ItemType(g)
      PROVE  [x EXCEPT !.lookaheads = @ \cup c.lookaheads] \in ItemType(g)
  BY DEF ItemType
<1> QED BY <1>1, <1>2 DEF Closable

LEMMA ClosableExact ==
    ASSUME NEW g, IsInput(g), NEW mode \in {"LR0", "LR1"}
    PROVE  Closable(g, Exact(g, mode), mode)
<1>1. ASSUME NEW x \in Exact(g, mode), NEW c \in Candidates(g, x, mode)
      PROVE  c \in Exact(g, mode)
  <2>1. x \in ItemType(g) /\ mode \in Modes
    BY DEF Exact, Modes
  <2>2. c \in ItemType(g)
    BY <2>1, CandidatesShape
  <2>3. ~ IsReduce(g, x)
    BY DEF Candidates
  <2>4. PICK r \in RulesFor(g, NextSymbol(g, x)), la \in CandidateLookaheads(g, x, mode) : c = Item(r, 0, la)
    BY <2>3 DEF Candidates
  <2>5. r # AxiomRule(g)
    BY <2>1, <2>3, <2>4, ItemShape DEF RulesFor, HeadOfAxiom
  <2>6. c.rule = r /\ c.lookaheads = la
    BY <2>4 DEF Item
  <2>7. mode = "LR0" => la = {}
    BY <2>4 DEF CandidateLookaheads
  <2>8. mode = "LR1" => \E t : la = {t}
    BY <2>4 DEF CandidateLookaheads
  <2> QED BY <2>2, <2>5, <2>6, <2>7, <2>8 DEF Exact
<1> QED BY <1>1 DEF Closable, Exact

LEMMA ExactSame ==
    ASSUME NEW g, NEW mode \in {"LR0", "LR1"}, NEW x \in Exact(g, mode), NEW y \in Exact(g, mode)
    PROVE  /\ SameItem(x, y) <=> x = y
           /\ mode = "LR0" /\ SameBase(x, y) => x = y
<1>1. /\ x = [rule |-> x.rule, position |-> x.position, lookaheads |-> x.lookaheads]
      /\ y = [rule |-> y.rule, position |-> y.position, lookaheads |-> y.lookaheads]
  BY DEF Exact, ItemType
<1>2. SameBase(x, y) /\ x.lookaheads \subseteq y.lookaheads => x.lookaheads = y.lookaheads
  BY DEF Exact, SameBase
<1>3. SameBase(x, y) /\ mode = "LR0" => x.lookaheads = y.lookaheads
  BY DEF Exact
<1> QED BY <1>1, <1>2, <1>3 DEF SameItem, SameBase

LEMMA WithCandidateShape ==
    ASSUME NEW g, NEW T, NEW mode, Closable(g, T, mode), NEW items \in Seq(T), NEW c \in T
    PROVE  WithCandidate(items, c, mode) \in Seq(T)
<1>1. CASE mode = "LALR1" /\ \E i \in DOMAIN items : SameBase(items[i], c)
  <2> DEFINE i == CHOOSE i \in DOMAIN items : SameBase(items[i], c)
             y == [items[i] EXCEPT !.lookaheads = @ \cup c.lookaheads]
  <2>1. i \in DOMAIN items /\ SameBase(items[i], c)
    BY <1>1
  <2> HIDE DEF i
  <2>2. y \in T
    BY <1>1, <2>1 DEF Closable
  <2>3. WithCandidate(items, c, mode) = [items EXCEPT ![i] = y]
    BY <1>1 DEF WithCandidate, i
  <2> HIDE DEF y
  <2> QED BY <2>1, <2>2, <2>3
<1>2. CASE ~ (mode = "LALR1" /\ \E i \in DOMAIN items : SameBase(items[i], c))
  BY <1>2 DEF WithCandidate
<1> QED BY <1>1, <1>2

LEMMA AddAllSteps ==
    ASSUME NEW g, NEW T, NEW mode, Closable(g, T, mode), NEW items \in Seq(T), NEW candidates \in Seq(T)
    PROVE  \E f : /\ f[0] = items
                  /\ \A n \in 1 .. Len(candidates) : f[n] = WithCandidate(f[n - 1], candidates[n], mode)
                  /\ \A n \in 0 .. Len(candidates) : f[n] \in Seq(T)
                  /\ AddAll(items, candidates, mode) = f[Len(candidates)]
<1> DEFINE N == Len(candidates)
           S == Seq(T)
           Step(x, n) == WithCandidate(x, candidates[n], mode)
           F == [n \in 1 .. N |-> [x \in S |-> Step(x, n)]]
           Is(f) == f = [n \in 0 .. N |-> IF n = 0 THEN items ELSE Step(f[n - 1], n)]
<1>1. N \in Nat /\ items \in S /\ \A n \in 1 .. N : candidates[n] \in T
  OBVIOUS
<1>2. ASSUME NEW n \in 1 .. N, NEW x \in S
      PROVE  Step(x, n) \in S /\ F[n][x] = Step(x, n)
  BY <1>1, WithCandidateShape
<1> HIDE DEF N, F, Step, S
<1>3. PICK f : IteratesIn(f, S, N, items, F)
  <2>1. \A n \in 1 .. N : \A x \in S : F[n][x] \in S
    BY <1>2
  <2> HIDE DEF Is
  <2> QED BY <1>1, <2>1, RecursionOn
<1>4. \A n \in 0 .. N : n # 0 => n \in 1 .. N
  BY <1>1
<1>5. Is(f)
  BY <1>2, <1>3, <1>4 DEF IteratesIn
<1> DEFINE added == CHOOSE l : Is(l)
<1>6. Is(added)
  <2> HIDE DEF Is
  <2> QED BY <1>5
<1>7. AddAll(items, candidates, mode) = added[N]
  BY DEF AddAll, N, Step
<1> HIDE DEF added
<1>8. added[0] = items /\ \A n \in 1 .. N : added[n] = Step(added[n - 1], n)
  <2>1. 0 \in 0 .. N /\ \A n \in 1 .. N : n \in 0 .. N /\ n # 0
    BY <1>1
  <2> QED BY <1>6, <2>1
<1>9. \A n \in 0 .. N : added[n] \in S
  <2>1. added[0] \in S /\ \A n \in 1 .. N : added[n - 1] \in S => added[n] \in S
    BY <1>1, <1>2, <1>8
  <2> QED BY <1>1, <2>1, StaysIn
<1> QED BY <1>7, <1>8, <1>9 DEF N, Step, S

LEMMA AddAllShape ==
    ASSUME NEW g, NEW T, NEW mode, Closable(g, T, mode), NEW items \in Seq(T), NEW candidates \in Seq(T)
    PROVE  AddAll(items, candidates, mode) \in Seq(T)
<1>1. Len(candidates) \in 0 .. Len(candidates)
  OBVIOUS
<1> QED BY <1>1, AddAllSteps

\* One step of the closure: the candidates of the n-th item are added.
CloseStep(g, items, n, mode) ==
    IF n \in DOMAIN items THEN AddAll(items, Listed(Candidates(g, items[n], mode)), mode) ELSE items

LEMMA CandidatesListed ==
    ASSUME NEW g, IsInput(g), NEW mode \in Modes, NEW T, Closable(g, T, mode), NEW x \in T
    PROVE  /\ Listed(Candidates(g, x, mode)) \in Seq(T)
           /\ Elements(Listed(Candidates(g, x, mode))) = Candidates(g, x, mode)
<1> DEFINE C == Candidates(g, x, mode)
<1>1. C \subseteq T /\ IsFiniteSet(C)
  BY CandidatesShape DEF Closable
<1> HIDE DEF C
<1>2. Listed(C) \in Seq(C) /\ Elements(Listed(C)) = C
  BY <1>1, Listing
<1>3. Listed(C) \in Seq(T)
  BY <1>1, <1>2
<1> QED BY <1>2, <1>3 DEF C

LEMMA CloseStepShape ==
    ASSUME NEW g, IsInput(g), NEW mode \in Modes, NEW T, Closable(g, T, mode), NEW items \in Seq(T), NEW n
    PROVE  CloseStep(g, items, n, mode) \in Seq(T)
<1>1. CASE n \in DOMAIN items
  <2>1. Listed(Candidates(g, items[n], mode)) \in Seq(T)
    BY <1>1, CandidatesListed
  <2> QED BY <1>1, <2>1, AddAllShape DEF CloseStep
<1> QED BY <1>1 DEF CloseStep

LEMMA MostItemsIs ==
    ASSUME NEW g, IsInput(g), NEW T, NEW kernel \in Seq(T)
    PROVE  MostItems(g, kernel) \in Nat /\ MostItems(g, kernel) >= Len(kernel) + Len(g.rules)
<1>1. Len(kernel) \in Nat /\ Len(g.rules) \in Nat /\ Cardinality(SymbolsOf(g) \ VariablesOf(g)) \in Nat
  <2>1. Cardinality(SymbolsOf(g) \ VariablesOf(g)) \in Nat
    BY MarksFinite
  <2> QED BY <2>1, GrammarShape
<1>2. Len(g.rules) * (Cardinality(SymbolsOf(g) \ VariablesOf(g)) + 2) \in Nat
  BY <1>1
<1>3. Len(g.rules) * (Cardinality(SymbolsOf(g) \ VariablesOf(g)) + 2) >= Len(g.rules)
  <2> DEFINE R == Len(g.rules)
             C == Cardinality(SymbolsOf(g) \ VariablesOf(g))
  <2>1. R \in Nat /\ C \in Nat
    BY <1>1
  <2> HIDE DEF R, C
  <2>2. R * (C + 2) = R + R * (C + 1)
    BY <2>1
  <2>3. R * (C + 1) \in Nat
    BY <2>1
  <2>4. R * (C + 2) >= R
    BY <2>1, <2>2, <2>3
  <2> QED BY <2>4 DEF R, C
<1> QED BY <1>1, <1>2, <1>3 DEF MostItems

LEMMA CloseSteps ==
    ASSUME NEW g, IsInput(g), NEW mode \in Modes, NEW T, Closable(g, T, mode), NEW kernel \in Seq(T)
    PROVE  \E f : /\ f[0] = kernel
                  /\ \A n \in 1 .. MostItems(g, kernel) : f[n] = CloseStep(g, f[n - 1], n, mode)
                  /\ \A n \in 0 .. MostItems(g, kernel) : f[n] \in Seq(T)
                  /\ Closure(g, kernel, mode) = f[MostItems(g, kernel)]
<1> DEFINE N == MostItems(g, kernel)
           S == Seq(T)
           F == [n \in 1 .. N |-> [x \in S |-> CloseStep(g, x, n, mode)]]
           Is(f) == f = [n \in 0 .. N |-> IF n = 0 THEN kernel ELSE CloseStep(g, f[n - 1], n, mode)]
<1>1. N \in Nat /\ kernel \in S
  BY MostItemsIs
<1>2. ASSUME NEW n \in 1 .. N, NEW x \in S
      PROVE  CloseStep(g, x, n, mode) \in S /\ F[n][x] = CloseStep(g, x, n, mode)
  BY <1>1, CloseStepShape
<1> HIDE DEF N, F, S
<1>3. PICK f : IteratesIn(f, S, N, kernel, F)
  <2>1. \A n \in 1 .. N : \A x \in S : F[n][x] \in S
    BY <1>2
  <2> HIDE DEF Is
  <2> QED BY <1>1, <2>1, RecursionOn
<1>4. \A n \in 0 .. N : n # 0 => n \in 1 .. N
  BY <1>1
<1>5. Is(f)
  BY <1>2, <1>3, <1>4 DEF IteratesIn
<1> DEFINE closed == CHOOSE l : Is(l)
<1>6. Is(closed)
  <2> HIDE DEF Is
  <2> QED BY <1>5
<1>7. Closure(g, kernel, mode) = closed[N]
  BY DEF Closure, N, CloseStep
<1> HIDE DEF closed
<1>8. closed[0] = kernel /\ \A n \in 1 .. N : closed[n] = CloseStep(g, closed[n - 1], n, mode)
  <2>1. 0 \in 0 .. N /\ \A n \in 1 .. N : n \in 0 .. N /\ n # 0
    BY <1>1
  <2> QED BY <1>6, <2>1
<1>9. \A n \in 0 .. N : closed[n] \in S
  BY <1>1, <1>2, <1>8, StaysIn
<1> QED BY <1>7, <1>8, <1>9 DEF N, S

LEMMA ClosureShape ==
    ASSUME NEW g, IsInput(g), NEW mode \in Modes, NEW T, Closable(g, T, mode), NEW kernel \in Seq(T)
    PROVE  Closure(g, kernel, mode) \in Seq(T)
<1>1. MostItems(g, kernel) \in 0 .. MostItems(g, kernel)
  BY MostItemsIs
<1> QED BY <1>1, CloseSteps
-----------------------------------------------------------------------------
(***************************************************************************)
(* The bases of a closure, that merges the lookaheads or has none: those   *)
(* that the bases of its kernel bring, and no other.                       *)
(***************************************************************************)
BaseOf(x) == <<x.rule, x.position>>

\* The bases of the items that an item of a base brings
BroughtBy(g, b) ==
    IF b[2] = Len(BodyOf(g, b[1])) THEN {}
    ELSE {<<r, 0>> : r \in RulesFor(g, BodyOf(g, b[1])[b[2] + 1])}

IsClosed(g, B) == \A b \in B : BroughtBy(g, b) \subseteq B

ClosedBases(g, K) ==
    {b \in RulesOf(g) \X Nat : \A B \in SUBSET (RulesOf(g) \X Nat) : K \subseteq B /\ IsClosed(g, B) => b \in B}

LEMMA BasesAre ==
    ASSUME NEW items
    PROVE  /\ Bases(items) = {BaseOf(items[i]) : i \in DOMAIN items}
           /\ \A x, y : SameBase(x, y) <=> BaseOf(x) = BaseOf(y)
BY DEF Bases, BaseOf, Elements, SameBase

LEMMA CandidateBases ==
    ASSUME NEW g, NEW x, NEW mode \in {"LR0", "LALR1"}
    PROVE  /\ {BaseOf(c) : c \in Candidates(g, x, mode)} = BroughtBy(g, BaseOf(x))
           /\ \A c \in Candidates(g, x, mode) : c.position = 0
<1>1. CASE IsReduce(g, x)
  BY <1>1 DEF Candidates, BroughtBy, BaseOf, IsReduce
<1>2. CASE ~ IsReduce(g, x)
  <2>1. PICK la : CandidateLookaheads(g, x, mode) = {la}
    BY DEF CandidateLookaheads
  <2>2. Candidates(g, x, mode) = {Item(r, 0, la) : r \in RulesFor(g, NextSymbol(g, x))}
    BY <1>2, <2>1 DEF Candidates
  <2>3. BroughtBy(g, BaseOf(x)) = {<<r, 0>> : r \in RulesFor(g, NextSymbol(g, x))}
    BY <1>2 DEF BroughtBy, BaseOf, IsReduce, NextSymbol
  <2>4. \A r : BaseOf(Item(r, 0, la)) = <<r, 0>> /\ Item(r, 0, la).position = 0
    BY DEF BaseOf, Item
  <2> QED BY <2>2, <2>3, <2>4
<1> QED BY <1>1, <1>2

\* The items are the same ones, with other lookaheads, and maybe more.
Extends(old, new) ==
    /\ Len(old) <= Len(new)
    /\ \A i \in DOMAIN old : BaseOf(new[i]) = BaseOf(old[i])

\* The items after the k-th begin a rule, that no other item begins.
Begin(items, k) ==
    \A i \in DOMAIN items : i > k =>
        /\ items[i].position = 0
        /\ \A j \in DOMAIN items : BaseOf(items[i]) = BaseOf(items[j]) => i = j

\* One candidate: it is added if there is no item of its base.
LEMMA AddBase ==
    ASSUME NEW g, NEW mode \in {"LR0", "LALR1"}, NEW items \in Seq(Exact(g, mode)), NEW c \in Exact(g, mode)
    PROVE  LET new == WithCandidate(items, c, mode)
           IN /\ Extends(items, new)
              /\ BaseOf(c) \in Bases(new)
              /\ \/ Len(new) = Len(items)
                 \/ /\ Len(new) = Len(items) + 1 /\ new[Len(new)] = c
                    /\ \A i \in DOMAIN items : BaseOf(items[i]) # BaseOf(c)
<1> DEFINE new == WithCandidate(items, c, mode)
<1>1. Len(items) \in Nat /\ DOMAIN items = 1 .. Len(items)
  OBVIOUS
<1>2. mode = "LR0" => (Has(items, c) <=> \E i \in DOMAIN items : BaseOf(items[i]) = BaseOf(c))
  <2> SUFFICES ASSUME mode = "LR0" PROVE Has(items, c) <=> \E i \in DOMAIN items : BaseOf(items[i]) = BaseOf(c)
    OBVIOUS
  <2>1. \A i \in DOMAIN items : items[i] \in Exact(g, mode)
    OBVIOUS
  <2>2. \A i \in DOMAIN items : SameItem(items[i], c) <=> SameBase(items[i], c)
    BY <2>1, ExactSame DEF SameItem, SameBase
  <2> QED BY <2>2, BasesAre DEF Has, Elements
<1>3. CASE \E i \in DOMAIN items : BaseOf(items[i]) = BaseOf(c)
  <2>1. CASE mode = "LR0"
    <3>1. new = items
      BY <1>2, <1>3, <2>1 DEF WithCandidate
    <3> HIDE DEF new
    <3> QED BY <1>1, <1>3, <3>1, BasesAre DEF Extends, new
  <2>2. CASE mode = "LALR1"
    <3> DEFINE i == CHOOSE i \in DOMAIN items : SameBase(items[i], c)
               y == [items[i] EXCEPT !.lookaheads = @ \cup c.lookaheads]
    <3>1. \E k \in DOMAIN items : SameBase(items[k], c)
      BY <1>3, BasesAre
    <3>2. i \in DOMAIN items /\ SameBase(items[i], c)
      BY <3>1
    <3> HIDE DEF i
    <3>3. new = [items EXCEPT ![i] = y]
      BY <2>2, <3>1 DEF WithCandidate, i
    <3>4. BaseOf(y) = BaseOf(items[i])
      <4>1. items[i] \in [rule : RulesOf(g), position : Nat, lookaheads : SUBSET Marks(g)]
        BY <3>2 DEF Exact, ItemType
      <4> QED BY <4>1 DEF BaseOf
    <3> HIDE DEF y, new
    <3>5. Len(new) = Len(items) /\ DOMAIN new = DOMAIN items /\ new[i] = y
          /\ \A k \in DOMAIN items : k # i => new[k] = items[k]
      BY <3>2, <3>3
    <3>6. Extends(items, new)
      BY <1>1, <3>4, <3>5 DEF Extends
    <3>7. BaseOf(c) \in Bases(new)
      BY <3>2, <3>4, <3>5, BasesAre
    <3> QED BY <3>5, <3>6, <3>7 DEF new
  <2> QED BY <2>1, <2>2
<1>4. CASE ~ \E i \in DOMAIN items : BaseOf(items[i]) = BaseOf(c)
  <2>1. new = Append(items, c)
    BY <1>2, <1>4, BasesAre DEF WithCandidate
  <2> HIDE DEF new
  <2>2. /\ Len(new) = Len(items) + 1 /\ new[Len(new)] = c /\ DOMAIN new = 1 .. Len(new)
        /\ \A i \in DOMAIN items : new[i] = items[i]
    BY <1>1, <2>1
  <2>3. Len(new) \in DOMAIN new
    BY <1>1, <2>2
  <2>4. BaseOf(c) \in Bases(new)
    BY <2>2, <2>3, BasesAre
  <2>5. Extends(items, new)
    BY <1>1, <2>2 DEF Extends
  <2> QED BY <1>4, <2>2, <2>4, <2>5 DEF new
<1> QED BY <1>3, <1>4

LEMMA AddTail ==
    ASSUME NEW g, NEW mode \in {"LR0", "LALR1"}, NEW items \in Seq(Exact(g, mode)), NEW c \in Exact(g, mode),
           c.position = 0, NEW k \in Nat, Begin(items, k), NEW new \in Seq(Exact(g, mode)), new = WithCandidate(items, c, mode)
    PROVE  Begin(new, k)
<1>1. /\ Extends(items, new)
      /\ \/ Len(new) = Len(items)
         \/ /\ Len(new) = Len(items) + 1 /\ new[Len(new)] = c
            /\ \A i \in DOMAIN items : BaseOf(items[i]) # BaseOf(c)
  BY AddBase
<1>2. Len(items) \in Nat /\ DOMAIN items = 1 .. Len(items) /\ DOMAIN new = 1 .. Len(new)
  OBVIOUS
<1>3. \A i \in DOMAIN items : BaseOf(new[i]) = BaseOf(items[i]) /\ new[i].position = items[i].position
  BY <1>1 DEF Extends, BaseOf
<1>4. CASE Len(new) = Len(items)
  BY <1>2, <1>3, <1>4 DEF Begin
<1>5. CASE /\ Len(new) = Len(items) + 1 /\ new[Len(new)] = c
           /\ \A i \in DOMAIN items : BaseOf(items[i]) # BaseOf(c)
  <2> SUFFICES ASSUME NEW i \in DOMAIN new, i > k
               PROVE  new[i].position = 0 /\ \A j \in DOMAIN new : BaseOf(new[i]) = BaseOf(new[j]) => i = j
    BY DEF Begin
  <2>1. \A j \in DOMAIN new : j \in DOMAIN items \/ j = Len(new)
    BY <1>2, <1>5
  <2>2. CASE i = Len(new)
    <3>1. \A j \in DOMAIN items : BaseOf(new[j]) # BaseOf(c)
      BY <1>3, <1>5
    <3> QED BY <1>5, <2>1, <2>2, <3>1
  <2>3. CASE i \in DOMAIN items
    <3>1. items[i].position = 0 /\ \A j \in DOMAIN items : BaseOf(items[i]) = BaseOf(items[j]) => i = j
      BY <2>3 DEF Begin
    <3>2. BaseOf(new[i]) # BaseOf(c)
      BY <1>3, <1>5, <2>3
    <3> QED BY <1>3, <1>5, <2>1, <2>3, <3>1, <3>2
  <2> QED BY <2>1, <2>2, <2>3
<1> QED BY <1>1, <1>4, <1>5

LEMMA ExtendsBases ==
    ASSUME NEW T, NEW a \in Seq(T), NEW b \in Seq(T), Extends(a, b)
    PROVE  Bases(a) \subseteq Bases(b) /\ DOMAIN a \subseteq DOMAIN b
<1>1. Len(a) \in Nat /\ DOMAIN a = 1 .. Len(a) /\ Len(b) \in Nat /\ DOMAIN b = 1 .. Len(b)
  OBVIOUS
<1>2. DOMAIN a \subseteq DOMAIN b
  BY <1>1 DEF Extends
<1>3. ASSUME NEW i \in DOMAIN a PROVE BaseOf(a[i]) \in Bases(b)
  <2>1. i \in DOMAIN b /\ BaseOf(b[i]) = BaseOf(a[i])
    BY <1>2 DEF Extends
  <2> QED BY <2>1, BasesAre
<1> QED BY <1>2, <1>3, BasesAre

LEMMA ExtendsTwice ==
    ASSUME NEW T, NEW a \in Seq(T), NEW b \in Seq(T), NEW c \in Seq(T), Extends(a, b), Extends(b, c)
    PROVE  Extends(a, c)
<1>1. Len(a) \in Nat /\ Len(b) \in Nat /\ Len(c) \in Nat
  OBVIOUS
<1>2. DOMAIN a \subseteq DOMAIN b
  BY ExtendsBases
<1> QED BY <1>1, <1>2 DEF Extends

LEMMA ExtendsSelf ==
    ASSUME NEW T, NEW a \in Seq(T)
    PROVE  Extends(a, a)
BY DEF Extends

LEMMA ExactClosable ==
    ASSUME NEW g, IsInput(g), NEW mode \in {"LR0", "LALR1"}
    PROVE  mode \in Modes /\ Closable(g, Exact(g, mode), mode)
<1>1. mode \in Modes
  BY DEF Modes
<1>2. CASE mode = "LR0"
  BY <1>1, <1>2, ClosableExact
<1>3. CASE mode = "LALR1"
  <2>1. Exact(g, mode) = ItemType(g)
    BY <1>3 DEF Exact
  <2> QED BY <1>1, <2>1, ClosableItems
<1> QED BY <1>1, <1>2, <1>3

LEMMA AddAllBases ==
    ASSUME NEW g, IsInput(g), NEW mode \in {"LR0", "LALR1"}, NEW items \in Seq(Exact(g, mode)),
           NEW cs \in Seq(Exact(g, mode)), \A n \in DOMAIN cs : cs[n].position = 0,
           NEW k \in Nat, Begin(items, k), NEW new, new = AddAll(items, cs, mode)
    PROVE  /\ new \in Seq(Exact(g, mode)) /\ Extends(items, new) /\ Begin(new, k)
           /\ Bases(cs) \subseteq Bases(new)
<1> DEFINE S == Seq(Exact(g, mode))
           N == Len(cs)
<1>1. N \in Nat /\ DOMAIN cs = 1 .. N /\ items \in S
  OBVIOUS
<1>2. Closable(g, Exact(g, mode), mode)
  BY ExactClosable
<1>0. PICK f : /\ f[0] = items
               /\ \A n \in 1 .. Len(cs) : f[n] = WithCandidate(f[n - 1], cs[n], mode)
               /\ \A n \in 0 .. Len(cs) : f[n] \in Seq(Exact(g, mode))
               /\ AddAll(items, cs, mode) = f[Len(cs)]
  <2> DEFINE T == Exact(g, mode)
  <2>1. items \in Seq(T) /\ cs \in Seq(T) /\ Closable(g, T, mode)
    BY <1>2
  <2> HIDE DEF S, N, T
  <2>2. \E f : /\ f[0] = items
               /\ \A n \in 1 .. Len(cs) : f[n] = WithCandidate(f[n - 1], cs[n], mode)
               /\ \A n \in 0 .. Len(cs) : f[n] \in Seq(T)
               /\ AddAll(items, cs, mode) = f[Len(cs)]
    BY <2>1, AddAllSteps
  <2> QED BY <2>2 DEF T
<1>3. /\ f[0] = items
      /\ \A n \in 1 .. N : f[n] = WithCandidate(f[n - 1], cs[n], mode)
      /\ \A n \in 0 .. N : f[n] \in S
      /\ new = f[N]
  BY <1>0
<1> DEFINE P(n) == /\ Extends(items, f[n]) /\ Begin(f[n], k)
                   /\ \A m \in 1 .. n : BaseOf(cs[m]) \in Bases(f[n])
           K == {n \in 0 .. N : P(n)}
<1>4. P(0)
  <2>1. 1 .. 0 = {}
    OBVIOUS
  <2> QED BY <1>1, <1>3, <2>1, ExtendsSelf
<1>5. ASSUME NEW n \in 1 .. N, P(n - 1) PROVE P(n)
  <2>1. /\ f[n - 1] \in S /\ f[n] \in S /\ f[n] = WithCandidate(f[n - 1], cs[n], mode)
        /\ cs[n] \in Exact(g, mode) /\ cs[n].position = 0
    <3>1. n - 1 \in 0 .. N /\ n \in 0 .. N /\ n \in DOMAIN cs
      BY <1>1
    <3> QED BY <1>3, <3>1
  <2>2. Extends(f[n - 1], f[n]) /\ BaseOf(cs[n]) \in Bases(f[n])
    BY <2>1, AddBase
  <2>3. Begin(f[n], k)
    BY <1>5, <2>1, AddTail
  <2>4. Extends(items, f[n]) /\ Bases(f[n - 1]) \subseteq Bases(f[n])
    <3> HIDE DEF K
    <3>1. Extends(items, f[n])
      BY <1>1, <1>5, <2>1, <2>2, ExtendsTwice
    <3>2. Bases(f[n - 1]) \subseteq Bases(f[n])
      BY <2>1, <2>2, ExtendsBases
    <3> QED BY <3>1, <3>2
  <2>5. \A m \in 1 .. n : m = n \/ m \in 1 .. n - 1
    BY <1>1
  <2> QED BY <1>5, <2>2, <2>3, <2>4, <2>5
<1>6. \A n \in 0 .. N : P(n)
  <2>1. 0 \in K /\ \A n \in 1 .. N : n - 1 \in K => n \in K
    <3> HIDE DEF P, N
    <3> QED BY <1>1, <1>4, <1>5
  <2>2. \A n \in 0 .. N : n \in K
    <3> HIDE DEF K, N
    <3> QED BY <1>1, <2>1, Induction
  <2> HIDE DEF P, N
  <2> QED BY <2>2
<1>7. N \in 0 .. N
  BY <1>1
<1>8. P(N) /\ f[N] \in S
  <2> HIDE DEF P, N
  <2> QED BY <1>3, <1>6, <1>7
<1>9. \A b \in Bases(cs) : \E m \in 1 .. N : b = BaseOf(cs[m])
  BY <1>1, BasesAre
<1> QED BY <1>3, <1>8, <1>9

LEMMA CloseStepBases ==
    ASSUME NEW g, IsInput(g), NEW mode \in {"LR0", "LALR1"}, NEW items \in Seq(Exact(g, mode)),
           NEW n, NEW k \in Nat, Begin(items, k), NEW new, new = CloseStep(g, items, n, mode)
    PROVE  /\ new \in Seq(Exact(g, mode)) /\ Extends(items, new) /\ Begin(new, k)
           /\ n \in DOMAIN items => BroughtBy(g, BaseOf(items[n])) \subseteq Bases(new)
           /\ n \notin DOMAIN items => new = items
<1>1. CASE n \notin DOMAIN items
  BY <1>1, ExtendsSelf DEF CloseStep
<1>2. CASE n \in DOMAIN items
  <2> DEFINE x == items[n]
             C == Candidates(g, x, mode)
             cs == Listed(C)
  <2>1. mode \in Modes /\ Closable(g, Exact(g, mode), mode)
    BY ExactClosable
  <2>2. x \in Exact(g, mode)
    BY <1>2
  <2> HIDE DEF x
  <2>3. cs \in Seq(Exact(g, mode)) /\ Elements(cs) = C
    BY <2>1, <2>2, CandidatesListed
  <2>4. {BaseOf(c) : c \in C} = BroughtBy(g, BaseOf(x)) /\ \A c \in C : c.position = 0
    BY CandidateBases
  <2>5. new = AddAll(items, cs, mode)
    BY <1>2 DEF CloseStep, x
  <2> HIDE DEF cs, C
  <2>6. \A m \in DOMAIN cs : cs[m].position = 0
    BY <2>3, <2>4 DEF Elements
  <2>7. /\ new \in Seq(Exact(g, mode)) /\ Extends(items, new) /\ Begin(new, k)
        /\ Bases(cs) \subseteq Bases(new)
    BY <2>3, <2>5, <2>6, AddAllBases
  <2>8. Bases(cs) = {BaseOf(c) : c \in C}
    BY <2>3, BasesAre DEF Elements
  <2> QED BY <1>2, <2>4, <2>7, <2>8 DEF x
<1> QED BY <1>1, <1>2

\* There are as many items after the kernel as rules, at most.
LEMMA TailCount ==
    ASSUME NEW g, IsInput(g), NEW items \in Items(g), NEW k \in Nat, k <= Len(items), Begin(items, k)
    PROVE  Len(items) <= k + Len(g.rules)
<1> DEFINE n == Len(items) - k
           s == [i \in 1 .. n |-> items[k + i].rule]
<1>1. n \in Nat /\ Len(items) \in Nat /\ DOMAIN items = 1 .. Len(items)
  BY DEF Items
<1>2. \A i \in 1 .. n : k + i \in DOMAIN items /\ k + i > k
  BY <1>1
<1>3. \A i \in 1 .. n : s[i] \in RulesOf(g) /\ items[k + i].position = 0
  <2> SUFFICES ASSUME NEW i \in 1 .. n PROVE items[k + i].rule \in RulesOf(g) /\ items[k + i].position = 0
    OBVIOUS
  <2>1. items[k + i] \in ItemType(g)
    BY <1>2 DEF Items
  <2> QED BY <1>2, <2>1 DEF ItemType, Begin
<1>4. \A i, j \in 1 .. n : s[i] = s[j] => i = j
  <2> SUFFICES ASSUME NEW i \in 1 .. n, NEW j \in 1 .. n, s[i] = s[j] PROVE i = j
    OBVIOUS
  <2>1. BaseOf(items[k + i]) = BaseOf(items[k + j])
    BY <1>3 DEF BaseOf
  <2>2. k + i = k + j
    BY <1>2, <2>1 DEF Begin
  <2> QED BY <2>2
<1>5. s = [i \in 1 .. n |-> s[i]]
  OBVIOUS
<1> HIDE DEF s
<1>6. s \in Different(RulesOf(g), n)
  <2> HIDE DEF n
  <2>1. s \in Seq(RulesOf(g)) /\ Len(s) = n
    BY <1>1, <1>3, <1>5, IsSequence
  <2> QED BY <1>4, <2>1 DEF Different
<1>7. Elements(s) \subseteq RulesOf(g) /\ Cardinality(Elements(s)) = n
  <2> HIDE DEF n
  <2> QED BY <1>1, <1>6, DifferentCount
<1>8. IsFiniteSet(RulesOf(g)) /\ Cardinality(RulesOf(g)) = Len(g.rules)
  <2>1. RulesOf(g) = 1 .. Len(g.rules) /\ Len(g.rules) \in Nat
    BY GrammarShape
  <2>2. IsFiniteSet(1 .. Len(g.rules)) /\ Cardinality(1 .. Len(g.rules)) = Len(g.rules)
    BY <2>1, FS_Interval
  <2> QED BY <2>1, <2>2
<1>9. Cardinality(Elements(s)) <= Cardinality(RulesOf(g))
  <2> DEFINE A == Elements(s)
             B == RulesOf(g)
  <2>1. IsFiniteSet(B) /\ A \in SUBSET B
    BY <1>7, <1>8
  <2> HIDE DEF A, B
  <2>2. Cardinality(A) <= Cardinality(B)
    BY <2>1, FS_Subset
  <2> QED BY <2>2 DEF A, B
<1>10. n <= Len(g.rules)
  <2> HIDE DEF n
  <2> QED BY <1>7, <1>8, <1>9
<1>11. Len(g.rules) \in Nat
  BY GrammarShape
<1> QED BY <1>1, <1>10, <1>11

\* The bases that are brought stay those of rules of the grammar.
LEMMA BaseShape ==
    ASSUME NEW g, IsInput(g), NEW mode \in {"LR0", "LALR1"}, NEW items \in Seq(Exact(g, mode))
    PROVE  Bases(items) \subseteq RulesOf(g) \X Nat
<1>1. ASSUME NEW i \in DOMAIN items PROVE BaseOf(items[i]) \in RulesOf(g) \X Nat
  <2>1. items[i] \in ItemType(g)
    BY DEF Exact
  <2> QED BY <2>1 DEF ItemType, BaseOf
<1> QED BY <1>1, BasesAre

LEMMA ClosureBases ==
    ASSUME NEW g, IsInput(g), NEW mode \in {"LR0", "LALR1"}, NEW kernel \in Seq(Exact(g, mode))
    PROVE  Bases(Closure(g, kernel, mode)) = ClosedBases(g, Bases(kernel))
<1> DEFINE E == Exact(g, mode)
           S == Seq(E)
           N == MostItems(g, kernel)
           k == Len(kernel)
           items == Closure(g, kernel, mode)
<1>1. mode \in Modes /\ Closable(g, E, mode)
  BY ExactClosable
<1>2. N \in Nat /\ N >= k + Len(g.rules) /\ k \in Nat /\ kernel \in S /\ E \subseteq ItemType(g)
  <2>1. kernel \in Seq(E)
    OBVIOUS
  <2>2. E \subseteq ItemType(g)
    BY DEF Exact
  <2> HIDE DEF E
  <2> QED BY <2>1, <2>2, MostItemsIs
<1> HIDE DEF E
<1>3. PICK f : /\ f[0] = kernel
               /\ \A n \in 1 .. MostItems(g, kernel) : f[n] = CloseStep(g, f[n - 1], n, mode)
               /\ \A n \in 0 .. MostItems(g, kernel) : f[n] \in Seq(E)
               /\ Closure(g, kernel, mode) = f[MostItems(g, kernel)]
  <2> HIDE DEF N, k, items
  <2>1. kernel \in Seq(E)
    BY <1>2
  <2>2. \E f : /\ f[0] = kernel
               /\ \A n \in 1 .. MostItems(g, kernel) : f[n] = CloseStep(g, f[n - 1], n, mode)
               /\ \A n \in 0 .. MostItems(g, kernel) : f[n] \in Seq(E)
               /\ Closure(g, kernel, mode) = f[MostItems(g, kernel)]
    BY <1>1, <2>1, CloseSteps
  <2> QED BY <2>2
\* As far as the closure got, the items are those of the kernel and others that begin
\* different rules, and the items that were closed brought theirs.
<1> DEFINE P(n) == /\ Extends(kernel, f[n]) /\ Begin(f[n], k)
                   /\ \A m \in 1 .. n : m \in DOMAIN f[n] => BroughtBy(g, BaseOf(f[n][m])) \subseteq Bases(f[n])
           K == {n \in 0 .. N : P(n)}
<1>4. P(0)
  <2>1. 1 .. 0 = {} /\ \A i \in DOMAIN kernel : ~ i > k
    BY <1>2
  <2>2. Extends(kernel, kernel)
    BY ExtendsSelf
  <2> QED BY <1>3, <2>1, <2>2 DEF Begin
<1>5. ASSUME NEW n \in 1 .. N, P(n - 1) PROVE P(n)
  <2>1. f[n - 1] \in S /\ f[n] \in S /\ f[n] = CloseStep(g, f[n - 1], n, mode)
    <3>1. n - 1 \in 0 .. N /\ n \in 0 .. N
      BY <1>2
    <3> QED BY <1>3, <3>1
  <2> DEFINE old == f[n - 1]
             new == f[n]
  <2>2. /\ Extends(old, new) /\ Begin(new, k)
        /\ n \in DOMAIN old => BroughtBy(g, BaseOf(old[n])) \subseteq Bases(new)
        /\ n \notin DOMAIN old => new = old
    <3> HIDE DEF N, k
    <3>1. old \in Seq(Exact(g, mode))
      BY <2>1 DEF E
    <3>2. k \in Nat /\ Begin(old, k)
      BY <1>2, <1>5
    <3>3. new = CloseStep(g, old, n, mode)
      BY <2>1
    <3> HIDE DEF old, new
    <3> QED BY <3>1, <3>2, <3>3, CloseStepBases
  <2>3. Extends(kernel, old)
    BY <1>5
  <2> HIDE DEF old, new, N, k
  <2>4. Extends(kernel, new)
    BY <1>2, <2>1, <2>2, <2>3, ExtendsTwice DEF old, new
  <2>5. Bases(old) \subseteq Bases(new) /\ DOMAIN old \subseteq DOMAIN new
    BY <2>1, <2>2, ExtendsBases DEF old, new
  <2>6. ASSUME NEW m \in 1 .. n, m \in DOMAIN new
        PROVE  BroughtBy(g, BaseOf(new[m])) \subseteq Bases(new)
    <3>1. DOMAIN old = 1 .. Len(old) /\ Len(old) \in Nat
      BY <2>1 DEF old
    <3>2. CASE n \notin DOMAIN old
      <4>1. m # n
        BY <2>2, <2>6, <3>2
      <4>2. m \in 1 .. n - 1
        BY <1>2, <4>1
      <4>3. BroughtBy(g, BaseOf(old[m])) \subseteq Bases(old)
        BY <1>5, <2>2, <2>6, <3>2, <4>2 DEF old
      <4> QED BY <2>2, <3>2, <4>3
    <3>3. CASE n \in DOMAIN old
      <4>1. m \in DOMAIN old
        BY <1>2, <3>1, <3>3
      <4>2. BaseOf(new[m]) = BaseOf(old[m])
        BY <2>2, <4>1 DEF Extends
      <4>3. CASE m = n
        BY <2>2, <3>3, <4>2, <4>3
      <4>4. CASE m # n
        <5>1. m \in 1 .. n - 1
          BY <1>2, <4>4
        <5>2. BroughtBy(g, BaseOf(old[m])) \subseteq Bases(old)
          BY <1>5, <4>1, <5>1 DEF old
        <5> QED BY <2>5, <4>2, <5>2
      <4> QED BY <4>3, <4>4
    <3> QED BY <3>2, <3>3
  <2> QED BY <2>2, <2>4, <2>6 DEF new
<1>6. P(N) /\ f[N] \in S
  <2>1. 0 \in K /\ \A n \in 1 .. N : n - 1 \in K => n \in K
    <3> HIDE DEF P, N
    <3> QED BY <1>2, <1>4, <1>5
  <2>2. \A n \in 0 .. N : n \in K
    <3> HIDE DEF K, N
    <3> QED BY <1>2, <2>1, Induction
  <2>3. N \in 0 .. N
    BY <1>2
  <2>4. N \in K
    <3> HIDE DEF K, N
    <3> QED BY <2>2, <2>3
  <2>5. f[N] \in S
    BY <1>3, <2>3
  <2> HIDE DEF P, N
  <2> QED BY <2>4, <2>5
<1>7. items = f[N]
  BY <1>3
<1> HIDE DEF items, N
<1>8. Extends(kernel, items) /\ Begin(items, k) /\ items \in S
  BY <1>6, <1>7
<1>9. items \in Items(g) /\ k <= Len(items) /\ Len(items) \in Nat /\ DOMAIN items = 1 .. Len(items)
  <2>1. items \in Seq(ItemType(g))
    BY <1>2, <1>8
  <2> QED BY <1>8, <2>1 DEF Items, Extends
<1>10. Len(items) <= N
  <2>1. Len(items) <= k + Len(g.rules)
    <3> HIDE DEF k
    <3> QED BY <1>2, <1>8, <1>9, TailCount
  <2>2. Len(g.rules) \in Nat
    BY GrammarShape
  <2> QED BY <1>2, <1>9, <2>1, <2>2
\* The bases of the closure are closed...
<1>11. IsClosed(g, Bases(items)) /\ Bases(kernel) \subseteq Bases(items)
  <2>1. \A m \in DOMAIN items : m \in 1 .. N
    BY <1>2, <1>9, <1>10
  <2>2. \A m \in DOMAIN items : BroughtBy(g, BaseOf(items[m])) \subseteq Bases(items)
    BY <1>6, <1>7, <2>1
  <2>3. IsClosed(g, Bases(items))
    BY <2>2, BasesAre DEF IsClosed
  <2>4. Bases(kernel) \subseteq Bases(items)
    BY <1>2, <1>8, ExtendsBases
  <2> QED BY <2>3, <2>4
\* ... and they are in every closed set.
<1>12. ASSUME NEW B, IsClosed(g, B), Bases(kernel) \subseteq B
       PROVE  Bases(items) \subseteq B
  <2> DEFINE T == {x \in E : BaseOf(x) \in B}
  <2>1. T \subseteq E
    OBVIOUS
  <2>2. ASSUME NEW x \in T PROVE Candidates(g, x, mode) \subseteq T
    <3>1. x \in E /\ BroughtBy(g, BaseOf(x)) \subseteq B
      BY <1>12 DEF IsClosed
    <3>2. Candidates(g, x, mode) \subseteq E
      BY <1>1, <3>1 DEF Closable
    <3>3. {BaseOf(c) : c \in Candidates(g, x, mode)} \subseteq B
      BY <3>1, CandidateBases
    <3> QED BY <3>2, <3>3
  <2>3. ASSUME mode = "LALR1", NEW x \in T, NEW c \in T, SameBase(x, c)
        PROVE  [x EXCEPT !.lookaheads = @ \cup c.lookaheads] \in T
    <3> DEFINE y == [x EXCEPT !.lookaheads = @ \cup c.lookaheads]
    <3>1. y \in E
      BY <1>1, <2>1, <2>3 DEF Closable
    <3>2. BaseOf(y) = BaseOf(x)
      <4>1. x \in [rule : RulesOf(g), position : Nat, lookaheads : SUBSET Marks(g)]
        BY <1>2 DEF ItemType
      <4> QED BY <4>1 DEF BaseOf
    <3> HIDE DEF y
    <3>3. y \in T
      BY <3>1, <3>2
    <3> QED BY <3>3 DEF y
  <2>4. kernel \in Seq(T)
    <3>1. \A i \in DOMAIN kernel : kernel[i] \in T
      BY <1>2, <1>12, BasesAre
    <3> HIDE DEF T
    <3> QED BY <1>2, <3>1
  <2>5. Closable(g, T, mode)
    <3>1. T \subseteq ItemType(g)
      BY <1>2
    <3> HIDE DEF T
    <3> QED BY <2>2, <2>3, <3>1 DEF Closable
  <2>6. items \in Seq(T)
    <3> HIDE DEF T
    <3> QED BY <1>1, <2>4, <2>5, ClosureShape DEF items
  <2>7. \A i \in DOMAIN items : items[i] \in T
    <3> HIDE DEF T
    <3> QED BY <2>6
  <2> QED BY <2>7, BasesAre
<1>13. Bases(items) \subseteq RulesOf(g) \X Nat
  BY <1>8, BaseShape DEF E
<1>14. Bases(items) \subseteq ClosedBases(g, Bases(kernel))
  BY <1>12, <1>13 DEF ClosedBases
<1>15. ClosedBases(g, Bases(kernel)) \subseteq Bases(items)
  BY <1>11, <1>13 DEF ClosedBases
<1> QED BY <1>14, <1>15 DEF items
-----------------------------------------------------------------------------
(***************************************************************************)
(* The kernels of a graph: as sets of items.                               *)
(***************************************************************************)
\* The kernels of the graphs: no item comes twice.
Kernels(g, mode) ==
    {kernel \in Seq(Exact(g, mode)) : \A i, j \in DOMAIN kernel : kernel[i] = kernel[j] => i = j}

LEMMA KernelHas ==
    ASSUME NEW g, NEW mode \in {"LR0", "LR1"}, NEW items \in Seq(Exact(g, mode)), NEW x \in Exact(g, mode)
    PROVE  Has(items, x) <=> x \in Elements(items)
<1>1. \A y \in Elements(items) : y \in Exact(g, mode)
  BY DEF Elements
<1>2. \A y \in Elements(items) : SameItem(y, x) <=> y = x
  BY <1>1, ExactSame
<1> QED BY <1>2 DEF Has

LEMMA SameKernelIs ==
    ASSUME NEW g, NEW mode \in {"LR0", "LR1"}, NEW a \in Kernels(g, mode), NEW b \in Kernels(g, mode)
    PROVE  SameKernel(a, b) <=> Elements(a) = Elements(b)
<1> DEFINE E == Exact(g, mode)
           A == Elements(a)
           B == Elements(b)
<1>1. a \in Seq(E) /\ b \in Seq(E) /\ Len(a) \in Nat /\ Len(b) \in Nat
  BY DEF Kernels
<1>2. a \in Different(E, Len(a)) /\ b \in Different(E, Len(b))
  <2> HIDE DEF E
  <2> QED BY <1>1 DEF Different, Kernels
<1>3. IsFiniteSet(A) /\ Cardinality(A) = Len(a) /\ IsFiniteSet(B) /\ Cardinality(B) = Len(b)
  <2> HIDE DEF E
  <2> QED BY <1>1, <1>2, DifferentCount
<1>4. \A x \in A : Has(b, x) <=> x \in B
  <2>1. \A x \in A : x \in E
    BY <1>1 DEF Elements
  <2> QED BY <1>1, <2>1, KernelHas
<1>5. SameKernel(a, b) <=> Len(a) = Len(b) /\ A \subseteq B
  BY <1>4 DEF SameKernel
<1> HIDE DEF A, B
<1>6. ASSUME Len(a) = Len(b), A \subseteq B PROVE A = B
  <2>1. A \in SUBSET B /\ Cardinality(A) = Cardinality(B)
    BY <1>3, <1>6
  <2> QED BY <1>3, <2>1, FS_Subset
<1>7. A = B => Len(a) = Len(b)
  BY <1>3
<1> QED BY <1>5, <1>6, <1>7 DEF A, B

LEMMA ChildExact ==
    ASSUME NEW g, IsInput(g), NEW mode \in {"LR0", "LR1"}, NEW x \in Exact(g, mode), ~ IsReduce(g, x)
    PROVE  Child(x) \in Exact(g, mode)
<1>1. x \in ItemType(g)
  BY DEF Exact
<1>2. Child(x) \in ItemType(g)
  BY <1>1, ItemShape
<1>3. Child(x).rule = x.rule /\ Child(x).lookaheads = x.lookaheads
  BY <1>1, ItemShape DEF Child
<1> QED BY <1>2, <1>3 DEF Exact

\* One step of ShiftKernel: the n-th item moved on, if it waits for the symbol.
ShiftStep(g, items, symbol, kernel, n) ==
    IF IsBefore(g, items[n], symbol) /\ ~ Has(kernel, Child(items[n]))
    THEN Append(kernel, Child(items[n]))
    ELSE kernel

LEMMA ShiftStepIs ==
    ASSUME NEW g, IsInput(g), NEW mode \in {"LR0", "LR1"}, NEW items \in Seq(Exact(g, mode)),
           NEW symbol, NEW kernel \in Kernels(g, mode), NEW n \in DOMAIN items
    PROVE  /\ ShiftStep(g, items, symbol, kernel, n) \in Kernels(g, mode)
           /\ Elements(ShiftStep(g, items, symbol, kernel, n)) =
                Elements(kernel) \cup (IF IsBefore(g, items[n], symbol) THEN {Child(items[n])} ELSE {})
<1> DEFINE E == Exact(g, mode)
           c == Child(items[n])
           new == Append(kernel, c)
<1>1. kernel \in Seq(E) /\ \A i, j \in DOMAIN kernel : kernel[i] = kernel[j] => i = j
  BY DEF Kernels
<1>2. ASSUME IsBefore(g, items[n], symbol)
      PROVE  c \in E /\ (Has(kernel, c) <=> c \in Elements(kernel))
  <2>1. items[n] \in E /\ ~ IsReduce(g, items[n])
    BY <1>2 DEF IsBefore
  <2>2. c \in E
    BY <2>1, ChildExact
  <2> HIDE DEF c
  <2> QED BY <1>1, <2>2, KernelHas
<1>3. CASE IsBefore(g, items[n], symbol) /\ ~ Has(kernel, c)
  <2>1. c \in E /\ c \notin Elements(kernel)
    BY <1>2, <1>3
  <2> HIDE DEF c, E
  <2>2. /\ new \in Seq(E) /\ Len(kernel) \in Nat /\ DOMAIN kernel = 1 .. Len(kernel)
        /\ DOMAIN new = 1 .. Len(kernel) + 1 /\ new[Len(kernel) + 1] = c
        /\ \A i \in DOMAIN kernel : new[i] = kernel[i]
    BY <1>1, <2>1
  <2> HIDE DEF new
  <2>3. \A i \in DOMAIN new : i \in DOMAIN kernel \/ i = Len(kernel) + 1
    BY <2>2
  <2>4. \A i \in DOMAIN kernel : kernel[i] # c /\ i \in DOMAIN new
    BY <2>1, <2>2 DEF Elements
  <2>5. Len(kernel) + 1 \in DOMAIN new
    BY <2>2
  <2>6. new \in Kernels(g, mode)
    BY <1>1, <2>2, <2>3, <2>4 DEF Kernels, E
  <2>7. Elements(new) = Elements(kernel) \cup {c}
    BY <2>2, <2>3, <2>4, <2>5 DEF Elements
  <2> QED BY <1>3, <2>6, <2>7 DEF ShiftStep, new, c
<1>4. CASE ~ (IsBefore(g, items[n], symbol) /\ ~ Has(kernel, c))
  <2>1. ShiftStep(g, items, symbol, kernel, n) = kernel
    BY <1>4 DEF ShiftStep
  <2>2. IsBefore(g, items[n], symbol) => c \in Elements(kernel)
    BY <1>2, <1>4
  <2> QED BY <2>1, <2>2
<1> QED BY <1>3, <1>4

LEMMA ShiftKernelIs ==
    ASSUME NEW g, IsInput(g), NEW mode \in {"LR0", "LR1"}, NEW items \in Seq(Exact(g, mode)), NEW symbol
    PROVE  /\ ShiftKernel(g, items, symbol) \in Kernels(g, mode)
           /\ Elements(ShiftKernel(g, items, symbol)) = Moved(g, items, symbol)
<1> DEFINE N == Len(items)
           T == Kernels(g, mode)
           Step(x, n) == ShiftStep(g, items, symbol, x, n)
           F == [n \in 1 .. N |-> [x \in T |-> Step(x, n)]]
           Is(f) == f = [n \in 0 .. N |-> IF n = 0 THEN <<>> ELSE Step(f[n - 1], n)]
           Part(n) == {Child(items[m]) : m \in {k \in 1 .. n : IsBefore(g, items[k], symbol)}}
<1>1. N \in Nat /\ DOMAIN items = 1 .. N
  OBVIOUS
<1>2. ASSUME NEW n \in 1 .. N, NEW x \in T
      PROVE  /\ Step(x, n) \in T /\ F[n][x] = Step(x, n)
             /\ Elements(Step(x, n)) =
                    Elements(x) \cup (IF IsBefore(g, items[n], symbol) THEN {Child(items[n])} ELSE {})
  BY <1>1, ShiftStepIs
<1>3. <<>> \in T /\ Elements(<<>>) = {}
  BY DEF Kernels, Elements
<1> HIDE DEF N, F, Step, T
<1>4. PICK f : IteratesIn(f, T, N, <<>>, F)
  <2>1. \A n \in 1 .. N : \A x \in T : F[n][x] \in T
    BY <1>2
  <2> HIDE DEF Is, Part
  <2> QED BY <1>1, <1>3, <2>1, RecursionOn
<1>5. \A n \in 0 .. N : n # 0 => n \in 1 .. N
  BY <1>1
<1>6. Is(f)
  BY <1>2, <1>4, <1>5 DEF IteratesIn
<1> DEFINE shifted == CHOOSE l : Is(l)
<1>7. Is(shifted)
  <2> HIDE DEF Is
  <2> QED BY <1>6
<1>8. ShiftKernel(g, items, symbol) = shifted[N]
  BY DEF ShiftKernel, N, Step, ShiftStep
<1> HIDE DEF shifted
<1>9. shifted[0] = <<>> /\ \A n \in 1 .. N : shifted[n] = Step(shifted[n - 1], n)
  <2>1. 0 \in 0 .. N /\ \A n \in 1 .. N : n \in 0 .. N /\ n # 0
    BY <1>1
  <2> QED BY <1>7, <2>1
<1> DEFINE P(n) == shifted[n] \in T /\ Elements(shifted[n]) = Part(n)
           K == {n \in 0 .. N : P(n)}
<1>10. P(0)
  <2>1. Part(0) = {}
    OBVIOUS
  <2> QED BY <1>3, <1>9, <2>1
<1>11. ASSUME NEW n \in 1 .. N, P(n - 1) PROVE P(n)
  <2>1. Part(n) = Part(n - 1) \cup (IF IsBefore(g, items[n], symbol) THEN {Child(items[n])} ELSE {})
    <3>1. \A k : k \in 1 .. n <=> k \in 1 .. n - 1 \/ k = n
      BY <1>1
    <3> QED BY <3>1
  <2> HIDE DEF Part
  <2> QED BY <1>2, <1>9, <1>11, <2>1
<1>12. P(N)
  <2>1. 0 \in K /\ \A n \in 1 .. N : n - 1 \in K => n \in K
    <3> HIDE DEF P
    <3> QED BY <1>1, <1>10, <1>11
  <2>2. \A n \in 0 .. N : n \in K
    <3> HIDE DEF K
    <3> QED BY <1>1, <2>1, Induction
  <2>3. N \in 0 .. N
    BY <1>1
  <2> HIDE DEF P
  <2> QED BY <2>2, <2>3
<1>13. Part(N) = Moved(g, items, symbol)
  BY <1>1 DEF Moved, Elements
<1> HIDE DEF Part
<1> QED BY <1>8, <1>12, <1>13 DEF T
-----------------------------------------------------------------------------
\* What a reduction is on, which in a LR(0) graph is the null terminal
Terminal(g) == Marks(g) \cup {"null"}

\* What the states of a graph are
State(g) ==
    [kernel : Items(g), items : Items(g),
     children : UNION {[D -> Nat \ {0}] : D \in SUBSET SymbolsOf(g)},
     contexts : UNION {[D -> SUBSET Nat] : D \in SUBSET Marks(g)},
     reductions : SUBSET [terminal : Terminal(g), rule : Nat, length : Nat]]

LEMMA AxiomShape ==
    ASSUME NEW g, IsInput(g), NEW la \in SUBSET Marks(g)
    PROVE  AxiomKernel(g, la) \in Items(g)
<1>1. Len(g.rules) \in RulesOf(g)
  BY GrammarShape
<1>2. Item(Len(g.rules), 0, la) \in ItemType(g)
  BY <1>1, GrammarShape DEF Item, ItemType
<1> QED BY <1>2 DEF AxiomKernel, AxiomRule, Items

LEMMA IntoStateShape ==
    ASSUME NEW g, IsInput(g), NEW kernel \in Items(g), NEW mode \in Modes
    PROVE  IntoState(g, kernel, mode) \in State(g)
<1>1. Closure(g, kernel, mode) \in Items(g)
  BY ClosableItems, ClosureShape DEF Items
<1>2. NoChildren \in UNION {[D -> Nat \ {0}] : D \in SUBSET SymbolsOf(g)}
  <2>1. NoChildren \in [{} -> Nat \ {0}] /\ {} \in SUBSET SymbolsOf(g)
    BY DEF NoChildren
  <2> QED BY <2>1
<1>3. NoContexts \in UNION {[D -> SUBSET Nat] : D \in SUBSET Marks(g)}
  <2>1. NoContexts \in [{} -> SUBSET Nat] /\ {} \in SUBSET Marks(g)
    BY DEF NoContexts
  <2> QED BY <2>1
<1> QED BY <1>1, <1>2, <1>3 DEF IntoState, State

LEMMA ContextsShape ==
    ASSUME NEW g, IsInput(g), NEW items \in Items(g)
    PROVE  OpenedContexts(g, items) \in UNION {[D -> SUBSET Nat] : D \in SUBSET Marks(g)}
<1> DEFINE opening == {item \in Elements(items) :
                            /\ item.position = 0
                            /\ ~ IsReduce(g, item)
                            /\ g.rules[item.rule].context # 0}
           first(item) == LET X == NextSymbol(g, item)
                          IN IF X \in VariablesOf(g)
                             THEN UNION {g.firsts[r][0] : r \in RulesFor(g, X)}
                             ELSE {X}
           D == UNION {first(item) : item \in opening}
<1>1. \A item \in opening : item \in ItemType(g) /\ ~ IsReduce(g, item)
  BY DEF Elements, Items
<1>2. \A item \in opening : first(item) \subseteq Marks(g)
  <2> SUFFICES ASSUME NEW item \in opening PROVE first(item) \subseteq Marks(g)
    OBVIOUS
  <2>1. NextSymbol(g, item) \notin VariablesOf(g) => NextSymbol(g, item) \in Marks(g)
    BY <1>1, ItemShape DEF Marks
  <2>2. \A r \in RulesOf(g) : 0 \in ChoicesOf(g, r)
    BY GrammarShape
  <2>3. \A r \in RulesOf(g) : g.firsts[r][0] \subseteq Marks(g)
    BY <2>2 DEF IsInput
  <2> QED BY <2>1, <2>3 DEF RulesFor
<1>3. \A item \in opening : g.rules[item.rule].context \in Nat
  <2> SUFFICES ASSUME NEW item \in opening PROVE g.rules[item.rule].context \in Nat
    OBVIOUS
  <2>1. item.rule \in RulesOf(g)
    BY <1>1, ItemShape
  <2> DEFINE Rules == [head : STRING, body : Seq(STRING), context : Nat]
  <2>2. g.rules \in Seq(Rules) /\ item.rule \in 1 .. Len(g.rules)
    BY <2>1, GrammarShape DEF IsInput
  <2>3. g.rules[item.rule] \in Rules
    <3> HIDE DEF Rules
    <3> QED BY <2>2
  <2> QED BY <2>3
<1>4. D \in SUBSET Marks(g)
  <2> HIDE DEF first, opening
  <2> QED BY <1>2
<1>5. OpenedContexts(g, items) =
        [t \in D |-> {g.rules[item.rule].context : item \in {o \in opening : t \in first(o)}}]
  BY DEF OpenedContexts
<1>6. OpenedContexts(g, items) \in [D -> SUBSET Nat]
  <2> HIDE DEF first, opening
  <2> QED BY <1>3, <1>5
<1> QED BY <1>4, <1>6

-----------------------------------------------------------------------------
(***************************************************************************)
(* The graph, as it is built.                                              *)
(***************************************************************************)
\* The graphs: a state is the closure of its kernel, and no kernel has two states.
GraphState(g, mode) ==
    {s \in State(g) : s.kernel \in Kernels(g, mode) /\ s.items = Closure(g, s.kernel, mode)}

Graphs(g, mode) ==
    {graph \in Seq(GraphState(g, mode)) :
        \A i, j \in DOMAIN graph : Elements(graph[i].kernel) = Elements(graph[j].kernel) => i = j}

Knows(graph, kernel) == \E i \in DOMAIN graph : Elements(graph[i].kernel) = Elements(kernel)

\* The children of a state: for each symbol that its items wait for, the state of
\* the kernel of the items moved on.
Linked(g, graph, i) ==
    /\ DOMAIN graph[i].children = Awaited(g, graph[i].items)
    /\ \A X \in DOMAIN graph[i].children :
        /\ graph[i].children[X] \in DOMAIN graph
        /\ Elements(graph[graph[i].children[X]].kernel) = Moved(g, graph[i].items, X)

LEMMA GraphItems ==
    ASSUME NEW g, IsInput(g), NEW mode \in {"LR0", "LR1"}, NEW graph \in Graphs(g, mode), NEW i \in DOMAIN graph
    PROVE  /\ graph \in Seq(GraphState(g, mode))
           /\ graph[i] \in GraphState(g, mode) /\ graph[i] \in State(g) /\ graph[i].kernel \in Kernels(g, mode)
           /\ graph[i].items = Closure(g, graph[i].kernel, mode)
           /\ graph[i].items \in Seq(Exact(g, mode))
<1>1. graph \in Seq(GraphState(g, mode)) /\ graph[i] \in GraphState(g, mode)
  BY DEF Graphs
<1>2. graph[i].kernel \in Kernels(g, mode) /\ graph[i].items = Closure(g, graph[i].kernel, mode) /\ graph[i] \in State(g)
  BY <1>1 DEF GraphState
<1>3. graph[i].kernel \in Seq(Exact(g, mode))
  BY <1>2 DEF Kernels
<1>4. mode \in Modes /\ Closable(g, Exact(g, mode), mode)
  BY ClosableExact DEF Modes
<1> DEFINE E == Exact(g, mode)
           kernel == graph[i].kernel
<1>5. kernel \in Seq(E) /\ Closable(g, E, mode)
  BY <1>3, <1>4
<1> HIDE DEF E, kernel
<1>6. Closure(g, kernel, mode) \in Seq(E)
  BY <1>4, <1>5, ClosureShape
<1> QED BY <1>1, <1>2, <1>6 DEF E, kernel

LEMMA StateForIs ==
    ASSUME NEW g, IsInput(g), NEW mode \in {"LR0", "LR1"}, NEW graph \in Graphs(g, mode), NEW kernel \in Kernels(g, mode)
    PROVE  /\ ~ Knows(graph, kernel) => StateFor(graph, kernel) \notin DOMAIN graph
           /\ Knows(graph, kernel) => /\ StateFor(graph, kernel) \in DOMAIN graph
                                      /\ Elements(graph[StateFor(graph, kernel)].kernel) = Elements(kernel)
<1> DEFINE known == {i \in DOMAIN graph : SameKernel(graph[i].kernel, kernel)}
           least == CHOOSE i \in known : \A j \in known : i <= j
<1>1. graph \in Seq(GraphState(g, mode)) /\ Len(graph) \in Nat /\ DOMAIN graph = 1 .. Len(graph)
  BY DEF Graphs
<1>2. \A i \in DOMAIN graph : SameKernel(graph[i].kernel, kernel) <=> Elements(graph[i].kernel) = Elements(kernel)
  BY GraphItems, SameKernelIs
<1>3. known \subseteq Nat /\ (known = {} <=> ~ Knows(graph, kernel))
  BY <1>1, <1>2 DEF Knows
<1>4. CASE known = {}
  BY <1>1, <1>3, <1>4 DEF StateFor
<1>5. CASE known # {}
  <2>1. \E i \in known : \A j \in known : i <= j
    <3> HIDE DEF known
    <3> QED BY <1>3, <1>5, ShortestExample
  <2>2. least \in known
    <3> HIDE DEF known
    <3> QED BY <2>1
  <2>3. StateFor(graph, kernel) = least
    BY <1>5 DEF StateFor
  <2> HIDE DEF least
  <2>4. least \in DOMAIN graph /\ Elements(graph[least].kernel) = Elements(kernel)
    BY <1>2, <2>2
  <2> QED BY <1>3, <1>5, <2>3, <2>4
<1> QED BY <1>4, <1>5

\* The states that were there are.
Prefix(old, new) ==
    /\ Len(old) <= Len(new)
    /\ \A i \in DOMAIN old : new[i] = old[i]

\* The states that were not there are for some kernels.
OnlyAdds(old, new, some) ==
    \A j \in DOMAIN new : j \in DOMAIN old \/ \E kernel \in some : Elements(new[j].kernel) = Elements(kernel)

LEMMA WithStateIs ==
    ASSUME NEW g, IsInput(g), NEW mode \in {"LR0", "LR1"}, NEW graph \in Graphs(g, mode), NEW kernel \in Kernels(g, mode)
    PROVE  /\ WithState(g, graph, kernel, mode) \in Graphs(g, mode)
           /\ Prefix(graph, WithState(g, graph, kernel, mode))
           /\ kernel # <<>> => Knows(WithState(g, graph, kernel, mode), kernel)
           /\ OnlyAdds(graph, WithState(g, graph, kernel, mode), {kernel} \ {<<>>})
<1> DEFINE new == WithState(g, graph, kernel, mode)
           state == IntoState(g, kernel, mode)
           S == GraphState(g, mode)
<1>1. graph \in Seq(S) /\ Len(graph) \in Nat /\ DOMAIN graph = 1 .. Len(graph)
      /\ \A i, j \in DOMAIN graph : Elements(graph[i].kernel) = Elements(graph[j].kernel) => i = j
  BY DEF Graphs
<1>2. CASE kernel = <<>> \/ Knows(graph, kernel)
  <2>1. new = graph
    BY <1>2, StateForIs DEF WithState
  <2> HIDE DEF new
  <2>2. Prefix(graph, new) /\ \A some : OnlyAdds(graph, new, some)
    BY <1>1, <2>1 DEF Prefix, OnlyAdds
  <2> QED BY <1>2, <2>1, <2>2 DEF new
<1>3. CASE kernel # <<>> /\ ~ Knows(graph, kernel)
  <2>1. new = Append(graph, state)
    BY <1>3, StateForIs DEF WithState
  <2>2. state.kernel = kernel /\ state.items = Closure(g, kernel, mode)
    BY DEF IntoState
  <2>3. state \in S
    <3>1. kernel \in Items(g) /\ mode \in Modes
      <4>1. kernel \in Seq(Exact(g, mode)) /\ Exact(g, mode) \subseteq ItemType(g)
        BY DEF Kernels, Exact
      <4> QED BY <4>1 DEF Items, Modes
    <3>2. state \in State(g)
      BY <3>1, IntoStateShape
    <3> HIDE DEF state
    <3> QED BY <2>2, <3>2 DEF GraphState
  <2> HIDE DEF new, state, S
  <2>4. /\ new \in Seq(S) /\ DOMAIN new = 1 .. Len(graph) + 1 /\ Len(new) = Len(graph) + 1
        /\ new[Len(graph) + 1] = state
        /\ \A i \in DOMAIN graph : new[i] = graph[i]
    BY <1>1, <2>1, <2>3
  <2>5. \A i \in DOMAIN new : i \in DOMAIN graph \/ i = Len(graph) + 1
    BY <1>1, <2>4
  <2>6. \A i \in DOMAIN graph : Elements(graph[i].kernel) # Elements(kernel)
    BY <1>3 DEF Knows
  <2>7. \A i, j \in DOMAIN new : Elements(new[i].kernel) = Elements(new[j].kernel) => i = j
    BY <1>1, <2>2, <2>4, <2>5, <2>6
  <2>8. new \in Graphs(g, mode)
    BY <2>4, <2>7 DEF Graphs, S
  <2>9. Prefix(graph, new)
    BY <1>1, <2>4 DEF Prefix
  <2>10. Knows(new, kernel)
    <3>1. Len(graph) + 1 \in DOMAIN new
      BY <1>1, <2>4
    <3> QED BY <2>2, <2>4, <3>1 DEF Knows
  <2>11. OnlyAdds(graph, new, {kernel} \ {<<>>})
    BY <1>3, <2>2, <2>4, <2>5 DEF OnlyAdds
  <2> QED BY <2>8, <2>9, <2>10, <2>11 DEF new
<1> QED BY <1>2, <1>3

LEMMA PrefixKeeps ==
    ASSUME NEW T, NEW a \in Seq(T), NEW b \in Seq(T), NEW c \in Seq(T), Prefix(a, b), Prefix(b, c)
    PROVE  /\ Prefix(a, c) /\ DOMAIN a \subseteq DOMAIN b
           /\ \A kernel : Knows(b, kernel) => Knows(c, kernel)
<1>1. /\ Len(a) \in Nat /\ DOMAIN a = 1 .. Len(a) /\ Len(b) \in Nat /\ DOMAIN b = 1 .. Len(b)
      /\ Len(c) \in Nat /\ DOMAIN c = 1 .. Len(c)
  OBVIOUS
<1>2. DOMAIN a \subseteq DOMAIN b /\ DOMAIN b \subseteq DOMAIN c
  BY <1>1 DEF Prefix
<1>3. Prefix(a, c)
  BY <1>1, <1>2 DEF Prefix
<1>4. \A kernel : Knows(b, kernel) => Knows(c, kernel)
  BY <1>2 DEF Prefix, Knows
<1> QED BY <1>2, <1>3, <1>4

\* The states that are looked for, and added, for the symbols.
HasAll(g, graph, i, all, new) ==
    LET kernel(X) == ShiftKernel(g, graph[i].items, X)
        shifted == {X \in Elements(g.symbols) : kernel(X) # <<>>}
    IN /\ Prefix(graph, all)
       /\ \A X \in Elements(g.symbols) : kernel(X) # <<>> => Knows(all, kernel(X))
       /\ OnlyAdds(graph, all, {kernel(X) : X \in shifted})
       /\ new = [all EXCEPT ![i].children = [X \in shifted |-> StateFor(all, kernel(X))],
                            ![i].contexts = OpenedContexts(g, graph[i].items)]

LEMMA AllStates ==
    ASSUME NEW g, IsInput(g), NEW mode \in {"LR0", "LR1"}, NEW graph \in Graphs(g, mode), NEW i \in DOMAIN graph
    PROVE  \E all \in Graphs(g, mode) : HasAll(g, graph, i, all, BuildAtState(g, graph, i, mode))
<1> DEFINE N == Len(g.symbols)
           T == Graphs(g, mode)
           kernel(n) == ShiftKernel(g, graph[i].items, g.symbols[n])
           Step(x, n) == WithState(g, x, kernel(n), mode)
           F == [n \in 1 .. N |-> [x \in T |-> Step(x, n)]]
           Is(f) == f = [n \in 0 .. N |-> IF n = 0 THEN graph ELSE Step(f[n - 1], n)]
<1>1. N \in Nat /\ DOMAIN g.symbols = 1 .. N
  BY DEF IsInput
<1>2. \A n \in 1 .. N : kernel(n) \in Kernels(g, mode)
  BY GraphItems, ShiftKernelIs
<1> HIDE DEF kernel
<1>3. ASSUME NEW n \in 1 .. N, NEW x \in T
      PROVE  /\ Step(x, n) \in T /\ F[n][x] = Step(x, n)
             /\ Prefix(x, Step(x, n))
             /\ kernel(n) # <<>> => Knows(Step(x, n), kernel(n))
             /\ OnlyAdds(x, Step(x, n), {kernel(n)} \ {<<>>})
  BY <1>2, WithStateIs
<1> HIDE DEF N, F, Step, T
<1>4. graph \in T
  BY DEF T
<1>5. PICK f : IteratesIn(f, T, N, graph, F)
  <2>1. \A n \in 1 .. N : \A x \in T : F[n][x] \in T
    BY <1>3
  <2> HIDE DEF Is
  <2> QED BY <1>1, <1>4, <2>1, RecursionOn
<1>6. \A n \in 0 .. N : n # 0 => n \in 1 .. N
  BY <1>1
<1>7. Is(f)
  BY <1>3, <1>5, <1>6 DEF IteratesIn
<1> DEFINE built == CHOOSE l : Is(l)
<1>8. Is(built)
  <2> HIDE DEF Is
  <2> QED BY <1>7
<1> DEFINE all == built[N]
<1>9. BuildAtState(g, graph, i, mode) =
        [all EXCEPT ![i].children = [X \in {Y \in Elements(g.symbols) : ShiftKernel(g, graph[i].items, Y) # <<>>}
                                        |-> StateFor(all, ShiftKernel(g, graph[i].items, X))],
                    ![i].contexts = OpenedContexts(g, graph[i].items)]
  BY DEF BuildAtState, N, Step, kernel
<1> HIDE DEF built
<1>10. built[0] = graph /\ \A n \in 1 .. N : built[n] = Step(built[n - 1], n)
  <2>1. 0 \in 0 .. N /\ \A n \in 1 .. N : n \in 0 .. N /\ n # 0
    BY <1>1
  <2> QED BY <1>8, <2>1
<1> DEFINE some == {kernel(m) : m \in 1 .. N} \ {<<>>}
           P(n) == /\ built[n] \in T /\ Prefix(graph, built[n])
                   /\ \A m \in 1 .. n : kernel(m) # <<>> => Knows(built[n], kernel(m))
                   /\ OnlyAdds(graph, built[n], some)
           K == {n \in 0 .. N : P(n)}
<1>11. \A x \in T : x \in Seq(GraphState(g, mode))
  BY DEF T, Graphs
<1>12. P(0)
  <2>1. 1 .. 0 = {} /\ Prefix(graph, graph) /\ OnlyAdds(graph, graph, some)
    BY <1>4, <1>11 DEF Prefix, OnlyAdds
  <2> HIDE DEF some
  <2> QED BY <1>4, <1>10, <2>1
<1>13. ASSUME NEW n \in 1 .. N, P(n - 1) PROVE P(n)
  <2> DEFINE old == built[n - 1]
             new == built[n]
  <2>1. /\ old \in T /\ new \in T /\ Prefix(graph, old) /\ Prefix(old, new)
        /\ kernel(n) # <<>> => Knows(new, kernel(n))
        /\ OnlyAdds(old, new, {kernel(n)} \ {<<>>}) /\ OnlyAdds(graph, old, some)
    BY <1>3, <1>10, <1>13
  <2>2. \A m \in 1 .. n - 1 : kernel(m) # <<>> => Knows(old, kernel(m))
    BY <1>13
  <2> HIDE DEF old, new
  <2>3. Prefix(graph, new) /\ (\A k : Knows(old, k) => Knows(new, k))
        /\ \A j \in DOMAIN old : new[j] = old[j]
    <3> DEFINE S == GraphState(g, mode)
    <3>1. graph \in Seq(S) /\ old \in Seq(S) /\ new \in Seq(S)
      BY <1>4, <1>11, <2>1
    <3> HIDE DEF S
    <3> QED BY <2>1, <3>1, PrefixKeeps DEF Prefix
  <2>4. \A m \in 1 .. n : m = n \/ m \in 1 .. n - 1
    BY <1>1
  <2>5. OnlyAdds(graph, new, some)
    <3>1. {kernel(n)} \ {<<>>} \subseteq some
      OBVIOUS
    <3> HIDE DEF some
    <3> QED BY <2>1, <2>3, <3>1 DEF OnlyAdds
  <2> HIDE DEF some
  <2> QED BY <2>1, <2>2, <2>3, <2>4, <2>5 DEF new
<1>14. P(N)
  <2>1. 0 \in K /\ \A n \in 1 .. N : n - 1 \in K => n \in K
    <3> HIDE DEF P
    <3> QED BY <1>1, <1>12, <1>13
  <2>2. \A n \in 0 .. N : n \in K
    <3> HIDE DEF K
    <3> QED BY <1>1, <2>1, Induction
  <2>3. N \in 0 .. N
    BY <1>1
  <2> HIDE DEF P
  <2> QED BY <2>2, <2>3
<1>15. \A X \in Elements(g.symbols) :
            ShiftKernel(g, graph[i].items, X) # <<>> => Knows(all, ShiftKernel(g, graph[i].items, X))
  <2> SUFFICES ASSUME NEW n \in 1 .. N, kernel(n) # <<>> PROVE Knows(all, kernel(n))
    BY <1>1 DEF Elements, kernel
  <2> QED BY <1>14
<1> DEFINE shifts == {ShiftKernel(g, graph[i].items, X) :
                X \in {Y \in Elements(g.symbols) : ShiftKernel(g, graph[i].items, Y) # <<>>}}
<1>16. OnlyAdds(graph, all, shifts)
  <2>1. \A n \in 1 .. N : g.symbols[n] \in Elements(g.symbols)
    BY <1>1 DEF Elements
  <2>2. some \subseteq shifts
    BY <2>1 DEF kernel
  <2>3. OnlyAdds(graph, all, some)
    BY <1>14
  <2> HIDE DEF some, shifts, all
  <2> QED BY <2>2, <2>3 DEF OnlyAdds
<1>17. HasAll(g, graph, i, all, BuildAtState(g, graph, i, mode))
  <2> HIDE DEF all
  <2> QED BY <1>9, <1>14, <1>15, <1>16 DEF HasAll, all
<1> QED BY <1>14, <1>17 DEF T

LEMMA BuildIs ==
    ASSUME NEW g, IsInput(g), NEW mode \in {"LR0", "LR1"}, NEW graph \in Graphs(g, mode), NEW i \in DOMAIN graph,
           NEW new, new = BuildAtState(g, graph, i, mode)
    PROVE  /\ new \in Graphs(g, mode) /\ Len(graph) <= Len(new)
           /\ \A j \in DOMAIN graph : /\ new[j].kernel = graph[j].kernel /\ new[j].items = graph[j].items
                                      /\ j # i => new[j].children = graph[j].children
           /\ Linked(g, new, i)
           /\ \A j \in DOMAIN new : j \in DOMAIN graph \/
                \E X \in Awaited(g, graph[i].items) : Elements(new[j].kernel) = Moved(g, graph[i].items, X)
<1> DEFINE items == graph[i].items
           kernel(X) == ShiftKernel(g, items, X)
           shifted == {X \in Elements(g.symbols) : kernel(X) # <<>>}
           contexts == OpenedContexts(g, items)
           S == GraphState(g, mode)
<1>0. PICK all \in Graphs(g, mode) : HasAll(g, graph, i, all, new)
  BY AllStates
<1>1. /\ Prefix(graph, all)
      /\ \A X \in Elements(g.symbols) : kernel(X) # <<>> => Knows(all, kernel(X))
      /\ OnlyAdds(graph, all, {kernel(X) : X \in shifted})
      /\ new = [all EXCEPT ![i].children = [X \in shifted |-> StateFor(all, kernel(X))],
                           ![i].contexts = contexts]
  BY <1>0 DEF HasAll
<1> DEFINE children == [X \in shifted |-> StateFor(all, kernel(X))]
           state == [all[i] EXCEPT !.children = children, !.contexts = contexts]
<1>2. /\ graph \in Seq(S) /\ all \in Seq(S) /\ Len(graph) \in Nat /\ DOMAIN graph = 1 .. Len(graph)
      /\ Len(all) \in Nat /\ DOMAIN all = 1 .. Len(all)
      /\ \A j, k \in DOMAIN all : Elements(all[j].kernel) = Elements(all[k].kernel) => j = k
  BY DEF Graphs
<1>3. DOMAIN graph \subseteq DOMAIN all /\ all[i] = graph[i] /\ all[i] \in S
  BY <1>1, <1>2 DEF Prefix
<1>4. items \in Seq(Exact(g, mode)) /\ items \in Items(g) /\ items = Closure(g, graph[i].kernel, mode)
      /\ \A x \in Elements(items) : x \in ItemType(g)
  <2>1. items \in Seq(Exact(g, mode)) /\ Exact(g, mode) \subseteq ItemType(g) /\ items = Closure(g, graph[i].kernel, mode)
    BY GraphItems DEF Exact
  <2> HIDE DEF items
  <2>2. items \in Items(g)
    BY <2>1 DEF Items
  <2> QED BY <2>1, <2>2 DEF Elements
<1> HIDE DEF items
<1>5. \A X : kernel(X) \in Kernels(g, mode) /\ Elements(kernel(X)) = Moved(g, items, X)
  BY <1>4, ShiftKernelIs
<1>6. \A X : kernel(X) # <<>> <=> \E y \in Elements(items) : IsBefore(g, y, X)
  <2> SUFFICES ASSUME NEW X PROVE kernel(X) # <<>> <=> \E y \in Elements(items) : IsBefore(g, y, X)
    OBVIOUS
  <2> DEFINE k == kernel(X)
  <2>1. k \in Seq(Exact(g, mode)) /\ Elements(k) = Moved(g, items, X)
    BY <1>5 DEF Kernels
  <2> HIDE DEF k
  <2>2. k # <<>> <=> Elements(k) # {}
    BY <2>1 DEF Elements
  <2> QED BY <2>1, <2>2 DEF k, Moved
<1> HIDE DEF kernel
<1>7. shifted = Awaited(g, items)
  <2>1. ASSUME NEW X \in shifted PROVE X \in Awaited(g, items)
    BY <1>6 DEF Awaited, IsBefore
  <2>2. ASSUME NEW y \in Elements(items), ~ IsReduce(g, y) PROVE NextSymbol(g, y) \in shifted
    <3>1. NextSymbol(g, y) \in Elements(g.symbols)
      BY <1>4, <2>2, ItemShape
    <3> QED BY <1>6, <2>2, <3>1 DEF IsBefore
  <2> QED BY <2>1, <2>2 DEF Awaited
<1>8. \A X \in shifted : /\ children[X] \in DOMAIN all
                         /\ Elements(all[children[X]].kernel) = Moved(g, items, X)
  <2> SUFFICES ASSUME NEW X \in shifted
               PROVE  /\ StateFor(all, kernel(X)) \in DOMAIN all
                      /\ Elements(all[StateFor(all, kernel(X))].kernel) = Moved(g, items, X)
    OBVIOUS
  <2>1. Knows(all, kernel(X))
    BY <1>1
  <2> QED BY <1>5, <2>1, StateForIs
<1>9. shifted \subseteq SymbolsOf(g)
  BY DEF SymbolsOf, Elements
<1>10. DOMAIN children = shifted /\ children \in UNION {[D -> Nat \ {0}] : D \in SUBSET SymbolsOf(g)}
  <2>1. \A X \in shifted : children[X] \in Nat \ {0}
    BY <1>2, <1>8
  <2>2. children \in [shifted -> Nat \ {0}]
    <3> HIDE DEF shifted
    <3>1. children = [X \in shifted |-> children[X]] /\ DOMAIN children = shifted
      OBVIOUS
    <3> HIDE DEF children
    <3> QED BY <2>1, <3>1
  <2> HIDE DEF children, shifted
  <2> QED BY <1>9, <2>2
<1> HIDE DEF children, shifted
<1>11. contexts \in UNION {[D -> SUBSET Nat] : D \in SUBSET Marks(g)}
  BY <1>4, ContextsShape
<1> HIDE DEF contexts
<1>12. state \in S /\ state.kernel = graph[i].kernel /\ state.items = items /\ state.children = children
  BY <1>3, <1>4, <1>10, <1>11 DEF GraphState, State, items
<1>13. new = [all EXCEPT ![i] = state]
  BY <1>1 DEF children
<1> HIDE DEF state, S
<1>14. /\ new \in Seq(S) /\ DOMAIN new = DOMAIN all /\ Len(new) = Len(all) /\ new[i] = state
       /\ \A j \in DOMAIN all : j # i => new[j] = all[j]
  BY <1>2, <1>3, <1>12, <1>13
<1>15. \A j \in DOMAIN all : new[j].kernel = all[j].kernel
  BY <1>3, <1>12, <1>14
<1>16. new \in Graphs(g, mode)
  BY <1>2, <1>14, <1>15 DEF Graphs, S
<1>17. \A j \in DOMAIN graph : /\ new[j].kernel = graph[j].kernel /\ new[j].items = graph[j].items
                               /\ j # i => new[j].children = graph[j].children
  BY <1>1, <1>3, <1>12, <1>14 DEF Prefix, items
<1>18. Linked(g, new, i)
  <2>1. new[i].items = items /\ new[i].children = children
    BY <1>12, <1>14
  <2> QED BY <1>7, <1>8, <1>10, <1>14, <1>15, <2>1 DEF Linked
<1>19. Len(graph) <= Len(new)
  BY <1>1, <1>14 DEF Prefix
<1>20. ASSUME NEW j \in DOMAIN new, j \notin DOMAIN graph
       PROVE  \E X \in Awaited(g, graph[i].items) : Elements(new[j].kernel) = Moved(g, graph[i].items, X)
  <2>1. PICK X \in shifted : Elements(all[j].kernel) = Elements(kernel(X))
    BY <1>1, <1>14, <1>20 DEF OnlyAdds
  <2> QED BY <1>5, <1>7, <1>14, <1>15, <2>1 DEF items
<1> QED BY <1>16, <1>17, <1>18, <1>19, <1>20
-----------------------------------------------------------------------------
(***************************************************************************)
(* The graph: its items, its states and its kernels keep their shape.      *)
(***************************************************************************)
\* What starts a link of the propagation table is an item of a kernel.
IsTable(all) ==
    \E S : /\ all \in Seq(S)
           /\ \A link \in S : /\ link[1][1] \in DOMAIN kernels
                              /\ link[1][2] \in DOMAIN kernels[link[1][1]]

GraphInv ==
    /\ phase \in {"prepare", "graph"} => kernels = <<>> /\ table = <<>>
    /\ phase # "prepare" =>
        /\ phase \in {"graph", "table", "propagate", "close", "reductions", "done", "returned"}
        /\ IsInput(grammar)
        /\ method \in Methods
        /\ at \in Nat \ {0}
        /\ states \in Seq(State(grammar)) /\ Len(states) > 0
        /\ kernels \in Seq(Items(grammar))
        /\ IsTable(table)
        /\ phase \in {"table", "propagate", "close"} => Len(kernels) = Len(states)
        /\ phase \in {"table", "close", "reductions"} => at \in DOMAIN states
        /\ phase = "graph" => states \in Graphs(grammar, GraphMode)

LEMMA GraphModes == GraphMode \in {"LR0", "LR1"}
BY DEF GraphMode, GraphModeOf

LEMMA GraphsShape ==
    ASSUME NEW g, NEW mode, NEW graph \in Graphs(g, mode)
    PROVE  graph \in Seq(State(g))
<1> DEFINE S == GraphState(g, mode)
<1>1. graph \in Seq(S) /\ S \subseteq State(g)
  BY DEF Graphs, GraphState
<1> HIDE DEF S
<1> QED BY <1>1

LEMMA BuildStateShape ==
    ASSUME GraphInv, BuildState
    PROVE  GraphInv'
<1>1. /\ phase = "graph" /\ phase' = "graph" /\ at \in DOMAIN states /\ at' = at + 1
      /\ states' = BuildAtState(grammar, states, at, GraphMode)
      /\ UNCHANGED <<grammar, method, kernels, table>>
  BY DEF BuildState
<1>2. /\ IsInput(grammar) /\ method \in Methods /\ at \in Nat \ {0} /\ states \in Seq(State(grammar))
      /\ kernels = <<>> /\ table = <<>>
  BY <1>1 DEF GraphInv
<1>3. /\ states' \in Graphs(grammar, GraphMode) /\ states' \in Seq(State(grammar))
      /\ Len(states) <= Len(states')
  <2>1. states \in Graphs(grammar, GraphMode)
    BY <1>1 DEF GraphInv
  <2>2. states' \in Graphs(grammar, GraphMode) /\ Len(states) <= Len(states')
    BY <1>1, <1>2, <2>1, GraphModes, BuildIs
  <2> QED BY <2>2, GraphsShape
<1>4. Len(states') > 0
  BY <1>1, <1>2, <1>3
<1>7. GraphMode' = GraphMode
  BY <1>1 DEF GraphMode
<1>5. kernels' \in Seq(Items(grammar'))
  BY <1>1, <1>2
<1>6. IsTable(table)'
  <2>1. table' = <<>>
    BY <1>1, <1>2
  <2> QED BY <2>1 DEF IsTable
<1> QED BY <1>1, <1>2, <1>3, <1>4, <1>5, <1>6, <1>7 DEF GraphInv

LEMMA GraphBuiltShape ==
    ASSUME GraphInv, GraphBuilt
    PROVE  GraphInv'
<1>1. /\ phase = "graph" /\ phase' \in {"table", "reductions"} /\ at' = 1
      /\ phase' = "table" => IsLALR
      /\ UNCHANGED <<grammar, method, states, table>>
  BY DEF GraphBuilt, Goto
<1>2. kernels' = IF IsLALR
                 THEN [i \in DOMAIN states |-> IF i = 1 THEN AxiomKernel(grammar, {Epsilon})
                                                        ELSE states[i].kernel]
                 ELSE kernels
  BY DEF GraphBuilt
<1>3. /\ IsInput(grammar) /\ method \in Methods /\ states \in Seq(State(grammar)) /\ Len(states) > 0
      /\ kernels = <<>> /\ table = <<>>
  BY <1>1 DEF GraphInv
<1>4. AxiomKernel(grammar, {Epsilon}) \in Items(grammar)
  <2>1. {Epsilon} \in SUBSET Marks(grammar)
    BY DEF Marks
  <2> QED BY <1>3, <2>1, AxiomShape
<1>5. \A i \in DOMAIN states : states[i].kernel \in Items(grammar)
  <2> SUFFICES ASSUME NEW i \in DOMAIN states PROVE states[i].kernel \in Items(grammar)
    OBVIOUS
  <2>1. states[i] \in State(grammar)
    BY <1>3
  <2> QED BY <2>1 DEF State
<1>6. kernels' \in Seq(Items(grammar)) /\ (IsLALR => Len(kernels') = Len(states))
  <2> DEFINE K == Items(grammar)
  <2>1. DOMAIN states = 1 .. Len(states) /\ Len(states) \in Nat
    BY <1>3
  <2>2. CASE ~ IsLALR
    <3>1. kernels' = <<>>
      BY <1>2, <1>3, <2>2
    <3> QED BY <2>2, <3>1
  <2>3. CASE IsLALR
    <3>1. kernels' = [i \in 1 .. Len(states) |-> IF i = 1 THEN AxiomKernel(grammar, {Epsilon})
                                                          ELSE states[i].kernel]
      BY <1>2, <2>1, <2>3
    <3>2. \A i \in 1 .. Len(states) : kernels'[i] \in K
      BY <1>4, <1>5, <2>1, <3>1
    <3>3. kernels' = [i \in 1 .. Len(states) |-> kernels'[i]]
      BY <3>1
    <3> HIDE DEF K
    <3>4. kernels' \in Seq(K) /\ Len(kernels') = Len(states)
      BY <2>1, <3>2, <3>3, IsSequence
    <3> QED BY <3>4 DEF K
  <2> QED BY <2>2, <2>3
<1>7. 1 \in DOMAIN states
  BY <1>3
<1>8. IsTable(table)'
  <2>1. table' = <<>>
    BY <1>1, <1>3
  <2> QED BY <2>1 DEF IsTable
<1> QED BY <1>1, <1>3, <1>6, <1>7, <1>8 DEF GraphInv

LEMMA LinksShape ==
    ASSUME IsInput(grammar), kernels \in Seq(Items(grammar)), NEW i \in DOMAIN kernels
    PROVE  /\ IsFiniteSet(Links(i))
           /\ \A link \in Links(i) : /\ \E n \in DOMAIN kernels[i] : link.from = <<i, n>>
                                     /\ link.lookaheads \subseteq Marks(grammar)
<1> DEFINE kernel == kernels[i]
           dummy(n) == Item(kernel[n].rule, kernel[n].position, {Dummy})
           closure(n) == IntoState(grammar, <<dummy(n)>>, "LR1").items
           moved(n) == {e \in Elements(closure(n)) : ~ IsReduce(grammar, e)}
           link(n, d) == LET child == states[i].children[NextSymbol(grammar, d)]
                         IN [from |-> <<i, n>>,
                             to |-> <<child, CHOOSE k \in DOMAIN kernels[child] :
                                          SameBase(kernels[child][k], Child(d))>>,
                             lookaheads |-> d.lookaheads]
           from(n) == {link(n, d) : d \in moved(n)}
<1>1. kernel \in Items(grammar) /\ Len(kernel) \in Nat /\ DOMAIN kernel = 1 .. Len(kernel)
  BY DEF Items
<1>2. ASSUME NEW n \in DOMAIN kernel PROVE closure(n) \in Items(grammar)
  <2>1. kernel[n] \in ItemType(grammar)
    BY <1>1 DEF Items
  <2>2. dummy(n) \in ItemType(grammar)
    BY <2>1 DEF ItemType, Item, Marks
  <2> HIDE DEF dummy
  <2>3. <<dummy(n)>> \in Items(grammar)
    BY <2>2 DEF Items
  <2>4. IntoState(grammar, <<dummy(n)>>, "LR1") \in State(grammar)
    BY <2>3, IntoStateShape DEF Modes
  <2> QED BY <2>4 DEF State
<1>3. ASSUME NEW n \in DOMAIN kernel
      PROVE  IsFiniteSet(from(n)) /\ \A l \in from(n) : l.from = <<i, n>> /\ l.lookaheads \subseteq Marks(grammar)
  <2>1. closure(n) \in Seq(ItemType(grammar))
    BY <1>2 DEF Items
  <2> DEFINE places == 1 .. Len(closure(n))
             f == [k \in places |-> closure(n)[k]]
             h == [d \in moved(n) |-> link(n, d)]
  <2>2. IsFiniteSet(moved(n))
    <3>1. Len(closure(n)) \in Nat /\ DOMAIN closure(n) = places
      BY <2>1
    <3>2. IsFiniteSet(places)
      <4> HIDE DEF closure
      <4> QED BY <3>1, FS_Interval
    <3>3. IsFiniteSet({f[k] : k \in places})
      <4> HIDE DEF places, f
      <4> QED BY <3>2, ImageFinite
    <3>4. moved(n) \in SUBSET {f[k] : k \in places}
      <4> HIDE DEF closure
      <4> QED BY <3>1 DEF Elements
    <3> DEFINE I == {f[k] : k \in places}
               M == moved(n)
    <3>5. IsFiniteSet(I) /\ M \in SUBSET I
      BY <3>3, <3>4
    <3> HIDE DEF I, M
    <3>6. IsFiniteSet(M)
      BY <3>5, FS_Subset
    <3> QED BY <3>6 DEF M
  <2>3. IsFiniteSet({h[d] : d \in moved(n)})
    <3> HIDE DEF moved, h
    <3> QED BY <2>2, ImageFinite
  <2>4. from(n) = {h[d] : d \in moved(n)}
    <3> HIDE DEF moved, link
    <3> QED OBVIOUS
  <2>5. \A d \in moved(n) : link(n, d).from = <<i, n>> /\ link(n, d).lookaheads = d.lookaheads
    <3> HIDE DEF moved
    <3> QED OBVIOUS
  <2>6. \A d \in moved(n) : d.lookaheads \subseteq Marks(grammar)
    <3> HIDE DEF closure
    <3>1. \A d \in moved(n) : d \in ItemType(grammar)
      BY <2>1 DEF Elements
    <3> QED BY <3>1 DEF ItemType
  <2> HIDE DEF moved, link, h
  <2> QED BY <2>3, <2>4, <2>5, <2>6
<1>4. Links(i) = UNION {from(n) : n \in DOMAIN kernel}
  BY DEF Links
<1> HIDE DEF from, kernel
<1>5. IsFiniteSet({from(n) : n \in DOMAIN kernel})
  <2> DEFINE D == DOMAIN kernel
             h == [n \in D |-> from(n)]
  <2>1. IsFiniteSet(D)
    BY <1>1, FS_Interval
  <2>2. {from(n) : n \in D} = {h[n] : n \in D}
    OBVIOUS
  <2> HIDE DEF D, h
  <2>3. IsFiniteSet({h[n] : n \in D})
    BY <2>1, ImageFinite
  <2> QED BY <2>2, <2>3 DEF D
<1>6. IsFiniteSet(UNION {from(n) : n \in DOMAIN kernel})
  <2> DEFINE All == {from(n) : n \in DOMAIN kernel}
  <2>1. \A T \in All : IsFiniteSet(T)
    BY <1>3
  <2>2. IsFiniteSet(All)
    BY <1>5
  <2> HIDE DEF All
  <2>3. IsFiniteSet(UNION All)
    BY <2>1, <2>2, FS_UNION
  <2> QED BY <2>3 DEF All
<1> QED BY <1>3, <1>4, <1>6 DEF kernel

\* Kernels that differ by the lookaheads only
LEMMA MoreLookaheads ==
    ASSUME kernels \in Seq(Items(grammar)), NEW more,
           \A i \in DOMAIN kernels : \A n \in DOMAIN kernels[i] : more[i][n] \in ItemType(grammar),
           NEW new, new = [i \in DOMAIN kernels |-> [n \in DOMAIN kernels[i] |-> more[i][n]]]
    PROVE  /\ new \in Seq(Items(grammar)) /\ Len(new) = Len(kernels) /\ DOMAIN new = DOMAIN kernels
           /\ \A i \in DOMAIN kernels : DOMAIN new[i] = DOMAIN kernels[i]
<1>1. Len(kernels) \in Nat /\ DOMAIN kernels = 1 .. Len(kernels)
  OBVIOUS
<1>2. \A i \in DOMAIN kernels : /\ kernels[i] \in Items(grammar) /\ Len(kernels[i]) \in Nat
                                /\ DOMAIN kernels[i] = 1 .. Len(kernels[i])
  BY DEF Items
<1>3. ASSUME NEW i \in DOMAIN kernels
      PROVE  new[i] \in Items(grammar) /\ DOMAIN new[i] = DOMAIN kernels[i]
  <2>1. new[i] = [n \in 1 .. Len(kernels[i]) |-> new[i][n]]
    BY <1>2
  <2>2. \A n \in 1 .. Len(kernels[i]) : new[i][n] \in ItemType(grammar)
    BY <1>2
  <2>3. new[i] \in Seq(ItemType(grammar)) /\ DOMAIN new[i] = 1 .. Len(kernels[i])
    BY <1>2, <2>1, <2>2, IsSequence
  <2> QED BY <1>2, <2>3 DEF Items
<1>4. new = [i \in 1 .. Len(kernels) |-> new[i]]
  BY <1>1
<1>5. new \in Seq(Items(grammar)) /\ Len(new) = Len(kernels)
  <2> DEFINE K == Items(grammar)
  <2>1. \A i \in 1 .. Len(kernels) : new[i] \in K
    BY <1>1, <1>3
  <2> HIDE DEF K
  <2>2. new \in Seq(K) /\ Len(new) = Len(kernels)
    BY <1>1, <1>4, <2>1, IsSequence
  <2> QED BY <2>2 DEF K
<1> QED BY <1>1, <1>3, <1>4, <1>5

LEMMA BuildTableShape ==
    ASSUME GraphInv, BuildTable
    PROVE  GraphInv'
<1> DEFINE links == Links(at)
           carried == {<<l.from, l.to>> : l \in {k \in links : Propagates(k)}}
           generated(place) == UNION {l.lookaheads : l \in {k \in links : k.to = place /\ ~ Propagates(k)}}
           more == [i \in DOMAIN kernels |-> [n \in DOMAIN kernels[i] |->
                       [kernels[i][n] EXCEPT !.lookaheads = @ \cup generated(<<i, n>>)]]]
<1>1. /\ phase = "table" /\ at \in DOMAIN kernels
      /\ UNCHANGED <<grammar, method, states, modified, conflicts>>
  BY DEF BuildTable
<1>2. table' = table \o Listed(carried)
  BY DEF BuildTable
<1>3. kernels' = [i \in DOMAIN kernels |-> [n \in DOMAIN kernels[i] |->
                       [kernels[i][n] EXCEPT !.lookaheads = @ \cup generated(<<i, n>>)]]]
  BY DEF BuildTable
<1>4. /\ phase' \in {"table", "propagate"} /\ at' \in {at + 1, 1}
      /\ phase' = "table" => at' = at + 1 /\ at + 1 \in DOMAIN kernels
  BY <1>1 DEF BuildTable, Goto
<1>5. /\ IsInput(grammar) /\ method \in Methods /\ at \in Nat \ {0}
      /\ states \in Seq(State(grammar)) /\ Len(states) > 0
      /\ kernels \in Seq(Items(grammar)) /\ Len(kernels) = Len(states)
  BY <1>1 DEF GraphInv
<1>6. /\ IsFiniteSet(links)
      /\ \A link \in links : /\ \E n \in DOMAIN kernels[at] : link.from = <<at, n>>
                             /\ link.lookaheads \subseteq Marks(grammar)
  BY <1>1, <1>5, LinksShape
<1> HIDE DEF links
<1>7. IsFiniteSet(carried)
  <2> DEFINE some == {k \in links : Propagates(k)}
             h == [l \in some |-> <<l.from, l.to>>]
  <2>1. IsFiniteSet(some)
    BY <1>6, FS_Subset
  <2>2. carried = {h[l] : l \in some}
    OBVIOUS
  <2> HIDE DEF some, h
  <2>3. IsFiniteSet({h[l] : l \in some})
    BY <2>1, ImageFinite
  <2> QED BY <2>2, <2>3
<1>8. \A link \in carried : link[1][1] = at /\ link[1][2] \in DOMAIN kernels[at]
  BY <1>6
<1> HIDE DEF carried
<1>9. \A place : generated(place) \subseteq Marks(grammar)
  BY <1>6
<1> HIDE DEF generated
<1>10. /\ kernels' \in Seq(Items(grammar)) /\ Len(kernels') = Len(kernels) /\ DOMAIN kernels' = DOMAIN kernels
       /\ \A i \in DOMAIN kernels : DOMAIN kernels'[i] = DOMAIN kernels[i]
  <2>1. ASSUME NEW i \in DOMAIN kernels, NEW n \in DOMAIN kernels[i]
        PROVE  more[i][n] \in ItemType(grammar)
    <3>1. kernels[i][n] \in ItemType(grammar)
      BY <1>5 DEF Items
    <3>2. more[i][n] = [kernels[i][n] EXCEPT !.lookaheads = @ \cup generated(<<i, n>>)]
      OBVIOUS
    <3>3. generated(<<i, n>>) \subseteq Marks(grammar)
      BY <1>9
    <3> HIDE DEF more
    <3> QED BY <3>1, <3>2, <3>3 DEF ItemType
  <2>2. kernels' = [i \in DOMAIN kernels |-> [n \in DOMAIN kernels[i] |-> more[i][n]]]
    BY <1>3
  <2> HIDE DEF more
  <2> QED BY <1>5, <2>1, <2>2, MoreLookaheads
<1>11. IsTable(table)'
  <2>1. PICK S : /\ table \in Seq(S)
                 /\ \A link \in S : /\ link[1][1] \in DOMAIN kernels
                                    /\ link[1][2] \in DOMAIN kernels[link[1][1]]
    BY <1>1 DEF GraphInv, IsTable
  <2>2. Listed(carried) \in Seq(carried)
    BY <1>7, Listing
  <2>3. table' \in Seq(S \cup carried)
    BY <1>2, <2>1, <2>2
  <2>4. \A link \in S \cup carried : /\ link[1][1] \in DOMAIN kernels'
                                     /\ link[1][2] \in DOMAIN kernels'[link[1][1]]
    BY <1>1, <1>8, <1>10, <2>1
  <2> QED BY <2>3, <2>4 DEF IsTable
<1>12. phase' = "table" => at' \in DOMAIN states
  BY <1>4, <1>5
<1>13. at' \in Nat \ {0}
  BY <1>4, <1>5
<1> QED BY <1>1, <1>4, <1>5, <1>10, <1>11, <1>12, <1>13 DEF GraphInv

LEMMA PropagateShape ==
    ASSUME GraphInv, Propagate
    PROVE  GraphInv'
<1> DEFINE from == table[at][1]
           to == table[at][2]
           more == [i \in DOMAIN kernels |-> [n \in DOMAIN kernels[i] |->
                        IF i = to[1] /\ n = to[2]
                        THEN [kernels[i][n] EXCEPT !.lookaheads = @ \cup kernels[from[1]][from[2]].lookaheads]
                        ELSE kernels[i][n]]]
<1>1. /\ phase = "propagate" /\ phase' = "propagate" /\ at \in DOMAIN table /\ at' = at + 1
      /\ kernels' = [kernels EXCEPT ![to[1]][to[2]].lookaheads = @ \cup kernels[from[1]][from[2]].lookaheads]
      /\ UNCHANGED <<grammar, method, states, table>>
  BY DEF Propagate
<1>2. /\ IsInput(grammar) /\ method \in Methods /\ at \in Nat \ {0}
      /\ states \in Seq(State(grammar)) /\ Len(states) > 0
      /\ kernels \in Seq(Items(grammar)) /\ Len(kernels) = Len(states)
  BY <1>1 DEF GraphInv
<1>3. PICK S : /\ table \in Seq(S)
               /\ \A link \in S : /\ link[1][1] \in DOMAIN kernels
                                  /\ link[1][2] \in DOMAIN kernels[link[1][1]]
  BY <1>1 DEF GraphInv, IsTable
<1>4. from[1] \in DOMAIN kernels /\ from[2] \in DOMAIN kernels[from[1]]
  BY <1>1, <1>3
<1>5. \A i \in DOMAIN kernels : \A n \in DOMAIN kernels[i] : kernels[i][n] \in ItemType(grammar)
  BY <1>2 DEF Items
<1> HIDE DEF from, to
<1>6. kernels[from[1]][from[2]].lookaheads \subseteq Marks(grammar)
  BY <1>4, <1>5 DEF ItemType
<1>7. /\ kernels' \in Seq(Items(grammar)) /\ Len(kernels') = Len(kernels) /\ DOMAIN kernels' = DOMAIN kernels
      /\ \A i \in DOMAIN kernels : DOMAIN kernels'[i] = DOMAIN kernels[i]
  <2> DEFINE la == kernels[from[1]][from[2]].lookaheads
  <2>1. ASSUME NEW i \in DOMAIN kernels, NEW n \in DOMAIN kernels[i]
        PROVE  more[i][n] \in ItemType(grammar)
    <3> HIDE DEF la
    <3>1. kernels[i][n] \in ItemType(grammar) /\ la \subseteq Marks(grammar)
      BY <1>5, <1>6 DEF la
    <3>2. more[i][n] \in {kernels[i][n], [kernels[i][n] EXCEPT !.lookaheads = @ \cup la]}
      BY DEF la
    <3> HIDE DEF more
    <3> QED BY <3>1, <3>2 DEF ItemType
  <2>2. kernels' = [i \in DOMAIN kernels |-> [n \in DOMAIN kernels[i] |-> more[i][n]]]
    <3> HIDE DEF la
    <3> DEFINE row(i) == [kernels[i] EXCEPT ![to[2]].lookaheads = @ \cup la]
    <3>1. kernels' = [i \in DOMAIN kernels |-> IF i = to[1] THEN row(i) ELSE kernels[i]]
      BY <1>1 DEF la
    <3>2. \A i \in DOMAIN kernels : kernels[i] = [n \in DOMAIN kernels[i] |-> kernels[i][n]]
      BY <1>2 DEF Items
    <3>3. \A i \in DOMAIN kernels :
            row(i) = [n \in DOMAIN kernels[i] |-> IF n = to[2] THEN [kernels[i][n] EXCEPT !.lookaheads = @ \cup la]
                                                               ELSE kernels[i][n]]
      OBVIOUS
    <3> HIDE DEF row
    <3>4. \A i \in DOMAIN kernels : kernels'[i] = [n \in DOMAIN kernels[i] |-> more[i][n]]
      BY <3>1, <3>2, <3>3 DEF la
    <3> QED BY <3>1, <3>4
  <2> HIDE DEF more
  <2> QED BY <1>2, <2>1, <2>2, MoreLookaheads
<1>8. IsTable(table)'
  <2>1. \A link \in S : /\ link[1][1] \in DOMAIN kernels'
                        /\ link[1][2] \in DOMAIN kernels'[link[1][1]]
    BY <1>3, <1>7
  <2> QED BY <1>1, <1>3, <2>1 DEF IsTable
<1> QED BY <1>1, <1>2, <1>7, <1>8 DEF GraphInv

LEMMA EndPassShape ==
    ASSUME GraphInv, EndPass
    PROVE  GraphInv'
<1>1. /\ phase = "propagate" /\ phase' \in {"close", "propagate"} /\ at' = 1
      /\ UNCHANGED <<grammar, method, states, kernels, table>>
  BY DEF EndPass, Goto
<1>2. states \in Seq(State(grammar)) /\ Len(states) > 0
  BY <1>1 DEF GraphInv
<1>3. 1 \in DOMAIN states
  BY <1>2
<1> QED BY <1>1, <1>3 DEF GraphInv, IsTable

LEMMA CloseStateShape ==
    ASSUME GraphInv, CloseState
    PROVE  GraphInv'
<1> DEFINE closed == IntoState(grammar, kernels[at], "LALR1")
           state == [closed EXCEPT !.children = states[at].children,
                                   !.contexts = states[at].contexts]
<1>1. /\ phase = "close" /\ UNCHANGED <<grammar, method, kernels, table>>
      /\ states' = [states EXCEPT ![at] = state]
  BY DEF CloseState, Reclosed
<1>2. /\ phase' \in {"close", "reductions"} /\ at' \in {at + 1, 1}
      /\ phase' = "close" => at' = at + 1 /\ at + 1 \in DOMAIN kernels
      /\ phase' = "reductions" => at' = 1
  BY <1>1 DEF CloseState, Goto
<1>3. /\ IsInput(grammar) /\ method \in Methods /\ at \in Nat \ {0}
      /\ states \in Seq(State(grammar)) /\ Len(states) > 0
      /\ kernels \in Seq(Items(grammar)) /\ Len(kernels) = Len(states) /\ at \in DOMAIN states
  BY <1>1 DEF GraphInv
<1>4. state \in State(grammar)
  <2>1. kernels[at] \in Items(grammar)
    BY <1>3
  <2>2. closed \in State(grammar)
    BY <1>3, <2>1, IntoStateShape DEF Modes
  <2>3. states[at] \in State(grammar)
    BY <1>3
  <2> HIDE DEF closed
  <2> QED BY <2>2, <2>3 DEF State
<1>5. states' \in Seq(State(grammar)) /\ Len(states') = Len(states) /\ DOMAIN states' = DOMAIN states
  <2> HIDE DEF state
  <2> QED BY <1>1, <1>3, <1>4
<1>6. at' \in DOMAIN states /\ at' \in Nat \ {0}
  BY <1>2, <1>3
<1>7. IsTable(table)'
  BY <1>1 DEF GraphInv, IsTable
<1> QED BY <1>1, <1>2, <1>3, <1>5, <1>6, <1>7 DEF GraphInv

\* The reduction of a candidate
ReductionOf(state, c) ==
    [terminal |-> c[2], rule |-> state.items[c[1]].rule, length |-> state.items[c[1]].position]

LEMMA BuildReductionsShape ==
    ASSUME GraphInv, BuildReductions
    PROVE  GraphInv'
<1> DEFINE reductions == {ReductionOf(states[at], c) :
                            c \in {d \in Candidate(states[at]) : Kept(states[at], d[1], d[2])}}
           state == [states[at] EXCEPT !.reductions = reductions]
<1>1. /\ phase = "reductions" /\ UNCHANGED <<grammar, method, kernels, table>>
      /\ states' = [states EXCEPT ![at] = state]
  BY DEF BuildReductions, ReductionOf
<1>2. /\ phase' \in {"reductions", "done"} /\ at' \in {at + 1, 1}
      /\ phase' = "reductions" => at' = at + 1 /\ at + 1 \in DOMAIN states
  BY <1>1 DEF BuildReductions, Goto
<1>3. /\ IsInput(grammar) /\ method \in Methods /\ at \in Nat \ {0}
      /\ states \in Seq(State(grammar)) /\ Len(states) > 0 /\ at \in DOMAIN states
  BY <1>1 DEF GraphInv
<1>4. states[at] \in State(grammar)
  BY <1>3
<1>5. reductions \in SUBSET [terminal : Terminal(grammar), rule : Nat, length : Nat]
  <2> SUFFICES ASSUME NEW c \in Candidate(states[at])
               PROVE  ReductionOf(states[at], c) \in [terminal : Terminal(grammar), rule : Nat, length : Nat]
    OBVIOUS
  <2>0. PICK n \in DOMAIN states[at].items : \E t : t \in LookaheadsOf(states[at].items[n]) /\ c = <<n, t>>
    BY DEF Candidate
  <2>1. PICK t : t \in LookaheadsOf(states[at].items[n]) /\ c = <<n, t>>
    BY <2>0
  <2>2. states[at].items[n] \in ItemType(grammar)
    BY <1>4 DEF State, Items
  <2>3. t \in Terminal(grammar)
    BY <2>1, <2>2 DEF LookaheadsOf, AnyTerminal, ItemType, Terminal
  <2>4. states[at].items[n].rule \in Nat /\ states[at].items[n].position \in Nat
    BY <2>2, <1>3, GrammarShape DEF ItemType
  <2> QED BY <2>1, <2>3, <2>4 DEF ReductionOf
<1> HIDE DEF reductions
<1>6. state \in State(grammar)
  BY <1>4, <1>5 DEF State
<1>7. states' \in Seq(State(grammar)) /\ Len(states') = Len(states) /\ DOMAIN states' = DOMAIN states
  <2> HIDE DEF state
  <2> QED BY <1>1, <1>3, <1>6
<1>8. phase' = "reductions" => at' \in DOMAIN states
  BY <1>2
<1>9. at' \in Nat \ {0}
  BY <1>2, <1>3
<1>10. IsTable(table)' /\ kernels' \in Seq(Items(grammar'))
  BY <1>1 DEF GraphInv, IsTable
<1> QED BY <1>1, <1>2, <1>3, <1>7, <1>8, <1>9, <1>10 DEF GraphInv


LEMMA ConstructShape ==
    ASSUME GraphInv, Construct
    PROVE  GraphInv'
BY BuildStateShape, GraphBuiltShape, BuildTableShape, PropagateShape, EndPassShape, CloseStateShape,
   BuildReductionsShape DEF Construct
-----------------------------------------------------------------------------
(***************************************************************************)
(* The table.                                                              *)
(***************************************************************************)
\* What TableSound says of a state, by values
LookaheadsIn(m, item) == IF m = "LR0" THEN {AnyTerminal} ELSE item.lookaheads
ShiftsIn(m, state, t) == IF m = "LR0" THEN DOMAIN state.children # {} ELSE t \in DOMAIN state.children

ReducedIn(g, state) == {x \in Elements(state.items) : IsReduce(g, x)}
RulesOn(g, m, state, t) == {x.rule : x \in {y \in ReducedIn(g, state) : t \in LookaheadsIn(m, y)}}

SoundFor(g, m, state) ==
    \A t \in UNION {LookaheadsIn(m, x) : x \in ReducedIn(g, state)} :
        /\ Cardinality(RulesOn(g, m, state, t)) = 1
        /\ ~ ShiftsIn(m, state, t)
        /\ {r.rule : r \in {q \in state.reductions : q.terminal = t}} = RulesOn(g, m, state, t)

\* As long as no conflict is raised, the states that have their reductions are sound.
SoundInv ==
    conflicts = {} /\ ~ IsRNGLR =>
        /\ phase = "reductions" => \A i \in 1 .. at - 1 : SoundFor(grammar, method, states[i])
        /\ phase = "done" => \A i \in DOMAIN states : SoundFor(grammar, method, states[i])

LEMMA SoundState ==
    ASSUME NEW s, s.items \in Items(grammar), ~ IsRNGLR,
           \A c \in Candidate(s) : ConflictKinds(s, c[1], c[2]) = {},
           NEW state, state.items = s.items, state.children = s.children,
           state.reductions = {ReductionOf(s, c) : c \in Candidate(s)}
    PROVE  SoundFor(grammar, method, state)
<1>1. /\ \A x : LookaheadsIn(method, x) = LookaheadsOf(x)
      /\ \A t : ShiftsIn(method, state, t) = Shifts(s, t)
      /\ ReducedIn(grammar, state) = {x \in Elements(s.items) : IsReduce(grammar, x)}
  BY DEF LookaheadsIn, LookaheadsOf, ShiftsIn, Shifts, ReducedIn
<1>2. DOMAIN s.items = 1 .. Len(s.items) /\ Len(s.items) \in Nat
  BY DEF Items
<1>3. ASSUME NEW n \in DOMAIN s.items, NEW t
      PROVE  <<n, t>> \in Candidate(s) <=> IsReduce(grammar, s.items[n]) /\ t \in LookaheadsOf(s.items[n])
  BY DEF Candidate, Reduces
<1>4. \A c \in Candidate(s) : \E n \in DOMAIN s.items : \E t : c = <<n, t>>
  BY DEF Candidate
<1>5. ASSUME NEW n \in DOMAIN s.items, NEW m \in DOMAIN s.items, NEW t,
             <<n, t>> \in Candidate(s), <<m, t>> \in Candidate(s)
      PROVE  ~ Shifts(s, t) /\ ~ m < n
  <2>1. ConflictKinds(s, n, t) = {}
    <3>1. <<n, t>>[1] = n /\ <<n, t>>[2] = t
      OBVIOUS
    <3> QED BY <1>5, <3>1
  <2>2. ~ Shifts(s, t)
    BY <2>1 DEF ConflictKinds
  <2>3. ~ Taken(s, n, t)
    BY <2>1, <2>2 DEF ConflictKinds
  <2>4. ~ m < n
    BY <1>2, <1>5, <2>3 DEF Taken
  <2> QED BY <2>2, <2>4
<1>6. ASSUME NEW n \in DOMAIN s.items, NEW t, <<n, t>> \in Candidate(s)
      PROVE  /\ ~ Shifts(s, t)
             /\ RulesOn(grammar, method, state, t) = {s.items[n].rule}
             /\ {r.rule : r \in {q \in state.reductions : q.terminal = t}} = {s.items[n].rule}
  <2>1. \A m \in DOMAIN s.items : <<m, t>> \in Candidate(s) => m = n
    BY <1>2, <1>5, <1>6
  <2>2. RulesOn(grammar, method, state, t) = {s.items[n].rule}
    <3>1. \A x \in ReducedIn(grammar, state) : t \in LookaheadsOf(x) => x = s.items[n]
      BY <1>1, <1>3, <2>1 DEF Elements
    <3>2. s.items[n] \in ReducedIn(grammar, state) /\ t \in LookaheadsOf(s.items[n])
      BY <1>1, <1>3, <1>6 DEF Elements
    <3> QED BY <1>1, <3>1, <3>2 DEF RulesOn
  <2>3. \A r \in state.reductions : r.terminal = t => r.rule = s.items[n].rule
    <3> SUFFICES ASSUME NEW c \in Candidate(s), ReductionOf(s, c).terminal = t
                 PROVE  ReductionOf(s, c).rule = s.items[n].rule
      OBVIOUS
    <3>0. PICK m \in DOMAIN s.items : \E u : c = <<m, u>>
      BY <1>4
    <3>1. PICK u : c = <<m, u>>
      BY <3>0
    <3>2. u = t /\ ReductionOf(s, c).rule = s.items[m].rule
      BY <3>1 DEF ReductionOf
    <3> QED BY <2>1, <3>1, <3>2
  <2>4. \E r \in state.reductions : r.terminal = t /\ r.rule = s.items[n].rule
    <3>1. ReductionOf(s, <<n, t>>) \in state.reductions
      BY <1>6
    <3>2. ReductionOf(s, <<n, t>>).terminal = t /\ ReductionOf(s, <<n, t>>).rule = s.items[n].rule
      BY DEF ReductionOf
    <3> QED BY <3>1, <3>2
  <2> HIDE DEF ReductionOf
  <2>5. {r.rule : r \in {q \in state.reductions : q.terminal = t}} = {s.items[n].rule}
    BY <2>3, <2>4
  <2> QED BY <1>5, <1>6, <2>2, <2>5
<1>7. ASSUME NEW t \in UNION {LookaheadsIn(method, x) : x \in ReducedIn(grammar, state)}
      PROVE  \E n \in DOMAIN s.items : <<n, t>> \in Candidate(s)
  BY <1>1, <1>3 DEF Elements
<1> SUFFICES ASSUME NEW t \in UNION {LookaheadsIn(method, x) : x \in ReducedIn(grammar, state)}
             PROVE  /\ Cardinality(RulesOn(grammar, method, state, t)) = 1
                    /\ ~ ShiftsIn(method, state, t)
                    /\ {r.rule : r \in {q \in state.reductions : q.terminal = t}} = RulesOn(grammar, method, state, t)
  BY DEF SoundFor
<1>8. PICK n \in DOMAIN s.items : <<n, t>> \in Candidate(s)
  BY <1>7
<1>9. Cardinality({s.items[n].rule}) = 1
  BY FS_Singleton
<1> QED BY <1>1, <1>6, <1>8, <1>9

LEMMA BuildReductionsSound ==
    ASSUME GraphInv, SoundInv, BuildReductions
    PROVE  SoundInv'
<1> DEFINE s == states[at]
           reductions == {ReductionOf(s, c) : c \in {d \in Candidate(s) : Kept(s, d[1], d[2])}}
           state == [s EXCEPT !.reductions = reductions]
<1> SUFFICES ASSUME conflicts' = {}, ~ IsRNGLR
             PROVE  /\ phase' = "reductions" => \A i \in 1 .. at' - 1 : SoundFor(grammar, method, states'[i])
                    /\ phase' = "done" => \A i \in DOMAIN states' : SoundFor(grammar, method, states'[i])
  BY DEF BuildReductions, SoundInv, IsRNGLR
<1>1. phase = "reductions" /\ states' = [states EXCEPT ![at] = state]
  BY DEF BuildReductions, ReductionOf
<1>2. /\ phase' = "reductions" => at' = at + 1
      /\ phase' = "done" => at + 1 \notin DOMAIN states
  BY <1>1 DEF BuildReductions, Goto
<1>3. at \in Nat \ {0} /\ at \in DOMAIN states /\ states \in Seq(State(grammar))
  BY <1>1 DEF GraphInv
<1>4. conflicts = {}
  BY DEF BuildReductions
<1>5. \A i \in 1 .. at - 1 : SoundFor(grammar, method, states[i])
  BY <1>1, <1>4 DEF SoundInv
<1>6. \A c \in Candidate(s) : ConflictKinds(s, c[1], c[2]) = {}
  <2> SUFFICES ASSUME NEW c \in Candidate(s), NEW kind \in ConflictKinds(s, c[1], c[2]) PROVE FALSE
    OBVIOUS
  <2>1. ~ Raised(kind, c[2])
    BY <1>4 DEF Raised
  <2>2. [kind |-> kind, terminal |-> c[2], state |-> at] \in conflicts'
    BY <2>1 DEF BuildReductions
  <2> QED BY <2>2
<1>7. s \in State(grammar)
  BY <1>3
<1>8. reductions = {ReductionOf(s, c) : c \in Candidate(s)}
  <2>1. \A c \in Candidate(s) : Kept(s, c[1], c[2])
    BY <1>6 DEF Kept
  <2> QED BY <2>1
<1> HIDE DEF reductions
<1>9. state.items = s.items /\ state.children = s.children /\ state.reductions = reductions
  BY <1>7 DEF State
<1> HIDE DEF state
<1>10. SoundFor(grammar, method, state)
  <2>1. s.items \in Items(grammar)
    BY <1>7 DEF State
  <2> HIDE DEF s
  <2> QED BY <1>6, <1>8, <1>9, <2>1, SoundState
<1>11. states'[at] = state /\ DOMAIN states' = DOMAIN states /\ \A i \in 1 .. at - 1 : states'[i] = states[i]
  BY <1>1, <1>3
<1>12. \A i \in 1 .. at : SoundFor(grammar, method, states'[i])
  <2> SUFFICES ASSUME NEW i \in 1 .. at PROVE SoundFor(grammar, method, states'[i])
    OBVIOUS
  <2>1. i = at \/ i \in 1 .. at - 1
    BY <1>3
  <2> QED BY <1>5, <1>10, <1>11, <2>1
<1>13. phase' = "reductions" => at' - 1 = at
  BY <1>2, <1>3
<1>14. phase' = "done" => DOMAIN states = 1 .. at
  BY <1>2, <1>3
<1> QED BY <1>11, <1>12, <1>13, <1>14

LEMMA ConstructSound ==
    ASSUME GraphInv, SoundInv, Construct
    PROVE  SoundInv'
<1>1. CASE BuildReductions
  BY <1>1, BuildReductionsSound
<1>2. CASE BuildState \/ GraphBuilt \/ BuildTable \/ Propagate \/ EndPass \/ CloseState
  <2>1. phase' # "done" /\ (phase' = "reductions" => at' = 1)
    BY <1>2 DEF BuildState, GraphBuilt, BuildTable, Propagate, EndPass, CloseState, Goto
  <2> QED BY <2>1 DEF SoundInv
<1> QED BY <1>1, <1>2 DEF Construct

\* The same, as TableSound has it
SoundHere(s) ==
    LET reduced == {x \in Elements(s.items) : IsReduce(grammar, x)}
        on(t) == {x.rule : x \in {y \in reduced : t \in LookaheadsOf(y)}}
    IN \A t \in UNION {LookaheadsOf(x) : x \in reduced} :
        /\ Cardinality(on(t)) = 1
        /\ ~ Shifts(s, t)
        /\ {r.rule : r \in {q \in s.reductions : q.terminal = t}} = on(t)

LEMMA SoundTable ==
    ASSUME SoundInv
    PROVE  TableSound
<1>1. ASSUME NEW s, SoundFor(grammar, method, s) PROVE SoundHere(s)
  BY <1>1 DEF SoundFor, RulesOn, ReducedIn, ShiftsIn, LookaheadsIn, SoundHere, Shifts, LookaheadsOf
<1>2. phase = "done" /\ ~ IsRNGLR /\ conflicts = {} => \A s \in Elements(states) : SoundHere(s)
  BY <1>1 DEF SoundInv, Elements
<1> QED BY <1>2 DEF TableSound, SoundHere
-----------------------------------------------------------------------------
(***************************************************************************)
(* The transitions.  They are stated on the bases, that do not change when *)
(* the lookaheads do.                                                      *)
(***************************************************************************)
IsLast(g, b) == b[2] = Len(BodyOf(g, b[1]))
AfterBase(g, b) == BodyOf(g, b[1])[b[2] + 1]

AwaitedOf(g, B) == {AfterBase(g, b) : b \in {c \in B : ~ IsLast(g, c)}}
MovedOf(g, B, X) == {<<b[1], b[2] + 1>> : b \in {c \in B : ~ IsLast(g, c) /\ AfterBase(g, c) = X}}

Automaton(g, graph) ==
    \A i \in DOMAIN graph :
        /\ DOMAIN graph[i].children = AwaitedOf(g, Bases(graph[i].items))
        /\ \A X \in DOMAIN graph[i].children :
            /\ graph[i].children[X] \in DOMAIN graph
            /\ Bases(graph[graph[i].children[X]].kernel) = MovedOf(g, Bases(graph[i].items), X)

\* The items are those that the kernel brings, and no base of kernel comes twice.
ClosedGraph(g, graph) ==
    /\ \A i \in DOMAIN graph : Bases(graph[i].items) = ClosedBases(g, Bases(graph[i].kernel))
    /\ \A i, j \in DOMAIN graph : Bases(graph[i].kernel) = Bases(graph[j].kernel) => i = j

LinkedTo(g, graph, until) == \A i \in DOMAIN graph : i < until => Linked(g, graph, i)

NoTwins(graph) == \A i, j \in DOMAIN graph : Elements(graph[i].kernel) = Elements(graph[j].kernel) => i = j

SameBases(some, others) == \A i \in DOMAIN others : Bases(some[i]) = Bases(others[i].kernel)

TransInv ==
    /\ phase = "prepare" => states = <<>>
    /\ phase = "graph" => LinkedTo(grammar, states, at)
    /\ phase # "prepare" => Bases(states[1].kernel) = Bases(AxiomKernel(grammar, {}))
    /\ phase \notin {"prepare", "graph"} =>
        /\ Automaton(grammar, states)
        /\ NoTwins(states)
        /\ IsLALR => ClosedGraph(grammar, states)
    /\ phase \in {"table", "propagate", "close"} => IsLALR /\ SameBases(kernels, states)

LEMMA BasesOf ==
    ASSUME NEW g, NEW items
    PROVE  /\ AwaitedOf(g, Bases(items)) = Awaited(g, items)
           /\ \A X : MovedOf(g, Bases(items), X) =
                {<<x.rule, x.position + 1>> : x \in {y \in Elements(items) : IsBefore(g, y, X)}}
<1>1. \A x : /\ IsLast(g, <<x.rule, x.position>>) <=> IsReduce(g, x)
             /\ AfterBase(g, <<x.rule, x.position>>) = NextSymbol(g, x)
             /\ <<x.rule, x.position>>[1] = x.rule /\ <<x.rule, x.position>>[2] = x.position
  BY DEF IsLast, IsReduce, AfterBase, NextSymbol
<1>2. AwaitedOf(g, Bases(items)) = Awaited(g, items)
  BY <1>1 DEF AwaitedOf, Awaited, Bases
<1>3. ASSUME NEW X
      PROVE  MovedOf(g, Bases(items), X) =
                {<<x.rule, x.position + 1>> : x \in {y \in Elements(items) : IsBefore(g, y, X)}}
  BY <1>1 DEF MovedOf, IsBefore, Bases
<1> QED BY <1>2, <1>3

\* What the kernels of the children have, as bases.
LEMMA MovedBases ==
    ASSUME NEW g, NEW items, NEW kernel, NEW X, Elements(kernel) = Moved(g, items, X),
           \A x \in Elements(items) : x \in ItemType(g)
    PROVE  Bases(kernel) = MovedOf(g, Bases(items), X)
<1>1. \A x \in Elements(items) : Child(x).rule = x.rule /\ Child(x).position = x.position + 1
  BY DEF ItemType, Child
<1>2. Bases(kernel) = {<<y.rule, y.position>> : y \in Moved(g, items, X)}
  BY DEF Bases
<1>3. {<<y.rule, y.position>> : y \in Moved(g, items, X)} =
        {<<x.rule, x.position + 1>> : x \in {y \in Elements(items) : IsBefore(g, y, X)}}
  BY <1>1 DEF Moved
<1> QED BY <1>2, <1>3, BasesOf

\* An LR graph, once built.
LEMMA GraphAutomaton ==
    ASSUME NEW g, IsInput(g), NEW mode \in {"LR0", "LR1"}, NEW graph \in Graphs(g, mode),
           \A i \in DOMAIN graph : Linked(g, graph, i)
    PROVE  /\ Automaton(g, graph) /\ NoTwins(graph)
           /\ mode = "LR0" => ClosedGraph(g, graph)
<1>1. NoTwins(graph)
  BY DEF NoTwins, Graphs
<1>2. ASSUME NEW i \in DOMAIN graph
      PROVE  \A x \in Elements(graph[i].items) : x \in ItemType(g)
  <2>1. graph[i].items \in Seq(Exact(g, mode))
    BY GraphItems
  <2> QED BY <2>1 DEF Elements, Exact
<1>3. Automaton(g, graph)
  <2> SUFFICES ASSUME NEW i \in DOMAIN graph
               PROVE  /\ DOMAIN graph[i].children = AwaitedOf(g, Bases(graph[i].items))
                      /\ \A X \in DOMAIN graph[i].children :
                          /\ graph[i].children[X] \in DOMAIN graph
                          /\ Bases(graph[graph[i].children[X]].kernel) = MovedOf(g, Bases(graph[i].items), X)
    BY DEF Automaton
  <2>1. Linked(g, graph, i)
    OBVIOUS
  <2>2. DOMAIN graph[i].children = AwaitedOf(g, Bases(graph[i].items))
    BY <2>1, BasesOf DEF Linked
  <2>3. ASSUME NEW X \in DOMAIN graph[i].children
        PROVE  /\ graph[i].children[X] \in DOMAIN graph
               /\ Bases(graph[graph[i].children[X]].kernel) = MovedOf(g, Bases(graph[i].items), X)
    <3>1. /\ graph[i].children[X] \in DOMAIN graph
          /\ Elements(graph[graph[i].children[X]].kernel) = Moved(g, graph[i].items, X)
      BY <2>1, <2>3 DEF Linked
    <3> QED BY <1>2, <3>1, MovedBases
  <2> QED BY <2>2, <2>3
<1>4. ASSUME mode = "LR0" PROVE ClosedGraph(g, graph)
  <2>1. ASSUME NEW i \in DOMAIN graph PROVE graph[i].kernel \in Seq(Exact(g, mode))
    BY GraphItems DEF Kernels
  <2>2. ASSUME NEW i \in DOMAIN graph
        PROVE  Bases(graph[i].items) = ClosedBases(g, Bases(graph[i].kernel))
    <3>1. graph[i].items = Closure(g, graph[i].kernel, mode)
      BY GraphItems
    <3> QED BY <1>4, <2>1, <3>1, ClosureBases
  <2>3. ASSUME NEW i \in DOMAIN graph, NEW j \in DOMAIN graph, Bases(graph[i].kernel) = Bases(graph[j].kernel)
        PROVE  i = j
    <3> DEFINE a == graph[i].kernel
               b == graph[j].kernel
    <3>1. a \in Seq(Exact(g, mode)) /\ b \in Seq(Exact(g, mode)) /\ Bases(a) = Bases(b)
      BY <2>1, <2>3
    <3> HIDE DEF a, b
    <3>2. \A x \in Elements(a) : x \in Exact(g, mode)
      BY <3>1 DEF Elements
    <3>3. \A y \in Elements(b) : y \in Exact(g, mode)
      BY <3>1 DEF Elements
    <3>4. \A x \in Elements(a), y \in Elements(b) : SameBase(x, y) => x = y
      BY <1>4, <3>2, <3>3, ExactSame
    <3>5. \A x \in Elements(a) : x \in Elements(b)
      <4> SUFFICES ASSUME NEW x \in Elements(a) PROVE x \in Elements(b)
        OBVIOUS
      <4>1. <<x.rule, x.position>> \in Bases(b)
        BY <3>1 DEF Bases
      <4>2. PICK y \in Elements(b) : <<x.rule, x.position>> = <<y.rule, y.position>>
        BY <4>1 DEF Bases
      <4>3. SameBase(x, y)
        BY <4>2 DEF SameBase
      <4> QED BY <3>4, <4>3
    <3>6. \A y \in Elements(b) : y \in Elements(a)
      <4> SUFFICES ASSUME NEW y \in Elements(b) PROVE y \in Elements(a)
        OBVIOUS
      <4>1. <<y.rule, y.position>> \in Bases(a)
        BY <3>1 DEF Bases
      <4>2. PICK x \in Elements(a) : <<y.rule, y.position>> = <<x.rule, x.position>>
        BY <4>1 DEF Bases
      <4>3. SameBase(x, y)
        BY <4>2 DEF SameBase
      <4> QED BY <3>4, <4>3
    <3>7. Elements(a) = Elements(b)
      BY <3>5, <3>6
    <3> QED BY <1>1, <3>7 DEF NoTwins, a, b
  <2> QED BY <2>2, <2>3 DEF ClosedGraph
<1> QED BY <1>1, <1>3, <1>4

\* Neither the transitions nor the bases are changed.
LEMMA SameAutomaton ==
    ASSUME NEW g, NEW graph, NEW new, DOMAIN new = DOMAIN graph,
           \A i \in DOMAIN graph : /\ Bases(new[i].kernel) = Bases(graph[i].kernel)
                                   /\ Bases(new[i].items) = Bases(graph[i].items)
                                   /\ new[i].children = graph[i].children,
           Automaton(g, graph)
    PROVE  /\ Automaton(g, new)
           /\ ClosedGraph(g, graph) => ClosedGraph(g, new) /\ NoTwins(new)
<1>1. Automaton(g, new)
  BY DEF Automaton
<1>2. ClosedGraph(g, graph) => ClosedGraph(g, new)
  BY DEF ClosedGraph
<1>3. ClosedGraph(g, new) => NoTwins(new)
  BY DEF ClosedGraph, NoTwins, Bases
<1> QED BY <1>1, <1>2, <1>3

LEMMA BuildStateTrans ==
    ASSUME GraphInv, TransInv, BuildState
    PROVE  TransInv'
<1>1. /\ phase = "graph" /\ phase' = "graph" /\ at \in DOMAIN states /\ at' = at + 1
      /\ states' = BuildAtState(grammar, states, at, GraphMode) /\ grammar' = grammar
  BY DEF BuildState
<1>2. /\ IsInput(grammar) /\ at \in Nat \ {0} /\ states \in Graphs(grammar, GraphMode) /\ Len(states) > 0
      /\ states \in Seq(State(grammar))
  BY <1>1 DEF GraphInv
<1>3. /\ states' \in Graphs(grammar, GraphMode) /\ Len(states) <= Len(states')
      /\ \A j \in DOMAIN states : /\ states'[j].kernel = states[j].kernel /\ states'[j].items = states[j].items
                                  /\ j # at => states'[j].children = states[j].children
      /\ Linked(grammar, states', at)
  BY <1>1, <1>2, GraphModes, BuildIs
<1>4. /\ DOMAIN states = 1 .. Len(states) /\ Len(states) \in Nat
      /\ DOMAIN states' = 1 .. Len(states') /\ Len(states') \in Nat /\ DOMAIN states \subseteq DOMAIN states'
  <2>1. states' \in Seq(State(grammar))
    BY <1>3, GraphsShape
  <2> QED BY <1>2, <1>3, <2>1
<1>5. ASSUME NEW i \in DOMAIN states', i < at + 1 PROVE Linked(grammar, states', i)
  <2>1. CASE i = at
    BY <1>3, <2>1
  <2>2. CASE i # at
    <3>1. i \in DOMAIN states /\ i < at
      BY <1>1, <1>2, <1>4, <1>5, <2>2
    <3>2. Linked(grammar, states, i)
      BY <1>1, <3>1 DEF TransInv, LinkedTo
    <3> QED BY <1>3, <1>4, <2>2, <3>1, <3>2 DEF Linked
  <2> QED BY <2>1, <2>2
<1>6. LinkedTo(grammar', states', at')
  BY <1>1, <1>5 DEF LinkedTo
<1>7. Bases(states'[1].kernel) = Bases(AxiomKernel(grammar', {}))
  <2>1. 1 \in DOMAIN states
    BY <1>2, <1>4
  <2>2. Bases(states[1].kernel) = Bases(AxiomKernel(grammar, {}))
    BY <1>1 DEF TransInv
  <2> QED BY <1>1, <1>3, <2>1, <2>2
<1> QED BY <1>1, <1>6, <1>7 DEF TransInv

LEMMA AxiomBases ==
    ASSUME NEW g, NEW a, NEW b
    PROVE  Bases(AxiomKernel(g, a)) = Bases(AxiomKernel(g, b))
<1>1. ASSUME NEW la PROVE Bases(AxiomKernel(g, la)) = {<<AxiomRule(g), 0>>}
  <2> DEFINE x == Item(AxiomRule(g), 0, la)
  <2>1. x.rule = AxiomRule(g) /\ x.position = 0 /\ AxiomKernel(g, la) = <<x>>
    BY DEF Item, AxiomKernel
  <2> HIDE DEF x
  <2>2. DOMAIN <<x>> = {1} /\ <<x>>[1] = x
    OBVIOUS
  <2> QED BY <2>1, <2>2, BasesAre DEF BaseOf
<1> QED BY <1>1

LEMMA GraphBuiltTrans ==
    ASSUME GraphInv, TransInv, GraphBuilt
    PROVE  TransInv'
<1>1. /\ phase = "graph" /\ phase' \in {"table", "reductions"} /\ at \notin DOMAIN states
      /\ phase' = "table" => IsLALR
      /\ kernels' = IF IsLALR
                    THEN [i \in DOMAIN states |-> IF i = 1 THEN AxiomKernel(grammar, {Epsilon})
                                                           ELSE states[i].kernel]
                    ELSE kernels
      /\ UNCHANGED <<grammar, method, states>>
  BY DEF GraphBuilt, Goto
<1>2. /\ IsInput(grammar) /\ at \in Nat \ {0} /\ states \in Graphs(grammar, GraphMode)
      /\ states \in Seq(State(grammar))
  BY <1>1 DEF GraphInv
<1>3. \A i \in DOMAIN states : Linked(grammar, states, i)
  <2>1. \A i \in DOMAIN states : i < at
    BY <1>1, <1>2
  <2> QED BY <1>1, <2>1 DEF TransInv, LinkedTo
<1>4. /\ Automaton(grammar, states) /\ NoTwins(states)
      /\ GraphMode = "LR0" => ClosedGraph(grammar, states)
  BY <1>2, <1>3, GraphModes, GraphAutomaton
<1>5. IsLALR => GraphMode = "LR0"
  BY DEF IsLALR, GraphMode, GraphModeOf
<1>6. IsLALR => SameBases(kernels', states)
  <2> SUFFICES ASSUME IsLALR, NEW i \in DOMAIN states PROVE Bases(kernels'[i]) = Bases(states[i].kernel)
    BY DEF SameBases
  <2>1. CASE i = 1
    <3>1. kernels'[1] = AxiomKernel(grammar, {Epsilon})
      BY <1>1, <2>1
    <3>2. Bases(states[1].kernel) = Bases(AxiomKernel(grammar, {}))
      BY <1>1 DEF TransInv
    <3> QED BY <2>1, <3>1, <3>2, AxiomBases
  <2>2. CASE i # 1
    BY <1>1, <2>2
  <2> QED BY <2>1, <2>2
<1>7. IsLALR' = IsLALR
  BY <1>1 DEF IsLALR
<1> QED BY <1>1, <1>4, <1>5, <1>6, <1>7 DEF TransInv

LEMMA BasesKept ==
    ASSUME NEW a, NEW b, DOMAIN b = DOMAIN a, \A n \in DOMAIN a : BaseOf(b[n]) = BaseOf(a[n])
    PROVE  Bases(b) = Bases(a)
<1>1. Bases(a) = {BaseOf(a[i]) : i \in DOMAIN a}
  BY BasesAre
<1>2. Bases(b) = {BaseOf(b[i]) : i \in DOMAIN b}
  BY BasesAre
<1> QED BY <1>1, <1>2

\* The lookaheads of the kernels are all that the propagation changes.
LEMMA LookaheadsOnly ==
    ASSUME GraphInv, BuildTable \/ Propagate
    PROVE  \A i \in DOMAIN kernels : Bases(kernels'[i]) = Bases(kernels[i])
<1>1. phase \in {"table", "propagate"}
  BY DEF BuildTable, Propagate
<1>2. kernels \in Seq(Items(grammar)) /\ DOMAIN kernels = 1 .. Len(kernels)
  BY <1>1 DEF GraphInv
<1>3. \A i \in DOMAIN kernels : \A n \in DOMAIN kernels[i] :
        kernels[i][n] \in [rule : RulesOf(grammar), position : Nat, lookaheads : SUBSET Marks(grammar)]
  BY <1>2 DEF Items, ItemType
<1>4. ASSUME NEW i \in DOMAIN kernels
      PROVE  /\ DOMAIN kernels'[i] = DOMAIN kernels[i]
             /\ \A n \in DOMAIN kernels[i] : BaseOf(kernels'[i][n]) = BaseOf(kernels[i][n])
  <2>1. CASE BuildTable
    <3> DEFINE links == Links(at)
               generated(place) == UNION {l.lookaheads : l \in {k \in links : k.to = place /\ ~ Propagates(k)}}
    <3>1. kernels' = [j \in DOMAIN kernels |-> [n \in DOMAIN kernels[j] |->
                         [kernels[j][n] EXCEPT !.lookaheads = @ \cup generated(<<j, n>>)]]]
      BY <2>1 DEF BuildTable
    <3> HIDE DEF generated
    <3> QED BY <1>3, <3>1 DEF BaseOf
  <2>2. CASE Propagate
    <3> DEFINE from == table[at][1]
               to == table[at][2]
               la == kernels[from[1]][from[2]].lookaheads
               row == [kernels[i] EXCEPT ![to[2]].lookaheads = @ \cup la]
    <3>1. kernels' = [kernels EXCEPT ![to[1]][to[2]].lookaheads = @ \cup la]
      BY <2>2 DEF Propagate
    <3> HIDE DEF from, to, la
    <3>2. kernels'[i] = IF i = to[1] THEN row ELSE kernels[i]
      BY <3>1
    <3>3. DOMAIN row = DOMAIN kernels[i] /\ \A n \in DOMAIN kernels[i] : BaseOf(row[n]) = BaseOf(kernels[i][n])
      BY <1>3 DEF BaseOf
    <3> HIDE DEF row
    <3> QED BY <3>2, <3>3
  <2> QED BY <2>1, <2>2
<1> QED BY <1>4, BasesKept

LEMMA LookaheadsTrans ==
    ASSUME GraphInv, TransInv, BuildTable \/ Propagate \/ EndPass
    PROVE  TransInv'
<1>1. /\ phase \in {"table", "propagate"} /\ phase' \in {"table", "propagate", "close"}
      /\ UNCHANGED <<grammar, method, states>>
  <2>1. CASE BuildTable
    BY <2>1 DEF BuildTable, Goto
  <2>2. CASE Propagate
    BY <2>2 DEF Propagate
  <2>3. CASE EndPass
    BY <2>3 DEF EndPass, Goto
  <2> QED BY <2>1, <2>2, <2>3
<1>2. DOMAIN kernels = DOMAIN states
  BY <1>1 DEF GraphInv
<1>3. SameBases(kernels', states)
  <2>1. SameBases(kernels, states)
    BY <1>1 DEF TransInv
  <2>2. CASE EndPass
    BY <2>1, <2>2 DEF EndPass
  <2>3. CASE BuildTable \/ Propagate
    BY <1>2, <2>1, <2>3, LookaheadsOnly DEF SameBases
  <2> QED BY <2>2, <2>3
<1>4. IsLALR' = IsLALR
  BY <1>1 DEF IsLALR
<1> QED BY <1>1, <1>3, <1>4 DEF TransInv

LEMMA CloseStateTrans ==
    ASSUME GraphInv, TransInv, CloseState
    PROVE  TransInv'
<1> DEFINE closed == IntoState(grammar, kernels[at], "LALR1")
           state == [closed EXCEPT !.children = states[at].children,
                                   !.contexts = states[at].contexts]
<1>1. /\ phase = "close" /\ phase' \in {"close", "reductions"} /\ UNCHANGED <<grammar, method, kernels>>
      /\ states' = [states EXCEPT ![at] = state]
  BY DEF CloseState, Goto, Reclosed
<1>2. /\ IsInput(grammar) /\ states \in Seq(State(grammar)) /\ at \in DOMAIN states
      /\ kernels \in Seq(Items(grammar)) /\ Len(kernels) = Len(states) /\ at \in DOMAIN kernels
  BY <1>1 DEF GraphInv
<1>3. /\ Automaton(grammar, states) /\ ClosedGraph(grammar, states) /\ SameBases(kernels, states) /\ IsLALR
  BY <1>1 DEF TransInv
<1>4. /\ state.kernel = kernels[at] /\ state.items = Closure(grammar, kernels[at], "LALR1")
      /\ state.children = states[at].children
  BY DEF IntoState
<1> HIDE DEF state
<1>5. Bases(state.kernel) = Bases(states[at].kernel)
  BY <1>2, <1>3, <1>4 DEF SameBases
<1>6. Bases(state.items) = Bases(states[at].items)
  <2>1. kernels[at] \in Seq(Exact(grammar, "LALR1"))
    <3>1. Exact(grammar, "LALR1") = ItemType(grammar)
      BY DEF Exact
    <3> QED BY <1>2, <3>1 DEF Items
  <2>2. Bases(state.items) = ClosedBases(grammar, Bases(kernels[at]))
    BY <1>2, <1>4, <2>1, ClosureBases
  <2> QED BY <1>2, <1>3, <1>4, <1>5, <2>2 DEF ClosedGraph
<1>7. /\ DOMAIN states' = DOMAIN states /\ states'[at] = state
      /\ \A i \in DOMAIN states : i # at => states'[i] = states[i]
  BY <1>1, <1>2
<1>8. /\ \A i \in DOMAIN states : /\ Bases(states'[i].kernel) = Bases(states[i].kernel)
                                  /\ Bases(states'[i].items) = Bases(states[i].items)
                                  /\ states'[i].children = states[i].children
      /\ 1 \in DOMAIN states
  BY <1>2, <1>4, <1>5, <1>6, <1>7
<1>9. Automaton(grammar, states') /\ ClosedGraph(grammar, states') /\ NoTwins(states')
  BY <1>3, <1>7, <1>8, SameAutomaton
<1>10. SameBases(kernels', states')
  BY <1>1, <1>3, <1>7, <1>8 DEF SameBases
<1>11. IsLALR'
  BY <1>1, <1>3 DEF IsLALR
<1>12. Bases(states'[1].kernel) = Bases(AxiomKernel(grammar', {}))
  BY <1>1, <1>8 DEF TransInv
<1> QED BY <1>1, <1>9, <1>10, <1>11, <1>12 DEF TransInv

LEMMA BuildReductionsTrans ==
    ASSUME GraphInv, TransInv, BuildReductions
    PROVE  TransInv'
<1> DEFINE reductions == {ReductionOf(states[at], c) :
                            c \in {d \in Candidate(states[at]) : Kept(states[at], d[1], d[2])}}
<1>1. /\ phase = "reductions" /\ phase' \in {"reductions", "done"} /\ UNCHANGED <<grammar, method, kernels>>
      /\ states' = [states EXCEPT ![at].reductions = reductions]
  BY DEF BuildReductions, ReductionOf, Goto
<1> HIDE DEF reductions
<1>2. states \in Seq(State(grammar)) /\ at \in DOMAIN states
  BY <1>1 DEF GraphInv
<1>3. Automaton(grammar, states) /\ NoTwins(states) /\ (IsLALR => ClosedGraph(grammar, states))
  BY <1>1 DEF TransInv
<1>4. /\ DOMAIN states' = DOMAIN states
      /\ \A i \in DOMAIN states : /\ states'[i].kernel = states[i].kernel /\ states'[i].items = states[i].items
                                  /\ states'[i].children = states[i].children
  <2>1. \A i \in DOMAIN states : states[i] \in State(grammar)
    BY <1>2
  <2> QED BY <1>1, <1>2, <2>1 DEF State
<1>5. Automaton(grammar, states') /\ (ClosedGraph(grammar, states) => ClosedGraph(grammar, states'))
  BY <1>3, <1>4, SameAutomaton
<1>6. NoTwins(states')
  BY <1>3, <1>4 DEF NoTwins
<1>7. IsLALR' = IsLALR
  BY <1>1 DEF IsLALR
<1>8. Bases(states'[1].kernel) = Bases(AxiomKernel(grammar', {}))
  <2>1. 1 \in DOMAIN states
    BY <1>2
  <2> QED BY <1>1, <1>4, <2>1 DEF TransInv
<1> QED BY <1>1, <1>3, <1>5, <1>6, <1>7, <1>8 DEF TransInv

LEMMA ConstructTrans ==
    ASSUME GraphInv, TransInv, Construct
    PROVE  TransInv'
BY BuildStateTrans, GraphBuiltTrans, LookaheadsTrans, CloseStateTrans, BuildReductionsTrans DEF Construct

LEMMA TransitionsAre ==
    ASSUME TransInv
    PROVE  TransitionsExact
<1> SUFFICES ASSUME phase # "graph"
             PROVE  /\ \A s \in Elements(states) :
                        /\ DOMAIN s.children = Awaited(grammar, s.items)
                        /\ \A symbol \in DOMAIN s.children :
                              Bases(states[s.children[symbol]].kernel) =
                                {<<item.rule, item.position + 1>> :
                                    item \in {x \in Elements(s.items) : IsBefore(grammar, x, symbol)}}
                    /\ NoTwins(states)
  BY DEF TransitionsExact, Awaited, NoTwins
<1>1. CASE phase = "prepare"
  <2>1. states = <<>>
    BY <1>1 DEF TransInv
  <2> QED BY <2>1 DEF Elements, NoTwins
<1>2. CASE phase # "prepare"
  <2>1. Automaton(grammar, states) /\ NoTwins(states)
    BY <1>2 DEF TransInv
  <2> QED BY <2>1, BasesOf DEF Automaton, Elements
<1> QED BY <1>1, <1>2
-----------------------------------------------------------------------------
(***************************************************************************)
(* The closure of items that have one lookahead each: the smallest closed  *)
(* set of items that holds those of the kernel.                            *)
(***************************************************************************)
Singles(g) == {x \in ItemType(g) : \E t : x.lookaheads = {t}}

LEMMA SinglesClosable ==
    ASSUME NEW g, IsInput(g)
    PROVE  "LR1" \in Modes /\ Closable(g, Singles(g), "LR1")
<1>1. "LR1" \in Modes
  BY DEF Modes
<1>2. ASSUME NEW x \in Singles(g), NEW c \in Candidates(g, x, "LR1")
      PROVE  c \in Singles(g)
  <2>1. x \in ItemType(g)
    BY DEF Singles
  <2>2. c \in ItemType(g)
    BY <1>1, <2>1, CandidatesShape
  <2>3. ~ IsReduce(g, x)
    BY DEF Candidates
  <2>4. PICK r \in RulesFor(g, NextSymbol(g, x)), la \in CandidateLookaheads(g, x, "LR1") : c = Item(r, 0, la)
    BY <2>3 DEF Candidates
  <2>5. c.lookaheads = la
    BY <2>4 DEF Item
  <2>6. \E t : la = {t}
    BY <2>4 DEF CandidateLookaheads
  <2> QED BY <2>2, <2>5, <2>6 DEF Singles
<1> QED BY <1>1, <1>2 DEF Closable, Singles

LEMMA SinglesSame ==
    ASSUME NEW g, NEW x \in Singles(g), NEW y \in Singles(g)
    PROVE  SameItem(x, y) <=> x = y
<1>1. /\ x = [rule |-> x.rule, position |-> x.position, lookaheads |-> x.lookaheads]
      /\ y = [rule |-> y.rule, position |-> y.position, lookaheads |-> y.lookaheads]
  BY DEF Singles, ItemType
<1>2. x.lookaheads \subseteq y.lookaheads => x.lookaheads = y.lookaheads
  BY DEF Singles
<1> QED BY <1>1, <1>2 DEF SameItem, SameBase

\* The items after the k-th begin a rule, and are there once.
BeginOnce(items, k) ==
    \A i \in DOMAIN items : i > k =>
        /\ items[i].position = 0
        /\ \A j \in DOMAIN items : items[i] = items[j] => i = j

LEMMA PrefixElements ==
    ASSUME NEW T, NEW a \in Seq(T), NEW b \in Seq(T), Prefix(a, b)
    PROVE  Elements(a) \subseteq Elements(b)
<1>1. DOMAIN a \subseteq DOMAIN b
  BY DEF Prefix
<1> QED BY <1>1 DEF Prefix, Elements

LEMMA AddSingle ==
    ASSUME NEW g, NEW items \in Seq(Singles(g)), NEW c \in Singles(g), c.position = 0,
           NEW k \in Nat, BeginOnce(items, k), NEW new, new = WithCandidate(items, c, "LR1")
    PROVE  new \in Seq(Singles(g)) /\ Prefix(items, new) /\ c \in Elements(new) /\ BeginOnce(new, k)
<1> DEFINE S == Singles(g)
<1>1. Len(items) \in Nat /\ DOMAIN items = 1 .. Len(items) /\ items \in Seq(S) /\ c \in S
  OBVIOUS
<1>2. Has(items, c) <=> c \in Elements(items)
  <2>1. \A x \in Elements(items) : SameItem(x, c) <=> x = c
    BY SinglesSame DEF Elements
  <2> QED BY <2>1 DEF Has
<1> HIDE DEF S
<1>3. CASE c \in Elements(items)
  <2>1. new = items
    BY <1>2, <1>3 DEF WithCandidate
  <2> QED BY <1>1, <1>3, <2>1 DEF Prefix, S
<1>4. CASE c \notin Elements(items)
  <2>1. new = Append(items, c)
    BY <1>2, <1>4 DEF WithCandidate
  <2>2. /\ new \in Seq(S) /\ Len(new) = Len(items) + 1 /\ new[Len(new)] = c /\ DOMAIN new = 1 .. Len(new)
        /\ \A i \in DOMAIN items : new[i] = items[i]
    BY <1>1, <2>1
  <2>3. Len(new) \in DOMAIN new /\ DOMAIN items \subseteq DOMAIN new
        /\ \A i \in DOMAIN new : i = Len(new) \/ i \in DOMAIN items
    BY <1>1, <2>2
  <2>4. Prefix(items, new) /\ c \in Elements(new)
    BY <1>1, <2>2, <2>3 DEF Prefix, Elements
  <2>5. \A i \in DOMAIN items : items[i] # c
    BY <1>4 DEF Elements
  <2>6. BeginOnce(new, k)
    BY <2>2, <2>3, <2>5 DEF BeginOnce
  <2> QED BY <2>2, <2>4, <2>6 DEF S
<1> QED BY <1>3, <1>4

LEMMA AddAllSingles ==
    ASSUME NEW g, IsInput(g), NEW items \in Seq(Singles(g)), NEW cs \in Seq(Singles(g)),
           \A n \in DOMAIN cs : cs[n].position = 0,
           NEW k \in Nat, BeginOnce(items, k), NEW new, new = AddAll(items, cs, "LR1")
    PROVE  /\ new \in Seq(Singles(g)) /\ Prefix(items, new) /\ BeginOnce(new, k)
           /\ Elements(cs) \subseteq Elements(new)
<1> DEFINE T == Singles(g)
           S == Seq(T)
           N == Len(cs)
<1>1. N \in Nat /\ DOMAIN cs = 1 .. N /\ items \in S /\ cs \in Seq(T) /\ Closable(g, T, "LR1")
      /\ \A n \in 1 .. N : cs[n] \in T
  BY SinglesClosable
<1> HIDE DEF T
<1>2. PICK f : /\ f[0] = items
               /\ \A n \in 1 .. Len(cs) : f[n] = WithCandidate(f[n - 1], cs[n], "LR1")
               /\ \A n \in 0 .. Len(cs) : f[n] \in Seq(T)
               /\ AddAll(items, cs, "LR1") = f[Len(cs)]
  <2>1. items \in Seq(T) /\ cs \in Seq(T)
    BY <1>1
  <2> HIDE DEF S, N
  <2> QED BY <1>1, <2>1, AddAllSteps
<1> DEFINE P(n) == /\ f[n] \in S /\ Prefix(items, f[n]) /\ BeginOnce(f[n], k)
                   /\ \A m \in 1 .. n : cs[m] \in Elements(f[n])
           K == {n \in 0 .. N : P(n)}
<1>3. P(0)
  <2>1. 1 .. 0 = {} /\ Prefix(items, items)
    BY <1>1 DEF Prefix
  <2> QED BY <1>1, <1>2, <2>1
<1>4. ASSUME NEW n \in 1 .. N, P(n - 1) PROVE P(n)
  <2> DEFINE a == f[n - 1]
             b == f[n]
  <2>1. /\ a \in S /\ Prefix(items, a) /\ BeginOnce(a, k) /\ b = WithCandidate(a, cs[n], "LR1")
        /\ cs[n] \in T /\ cs[n].position = 0
        /\ \A m \in 1 .. n - 1 : cs[m] \in Elements(a)
    BY <1>1, <1>2, <1>4
  <2> HIDE DEF a, b
  <2>2. b \in S /\ Prefix(a, b) /\ cs[n] \in Elements(b) /\ BeginOnce(b, k)
    BY <2>1, AddSingle DEF S, T
  <2>3. Prefix(items, b) /\ Elements(a) \subseteq Elements(b)
    BY <1>1, <2>1, <2>2, PrefixKeeps, PrefixElements
  <2>4. \A m \in 1 .. n : m = n \/ m \in 1 .. n - 1
    BY <1>1
  <2> QED BY <2>1, <2>2, <2>3, <2>4 DEF b
<1>5. P(N)
  <2>1. 0 \in K /\ \A n \in 1 .. N : n - 1 \in K => n \in K
    <3> HIDE DEF P, N
    <3> QED BY <1>1, <1>3, <1>4
  <2>2. \A n \in 0 .. N : n \in K
    <3> HIDE DEF K, N
    <3> QED BY <1>1, <2>1, Induction
  <2>3. N \in 0 .. N
    BY <1>1
  <2> HIDE DEF P, N
  <2> QED BY <2>2, <2>3
<1>6. new = f[N]
  BY <1>2
<1>7. Elements(cs) \subseteq Elements(new)
  BY <1>1, <1>5, <1>6 DEF Elements
<1> QED BY <1>5, <1>6, <1>7 DEF T

LEMMA CloseStepSingles ==
    ASSUME NEW g, IsInput(g), NEW items \in Seq(Singles(g)),
           NEW n, NEW k \in Nat, BeginOnce(items, k), NEW new, new = CloseStep(g, items, n, "LR1")
    PROVE  /\ new \in Seq(Singles(g)) /\ Prefix(items, new) /\ BeginOnce(new, k)
           /\ n \in DOMAIN items => Candidates(g, items[n], "LR1") \subseteq Elements(new)
           /\ n \notin DOMAIN items => new = items
<1>1. CASE n \notin DOMAIN items
  <2>1. Prefix(items, items)
    BY DEF Prefix
  <2> QED BY <1>1, <2>1 DEF CloseStep
<1>2. CASE n \in DOMAIN items
  <2> DEFINE x == items[n]
             C == Candidates(g, x, "LR1")
             cs == Listed(C)
             T == Singles(g)
  <2>1. "LR1" \in Modes /\ Closable(g, T, "LR1")
    BY SinglesClosable
  <2>2. x \in T
    BY <1>2
  <2> HIDE DEF x, T
  <2>3. cs \in Seq(T) /\ Elements(cs) = C
    BY <2>1, <2>2, CandidatesListed
  <2>4. \A c \in C : c.position = 0
    BY DEF Candidates, Item
  <2>5. new = AddAll(items, cs, "LR1")
    BY <1>2 DEF CloseStep, x
  <2> HIDE DEF cs, C
  <2>6. \A m \in DOMAIN cs : cs[m].position = 0
    BY <2>3, <2>4 DEF Elements
  <2>7. /\ new \in Seq(T) /\ Prefix(items, new) /\ BeginOnce(new, k)
        /\ Elements(cs) \subseteq Elements(new)
    BY <2>3, <2>5, <2>6, AddAllSingles DEF T
  <2> QED BY <1>2, <2>3, <2>7 DEF x, C, T
<1> QED BY <1>1, <1>2

\* There are as many items after the kernel as rules and lookaheads, at most.
LEMMA SinglesCount ==
    ASSUME NEW g, IsInput(g), NEW items \in Seq(Singles(g)), NEW k \in Nat, k <= Len(items), BeginOnce(items, k)
    PROVE  Len(items) <= k + Len(g.rules) * (Cardinality(SymbolsOf(g) \ VariablesOf(g)) + 2)
<1> DEFINE n == Len(items) - k
           Pairs == RulesOf(g) \X Marks(g)
           la(i) == CHOOSE t : items[k + i].lookaheads = {t}
           s == [i \in 1 .. n |-> <<items[k + i].rule, la(i)>>]
           R == Len(g.rules)
           C == Cardinality(SymbolsOf(g) \ VariablesOf(g))
           M == Cardinality(Marks(g))
<1>1. n \in Nat /\ Len(items) \in Nat /\ DOMAIN items = 1 .. Len(items)
  OBVIOUS
<1>2. \A i \in 1 .. n : k + i \in DOMAIN items /\ k + i > k
  BY <1>1
<1>3. ASSUME NEW i \in 1 .. n
      PROVE  /\ s[i] \in Pairs
             /\ items[k + i] = [rule |-> s[i][1], position |-> 0, lookaheads |-> {s[i][2]}]
  <2> DEFINE x == items[k + i]
  <2>1. x \in Singles(g) /\ x.position = 0
    BY <1>2 DEF BeginOnce
  <2>2. s[i] = <<x.rule, la(i)>>
    OBVIOUS
  <2>3. \E t : x.lookaheads = {t}
    BY <2>1 DEF Singles
  <2>4. x.lookaheads = {la(i)}
    BY <2>3
  <2> HIDE DEF la, x, s
  <2>5. x \in [rule : RulesOf(g), position : Nat, lookaheads : SUBSET Marks(g)]
    BY <2>1 DEF Singles, ItemType
  <2>6. x.rule \in RulesOf(g) /\ la(i) \in Marks(g)
    BY <2>4, <2>5
  <2>7. x = [rule |-> x.rule, position |-> 0, lookaheads |-> {la(i)}]
    BY <2>1, <2>4, <2>5
  <2> QED BY <2>2, <2>6, <2>7 DEF x
<1>4. \A i, j \in 1 .. n : s[i] = s[j] => i = j
  <2> SUFFICES ASSUME NEW i \in 1 .. n, NEW j \in 1 .. n, s[i] = s[j] PROVE i = j
    OBVIOUS
  <2>1. items[k + i] = items[k + j]
    <3> HIDE DEF s
    <3> QED BY <1>3
  <2>2. k + i = k + j
    BY <1>2, <2>1 DEF BeginOnce
  <2> QED BY <2>2
<1> HIDE DEF la
<1>5. s = [i \in 1 .. n |-> s[i]]
  <2> HIDE DEF n
  <2> QED OBVIOUS
<1> HIDE DEF s
<1>6. s \in Different(Pairs, n)
  <2> HIDE DEF n, Pairs
  <2>1. s \in Seq(Pairs) /\ Len(s) = n
    BY <1>1, <1>3, <1>5, IsSequence
  <2> QED BY <1>4, <2>1 DEF Different
<1>7. Elements(s) \subseteq Pairs /\ Cardinality(Elements(s)) = n
  <2> HIDE DEF n, Pairs
  <2> QED BY <1>1, <1>6, DifferentCount
<1>8. IsFiniteSet(RulesOf(g)) /\ Cardinality(RulesOf(g)) = R /\ R \in Nat
  <2>1. RulesOf(g) = 1 .. R /\ R \in Nat
    BY GrammarShape
  <2>2. IsFiniteSet(1 .. R) /\ Cardinality(1 .. R) = R
    BY <2>1, FS_Interval
  <2> QED BY <2>1, <2>2
<1>9. IsFiniteSet(Marks(g)) /\ M \in Nat /\ C \in Nat /\ M <= C + 2
  <2>1. IsFiniteSet(Marks(g)) /\ C \in Nat /\ M <= C + 2
    BY MarksFinite
  <2>2. M \in Nat
    BY <2>1, FS_CardinalityType
  <2> QED BY <2>1, <2>2
<1>10. IsFiniteSet(Pairs) /\ Cardinality(Pairs) = R * M
  <2> HIDE DEF R, M
  <2>1. IsFiniteSet(Pairs) /\ Cardinality(Pairs) = Cardinality(RulesOf(g)) * Cardinality(Marks(g))
    BY <1>8, <1>9, FS_Product
  <2> QED BY <1>8, <2>1 DEF M
<1>11. n <= R * M
  <2> HIDE DEF n, Pairs, R, M
  <2> DEFINE A == Elements(s)
  <2>1. A \in SUBSET Pairs
    BY <1>7
  <2>2. Cardinality(A) <= Cardinality(Pairs)
    <3> HIDE DEF A
    <3> QED BY <1>10, <2>1, FS_Subset
  <2> QED BY <1>7, <1>10, <2>2
<1>12. R * M <= R * (C + 2)
  <2> HIDE DEF R, M, C
  <2>1. PICK d \in Nat : C + 2 = M + d
    <3>1. C + 2 - M \in Nat /\ C + 2 = M + (C + 2 - M)
      BY <1>9
    <3> QED BY <3>1
  <2>2. R * (M + d) = R * M + R * d
    BY <1>8, <1>9
  <2>3. R * M \in Nat /\ R * d \in Nat
    BY <1>8, <1>9
  <2> QED BY <2>1, <2>2, <2>3
<1> HIDE DEF R, M, C
<1>13. R * M \in Nat /\ R * (C + 2) \in Nat
  BY <1>8, <1>9
<1>14. Len(items) <= k + R * (C + 2)
  BY <1>1, <1>11, <1>12, <1>13
<1> QED BY <1>14 DEF R, C

\* A set of items that has what its items bring
HoldsBrought(g, S) == \A x \in S : Candidates(g, x, "LR1") \subseteq S

LEMMA ClosureSingles ==
    ASSUME NEW g, IsInput(g), NEW kernel \in Seq(Singles(g)), NEW items, items = Closure(g, kernel, "LR1")
    PROVE  /\ items \in Seq(Singles(g))
           /\ Elements(kernel) \subseteq Elements(items)
           /\ HoldsBrought(g, Elements(items))
<1> DEFINE T == Singles(g)
           S == Seq(T)
           N == MostItems(g, kernel)
           k == Len(kernel)
<1>1. "LR1" \in Modes /\ Closable(g, T, "LR1")
  BY SinglesClosable
<1>2. N \in Nat /\ k \in Nat /\ kernel \in Seq(T)
  <2> HIDE DEF T
  <2>1. kernel \in Seq(T)
    BY DEF T
  <2> QED BY <2>1, MostItemsIs
<1> HIDE DEF T
<1>3. PICK f : /\ f[0] = kernel
               /\ \A n \in 1 .. MostItems(g, kernel) : f[n] = CloseStep(g, f[n - 1], n, "LR1")
               /\ \A n \in 0 .. MostItems(g, kernel) : f[n] \in Seq(T)
               /\ Closure(g, kernel, "LR1") = f[MostItems(g, kernel)]
  <2> HIDE DEF N, k, S
  <2> QED BY <1>1, <1>2, CloseSteps
<1> DEFINE P(n) == /\ f[n] \in S /\ Prefix(kernel, f[n]) /\ BeginOnce(f[n], k)
                   /\ \A m \in 1 .. n : m \in DOMAIN f[n] => Candidates(g, f[n][m], "LR1") \subseteq Elements(f[n])
           K == {n \in 0 .. N : P(n)}
<1>4. P(0)
  <2>1. 1 .. 0 = {} /\ \A i \in DOMAIN kernel : ~ i > k
    BY <1>2
  <2>2. Prefix(kernel, kernel)
    BY <1>2 DEF Prefix
  <2> QED BY <1>2, <1>3, <2>1, <2>2 DEF BeginOnce
<1>5. ASSUME NEW n \in 1 .. N, P(n - 1) PROVE P(n)
  <2> DEFINE a == f[n - 1]
             b == f[n]
  <2>1. /\ a \in S /\ Prefix(kernel, a) /\ BeginOnce(a, k) /\ b = CloseStep(g, a, n, "LR1")
        /\ \A m \in 1 .. n - 1 : m \in DOMAIN a => Candidates(g, a[m], "LR1") \subseteq Elements(a)
    BY <1>3, <1>5
  <2> HIDE DEF a, b, N, k
  <2>2. /\ b \in S /\ Prefix(a, b) /\ BeginOnce(b, k)
        /\ n \in DOMAIN a => Candidates(g, a[n], "LR1") \subseteq Elements(b)
        /\ n \notin DOMAIN a => b = a
    BY <1>2, <2>1, CloseStepSingles DEF T
  <2>3. Prefix(kernel, b) /\ Elements(a) \subseteq Elements(b)
    BY <1>2, <2>1, <2>2, PrefixKeeps, PrefixElements
  <2>4. DOMAIN a = 1 .. Len(a) /\ Len(a) \in Nat
    BY <2>1
  <2>5. ASSUME NEW m \in 1 .. n, m \in DOMAIN b
        PROVE  Candidates(g, b[m], "LR1") \subseteq Elements(b)
    <3>1. CASE n \notin DOMAIN a
      <4>1. m # n /\ m \in 1 .. n - 1
        BY <1>2, <2>2, <2>5, <3>1
      <4> QED BY <2>1, <2>2, <2>5, <3>1, <4>1
    <3>2. CASE n \in DOMAIN a
      <4>1. m \in DOMAIN a
        BY <1>2, <2>4, <3>2
      <4>2. b[m] = a[m]
        BY <2>2, <4>1 DEF Prefix
      <4>3. m = n \/ m \in 1 .. n - 1
        BY <1>2
      <4> QED BY <2>1, <2>2, <2>3, <3>2, <4>1, <4>2, <4>3
    <3> QED BY <3>1, <3>2
  <2> QED BY <2>2, <2>3, <2>5 DEF b
<1>6. P(N)
  <2>1. 0 \in K /\ \A n \in 1 .. N : n - 1 \in K => n \in K
    <3> HIDE DEF P, N
    <3> QED BY <1>2, <1>4, <1>5
  <2>2. \A n \in 0 .. N : n \in K
    <3> HIDE DEF K, N
    <3> QED BY <1>2, <2>1, Induction
  <2>3. N \in 0 .. N
    BY <1>2
  <2> HIDE DEF P, N
  <2> QED BY <2>2, <2>3
<1>7. items = f[N]
  BY <1>3
<1>8. /\ items \in S /\ Prefix(kernel, items) /\ BeginOnce(items, k)
      /\ \A m \in 1 .. N : m \in DOMAIN items => Candidates(g, items[m], "LR1") \subseteq Elements(items)
  BY <1>6, <1>7
<1> HIDE DEF P, K, S
<1>9. Len(items) \in Nat /\ DOMAIN items = 1 .. Len(items) /\ k <= Len(items)
  BY <1>8 DEF S, Prefix
<1>10. Len(items) <= N
  BY <1>2, <1>8, <1>9, SinglesCount DEF T, S, MostItems
<1>11. \A m \in DOMAIN items : m \in 1 .. N
  BY <1>2, <1>9, <1>10
<1>12. HoldsBrought(g, Elements(items))
  BY <1>8, <1>11 DEF HoldsBrought, Elements
<1>13. Elements(kernel) \subseteq Elements(items)
  BY <1>2, <1>8, PrefixElements DEF S
<1> QED BY <1>8, <1>12, <1>13 DEF S, T

\* ... and the smallest such set.
LEMMA ClosureSmallest ==
    ASSUME NEW g, IsInput(g), NEW kernel \in Seq(Singles(g)), NEW S \in SUBSET Singles(g),
           Elements(kernel) \subseteq S, HoldsBrought(g, S)
    PROVE  Elements(Closure(g, kernel, "LR1")) \subseteq S
<1>1. Closable(g, S, "LR1") /\ "LR1" \in Modes
  BY DEF Closable, HoldsBrought, Singles, Modes
<1>2. kernel \in Seq(S)
  <2>1. \A i \in DOMAIN kernel : kernel[i] \in S
    BY DEF Elements
  <2> DEFINE T == Singles(g)
  <2>2. kernel \in Seq(T)
    OBVIOUS
  <2> HIDE DEF T
  <2> QED BY <2>1, <2>2
<1>3. Closure(g, kernel, "LR1") \in Seq(S)
  BY <1>1, <1>2, ClosureShape
<1> QED BY <1>3 DEF Elements
-----------------------------------------------------------------------------
(***************************************************************************)
(* The dummy lookahead: what the closure of an item with it tells of the   *)
(* closure of the same item with any other.                                *)
(***************************************************************************)
One(b, t) == Item(b[1], b[2], {t})
Dummies(g, b) == Elements(Closure(g, <<One(b, Dummy)>>, "LR1"))

\* The lookahead u for the dummy
Put(x, u) == Item(x.rule, x.position, IF Dummy \in x.lookaheads THEN {u} ELSE x.lookaheads)

NoDummy(g) == \A r \in RulesOf(g) : \A k \in ChoicesOf(g, r) : Dummy \notin g.firsts[r][k]

LEMMA OneIs ==
    ASSUME NEW g, NEW b, NEW t
    PROVE  /\ One(b, t).rule = b[1] /\ One(b, t).position = b[2] /\ One(b, t).lookaheads = {t}
           /\ BaseOf(One(b, t)) = <<b[1], b[2]>>
           /\ \A u : Put(One(b, Dummy), u) = One(b, u)
           /\ \A x \in Singles(g) : x.lookaheads = {t} => x = One(BaseOf(x), t)
<1>1. /\ One(b, t).rule = b[1] /\ One(b, t).position = b[2] /\ One(b, t).lookaheads = {t}
      /\ BaseOf(One(b, t)) = <<b[1], b[2]>>
  BY DEF One, Item, BaseOf
<1>2. \A u : Put(One(b, Dummy), u) = One(b, u)
  BY DEF One, Item, Put
<1>3. ASSUME NEW x \in Singles(g), x.lookaheads = {t} PROVE x = One(BaseOf(x), t)
  BY <1>3 DEF One, Item, BaseOf, Singles, ItemType
<1> QED BY <1>1, <1>2, <1>3

LEMMA PutIs ==
    ASSUME NEW g, NEW x \in Singles(g), NEW u \in Marks(g)
    PROVE  /\ Put(x, u) \in Singles(g)
           /\ Put(x, u).rule = x.rule /\ Put(x, u).position = x.position /\ BaseOf(Put(x, u)) = BaseOf(x)
           /\ Put(x, u).lookaheads = IF Dummy \in x.lookaheads THEN {u} ELSE x.lookaheads
           /\ IsReduce(g, Put(x, u)) <=> IsReduce(g, x)
           /\ NextSymbol(g, Put(x, u)) = NextSymbol(g, x)
<1> DEFINE y == Put(x, u)
<1>1. /\ y.rule = x.rule /\ y.position = x.position
      /\ y.lookaheads = IF Dummy \in x.lookaheads THEN {u} ELSE x.lookaheads
      /\ y = [rule |-> x.rule, position |-> x.position, lookaheads |-> y.lookaheads]
  BY DEF Put, Item
<1> HIDE DEF y
<1>2. x \in [rule : RulesOf(g), position : Nat, lookaheads : SUBSET Marks(g)]
      /\ x.position <= Len(BodyOf(g, x.rule)) /\ \E t : x.lookaheads = {t}
  BY DEF Singles, ItemType
<1>3. \E t : y.lookaheads = {t}
  BY <1>1, <1>2
<1>4. y.lookaheads \in SUBSET Marks(g)
  BY <1>1, <1>2
<1>5. y \in [rule : RulesOf(g), position : Nat, lookaheads : SUBSET Marks(g)]
  BY <1>1, <1>2, <1>4
<1>6. y \in Singles(g)
  BY <1>1, <1>2, <1>3, <1>5 DEF Singles, ItemType
<1> QED BY <1>1, <1>6 DEF y, BaseOf, IsReduce, NextSymbol

\* The lookaheads of the candidates are one or another from the ones of the item.
LEMMA SubstitutedFollowing ==
    ASSUME NEW g, IsInput(g), NoDummy(g), NEW x \in Singles(g), NEW u \in Marks(g), ~ IsReduce(g, x)
    PROVE  Following(g, Put(x, u)) = {IF t = Dummy THEN u ELSE t : t \in Following(g, x)}
<1> DEFINE F == g.firsts[x.rule][x.position + 1]
           y == Put(x, u)
<1>1. x \in ItemType(g)
  BY DEF Singles
<1>2. x.rule \in RulesOf(g) /\ x.position + 1 \in ChoicesOf(g, x.rule)
  BY <1>1, ItemShape
<1>3. Dummy \notin F
  BY <1>2 DEF NoDummy
<1>4. PICK t : x.lookaheads = {t}
  BY DEF Singles
<1>5. y.rule = x.rule /\ y.position = x.position /\ y.lookaheads = IF t = Dummy THEN {u} ELSE {t}
  BY <1>4, PutIs
<1> HIDE DEF y, F
<1>6. Following(g, x) = IF Epsilon \in F THEN (F \ {Epsilon}) \cup {t} ELSE F
  BY <1>4 DEF Following, F
<1>7. Following(g, y) = IF Epsilon \in F THEN (F \ {Epsilon}) \cup (IF t = Dummy THEN {u} ELSE {t}) ELSE F
  BY <1>5 DEF Following, F
<1>8. Following(g, y) = {IF s = Dummy THEN u ELSE s : s \in Following(g, x)}
  BY <1>3, <1>6, <1>7
<1> QED BY <1>8 DEF y

\* What an item brings
Brings(g, x, c) ==
    \E r \in RulesFor(g, NextSymbol(g, x)) : \E t \in Following(g, x) : c = Item(r, 0, {t})

LEMMA CandidatesAre ==
    ASSUME NEW g, NEW x, NEW c
    PROVE  c \in Candidates(g, x, "LR1") <=>
                ~ IsReduce(g, x) /\ Brings(g, x, c)
<1>1. CandidateLookaheads(g, x, "LR1") = {{t} : t \in Following(g, x)}
  BY DEF CandidateLookaheads
<1>2. c \in Candidates(g, x, "LR1") <=>
        ~ IsReduce(g, x) /\ \E r \in RulesFor(g, NextSymbol(g, x)) :
            \E la \in CandidateLookaheads(g, x, "LR1") : c = Item(r, 0, la)
  BY DEF Candidates
<1> QED BY <1>1, <1>2 DEF Brings

LEMMA SubstitutedCandidates ==
    ASSUME NEW g, IsInput(g), NoDummy(g), NEW x \in Singles(g), NEW u \in Marks(g)
    PROVE  Candidates(g, Put(x, u), "LR1") = {Put(c, u) : c \in Candidates(g, x, "LR1")}
<1> DEFINE y == Put(x, u)
<1>1. /\ IsReduce(g, y) <=> IsReduce(g, x)
      /\ NextSymbol(g, y) = NextSymbol(g, x)
  BY PutIs
<1>2. CASE IsReduce(g, x)
  BY <1>1, <1>2 DEF Candidates
<1>3. CASE ~ IsReduce(g, x)
  <2> DEFINE R == RulesFor(g, NextSymbol(g, x))
             sub(t) == IF t = Dummy THEN u ELSE t
  <2>1. \A c : Brings(g, x, c) <=> \E r \in R : \E t \in Following(g, x) : c = Item(r, 0, {t})
    BY DEF Brings
  <2>2. \A c : Brings(g, y, c) <=> \E r \in R : \E t \in Following(g, y) : c = Item(r, 0, {t})
    BY <1>1 DEF Brings
  <2>3. Following(g, y) = {sub(t) : t \in Following(g, x)}
    BY <1>3, SubstitutedFollowing
  <2>4. \A r, t : Put(Item(r, 0, {t}), u) = Item(r, 0, {sub(t)})
    BY DEF Put, Item
  <2> HIDE DEF y, R, sub
  <2>8. /\ \A c : c \in Candidates(g, x, "LR1") <=> Brings(g, x, c)
        /\ \A c : c \in Candidates(g, y, "LR1") <=> Brings(g, y, c)
    BY <1>1, <1>3, CandidatesAre
  <2>5. ASSUME NEW c \in Candidates(g, x, "LR1") PROVE Put(c, u) \in Candidates(g, y, "LR1")
    <3>1. PICK r \in R, t \in Following(g, x) : c = Item(r, 0, {t})
      BY <2>1, <2>8
    <3>2. sub(t) \in Following(g, y)
      BY <2>3
    <3>3. Put(c, u) = Item(r, 0, {sub(t)})
      BY <2>4, <3>1
    <3> QED BY <2>2, <2>8, <3>2, <3>3
  <2>6. ASSUME NEW c \in Candidates(g, y, "LR1") PROVE \E e \in Candidates(g, x, "LR1") : c = Put(e, u)
    <3>0. PICK r \in R, s \in Following(g, y) : c = Item(r, 0, {s})
      BY <2>2, <2>8
    <3>1. PICK t \in Following(g, x) : s = sub(t)
      BY <2>3
    <3>2. Item(r, 0, {t}) \in Candidates(g, x, "LR1")
      BY <2>1, <2>8
    <3> QED BY <2>4, <3>0, <3>1, <3>2
  <2>7. Candidates(g, y, "LR1") = {Put(c, u) : c \in Candidates(g, x, "LR1")}
    BY <2>5, <2>6
  <2> QED BY <2>7 DEF y
<1> QED BY <1>2, <1>3

\* The item with the dummy
LEMMA DummiesShape ==
    ASSUME NEW g, IsInput(g), NEW b, b \in {BaseOf(x) : x \in ItemType(g)}
    PROVE  /\ Dummies(g, b) \subseteq Singles(g) /\ One(b, Dummy) \in Dummies(g, b)
           /\ HoldsBrought(g, Dummies(g, b))
           /\ \A t \in Marks(g) : One(b, t) \in Singles(g)
           /\ \A S \in SUBSET Singles(g) : One(b, Dummy) \in S /\ HoldsBrought(g, S) => Dummies(g, b) \subseteq S
           /\ b = <<b[1], b[2]>> /\ b[1] \in RulesOf(g) /\ b[2] \in Nat
<1>1. PICK x \in ItemType(g) : b = BaseOf(x)
  OBVIOUS
<1>2. b = <<b[1], b[2]>> /\ b[1] \in RulesOf(g) /\ b[2] \in Nat /\ b[2] <= Len(BodyOf(g, b[1]))
  BY <1>1 DEF BaseOf, ItemType
<1>3. \A t \in Marks(g) : One(b, t) \in Singles(g)
  BY <1>2 DEF Singles, ItemType, One, Item
<1> DEFINE kernel == <<One(b, Dummy)>>
           T == Singles(g)
<1>4. One(b, Dummy) \in T
  BY <1>3 DEF Marks
<1>5. kernel \in Seq(T) /\ Elements(kernel) = {One(b, Dummy)}
  <2> HIDE DEF T
  <2> QED BY <1>4 DEF Elements
<1>6. /\ Closure(g, kernel, "LR1") \in Seq(T) /\ Elements(kernel) \subseteq Dummies(g, b)
      /\ HoldsBrought(g, Dummies(g, b))
  <2> DEFINE c == Closure(g, kernel, "LR1")
  <2>1. Dummies(g, b) = Elements(c)
    BY DEF Dummies
  <2> HIDE DEF kernel, T
  <2>2. kernel \in Seq(Singles(g)) /\ c = Closure(g, kernel, "LR1")
    BY <1>5 DEF T
  <2> HIDE DEF c
  <2>3. c \in Seq(Singles(g)) /\ Elements(kernel) \subseteq Elements(c) /\ HoldsBrought(g, Elements(c))
    BY <2>2, ClosureSingles
  <2> QED BY <2>1, <2>2, <2>3 DEF T
<1>7. Dummies(g, b) \subseteq T
  <2> DEFINE c == Closure(g, kernel, "LR1")
  <2> HIDE DEF T, c
  <2>1. c \in Seq(T) /\ Dummies(g, b) = Elements(c)
    BY <1>6 DEF Dummies, c, T
  <2> QED BY <2>1 DEF Elements
<1>8. ASSUME NEW S \in SUBSET Singles(g), One(b, Dummy) \in S, HoldsBrought(g, S)
      PROVE  Dummies(g, b) \subseteq S
  <2> HIDE DEF kernel
  <2> QED BY <1>5, <1>8, ClosureSmallest DEF Dummies, kernel
<1> QED BY <1>2, <1>3, <1>5, <1>6, <1>7, <1>8

LEMMA PutInto ==
    ASSUME NEW g, IsInput(g), NoDummy(g), NEW b, b \in {BaseOf(x) : x \in ItemType(g)}, NEW u \in Marks(g),
           NEW S \in SUBSET Singles(g), HoldsBrought(g, S), One(b, u) \in S
    PROVE  \A d \in Dummies(g, b) : Put(d, u) \in S
<1> DEFINE D == {d \in Singles(g) : Put(d, u) \in S}
<1>1. One(b, Dummy) \in D
  BY DummiesShape, OneIs DEF Marks
<1>2. HoldsBrought(g, D)
  <2> SUFFICES ASSUME NEW x \in D, NEW c \in Candidates(g, x, "LR1") PROVE c \in D
    BY DEF HoldsBrought
  <2>1. c \in Singles(g)
    BY SinglesClosable DEF Closable
  <2>2. Put(c, u) \in Candidates(g, Put(x, u), "LR1")
    BY SubstitutedCandidates
  <2> QED BY <2>1, <2>2 DEF HoldsBrought
<1>3. Dummies(g, b) \subseteq D
  <2>1. D \in SUBSET Singles(g)
    OBVIOUS
  <2> HIDE DEF D
  <2> QED BY <1>1, <1>2, <2>1, DummiesShape
<1> QED BY <1>3

\* The items that the dummies of the items of a kernel give
PutFrom(g, kernel) ==
    {x \in Singles(g) : \E k \in Elements(kernel), u \in Marks(g) : \E d \in Dummies(g, BaseOf(k)) :
                            k.lookaheads = {u} /\ x = Put(d, u)}

LEMMA AllPutFrom ==
    ASSUME NEW g, IsInput(g), NoDummy(g), NEW kernel \in Seq(Singles(g))
    PROVE  Elements(Closure(g, kernel, "LR1")) \subseteq PutFrom(g, kernel)
<1>1. Elements(kernel) \subseteq Singles(g)
  <2> DEFINE T == Singles(g)
  <2>1. kernel \in Seq(T)
    OBVIOUS
  <2> HIDE DEF T
  <2>2. Elements(kernel) \subseteq T
    BY <2>1 DEF Elements
  <2> QED BY <2>2 DEF T
<1>2. ASSUME NEW k \in Elements(kernel)
      PROVE  /\ k \in Singles(g) /\ BaseOf(k) \in {BaseOf(x) : x \in ItemType(g)}
             /\ \E u \in Marks(g) : k.lookaheads = {u}
  BY <1>1 DEF Singles, ItemType
<1>3. ASSUME NEW k \in Elements(kernel) PROVE k \in PutFrom(g, kernel)
  <2>1. PICK u \in Marks(g) : k.lookaheads = {u}
    BY <1>2
  <2>2. One(BaseOf(k), Dummy) \in Dummies(g, BaseOf(k))
    BY <1>2, DummiesShape
  <2>3. k = Put(One(BaseOf(k), Dummy), u)
    BY <1>2, <2>1, OneIs
  <2> QED BY <1>2, <2>1, <2>2, <2>3 DEF PutFrom
<1>4. ASSUME NEW x \in PutFrom(g, kernel), NEW c \in Candidates(g, x, "LR1")
      PROVE  c \in PutFrom(g, kernel)
  <2>1. PICK k \in Elements(kernel), u \in Marks(g) : \E d \in Dummies(g, BaseOf(k)) :
                            k.lookaheads = {u} /\ x = Put(d, u)
    BY DEF PutFrom
  <2>2. PICK d \in Dummies(g, BaseOf(k)) : k.lookaheads = {u} /\ x = Put(d, u)
    BY <2>1
  <2>3. d \in Singles(g) /\ HoldsBrought(g, Dummies(g, BaseOf(k)))
    BY <1>2, DummiesShape
  <2>4. PICK e \in Candidates(g, d, "LR1") : c = Put(e, u)
    BY <2>2, <2>3, SubstitutedCandidates
  <2>5. e \in Dummies(g, BaseOf(k))
    BY <2>3 DEF HoldsBrought
  <2>6. c \in Singles(g)
    BY SinglesClosable DEF Closable, PutFrom
  <2> QED BY <2>2, <2>4, <2>5, <2>6 DEF PutFrom
<1>5. PutFrom(g, kernel) \in SUBSET Singles(g)
  BY DEF PutFrom
<1>6. HoldsBrought(g, PutFrom(g, kernel))
  BY <1>4 DEF HoldsBrought
<1>7. Elements(kernel) \subseteq PutFrom(g, kernel)
  BY <1>3
<1> QED BY <1>5, <1>6, <1>7, ClosureSmallest

\* The bases that a closure has are those of the LR(0) one.
LEMMA SinglesBases ==
    ASSUME NEW g, IsInput(g), NEW kernel \in Seq(Singles(g)), NEW items, items = Closure(g, kernel, "LR1")
    PROVE  /\ Bases(items) \subseteq ClosedBases(g, Bases(kernel))
           /\ HasPhrases(g) => Bases(items) = ClosedBases(g, Bases(kernel))
<1> DEFINE K == Bases(kernel)
           C == ClosedBases(g, K)
           S == {x \in Singles(g) : BaseOf(x) \in C}
<1>1. /\ K = {BaseOf(x) : x \in Elements(kernel)}
      /\ Bases(items) = {BaseOf(x) : x \in Elements(items)}
  BY DEF Bases, BaseOf
<1>2. Elements(kernel) \subseteq Singles(g) /\ Elements(items) \subseteq Singles(g)
      /\ Elements(kernel) \subseteq Elements(items) /\ HoldsBrought(g, Elements(items))
  <2> DEFINE T == Singles(g)
  <2>1. kernel \in Seq(T) /\ items \in Seq(T)
        /\ Elements(kernel) \subseteq Elements(items) /\ HoldsBrought(g, Elements(items))
    BY ClosureSingles
  <2> HIDE DEF T
  <2>2. Elements(kernel) \subseteq T /\ Elements(items) \subseteq T
    BY <2>1 DEF Elements
  <2> QED BY <2>1, <2>2 DEF T
<1>3. \A x \in Singles(g) : BaseOf(x) \in RulesOf(g) \X Nat
  BY DEF Singles, ItemType, BaseOf
<1>4. K \subseteq C
  BY <1>1, <1>2, <1>3 DEF ClosedBases
<1>5. ASSUME NEW x \in Singles(g), NEW c \in Candidates(g, x, "LR1")
      PROVE  BaseOf(c) \in BroughtBy(g, BaseOf(x)) /\ c \in Singles(g)
  <2>1. BaseOf(c) \in BroughtBy(g, BaseOf(x))
    BY DEF Candidates, BroughtBy, BaseOf, Item, IsReduce, NextSymbol
  <2> QED BY <2>1, SinglesClosable DEF Closable
<1>6. \A b \in C : BroughtBy(g, b) \cap (RulesOf(g) \X Nat) \subseteq C
  BY DEF ClosedBases, IsClosed
<1>7. Bases(items) \subseteq C
  <2>1. ASSUME NEW x \in S, NEW c \in Candidates(g, x, "LR1") PROVE c \in S
    BY <1>3, <1>5, <1>6
  <2>2. S \in SUBSET Singles(g) /\ Elements(kernel) \subseteq S /\ HoldsBrought(g, S)
    BY <1>1, <1>2, <1>4, <2>1 DEF HoldsBrought
  <2>3. Elements(items) \subseteq S
    <3> HIDE DEF S
    <3> QED BY <2>2, ClosureSmallest
  <2> QED BY <1>1, <2>3
<1>8. ASSUME HasPhrases(g) PROVE C \subseteq Bases(items)
  <2> DEFINE B == Bases(items)
  <2>1. B \in SUBSET (RulesOf(g) \X Nat) /\ K \subseteq B
    BY <1>1, <1>2, <1>3
  <2>2. ASSUME NEW b \in B, NEW a \in BroughtBy(g, b) PROVE a \in B
    <3>1. PICK x \in Elements(items) : b = BaseOf(x)
      BY <1>1
    <3>2. ~ IsReduce(g, x) /\ x \in Singles(g) /\ x \in ItemType(g)
      BY <1>2, <3>1 DEF BroughtBy, IsReduce, BaseOf, Singles
    <3>3. PICK r \in RulesFor(g, NextSymbol(g, x)) : a = <<r, 0>>
      BY <3>1, <3>2 DEF BroughtBy, IsReduce, BaseOf, NextSymbol
    <3>4. x.rule \in RulesOf(g) /\ x.position + 1 \in ChoicesOf(g, x.rule)
      BY <3>2, ItemShape
    <3>5. g.firsts[x.rule][x.position + 1] # {}
      BY <1>8, <3>4 DEF HasPhrases
    <3>6. PICK t : t \in Following(g, x)
      BY <3>2, <3>5 DEF Following, Singles
    <3>7. Item(r, 0, {t}) \in Candidates(g, x, "LR1")
      BY <3>2, <3>6 DEF Candidates, CandidateLookaheads
    <3>8. Item(r, 0, {t}) \in Elements(items)
      BY <1>2, <3>7 DEF HoldsBrought
    <3>9. a = BaseOf(Item(r, 0, {t}))
      BY <3>3 DEF BaseOf, Item
    <3> QED BY <1>1, <3>8, <3>9
  <2>3. IsClosed(g, B)
    BY <2>2 DEF IsClosed
  <2> HIDE DEF B
  <2>4. C \subseteq B
    BY <2>1, <2>3 DEF ClosedBases
  <2> QED BY <2>4 DEF B
<1> QED BY <1>7, <1>8
-----------------------------------------------------------------------------
(***************************************************************************)
(* A canonical graph, and a graph that has its bases: its states go along. *)
(***************************************************************************)
\* What the first state has, and what a state gives to its children, all have.
LEMMA CanonicalInduction ==
    ASSUME NEW g, NEW graph, IsCanonical(g, graph), NEW T, 1 \in T,
           \A i \in DOMAIN graph : i \in T =>
                \A X \in DOMAIN graph[i].children : graph[i].children[X] \in T
    PROVE  DOMAIN graph \subseteq T
<1> DEFINE N == Len(graph)
           K == {n \in 0 .. N : \A m \in 1 .. n : m \in T}
<1>1. N \in Nat \ {0} /\ DOMAIN graph = 1 .. N
      /\ \A j \in 2 .. N : \E i \in 1 .. j - 1 : \E X \in DOMAIN graph[i].children : graph[i].children[X] = j
  BY DEF IsCanonical
<1> HIDE DEF N
<1>2. 0 \in K
  BY <1>1
<1>3. ASSUME NEW n \in 1 .. N, n - 1 \in K PROVE n \in K
  <2>1. \A m \in 1 .. n - 1 : m \in T
    BY <1>3
  <2>2. n \in T
    <3>1. CASE n = 1
      BY <3>1
    <3>2. CASE n # 1
      <4>1. n \in 2 .. N
        BY <1>1, <3>2
      <4>2. PICK i \in 1 .. n - 1 : \E X \in DOMAIN graph[i].children : graph[i].children[X] = n
        BY <1>1, <4>1
      <4>3. i \in DOMAIN graph /\ i \in T
        BY <1>1, <2>1
      <4> QED BY <4>2, <4>3
    <3> QED BY <3>1, <3>2
  <2>3. \A m \in 1 .. n : m = n \/ m \in 1 .. n - 1
    BY <1>1
  <2>4. n \in 0 .. N
    BY <1>1
  <2> QED BY <2>1, <2>2, <2>3, <2>4
<1>4. \A n \in 0 .. N : n \in K
  <2> HIDE DEF K
  <2> QED BY <1>1, <1>2, <1>3, Induction
<1>5. N \in K
  <2>1. N \in 0 .. N
    BY <1>1
  <2> HIDE DEF K
  <2> QED BY <1>4, <2>1
<1> QED BY <1>1, <1>5

LEMMA SeqElements ==
    ASSUME NEW T, NEW s \in Seq(T)
    PROVE  Elements(s) \subseteq T
BY DEF Elements

LEMMA CanonicalItems ==
    ASSUME NEW g, IsInput(g), NEW graph, IsCanonical(g, graph), NEW z \in DOMAIN graph
    PROVE  /\ graph[z].kernel \in Seq(Singles(g)) /\ graph[z].items \in Seq(Singles(g))
           /\ Elements(graph[z].kernel) \subseteq Singles(g) /\ Elements(graph[z].items) \subseteq Singles(g)
           /\ Elements(graph[z].kernel) \subseteq Elements(graph[z].items)
           /\ HoldsBrought(g, Elements(graph[z].items))
           /\ graph[z].items = Closure(g, graph[z].kernel, "LR1")
           /\ HasPhrases(g) => Bases(graph[z].items) = ClosedBases(g, Bases(graph[z].kernel))
<1> DEFINE S == Singles(g)
           T == {i \in DOMAIN graph : graph[i].kernel \in Seq(S)}
<1>1. /\ 1 \in DOMAIN graph /\ graph[1].kernel = AxiomKernel(g, {Epsilon})
      /\ \A i \in DOMAIN graph :
            /\ graph[i].kernel \in Seq(Elements(graph[i].kernel))
            /\ graph[i].items = Closure(g, graph[i].kernel, "LR1")
            /\ \A X \in DOMAIN graph[i].children :
                /\ graph[i].children[X] \in DOMAIN graph
                /\ Elements(graph[graph[i].children[X]].kernel) = Moved(g, graph[i].items, X)
  BY DEF IsCanonical
<1>2. ASSUME NEW i \in DOMAIN graph, Elements(graph[i].kernel) \subseteq S
      PROVE  i \in T
  <2> DEFINE k == graph[i].kernel
             E == Elements(k)
  <2>1. k \in Seq(E) /\ E \subseteq S
    BY <1>1, <1>2
  <2> HIDE DEF S, k, E
  <2>2. k \in Seq(S)
    BY <2>1
  <2> QED BY <2>2 DEF k
<1>3. ASSUME NEW i \in T
      PROVE  /\ graph[i].items \in Seq(S) /\ Elements(graph[i].items) \subseteq S
             /\ Elements(graph[i].kernel) \subseteq Elements(graph[i].items)
             /\ HoldsBrought(g, Elements(graph[i].items))
  <2> DEFINE k == graph[i].kernel
             c == graph[i].items
  <2>1. k \in Seq(Singles(g)) /\ c = Closure(g, k, "LR1")
    BY <1>1
  <2> HIDE DEF k, c
  <2>2. /\ c \in Seq(Singles(g)) /\ Elements(k) \subseteq Elements(c)
        /\ HoldsBrought(g, Elements(c))
    BY <2>1, ClosureSingles
  <2> HIDE DEF S
  <2>3. Elements(c) \subseteq S
    BY <2>2, SeqElements DEF S
  <2> QED BY <2>2, <2>3 DEF k, c, S
<1>4. 1 \in T
  <2>1. Item(AxiomRule(g), 0, {Epsilon}) \in S
    <3>1. AxiomRule(g) \in RulesOf(g) /\ Len(BodyOf(g, AxiomRule(g))) \in Nat
      BY GrammarShape DEF AxiomRule
    <3> DEFINE x == Item(AxiomRule(g), 0, {Epsilon})
    <3>2. {Epsilon} \in SUBSET Marks(g)
      BY DEF Marks
    <3>3. x \in [rule : RulesOf(g), position : Nat, lookaheads : SUBSET Marks(g)] /\ x.position = 0
          /\ x.rule = AxiomRule(g) /\ x.lookaheads = {Epsilon}
      BY <3>1, <3>2 DEF Item
    <3> HIDE DEF x
    <3>4. x \in ItemType(g)
      BY <3>1, <3>3 DEF ItemType
    <3> QED BY <3>3, <3>4 DEF Singles, x
  <2> DEFINE x == Item(AxiomRule(g), 0, {Epsilon})
  <2>2. x \in S /\ AxiomKernel(g, {Epsilon}) = <<x>>
    BY <2>1 DEF AxiomKernel
  <2> HIDE DEF x, S
  <2>3. Elements(<<x>>) \subseteq S
    BY <2>2 DEF Elements
  <2> QED BY <1>1, <1>2, <2>2, <2>3
<1>5. ASSUME NEW i \in DOMAIN graph, i \in T, NEW X \in DOMAIN graph[i].children
      PROVE  graph[i].children[X] \in T
  <2>1. ASSUME NEW y \in Elements(graph[i].items), IsBefore(g, y, X) PROVE Child(y) \in S
    <3>1. y \in Singles(g) /\ ~ IsReduce(g, y)
      BY <1>3, <1>5, <2>1 DEF IsBefore
    <3>2. y \in ItemType(g)
      BY <3>1 DEF Singles
    <3>3. Child(y) \in ItemType(g)
      BY <3>1, <3>2, ItemShape
    <3>4. Child(y).lookaheads = y.lookaheads
      BY <3>2 DEF Child, ItemType
    <3> QED BY <3>1, <3>3, <3>4 DEF Singles
  <2>2. Moved(g, graph[i].items, X) \subseteq S
    BY <2>1 DEF Moved
  <2> HIDE DEF T, S
  <2> QED BY <1>1, <1>2, <2>2
<1>6. z \in T
  <2>1. DOMAIN graph \subseteq T
    <3> HIDE DEF T
    <3> QED BY <1>4, <1>5, CanonicalInduction
  <2> HIDE DEF T
  <2> QED BY <2>1
<1>7. graph[z].kernel \in Seq(S)
  BY <1>6
<1>8. Elements(graph[z].kernel) \subseteq S
  BY <1>3, <1>6
<1>9. HasPhrases(g) => Bases(graph[z].items) = ClosedBases(g, Bases(graph[z].kernel))
  BY <1>1, <1>7, SinglesBases
<1> QED BY <1>1, <1>3, <1>6, <1>7, <1>8, <1>9

\* Two states of the same bases shift on the same symbols, to states of the same bases.
LEMMA TwinChildren ==
    ASSUME NEW g, IsInput(g), HasPhrases(g), NEW canon, IsCanonical(g, canon), NEW z \in DOMAIN canon,
           NEW items, NEW kernel, Bases(items) = ClosedBases(g, Bases(kernel)),
           Bases(canon[z].kernel) = Bases(kernel)
    PROVE  /\ DOMAIN canon[z].children = AwaitedOf(g, Bases(items))
           /\ \A X \in DOMAIN canon[z].children :
                /\ canon[z].children[X] \in DOMAIN canon
                /\ Bases(canon[canon[z].children[X]].kernel) = MovedOf(g, Bases(items), X)
                /\ Elements(canon[canon[z].children[X]].kernel) = Moved(g, canon[z].items, X)
<1>1. /\ DOMAIN canon[z].children = Awaited(g, canon[z].items)
      /\ \A X \in DOMAIN canon[z].children :
            /\ canon[z].children[X] \in DOMAIN canon
            /\ Elements(canon[canon[z].children[X]].kernel) = Moved(g, canon[z].items, X)
  BY DEF IsCanonical
<1>2. Bases(canon[z].items) = Bases(items)
  BY CanonicalItems
<1>3. \A x \in Elements(canon[z].items) : x \in ItemType(g)
  BY CanonicalItems DEF Singles
<1>4. DOMAIN canon[z].children = AwaitedOf(g, Bases(items))
  BY <1>1, <1>2, BasesOf
<1>5. ASSUME NEW X \in DOMAIN canon[z].children
      PROVE  Bases(canon[canon[z].children[X]].kernel) = MovedOf(g, Bases(items), X)
  BY <1>1, <1>2, <1>3, MovedBases
<1> QED BY <1>1, <1>4, <1>5
-----------------------------------------------------------------------------
(***************************************************************************)
(* The links: an arrow leads from the n-th item of the kernel of a state i *)
(* by an item d that it brings, with the dummy, to an item of the kernel   *)
(* of a child.                                                             *)
(***************************************************************************)
Arrow(i, n, d, j, k) ==
    /\ i \in DOMAIN kernels /\ n \in DOMAIN kernels[i]
    /\ d \in Dummies(grammar, BaseOf(kernels[i][n])) /\ ~ IsReduce(grammar, d)
    /\ j = states[i].children[NextSymbol(grammar, d)]
    /\ j \in DOMAIN kernels /\ k \in DOMAIN kernels[j]
    /\ BaseOf(kernels[j][k]) = BaseOf(Child(d))

\* No two items of the kernel have the same base.
DifferentBases(kernel) == \A n, m \in DOMAIN kernel : BaseOf(kernel[n]) = BaseOf(kernel[m]) => n = m

\* What is known when the links are looked for
Linkable ==
    /\ IsInput(grammar) /\ kernels \in Seq(Items(grammar)) /\ DOMAIN kernels = DOMAIN states
    /\ Automaton(grammar, states) /\ ClosedGraph(grammar, states) /\ SameBases(kernels, states)
    /\ \A i \in DOMAIN kernels : DifferentBases(kernels[i])

LEMMA KernelItems ==
    ASSUME Linkable, NEW i \in DOMAIN kernels
    PROVE  /\ DOMAIN kernels[i] = 1 .. Len(kernels[i]) /\ Len(kernels[i]) \in Nat
           /\ \A n \in DOMAIN kernels[i] : /\ kernels[i][n] \in ItemType(grammar)
                                           /\ BaseOf(kernels[i][n]) \in {BaseOf(x) : x \in ItemType(grammar)}
                                           /\ BaseOf(kernels[i][n]) \in Bases(states[i].kernel)
           /\ Bases(kernels[i]) = Bases(states[i].kernel)
           /\ Bases(kernels[i]) = {BaseOf(kernels[i][n]) : n \in DOMAIN kernels[i]}
<1>1. kernels[i] \in Seq(ItemType(grammar))
  BY DEF Linkable, Items
<1>2. Bases(kernels[i]) = Bases(states[i].kernel)
  BY DEF Linkable, SameBases
<1>3. Bases(kernels[i]) = {BaseOf(kernels[i][n]) : n \in DOMAIN kernels[i]}
  BY BasesAre
<1> DEFINE k == kernels[i]
           T == ItemType(grammar)
<1>4. DOMAIN k = 1 .. Len(k) /\ Len(k) \in Nat /\ \A n \in DOMAIN k : k[n] \in T
  <2>1. k \in Seq(T)
    BY <1>1
  <2> HIDE DEF k, T
  <2> QED BY <2>1
<1> QED BY <1>2, <1>3, <1>4

\* There is an arrow by every item that is brought and that may be shifted.
LEMMA ArrowExists ==
    ASSUME Linkable, NEW i \in DOMAIN kernels, NEW n \in DOMAIN kernels[i],
           NEW d \in Dummies(grammar, BaseOf(kernels[i][n])), ~ IsReduce(grammar, d)
    PROVE  /\ NextSymbol(grammar, d) \in DOMAIN states[i].children
           /\ \E k : Arrow(i, n, d, states[i].children[NextSymbol(grammar, d)], k)
<1> DEFINE g == grammar
           b == BaseOf(kernels[i][n])
           X == NextSymbol(g, d)
           j == states[i].children[X]
           B == Bases(states[i].items)
<1>1. /\ IsInput(g) /\ DOMAIN kernels = DOMAIN states
      /\ DOMAIN states[i].children = AwaitedOf(g, B)
      /\ \A Y \in DOMAIN states[i].children :
            /\ states[i].children[Y] \in DOMAIN states
            /\ Bases(states[states[i].children[Y]].kernel) = MovedOf(g, B, Y)
      /\ B = ClosedBases(g, Bases(states[i].kernel))
  BY DEF Linkable, Automaton, ClosedGraph
<1>2. /\ b \in {BaseOf(x) : x \in ItemType(g)} /\ b \in Bases(states[i].kernel)
  BY KernelItems
<1>3. d \in Singles(g) /\ d \in ItemType(g)
  BY <1>1, <1>2, DummiesShape DEF Singles
<1>4. BaseOf(d) \in ClosedBases(g, {b})
  <2> DEFINE kernel == <<One(b, Dummy)>>
             items == Closure(g, kernel, "LR1")
             T == Singles(g)
  <2>1. One(b, Dummy) \in T
    BY <1>1, <1>2, DummiesShape DEF Marks
  <2>2. d \in Elements(items)
    BY DEF Dummies
  <2>3. Bases(kernel) = {b}
    <3>1. BaseOf(One(b, Dummy)) = b
      BY <1>1, <1>2, OneIs, DummiesShape
    <3> QED BY <3>1, BasesAre
  <2> HIDE DEF T, items
  <2>4. kernel \in Seq(T)
    BY <2>1
  <2> HIDE DEF kernel
  <2>5. Bases(items) \subseteq ClosedBases(g, Bases(kernel))
    BY <1>1, <2>4, SinglesBases DEF items, T
  <2>6. BaseOf(d) \in Bases(items)
    BY <2>2 DEF Bases, BaseOf
  <2> QED BY <2>3, <2>5, <2>6
<1>5. BaseOf(d) \in B
  BY <1>1, <1>2, <1>4 DEF ClosedBases
<1>6. ~ IsLast(g, BaseOf(d)) /\ AfterBase(g, BaseOf(d)) = X
  BY DEF IsLast, AfterBase, BaseOf, IsReduce, NextSymbol
<1>7. X \in AwaitedOf(g, B)
  BY <1>5, <1>6 DEF AwaitedOf
<1>8. BaseOf(Child(d)) = <<d.rule, d.position + 1>>
  BY <1>3 DEF Child, BaseOf, ItemType
<1>9. BaseOf(Child(d)) \in MovedOf(g, B, X)
  BY <1>5, <1>6, <1>8 DEF MovedOf, BaseOf
<1>10. j \in DOMAIN kernels /\ BaseOf(Child(d)) \in Bases(states[j].kernel)
  BY <1>1, <1>7, <1>9
<1> HIDE DEF j
<1>11. PICK k \in DOMAIN kernels[j] : BaseOf(kernels[j][k]) = BaseOf(Child(d))
  BY <1>10, KernelItems
<1>12. Arrow(i, n, d, j, k)
  BY <1>10, <1>11 DEF Arrow, j
<1> QED BY <1>1, <1>7, <1>12 DEF j

LinkBy(i, n, d, j, k) == [from |-> <<i, n>>, to |-> <<j, k>>, lookaheads |-> d.lookaheads]

\* The links are the arrows.
LEMMA LinksAre ==
    ASSUME Linkable, NEW i \in DOMAIN kernels
    PROVE  /\ \A l \in Links(i) : \E n, d, j, k : Arrow(i, n, d, j, k) /\ l = LinkBy(i, n, d, j, k)
           /\ \A n, d, j, k : Arrow(i, n, d, j, k) => LinkBy(i, n, d, j, k) \in Links(i)
<1> DEFINE closure(n) == IntoState(grammar, <<Item(kernels[i][n].rule, kernels[i][n].position, {Dummy})>>, "LR1").items
           child(d) == states[i].children[NextSymbol(grammar, d)]
           place(d) == CHOOSE k \in DOMAIN kernels[child(d)] : SameBase(kernels[child(d)][k], Child(d))
           link(n, d) == [from |-> <<i, n>>, to |-> <<child(d), place(d)>>, lookaheads |-> d.lookaheads]
           Of(n) == {d \in Elements(closure(n)) : ~ IsReduce(grammar, d)}
<1>1. Links(i) = UNION {{link(n, d) : d \in Of(n)} : n \in DOMAIN kernels[i]}
  BY DEF Links
<1>2. ASSUME NEW n \in DOMAIN kernels[i]
      PROVE  Of(n) = {d \in Dummies(grammar, BaseOf(kernels[i][n])) : ~ IsReduce(grammar, d)}
  <2>1. closure(n) = Closure(grammar, <<One(BaseOf(kernels[i][n]), Dummy)>>, "LR1")
    BY DEF IntoState, One, BaseOf
  <2> HIDE DEF closure
  <2> QED BY <2>1 DEF Dummies
<1>3. ASSUME NEW n, NEW d, NEW j, NEW k, Arrow(i, n, d, j, k)
      PROVE  child(d) = j /\ place(d) = k
  <2>1. j = child(d) /\ j \in DOMAIN kernels /\ k \in DOMAIN kernels[j] /\ BaseOf(kernels[j][k]) = BaseOf(Child(d))
    BY <1>3 DEF Arrow
  <2>2. \A m \in DOMAIN kernels[j] : BaseOf(kernels[j][m]) = BaseOf(Child(d)) => m = k
    BY <2>1 DEF Linkable, DifferentBases
  <2> HIDE DEF child
  <2>3. \A m \in DOMAIN kernels[j] : SameBase(kernels[j][m], Child(d)) <=> m = k
    BY <2>1, <2>2, BasesAre
  <2> QED BY <2>1, <2>3
<1>4. ASSUME NEW n, NEW d, NEW j, NEW k, Arrow(i, n, d, j, k)
      PROVE  link(n, d) = LinkBy(i, n, d, j, k)
  <2>1. child(d) = j /\ place(d) = k
    BY <1>3, <1>4
  <2> HIDE DEF child, place
  <2> QED BY <2>1 DEF LinkBy
<1> HIDE DEF closure, child, place, link
<1>5. ASSUME NEW l \in Links(i)
      PROVE  \E n, d, j, k : Arrow(i, n, d, j, k) /\ l = LinkBy(i, n, d, j, k)
  <2>0. PICK n \in DOMAIN kernels[i] : \E d \in Of(n) : l = link(n, d)
    BY <1>1
  <2>1. PICK d \in Of(n) : l = link(n, d)
    BY <2>0
  <2>2. d \in Dummies(grammar, BaseOf(kernels[i][n])) /\ ~ IsReduce(grammar, d)
    BY <1>2
  <2>3. PICK k : Arrow(i, n, d, states[i].children[NextSymbol(grammar, d)], k)
    BY <2>2, ArrowExists
  <2> QED BY <1>4, <2>1, <2>3
<1>6. ASSUME NEW n, NEW d, NEW j, NEW k, Arrow(i, n, d, j, k)
      PROVE  LinkBy(i, n, d, j, k) \in Links(i)
  <2>1. n \in DOMAIN kernels[i] /\ d \in Dummies(grammar, BaseOf(kernels[i][n])) /\ ~ IsReduce(grammar, d)
    BY <1>6 DEF Arrow
  <2>2. d \in Of(n)
    BY <1>2, <2>1
  <2>3. link(n, d) \in Links(i)
    BY <1>1, <2>1, <2>2
  <2> QED BY <1>4, <1>6, <2>3
<1> QED BY <1>5, <1>6

\* The arrows do not depend on the lookaheads of the kernels.
LEMMA ArrowsKept ==
    ASSUME grammar' = grammar, states' = states, DOMAIN kernels' = DOMAIN kernels,
           \A i \in DOMAIN kernels : /\ DOMAIN kernels'[i] = DOMAIN kernels[i]
                                     /\ \A n \in DOMAIN kernels[i] : BaseOf(kernels'[i][n]) = BaseOf(kernels[i][n]),
           NEW i, NEW n, NEW d, NEW j, NEW k
    PROVE  Arrow(i, n, d, j, k)' <=> Arrow(i, n, d, j, k)
BY DEF Arrow
-----------------------------------------------------------------------------
(***************************************************************************)
(* The lookaheads of the canonical graph.                                  *)
(***************************************************************************)
Canon == CanonicalLR1[grammar]

\* Those that the canonical kernels of these bases have for a base
TrueLookaheads(B, b) ==
    {t \in Marks(grammar) : \E z \in DOMAIN Canon :
        Bases(Canon[z].kernel) = B /\ One(b, t) \in Elements(Canon[z].kernel)}

LEMMA MergedAre ==
    ASSUME IsInput(grammar), IsCanonical(grammar, Canon), NEW i, NEW item
    PROVE  MergedLookaheads(i, item) = TrueLookaheads(Bases(kernels[i]), BaseOf(item))
<1> DEFINE B == Bases(kernels[i])
           b == BaseOf(item)
<1>1. ASSUME NEW t
      PROVE  t \in MergedLookaheads(i, item) <=>
                \E z \in DOMAIN Canon : Bases(Canon[z].kernel) = B /\
                    \E x \in Elements(Canon[z].kernel) : SameBase(x, item) /\ t \in x.lookaheads
  <2>1. t \in MergedLookaheads(i, item) <=>
            \E s \in Elements(Canon) : Bases(s.kernel) = B /\
                    \E x \in Elements(s.kernel) : SameBase(x, item) /\ t \in x.lookaheads
    BY DEF MergedLookaheads, Canon
  <2> QED BY <2>1 DEF Elements
<1>2. ASSUME NEW z \in DOMAIN Canon, NEW x \in Elements(Canon[z].kernel), NEW t \in x.lookaheads
      PROVE  x = One(BaseOf(x), t) /\ t \in Marks(grammar)
  <2>1. x \in Singles(grammar)
    BY CanonicalItems
  <2>2. x.lookaheads = {t} /\ x.lookaheads \subseteq Marks(grammar)
    BY <2>1 DEF Singles, ItemType
  <2> QED BY <2>1, <2>2, OneIs
<1>3. \A x : SameBase(x, item) <=> BaseOf(x) = b
  BY BasesAre
<1>4. \A t : One(b, t).lookaheads = {t} /\ BaseOf(One(b, t)) = b
  BY OneIs DEF BaseOf
<1> HIDE DEF B, b
<1>5. ASSUME NEW t PROVE t \in MergedLookaheads(i, item) <=> t \in TrueLookaheads(B, b)
  <2>1. ASSUME t \in MergedLookaheads(i, item) PROVE t \in TrueLookaheads(B, b)
    <3>1. PICK z \in DOMAIN Canon : Bases(Canon[z].kernel) = B /\
                    \E x \in Elements(Canon[z].kernel) : SameBase(x, item) /\ t \in x.lookaheads
      BY <1>1, <2>1
    <3> QED BY <1>2, <1>3, <3>1 DEF TrueLookaheads
  <2>2. ASSUME t \in TrueLookaheads(B, b) PROVE t \in MergedLookaheads(i, item)
    BY <1>1, <1>3, <1>4, <2>2 DEF TrueLookaheads
  <2> QED BY <2>1, <2>2
<1> QED BY <1>5 DEF B, b

\* What is known of the canonical graph
Comparable == HasPhrases(grammar) /\ NoDummy(grammar) /\ IsCanonical(grammar, Canon)

\* An arrow from a lookahead that is true leads to true ones.
LEMMA ArrowSound ==
    ASSUME Linkable, Comparable, NEW i, NEW n, NEW d, NEW j, NEW k, Arrow(i, n, d, j, k),
           NEW z \in DOMAIN Canon, Bases(Canon[z].kernel) = Bases(kernels[i]),
           NEW u \in Marks(grammar), One(BaseOf(kernels[i][n]), u) \in Elements(Canon[z].kernel)
    PROVE  Put(d, u).lookaheads \subseteq TrueLookaheads(Bases(kernels[j]), BaseOf(kernels[j][k]))
<1> DEFINE g == grammar
           b == BaseOf(kernels[i][n])
           y == Put(d, u)
           X == NextSymbol(g, d)
           items == Canon[z].items
<1>1. /\ i \in DOMAIN kernels /\ n \in DOMAIN kernels[i]
      /\ d \in Dummies(g, b) /\ ~ IsReduce(g, d)
      /\ j = states[i].children[X]
      /\ j \in DOMAIN kernels /\ k \in DOMAIN kernels[j]
      /\ BaseOf(kernels[j][k]) = BaseOf(Child(d))
  BY DEF Arrow
<1>2. /\ IsInput(g) /\ HasPhrases(g) /\ NoDummy(g) /\ IsCanonical(g, Canon) /\ DOMAIN kernels = DOMAIN states
      /\ DOMAIN states[i].children = AwaitedOf(g, Bases(states[i].items))
      /\ \A Y \in DOMAIN states[i].children :
            Bases(states[states[i].children[Y]].kernel) = MovedOf(g, Bases(states[i].items), Y)
      /\ Bases(states[i].items) = ClosedBases(g, Bases(states[i].kernel))
  BY <1>1 DEF Linkable, Comparable, Automaton, ClosedGraph
<1>3. /\ b \in {BaseOf(x) : x \in ItemType(g)}
      /\ Bases(kernels[i]) = Bases(states[i].kernel) /\ Bases(kernels[j]) = Bases(states[j].kernel)
  BY <1>1, KernelItems
<1>4. y \in Elements(items)
  <2> DEFINE S == Elements(items)
  <2>1. S \in SUBSET Singles(g) /\ HoldsBrought(g, S) /\ One(b, u) \in S
    BY <1>2, CanonicalItems
  <2> HIDE DEF S, b
  <2>2. \A e \in Dummies(g, b) : Put(e, u) \in S
    BY <1>2, <1>3, <2>1, PutInto
  <2> QED BY <1>1, <2>2 DEF S
<1>5. d \in Singles(g)
  <2> HIDE DEF b
  <2> QED BY <1>1, <1>2, <1>3, DummiesShape
<1>6. ~ IsReduce(g, y) /\ NextSymbol(g, y) = X /\ BaseOf(y) = BaseOf(d) /\ y.rule = d.rule /\ y.position = d.position
      /\ y \in Singles(g)
  BY <1>1, <1>5, PutIs
<1> HIDE DEF y
<1>7. X \in DOMAIN states[i].children
  BY <1>1, ArrowExists DEF Linkable
<1>8. /\ X \in DOMAIN Canon[z].children
      /\ Canon[z].children[X] \in DOMAIN Canon
      /\ Bases(Canon[Canon[z].children[X]].kernel) = Bases(kernels[j])
      /\ Elements(Canon[Canon[z].children[X]].kernel) = Moved(g, items, X)
  <2>1. Bases(Canon[z].kernel) = Bases(states[i].kernel)
    BY <1>3
  <2>2. /\ DOMAIN Canon[z].children = AwaitedOf(g, Bases(states[i].items))
        /\ \A Y \in DOMAIN Canon[z].children :
                /\ Canon[z].children[Y] \in DOMAIN Canon
                /\ Bases(Canon[Canon[z].children[Y]].kernel) = MovedOf(g, Bases(states[i].items), Y)
                /\ Elements(Canon[Canon[z].children[Y]].kernel) = Moved(g, Canon[z].items, Y)
    BY <1>2, <2>1, TwinChildren
  <2> QED BY <1>1, <1>2, <1>3, <1>7, <2>2
<1>9. PICK t : y.lookaheads = {t} /\ t \in Marks(g)
  BY <1>6 DEF Singles, ItemType
<1>10. Child(y) = One(BaseOf(Child(d)), t)
  <2>1. y \in [rule : RulesOf(g), position : Nat, lookaheads : SUBSET Marks(g)]
        /\ d \in [rule : RulesOf(g), position : Nat, lookaheads : SUBSET Marks(g)]
    BY <1>5, <1>6 DEF Singles, ItemType
  <2>2. Child(y) = [rule |-> y.rule, position |-> y.position + 1, lookaheads |-> y.lookaheads]
        /\ Child(d) = [rule |-> d.rule, position |-> d.position + 1, lookaheads |-> d.lookaheads]
    BY <2>1 DEF Child
  <2>3. BaseOf(Child(d)) = <<d.rule, d.position + 1>>
    BY <2>2 DEF BaseOf
  <2>4. One(<<d.rule, d.position + 1>>, t) = [rule |-> d.rule, position |-> d.position + 1, lookaheads |-> {t}]
    BY DEF One, Item
  <2>5. y.rule = d.rule /\ y.position = d.position /\ y.lookaheads = {t}
    BY <1>6, <1>9
  <2> QED BY <2>2, <2>3, <2>4, <2>5
<1>11. Child(y) \in Moved(g, items, X)
  BY <1>4, <1>6 DEF Moved, IsBefore
<1> QED BY <1>1, <1>8, <1>9, <1>10, <1>11 DEF TrueLookaheads, y

\* What an arrow leads to has the lookaheads that it brings.
Arrived ==
    \A i, n, d, j, k : Arrow(i, n, d, j, k) =>
        (IF Dummy \in d.lookaheads THEN kernels[i][n].lookaheads ELSE d.lookaheads) \subseteq kernels[j][k].lookaheads

\* The canonical lookaheads of a state, all in the kernel of another
CoveredBy(z, i) ==
    /\ i \in DOMAIN kernels
    /\ Bases(Canon[z].kernel) = Bases(kernels[i])
    /\ \A x \in Elements(Canon[z].kernel) :
        \E n \in DOMAIN kernels[i] : /\ BaseOf(kernels[i][n]) = BaseOf(x)
                                     /\ x.lookaheads \subseteq kernels[i][n].lookaheads

LEMMA SingleBase ==
    ASSUME NEW g, NEW la
    PROVE  /\ Bases(AxiomKernel(g, la)) = {<<AxiomRule(g), 0>>}
           /\ Elements(AxiomKernel(g, la)) = {One(<<AxiomRule(g), 0>>, Epsilon)} \/ la # {Epsilon}
           /\ DOMAIN AxiomKernel(g, la) = {1} /\ AxiomKernel(g, la)[1].lookaheads = la
           /\ BaseOf(AxiomKernel(g, la)[1]) = <<AxiomRule(g), 0>>
<1> DEFINE x == Item(AxiomRule(g), 0, la)
<1>1. AxiomKernel(g, la) = <<x>> /\ BaseOf(x) = <<AxiomRule(g), 0>> /\ x.lookaheads = la
  BY DEF AxiomKernel, Item, BaseOf
<1>2. la = {Epsilon} => x = One(<<AxiomRule(g), 0>>, Epsilon)
  BY DEF One
<1> HIDE DEF x
<1>3. DOMAIN <<x>> = {1} /\ <<x>>[1] = x
  OBVIOUS
<1>4. Elements(<<x>>) = {x}
  BY <1>3 DEF Elements
<1>5. Bases(<<x>>) = {BaseOf(x)}
  BY <1>3, BasesAre
<1> QED BY <1>1, <1>2, <1>3, <1>4, <1>5

LEMMA CoveredChild ==
    ASSUME Linkable, Comparable, Arrived, NEW z \in DOMAIN Canon, NEW i, CoveredBy(z, i),
           NEW X \in DOMAIN Canon[z].children
    PROVE  CoveredBy(Canon[z].children[X], states[i].children[X])
<1> DEFINE g == grammar
           items == Canon[z].items
           w == Canon[z].children[X]
           c == states[i].children[X]
<1>1. /\ IsInput(g) /\ HasPhrases(g) /\ NoDummy(g) /\ IsCanonical(g, Canon) /\ DOMAIN kernels = DOMAIN states
      /\ i \in DOMAIN kernels /\ i \in DOMAIN states
      /\ DOMAIN states[i].children = AwaitedOf(g, Bases(states[i].items))
      /\ \A Y \in DOMAIN states[i].children :
            /\ states[i].children[Y] \in DOMAIN states
            /\ Bases(states[states[i].children[Y]].kernel) = MovedOf(g, Bases(states[i].items), Y)
      /\ Bases(states[i].items) = ClosedBases(g, Bases(states[i].kernel))
  BY DEF Linkable, Comparable, Automaton, ClosedGraph, CoveredBy
<1>2. Bases(kernels[i]) = Bases(states[i].kernel)
  BY <1>1, KernelItems
<1>3. Bases(Canon[z].kernel) = Bases(states[i].kernel)
  BY <1>2 DEF CoveredBy
<1>4. /\ DOMAIN Canon[z].children = AwaitedOf(g, Bases(states[i].items))
      /\ Bases(Canon[w].kernel) = MovedOf(g, Bases(states[i].items), X)
      /\ Elements(Canon[w].kernel) = Moved(g, items, X)
  BY <1>1, <1>3, TwinChildren
<1>5. c \in DOMAIN kernels /\ Bases(Canon[w].kernel) = Bases(states[c].kernel)
  BY <1>1, <1>4
<1>6. Bases(Canon[w].kernel) = Bases(kernels[c])
  BY <1>5, KernelItems
<1>7. ASSUME NEW x \in Elements(Canon[w].kernel)
      PROVE  \E k \in DOMAIN kernels[c] : /\ BaseOf(kernels[c][k]) = BaseOf(x)
                                          /\ x.lookaheads \subseteq kernels[c][k].lookaheads
  <2>1. PICK y \in Elements(items) : IsBefore(g, y, X) /\ x = Child(y)
    BY <1>4 DEF Moved
  <2>2. /\ Canon[z].kernel \in Seq(Singles(g)) /\ items = Closure(g, Canon[z].kernel, "LR1")
        /\ Elements(Canon[z].kernel) \subseteq Singles(g) /\ y \in Singles(g)
    BY <1>1, CanonicalItems
  <2>3. y \in PutFrom(g, Canon[z].kernel)
    <3> DEFINE kernel == Canon[z].kernel
    <3>1. kernel \in Seq(Singles(g)) /\ y \in Elements(Closure(g, kernel, "LR1"))
      BY <2>2
    <3> HIDE DEF kernel
    <3>2. y \in PutFrom(g, kernel)
      BY <1>1, <3>1, AllPutFrom
    <3> QED BY <3>2 DEF kernel
  <2>4. PICK s \in Elements(Canon[z].kernel), u \in Marks(g) :
            \E d \in Dummies(g, BaseOf(s)) : s.lookaheads = {u} /\ y = Put(d, u)
    BY <2>3 DEF PutFrom
  <2>5. PICK d \in Dummies(g, BaseOf(s)) : s.lookaheads = {u} /\ y = Put(d, u)
    BY <2>4
  <2>6. PICK n \in DOMAIN kernels[i] : BaseOf(kernels[i][n]) = BaseOf(s) /\ u \in kernels[i][n].lookaheads
    BY <2>5 DEF CoveredBy
  <2>7. d \in Singles(g)
    <3>1. BaseOf(s) \in {BaseOf(q) : q \in ItemType(g)}
      BY <1>1, <2>6, KernelItems
    <3> QED BY <1>1, <3>1, DummiesShape
  <2>8. /\ IsReduce(g, y) <=> IsReduce(g, d)
        /\ NextSymbol(g, y) = NextSymbol(g, d)
        /\ y.rule = d.rule /\ y.position = d.position
        /\ y.lookaheads = IF Dummy \in d.lookaheads THEN {u} ELSE d.lookaheads
    BY <2>5, <2>7, PutIs
  <2>9. ~ IsReduce(g, d) /\ NextSymbol(g, d) = X
    BY <2>1, <2>8 DEF IsBefore
  <2>10. PICK k : Arrow(i, n, d, c, k)
    BY <1>1, <2>5, <2>6, <2>9, ArrowExists
  <2>11. k \in DOMAIN kernels[c] /\ BaseOf(kernels[c][k]) = BaseOf(Child(d))
    BY <2>10 DEF Arrow
  <2>12. y.lookaheads \subseteq kernels[c][k].lookaheads
    <3>1. (IF Dummy \in d.lookaheads THEN kernels[i][n].lookaheads ELSE d.lookaheads) \subseteq kernels[c][k].lookaheads
      BY <2>10 DEF Arrived
    <3> QED BY <2>6, <2>8, <3>1
  <2>13. BaseOf(Child(d)) = BaseOf(x) /\ x.lookaheads = y.lookaheads
    <3>1. y \in [rule : RulesOf(g), position : Nat, lookaheads : SUBSET Marks(g)]
          /\ d \in [rule : RulesOf(g), position : Nat, lookaheads : SUBSET Marks(g)]
      BY <2>2, <2>7 DEF Singles, ItemType
    <3>2. x = [rule |-> y.rule, position |-> y.position + 1, lookaheads |-> y.lookaheads]
          /\ Child(d) = [rule |-> d.rule, position |-> d.position + 1, lookaheads |-> d.lookaheads]
      BY <2>1, <3>1 DEF Child
    <3> QED BY <2>8, <3>2 DEF BaseOf
  <2> QED BY <2>11, <2>12, <2>13
<1> QED BY <1>5, <1>6, <1>7 DEF CoveredBy

\* Nothing is missing.
LEMMA Completeness ==
    ASSUME Linkable, Comparable, Arrived, 1 \in DOMAIN states,
           Bases(states[1].kernel) = Bases(AxiomKernel(grammar, {})),
           \A n \in DOMAIN kernels[1] : Epsilon \in kernels[1][n].lookaheads,
           NEW i \in DOMAIN kernels, NEW n \in DOMAIN kernels[i]
    PROVE  TrueLookaheads(Bases(kernels[i]), BaseOf(kernels[i][n])) \subseteq kernels[i][n].lookaheads
<1> DEFINE T == {z \in DOMAIN Canon : \E j : CoveredBy(z, j)}
<1>1. /\ IsCanonical(grammar, Canon) /\ DOMAIN kernels = DOMAIN states
      /\ \A j, k \in DOMAIN states : Bases(states[j].kernel) = Bases(states[k].kernel) => j = k
      /\ 1 \in DOMAIN Canon /\ Canon[1].kernel = AxiomKernel(grammar, {Epsilon})
      /\ \A z \in DOMAIN Canon : \A X \in DOMAIN Canon[z].children : Canon[z].children[X] \in DOMAIN Canon
  BY DEF Linkable, Comparable, ClosedGraph, IsCanonical
<1>2. 1 \in T
  <2> DEFINE b == <<AxiomRule(grammar), 0>>
  <2>1. /\ Bases(Canon[1].kernel) = {b}
        /\ Elements(Canon[1].kernel) = {One(b, Epsilon)}
        /\ Bases(states[1].kernel) = {b}
    BY <1>1, SingleBase
  <2> HIDE DEF b
  <2>2. Bases(kernels[1]) = {b} /\ Bases(kernels[1]) = {BaseOf(kernels[1][m]) : m \in DOMAIN kernels[1]}
    BY <1>1, <2>1, KernelItems
  <2>3. One(b, Epsilon).lookaheads = {Epsilon} /\ BaseOf(One(b, Epsilon)) = b
    BY OneIs DEF b
  <2>4. PICK m \in DOMAIN kernels[1] : BaseOf(kernels[1][m]) = b
    BY <2>2
  <2>5. CoveredBy(1, 1)
    BY <1>1, <2>1, <2>2, <2>3, <2>4 DEF CoveredBy
  <2> QED BY <1>1, <2>5
<1>3. ASSUME NEW z \in DOMAIN Canon, z \in T, NEW X \in DOMAIN Canon[z].children
      PROVE  Canon[z].children[X] \in T
  BY <1>1, <1>3, CoveredChild
<1>4. DOMAIN Canon \subseteq T
  <2> HIDE DEF T
  <2> QED BY <1>1, <1>2, <1>3, CanonicalInduction
<1> DEFINE b == BaseOf(kernels[i][n])
<1>5. ASSUME NEW t \in TrueLookaheads(Bases(kernels[i]), b)
      PROVE  t \in kernels[i][n].lookaheads
  <2>1. PICK z \in DOMAIN Canon : Bases(Canon[z].kernel) = Bases(kernels[i]) /\ One(b, t) \in Elements(Canon[z].kernel)
    BY DEF TrueLookaheads
  <2>2. PICK j : CoveredBy(z, j)
    BY <1>4
  <2>3. j = i
    <3>1. j \in DOMAIN kernels /\ Bases(kernels[j]) = Bases(kernels[i])
      BY <2>1, <2>2 DEF CoveredBy
    <3>2. Bases(states[j].kernel) = Bases(states[i].kernel)
      BY <3>1, KernelItems
    <3> QED BY <1>1, <3>1, <3>2
  <2>4. PICK m \in DOMAIN kernels[i] : BaseOf(kernels[i][m]) = BaseOf(One(b, t))
                                        /\ One(b, t).lookaheads \subseteq kernels[i][m].lookaheads
    BY <2>1, <2>2, <2>3 DEF CoveredBy
  <2>5. One(b, t).lookaheads = {t} /\ BaseOf(One(b, t)) = b
    BY OneIs DEF BaseOf
  <2>6. m = n
    BY <2>4, <2>5 DEF Linkable, DifferentBases
  <2> QED BY <2>4, <2>5, <2>6
<1> QED BY <1>5
-----------------------------------------------------------------------------
(***************************************************************************)
(* The lookaheads: none is wrong, and none is missing once a pass over the *)
(* propagation table changes nothing.                                      *)
(***************************************************************************)
\* Every state has the bases of one of the canonical graph.
HasTwins == \A i \in DOMAIN states : \E z \in DOMAIN Canon : Bases(Canon[z].kernel) = Bases(states[i].kernel)

TrueOf(i, n) == TrueLookaheads(Bases(kernels[i]), BaseOf(kernels[i][n]))

NoneWrong == \A i \in DOMAIN kernels : \A n \in DOMAIN kernels[i] : kernels[i][n].lookaheads \subseteq TrueOf(i, n)
NoneMissing == \A i \in DOMAIN kernels : \A n \in DOMAIN kernels[i] : TrueOf(i, n) \subseteq kernels[i][n].lookaheads

\* The arrows from the states before one are in the table, or have been followed.
LinkedBefore(until) ==
    \A i, n, d, j, k : Arrow(i, n, d, j, k) /\ i < until =>
        IF Dummy \in d.lookaheads THEN <<<<i, n>>, <<j, k>>>> \in Elements(table)
                                  ELSE d.lookaheads \subseteq kernels[j][k].lookaheads

\* The table has nothing but arrows.
TableOfArrows ==
    \A e \in Elements(table) : \E i, n, d, j, k :
        Arrow(i, n, d, j, k) /\ Dummy \in d.lookaheads /\ e = <<<<i, n>>, <<j, k>>>>

Carried(e) == kernels[e[1][1]][e[1][2]].lookaheads \subseteq kernels[e[2][1]][e[2][2]].lookaheads

LookInv ==
    IsLALR /\ phase # "prepare" /\ Comparable =>
        /\ phase \in {"graph", "table", "propagate"} => HasTwins
        /\ phase \in {"table", "propagate"} =>
            /\ \A i \in DOMAIN kernels : DifferentBases(kernels[i])
            /\ NoneWrong
            /\ \A n \in DOMAIN kernels[1] : Epsilon \in kernels[1][n].lookaheads
            /\ TableOfArrows
        /\ phase = "table" => LinkedBefore(at)
        /\ phase = "propagate" =>
            /\ LinkedBefore(Len(kernels) + 1)
            /\ ~ modified => \A m \in DOMAIN table : m < at => Carried(table[m])
        /\ phase \in {"close", "reductions", "done", "returned"} => NoneWrong /\ NoneMissing

LEMMA BuildStateLook ==
    ASSUME GraphInv, TransInv, LookInv, BuildState
    PROVE  LookInv'
<1>1. /\ phase = "graph" /\ phase' = "graph" /\ at \in DOMAIN states
      /\ states' = BuildAtState(grammar, states, at, GraphMode) /\ grammar' = grammar /\ method' = method
  BY DEF BuildState
<1>2. IsInput(grammar) /\ states \in Graphs(grammar, GraphMode)
  BY <1>1 DEF GraphInv
<1> SUFFICES ASSUME IsLALR, Comparable PROVE HasTwins'
  BY <1>1 DEF LookInv, IsLALR, Comparable, Canon
<1> DEFINE g == grammar
           items == states[at].items
<1>3. GraphMode = "LR0"
  BY DEF IsLALR, GraphMode, GraphModeOf
<1>4. /\ \A j \in DOMAIN states : states'[j].kernel = states[j].kernel
      /\ \A j \in DOMAIN states' : j \in DOMAIN states \/
            \E X \in Awaited(g, items) : Elements(states'[j].kernel) = Moved(g, items, X)
  BY <1>1, <1>2, <1>3, BuildIs
<1>5. HasTwins /\ IsCanonical(g, Canon) /\ HasPhrases(g)
  BY <1>1 DEF LookInv, Comparable
<1>6. /\ Bases(items) = ClosedBases(g, Bases(states[at].kernel))
      /\ \A x \in Elements(items) : x \in ItemType(g)
  <2>1. /\ states[at].kernel \in Kernels(g, "LR0") /\ items = Closure(g, states[at].kernel, "LR0")
        /\ items \in Seq(Exact(g, "LR0"))
    BY <1>1, <1>2, <1>3, GraphItems
  <2>2. states[at].kernel \in Seq(Exact(g, "LR0"))
    BY <2>1 DEF Kernels
  <2>3. Bases(items) = ClosedBases(g, Bases(states[at].kernel))
    BY <1>2, <2>1, <2>2, ClosureBases
  <2> HIDE DEF items
  <2>4. Elements(items) \subseteq Exact(g, "LR0")
    BY <2>1, SeqElements
  <2> QED BY <2>3, <2>4 DEF Exact
<1>7. PICK z \in DOMAIN Canon : Bases(Canon[z].kernel) = Bases(states[at].kernel)
  BY <1>1, <1>5 DEF HasTwins
<1>8. /\ DOMAIN Canon[z].children = AwaitedOf(g, Bases(items))
      /\ \A X \in DOMAIN Canon[z].children :
            /\ Canon[z].children[X] \in DOMAIN Canon
            /\ Bases(Canon[Canon[z].children[X]].kernel) = MovedOf(g, Bases(items), X)
  BY <1>2, <1>5, <1>6, <1>7, TwinChildren
<1> HIDE DEF items
<1>9. ASSUME NEW j \in DOMAIN states'
      PROVE  \E y \in DOMAIN Canon : Bases(Canon[y].kernel) = Bases(states'[j].kernel)
  <2>1. CASE j \in DOMAIN states
    BY <1>4, <1>5, <2>1 DEF HasTwins
  <2>2. CASE j \notin DOMAIN states
    <3>1. PICK X \in Awaited(g, items) : Elements(states'[j].kernel) = Moved(g, items, X)
      BY <1>4, <1>9, <2>2
    <3>2. Bases(states'[j].kernel) = MovedOf(g, Bases(items), X)
      BY <1>6, <3>1, MovedBases
    <3>3. X \in DOMAIN Canon[z].children
      BY <1>8, BasesOf
    <3> QED BY <1>8, <3>2, <3>3
  <2> QED BY <2>1, <2>2
<1> QED BY <1>1, <1>9 DEF HasTwins, Canon

\* What is true of a base does not change.
LEMMA TrueKept ==
    ASSUME grammar' = grammar, NEW B, NEW b
    PROVE  TrueLookaheads(B, b)' = TrueLookaheads(B, b)
BY DEF TrueLookaheads, Canon

LEMMA GraphBuiltLook ==
    ASSUME GraphInv, TransInv, LookInv, GraphBuilt
    PROVE  LookInv'
<1>1. /\ phase = "graph" /\ phase' = IF IsLALR THEN "table" ELSE "reductions"
      /\ UNCHANGED <<grammar, method, states, table>>
  BY DEF GraphBuilt, Goto
<1> SUFFICES ASSUME IsLALR, Comparable PROVE LookInv'
  BY <1>1 DEF LookInv, IsLALR, Comparable, Canon
<1> DEFINE g == grammar
<1>2. /\ phase' = "table" /\ at' = 1
      /\ kernels' = [i \in DOMAIN states |-> IF i = 1 THEN AxiomKernel(g, {Epsilon}) ELSE states[i].kernel]
  BY <1>1 DEF GraphBuilt, Goto
<1>3. IsInput(g) /\ states \in Graphs(g, "LR0") /\ table = <<>>
  BY <1>1 DEF GraphInv, IsLALR, GraphMode, GraphModeOf
<1>4. HasTwins
  BY <1>1 DEF LookInv
<1>5. ASSUME NEW i \in DOMAIN kernels', i = 1
      PROVE  /\ DifferentBases(kernels'[i])
             /\ \A n \in DOMAIN kernels'[i] : /\ kernels'[i][n].lookaheads \subseteq TrueOf(i, n)'
                                             /\ Epsilon \in kernels'[i][n].lookaheads
  <2> DEFINE b == <<AxiomRule(g), 0>>
             K == AxiomKernel(g, {Epsilon})
  <2>1. kernels'[1] = K
    BY <1>2, <1>5
  <2>2. /\ Bases(K) = {b} /\ Elements(K) = {One(b, Epsilon)}
        /\ DOMAIN K = {1} /\ K[1].lookaheads = {Epsilon} /\ BaseOf(K[1]) = b
    BY SingleBase
  <2>3. 1 \in DOMAIN Canon /\ Canon[1].kernel = K
    BY DEF Comparable, IsCanonical
  <2> HIDE DEF K, b
  <2>4. Epsilon \in TrueLookaheads(Bases(K), b)
    BY <2>2, <2>3 DEF TrueLookaheads, Marks
  <2>5. \A n \in DOMAIN kernels'[1] : TrueOf(1, n)' = TrueLookaheads(Bases(K), BaseOf(K[n]))
    BY <1>1, <2>1, TrueKept DEF TrueOf
  <2> QED BY <1>5, <2>1, <2>2, <2>4, <2>5 DEF DifferentBases
<1>6. ASSUME NEW i \in DOMAIN kernels', i # 1
      PROVE  /\ DifferentBases(kernels'[i])
             /\ \A n \in DOMAIN kernels'[i] : kernels'[i][n].lookaheads = {}
  <2> DEFINE K == states[i].kernel
             T == Exact(g, "LR0")
  <2>1. kernels'[i] = K /\ i \in DOMAIN states
    BY <1>2, <1>6
  <2>2. K \in Kernels(g, "LR0")
    BY <1>3, <2>1, GraphItems
  <2> HIDE DEF K, T
  <2>3. K \in Seq(T) /\ \A n, m \in DOMAIN K : K[n] = K[m] => n = m
    BY <2>2 DEF Kernels, T
  <2>4. \A n \in DOMAIN K : K[n] \in T
    BY <2>3
  <2>5. ASSUME NEW n \in DOMAIN K, NEW m \in DOMAIN K, BaseOf(K[n]) = BaseOf(K[m])
        PROVE  n = m
    <3>1. SameBase(K[n], K[m])
      BY <2>5, BasesAre
    <3>2. K[n] = K[m]
      BY <2>4, <3>1, ExactSame DEF T
    <3> QED BY <2>3, <3>2
  <2>6. \A n \in DOMAIN K : K[n].lookaheads = {}
    BY <2>4 DEF T, Exact
  <2> QED BY <2>1, <2>5, <2>6 DEF DifferentBases
<1>7. \A i \in DOMAIN kernels' : DifferentBases(kernels'[i])
  BY <1>5, <1>6
<1>8. NoneWrong'
  BY <1>5, <1>6 DEF NoneWrong
<1>9. \A n \in DOMAIN kernels'[1] : Epsilon \in kernels'[1][n].lookaheads
  <2>1. 1 \in DOMAIN kernels'
    BY <1>1, <1>2 DEF GraphInv
  <2> QED BY <1>5, <2>1
<1>10. TableOfArrows'
  BY <1>1, <1>3 DEF TableOfArrows, Elements
<1>11. LinkedBefore(1)'
  <2>1. \A i \in DOMAIN kernels' : ~ i < 1
    BY <1>1, <1>2 DEF GraphInv
  <2> QED BY <2>1 DEF LinkedBefore, Arrow
<1>12. HasTwins'
  BY <1>1, <1>4 DEF HasTwins, Canon
<1>13. LinkedBefore(at)'
  BY <1>2, <1>11 DEF LinkedBefore
<1> QED BY <1>2, <1>7, <1>8, <1>9, <1>10, <1>12, <1>13 DEF LookInv

\* The kernels change by their lookaheads only, item by item.
LEMMA LookaheadsKept ==
    ASSUME GraphInv, BuildTable \/ Propagate
    PROVE  /\ DOMAIN kernels' = DOMAIN kernels
           /\ \A i \in DOMAIN kernels : /\ DOMAIN kernels'[i] = DOMAIN kernels[i]
                                        /\ \A n \in DOMAIN kernels[i] : BaseOf(kernels'[i][n]) = BaseOf(kernels[i][n])
           /\ UNCHANGED <<grammar, method, states>>
<1>1. phase \in {"table", "propagate"} /\ UNCHANGED <<grammar, method, states>>
  BY DEF BuildTable, Propagate
<1>2. kernels \in Seq(Items(grammar)) /\ DOMAIN kernels = 1 .. Len(kernels)
  BY <1>1 DEF GraphInv
<1>3. \A i \in DOMAIN kernels : \A n \in DOMAIN kernels[i] :
        kernels[i][n] \in [rule : RulesOf(grammar), position : Nat, lookaheads : SUBSET Marks(grammar)]
  BY <1>2 DEF Items, ItemType
<1>4. CASE BuildTable
  <2> DEFINE links == Links(at)
             generated(place) == UNION {l.lookaheads : l \in {k \in links : k.to = place /\ ~ Propagates(k)}}
  <2>1. kernels' = [j \in DOMAIN kernels |-> [n \in DOMAIN kernels[j] |->
                       [kernels[j][n] EXCEPT !.lookaheads = @ \cup generated(<<j, n>>)]]]
    BY <1>4 DEF BuildTable
  <2> HIDE DEF generated
  <2> QED BY <1>1, <1>3, <2>1 DEF BaseOf
<1>5. CASE Propagate
  <2> DEFINE from == table[at][1]
             to == table[at][2]
             la == kernels[from[1]][from[2]].lookaheads
             row(i) == [kernels[i] EXCEPT ![to[2]].lookaheads = @ \cup la]
  <2>1. kernels' = [kernels EXCEPT ![to[1]][to[2]].lookaheads = @ \cup la]
    BY <1>5 DEF Propagate
  <2> HIDE DEF from, to, la
  <2>2. DOMAIN kernels' = DOMAIN kernels /\ \A i \in DOMAIN kernels : kernels'[i] = IF i = to[1] THEN row(i) ELSE kernels[i]
    BY <2>1
  <2>3. \A i \in DOMAIN kernels : /\ DOMAIN row(i) = DOMAIN kernels[i]
                                  /\ \A n \in DOMAIN kernels[i] : BaseOf(row(i)[n]) = BaseOf(kernels[i][n])
    BY <1>3 DEF BaseOf
  <2> HIDE DEF row
  <2> QED BY <1>1, <2>2, <2>3
<1> QED BY <1>4, <1>5

\* So what does not depend on them is as it was.
LEMMA BasesStay ==
    ASSUME GraphInv, BuildTable \/ Propagate
    PROVE  /\ \A i \in DOMAIN kernels : DifferentBases(kernels[i]) => DifferentBases(kernels'[i])
           /\ \A i \in DOMAIN kernels : \A n \in DOMAIN kernels[i] : TrueOf(i, n)' = TrueOf(i, n)
           /\ \A i, n, d, j, k : Arrow(i, n, d, j, k)' <=> Arrow(i, n, d, j, k)
           /\ Comparable' <=> Comparable
           /\ HasTwins' <=> HasTwins
<1>1. /\ DOMAIN kernels' = DOMAIN kernels
      /\ \A i \in DOMAIN kernels : /\ DOMAIN kernels'[i] = DOMAIN kernels[i]
                                   /\ \A n \in DOMAIN kernels[i] : BaseOf(kernels'[i][n]) = BaseOf(kernels[i][n])
      /\ UNCHANGED <<grammar, method, states>>
  BY LookaheadsKept
<1>2. \A i \in DOMAIN kernels : DifferentBases(kernels[i]) => DifferentBases(kernels'[i])
  BY <1>1 DEF DifferentBases
<1>3. ASSUME NEW i \in DOMAIN kernels, NEW n \in DOMAIN kernels[i]
      PROVE  TrueOf(i, n)' = TrueOf(i, n)
  <2>1. Bases(kernels'[i]) = Bases(kernels[i])
    BY LookaheadsOnly
  <2>2. BaseOf(kernels'[i][n]) = BaseOf(kernels[i][n])
    BY <1>1
  <2> QED BY <1>1, <2>1, <2>2, TrueKept DEF TrueOf
<1>4. ASSUME NEW i, NEW n, NEW d, NEW j, NEW k PROVE Arrow(i, n, d, j, k)' <=> Arrow(i, n, d, j, k)
  BY <1>1, ArrowsKept
<1>5. (Comparable' <=> Comparable) /\ (HasTwins' <=> HasTwins)
  BY <1>1 DEF Comparable, HasTwins, Canon
<1> QED BY <1>2, <1>3, <1>4, <1>5

LEMMA LinkableThere ==
    ASSUME GraphInv, TransInv, LookInv, Comparable, phase \in {"table", "propagate"}
    PROVE  Linkable /\ 1 \in DOMAIN states /\ Bases(states[1].kernel) = Bases(AxiomKernel(grammar, {})) /\ IsLALR
<1>1. /\ IsInput(grammar) /\ kernels \in Seq(Items(grammar)) /\ DOMAIN kernels = DOMAIN states /\ 1 \in DOMAIN states
  BY DEF GraphInv
<1>2. IsLALR
  BY DEF TransInv
<1>3. /\ Automaton(grammar, states) /\ ClosedGraph(grammar, states) /\ SameBases(kernels, states)
      /\ Bases(states[1].kernel) = Bases(AxiomKernel(grammar, {}))
  BY <1>2 DEF TransInv
<1>4. \A i \in DOMAIN kernels : DifferentBases(kernels[i])
  BY <1>2 DEF LookInv
<1> QED BY <1>1, <1>2, <1>3, <1>4 DEF Linkable

LEMMA BuildTableLook ==
    ASSUME GraphInv, TransInv, LookInv, BuildTable
    PROVE  LookInv'
<1> DEFINE links == Links(at)
           carried == {<<l.from, l.to>> : l \in {k \in links : Propagates(k)}}
           generated(place) == UNION {l.lookaheads : l \in {k \in links : k.to = place /\ ~ Propagates(k)}}
<1>1. /\ phase = "table" /\ at \in DOMAIN kernels
      /\ table' = table \o Listed(carried)
      /\ kernels' = [i \in DOMAIN kernels |-> [n \in DOMAIN kernels[i] |->
                       [kernels[i][n] EXCEPT !.lookaheads = @ \cup generated(<<i, n>>)]]]
      /\ UNCHANGED <<grammar, method, states, modified, conflicts>>
  BY DEF BuildTable
<1>2. \/ phase' = "table" /\ at' = at + 1
      \/ phase' = "propagate" /\ at' = 1 /\ at + 1 \notin DOMAIN kernels
  BY <1>1 DEF BuildTable, Goto
<1>3. (IsLALR' <=> IsLALR) /\ (Comparable' <=> Comparable) /\ (HasTwins' <=> HasTwins)
  BY <1>1, BasesStay DEF IsLALR
<1> SUFFICES ASSUME IsLALR, Comparable PROVE LookInv'
  BY <1>3 DEF LookInv
<1>4. /\ Linkable /\ HasTwins
      /\ NoneWrong /\ (\A n \in DOMAIN kernels[1] : Epsilon \in kernels[1][n].lookaheads)
      /\ TableOfArrows /\ LinkedBefore(at)
  BY <1>1, LinkableThere DEF LookInv
<1>5. /\ DOMAIN kernels' = DOMAIN kernels
      /\ \A i \in DOMAIN kernels : DOMAIN kernels'[i] = DOMAIN kernels[i]
      /\ \A i \in DOMAIN kernels : DifferentBases(kernels'[i])
      /\ \A i \in DOMAIN kernels : \A n \in DOMAIN kernels[i] : TrueOf(i, n)' = TrueOf(i, n)
      /\ \A i, n, d, j, k : Arrow(i, n, d, j, k)' <=> Arrow(i, n, d, j, k)
  BY <1>4, LookaheadsKept, BasesStay DEF Linkable
<1>6. /\ kernels \in Seq(Items(grammar)) /\ IsInput(grammar) /\ DOMAIN kernels = 1 .. Len(kernels) /\ Len(kernels) \in Nat
      /\ at \in Nat \ {0} /\ 1 \in DOMAIN kernels
  BY <1>1 DEF GraphInv
<1>7. /\ \A l \in links : \E n, d, j, k : Arrow(at, n, d, j, k) /\ l = LinkBy(at, n, d, j, k)
      /\ \A n, d, j, k : Arrow(at, n, d, j, k) => LinkBy(at, n, d, j, k) \in links
      /\ IsFiniteSet(links)
  BY <1>1, <1>4, <1>6, LinksAre, LinksShape
<1> HIDE DEF links
<1>8. \A n, d, j, k : LET l == LinkBy(at, n, d, j, k)
                      IN l.from = <<at, n>> /\ l.to = <<j, k>> /\ l.lookaheads = d.lookaheads
                         /\ (Propagates(l) <=> Dummy \in d.lookaheads)
  BY DEF LinkBy, Propagates
<1>9. ASSUME NEW i \in DOMAIN kernels, NEW n \in DOMAIN kernels[i]
      PROVE  kernels'[i][n].lookaheads = kernels[i][n].lookaheads \cup generated(<<i, n>>)
  <2>1. kernels[i][n] \in ItemType(grammar)
    BY <1>4, KernelItems
  <2> HIDE DEF generated
  <2> QED BY <1>1, <2>1 DEF ItemType
<1>10. \A i \in DOMAIN kernels : \A n \in DOMAIN kernels[i] : kernels[i][n].lookaheads \subseteq kernels'[i][n].lookaheads
  BY <1>9
<1>11. ASSUME NEW n, NEW d, NEW j, NEW k, Arrow(at, n, d, j, k)
       PROVE  IF Dummy \in d.lookaheads THEN <<<<at, n>>, <<j, k>>>> \in carried
                                        ELSE d.lookaheads \subseteq generated(<<j, k>>)
  <2> DEFINE l == LinkBy(at, n, d, j, k)
  <2>1. /\ l \in links /\ l.from = <<at, n>> /\ l.to = <<j, k>> /\ l.lookaheads = d.lookaheads
        /\ Propagates(l) <=> Dummy \in d.lookaheads
    BY <1>7, <1>8, <1>11
  <2> HIDE DEF l
  <2> QED BY <2>1
<1>12. ASSUME NEW p, NEW t \in generated(p)
       PROVE  \E n, d, j, k : Arrow(at, n, d, j, k) /\ p = <<j, k>> /\ Dummy \notin d.lookaheads /\ t \in d.lookaheads
  <2>1. PICK l \in links : l.to = p /\ ~ Propagates(l) /\ t \in l.lookaheads
    OBVIOUS
  <2>2. PICK n, d, j, k : Arrow(at, n, d, j, k) /\ l = LinkBy(at, n, d, j, k)
    BY <1>7
  <2>3. l.to = <<j, k>> /\ l.lookaheads = d.lookaheads /\ (Propagates(l) <=> Dummy \in d.lookaheads)
    BY <1>8, <2>2
  <2> HIDE DEF generated
  <2> QED BY <2>1, <2>2, <2>3
<1>13. ASSUME NEW e \in carried
       PROVE  \E n, d, j, k : Arrow(at, n, d, j, k) /\ e = <<<<at, n>>, <<j, k>>>> /\ Dummy \in d.lookaheads
  <2>1. PICK l \in links : e = <<l.from, l.to>> /\ Propagates(l)
    OBVIOUS
  <2>2. PICK n, d, j, k : Arrow(at, n, d, j, k) /\ l = LinkBy(at, n, d, j, k)
    BY <1>7
  <2> QED BY <1>8, <2>1, <2>2
<1>14. IsFiniteSet(carried)
  <2> DEFINE some == {k \in links : Propagates(k)}
             h == [l \in some |-> <<l.from, l.to>>]
  <2>1. IsFiniteSet(some)
    BY <1>7, FS_Subset
  <2>2. carried = {h[l] : l \in some}
    OBVIOUS
  <2> HIDE DEF some, h
  <2>3. IsFiniteSet({h[l] : l \in some})
    BY <2>1, ImageFinite
  <2> QED BY <2>2, <2>3
<1> HIDE DEF carried, generated
<1>15. Elements(table') = Elements(table) \cup carried
  <2>1. PICK S : table \in Seq(S)
    BY <1>1 DEF GraphInv, IsTable
  <2>2. Listed(carried) \in Seq(carried) /\ Elements(Listed(carried)) = carried
    BY <1>14, Listing
  <2> DEFINE more == Listed(carried)
             V == S \cup carried
  <2>3. table \in Seq(V) /\ more \in Seq(V) /\ Elements(more) = carried /\ table' = table \o more
    BY <1>1, <2>1, <2>2
  <2> HIDE DEF more, V
  <2>4. /\ DOMAIN table' = 1 .. Len(table) + Len(more) /\ Len(table) \in Nat /\ Len(more) \in Nat
        /\ DOMAIN table = 1 .. Len(table) /\ DOMAIN more = 1 .. Len(more)
        /\ \A i \in 1 .. Len(table) : table'[i] = table[i]
        /\ \A i \in 1 .. Len(more) : table'[i + Len(table)] = more[i]
    BY <2>3
  <2>5. \A i \in DOMAIN table' : table'[i] \in Elements(table) \cup carried
    <3>1. \A i \in DOMAIN table' : i \in 1 .. Len(table) \/ (i - Len(table) \in 1 .. Len(more) /\ i = (i - Len(table)) + Len(table))
      BY <2>4
    <3>2. \A i \in 1 .. Len(table) : table[i] \in Elements(table)
      BY <2>4 DEF Elements
    <3>3. \A i \in 1 .. Len(more) : more[i] \in carried
      BY <2>3, <2>4 DEF Elements
    <3> QED BY <2>4, <3>1, <3>2, <3>3
  <2>6. \A e \in Elements(table) : e \in Elements(table')
    BY <2>4 DEF Elements
  <2>7. \A e \in carried : e \in Elements(table')
    <3> SUFFICES ASSUME NEW i \in 1 .. Len(more) PROVE more[i] \in Elements(table')
      BY <2>3, <2>4 DEF Elements
    <3>1. i + Len(table) \in DOMAIN table'
      BY <2>4
    <3> QED BY <2>4, <3>1 DEF Elements
  <2> QED BY <2>5, <2>6, <2>7 DEF Elements
<1>16. NoneWrong'
  <2> SUFFICES ASSUME NEW i \in DOMAIN kernels, NEW n \in DOMAIN kernels[i], NEW t \in kernels'[i][n].lookaheads
               PROVE  t \in TrueOf(i, n)
    BY <1>5 DEF NoneWrong
  <2>1. CASE t \in kernels[i][n].lookaheads
    BY <1>4, <2>1 DEF NoneWrong
  <2>2. CASE t \in generated(<<i, n>>)
    <3>1. PICK m, d, j, k : /\ Arrow(at, m, d, j, k) /\ <<i, n>> = <<j, k>>
                            /\ Dummy \notin d.lookaheads /\ t \in d.lookaheads
      BY <1>12, <2>2
    <3>2. Arrow(at, m, d, i, n)
      BY <3>1
    <3>3. PICK z \in DOMAIN Canon : Bases(Canon[z].kernel) = Bases(kernels[at])
      BY <1>1, <1>4, KernelItems DEF HasTwins, Linkable
    <3> DEFINE b == BaseOf(kernels[at][m])
    <3>4. b \in Bases(Canon[z].kernel)
      BY <1>1, <1>4, <3>1, <3>3, KernelItems DEF Arrow
    <3>5. PICK x \in Elements(Canon[z].kernel) : BaseOf(x) = b
      BY <3>4 DEF Bases, BaseOf
    <3>6. x \in Singles(grammar)
      BY <1>6, CanonicalItems DEF Comparable
    <3>7. PICK u \in Marks(grammar) : x.lookaheads = {u}
      BY <3>6 DEF Singles, ItemType
    <3>8. One(b, u) \in Elements(Canon[z].kernel)
      BY <3>5, <3>6, <3>7, OneIs
    <3>9. Put(d, u).lookaheads \subseteq TrueLookaheads(Bases(kernels[i]), BaseOf(kernels[i][n]))
      BY <1>4, <3>2, <3>3, <3>8, ArrowSound
    <3>10. Put(d, u).lookaheads = d.lookaheads
      BY <3>1 DEF Put, Item
    <3> QED BY <3>1, <3>9, <3>10 DEF TrueOf
  <2> QED BY <1>9, <2>1, <2>2
<1>17. \A n \in DOMAIN kernels'[1] : Epsilon \in kernels'[1][n].lookaheads
  BY <1>4, <1>5, <1>6, <1>10
<1>18. TableOfArrows'
  <2> SUFFICES ASSUME NEW e \in Elements(table')
               PROVE  \E i, n, d, j, k : Arrow(i, n, d, j, k) /\ Dummy \in d.lookaheads /\ e = <<<<i, n>>, <<j, k>>>>
    BY <1>5 DEF TableOfArrows
  <2>1. CASE e \in Elements(table)
    BY <1>4, <2>1 DEF TableOfArrows
  <2>2. CASE e \in carried
    BY <1>13, <2>2
  <2> QED BY <1>15, <2>1, <2>2
<1>19. ASSUME NEW i, NEW n, NEW d, NEW j, NEW k, Arrow(i, n, d, j, k), i < at + 1
       PROVE  IF Dummy \in d.lookaheads THEN <<<<i, n>>, <<j, k>>>> \in Elements(table')
                                         ELSE d.lookaheads \subseteq kernels'[j][k].lookaheads
  <2>1. i \in DOMAIN kernels /\ j \in DOMAIN kernels /\ k \in DOMAIN kernels[j]
    BY <1>19 DEF Arrow
  <2>2. CASE i < at
    <3>1. IF Dummy \in d.lookaheads THEN <<<<i, n>>, <<j, k>>>> \in Elements(table)
                                    ELSE d.lookaheads \subseteq kernels[j][k].lookaheads
      BY <1>4, <1>19, <2>2 DEF LinkedBefore
    <3> QED BY <1>10, <1>15, <2>1, <3>1
  <2>3. CASE i = at
    <3>1. IF Dummy \in d.lookaheads THEN <<<<i, n>>, <<j, k>>>> \in carried
                                    ELSE d.lookaheads \subseteq generated(<<j, k>>)
      BY <1>11, <1>19, <2>3
    <3>2. kernels'[j][k].lookaheads = kernels[j][k].lookaheads \cup generated(<<j, k>>)
      BY <1>9, <2>1
    <3> QED BY <1>15, <3>1, <3>2
  <2>4. i < at \/ i = at
    BY <1>6, <1>19, <2>1
  <2> QED BY <2>2, <2>3, <2>4
<1>20. phase' = "table" => LinkedBefore(at)'
  BY <1>2, <1>5, <1>19 DEF LinkedBefore
<1>21. ASSUME phase' = "propagate"
       PROVE  /\ LinkedBefore(Len(kernels) + 1)'
              /\ \A m \in DOMAIN table' : ~ m < at'
  <2>1. at + 1 \notin DOMAIN kernels /\ at' = 1
    BY <1>2, <1>21
  <2>2. \A i \in DOMAIN kernels : i < at + 1
    BY <1>6, <2>1
  <2>3. \A i, n, d, j, k : Arrow(i, n, d, j, k) => i < at + 1
    BY <2>2 DEF Arrow
  <2>4. LinkedBefore(Len(kernels) + 1)'
    BY <1>5, <1>19, <2>3 DEF LinkedBefore
  <2>5. PICK S : table' \in Seq(S)
    BY <1>21, BuildTableShape DEF GraphInv, IsTable
  <2> QED BY <2>1, <2>4, <2>5
<1> QED BY <1>2, <1>3, <1>4, <1>5, <1>16, <1>17, <1>18, <1>20, <1>21 DEF LookInv

LEMMA PropagateLook ==
    ASSUME GraphInv, TransInv, LookInv, Propagate
    PROVE  LookInv'
<1> DEFINE from == table[at][1]
           to == table[at][2]
           la == kernels[from[1]][from[2]].lookaheads
<1>1. /\ phase = "propagate" /\ phase' = "propagate" /\ at \in DOMAIN table /\ at' = at + 1
      /\ kernels' = [kernels EXCEPT ![to[1]][to[2]].lookaheads = @ \cup la]
      /\ modified' = (modified \/ kernels' # kernels)
      /\ UNCHANGED <<grammar, method, states, table>>
  BY DEF Propagate, Modifies
<1>2. (IsLALR' <=> IsLALR) /\ (Comparable' <=> Comparable) /\ (HasTwins' <=> HasTwins)
  BY <1>1, BasesStay DEF IsLALR
<1> SUFFICES ASSUME IsLALR, Comparable PROVE LookInv'
  BY <1>2 DEF LookInv
<1>3. /\ Linkable /\ HasTwins
      /\ NoneWrong /\ (\A n \in DOMAIN kernels[1] : Epsilon \in kernels[1][n].lookaheads)
      /\ TableOfArrows /\ LinkedBefore(Len(kernels) + 1)
      /\ ~ modified => \A m \in DOMAIN table : m < at => Carried(table[m])
  BY <1>1, LinkableThere DEF LookInv
<1>4. /\ DOMAIN kernels' = DOMAIN kernels
      /\ \A i \in DOMAIN kernels : DOMAIN kernels'[i] = DOMAIN kernels[i]
      /\ \A i \in DOMAIN kernels : DifferentBases(kernels'[i])
      /\ \A i \in DOMAIN kernels : \A n \in DOMAIN kernels[i] : TrueOf(i, n)' = TrueOf(i, n)
      /\ \A i, n, d, j, k : Arrow(i, n, d, j, k)' <=> Arrow(i, n, d, j, k)
  BY <1>3, LookaheadsKept, BasesStay DEF Linkable
<1>5. /\ kernels \in Seq(Items(grammar)) /\ IsInput(grammar) /\ DOMAIN kernels = 1 .. Len(kernels) /\ Len(kernels) \in Nat
      /\ at \in Nat \ {0} /\ 1 \in DOMAIN kernels
  BY <1>1 DEF GraphInv
<1>6. kernels' \in Seq(Items(grammar)) /\ Len(kernels') \in Nat /\ DOMAIN kernels' = 1 .. Len(kernels')
  <2> DEFINE K == Items(grammar)
  <2>1. GraphInv'
    BY PropagateShape
  <2>2. kernels' \in Seq(Items(grammar'))
    BY <1>1, <2>1 DEF GraphInv
  <2>3. kernels' \in Seq(K)
    BY <1>1, <2>2
  <2> HIDE DEF K
  <2>4. Len(kernels') \in Nat /\ DOMAIN kernels' = 1 .. Len(kernels')
    BY <2>3
  <2> QED BY <2>3, <2>4 DEF K
<1>7. Len(kernels') = Len(kernels)
  BY <1>4, <1>5, <1>6
<1>8. PICK i, n, d, j, k : /\ Arrow(i, n, d, j, k) /\ Dummy \in d.lookaheads
                           /\ table[at] = <<<<i, n>>, <<j, k>>>>
  BY <1>1, <1>3 DEF TableOfArrows, Elements
<1>9. from = <<i, n>> /\ to = <<j, k>> /\ la = kernels[i][n].lookaheads
  BY <1>8
<1> HIDE DEF from, to, la
<1>10. /\ i \in DOMAIN kernels /\ n \in DOMAIN kernels[i] /\ j \in DOMAIN kernels /\ k \in DOMAIN kernels[j]
  BY <1>8 DEF Arrow
<1>11. ASSUME NEW a \in DOMAIN kernels, NEW b \in DOMAIN kernels[a]
       PROVE  kernels'[a][b].lookaheads = kernels[a][b].lookaheads \cup (IF a = j /\ b = k THEN la ELSE {})
  <2>1. kernels' = [kernels EXCEPT ![j][k].lookaheads = @ \cup la]
    BY <1>1, <1>9
  <2>2. kernels[a][b] \in [rule : RulesOf(grammar), position : Nat, lookaheads : SUBSET Marks(grammar)]
    BY <1>3, KernelItems DEF ItemType
  <2> DEFINE row == [kernels[a] EXCEPT ![k].lookaheads = @ \cup la]
  <2>3. kernels'[a] = IF a = j THEN row ELSE kernels[a]
    BY <2>1
  <2>4. row[b] = IF b = k THEN [kernels[a][b] EXCEPT !.lookaheads = @ \cup la] ELSE kernels[a][b]
    OBVIOUS
  <2> HIDE DEF row
  <2>5. [kernels[a][b] EXCEPT !.lookaheads = @ \cup la].lookaheads = kernels[a][b].lookaheads \cup la
    BY <2>2
  <2> QED BY <2>3, <2>4, <2>5
<1>12. \A a \in DOMAIN kernels : \A b \in DOMAIN kernels[a] : kernels[a][b].lookaheads \subseteq kernels'[a][b].lookaheads
  BY <1>11
<1>13. la \subseteq TrueOf(j, k)
  <2> SUFFICES ASSUME NEW t \in la PROVE t \in TrueOf(j, k)
    OBVIOUS
  <2> DEFINE b == BaseOf(kernels[i][n])
  <2>1. t \in TrueLookaheads(Bases(kernels[i]), b)
    BY <1>3, <1>9, <1>10 DEF NoneWrong, TrueOf
  <2>2. PICK z \in DOMAIN Canon : Bases(Canon[z].kernel) = Bases(kernels[i]) /\ One(b, t) \in Elements(Canon[z].kernel)
    BY <2>1 DEF TrueLookaheads
  <2>3. t \in Marks(grammar)
    BY <2>1 DEF TrueLookaheads
  <2>4. Put(d, t).lookaheads \subseteq TrueLookaheads(Bases(kernels[j]), BaseOf(kernels[j][k]))
    BY <1>3, <1>8, <2>2, <2>3, ArrowSound
  <2>5. Put(d, t).lookaheads = {t}
    BY <1>8 DEF Put, Item
  <2> QED BY <2>4, <2>5 DEF TrueOf
<1>14. NoneWrong'
  <2> SUFFICES ASSUME NEW a \in DOMAIN kernels, NEW b \in DOMAIN kernels[a]
               PROVE  kernels'[a][b].lookaheads \subseteq TrueOf(a, b)
    BY <1>4 DEF NoneWrong
  <2> QED BY <1>3, <1>11, <1>13 DEF NoneWrong
<1>15. \A m \in DOMAIN kernels'[1] : Epsilon \in kernels'[1][m].lookaheads
  BY <1>3, <1>4, <1>5, <1>12
<1>16. TableOfArrows'
  BY <1>1, <1>3, <1>4 DEF TableOfArrows
<1>17. LinkedBefore(Len(kernels) + 1)'
  <2> SUFFICES ASSUME NEW a, NEW b, NEW e, NEW f, NEW h, Arrow(a, b, e, f, h), a < Len(kernels) + 1
               PROVE  IF Dummy \in e.lookaheads THEN <<<<a, b>>, <<f, h>>>> \in Elements(table)
                                                ELSE e.lookaheads \subseteq kernels'[f][h].lookaheads
    BY <1>1, <1>4, <1>7 DEF LinkedBefore
  <2>1. IF Dummy \in e.lookaheads THEN <<<<a, b>>, <<f, h>>>> \in Elements(table)
                                  ELSE e.lookaheads \subseteq kernels[f][h].lookaheads
    BY <1>3 DEF LinkedBefore
  <2>2. f \in DOMAIN kernels /\ h \in DOMAIN kernels[f]
    BY DEF Arrow
  <2> QED BY <1>12, <2>1, <2>2
<1>18. ASSUME ~ modified', NEW m \in DOMAIN table, m < at + 1
       PROVE  Carried(table[m])'
  <2>1. kernels' = kernels /\ ~ modified /\ table' = table
    BY <1>1, <1>18
  <2>2. CASE m < at
    BY <1>3, <2>1, <2>2 DEF Carried
  <2>3. CASE m = at
    <3>1. la \subseteq kernels[j][k].lookaheads
      BY <1>10, <1>11, <2>1
    <3>2. table[m][1][1] = i /\ table[m][1][2] = n /\ table[m][2][1] = j /\ table[m][2][2] = k
      BY <1>8, <2>3
    <3> QED BY <1>9, <2>1, <3>1, <3>2 DEF Carried
  <2>4. m < at \/ m = at
    <3>1. PICK S : table \in Seq(S)
      BY <1>1 DEF GraphInv, IsTable
    <3> QED BY <1>5, <1>18, <3>1
  <2> QED BY <2>2, <2>3, <2>4
<1>19. ~ modified' => \A m \in DOMAIN table' : m < at' => Carried(table[m])'
  BY <1>1, <1>18
<1> QED BY <1>1, <1>2, <1>3, <1>4, <1>14, <1>15, <1>16, <1>17, <1>19 DEF LookInv

LEMMA EndPassLook ==
    ASSUME GraphInv, TransInv, LookInv, EndPass
    PROVE  LookInv'
<1>1. /\ phase = "propagate" /\ at \notin DOMAIN table
      /\ phase' = (IF modified THEN "propagate" ELSE "close") /\ at' = 1 /\ modified' = FALSE
      /\ UNCHANGED <<grammar, method, states, kernels, table>>
  BY DEF EndPass, Goto, PassesDone
<1>2. (IsLALR' <=> IsLALR) /\ (Comparable' <=> Comparable) /\ (HasTwins' <=> HasTwins)
      /\ (\A i, n, d, j, k : Arrow(i, n, d, j, k)' <=> Arrow(i, n, d, j, k))
      /\ (\A i, n : TrueOf(i, n)' = TrueOf(i, n))
  <2>1. \A i, n : TrueOf(i, n)' = TrueOf(i, n)
    BY <1>1, TrueKept DEF TrueOf
  <2>2. Comparable' <=> Comparable
    BY <1>1 DEF Comparable, Canon
  <2>3. HasTwins' <=> HasTwins
    BY <1>1 DEF HasTwins, Canon
  <2>4. \A i, n, d, j, k : Arrow(i, n, d, j, k)' <=> Arrow(i, n, d, j, k)
    BY <1>1 DEF Arrow
  <2> QED BY <1>1, <2>1, <2>2, <2>3, <2>4 DEF IsLALR
<1> SUFFICES ASSUME IsLALR, Comparable PROVE LookInv'
  BY <1>2 DEF LookInv
<1>3. /\ Linkable /\ HasTwins /\ 1 \in DOMAIN states /\ Bases(states[1].kernel) = Bases(AxiomKernel(grammar, {}))
      /\ \A i \in DOMAIN kernels : DifferentBases(kernels[i])
      /\ NoneWrong /\ (\A n \in DOMAIN kernels[1] : Epsilon \in kernels[1][n].lookaheads)
      /\ TableOfArrows /\ LinkedBefore(Len(kernels) + 1)
      /\ ~ modified => \A m \in DOMAIN table : m < at => Carried(table[m])
  BY <1>1, LinkableThere DEF LookInv
<1>4. PICK S : table \in Seq(S)
  BY <1>1 DEF GraphInv, IsTable
<1>5. /\ DOMAIN table = 1 .. Len(table) /\ Len(table) \in Nat /\ at \in Nat \ {0}
      /\ DOMAIN kernels = 1 .. Len(kernels) /\ Len(kernels) \in Nat
  BY <1>1, <1>4 DEF GraphInv
<1>6. NoneWrong' /\ TableOfArrows' /\ LinkedBefore(Len(kernels) + 1)'
  <2>1. NoneWrong'
    BY <1>1, <1>2, <1>3 DEF NoneWrong
  <2>2. TableOfArrows'
    BY <1>1, <1>2, <1>3 DEF TableOfArrows
  <2>3. LinkedBefore(Len(kernels) + 1)'
    BY <1>1, <1>2, <1>3 DEF LinkedBefore
  <2> QED BY <2>1, <2>2, <2>3
<1>7. CASE modified
  <2>1. \A m \in DOMAIN table : ~ m < 1
    BY <1>5
  <2> QED BY <1>1, <1>2, <1>3, <1>6, <1>7, <2>1 DEF LookInv
<1>8. CASE ~ modified
  <2>1. \A m \in DOMAIN table : m < at
    BY <1>1, <1>5
  <2>2. \A e \in Elements(table) : Carried(e)
    BY <1>3, <1>8, <2>1 DEF Elements
  <2>3. Arrived
    <3> SUFFICES ASSUME NEW i, NEW n, NEW d, NEW j, NEW k, Arrow(i, n, d, j, k)
                 PROVE  (IF Dummy \in d.lookaheads THEN kernels[i][n].lookaheads ELSE d.lookaheads)
                            \subseteq kernels[j][k].lookaheads
      BY DEF Arrived
    <3>1. i < Len(kernels) + 1
      BY <1>5 DEF Arrow
    <3>2. IF Dummy \in d.lookaheads THEN <<<<i, n>>, <<j, k>>>> \in Elements(table)
                                    ELSE d.lookaheads \subseteq kernels[j][k].lookaheads
      BY <1>3, <3>1 DEF LinkedBefore
    <3>3. ASSUME Dummy \in d.lookaheads PROVE kernels[i][n].lookaheads \subseteq kernels[j][k].lookaheads
      <4> DEFINE e == <<<<i, n>>, <<j, k>>>>
      <4>1. e[1][1] = i /\ e[1][2] = n /\ e[2][1] = j /\ e[2][2] = k
        OBVIOUS
      <4>2. Carried(e)
        BY <2>2, <3>2, <3>3
      <4> HIDE DEF e
      <4> QED BY <4>1, <4>2 DEF Carried
    <3> QED BY <3>2, <3>3
  <2>4. NoneMissing
    BY <1>3, <2>3, Completeness DEF NoneMissing, TrueOf
  <2>5. NoneMissing'
    BY <1>1, <1>2, <2>4 DEF NoneMissing
  <2> QED BY <1>1, <1>6, <1>8, <2>5 DEF LookInv
<1> QED BY <1>7, <1>8

\* The kernels are what they were.
LEMMA KernelsLook ==
    ASSUME LookInv, phase \in {"close", "reductions", "done", "returned"},
           phase' \in {"close", "reductions", "done", "returned"}, UNCHANGED <<grammar, method, kernels>>
    PROVE  LookInv'
<1>1. (IsLALR' <=> IsLALR) /\ (Comparable' <=> Comparable) /\ (\A i, n : TrueOf(i, n)' = TrueOf(i, n))
  <2>1. \A i, n : TrueOf(i, n)' = TrueOf(i, n)
    BY TrueKept DEF TrueOf
  <2>2. Comparable' <=> Comparable
    BY DEF Comparable, Canon
  <2> QED BY <2>1, <2>2 DEF IsLALR
<1> SUFFICES ASSUME IsLALR, Comparable PROVE NoneWrong' /\ NoneMissing'
  BY <1>1 DEF LookInv
<1>2. NoneWrong /\ NoneMissing
  BY DEF LookInv
<1>3. NoneWrong'
  BY <1>1, <1>2 DEF NoneWrong
<1>4. NoneMissing'
  BY <1>1, <1>2 DEF NoneMissing
<1> QED BY <1>3, <1>4

\* Nothing is done.
LEMMA SameLook ==
    ASSUME LookInv, UNCHANGED <<phase, grammar, method, at, states, kernels, table, modified>>
    PROVE  LookInv'
<1>1. (IsLALR' <=> IsLALR) /\ (Comparable' <=> Comparable) /\ (HasTwins' <=> HasTwins)
      /\ (\A i, n, d, j, k : Arrow(i, n, d, j, k)' <=> Arrow(i, n, d, j, k))
      /\ (\A i, n : TrueOf(i, n)' = TrueOf(i, n))
  <2>1. \A i, n : TrueOf(i, n)' = TrueOf(i, n)
    BY TrueKept DEF TrueOf
  <2>2. Comparable' <=> Comparable
    BY DEF Comparable, Canon
  <2>3. HasTwins' <=> HasTwins
    BY DEF HasTwins, Canon
  <2>4. \A i, n, d, j, k : Arrow(i, n, d, j, k)' <=> Arrow(i, n, d, j, k)
    BY DEF Arrow
  <2> QED BY <2>1, <2>2, <2>3, <2>4 DEF IsLALR
<1>2. (NoneWrong' <=> NoneWrong) /\ (NoneMissing' <=> NoneMissing)
  BY <1>1 DEF NoneWrong, NoneMissing
<1>3. (TableOfArrows' <=> TableOfArrows) /\ (\A u : LinkedBefore(u)' <=> LinkedBefore(u))
  BY <1>1 DEF TableOfArrows, LinkedBefore
<1>4. \A e : Carried(e)' <=> Carried(e)
  BY DEF Carried
<1> QED BY <1>1, <1>2, <1>3, <1>4 DEF LookInv

LEMMA ConstructLook ==
    ASSUME GraphInv, TransInv, LookInv, Construct
    PROVE  LookInv'
<1>1. CASE CloseState
  <2>1. phase = "close" /\ phase' \in {"close", "reductions"} /\ UNCHANGED <<grammar, method, kernels>>
    BY <1>1 DEF CloseState, Goto
  <2> QED BY <2>1, KernelsLook
<1>2. CASE BuildReductions
  <2>1. phase = "reductions" /\ phase' \in {"reductions", "done"} /\ UNCHANGED <<grammar, method, kernels>>
    BY <1>2 DEF BuildReductions, Goto
  <2> QED BY <2>1, KernelsLook
<1> QED BY <1>1, <1>2, BuildStateLook, GraphBuiltLook, BuildTableLook, PropagateLook, EndPassLook DEF Construct

LEMMA KernelsAre ==
    ASSUME GraphInv, LookInv, phase # "prepare" => NoDummy(grammar) /\ IsCanonical(grammar, Canon)
    PROVE  KernelsExact
<1> SUFFICES ASSUME IsLALR, phase \in {"close", "reductions", "done"}, HasPhrases(grammar),
                    NEW i \in DOMAIN kernels, NEW item \in Elements(kernels[i])
             PROVE  item.lookaheads = MergedLookaheads(i, item)
  BY DEF KernelsExact
<1>1. Comparable /\ IsInput(grammar)
  BY DEF Comparable, GraphInv
<1>2. NoneWrong /\ NoneMissing
  BY <1>1 DEF LookInv
<1>3. PICK n \in DOMAIN kernels[i] : item = kernels[i][n]
  BY DEF Elements
<1>4. MergedLookaheads(i, item) = TrueOf(i, n)
  BY <1>1, <1>3, MergedAre DEF TrueOf, Comparable
<1> QED BY <1>2, <1>3, <1>4 DEF NoneWrong, NoneMissing

\* The FIRSTS of a prepared grammar are terminals of it, and Epsilon.
LEMMA PreparedNoDummy ==
    ASSUME NEW g, IsPrepared(g)
    PROVE  NoDummy(g)
<1>1. /\ g.firsts = [r \in RulesOf(g) |-> [k \in ChoicesOf(g, r) |-> TrueFirsts(g, r, k)]]
      /\ \A p \in Places(g) : At(g, p) \in {g.symbols[i] : i \in DOMAIN g.symbols}
      /\ {Epsilon, Dummy} \cap SymbolsOf(g) = {}
  BY DEF IsPrepared, IsGrammar
<1>2. Dummy \notin SymbolsOf(g) /\ Dummy # Epsilon
  BY <1>1 DEF Dummy, Epsilon
<1>3. ASSUME NEW r \in RulesOf(g), NEW i \in DOMAIN BodyOf(g, r)
      PROVE  BodyOf(g, r)[i] \in SymbolsOf(g)
  <2>1. <<r, i>> \in Places(g)
    BY DEF Places
  <2>2. At(g, <<r, i>>) = BodyOf(g, r)[i]
    BY DEF At
  <2> QED BY <1>1, <2>1, <2>2 DEF SymbolsOf
<1>4. ASSUME NEW v PROVE Dummy \notin TrueVarFirsts(g, v)
  BY <1>2 DEF TrueVarFirsts, Smallest
<1>5. ASSUME NEW r \in RulesOf(g), NEW k \in ChoicesOf(g, r), Dummy \in TrueFirsts(g, r, k)
      PROVE  FALSE
  <2> DEFINE last == Len(BodyOf(g, r))
             Of(X) == IF X \in VariablesOf(g) THEN TrueVarFirsts(g, X) \ {Epsilon} ELSE {X}
  <2>1. PICK i \in k + 1 .. last : Dummy \in Of(BodyOf(g, r)[i])
    BY <1>2, <1>5 DEF TrueFirsts
  <2>2. i \in DOMAIN BodyOf(g, r)
    <3> DEFINE R == [head : STRING, body : Seq(STRING), context : Nat]
    <3>1. g.rules \in Seq(R)
      BY DEF IsPrepared, IsGrammar
    <3> HIDE DEF R
    <3>2. g.rules[r] \in R
      BY <3>1 DEF RulesOf
    <3>3. BodyOf(g, r) \in Seq(STRING)
      BY <3>2 DEF BodyOf, R
    <3>4. k \in Nat /\ last \in Nat /\ DOMAIN BodyOf(g, r) = 1 .. last
      BY <3>3 DEF ChoicesOf
    <3> QED BY <3>4
  <2> QED BY <1>2, <1>3, <1>4, <2>1, <2>2
<1> QED BY <1>1, <1>5 DEF NoDummy
-----------------------------------------------------------------------------
(***************************************************************************)
(* What the tables are read from.  An item that is not in the kernel of    *)
(* its state begins a rule that another item brings.                       *)
(***************************************************************************)
GrownFrom(g, K, B) == K \subseteq B /\ \A b \in B : b \in K \/ \E c \in B : b \in BroughtBy(g, c)

LEMMA CandidateBrought ==
    ASSUME NEW g, NEW x, NEW mode, NEW c \in Candidates(g, x, mode)
    PROVE  BaseOf(c) \in BroughtBy(g, BaseOf(x))
<1>1. ~ IsReduce(g, x)
  BY DEF Candidates
<1>2. PICK r \in RulesFor(g, NextSymbol(g, x)), la \in CandidateLookaheads(g, x, mode) : c = Item(r, 0, la)
  BY <1>1 DEF Candidates
<1>3. BroughtBy(g, BaseOf(x)) = {<<q, 0>> : q \in RulesFor(g, NextSymbol(g, x))}
  BY <1>1 DEF BroughtBy, BaseOf, IsReduce, NextSymbol
<1>4. BaseOf(c) = <<r, 0>>
  BY <1>2 DEF BaseOf, Item
<1> QED BY <1>2, <1>3, <1>4

LEMMA OneBaseMore ==
    ASSUME NEW g, NEW mode, NEW items \in Seq(ItemType(g)), NEW c \in ItemType(g)
    PROVE  /\ Bases(items) \subseteq Bases(WithCandidate(items, c, mode))
           /\ Bases(WithCandidate(items, c, mode)) \subseteq Bases(items) \cup {BaseOf(c)}
<1> DEFINE T == ItemType(g)
           new == WithCandidate(items, c, mode)
<1>1. CASE mode = "LALR1" /\ \E i \in DOMAIN items : SameBase(items[i], c)
  <2> DEFINE i == CHOOSE i \in DOMAIN items : SameBase(items[i], c)
             y == [items[i] EXCEPT !.lookaheads = @ \cup c.lookaheads]
  <2>1. i \in DOMAIN items
    BY <1>1
  <2>2. new = [items EXCEPT ![i].lookaheads = @ \cup c.lookaheads]
    BY <1>1 DEF WithCandidate
  <2> HIDE DEF i
  <2>3. new = [items EXCEPT ![i] = y]
    BY <2>2
  <2>4. items[i] \in [rule : RulesOf(g), position : Nat, lookaheads : SUBSET Marks(g)]
    BY <2>1 DEF ItemType
  <2>5. BaseOf(y) = BaseOf(items[i])
    BY <2>4 DEF BaseOf
  <2> HIDE DEF y, new
  <2>6. DOMAIN new = DOMAIN items /\ \A n \in DOMAIN items : BaseOf(new[n]) = BaseOf(items[n])
    BY <2>1, <2>3, <2>5
  <2>7. Bases(new) = Bases(items)
    BY <2>6, BasesKept
  <2> QED BY <2>7 DEF new
<1>2. CASE new = items
  BY <1>2
<1>3. CASE new = Append(items, c)
  <2> HIDE DEF T, new
  <2>1. items \in Seq(T)
    BY DEF T
  <2>2. /\ DOMAIN items = 1 .. Len(items) /\ Len(items) \in Nat /\ DOMAIN new = 1 .. Len(items) + 1
        /\ new[Len(items) + 1] = c /\ \A n \in DOMAIN items : new[n] = items[n]
    BY <1>3, <2>1
  <2>3. \A n \in DOMAIN new : n \in DOMAIN items \/ n = Len(items) + 1
    BY <2>2
  <2>4. Bases(items) = {BaseOf(items[n]) : n \in DOMAIN items} /\ Bases(new) = {BaseOf(new[n]) : n \in DOMAIN new}
    BY BasesAre
  <2>5. DOMAIN items \subseteq DOMAIN new
    BY <2>2
  <2>6. Bases(items) \subseteq Bases(new) /\ Bases(new) \subseteq Bases(items) \cup {BaseOf(c)}
    BY <2>2, <2>3, <2>4, <2>5
  <2> QED BY <2>6 DEF new
<1> QED BY <1>1, <1>2, <1>3 DEF WithCandidate

\* One step of the closure
LEMMA StepGrown ==
    ASSUME NEW g, IsInput(g), NEW mode \in Modes, NEW s \in Seq(ItemType(g)), NEW n, NEW K,
           GrownFrom(g, K, Bases(s))
    PROVE  GrownFrom(g, K, Bases(CloseStep(g, s, n, mode)))
<1>1. CASE n \notin DOMAIN s
  BY <1>1 DEF CloseStep
<1>2. CASE n \in DOMAIN s
  <2> DEFINE T == ItemType(g)
             x == s[n]
             more == Listed(Candidates(g, x, mode))
             V == {v \in Seq(T) : GrownFrom(g, K, Bases(v)) /\ BaseOf(x) \in Bases(v)}
  <2>1. Closable(g, T, mode) /\ s \in Seq(T)
    BY ClosableItems
  <2>2. x \in T /\ BaseOf(x) \in Bases(s)
    BY <1>2, BasesAre
  <2>3. more \in Seq(T) /\ Elements(more) = Candidates(g, x, mode)
    <3> HIDE DEF T, x
    <3> QED BY <2>1, <2>2, CandidatesListed
  <2>4. CloseStep(g, s, n, mode) = AddAll(s, more, mode)
    BY <1>2 DEF CloseStep
  <2>5. Len(more) \in Nat /\ DOMAIN more = 1 .. Len(more) /\ \A m \in 1 .. Len(more) : more[m] \in T
    <3> HIDE DEF T, more
    <3> QED BY <2>3
  <2> HIDE DEF x, more, V, T
  <2>6. PICK h : /\ h[0] = s
                 /\ \A m \in 1 .. Len(more) : h[m] = WithCandidate(h[m - 1], more[m], mode)
                 /\ \A m \in 0 .. Len(more) : h[m] \in Seq(T)
                 /\ AddAll(s, more, mode) = h[Len(more)]
    BY <2>1, <2>3, AddAllSteps
  <2>7. ASSUME NEW m \in 1 .. Len(more), h[m - 1] \in V
        PROVE  h[m] \in V
    <3> DEFINE old == h[m - 1]
               c == more[m]
               new == WithCandidate(old, c, mode)
    <3>1. old \in Seq(T) /\ GrownFrom(g, K, Bases(old)) /\ BaseOf(x) \in Bases(old)
      BY <2>7 DEF V
    <3>2. c \in Candidates(g, x, mode) /\ c \in T
      BY <2>3, <2>5 DEF Elements
    <3>3. m \in 0 .. Len(more)
      BY <2>5
    <3>4. h[m] = new /\ new \in Seq(T)
      BY <2>6, <3>3
    <3> HIDE DEF old, c
    <3>5. Bases(old) \subseteq Bases(new) /\ Bases(new) \subseteq Bases(old) \cup {BaseOf(c)}
      BY <3>1, <3>2, OneBaseMore DEF T
    <3>6. BaseOf(c) \in BroughtBy(g, BaseOf(x))
      BY <3>2, CandidateBrought
    <3> HIDE DEF new
    <3>7. GrownFrom(g, K, Bases(new)) /\ BaseOf(x) \in Bases(new)
      BY <3>1, <3>5, <3>6 DEF GrownFrom
    <3> QED BY <3>4, <3>7 DEF V
  <2>8. h[0] \in V
    BY <2>1, <2>2, <2>6 DEF V
  <2>9. h[Len(more)] \in V
    <3>1. \A m \in 0 .. Len(more) : h[m] \in V
      BY <2>5, <2>7, <2>8, StaysIn
    <3> QED BY <2>5, <3>1
  <2> QED BY <2>4, <2>6, <2>9 DEF V
<1> QED BY <1>1, <1>2

LEMMA ClosureGrown ==
    ASSUME NEW g, IsInput(g), NEW mode \in Modes, NEW kernel \in Items(g)
    PROVE  GrownFrom(g, Bases(kernel), Bases(Closure(g, kernel, mode)))
<1> DEFINE T == ItemType(g)
           K == Bases(kernel)
           N == MostItems(g, kernel)
           U == {s \in Seq(T) : GrownFrom(g, K, Bases(s))}
<1>1. kernel \in Seq(T) /\ Closable(g, T, mode)
  BY ClosableItems DEF Items
<1>2. N \in Nat
  BY <1>1, MostItemsIs
<1>3. PICK f : /\ f[0] = kernel
               /\ \A n \in 1 .. N : f[n] = CloseStep(g, f[n - 1], n, mode)
               /\ \A n \in 0 .. N : f[n] \in Seq(T)
               /\ Closure(g, kernel, mode) = f[N]
  BY <1>1, CloseSteps
<1>4. f[0] \in U
  BY <1>1, <1>3 DEF GrownFrom
<1>5. \A n \in 1 .. N : f[n - 1] \in U => f[n] \in U
  <2> SUFFICES ASSUME NEW n \in 1 .. N, f[n - 1] \in U PROVE f[n] \in U
    OBVIOUS
  <2>1. f[n - 1] \in Seq(T) /\ GrownFrom(g, K, Bases(f[n - 1]))
    OBVIOUS
  <2>2. n \in 0 .. N
    BY <1>2
  <2> HIDE DEF K, N
  <2>3. GrownFrom(g, K, Bases(CloseStep(g, f[n - 1], n, mode)))
    BY <2>1, StepGrown
  <2> QED BY <1>3, <2>2, <2>3
<1>6. f[N] \in U
  <2> HIDE DEF U, N
  <2>1. \A n \in 0 .. N : f[n] \in U
    BY <1>2, <1>4, <1>5, StaysIn
  <2> QED BY <1>2, <2>1
<1> QED BY <1>3, <1>6

Rooted(g, state) == GrownFrom(g, Bases(state.kernel), Bases(state.items))
IsMoved(kernel) == \A b \in Bases(kernel) : b[2] > 0
Reducible(g, state) ==
    \A q \in state.reductions : <<q.rule, Len(BodyOf(g, q.rule))>> \in Bases(state.items)

\* Only the kernel of the first state has items that have passed nothing.
GrownInv ==
    phase # "prepare" =>
        /\ \A i \in DOMAIN states : Rooted(grammar, states[i]) /\ (i # 1 => IsMoved(states[i].kernel))
        /\ ~ IsRNGLR /\ phase = "reductions" => \A i \in DOMAIN states : i < at => Reducible(grammar, states[i])
        /\ ~ IsRNGLR /\ phase \in {"done", "returned"} => \A i \in DOMAIN states : Reducible(grammar, states[i])

LEMMA GraphRooted ==
    ASSUME NEW g, IsInput(g), NEW mode \in {"LR0", "LR1"}, NEW graph \in Graphs(g, mode), NEW i \in DOMAIN graph
    PROVE  Rooted(g, graph[i])
<1>1. graph[i].items = Closure(g, graph[i].kernel, mode) /\ graph[i] \in State(g)
  BY GraphItems
<1>2. graph[i].kernel \in Items(g) /\ mode \in Modes
  BY <1>1 DEF State, Modes
<1> QED BY <1>1, <1>2, ClosureGrown DEF Rooted

LEMMA MovedForward ==
    ASSUME NEW g, IsInput(g), NEW items \in Items(g), NEW kernel, NEW X, Elements(kernel) = Moved(g, items, X)
    PROVE  IsMoved(kernel)
<1>1. \A x \in Elements(items) : x \in ItemType(g)
  BY DEF Elements, Items
<1>2. \A x \in Elements(items) : Child(x).position = x.position + 1 /\ x.position \in Nat
  BY <1>1 DEF ItemType, Child
<1>3. \A y \in Elements(kernel) : y.position > 0
  BY <1>2 DEF Moved
<1> QED BY <1>3 DEF IsMoved, Bases

LEMMA BuildStateGrown ==
    ASSUME GraphInv, GrownInv, BuildState
    PROVE  GrownInv'
<1>1. /\ phase = "graph" /\ phase' = "graph" /\ at \in DOMAIN states
      /\ states' = BuildAtState(grammar, states, at, GraphMode) /\ grammar' = grammar
  BY DEF BuildState
<1>2. IsInput(grammar) /\ states \in Graphs(grammar, GraphMode) /\ states \in Seq(State(grammar)) /\ Len(states) > 0
  BY <1>1 DEF GraphInv
<1>3. /\ states' \in Graphs(grammar, GraphMode)
      /\ \A j \in DOMAIN states : states'[j].kernel = states[j].kernel
  BY <1>1, <1>2, GraphModes, BuildIs
<1>6. \A j \in DOMAIN states' : j \in DOMAIN states \/
            \E X \in Awaited(grammar, states[at].items) :
                Elements(states'[j].kernel) = Moved(grammar, states[at].items, X)
  BY <1>1, <1>2, GraphModes, BuildIs
<1>4. ASSUME NEW i \in DOMAIN states', i # 1 PROVE IsMoved(states'[i].kernel)
  <2>1. CASE i \in DOMAIN states
    BY <1>1, <1>3, <1>4, <2>1 DEF GrownInv
  <2>2. CASE i \notin DOMAIN states
    <3>1. PICK X : Elements(states'[i].kernel) = Moved(grammar, states[at].items, X)
      BY <1>6, <2>2
    <3>2. states[at] \in State(grammar)
      BY <1>1, <1>2
    <3>3. states[at].items \in Items(grammar)
      BY <3>2 DEF State
    <3> QED BY <1>2, <3>1, <3>3, MovedForward
  <2> QED BY <2>1, <2>2
<1>5. ASSUME NEW i \in DOMAIN states' PROVE Rooted(grammar, states'[i])
  BY <1>2, <1>3, GraphModes, GraphRooted
<1> QED BY <1>1, <1>4, <1>5 DEF GrownInv

LEMMA CloseStateGrown ==
    ASSUME GraphInv, TransInv, GrownInv, CloseState
    PROVE  GrownInv'
<1> DEFINE closed == IntoState(grammar, kernels[at], "LALR1")
           state == [closed EXCEPT !.children = states[at].children,
                                   !.contexts = states[at].contexts]
<1>1. /\ phase = "close" /\ phase' \in {"close", "reductions"} /\ (phase' = "reductions" => at' = 1)
      /\ UNCHANGED <<grammar, method, kernels>>
      /\ states' = [states EXCEPT ![at] = state]
  BY DEF CloseState, Goto, Reclosed
<1>2. /\ IsInput(grammar) /\ states \in Seq(State(grammar)) /\ at \in DOMAIN states
      /\ kernels \in Seq(Items(grammar)) /\ Len(kernels) = Len(states) /\ at \in DOMAIN kernels
  BY <1>1 DEF GraphInv
<1>3. SameBases(kernels, states)
  BY <1>1 DEF TransInv
<1>4. state.kernel = kernels[at] /\ state.items = Closure(grammar, kernels[at], "LALR1")
  BY DEF IntoState
<1> HIDE DEF state
<1>5. Rooted(grammar, state)
  <2>1. kernels[at] \in Items(grammar) /\ "LALR1" \in Modes
    BY <1>2 DEF Modes
  <2> QED BY <1>2, <1>4, <2>1, ClosureGrown DEF Rooted
<1>6. Bases(state.kernel) = Bases(states[at].kernel)
  BY <1>2, <1>3, <1>4 DEF SameBases
<1>7. /\ DOMAIN states' = DOMAIN states /\ states'[at] = state
      /\ \A i \in DOMAIN states : i # at => states'[i] = states[i]
  BY <1>1, <1>2
<1>8. ASSUME NEW i \in DOMAIN states'
      PROVE  Rooted(grammar, states'[i]) /\ (i # 1 => IsMoved(states'[i].kernel))
  <2>1. Rooted(grammar, states[i]) /\ (i # 1 => IsMoved(states[i].kernel))
    BY <1>1, <1>7 DEF GrownInv
  <2> QED BY <1>5, <1>6, <1>7, <2>1 DEF IsMoved
<1>9. phase' = "reductions" => \A i \in DOMAIN states' : ~ i < at'
  BY <1>1, <1>2, <1>7
<1> QED BY <1>1, <1>8, <1>9 DEF GrownInv

LEMMA BuildReductionsGrown ==
    ASSUME GraphInv, GrownInv, BuildReductions
    PROVE  GrownInv'
<1> DEFINE reductions == {ReductionOf(states[at], c) :
                            c \in {d \in Candidate(states[at]) : Kept(states[at], d[1], d[2])}}
           state == [states[at] EXCEPT !.reductions = reductions]
<1>1. /\ phase = "reductions" /\ UNCHANGED <<grammar, method>>
      /\ IF at + 1 \in DOMAIN states THEN at' = at + 1 /\ phase' = phase ELSE phase' = "done"
      /\ states' = [states EXCEPT ![at] = state]
  BY DEF BuildReductions, ReductionOf, Goto
<1>2. /\ IsInput(grammar) /\ at \in Nat \ {0} /\ states \in Seq(State(grammar)) /\ at \in DOMAIN states
      /\ DOMAIN states = 1 .. Len(states) /\ Len(states) \in Nat
  BY <1>1 DEF GraphInv
<1>3. states[at] \in State(grammar)
  BY <1>2
<1>4. ASSUME ~ IsRNGLR, NEW q \in reductions
      PROVE  <<q.rule, Len(BodyOf(grammar, q.rule))>> \in Bases(states[at].items)
  <2>1. PICK c \in Candidate(states[at]) : q = ReductionOf(states[at], c)
    OBVIOUS
  <2>2. PICK n \in DOMAIN states[at].items : /\ Reduces(states[at].items[n])
                                             /\ \E t : t \in LookaheadsOf(states[at].items[n]) /\ c = <<n, t>>
    BY <2>1 DEF Candidate
  <2> DEFINE x == states[at].items[n]
  <2>3. q.rule = x.rule
    BY <2>1, <2>2 DEF ReductionOf
  <2>4. x.position = Len(BodyOf(grammar, x.rule))
    BY <1>4, <2>2 DEF Reduces, IsReduce
  <2>5. <<x.rule, x.position>> \in Bases(states[at].items)
    BY <2>2 DEF Bases, Elements
  <2> QED BY <2>3, <2>4, <2>5
<1> HIDE DEF reductions
<1>5. state.kernel = states[at].kernel /\ state.items = states[at].items /\ state.reductions = reductions
  BY <1>3 DEF State
<1> HIDE DEF state
<1>6. /\ DOMAIN states' = DOMAIN states /\ states'[at] = state
      /\ \A i \in DOMAIN states : i # at => states'[i] = states[i]
  BY <1>1, <1>2
<1>7. ASSUME NEW i \in DOMAIN states'
      PROVE  Rooted(grammar, states'[i]) /\ (i # 1 => IsMoved(states'[i].kernel))
  <2>1. Rooted(grammar, states[i]) /\ (i # 1 => IsMoved(states[i].kernel))
    BY <1>1, <1>6 DEF GrownInv
  <2> QED BY <1>5, <1>6, <2>1 DEF IsMoved, Rooted
<1>8. ASSUME ~ IsRNGLR, NEW i \in DOMAIN states', i < at + 1
      PROVE  Reducible(grammar, states'[i])
  <2>1. CASE i = at
    BY <1>4, <1>5, <1>6, <1>8, <2>1 DEF Reducible
  <2>2. CASE i # at
    <3>1. i < at /\ i \in DOMAIN states
      BY <1>2, <1>6, <1>8, <2>2
    <3>2. Reducible(grammar, states[i])
      BY <1>1, <1>8, <3>1 DEF GrownInv
    <3> QED BY <1>6, <2>2, <3>1, <3>2
  <2> QED BY <2>1, <2>2
<1>9. at + 1 \notin DOMAIN states => \A i \in DOMAIN states' : i < at + 1
  BY <1>2, <1>6
<1>10. IsRNGLR' = IsRNGLR
  BY <1>1 DEF IsRNGLR
<1> QED BY <1>1, <1>7, <1>8, <1>9, <1>10 DEF GrownInv

LEMMA ConstructGrown ==
    ASSUME GraphInv, TransInv, GrownInv, Construct
    PROVE  GrownInv'
<1>1. CASE GraphBuilt \/ BuildTable \/ Propagate \/ EndPass
  <2>1. /\ phase \in {"graph", "table", "propagate"} /\ phase' \in {"table", "propagate", "close", "reductions"}
        /\ (phase' = "reductions" => at' = 1) /\ UNCHANGED <<grammar, states>>
    BY <1>1 DEF GraphBuilt, BuildTable, Propagate, EndPass, Goto
  <2>2. DOMAIN states = 1 .. Len(states) /\ Len(states) \in Nat
    BY <2>1 DEF GraphInv
  <2>3. phase' = "reductions" => \A i \in DOMAIN states' : ~ i < at'
    BY <2>1, <2>2
  <2> QED BY <2>1, <2>3 DEF GrownInv
<1> QED BY <1>1, BuildStateGrown, CloseStateGrown, BuildReductionsGrown DEF Construct
=============================================================================
