-------------------------- MODULE LRClosure_proofs --------------------------
(***************************************************************************)
(* Proofs about the closure of LR items: it is typed, it holds every item  *)
(* that is called for in the three modes, and in LR(1) mode every          *)
(* lookahead too.                                                          *)
(***************************************************************************)
EXTENDS LRClosure, TLAPS

\* No rule uses the variable of the axiom
AxiomUnused(g) == \A p \in Places(g) : At(g, p) # g.rules[AxiomRule(g)].head

\* The grammar and the mode stay those of the input
Sourced ==
    /\ HasFirsts(grammar)
    /\ AxiomUnused(grammar)
    /\ mode \in Modes

LEMMA SeqElement ==
    ASSUME NEW S, NEW s \in Seq(S), NEW i \in DOMAIN s
    PROVE  i \in Nat \ {0} /\ s[i] \in S
  OBVIOUS

LEMMA ItemIsItem ==
    ASSUME NEW g, HasFirsts(g), NEW r \in RulesOf(g), NEW la \in SUBSET STRING
    PROVE  /\ Item(r, 0, la) \in ItemType
           /\ IsItem(g, Item(r, 0, la))
           /\ Item(r, 0, la).rule = r
           /\ Item(r, 0, la).position = 0
           /\ Item(r, 0, la).lookaheads = la
<1>1. g.rules \in Seq([head : STRING, body : Seq(STRING), context : Nat])
  BY DEF HasFirsts
<1>2. r \in Nat /\ g.rules[r] \in [head : STRING, body : Seq(STRING), context : Nat]
  BY <1>1, SeqElement DEF RulesOf
<1>3. BodyOf(g, r) \in Seq(STRING)
  BY <1>2 DEF BodyOf
<1>4. 0 \in ChoicesOf(g, r)
  BY <1>3 DEF ChoicesOf
<1> QED BY <1>2, <1>4 DEF Item, ItemType, IsItem

\* What may follow is made of terminals
LEMMA FollowingType ==
    ASSUME NEW g, HasFirsts(g), NEW item \in ItemType, IsItem(g, item),
           ~ IsReduce(g, item)
    PROVE  /\ Following(g, item) \in SUBSET STRING
           /\ item.position + 1 \in DOMAIN BodyOf(g, item.rule)
<1>1. g.rules[item.rule] \in [head : STRING, body : Seq(STRING), context : Nat]
  <2>1. g.rules \in Seq([head : STRING, body : Seq(STRING), context : Nat])
    BY DEF HasFirsts
  <2> QED BY <2>1, SeqElement DEF IsItem, RulesOf
<1>2. BodyOf(g, item.rule) \in Seq(STRING)
  BY <1>1 DEF BodyOf
<1>3. item.position \in 0 .. Len(BodyOf(g, item.rule)) /\ item.position \in Nat
  BY DEF IsItem, ChoicesOf, ItemType
<1>4. Len(BodyOf(g, item.rule)) \in Nat /\ item.position # Len(BodyOf(g, item.rule))
  BY <1>2 DEF IsReduce
<1>5. item.position + 1 \in 1 .. Len(BodyOf(g, item.rule))
  BY <1>3, <1>4
<1>6. item.position + 1 \in ChoicesOf(g, item.rule)
  BY <1>4, <1>5 DEF ChoicesOf
<1>7. g.firsts[item.rule][item.position + 1] \subseteq STRING
  BY <1>6 DEF HasFirsts, IsItem
<1> QED BY <1>2, <1>5, <1>7 DEF Following, ItemType

\* An item that some item may call for: it starts a rule that some rule uses,
\* and has the lookaheads of its mode
IsCalled(g, item) ==
    /\ item.position = 0
    /\ \E p \in Places(g) : At(g, p) = g.rules[item.rule].head
HasLookaheads(m, item) ==
    /\ m = "LR0" => item.lookaheads = {}
    /\ m = "LR1" => \E t : item.lookaheads = {t}

\* A candidate starts a rule whose head some rule uses; it has one lookahead in
\* LR(1) mode, and none in LR(0) mode
LEMMA CandidateFacts ==
    ASSUME NEW g, HasFirsts(g), NEW m \in Modes,
           NEW item \in ItemType, IsItem(g, item),
           NEW c \in Candidates(g, item, m)
    PROVE  c \in ItemType /\ IsItem(g, c) /\ IsCalled(g, c) /\ HasLookaheads(m, c)
<1>1. ~ IsReduce(g, item)
  BY DEF Candidates
<1>2. PICK r \in RulesFor(g, NextSymbol(g, item)),
           la \in CandidateLookaheads(g, item, m) : c = Item(r, 0, la)
  BY <1>1 DEF Candidates
<1>3. r \in RulesOf(g) /\ g.rules[r].head = NextSymbol(g, item)
  BY DEF RulesFor
<1>4. Following(g, item) \in SUBSET STRING
      /\ item.position + 1 \in DOMAIN BodyOf(g, item.rule)
  BY <1>1, FollowingType
<1>5. /\ la \in SUBSET STRING
      /\ m = "LR0" => la = {}
      /\ m = "LR1" => \E t : la = {t}
  BY <1>4 DEF CandidateLookaheads, Modes
<1>6. /\ c \in ItemType /\ IsItem(g, c) /\ c.position = 0
      /\ c.rule = r /\ c.lookaheads = la
  BY <1>2, <1>3, <1>5, ItemIsItem
<1>7. \E p \in Places(g) : At(g, p) = g.rules[c.rule].head
  <2> DEFINE p == <<item.rule, item.position + 1>>
  <2>1. p \in Places(g)
    BY <1>4 DEF Places, IsItem
  <2>2. At(g, p) = NextSymbol(g, item)
    BY DEF At, NextSymbol
  <2> QED BY <2>1, <2>2, <1>3, <1>6
<1> QED BY <1>5, <1>6, <1>7 DEF IsCalled, HasLookaheads

\* The lookaheads an item has do not change which rules it calls for
LEMMA CandidateBases ==
    ASSUME NEW g, NEW a, NEW b, SameBase(a, b),
           NEW c \in Candidates(g, a, "LALR1")
    PROVE  \E d \in Candidates(g, b, "LALR1") : SameBase(c, d)
<1>1. ~ IsReduce(g, a) /\ ~ IsReduce(g, b) /\ NextSymbol(g, a) = NextSymbol(g, b)
  BY DEF Candidates, IsReduce, NextSymbol, SameBase
<1>2. PICK r \in RulesFor(g, NextSymbol(g, a)) : c = Item(r, 0, Following(g, a))
  BY <1>1 DEF Candidates, CandidateLookaheads
<1>3. Item(r, 0, Following(g, b)) \in Candidates(g, b, "LALR1")
  BY <1>1, <1>2 DEF Candidates, CandidateLookaheads
<1> QED BY <1>2, <1>3 DEF SameBase, Item
-----------------------------------------------------------------------------
Called(item) == IsCalled(grammar, item)
LookaheadsOfMode(item) == HasLookaheads(mode, item)

Shape ==
    /\ \A i \in DOMAIN items : Called(items[i]) => LookaheadsOfMode(items[i])
    /\ \A c \in rest : Called(c) /\ LookaheadsOfMode(c)
    /\ rest # {} => index \in DOMAIN items

\* What the items closed so far call for is in the closure; for the item being
\* closed, it may also be among the candidates that remain
BasesDone ==
    \A i \in DOMAIN items : i <= index =>
        \A c \in Candidates(grammar, items[i], mode) :
            \/ \E j \in DOMAIN items : SameBase(items[j], c)
            \/ i = index /\ \E d \in rest : SameBase(d, c)

ItemsDone ==
    mode # "LALR1" =>
        \A i \in DOMAIN items : i <= index =>
            \A c \in Candidates(grammar, items[i], mode) :
                \/ \E j \in DOMAIN items : items[j] = c
                \/ i = index /\ c \in rest

IInv == TypeOK /\ Sourced /\ Shape /\ BasesDone /\ ItemsDone /\ NoDuplicate

LEMMA InitInv == Init => IInv
<1> SUFFICES ASSUME Init PROVE IInv
  OBVIOUS
<1>1. PICK in \in Inputs : /\ grammar = in.grammar
                           /\ mode = in.mode
                           /\ items = in.kernel
                           /\ index = 1
                           /\ rest = IF 1 \in DOMAIN in.kernel
                                     THEN Candidates(in.grammar, in.kernel[1], in.mode)
                                     ELSE {}
  BY DEF Init
<1>2. /\ in.mode \in Modes
      /\ HasFirsts(in.grammar)
      /\ AxiomUnused(in.grammar)
      /\ in.kernel \in Seq(ItemType)
      /\ IsKernel(in.grammar, in.mode, in.kernel)
  BY InputsAssumption DEF AxiomUnused, ItemType
<1>3. Sourced
  BY <1>1, <1>2 DEF Sourced
<1>4. \A i \in DOMAIN items : /\ items[i] \in ItemType
                              /\ IsItem(grammar, items[i])
                              /\ items[i].position > 0 \/ items[i].rule = AxiomRule(grammar)
  BY <1>1, <1>2, SeqElement DEF IsKernel
<1>5. \A c \in rest : /\ c \in ItemType
                      /\ IsItem(grammar, c)
                      /\ Called(c)
                      /\ LookaheadsOfMode(c)
  <2> SUFFICES ASSUME NEW c \in rest
               PROVE  c \in ItemType /\ IsItem(grammar, c) /\ Called(c) /\ LookaheadsOfMode(c)
    OBVIOUS
  <2>1. 1 \in DOMAIN items /\ c \in Candidates(grammar, items[1], mode)
    BY <1>1
  <2>2. HasFirsts(grammar) /\ mode \in Modes /\ items[1] \in ItemType /\ IsItem(grammar, items[1])
    BY <2>1, <1>3, <1>4 DEF Sourced
  <2>3. c \in ItemType /\ IsItem(grammar, c) /\ IsCalled(grammar, c) /\ HasLookaheads(mode, c)
    BY <2>1, <2>2, CandidateFacts
  <2> QED BY <2>3 DEF Called, LookaheadsOfMode
<1>6. TypeOK
  BY <1>1, <1>2, <1>4, <1>5 DEF TypeOK
<1>7. \A i \in DOMAIN items : ~ Called(items[i])
  <2> SUFFICES ASSUME NEW i \in DOMAIN items, Called(items[i])
               PROVE  FALSE
    OBVIOUS
  <2>1. items[i].position = 0 /\ items[i].rule = AxiomRule(grammar)
    BY <1>4 DEF Called, IsCalled
  <2> QED BY <2>1, <1>1, <1>2 DEF Called, IsCalled, AxiomUnused
<1>8. Shape
  BY <1>1, <1>5, <1>7 DEF Shape
<1>9. \A i \in DOMAIN items : i <= index => i = 1 /\ rest = Candidates(grammar, items[1], mode)
  BY <1>1, <1>2, SeqElement
<1>10. BasesDone
  BY <1>1, <1>9 DEF BasesDone, SameBase
<1>11. ItemsDone
  BY <1>1, <1>9 DEF ItemsDone
<1>12. NoDuplicate
  BY <1>1, <1>2 DEF NoDuplicate, IsKernel
<1> QED BY <1>3, <1>6, <1>8, <1>10, <1>11, <1>12 DEF IInv

\* The closure with one candidate more: in LALR(1) mode the item that has the
\* base of the candidate grows, if there is one
LEMMA AddedItems ==
    ASSUME IInv, NEW c \in rest, items' = WithCandidate(items, c, mode)
    PROVE  /\ items' \in Seq(ItemType)
           /\ Len(items') >= Len(items)
           /\ \A i \in DOMAIN items : i \in DOMAIN items' /\ SameBase(items'[i], items[i])
           /\ mode # "LALR1" => \A i \in DOMAIN items : items'[i] = items[i]
           /\ \A i \in DOMAIN items' : i \in DOMAIN items \/ items'[i] = c
           /\ \E i \in DOMAIN items' : SameBase(items'[i], c)
           /\ mode # "LALR1" => \E i \in DOMAIN items' : items'[i] = c
           /\ Distinct(mode, items')
<1>1. /\ items \in Seq(ItemType)
      /\ c \in ItemType
      /\ Called(c) /\ LookaheadsOfMode(c)
      /\ Distinct(mode, items)
  BY DEF IInv, TypeOK, Shape, NoDuplicate
<1>2. CASE mode = "LALR1" /\ \E i \in DOMAIN items : SameBase(items[i], c)
  <2> DEFINE k == CHOOSE i \in DOMAIN items : SameBase(items[i], c)
  <2>1. k \in DOMAIN items /\ SameBase(items[k], c)
    BY <1>2
  <2>2. items' = [items EXCEPT ![k].lookaheads = @ \cup c.lookaheads]
    BY <1>2 DEF WithCandidate
  <2> HIDE DEF k
  <2>3. items[k] \in ItemType
    BY <1>1, <2>1, SeqElement
  <2>4. /\ DOMAIN items' = DOMAIN items
        /\ items'[k] = [items[k] EXCEPT !.lookaheads = @ \cup c.lookaheads]
        /\ \A i \in DOMAIN items : i # k => items'[i] = items[i]
    BY <2>1, <2>2
  <2>5. items'[k] \in ItemType /\ SameBase(items'[k], items[k])
    BY <1>1, <2>3, <2>4 DEF ItemType, SameBase
  <2>6. items' \in Seq(ItemType) /\ Len(items') = Len(items)
    BY <1>1, <2>1, <2>2, <2>4, <2>5
  <2>7. \A i \in DOMAIN items : SameBase(items'[i], items[i])
    BY <2>4, <2>5 DEF SameBase
  <2>8. SameBase(items'[k], c)
    BY <2>1, <2>5 DEF SameBase
  <2>9. Distinct(mode, items')
    BY <1>1, <1>2, <2>4, <2>7 DEF Distinct, SameBase, SameItem
  <2> QED BY <1>1, <1>2, <2>1, <2>4, <2>6, <2>7, <2>8, <2>9
<1>3. CASE mode # "LALR1" /\ Has(items, c)
  <2>1. items' = items
    BY <1>3 DEF WithCandidate
  <2>2. PICK k \in DOMAIN items : SameItem(items[k], c)
    BY <1>3 DEF Has, Elements
  <2>3. SameBase(items[k], c) /\ items[k].lookaheads \subseteq c.lookaheads
    BY <2>2 DEF SameItem
  <2>4. items[k] \in ItemType
    BY <1>1, SeqElement
  <2>5. Called(items[k])
    BY <1>1, <2>3 DEF Called, IsCalled, SameBase
  <2>6. LookaheadsOfMode(items[k]) /\ (mode = "LR0" \/ mode = "LR1")
    BY <1>3, <2>5 DEF IInv, Shape, TypeOK, Modes
  <2>7. items[k].lookaheads = c.lookaheads
    BY <1>1, <2>3, <2>6 DEF LookaheadsOfMode, HasLookaheads
  <2>8. items[k] = c
    BY <1>1, <2>3, <2>4, <2>7 DEF ItemType, SameBase
  <2> QED BY <1>1, <1>3, <2>1, <2>3, <2>8 DEF SameBase
<1>4. CASE /\ ~ (mode = "LALR1" /\ \E i \in DOMAIN items : SameBase(items[i], c))
           /\ ~ (mode # "LALR1" /\ Has(items, c))
  <2>1. items' = Append(items, c)
    BY <1>4 DEF WithCandidate
  <2>2. /\ items' \in Seq(ItemType)
        /\ Len(items') = Len(items) + 1
        /\ \A i \in DOMAIN items : i \in DOMAIN items' /\ items'[i] = items[i]
        /\ Len(items) + 1 \in DOMAIN items' /\ items'[Len(items) + 1] = c
        /\ \A i \in DOMAIN items' : i \in DOMAIN items \/ i = Len(items) + 1
    BY <1>1, <2>1
  <2>3. \A i \in DOMAIN items : /\ ~ SameItem(items[i], c)
                                /\ ~ SameItem(c, items[i])
                                /\ mode = "LALR1" => ~ SameBase(items[i], c)
    <3> SUFFICES ASSUME NEW i \in DOMAIN items
                 PROVE  /\ ~ SameItem(items[i], c)
                        /\ ~ SameItem(c, items[i])
                        /\ mode = "LALR1" => ~ SameBase(items[i], c)
      OBVIOUS
    <3>1. mode = "LALR1" => ~ SameBase(items[i], c)
      BY <1>4
    <3>2. CASE mode = "LALR1"
      BY <3>1, <3>2 DEF SameItem, SameBase
    <3>3. CASE mode # "LALR1"
      <4>1. ~ SameItem(items[i], c)
        BY <1>4, <3>3 DEF Has, Elements
      <4>2. ASSUME SameItem(c, items[i]) PROVE FALSE
        <5>1. SameBase(items[i], c) /\ c.lookaheads \subseteq items[i].lookaheads
          BY <4>2 DEF SameItem, SameBase
        <5>2. Called(items[i])
          BY <1>1, <5>1 DEF Called, IsCalled, SameBase
        <5>3. LookaheadsOfMode(items[i]) /\ (mode = "LR0" \/ mode = "LR1")
          BY <3>3, <5>2 DEF IInv, Shape, TypeOK, Modes
        <5>4. items[i].lookaheads = c.lookaheads
          BY <1>1, <5>1, <5>3 DEF LookaheadsOfMode, HasLookaheads
        <5> QED BY <4>1, <5>1, <5>4 DEF SameItem
      <4> QED BY <3>1, <4>1, <4>2
    <3> QED BY <3>2, <3>3
  <2>4. Distinct(mode, items')
    BY <1>1, <2>2, <2>3 DEF Distinct, SameBase
  <2> QED BY <1>1, <2>2, <2>4 DEF SameBase
<1> QED BY <1>2, <1>3, <1>4

\* A candidate is added: nothing that was there is lost
LEMMA AddCandidateInv == IInv /\ AddCandidate => IInv'
<1> SUFFICES ASSUME IInv, AddCandidate PROVE IInv'
  OBVIOUS
<1> DEFINE c == CHOOSE x \in rest : TRUE
<1>1. /\ c \in rest
      /\ items' = WithCandidate(items, c, mode)
      /\ rest' = rest \ {c}
      /\ UNCHANGED <<grammar, mode, index>>
  BY DEF AddCandidate
<1> HIDE DEF c
<1>2. /\ items' \in Seq(ItemType)
      /\ Len(items') >= Len(items)
      /\ \A i \in DOMAIN items : i \in DOMAIN items' /\ SameBase(items'[i], items[i])
      /\ mode # "LALR1" => \A i \in DOMAIN items : items'[i] = items[i]
      /\ \A i \in DOMAIN items' : i \in DOMAIN items \/ items'[i] = c
      /\ \E i \in DOMAIN items' : SameBase(items'[i], c)
      /\ mode # "LALR1" => \E i \in DOMAIN items' : items'[i] = c
      /\ Distinct(mode, items')
  BY <1>1, AddedItems
<1>3. /\ TypeOK /\ Sourced /\ Shape /\ BasesDone /\ ItemsDone
  BY DEF IInv
<1>4. /\ c \in ItemType /\ IsItem(grammar, c) /\ Called(c) /\ LookaheadsOfMode(c)
  BY <1>1, <1>3 DEF TypeOK, Shape
<1>5. TypeOK'
  <2>1. items \in Seq(ItemType) /\ index \in 1 .. Len(items) + 1
    BY <1>3 DEF TypeOK
  <2>2. index' \in 1 .. Len(items') + 1
    BY <2>1, <1>1, <1>2
  <2>3. \A i \in DOMAIN items' : IsItem(grammar, items'[i])
    <3> SUFFICES ASSUME NEW i \in DOMAIN items' PROVE IsItem(grammar, items'[i])
      OBVIOUS
    <3>1. CASE i \in DOMAIN items
      <4>1. IsItem(grammar, items[i]) /\ SameBase(items'[i], items[i])
        BY <3>1, <1>2, <1>3 DEF TypeOK
      <4> QED BY <4>1 DEF IsItem, SameBase
    <3>2. CASE items'[i] = c
      BY <3>2, <1>4
    <3> QED BY <3>1, <3>2, <1>2
  <2> QED BY <1>1, <1>2, <1>3, <2>2, <2>3 DEF TypeOK
<1>6. Sourced'
  BY <1>1, <1>3 DEF Sourced
<1>7. Shape'
  <2>1. \A i \in DOMAIN items' : Called(items'[i]) => LookaheadsOfMode(items'[i])
    <3> SUFFICES ASSUME NEW i \in DOMAIN items', Called(items'[i])
                 PROVE  LookaheadsOfMode(items'[i])
      OBVIOUS
    <3>1. CASE items'[i] = c
      BY <3>1, <1>4
    <3>2. CASE mode = "LALR1"
      BY <3>2 DEF LookaheadsOfMode, HasLookaheads
    <3>3. CASE i \in DOMAIN items /\ mode # "LALR1"
      BY <3>3, <1>2, <1>3 DEF Shape
    <3> QED BY <3>1, <3>2, <3>3, <1>2
  <2>2. index' \in DOMAIN items'
    BY <1>1, <1>2, <1>3 DEF Shape
  <2> QED BY <2>1, <2>2, <1>1, <1>3 DEF Shape, Called, LookaheadsOfMode
<1>8. BasesDone'
  <2> SUFFICES ASSUME NEW i \in DOMAIN items', i <= index,
                      NEW d \in Candidates(grammar, items'[i], mode)
               PROVE  \/ \E j \in DOMAIN items' : SameBase(items'[j], d)
                      \/ i = index /\ \E e \in rest \ {c} : SameBase(e, d)
    BY <1>1 DEF BasesDone
  <2>1. CASE i \in DOMAIN items
    <3>1. PICK e \in Candidates(grammar, items[i], mode) : SameBase(e, d)
      <4>1. CASE mode = "LALR1"
        <5>1. SameBase(items'[i], items[i])
          BY <2>1, <1>2
        <5>2. \E e \in Candidates(grammar, items[i], "LALR1") : SameBase(d, e)
          BY <4>1, <5>1, CandidateBases
        <5> QED BY <4>1, <5>2 DEF SameBase
      <4>2. CASE mode # "LALR1"
        BY <4>2, <2>1, <1>2 DEF SameBase
      <4> QED BY <4>1, <4>2
    <3>2. \/ \E j \in DOMAIN items : SameBase(items[j], e)
          \/ i = index /\ \E f \in rest : SameBase(f, e)
      BY <2>1, <1>3 DEF BasesDone
    <3>3. CASE \E j \in DOMAIN items : SameBase(items[j], e)
      BY <3>1, <3>3, <1>2 DEF SameBase
    <3>4. CASE i = index /\ \E f \in rest : SameBase(f, e)
      <4>1. PICK f \in rest : SameBase(f, e)
        BY <3>4
      <4>2. CASE f = c
        BY <3>1, <4>1, <4>2, <1>2 DEF SameBase
      <4>3. CASE f # c
        BY <3>1, <3>4, <4>1, <4>3 DEF SameBase
      <4> QED BY <4>2, <4>3
    <3> QED BY <3>2, <3>3, <3>4
  <2>2. CASE i \notin DOMAIN items
    <3>1. items \in Seq(ItemType) /\ index \in 1 .. Len(items)
      BY <1>1, <1>3 DEF Shape, TypeOK
    <3>2. i \in 1 .. Len(items)
      BY <3>1, <1>2, SeqElement
    <3> QED BY <2>2, <3>1, <3>2
  <2> QED BY <2>1, <2>2
<1>9. ItemsDone'
  <2> SUFFICES ASSUME mode # "LALR1",
                      NEW i \in DOMAIN items', i <= index,
                      NEW d \in Candidates(grammar, items'[i], mode)
               PROVE  \/ \E j \in DOMAIN items' : items'[j] = d
                      \/ i = index /\ d \in rest \ {c}
    BY <1>1 DEF ItemsDone
  <2>1. i \in DOMAIN items
    <3>1. items \in Seq(ItemType) /\ index \in 1 .. Len(items)
      BY <1>1, <1>3 DEF Shape, TypeOK
    <3>2. i \in 1 .. Len(items)
      BY <3>1, <1>2, SeqElement
    <3> QED BY <3>1, <3>2
  <2>2. items'[i] = items[i]
    BY <2>1, <1>2
  <2>3. \/ \E j \in DOMAIN items : items[j] = d
        \/ i = index /\ d \in rest
    BY <2>1, <2>2, <1>3 DEF ItemsDone
  <2> QED BY <2>3, <1>2
<1>10. NoDuplicate'
  BY <1>1, <1>2 DEF NoDuplicate
<1> QED BY <1>5, <1>6, <1>7, <1>8, <1>9, <1>10 DEF IInv

\* The next item is taken when nothing remains of the one before
LEMMA CloseNextInv == IInv /\ CloseNext => IInv'
<1> SUFFICES ASSUME IInv, CloseNext PROVE IInv'
  OBVIOUS
<1>1. /\ rest = {} /\ index \in DOMAIN items
      /\ index' = index + 1
      /\ rest' = CandidatesAt(items, index + 1)
      /\ UNCHANGED <<grammar, mode, items>>
  BY DEF CloseNext, NextIndex
<1>2. TypeOK /\ Sourced /\ Shape /\ BasesDone /\ ItemsDone
  BY DEF IInv
<1>3. items \in Seq(ItemType) /\ index \in 1 .. Len(items)
  BY <1>1, <1>2 DEF TypeOK
<1>4. \A x \in rest' : /\ index + 1 \in DOMAIN items
                       /\ x \in Candidates(grammar, items[index + 1], mode)
                       /\ x \in ItemType /\ IsItem(grammar, x)
                       /\ Called(x) /\ LookaheadsOfMode(x)
  <2> SUFFICES ASSUME NEW x \in rest'
               PROVE  /\ index + 1 \in DOMAIN items
                      /\ x \in Candidates(grammar, items[index + 1], mode)
                      /\ x \in ItemType /\ IsItem(grammar, x)
                      /\ Called(x) /\ LookaheadsOfMode(x)
    OBVIOUS
  <2>1. index + 1 \in DOMAIN items /\ x \in Candidates(grammar, items[index + 1], mode)
    BY <1>1 DEF CandidatesAt
  <2>2. items[index + 1] \in ItemType /\ IsItem(grammar, items[index + 1])
    BY <2>1, <1>2, <1>3, SeqElement DEF TypeOK
  <2>3. HasFirsts(grammar) /\ mode \in Modes
    BY <1>2 DEF Sourced
  <2>4. x \in ItemType /\ IsItem(grammar, x) /\ IsCalled(grammar, x) /\ HasLookaheads(mode, x)
    BY <2>1, <2>2, <2>3, CandidateFacts
  <2> QED BY <2>1, <2>4 DEF Called, LookaheadsOfMode
<1>5. TypeOK'
  BY <1>1, <1>2, <1>3, <1>4 DEF TypeOK, IsItem
<1>6. Sourced'
  BY <1>1, <1>2 DEF Sourced
<1>7. Shape'
  BY <1>1, <1>2, <1>4 DEF Shape, Called, LookaheadsOfMode
<1>8. \A i \in DOMAIN items : i <= index + 1 =>
        i <= index \/ (i = index + 1 /\ rest' = Candidates(grammar, items[i], mode))
  BY <1>1, <1>3, SeqElement DEF CandidatesAt
<1>9. BasesDone'
  <2>1. \A i \in DOMAIN items : i <= index =>
            \A x \in Candidates(grammar, items[i], mode) :
                \E j \in DOMAIN items : SameBase(items[j], x)
    BY <1>1, <1>2 DEF BasesDone
  <2> QED BY <2>1, <1>1, <1>8 DEF BasesDone, SameBase
<1>10. ItemsDone'
  <2>1. mode # "LALR1" => \A i \in DOMAIN items : i <= index =>
            \A x \in Candidates(grammar, items[i], mode) :
                \E j \in DOMAIN items : items[j] = x
    BY <1>1, <1>2 DEF ItemsDone
  <2> QED BY <2>1, <1>1, <1>8 DEF ItemsDone
<1>11. NoDuplicate'
  BY <1>1 DEF IInv, NoDuplicate
<1> QED BY <1>5, <1>6, <1>7, <1>9, <1>10, <1>11 DEF IInv

LEMMA Inductive == IInv /\ [Next]_vars => IInv'
<1> SUFFICES ASSUME IInv, [Next]_vars PROVE IInv'
  OBVIOUS
<1>1. CASE AddCandidate
  BY <1>1, AddCandidateInv
<1>2. CASE CloseNext
  BY <1>2, CloseNextInv
<1>3. CASE UNCHANGED vars
  BY <1>3 DEF vars, IInv, TypeOK, Sourced, Shape, BasesDone, ItemsDone, Called, LookaheadsOfMode,
               NoDuplicate
<1> QED BY <1>1, <1>2, <1>3 DEF Next

LEMMA Invariant == Spec => []IInv
<1> QED BY InitInv, Inductive, PTL DEF Spec
-----------------------------------------------------------------------------
\* The closure is always made of items of the grammar (into_state, close_to).
THEOREM TypeCorrect == Spec => []TypeOK
<1>1. IInv => TypeOK
  BY DEF IInv
<1> QED BY <1>1, Invariant, PTL

\* No item is closed, shifted or reduced twice, in the three modes.
THEOREM ItemsAreDistinct == Spec => []NoDuplicate
<1>1. IInv => NoDuplicate
  BY DEF IInv
<1> QED BY <1>1, Invariant, PTL

\* For every grammar, kernel and mode, a closed state holds every item that its
\* items call for: the loop of into_state over a list that grows misses none.
THEOREM ItemsAreComplete == Spec => []ItemsComplete
<1>1. IInv => ItemsComplete
  <2> SUFFICES ASSUME IInv, Closed, NEW i \in DOMAIN items,
                      NEW c \in Candidates(grammar, items[i], mode)
               PROVE  \E j \in DOMAIN items : SameBase(items[j], c)
    BY DEF ItemsComplete
  <2>1. items \in Seq(ItemType) /\ index \in Nat /\ index > Len(items) /\ rest = {}
    BY DEF IInv, TypeOK, Closed
  <2>2. i <= index /\ i # index
    BY <2>1
  <2> QED BY <2>2 DEF IInv, BasesDone
<1> QED BY <1>1, Invariant, PTL

\* For every grammar and kernel, a state closed in LR(1) mode has for each rule
\* every terminal that may follow its head there: the LR(1) table loses none.
THEOREM LookaheadsAreComplete == Spec => []LookaheadsComplete
<1>1. IInv => LookaheadsComplete
  <2> SUFFICES ASSUME IInv, Closed, mode = "LR1",
                      NEW i \in DOMAIN items,
                      ~ IsReduce(grammar, items[i]),
                      NEW r \in RulesFor(grammar, NextSymbol(grammar, items[i])),
                      NEW t \in Following(grammar, items[i])
               PROVE  t \in Expected(r)
    BY DEF LookaheadsComplete
  <2>1. items \in Seq(ItemType) /\ index \in Nat /\ index > Len(items) /\ rest = {}
    BY DEF IInv, TypeOK, Closed
  <2>2. i <= index /\ i # index
    BY <2>1
  <2>3. Item(r, 0, {t}) \in Candidates(grammar, items[i], mode)
    BY DEF Candidates, CandidateLookaheads
  <2>4. PICK j \in DOMAIN items : items[j] = Item(r, 0, {t})
    BY <2>2, <2>3 DEF IInv, ItemsDone
  <2>5. t \in items[j].lookaheads /\ SameBase(items[j], Item(r, 0, {}))
    BY <2>4 DEF Item, SameBase
  <2> QED BY <2>5 DEF Expected
<1> QED BY <1>1, Invariant, PTL
=============================================================================
