-------------------------- MODULE LRkParser_proofs --------------------------
(***************************************************************************)
(* Proofs about the driver of the LR(k) parser: for every automaton that   *)
(* is well formed, whatever the tokens, its stack spells a path of the     *)
(* automaton, no reduction goes out of it, and what it accepts is a        *)
(* sentence of its grammar.                                                *)
(***************************************************************************)
EXTENDS LRkParser, FiniteSetTheorems, TLAPS

\* A reduction under way was called for by the state on the top of the stack
Called ==
    status = "reduce" =>
        \E X \in SymbolsOf(automaton) :
            /\ Action(Top.state, X).code = "REDUCE"
            /\ Action(Top.state, X).data = reduction.prod

\* What TLC knows from the values: subtrees is a sequence, a reduction a record
IsSequence(s) == Len(s) \in Nat /\ s = [i \in 1 .. Len(s) |-> s[i]]
Shaped ==
    /\ IsSequence(subtrees)
    /\ status = "reduce" =>
        reduction = [prod |-> reduction.prod, cache |-> reduction.cache,
                     popCount |-> reduction.popCount, ip |-> reduction.ip]

Driven == TypeOK /\ ItemsBacked /\ Called /\ Shaped

\* The symbols of the stack are those that the items of its states have passed.
Passed(a, st) ==
    /\ st[1].state = 1
    /\ \A n \in 2 .. Len(st) :
        /\ st[n].state # 1
        /\ \A i \in a.items[st[n].state] : i[2] > 0 => a.rules[i[1]].body[i[2]] = st[n].symbol

\* Once Dollar is on the stack the driver is done: nothing is reduced after it, the rule
\* of the axiom included.
EndTaken ==
    (\E n \in DOMAIN stack : stack[n].symbol = Dollar) => status \in {"next", "accepted"} /\ Ended

IInv == Driven /\ Passed(automaton, stack) /\ EndTaken

Entry(a) == [state : StatesOf(a), symbol : SymbolsOf(a) \cup {"none"}]
-----------------------------------------------------------------------------
LEMMA SeqElement ==
    ASSUME NEW S, NEW s \in Seq(S), NEW i \in DOMAIN s
    PROVE  i \in Nat \ {0} /\ s[i] \in S
  OBVIOUS

LEMMA SequenceOf ==
    ASSUME NEW s
    PROVE  IsSequence(s) <=> \E S : s \in Seq(S)
<1>1. ASSUME IsSequence(s) PROVE \E S : s \in Seq(S)
  <2>1. s \in Seq({s[i] : i \in 1 .. Len(s)})
    BY <1>1 DEF IsSequence
  <2> QED BY <2>1
<1>2. ASSUME NEW S, s \in Seq(S) PROVE IsSequence(s)
  BY <1>2 DEF IsSequence
<1> QED BY <1>1, <1>2

LEMMA AppendIsSequence ==
    ASSUME NEW s, IsSequence(s), NEW x
    PROVE  IsSequence(Append(s, x)) /\ Len(Append(s, x)) = Len(s) + 1
<1>1. PICK S : s \in Seq(S)
  BY SequenceOf
<1>2. s \in Seq(S \cup {x}) /\ x \in S \cup {x}
  BY <1>1
<1>3. Append(s, x) \in Seq(S \cup {x}) /\ Len(Append(s, x)) = Len(s) + 1
  BY <1>2
<1> QED BY <1>3, SequenceOf

LEMMA TruncatedIsSequence ==
    ASSUME NEW s, IsSequence(s), NEW n \in 0 .. Len(s)
    PROVE  IsSequence(Truncated(s, n)) /\ Len(Truncated(s, n)) = Len(s) - n
<1>1. PICK S : s \in Seq(S)
  BY SequenceOf
<1>2. Len(s) \in Nat
  BY <1>1
<1>3. Truncated(s, n) \in Seq(S) /\ Len(Truncated(s, n)) = Len(s) - n
  BY <1>1, <1>2 DEF Truncated
<1> QED BY <1>3, SequenceOf

LEMMA TruncatedType ==
    ASSUME NEW S, NEW s \in Seq(S), NEW n \in 0 .. Len(s)
    PROVE  /\ Truncated(s, n) \in Seq(S)
           /\ Len(Truncated(s, n)) = Len(s) - n
           /\ \A i \in 1 .. Len(s) - n : Truncated(s, n)[i] = s[i]
  BY DEF Truncated

LEMMA EntryIsEntry ==
    ASSUME NEW S, NEW T, NEW state \in S, NEW symbol \in T
    PROVE  [state |-> state, symbol |-> symbol] \in [state : S, symbol : T]
  OBVIOUS

LEMMA EntryState ==
    ASSUME NEW a, NEW st \in Seq(Entry(a)), NEW n \in DOMAIN st
    PROVE  st[n].state \in StatesOf(a) /\ st[n].symbol \in SymbolsOf(a) \cup {"none"}
<1>1. st[n] \in Entry(a)
  BY SeqElement
<1> QED BY <1>1 DEF Entry
-----------------------------------------------------------------------------
\* The stack st is a path of the automaton a
Backed(a, st) ==
    \A n \in DOMAIN st : \A i \in a.items[st[n].state] :
        /\ i[2] < n
        /\ \A j \in 0 .. i[2] : <<i[1], i[2] - j>> \in a.items[st[n - j].state]

LEMMA ItemIsPair ==
    ASSUME NEW a, WellFormed(a), NEW s \in StatesOf(a), NEW i \in a.items[s]
    PROVE  i[2] \in Nat /\ i = <<i[1], i[2]>> /\ i[1] \in DOMAIN a.prods
  BY DEF WellFormed, WellTyped

\* Popping symbols keeps the path
LEMMA BackedTruncated ==
    ASSUME NEW a, WellFormed(a), NEW st \in Seq(Entry(a)), Backed(a, st),
           NEW n \in 0 .. Len(st)
    PROVE  Backed(a, Truncated(st, n))
<1> DEFINE short == Truncated(st, n)
<1>1. short \in Seq(Entry(a)) /\ Len(short) = Len(st) - n
      /\ \A k \in 1 .. Len(st) - n : short[k] = st[k]
  BY TruncatedType
<1> SUFFICES ASSUME NEW m \in DOMAIN short, NEW i \in a.items[short[m].state]
             PROVE  /\ i[2] < m
                    /\ \A j \in 0 .. i[2] : <<i[1], i[2] - j>> \in a.items[short[m - j].state]
  BY DEF Backed
<1> HIDE DEF short
<1>2. m \in 1 .. Len(st) - n /\ m \in DOMAIN st /\ short[m] = st[m]
  BY <1>1
<1>3. st[m].state \in StatesOf(a)
  BY <1>2, EntryState
<1>4. i[2] \in Nat
  BY <1>2, <1>3, ItemIsPair
<1>5. /\ i[2] < m
      /\ \A j \in 0 .. i[2] : <<i[1], i[2] - j>> \in a.items[st[m - j].state]
  BY <1>2 DEF Backed
<1>6. ASSUME NEW j \in 0 .. i[2] PROVE short[m - j] = st[m - j]
  <2>1. m - j \in 1 .. Len(st) - n
    BY <1>2, <1>4, <1>5, <1>6
  <2> QED BY <2>1, <1>1
<1> QED BY <1>5, <1>6

\* A path with the state that its last state leads to on X
Pushed(a, st, X, symbol) ==
    Append(st, [state |-> a.action[st[Len(st)].state][X].data, symbol |-> symbol])

\* Pushing the state that a shift, or a goto, leads to keeps it
LEMMA BackedPush ==
    ASSUME NEW a, WellFormed(a), NEW st \in Seq(Entry(a)), st # <<>>, Backed(a, st),
           NEW X \in SymbolsOf(a), NEW symbol \in SymbolsOf(a),
           a.action[st[Len(st)].state][X].code = "SHIFT"
    PROVE  /\ Pushed(a, st, X, symbol) \in Seq(Entry(a))
           /\ Backed(a, Pushed(a, st, X, symbol))
           /\ Len(Pushed(a, st, X, symbol)) = Len(st) + 1
<1> DEFINE longer == Pushed(a, st, X, symbol)
           top == st[Len(st)].state
           next == a.action[top][X].data
<1>1. Len(st) \in Nat \ {0} /\ Len(st) \in DOMAIN st
  OBVIOUS
<1>2. top \in StatesOf(a)
  BY <1>1, EntryState
<1>3. next \in StatesOf(a) /\ \A i \in a.items[next] :
            i[2] > 0 => <<i[1], i[2] - 1>> \in a.items[top]
  BY <1>2 DEF WellFormed, ShiftsMoveItems
<1>4. [state |-> next, symbol |-> symbol] \in Entry(a)
  BY <1>3 DEF Entry
<1>5. /\ longer \in Seq(Entry(a)) /\ Len(longer) = Len(st) + 1
      /\ longer[Len(st) + 1].state = next
      /\ \A k \in 1 .. Len(st) : longer[k] = st[k]
  BY <1>1, <1>4 DEF Pushed
<1> HIDE DEF longer
<1>6. ASSUME NEW n \in DOMAIN longer, NEW i \in a.items[longer[n].state]
      PROVE  /\ i[2] < n
             /\ \A j \in 0 .. i[2] : <<i[1], i[2] - j>> \in a.items[longer[n - j].state]
  <2>0. n \in 1 .. Len(st) \/ n = Len(st) + 1
    BY <1>1, <1>5
  <2>1. CASE n \in 1 .. Len(st)
    <3>1. longer[n] = st[n] /\ n \in DOMAIN st
      BY <2>1, <1>5
    <3>2. st[n].state \in StatesOf(a)
      BY <3>1, EntryState
    <3>3. i[2] \in Nat
      BY <3>1, <3>2, <1>6, ItemIsPair
    <3>4. /\ i[2] < n
          /\ \A j \in 0 .. i[2] : <<i[1], i[2] - j>> \in a.items[st[n - j].state]
      BY <3>1, <1>6 DEF Backed
    <3>5. ASSUME NEW j \in 0 .. i[2] PROVE longer[n - j] = st[n - j]
      <4>1. n - j \in 1 .. Len(st)
        BY <2>1, <3>3, <3>4, <1>1
      <4> QED BY <4>1, <1>5
    <3> QED BY <3>4, <3>5
  <2>2. CASE n = Len(st) + 1
    <3>1. i \in a.items[next]
      BY <2>2, <1>5, <1>6
    <3>2. i[2] \in Nat /\ i = <<i[1], i[2]>>
      BY <3>1, <1>3, ItemIsPair
    <3>3. CASE i[2] = 0
      <4>1. i[2] < n
        BY <3>3, <2>2, <1>1
      <4>2. ASSUME NEW j \in 0 .. i[2]
            PROVE  <<i[1], i[2] - j>> \in a.items[longer[n - j].state]
        <5>0. j = 0
          BY <3>3
        <5>1. n - j = n /\ <<i[1], i[2] - j>> = <<i[1], i[2]>>
          BY <5>0, <3>2, <2>2, <1>1
        <5> QED BY <5>1, <3>1, <3>2, <1>5, <2>2
      <4> QED BY <4>1, <4>2
    <3>4. CASE i[2] > 0
      <4> DEFINE before == <<i[1], i[2] - 1>>
      <4>1. before \in a.items[top] /\ before[1] = i[1] /\ before[2] = i[2] - 1
        BY <3>1, <3>4, <1>3
      <4>2. /\ before[2] < Len(st)
            /\ \A j \in 0 .. before[2] :
                    <<before[1], before[2] - j>> \in a.items[st[Len(st) - j].state]
        BY <4>1, <1>1 DEF Backed
      <4>3. i[2] < n
        BY <4>1, <4>2, <3>2, <2>2, <1>1
      <4>4. ASSUME NEW j \in 0 .. i[2]
            PROVE  <<i[1], i[2] - j>> \in a.items[longer[n - j].state]
        <5>1. CASE j = 0
          <6>1. <<i[1], i[2] - j>> = i /\ n - j = n
            BY <5>1, <3>2, <2>2, <1>1
          <6> QED BY <6>1, <3>1, <1>5, <2>2
        <5>2. CASE j # 0
          <6>1. j - 1 \in 0 .. before[2] /\ before[2] - (j - 1) = i[2] - j
            BY <5>2, <4>1, <3>2
          <6>2. <<i[1], i[2] - j>> \in a.items[st[Len(st) - (j - 1)].state]
            BY <6>1, <4>1, <4>2
          <6>3. i[2] - 1 < Len(st)
            BY <4>1, <4>2
          <6>4. j \in Nat \ {0} /\ j <= i[2]
            BY <5>2, <3>2
          <6>5. Len(st) - (j - 1) = n - j /\ n - j \in 1 .. Len(st)
            BY <6>3, <6>4, <3>2, <2>2, <1>1
          <6> QED BY <6>2, <6>5, <1>5
        <5> QED BY <5>1, <5>2
      <4> QED BY <4>3, <4>4
    <3>5. i[2] = 0 \/ i[2] > 0
      BY <3>2
    <3> QED BY <3>3, <3>4, <3>5
  <2> QED BY <2>0, <2>1, <2>2
<1>7. Backed(a, longer)
  BY <1>6 DEF Backed
<1> QED BY <1>5, <1>7 DEF longer
-----------------------------------------------------------------------------
\* What a reduction that was called for finds: its whole body is on the stack, and the
\* state before it has a goto, because the rule is not that of the axiom: Dollar, which
\* ends it, would be on the stack, after which nothing is reduced
LEMMA CalledFits ==
    ASSUME IInv, status = "reduce"
    PROVE  /\ reduction.prod \in DOMAIN automaton.prods
           /\ Prod.length \in Nat
           /\ Prod.length < Len(stack)
           /\ Prod.head \in SymbolsOf(automaton)
           /\ Action(Uncovered, Prod.head).code = "SHIFT"
<1>1. WellFormed(automaton)
  BY AutomataAssumption DEF IInv, Driven, TypeOK
<1>2. reduction.prod \in DOMAIN automaton.prods
  BY DEF IInv, Driven, TypeOK
<1>3. Prod.length \in Nat /\ Prod.head \in SymbolsOf(automaton)
  BY <1>1, <1>2 DEF WellFormed, WellTyped, Prod, SymbolsOf, HeadsOf
<1>4. stack \in Seq(Entry(automaton)) /\ Len(stack) \in Nat \ {0} /\ Len(stack) \in DOMAIN stack
  BY DEF IInv, Driven, TypeOK, Entry
<1>5. Top.state \in StatesOf(automaton)
  BY <1>4, EntryState DEF Top
<1>6. PICK X \in SymbolsOf(automaton) : /\ Action(Top.state, X).code = "REDUCE"
                                         /\ Action(Top.state, X).data = reduction.prod
  BY DEF IInv, Driven, Called
<1>7. <<reduction.prod, Prod.length>> \in automaton.items[Top.state]
  BY <1>1, <1>5, <1>6 DEF WellFormed, ReductionsComplete, Action, Prod
<1> DEFINE complete == <<reduction.prod, Prod.length>>
<1>8. /\ Prod.length < Len(stack)
      /\ \A j \in 0 .. Prod.length :
            <<reduction.prod, Prod.length - j>> \in automaton.items[stack[Len(stack) - j].state]
  <2>1. complete[1] = reduction.prod /\ complete[2] = Prod.length
    OBVIOUS
  <2>2. /\ complete[2] < Len(stack)
        /\ \A j \in 0 .. complete[2] :
            <<complete[1], complete[2] - j>> \in automaton.items[stack[Len(stack) - j].state]
    BY <1>4, <1>7 DEF IInv, Driven, ItemsBacked, Top
  <2> QED BY <2>1, <2>2
<1>9. <<reduction.prod, 0>> \in automaton.items[Uncovered]
  <2>1. Prod.length \in 0 .. Prod.length /\ Prod.length - Prod.length = 0
    BY <1>3
  <2> QED BY <2>1, <1>8 DEF Uncovered
<1>10. Uncovered \in StatesOf(automaton)
  <2>1. Len(stack) - Prod.length \in DOMAIN stack
    BY <1>3, <1>4, <1>8
  <2> QED BY <2>1, <1>4, EntryState DEF Uncovered
<1>11. reduction.prod # AxiomRule(automaton)
  <2> SUFFICES ASSUME reduction.prod = AxiomRule(automaton) PROVE FALSE
    OBVIOUS
  <2>1. FollowsRules(automaton)
    BY RulesAssumption DEF IInv, Driven, TypeOK
  <2>2. Prod.length = 2 /\ automaton.rules[reduction.prod].body[2] = Dollar
    BY <1>2, <2>1 DEF FollowsRules, Prod
  <2>3. complete[1] = reduction.prod /\ complete[2] = 2 /\ Len(stack) \in 2 .. Len(stack)
    BY <1>4, <1>8, <2>2
  <2>4. Top.symbol = Dollar
    BY <1>7, <2>2, <2>3 DEF IInv, Passed, Top
  <2> QED BY <1>4, <2>4 DEF IInv, EndTaken, Top
<1>12. Action(Uncovered, Prod.head).code = "SHIFT"
  BY <1>1, <1>5, <1>6, <1>9, <1>10, <1>11 DEF WellFormed, BeginningsHaveGoto, Action, Prod
<1> QED BY <1>2, <1>3, <1>8, <1>12

\* The op-codes executed before the place ip that pop a sub-tree
Popped0(ip) == {k \in Pops(Prod) : k < ip}

LEMMA PopsCounted ==
    ASSUME IInv, status = "reduce"
    PROVE  /\ reduction.ip \in Nat \ {0}
           /\ Prod.ops \in Seq(Opcodes)
           /\ IsFiniteSet(Pops(Prod)) /\ Cardinality(Pops(Prod)) = Prod.length
           /\ IsFiniteSet(Popped0(reduction.ip))
           /\ reduction.popCount = Cardinality(Popped0(reduction.ip))
           /\ reduction.popCount \in Nat
<1>1. WellFormed(automaton) /\ reduction.prod \in DOMAIN automaton.prods
  BY AutomataAssumption DEF IInv, Driven, TypeOK
<1>2. Prod.ops \in Seq(Opcodes) /\ Cardinality(Pops(Prod)) = Prod.length
  BY <1>1 DEF WellFormed, WellTyped, Prod
<1>3. Len(Prod.ops) \in Nat /\ Pops(Prod) \subseteq 1 .. Len(Prod.ops)
  BY <1>2 DEF Pops
<1>4. IsFiniteSet(Pops(Prod))
  <2>1. IsFiniteSet(1 .. Len(Prod.ops))
    BY <1>3, FS_Interval
  <2> QED BY <2>1, <1>3, FS_Subset
<1>5. Popped0(reduction.ip) \subseteq Pops(Prod)
  BY DEF Popped0
<1>6. IsFiniteSet(Popped0(reduction.ip))
  BY <1>4, <1>5, FS_Subset
<1>7. reduction.ip \in 1 .. Len(Prod.ops) + 1
      /\ reduction.popCount = Cardinality(Popped0(reduction.ip))
  BY DEF IInv, Driven, TypeOK, Popped0
<1>8. reduction.popCount \in Nat
  BY <1>6, <1>7, FS_CardinalityType
<1> QED BY <1>2, <1>3, <1>4, <1>6, <1>7, <1>8

\* After an op-code that pops a sub-tree there is one more; after another, none
LEMMA NextPops ==
    ASSUME IInv, status = "reduce", reduction.ip \in DOMAIN Prod.ops
    PROVE  /\ Op.op = "POP" =>
                /\ reduction.popCount < Prod.length
                /\ Cardinality(Popped0(reduction.ip + 1)) = reduction.popCount + 1
           /\ Op.op # "POP" =>
                Cardinality(Popped0(reduction.ip + 1)) = reduction.popCount
<1> DEFINE ip == reduction.ip
<1>1. /\ ip \in Nat \ {0} /\ Prod.ops \in Seq(Opcodes)
      /\ IsFiniteSet(Pops(Prod)) /\ Cardinality(Pops(Prod)) = Prod.length
      /\ IsFiniteSet(Popped0(ip)) /\ reduction.popCount = Cardinality(Popped0(ip))
  BY PopsCounted
<1>2. Pops(Prod) \subseteq Nat
  BY <1>1 DEF Pops
<1>3. ip \notin Popped0(ip)
  BY <1>1 DEF Popped0
<1>4. CASE Op.op = "POP"
  <2>1. ip \in Pops(Prod)
    BY <1>4 DEF Pops, Op
  <2>2. Popped0(ip + 1) = Popped0(ip) \cup {ip}
    BY <1>1, <1>2, <2>1 DEF Popped0
  <2>3. Cardinality(Popped0(ip) \cup {ip}) = Cardinality(Popped0(ip)) + 1
    BY <1>1, <1>3, FS_AddElement
  <2>4. Popped0(ip) \cup {ip} \subseteq Pops(Prod)
    BY <2>1 DEF Popped0
  <2>5. Cardinality(Popped0(ip) \cup {ip}) <= Cardinality(Pops(Prod))
    BY <2>4, <1>1, FS_Subset
  <2>6. Cardinality(Popped0(ip)) \in Nat /\ Cardinality(Pops(Prod)) \in Nat
    BY <1>1, FS_CardinalityType
  <2>7. Cardinality(Popped0(ip + 1)) = reduction.popCount + 1
    BY <1>1, <2>2, <2>3
  <2>8. reduction.popCount + 1 <= Prod.length /\ reduction.popCount \in Nat /\ Prod.length \in Nat
    BY <1>1, <2>3, <2>5, <2>6
  <2> QED BY <1>4, <2>7, <2>8
<1>5. CASE Op.op # "POP"
  <2>1. ip \notin Pops(Prod)
    BY <1>5 DEF Pops, Op
  <2>2. Popped0(ip + 1) = Popped0(ip)
    BY <1>1, <1>2, <2>1 DEF Popped0
  <2> QED BY <1>1, <1>5, <2>2
<1> QED BY <1>4, <1>5

\* No step of a reduction goes out of a stack, and the goto is a shift
LEMMA IInvFits == IInv => ReductionsFit
<1> SUFFICES ASSUME IInv, status = "reduce"
             PROVE  /\ Prod.length < Len(stack)
                    /\ Prod.length <= Len(subtrees)
                    /\ reduction.ip \in Pops(Prod) => reduction.popCount < Prod.length
                    /\ Action(Uncovered, Prod.head).code = "SHIFT"
  BY DEF ReductionsFit
<1>1. Prod.length \in Nat /\ Prod.length < Len(stack) /\ Action(Uncovered, Prod.head).code = "SHIFT"
  BY CalledFits
<1>2. Len(subtrees) = Len(stack) - 1 /\ Len(stack) \in Nat
  BY DEF IInv, Driven, TypeOK
<1>3. reduction.ip \in Pops(Prod) => reduction.ip \in DOMAIN Prod.ops /\ Op.op = "POP"
  BY DEF Pops, Op
<1>4. reduction.ip \in Pops(Prod) => reduction.popCount < Prod.length
  BY <1>3, NextPops
<1> QED BY <1>1, <1>2, <1>4
-----------------------------------------------------------------------------
\* What the driver's state is when its stacks do not move
StacksSame == /\ automaton' = automaton /\ stack' = stack
              /\ IsSequence(subtrees') /\ Len(subtrees') = Len(subtrees)

LEMMA StacksSameKeeps ==
    ASSUME IInv, StacksSame
    PROVE  /\ ItemsBacked'
           /\ automaton' \in Automata
           /\ stack' \in Seq([state : StatesOf(automaton'), symbol : SymbolsOf(automaton') \cup {"none"}])
           /\ stack' # <<>>
           /\ Len(subtrees') = Len(stack') - 1
  BY DEF IInv, Driven, TypeOK, ItemsBacked, StacksSame

LEMMA InitDrives == Init => Driven
<1> SUFFICES ASSUME Init PROVE Driven
  OBVIOUS
<1>1. WellFormed(automaton)
  BY AutomataAssumption DEF Init
<1>2. 1 \in StatesOf(automaton) /\ \A i \in automaton.items[1] : i[2] = 0
  BY <1>1 DEF WellFormed, WellTyped
<1>3. TypeOK
  <2> DEFINE first == [state |-> 1, symbol |-> "none"]
  <2>0. first \in [state : StatesOf(automaton), symbol : SymbolsOf(automaton) \cup {"none"}]
    <3>1. "none" \in SymbolsOf(automaton) \cup {"none"}
      OBVIOUS
    <3>2. 1 \in StatesOf(automaton)
      BY <1>2
    <3> QED BY <3>1, <3>2, EntryIsEntry
  <2>00. stack = <<first>>
    BY DEF Init
  <2> HIDE DEF first
  <2>1. stack \in Seq([state : StatesOf(automaton), symbol : SymbolsOf(automaton) \cup {"none"}]) /\ Len(stack) = 1
    BY <2>0, <2>00
  <2> QED BY <2>1 DEF Init, TypeOK
<1>4. ItemsBacked
  <2> SUFFICES ASSUME NEW n \in DOMAIN stack, NEW i \in automaton.items[stack[n].state]
               PROVE  /\ i[2] < n
                      /\ \A j \in 0 .. i[2] :
                            <<i[1], i[2] - j>> \in automaton.items[stack[n - j].state]
    BY DEF ItemsBacked
  <2>1. n = 1 /\ stack[n].state = 1
    BY DEF Init
  <2>2. i[2] = 0
    BY <2>1, <1>2
  <2>3. i = <<i[1], i[2]>>
    BY <2>1, <1>1, <1>2, ItemIsPair
  <2>4. ASSUME NEW j \in 0 .. i[2]
        PROVE  <<i[1], i[2] - j>> \in automaton.items[stack[n - j].state]
    <3>1. j = 0
      BY <2>2
    <3>2. n - j = n /\ <<i[1], i[2] - j>> = i
      BY <3>1, <2>1, <2>2, <2>3
    <3> QED BY <3>2
  <2> QED BY <2>1, <2>2, <2>4
<1>5. Called /\ Shaped
  BY DEF Init, Called, Shaped, IsSequence
<1> QED BY <1>3, <1>4, <1>5 DEF IInv, Driven

LEMMA NextTokenDrives == IInv /\ NextToken => Driven'
<1> SUFFICES ASSUME IInv, NextToken PROVE Driven'
  OBVIOUS
<1>1. StacksSame /\ status' = "token"
  BY DEF NextToken, StacksSame, IInv, Driven, Shaped
<1>2. tokens' \in Seq(automaton'.terminals) /\ tokens' # <<>>
  <2>1. PICK t \in automaton.terminals : tokens' = Append(tokens, t)
    BY DEF NextToken
  <2>2. tokens \in Seq(automaton.terminals) /\ automaton' = automaton
    BY DEF NextToken, IInv, Driven, TypeOK
  <2> QED BY <2>1, <2>2
<1>3. errors' \in Seq(SUBSET automaton'.terminals)
  BY DEF NextToken, IInv, Driven, TypeOK
<1>4. TypeOK' /\ ItemsBacked'
  BY <1>1, <1>2, <1>3, StacksSameKeeps DEF TypeOK
<1> QED BY <1>1, <1>4 DEF IInv, Driven, Called, Shaped, StacksSame

LEMMA EndOfTokensDrives == IInv /\ EndOfTokens => Driven'
<1> SUFFICES ASSUME IInv, EndOfTokens PROVE Driven'
  OBVIOUS
<1>1. IsSequence(subtrees') /\ Len(subtrees') = Len(subtrees)
  <2>1. PICK S : subtrees \in Seq(S)
    BY SequenceOf DEF IInv, Driven, Shaped
  <2>2. CASE Len(subtrees) > 1
    <3> DEFINE n == Len(subtrees) - 1
               x == [subtrees[n] EXCEPT !.nodes = WithFirst(ast, subtrees[n].nodes, 1)]
    <3>1. subtrees' = [subtrees EXCEPT ![n] = x]
      BY <2>2 DEF EndOfTokens, CommitRoot
    <3>2. subtrees \in Seq(S \cup {x}) /\ x \in S \cup {x} /\ n \in 1 .. Len(subtrees)
      BY <2>1, <2>2
    <3> HIDE DEF x, n
    <3>3. subtrees' \in Seq(S \cup {x}) /\ Len(subtrees') = Len(subtrees)
      BY <3>1, <3>2
    <3> QED BY <3>3, SequenceOf
  <2>3. CASE ~ (Len(subtrees) > 1)
    BY <2>3 DEF EndOfTokens, CommitRoot, IInv, Driven, Shaped
  <2> QED BY <2>2, <2>3
<1>2. StacksSame /\ status' = "accepted" /\ tokens' = tokens /\ errors' = errors
  BY <1>1 DEF EndOfTokens, StacksSame
<1>3. TypeOK' /\ ItemsBacked'
  <2>1. tokens' \in Seq(automaton'.terminals) /\ errors' \in Seq(SUBSET automaton'.terminals)
    BY <1>2 DEF IInv, Driven, TypeOK, StacksSame
  <2> QED BY <1>2, <2>1, StacksSameKeeps DEF TypeOK
<1> QED BY <1>2, <1>3 DEF IInv, Driven, Called, Shaped, StacksSame

LEMMA ShiftDrives == IInv /\ Shift => Driven'
<1> SUFFICES ASSUME IInv, Shift PROVE Driven'
  OBVIOUS
<1>1. WellFormed(automaton) /\ automaton' = automaton
  BY AutomataAssumption DEF IInv, Driven, TypeOK, Shift
<1>2. Lookahead \in automaton.terminals
  BY DEF IInv, Driven, TypeOK, Shift, Lookahead
<1>3. Lookahead \in SymbolsOf(automaton)
  BY <1>2 DEF SymbolsOf
<1>4. stack \in Seq(Entry(automaton)) /\ stack # <<>> /\ Backed(automaton, stack)
  BY DEF IInv, Driven, TypeOK, ItemsBacked, Backed, Entry
<1>5. /\ automaton.action[stack[Len(stack)].state][Lookahead].code = "SHIFT"
      /\ stack' = Append(stack, [state |-> automaton.action[stack[Len(stack)].state][Lookahead].data,
                                 symbol |-> Lookahead])
  BY DEF Shift, Action, Top
<1>6. /\ stack' \in Seq(Entry(automaton)) /\ Backed(automaton, stack')
      /\ Len(stack') = Len(stack) + 1
  <2>1. stack' = Pushed(automaton, stack, Lookahead, Lookahead)
    BY <1>5 DEF Pushed
  <2>2. /\ Pushed(automaton, stack, Lookahead, Lookahead) \in Seq(Entry(automaton))
        /\ Backed(automaton, Pushed(automaton, stack, Lookahead, Lookahead))
        /\ Len(Pushed(automaton, stack, Lookahead, Lookahead)) = Len(stack) + 1
    BY <1>1, <1>3, <1>4, <1>5, BackedPush
  <2> QED BY <2>1, <2>2
<1>7. IsSequence(subtrees') /\ Len(subtrees') = Len(subtrees) + 1
  BY AppendIsSequence DEF Shift, IInv, Driven, Shaped
<1>8. ItemsBacked'
  BY <1>1, <1>6 DEF ItemsBacked, Backed
<1>9. TypeOK'
  <2>1. status' = "next" /\ tokens' = tokens /\ errors' = errors
    BY DEF Shift
  <2>2. Len(subtrees') = Len(stack') - 1 /\ stack' # <<>>
    BY <1>4, <1>6, <1>7 DEF IInv, Driven, TypeOK
  <2> QED BY <1>1, <1>6, <2>1, <2>2 DEF TypeOK, Entry, IInv, Driven
<1> QED BY <1>7, <1>8, <1>9 DEF IInv, Driven, Called, Shaped, Shift

LEMMA PrepareDrives == IInv /\ Prepare => Driven'
<1> SUFFICES ASSUME IInv, Prepare PROVE Driven'
  OBVIOUS
<1>1. WellFormed(automaton) /\ StacksSame
  BY AutomataAssumption DEF IInv, Driven, TypeOK, Prepare, StacksSame, Shaped
<1>2. Lookahead \in SymbolsOf(automaton)
  BY DEF IInv, Driven, TypeOK, Prepare, Lookahead, SymbolsOf
<1>3. Top.state \in StatesOf(automaton)
  <2>1. stack \in Seq(Entry(automaton)) /\ Len(stack) \in DOMAIN stack
    BY DEF IInv, Driven, TypeOK, Entry
  <2> QED BY <2>1, EntryState DEF Top
<1> DEFINE p == Action(Top.state, Lookahead).data
<1>4. Action(Top.state, Lookahead).code = "REDUCE" /\ p \in DOMAIN automaton.prods
  BY <1>1, <1>2, <1>3 DEF Prepare, WellFormed, ReductionsComplete, Action
<1>5. /\ reduction'.prod = p /\ reduction'.popCount = 0 /\ reduction'.ip = 1
      /\ reduction' = [prod |-> reduction'.prod, cache |-> reduction'.cache,
                       popCount |-> reduction'.popCount, ip |-> reduction'.ip]
      /\ status' = "reduce"
  BY DEF Prepare
<1>6. /\ Prod' = automaton.prods[p] /\ Prod'.ops \in Seq(Opcodes)
  BY <1>1, <1>4, <1>5 DEF Prod, StacksSame, WellFormed, WellTyped
<1>7. {k \in Pops(Prod') : k < reduction'.ip} = {}
  BY <1>5, <1>6 DEF Pops
<1>8. TypeOK' /\ ItemsBacked'
  <2>1. tokens' = tokens /\ errors' = errors /\ tokens # <<>>
    BY DEF Prepare, IInv, Driven, TypeOK
  <2>2. reduction'.popCount = Cardinality({k \in Pops(Prod') : k < reduction'.ip})
    BY <1>5, <1>7, FS_EmptySet
  <2>3. reduction'.ip \in 1 .. Len(Prod'.ops) + 1
    BY <1>5, <1>6
  <2>4. reduction'.prod \in DOMAIN automaton'.prods
    BY <1>1, <1>4, <1>5 DEF StacksSame
  <2>5. tokens' \in Seq(automaton'.terminals) /\ errors' \in Seq(SUBSET automaton'.terminals)
    BY <1>1, <2>1 DEF IInv, Driven, TypeOK, StacksSame
  <2> QED BY <1>1, <1>5, <2>1, <2>2, <2>3, <2>4, <2>5, StacksSameKeeps DEF TypeOK
<1>9. Called'
  <2>1. SymbolsOf(automaton') = SymbolsOf(automaton) /\ Top' = Top
        /\ Action(Top.state, Lookahead)' = automaton.action[Top.state][Lookahead]
    BY <1>1 DEF StacksSame, Top, Action, Lookahead, Prepare
  <2>2. /\ (Action(Top.state, Lookahead).code)' = "REDUCE"
        /\ (Action(Top.state, Lookahead).data)' = reduction'.prod
    BY <1>4, <1>5, <2>1 DEF Action
  <2>3. Lookahead' = Lookahead
    BY DEF Lookahead, Prepare
  <2> QED BY <1>2, <2>1, <2>2, <2>3 DEF Called
<1> QED BY <1>1, <1>5, <1>8, <1>9 DEF IInv, Driven, Shaped, StacksSame
-----------------------------------------------------------------------------
\* An op-code is executed: the reduction goes on by one, and counts the pops
Executed ==
    /\ status = "reduce" /\ status' = "reduce"
    /\ reduction.ip \in DOMAIN Prod.ops
    /\ automaton' = automaton /\ stack' = stack /\ subtrees' = subtrees
    /\ tokens' = tokens /\ errors' = errors
    /\ reduction'.prod = reduction.prod
    /\ reduction'.ip = reduction.ip + 1
    /\ reduction'.popCount = IF Op.op = "POP" THEN reduction.popCount + 1
                                              ELSE reduction.popCount
    /\ reduction' = [prod |-> reduction'.prod, cache |-> reduction'.cache,
                     popCount |-> reduction'.popCount, ip |-> reduction'.ip]

LEMMA ExecutedKeeps == IInv /\ Executed => Driven'
<1> SUFFICES ASSUME IInv, Executed PROVE Driven'
  OBVIOUS
<1>1. StacksSame
  BY DEF Executed, StacksSame, IInv, Driven, Shaped
<1>2. Prod' = Prod /\ Top' = Top
  BY DEF Executed, Prod, Top
<1>3. reduction'.popCount = Cardinality(Popped0(reduction.ip + 1))
  BY NextPops DEF Executed
<1>4. reduction'.popCount = Cardinality({k \in Pops(Prod') : k < reduction'.ip})
  BY <1>2, <1>3 DEF Popped0, Executed
<1>5. reduction'.ip \in 1 .. Len(Prod'.ops) + 1
  <2>1. Prod.ops \in Seq(Opcodes)
    BY PopsCounted DEF Executed
  <2> QED BY <1>2, <2>1 DEF Executed
<1>6. TypeOK' /\ ItemsBacked'
  <2>1. tokens' \in Seq(automaton'.terminals) /\ errors' \in Seq(SUBSET automaton'.terminals)
        /\ tokens' # <<>> /\ reduction'.prod \in DOMAIN automaton'.prods
    BY DEF IInv, Driven, TypeOK, Executed
  <2>2. status' = "reduce"
    BY DEF Executed
  <2> QED BY <1>1, <1>4, <1>5, <2>1, <2>2, StacksSameKeeps DEF TypeOK
<1>7. Called'
  BY <1>2 DEF IInv, Driven, Called, Executed, Action
<1> QED BY <1>1, <1>6, <1>7 DEF IInv, Driven, Shaped, StacksSame, Executed

LEMMA OpcodesDrives == IInv /\ (Pop \/ AddVirtual \/ SemanticAction) => Driven'
<1> SUFFICES ASSUME IInv, Pop \/ AddVirtual \/ SemanticAction PROVE Executed
  BY ExecutedKeeps
<1>1. status = "reduce"
      /\ reduction = [prod |-> reduction.prod, cache |-> reduction.cache,
                      popCount |-> reduction.popCount, ip |-> reduction.ip]
  BY DEF IInv, Driven, Shaped, Pop, AddVirtual, SemanticAction, Executing
<1>2. CASE Pop
  BY <1>1, <1>2 DEF Pop, Executing, Executed
<1>3. CASE AddVirtual
  BY <1>1, <1>3 DEF AddVirtual, Executing, Executed
<1>4. CASE SemanticAction
  BY <1>1, <1>4 DEF SemanticAction, Executing, Executed
<1> QED BY <1>2, <1>3, <1>4

LEMMA ReduceDrives == IInv /\ Reduce => Driven'
<1> SUFFICES ASSUME IInv, Reduce PROVE Driven'
  OBVIOUS
<1>1. WellFormed(automaton) /\ automaton' = automaton /\ status = "reduce" /\ status' = "token"
  BY AutomataAssumption DEF IInv, Driven, TypeOK, Reduce
<1>2. /\ Prod.length \in Nat /\ Prod.length < Len(stack)
      /\ Prod.head \in SymbolsOf(automaton)
      /\ Action(Uncovered, Prod.head).code = "SHIFT"
  BY <1>1, CalledFits
<1>3. stack \in Seq(Entry(automaton)) /\ Len(stack) \in Nat /\ Backed(automaton, stack)
  <2>1. stack \in Seq(Entry(automaton))
    BY DEF IInv, Driven, TypeOK, Entry
  <2>2. Len(stack) \in Nat
    BY <2>1
  <2>3. Backed(automaton, stack)
    BY DEF IInv, Driven, ItemsBacked, Backed
  <2> QED BY <2>1, <2>2, <2>3
<1>4. Prod.length \in 0 .. Len(stack)
  BY <1>2, <1>3
<1>5. /\ StackLeft \in Seq(Entry(automaton)) /\ Len(StackLeft) = Len(stack) - Prod.length
      /\ \A i \in 1 .. Len(stack) - Prod.length : StackLeft[i] = stack[i]
      /\ Backed(automaton, StackLeft)
  BY <1>1, <1>3, <1>4, TruncatedType, BackedTruncated DEF StackLeft
<1>6. StackLeft # <<>> /\ StackLeft[Len(StackLeft)].state = Uncovered
  BY <1>2, <1>3, <1>5 DEF Uncovered
<1>8. stack' = Pushed(automaton, StackLeft, Prod.head, Prod.head)
  BY <1>6 DEF Reduce, GotoState, Action, Pushed
<1>9. /\ stack' \in Seq(Entry(automaton)) /\ Backed(automaton, stack')
      /\ Len(stack') = Len(StackLeft) + 1
  <2>1. automaton.action[StackLeft[Len(StackLeft)].state][Prod.head].code = "SHIFT"
    BY <1>2, <1>6 DEF Action
  <2>2. /\ Pushed(automaton, StackLeft, Prod.head, Prod.head) \in Seq(Entry(automaton))
        /\ Backed(automaton, Pushed(automaton, StackLeft, Prod.head, Prod.head))
        /\ Len(Pushed(automaton, StackLeft, Prod.head, Prod.head)) = Len(StackLeft) + 1
    BY <1>1, <1>2, <1>5, <1>6, <2>1, BackedPush
  <2> QED BY <1>8, <2>2
<1>10. IsSequence(subtrees') /\ Len(subtrees') = Len(subtrees) - Prod.length + 1
  <2>1. IsSequence(subtrees) /\ Prod.length \in 0 .. Len(subtrees)
    BY <1>2, <1>3 DEF IInv, Driven, TypeOK, Shaped
  <2>2. IsSequence(SubtreesLeft) /\ Len(SubtreesLeft) = Len(subtrees) - Prod.length
    BY <2>1, TruncatedIsSequence DEF SubtreesLeft
  <2>3. PICK tree : subtrees' = Append(SubtreesLeft, tree)
    BY DEF Reduce
  <2> QED BY <2>2, <2>3, AppendIsSequence
<1>11. ItemsBacked'
  BY <1>1, <1>9 DEF ItemsBacked, Backed
<1>12. TypeOK'
  <2>1. tokens' = tokens /\ errors' = errors /\ tokens # <<>>
    BY <1>1 DEF Reduce, IInv, Driven, TypeOK
  <2>2. Len(subtrees') = Len(stack') - 1 /\ stack' # <<>>
    BY <1>2, <1>3, <1>5, <1>9, <1>10 DEF IInv, Driven, TypeOK
  <2> QED BY <1>1, <1>9, <2>1, <2>2 DEF TypeOK, Entry, IInv, Driven
<1> QED BY <1>1, <1>10, <1>11, <1>12 DEF IInv, Driven, Called, Shaped

LEMMA RejectDrives == IInv /\ Reject => Driven'
<1> SUFFICES ASSUME IInv, Reject PROVE Driven'
  OBVIOUS
<1>1. StacksSame /\ status = "token" /\ status' = "error" /\ tokens' = tokens
  BY DEF Reject, StacksSame, IInv, Driven, Shaped
<1>2. ExpectedTerminals \in SUBSET automaton.terminals
  BY DEF ExpectedTerminals
<1>3. errors' \in Seq(SUBSET automaton.terminals)
  <2>1. errors' = <<ExpectedTerminals>>
    BY DEF Reject
  <2>2. ASSUME NEW S, NEW x \in S PROVE <<x>> \in Seq(S)
    OBVIOUS
  <2> QED BY <1>2, <2>1, <2>2
<1>4. TypeOK' /\ ItemsBacked'
  <2>1. tokens' \in Seq(automaton'.terminals) /\ tokens' # <<>>
        /\ errors' \in Seq(SUBSET automaton'.terminals)
    BY <1>1, <1>3 DEF IInv, Driven, TypeOK, StacksSame
  <2> QED BY <1>1, <2>1, StacksSameKeeps DEF TypeOK
<1> QED BY <1>1, <1>4 DEF IInv, Driven, Called, Shaped, StacksSame

LEMMA StutterDrives == IInv /\ UNCHANGED vars => Driven'
<1> SUFFICES ASSUME IInv, UNCHANGED vars PROVE Driven'
  OBVIOUS
<1>1. StacksSame /\ status' = status /\ tokens' = tokens /\ errors' = errors /\ reduction' = reduction
  BY DEF vars, StacksSame, IInv, Driven, Shaped
<1>2. Prod' = Prod /\ Top' = Top
  BY <1>1 DEF Prod, Top, StacksSame
<1>3. TypeOK' /\ ItemsBacked'
  BY <1>1, <1>2, StacksSameKeeps DEF IInv, Driven, TypeOK, StacksSame
<1>4. Called'
  BY <1>1, <1>2 DEF IInv, Driven, Called, StacksSame, Action
<1> QED BY <1>1, <1>3, <1>4 DEF IInv, Driven, Shaped, StacksSame

LEMMA NextDrives == IInv /\ [Next]_vars => Driven'
<1> SUFFICES ASSUME IInv, [Next]_vars PROVE Driven'
  OBVIOUS
<1>1. CASE NextToken
  BY <1>1, NextTokenDrives
<1>2. CASE EndOfTokens
  BY <1>2, EndOfTokensDrives
<1>3. CASE Shift
  BY <1>3, ShiftDrives
<1>4. CASE Prepare
  BY <1>4, PrepareDrives
<1>5. CASE Pop \/ AddVirtual \/ SemanticAction
  BY <1>5, OpcodesDrives
<1>6. CASE Reduce
  BY <1>6, ReduceDrives
<1>7. CASE Reject
  BY <1>7, RejectDrives
<1>8. CASE Returned
  BY <1>8, StutterDrives DEF Returned
<1>9. CASE UNCHANGED vars
  BY <1>9, StutterDrives
<1> QED BY <1>1, <1>2, <1>3, <1>4, <1>5, <1>6, <1>7, <1>8, <1>9 DEF Next
-----------------------------------------------------------------------------
\* A symbol is pushed, with the state that it leads to.
LEMMA PassedPushed ==
    ASSUME NEW a, FollowsRules(a), NEW st \in Seq(Entry(a)), st # <<>>, Passed(a, st),
           NEW X \in SymbolsOf(a), a.action[st[Len(st)].state][X].code = "SHIFT"
    PROVE  Passed(a, Pushed(a, st, X, X))
<1> DEFINE top == st[Len(st)].state
           x == [state |-> a.action[top][X].data, symbol |-> X]
           longer == Append(st, x)
<1>1. /\ Len(st) \in Nat \ {0} /\ Len(st) \in DOMAIN st /\ Len(longer) = Len(st) + 1
      /\ longer[Len(st) + 1] = x /\ \A k \in 1 .. Len(st) : longer[k] = st[k]
  OBVIOUS
<1>2. top \in StatesOf(a)
  BY <1>1, EntryState
<1>3. /\ x.state # 1 /\ x.symbol = X
      /\ \A i \in a.items[x.state] : i[2] > 0 => a.rules[i[1]].body[i[2]] = X
  BY <1>2 DEF FollowsRules
<1> HIDE DEF top, x, longer
<1>4. longer[1].state = 1
  BY <1>1 DEF Passed
<1>5. ASSUME NEW n \in 2 .. Len(longer)
      PROVE  /\ longer[n].state # 1
             /\ \A i \in a.items[longer[n].state] : i[2] > 0 => a.rules[i[1]].body[i[2]] = longer[n].symbol
  <2>1. CASE n = Len(st) + 1
    BY <1>1, <1>3, <2>1
  <2>2. CASE n # Len(st) + 1
    <3>1. n \in 2 .. Len(st) /\ n \in 1 .. Len(st)
      BY <1>1, <2>2
    <3> QED BY <1>1, <3>1 DEF Passed
  <2> QED BY <2>1, <2>2
<1> QED BY <1>4, <1>5 DEF Passed, Pushed, longer, x, top

LEMMA PassedTruncated ==
    ASSUME NEW a, NEW T, NEW st \in Seq(T), Passed(a, st), NEW n \in 0 .. Len(st) - 1
    PROVE  Passed(a, Truncated(st, n))
<1> DEFINE short == Truncated(st, n)
<1>1. Len(st) \in Nat /\ n \in 0 .. Len(st)
  OBVIOUS
<1>2. Len(short) = Len(st) - n /\ \A k \in 1 .. Len(st) - n : short[k] = st[k]
  BY <1>1, TruncatedType
<1> HIDE DEF short
<1>3. 1 \in 1 .. Len(st) - n /\ \A k \in 2 .. Len(st) - n : k \in 1 .. Len(st) - n /\ k \in 2 .. Len(st)
  BY <1>1
<1>4. short[1].state = 1
  BY <1>2, <1>3 DEF Passed
<1>5. \A k \in 2 .. Len(short) :
        /\ short[k].state # 1
        /\ \A i \in a.items[short[k].state] : i[2] > 0 => a.rules[i[1]].body[i[2]] = short[k].symbol
  BY <1>2, <1>3 DEF Passed
<1> QED BY <1>4, <1>5 DEF Passed, short

LEMMA InitIInv == Init => IInv
<1> SUFFICES ASSUME Init PROVE IInv
  OBVIOUS
<1> DEFINE first == [state |-> 1, symbol |-> "none"]
<1>1. stack = <<first>> /\ Driven
  BY InitDrives DEF Init
<1>2. Len(stack) = 1 /\ DOMAIN stack = {1} /\ stack[1].state = 1 /\ stack[1].symbol = "none"
  BY <1>1
<1> QED BY <1>1, <1>2 DEF IInv, Passed, EndTaken, Dollar

\* The stack does not move.
LEMMA SameStack ==
    ASSUME IInv, UNCHANGED <<automaton, stack>>,
           \/ UNCHANGED tokens /\ (status \in {"next", "accepted"} => status' \in {"next", "accepted"})
           \/ ~ Ended
    PROVE  Passed(automaton', stack') /\ EndTaken'
<1>1. Passed(automaton', stack')
  BY DEF IInv
<1>2. EndTaken'
  <2>1. CASE UNCHANGED tokens /\ (status \in {"next", "accepted"} => status' \in {"next", "accepted"})
    BY <2>1 DEF IInv, EndTaken, Ended, Lookahead
  <2>2. CASE ~ Ended
    BY <2>2 DEF IInv, EndTaken
  <2> QED BY <2>1, <2>2
<1> QED BY <1>1, <1>2

LEMMA ShiftPasses == IInv /\ Shift => Passed(automaton', stack') /\ EndTaken'
<1> SUFFICES ASSUME IInv, Shift PROVE Passed(automaton', stack') /\ EndTaken'
  OBVIOUS
<1> DEFINE X == Lookahead
           x == [state |-> Action(Top.state, X).data, symbol |-> X]
<1>1. /\ status = "token" /\ status' = "next" /\ automaton' = automaton /\ tokens' = tokens
      /\ Action(Top.state, X).code = "SHIFT" /\ stack' = Append(stack, x)
  BY DEF Shift
<1>2. /\ FollowsRules(automaton) /\ tokens \in Seq(automaton.terminals) /\ tokens # <<>>
      /\ stack \in Seq(Entry(automaton)) /\ stack # <<>> /\ Len(stack) \in Nat
  BY <1>1, RulesAssumption DEF IInv, Driven, TypeOK, Entry
<1>3. X \in SymbolsOf(automaton)
  BY <1>2 DEF Lookahead, SymbolsOf
<1>4. stack' = Pushed(automaton, stack, X, X)
  BY <1>1 DEF Pushed, Action, Top
<1>5. Passed(automaton, stack')
  <2>1. automaton.action[stack[Len(stack)].state][X].code = "SHIFT" /\ Passed(automaton, stack)
    BY <1>1 DEF Action, Top, IInv
  <2> HIDE DEF X
  <2> QED BY <1>2, <1>3, <1>4, <2>1, PassedPushed
<1>6. EndTaken'
  <2> SUFFICES ASSUME NEW n \in DOMAIN stack', stack'[n].symbol = Dollar PROVE Ended'
    BY <1>1 DEF EndTaken
  <2>1. /\ \A k \in DOMAIN stack : stack[k].symbol # Dollar
        /\ DOMAIN stack = 1 .. Len(stack)
    BY <1>1, <1>2 DEF IInv, EndTaken
  <2>2. x.symbol = X
    OBVIOUS
  <2> HIDE DEF x, X
  <2>3. DOMAIN stack' = 1 .. Len(stack) + 1 /\ stack'[Len(stack) + 1] = x /\ \A k \in 1 .. Len(stack) : stack'[k] = stack[k]
    BY <1>1, <1>2
  <2>4. X = Dollar
    BY <1>2, <2>1, <2>2, <2>3
  <2> QED BY <1>1, <1>2, <2>4 DEF Ended, Lookahead, X
<1> QED BY <1>1, <1>5, <1>6

LEMMA ReducePasses == IInv /\ Reduce => Passed(automaton', stack') /\ EndTaken'
<1> SUFFICES ASSUME IInv, Reduce PROVE Passed(automaton', stack') /\ EndTaken'
  OBVIOUS
<1> DEFINE x == [state |-> GotoState, symbol |-> Prod.head]
           m == Len(stack) - Prod.length
<1>1. status = "reduce" /\ automaton' = automaton /\ stack' = Append(StackLeft, x)
  BY DEF Reduce
<1>2. /\ FollowsRules(automaton) /\ stack \in Seq(Entry(automaton)) /\ Len(stack) \in Nat \ {0}
      /\ DOMAIN stack = 1 .. Len(stack)
  BY <1>1, RulesAssumption DEF IInv, Driven, TypeOK, Entry
<1>3. /\ reduction.prod \in DOMAIN automaton.prods /\ Prod.length \in Nat /\ Prod.length < Len(stack)
      /\ Prod.head \in SymbolsOf(automaton) /\ Action(Uncovered, Prod.head).code = "SHIFT"
  BY <1>1, CalledFits
<1>4. Prod.length \in 0 .. Len(stack) - 1 /\ Prod.length \in 0 .. Len(stack) /\ m \in 1 .. Len(stack)
  BY <1>2, <1>3
<1>5. /\ StackLeft \in Seq(Entry(automaton)) /\ Len(StackLeft) = m /\ DOMAIN StackLeft = 1 .. m
      /\ StackLeft # <<>> /\ \A k \in 1 .. m : StackLeft[k] = stack[k]
  <2>1. StackLeft \in Seq(Entry(automaton)) /\ Len(StackLeft) = m /\ \A k \in 1 .. m : StackLeft[k] = stack[k]
    BY <1>2, <1>4, TruncatedType DEF StackLeft
  <2> QED BY <1>4, <2>1
<1>6. StackLeft[Len(StackLeft)].state = Uncovered
  BY <1>4, <1>5 DEF Uncovered
<1>7. stack' = Pushed(automaton, StackLeft, Prod.head, Prod.head)
  BY <1>1, <1>6 DEF Pushed, GotoState, Action
<1>8. Passed(automaton, stack')
  <2>1. Passed(automaton, StackLeft)
    BY <1>2, <1>4, PassedTruncated DEF IInv, StackLeft
  <2>2. automaton.action[StackLeft[Len(StackLeft)].state][Prod.head].code = "SHIFT"
    BY <1>3, <1>6 DEF Action
  <2> QED BY <1>2, <1>3, <1>5, <1>7, <2>1, <2>2, PassedPushed
<1>9. EndTaken'
  <2> SUFFICES ASSUME NEW n \in DOMAIN stack' PROVE stack'[n].symbol # Dollar
    BY DEF EndTaken
  <2>1. ASSUME NEW k \in 1 .. m PROVE StackLeft[k].symbol # Dollar
    <3>1. \A j \in DOMAIN stack : stack[j].symbol # Dollar
      BY <1>1 DEF IInv, EndTaken
    <3>2. k \in DOMAIN stack /\ StackLeft[k] = stack[k]
      <4> HIDE DEF m
      <4> QED BY <1>2, <1>4, <1>5
    <3> QED BY <3>1, <3>2
  <2>2. x.symbol = Prod.head /\ Prod.head # Dollar
    BY <1>2, <1>3 DEF FollowsRules, Prod
  <2> HIDE DEF x, m
  <2>3. DOMAIN stack' = 1 .. m + 1 /\ stack'[m + 1] = x /\ \A k \in 1 .. m : stack'[k] = StackLeft[k]
    BY <1>1, <1>4, <1>5
  <2> QED BY <1>4, <2>1, <2>2, <2>3
<1> QED BY <1>1, <1>8, <1>9

LEMMA NextIInv == IInv /\ [Next]_vars => IInv'
<1> SUFFICES ASSUME IInv, [Next]_vars PROVE Passed(automaton', stack') /\ EndTaken'
  BY NextDrives DEF IInv
<1>1. CASE NextToken
  <2>1. ~ Ended /\ UNCHANGED <<automaton, stack>>
    BY <1>1 DEF NextToken
  <2> QED BY <2>1, SameStack
<1>2. CASE Shift
  BY <1>2, ShiftPasses
<1>3. CASE Reduce
  BY <1>3, ReducePasses
<1>4. CASE EndOfTokens \/ Prepare \/ Pop \/ AddVirtual \/ SemanticAction \/ Reject \/ UNCHANGED vars
  <2>1. /\ UNCHANGED <<automaton, stack, tokens>>
        /\ status \in {"next", "accepted"} => status' \in {"next", "accepted"}
    BY <1>4 DEF EndOfTokens, Prepare, Pop, AddVirtual, SemanticAction, Executing, Reject, vars
  <2> QED BY <2>1, SameStack
<1> QED BY <1>1, <1>2, <1>3, <1>4 DEF Next, Returned
-----------------------------------------------------------------------------
\* The inductive invariant holds
THEOREM Invariant == Spec => []IInv
  BY InitIInv, NextIInv, PTL DEF Spec

\* The driver's state is typed: its two stacks have the same height, an op-code
\* under way is one of its production, and its pops are counted
THEOREM TypeCorrect == Spec => []TypeOK
<1>1. IInv => TypeOK
  BY DEF IInv, Driven
<1> QED BY Invariant, <1>1, PTL

\* The stack spells a path of the automaton, for every well-formed automaton
THEOREM StackIsAPath == Spec => []ItemsBacked
<1>1. IInv => ItemsBacked
  BY DEF IInv, Driven
<1> QED BY Invariant, <1>1, PTL

\* No reduction goes out of a stack, and "this must be a shift" (lrk.rs:464) is
\* always true, whatever the grammar, its tables being well formed
THEOREM ReductionsAlwaysFit == Spec => []ReductionsFit
  BY Invariant, IInvFits, PTL
-----------------------------------------------------------------------------
(***************************************************************************)
(* What is accepted.  The grammar derives it, whatever the automaton and    *)
(* the tokens: this is about spans of the tokens, so as to need no language *)
(* of words.                                                               *)
(***************************************************************************)
\* The spans of the words of the symbols: a token is one of its terminal, and what
\* the body of a rule spans, symbol after symbol, is one of its head.
SpansClosed(a, w, S) ==
    /\ \A k \in DOMAIN w : <<w[k], k - 1, k>> \in S
    /\ \A r \in DOMAIN a.rules : \A cut \in [0 .. Len(a.rules[r].body) -> 0 .. Len(w)] :
        (\A k \in DOMAIN a.rules[r].body : <<a.rules[r].body[k], cut[k - 1], cut[k]>> \in S)
            => <<a.rules[r].head, cut[0], cut[Len(a.rules[r].body)]>> \in S

SpansOf(a, w) == SymbolsOf(a) \X (0 .. Len(w)) \X (0 .. Len(w))

Derives(a, w, X, from, to) ==
    \A S \in SUBSET SpansOf(a, w) : SpansClosed(a, w, S) => <<X, from, to>> \in S

IsSentence(a, w) == Derives(a, w, a.rules[AxiomRule(a)].head, 0, Len(w))

\* The tokens that are on the stack
Taken == IF status \in {"next", "accepted"} THEN Len(tokens) ELSE Len(tokens) - 1

\* The end is at the end of the axiom's rule.
EndPassed ==
    /\ status = "accepted" => Ended
    /\ status \in {"next", "accepted"} /\ Ended => <<AxiomRule(automaton), 2>> \in automaton.items[Top.state]

\* The symbols of the stack derive the tokens taken, from mark to mark.
IsReading(a, w, st, taken, marks) ==
    /\ marks \in [1 .. Len(st) -> 0 .. Len(w)]
    /\ marks[1] = 0 /\ marks[Len(st)] = taken
    /\ \A n \in 2 .. Len(st) : Derives(a, w, st[n].symbol, marks[n - 1], marks[n])

SpellsInv ==
    /\ EndPassed
    /\ \E marks : IsReading(automaton, tokens, stack, Taken, marks)

LEMMA ATokenDerives ==
    ASSUME NEW a, NEW w, NEW k \in DOMAIN w
    PROVE  Derives(a, w, w[k], k - 1, k)
BY DEF Derives, SpansClosed

LEMMA ARuleDerives ==
    ASSUME NEW a, NEW w, NEW r \in DOMAIN a.rules, NEW cut \in [0 .. Len(a.rules[r].body) -> 0 .. Len(w)],
           \A k \in DOMAIN a.rules[r].body : Derives(a, w, a.rules[r].body[k], cut[k - 1], cut[k])
    PROVE  Derives(a, w, a.rules[r].head, cut[0], cut[Len(a.rules[r].body)])
<1> SUFFICES ASSUME NEW S \in SUBSET SpansOf(a, w), SpansClosed(a, w, S)
             PROVE  <<a.rules[r].head, cut[0], cut[Len(a.rules[r].body)]>> \in S
  BY DEF Derives
<1>1. \A k \in DOMAIN a.rules[r].body : <<a.rules[r].body[k], cut[k - 1], cut[k]>> \in S
  BY DEF Derives
<1> QED BY <1>1 DEF SpansClosed

LEMMA HeadsAreSymbols ==
    ASSUME NEW a, FollowsRules(a), NEW r \in DOMAIN a.rules
    PROVE  a.rules[r].head \in SymbolsOf(a)
BY DEF FollowsRules, SymbolsOf, HeadsOf

\* What is derived is derived among more tokens.
LEMMA MoreDerive ==
    ASSUME NEW a, FollowsRules(a), NEW w \in Seq(a.terminals), NEW t \in a.terminals,
           NEW X, NEW from, NEW to, Derives(a, w, X, from, to)
    PROVE  Derives(a, Append(w, t), X, from, to)
<1> DEFINE more == Append(w, t)
<1>1. /\ Len(w) \in Nat /\ Len(more) = Len(w) + 1 /\ DOMAIN w = 1 .. Len(w) /\ DOMAIN more = 1 .. Len(w) + 1
      /\ \A k \in 1 .. Len(w) : more[k] = w[k] /\ w[k] \in SymbolsOf(a)
  BY DEF SymbolsOf
<1> HIDE DEF more
<1> SUFFICES ASSUME NEW S \in SUBSET SpansOf(a, more), SpansClosed(a, more, S)
             PROVE  <<X, from, to>> \in S
  BY DEF Derives, more
<1> DEFINE N == S \cap SpansOf(a, w)
<1>2. \A k \in DOMAIN w : <<w[k], k - 1, k>> \in N
  <2> SUFFICES ASSUME NEW k \in 1 .. Len(w) PROVE <<w[k], k - 1, k>> \in N
    BY <1>1
  <2>1. <<w[k], k - 1, k>> \in S
    BY <1>1 DEF SpansClosed
  <2>2. <<w[k], k - 1, k>> \in SpansOf(a, w)
    BY <1>1 DEF SpansOf
  <2> QED BY <2>1, <2>2
<1>3. ASSUME NEW r \in DOMAIN a.rules, NEW cut \in [0 .. Len(a.rules[r].body) -> 0 .. Len(w)],
             \A k \in DOMAIN a.rules[r].body : <<a.rules[r].body[k], cut[k - 1], cut[k]>> \in N
      PROVE  <<a.rules[r].head, cut[0], cut[Len(a.rules[r].body)]>> \in N
  <2> DEFINE n == Len(a.rules[r].body)
  <2>1. n \in Nat
    <3>1. a.rules[r].body \in Seq(SymbolsOf(a))
      BY DEF FollowsRules
    <3> QED BY <3>1
  <2>2. cut \in [0 .. n -> 0 .. Len(more)]
    BY <1>1
  <2>3. <<a.rules[r].head, cut[0], cut[n]>> \in S
    BY <1>3, <2>2 DEF SpansClosed
  <2>4. cut[0] \in 0 .. Len(w) /\ cut[n] \in 0 .. Len(w) /\ a.rules[r].head \in SymbolsOf(a)
    BY <2>1, HeadsAreSymbols
  <2>5. <<a.rules[r].head, cut[0], cut[n]>> \in SpansOf(a, w)
    BY <2>4 DEF SpansOf
  <2> QED BY <2>3, <2>5
<1>4. N \in SUBSET SpansOf(a, w) /\ SpansClosed(a, w, N)
  BY <1>2, <1>3 DEF SpansClosed
<1> QED BY <1>4 DEF Derives

LEMMA ReadingOfMore ==
    ASSUME NEW a, FollowsRules(a), NEW w \in Seq(a.terminals), NEW t \in a.terminals, NEW st, NEW taken,
           NEW marks, IsReading(a, w, st, taken, marks)
    PROVE  IsReading(a, Append(w, t), st, taken, marks)
<1>1. Len(w) \in Nat /\ Len(Append(w, t)) = Len(w) + 1
  OBVIOUS
<1>2. marks \in [1 .. Len(st) -> 0 .. Len(Append(w, t))]
  BY <1>1 DEF IsReading
<1> QED BY <1>2, MoreDerive DEF IsReading

\* The beginning of a stack derives the tokens up to its mark.
LEMMA ReadingTruncated ==
    ASSUME NEW a, NEW w, NEW T, NEW st \in Seq(T), NEW taken, NEW marks, IsReading(a, w, st, taken, marks),
           NEW n \in 0 .. Len(st) - 1
    PROVE  /\ IsReading(a, w, Truncated(st, n), marks[Len(st) - n], [k \in 1 .. Len(st) - n |-> marks[k]])
           /\ marks[Len(st) - n] \in 0 .. Len(w)
<1> DEFINE m == Len(st) - n
           short == Truncated(st, n)
           less == [k \in 1 .. m |-> marks[k]]
<1>1. Len(st) \in Nat /\ n \in Nat /\ m \in 1 .. Len(st)
  OBVIOUS
<1>2. Len(short) = m /\ \A k \in 1 .. m : short[k] = st[k]
  <2>1. n \in 0 .. Len(st)
    BY <1>1
  <2> QED BY <2>1, TruncatedType
<1>3. /\ marks \in [1 .. Len(st) -> 0 .. Len(w)] /\ marks[1] = 0
      /\ \A k \in 2 .. Len(st) : Derives(a, w, st[k].symbol, marks[k - 1], marks[k])
  BY DEF IsReading
<1> HIDE DEF m, short
<1>4. \A k \in 1 .. m : less[k] = marks[k] /\ marks[k] \in 0 .. Len(w)
  BY <1>1, <1>3
<1>5. \A k \in 2 .. m : k \in 1 .. m /\ k - 1 \in 1 .. m /\ k \in 2 .. Len(st)
  BY <1>1
<1>6. less \in [1 .. m -> 0 .. Len(w)] /\ less[1] = 0 /\ less[m] = marks[m] /\ marks[m] \in 0 .. Len(w)
  BY <1>1, <1>3, <1>4
<1>7. \A k \in 2 .. m : Derives(a, w, short[k].symbol, less[k - 1], less[k])
  BY <1>2, <1>3, <1>4, <1>5
<1>8. IsReading(a, w, short, marks[m], less)
  BY <1>2, <1>6, <1>7 DEF IsReading
<1> QED BY <1>6, <1>8 DEF m, short

\* A symbol more derives what comes next.
LEMMA ReadingPushed ==
    ASSUME NEW a, NEW w, NEW T, NEW st \in Seq(T), NEW taken, NEW marks, IsReading(a, w, st, taken, marks),
           NEW x \in T, NEW to \in 0 .. Len(w), Derives(a, w, x.symbol, taken, to), Len(st) > 0
    PROVE  \E more : IsReading(a, w, Append(st, x), to, more)
<1> DEFINE n == Len(st)
           longer == Append(st, x)
           more == [k \in 1 .. n + 1 |-> IF k = n + 1 THEN to ELSE marks[k]]
<1>1. n \in Nat \ {0} /\ Len(longer) = n + 1 /\ longer[n + 1] = x /\ \A k \in 1 .. n : longer[k] = st[k]
  OBVIOUS
<1>2. /\ marks \in [1 .. n -> 0 .. Len(w)] /\ marks[1] = 0 /\ marks[n] = taken
      /\ \A k \in 2 .. n : Derives(a, w, st[k].symbol, marks[k - 1], marks[k])
  BY DEF IsReading
<1> HIDE DEF n, longer
<1>3. /\ \A k \in 1 .. n : more[k] = marks[k]
      /\ more[n + 1] = to
  BY <1>1
<1>4. more \in [1 .. n + 1 -> 0 .. Len(w)] /\ more[1] = 0
  BY <1>1, <1>2
<1> HIDE DEF more
<1>5. ASSUME NEW k \in 2 .. n + 1
      PROVE  Derives(a, w, longer[k].symbol, more[k - 1], more[k])
  <2>1. CASE k = n + 1
    BY <1>1, <1>2, <1>3, <2>1
  <2>2. CASE k # n + 1
    <3>1. k \in 2 .. n /\ k \in 1 .. n /\ k - 1 \in 1 .. n
      BY <1>1, <2>2
    <3> QED BY <1>1, <1>2, <1>3, <3>1
  <2> QED BY <2>1, <2>2
<1>6. IsReading(a, w, longer, to, more)
  BY <1>1, <1>3, <1>4, <1>5 DEF IsReading
<1> QED BY <1>6 DEF longer
-----------------------------------------------------------------------------
\* What is under way is well formed.
LEMMA Grounded ==
    ASSUME IInv
    PROVE  /\ WellFormed(automaton) /\ FollowsRules(automaton)
           /\ tokens \in Seq(automaton.terminals) /\ Len(tokens) \in Nat /\ DOMAIN tokens = 1 .. Len(tokens)
           /\ stack \in Seq(Entry(automaton)) /\ Len(stack) \in Nat \ {0} /\ DOMAIN stack = 1 .. Len(stack)
           /\ status \in {"token", "reduce", "error"} => Len(tokens) > 0
           /\ Taken \in 0 .. Len(tokens)
<1>1. WellFormed(automaton) /\ FollowsRules(automaton)
  BY AutomataAssumption, RulesAssumption DEF IInv, Driven, TypeOK
<1>2. /\ tokens \in Seq(automaton.terminals) /\ stack \in Seq(Entry(automaton)) /\ stack # <<>>
      /\ status \in {"next", "token", "reduce", "accepted", "error"}
      /\ (status \in {"token", "reduce", "error"} => tokens # <<>>)
  BY DEF IInv, Driven, TypeOK, Entry
<1> DEFINE S == automaton.terminals
           T == Entry(automaton)
<1> HIDE DEF S, T
<1>3. Len(tokens) \in Nat /\ DOMAIN tokens = 1 .. Len(tokens) /\ (tokens # <<>> => Len(tokens) > 0)
  <2>1. tokens \in Seq(S)
    BY <1>2 DEF S
  <2> QED BY <2>1
<1>4. Len(stack) \in Nat \ {0} /\ DOMAIN stack = 1 .. Len(stack)
  <2>1. stack \in Seq(T) /\ stack # <<>>
    BY <1>2 DEF T
  <2> QED BY <2>1
<1>5. Taken \in 0 .. Len(tokens)
  BY <1>2, <1>3 DEF Taken
<1> QED BY <1>1, <1>2, <1>3, <1>4, <1>5

\* The driver's stack and tokens do not move, and it takes no token.
LEMMA SameSpells ==
    ASSUME SpellsInv, UNCHANGED <<automaton, stack, tokens>>, Taken' = Taken,
           status' \in {"next", "accepted"} => status \in {"next", "accepted"},
           status' = "accepted" => Ended
    PROVE  SpellsInv'
<1>1. \E marks : IsReading(automaton', tokens', stack', Taken', marks)
  BY DEF SpellsInv
<1>2. EndPassed'
  BY DEF SpellsInv, EndPassed, Ended, Lookahead, Top
<1> QED BY <1>1, <1>2 DEF SpellsInv

LEMMA InitSpells == Init => SpellsInv
<1> SUFFICES ASSUME Init PROVE SpellsInv
  OBVIOUS
<1> DEFINE first == [state |-> 1, symbol |-> "none"]
           marks == [n \in 1 .. 1 |-> 0]
<1>1. stack = <<first>> /\ tokens = <<>> /\ status = "next"
  BY DEF Init
<1>2. Len(stack) = 1 /\ stack[1].state = 1 /\ Len(tokens) = 0 /\ Taken = 0
  BY <1>1 DEF Taken
<1>3. EndPassed
  BY <1>1, <1>2 DEF EndPassed, Ended
<1>4. IsReading(automaton, tokens, stack, Taken, marks)
  BY <1>2 DEF IsReading
<1> QED BY <1>3, <1>4 DEF SpellsInv

LEMMA NextTokenSpells == IInv /\ SpellsInv /\ NextToken => SpellsInv'
<1> SUFFICES ASSUME IInv, SpellsInv, NextToken PROVE SpellsInv'
  OBVIOUS
<1>1. PICK t \in automaton.terminals : tokens' = Append(tokens, t)
  BY DEF NextToken
<1>2. status = "next" /\ status' = "token" /\ automaton' = automaton /\ stack' = stack
  BY DEF NextToken
<1>3. FollowsRules(automaton) /\ tokens \in Seq(automaton.terminals) /\ Len(tokens) \in Nat
  BY Grounded
<1>4. Taken' = Taken
  BY <1>1, <1>2, <1>3 DEF Taken
<1>5. PICK marks : IsReading(automaton, tokens, stack, Taken, marks)
  BY DEF SpellsInv
<1>6. IsReading(automaton, tokens', stack, Taken, marks)
  BY <1>1, <1>3, <1>5, ReadingOfMore
<1>7. IsReading(automaton', tokens', stack', Taken', marks)
  BY <1>2, <1>4, <1>6
<1>8. EndPassed'
  BY <1>2 DEF EndPassed
<1> QED BY <1>7, <1>8 DEF SpellsInv

LEMMA ShiftSpells == IInv /\ SpellsInv /\ Shift => SpellsInv'
<1> SUFFICES ASSUME IInv, SpellsInv, Shift PROVE SpellsInv'
  OBVIOUS
<1> DEFINE X == Lookahead
           x == [state |-> Action(Top.state, X).data, symbol |-> X]
<1>1. /\ status = "token" /\ status' = "next" /\ automaton' = automaton /\ tokens' = tokens
      /\ Action(Top.state, X).code = "SHIFT" /\ stack' = Append(stack, x)
  BY DEF Shift
<1>2. /\ WellFormed(automaton) /\ FollowsRules(automaton)
      /\ tokens \in Seq(automaton.terminals) /\ Len(tokens) \in Nat /\ Len(tokens) > 0 /\ DOMAIN tokens = 1 .. Len(tokens)
      /\ stack \in Seq(Entry(automaton)) /\ Len(stack) \in Nat \ {0}
  BY <1>1, Grounded
<1>3. X \in automaton.terminals /\ X \in SymbolsOf(automaton) /\ X = tokens[Len(tokens)]
  BY <1>2 DEF Lookahead, SymbolsOf
<1>4. Top.state \in StatesOf(automaton)
  BY <1>2, EntryState DEF Top
<1>7. \E more : IsReading(automaton, tokens, stack', Len(tokens), more)
  <2>1. PICK marks : IsReading(automaton, tokens, stack, Taken, marks)
    BY DEF SpellsInv
  <2>2. Taken = Len(tokens) - 1
    BY <1>1 DEF Taken
  <2>3. Derives(automaton, tokens, X, Taken, Len(tokens))
    <3>1. Len(tokens) \in DOMAIN tokens
      BY <1>2
    <3>2. Derives(automaton, tokens, tokens[Len(tokens)], Len(tokens) - 1, Len(tokens))
      BY <3>1, ATokenDerives
    <3> QED BY <1>3, <2>2, <3>2
  <2>4. x.symbol = X /\ Len(tokens) \in 0 .. Len(tokens)
    BY <1>2
  <2> DEFINE T == Entry(automaton) \cup {x}
  <2>5. stack \in Seq(T) /\ x \in T
    BY <1>2
  <2>6. Len(stack) > 0 /\ stack' = Append(stack, x)
    BY <1>1, <1>2
  <2> HIDE DEF T, x
  <2>7. Derives(automaton, tokens, x.symbol, Taken, Len(tokens))
    BY <2>3, <2>4
  <2> HIDE DEF X
  <2> QED BY <2>1, <2>4, <2>5, <2>6, <2>7, ReadingPushed
<1>8. Taken' = Len(tokens)
  BY <1>1 DEF Taken
<1>9. EndPassed'
  <2>1. Top' = x
    <3>1. stack'[Len(stack')] = x
      BY <1>1, <1>2
    <3> QED BY <3>1 DEF Top
  <2>2. Lookahead' = X
    BY <1>1 DEF Lookahead
  <2>3. X = Dollar => <<AxiomRule(automaton), 2>> \in automaton.items[x.state]
    BY <1>1, <1>2, <1>3, <1>4 DEF FollowsRules, Action
  <2> QED BY <1>1, <2>1, <2>2, <2>3 DEF EndPassed, Ended
<1> QED BY <1>1, <1>7, <1>8, <1>9 DEF SpellsInv

\* The items of the rule that is reduced are those of the states of its body.
LEMMA ReducedItems ==
    ASSUME IInv, status = "reduce"
    PROVE  \A k \in 0 .. Prod.length :
            <<reduction.prod, k>> \in automaton.items[stack[(Len(stack) - Prod.length) + k].state]
<1> DEFINE p == reduction.prod
           length == Prod.length
           n == Len(stack)
<1>1. WellFormed(automaton) /\ stack \in Seq(Entry(automaton)) /\ n \in Nat \ {0} /\ n \in DOMAIN stack
  BY Grounded
<1>2. length \in Nat /\ Top.state \in StatesOf(automaton)
  BY <1>1, CalledFits, EntryState DEF Top
<1>3. <<p, length>> \in automaton.items[Top.state]
  <2>1. PICK X \in SymbolsOf(automaton) : Action(Top.state, X).code = "REDUCE" /\ Action(Top.state, X).data = p
    BY DEF IInv, Driven, Called
  <2> QED BY <1>1, <1>2, <2>1 DEF WellFormed, ReductionsComplete, Action, Prod
<1>4. \A j \in 0 .. length : <<p, length - j>> \in automaton.items[stack[n - j].state]
  <2>1. <<p, length>>[1] = p /\ <<p, length>>[2] = length
    OBVIOUS
  <2> HIDE DEF p, length
  <2> QED BY <1>1, <1>3, <2>1 DEF IInv, Driven, ItemsBacked, Top
<1>5. ASSUME NEW k \in 0 .. length
      PROVE  <<p, k>> \in automaton.items[stack[(n - length) + k].state]
  <2>1. length - k \in 0 .. length /\ length - (length - k) = k /\ n - (length - k) = (n - length) + k
    BY <1>1, <1>2
  <2> QED BY <1>4, <2>1
<1> QED BY <1>5

\* What the body of a rule spans, its head does.
LEMMA ReduceSpells == IInv /\ SpellsInv /\ Reduce => SpellsInv'
<1> SUFFICES ASSUME IInv, SpellsInv, Reduce PROVE SpellsInv'
  OBVIOUS
<1> DEFINE a == automaton
           p == reduction.prod
           length == Prod.length
           m == Len(stack) - length
           x == [state |-> GotoState, symbol |-> Prod.head]
<1>1. status = "reduce" /\ status' = "token" /\ automaton' = automaton /\ tokens' = tokens
      /\ stack' = Append(StackLeft, x)
  BY DEF Reduce
<1>2. /\ WellFormed(a) /\ FollowsRules(a) /\ Len(tokens) \in Nat
      /\ stack \in Seq(Entry(a)) /\ Len(stack) \in Nat \ {0} /\ DOMAIN stack = 1 .. Len(stack)
      /\ Taken \in 0 .. Len(tokens)
  BY Grounded
<1>3. /\ p \in DOMAIN a.prods /\ length \in Nat /\ length < Len(stack)
      /\ Prod.head \in SymbolsOf(a) /\ Action(Uncovered, Prod.head).code = "SHIFT"
  BY <1>1, CalledFits
<1>4. length \in 0 .. Len(stack) - 1 /\ m \in 1 .. Len(stack)
  BY <1>2, <1>3
<1>5. PICK marks : IsReading(a, tokens, stack, Taken, marks)
  BY DEF SpellsInv
<1>6. /\ IsReading(a, tokens, StackLeft, marks[m], [k \in 1 .. m |-> marks[k]])
      /\ marks[m] \in 0 .. Len(tokens)
  BY <1>2, <1>4, <1>5, ReadingTruncated DEF StackLeft
<1>7. /\ p \in DOMAIN a.rules /\ a.rules[p].head = Prod.head /\ Len(a.rules[p].body) = length
      /\ DOMAIN a.rules[p].body = 1 .. length
  <2>1. a.rules[p].body \in Seq(SymbolsOf(a)) /\ Len(a.rules[p].body) = length
        /\ p \in DOMAIN a.rules /\ a.rules[p].head = Prod.head
    BY <1>2, <1>3 DEF FollowsRules, Prod
  <2> QED BY <2>1
<1>8. ASSUME NEW k \in 1 .. length
      PROVE  a.rules[p].body[k] = stack[m + k].symbol
  <2>1. m + k \in 2 .. Len(stack) /\ m + k \in DOMAIN stack
    BY <1>2, <1>3, <1>4
  <2>2. <<p, k>> \in a.items[stack[m + k].state]
    <3>1. k \in 0 .. length
      BY <1>3
    <3> QED BY <1>1, <3>1, ReducedItems
  <2>3. <<p, k>>[1] = p /\ <<p, k>>[2] = k /\ k > 0
    OBVIOUS
  <2> QED BY <2>1, <2>2, <2>3 DEF IInv, Passed
<1>9. Derives(a, tokens, Prod.head, marks[m], Taken)
  <2> DEFINE cut == [k \in 0 .. length |-> marks[m + k]]
  <2>1. /\ marks \in [1 .. Len(stack) -> 0 .. Len(tokens)] /\ marks[Len(stack)] = Taken
        /\ \A n \in 2 .. Len(stack) : Derives(a, tokens, stack[n].symbol, marks[n - 1], marks[n])
    BY <1>5 DEF IsReading
  <2>2. \A k \in 0 .. length : m + k \in 1 .. Len(stack)
    BY <1>2, <1>3, <1>4
  <2>3. cut \in [0 .. length -> 0 .. Len(tokens)]
    BY <2>1, <2>2
  <2>4. cut[0] = marks[m] /\ cut[length] = Taken
    BY <1>2, <1>3, <2>1
  <2>5. ASSUME NEW k \in 1 .. length
        PROVE  Derives(a, tokens, a.rules[p].body[k], cut[k - 1], cut[k])
    <3>1. m + k \in 2 .. Len(stack) /\ cut[k - 1] = marks[(m + k) - 1] /\ cut[k] = marks[m + k]
      BY <1>2, <1>3, <1>4
    <3> QED BY <1>8, <2>1, <3>1
  <2> HIDE DEF cut, length, p
  <2>6. Derives(a, tokens, a.rules[p].head, cut[0], cut[Len(a.rules[p].body)])
    BY <1>7, <2>3, <2>5, ARuleDerives
  <2> QED BY <1>7, <2>4, <2>6
<1>10. StackLeft \in Seq(Entry(a)) /\ Len(StackLeft) = m /\ StackLeft # <<>>
       /\ StackLeft[Len(StackLeft)].state = Uncovered
  <2>1. length \in 0 .. Len(stack) /\ m \in 1 .. Len(stack) - length
    BY <1>2, <1>4
  <2>2. StackLeft \in Seq(Entry(a)) /\ Len(StackLeft) = m /\ StackLeft[m] = stack[m]
    BY <1>2, <2>1, TruncatedType DEF StackLeft
  <2> QED BY <1>4, <2>2 DEF Uncovered
<1>13. \E more : IsReading(a, tokens, stack', Taken, more)
  <2> DEFINE T == Entry(a) \cup {x}
  <2>1. StackLeft \in Seq(T) /\ x \in T /\ x.symbol = Prod.head /\ Len(StackLeft) > 0
    BY <1>4, <1>10
  <2> HIDE DEF T, x
  <2> QED BY <1>1, <1>2, <1>6, <1>9, <2>1, ReadingPushed
<1>14. Taken' = Taken /\ EndPassed'
  BY <1>1 DEF Taken, EndPassed
<1> QED BY <1>1, <1>13, <1>14 DEF SpellsInv

LEMMA NextSpells == IInv /\ SpellsInv /\ [Next]_vars => SpellsInv'
<1> SUFFICES ASSUME IInv, SpellsInv, [Next]_vars PROVE SpellsInv'
  OBVIOUS
<1>1. CASE NextToken
  BY <1>1, NextTokenSpells
<1>2. CASE EndOfTokens
  <2>1. status = "next" /\ status' = "accepted" /\ UNCHANGED <<automaton, stack, tokens>> /\ Ended
    BY <1>2 DEF EndOfTokens
  <2> QED BY <2>1, SameSpells DEF Taken
<1>3. CASE Shift
  BY <1>3, ShiftSpells
<1>4. CASE Prepare \/ Pop \/ AddVirtual \/ SemanticAction
  <2>1. status \in {"token", "reduce"} /\ status' = "reduce" /\ UNCHANGED <<automaton, stack, tokens>>
    BY <1>4 DEF Prepare, Pop, AddVirtual, SemanticAction, Executing
  <2> QED BY <2>1, SameSpells DEF Taken
<1>5. CASE Reduce
  BY <1>5, ReduceSpells
<1>6. CASE Reject
  <2>1. status = "token" /\ status' = "error" /\ UNCHANGED <<automaton, stack, tokens>>
    BY <1>6 DEF Reject
  <2> QED BY <2>1, SameSpells DEF Taken
<1>7. CASE UNCHANGED vars
  <2>1. UNCHANGED <<status, automaton, stack, tokens>> /\ (status = "accepted" => Ended)
    BY <1>7 DEF vars, SpellsInv, EndPassed
  <2> QED BY <2>1, SameSpells DEF Taken
<1> QED BY <1>1, <1>2, <1>3, <1>4, <1>5, <1>6, <1>7 DEF Next, Returned

\* At the end the stack has the body of the axiom's rule, and nothing else.
AcceptsOnlySentences == status = "accepted" => IsSentence(automaton, tokens)

LEMMA AcceptedIsSentence ==
    ASSUME IInv, SpellsInv, status = "accepted"
    PROVE  IsSentence(automaton, tokens)
<1> DEFINE a == automaton
           r == AxiomRule(a)
           n == Len(stack)
<1>1. /\ WellFormed(a) /\ FollowsRules(a) /\ Len(tokens) \in Nat
      /\ stack \in Seq(Entry(a)) /\ n \in Nat \ {0} /\ DOMAIN stack = 1 .. n /\ Taken = Len(tokens)
  BY Grounded DEF Taken
<1>2. <<r, 2>> \in a.items[stack[n].state]
  BY DEF SpellsInv, EndPassed, Top
<1>3. /\ 2 < n
      /\ \A j \in 0 .. 2 : <<r, 2 - j>> \in a.items[stack[n - j].state]
  <2> DEFINE end == <<r, 2>>
  <2>1. end[1] = r /\ end[2] = 2 /\ end \in a.items[stack[n].state] /\ n \in DOMAIN stack
    BY <1>1, <1>2
  <2> HIDE DEF end
  <2>2. end[2] < n /\ \A j \in 0 .. end[2] : <<end[1], end[2] - j>> \in a.items[stack[n - j].state]
    BY <2>1 DEF IInv, Driven, ItemsBacked
  <2> QED BY <2>1, <2>2
<1>4. n = 3
  <2>1. n - 2 \in DOMAIN stack /\ stack[n - 2].state \in StatesOf(a)
    <3>1. n - 2 \in DOMAIN stack
      BY <1>1, <1>3
    <3> QED BY <1>1, <3>1, EntryState
  <2>2. <<r, 0>> \in a.items[stack[n - 2].state]
    <3>1. 2 \in 0 .. 2 /\ 2 - 2 = 0
      OBVIOUS
    <3> QED BY <1>3, <3>1
  <2>3. stack[n - 2].state = 1
    BY <1>1, <2>1, <2>2 DEF FollowsRules
  <2>4. ~ (n - 2 \in 2 .. n)
    BY <2>3 DEF IInv, Passed
  <2> QED BY <1>1, <1>3, <2>4
<1>5. <<r, 1>> \in a.items[stack[2].state] /\ <<r, 2>> \in a.items[stack[3].state]
  <2>1. 1 \in 0 .. 2 /\ 2 - 1 = 1 /\ n - 1 = 2 /\ 0 \in 0 .. 2 /\ 2 - 0 = 2 /\ n - 0 = 3
    BY <1>4
  <2> QED BY <1>3, <2>1
<1>6. a.rules[r].body[1] = stack[2].symbol /\ a.rules[r].body[2] = stack[3].symbol
  <2>1. <<r, 1>>[1] = r /\ <<r, 1>>[2] = 1 /\ <<r, 2>>[1] = r /\ <<r, 2>>[2] = 2 /\ 2 \in 2 .. n /\ 3 \in 2 .. n
    BY <1>4
  <2> QED BY <1>5, <2>1 DEF IInv, Passed
<1>7. r \in DOMAIN a.rules /\ Len(a.rules[r].body) = 2 /\ DOMAIN a.rules[r].body = {1, 2}
  <2>1. stack[3].state \in StatesOf(a)
    BY <1>1, <1>4, EntryState
  <2>2. <<r, 2>>[1] \in DOMAIN a.prods
    BY <1>1, <1>5, <2>1, ItemIsPair
  <2>3. r \in DOMAIN a.rules /\ a.rules[r].body \in Seq(SymbolsOf(a)) /\ Len(a.rules[r].body) = 2
    BY <1>1, <2>2 DEF FollowsRules
  <2> QED BY <2>3
<1>8. PICK marks : IsReading(a, tokens, stack, Taken, marks)
  BY DEF SpellsInv
<1>9. /\ marks \in [1 .. 3 -> 0 .. Len(tokens)] /\ marks[1] = 0 /\ marks[3] = Len(tokens)
      /\ \A k \in 2 .. 3 : Derives(a, tokens, stack[k].symbol, marks[k - 1], marks[k])
  BY <1>1, <1>4, <1>8 DEF IsReading
<1> DEFINE cut == [k \in 0 .. 2 |-> marks[k + 1]]
<1>10. cut \in [0 .. 2 -> 0 .. Len(tokens)] /\ cut[0] = 0 /\ cut[1] = marks[2] /\ cut[2] = Len(tokens)
  BY <1>9
<1>11. \A k \in {1, 2} : Derives(a, tokens, a.rules[r].body[k], cut[k - 1], cut[k])
  <2>1. Derives(a, tokens, a.rules[r].body[1], cut[0], cut[1])
    BY <1>6, <1>9, <1>10
  <2>2. Derives(a, tokens, a.rules[r].body[2], cut[1], cut[2])
    BY <1>6, <1>9, <1>10
  <2> QED BY <2>1, <2>2
<1> HIDE DEF cut, r
<1>12. Derives(a, tokens, a.rules[r].head, cut[0], cut[Len(a.rules[r].body)])
  BY <1>7, <1>10, <1>11, ARuleDerives
<1> QED BY <1>7, <1>10, <1>12 DEF IsSentence, r

\* What is accepted is a sentence of the grammar: the tokens taken, the end of the
\* input included, are derived by the rule of the axiom, whatever the automaton made
\* from rules and however long the input.
THEOREM OnlySentencesAreAccepted == Spec => []AcceptsOnlySentences
<1>1. Init => IInv /\ SpellsInv
  BY InitIInv, InitSpells
<1>2. IInv /\ SpellsInv /\ [Next]_vars => (IInv /\ SpellsInv)'
  BY NextIInv, NextSpells
<1>3. IInv /\ SpellsInv => AcceptsOnlySentences
  BY AcceptedIsSentence DEF AcceptsOnlySentences
<1> QED BY <1>1, <1>2, <1>3, PTL DEF Spec
=============================================================================
