---------------------- MODULE ParserGeneration_proofs -----------------------
(***************************************************************************)
(* Proofs about the construction of a parser: the sets it starts from are  *)
(* exact, a table without conflicts is sound, the graph is the automaton   *)
(* of the items, the paths and the LALR(1) kernels are exact, and the      *)
(* tables that are written are what the LR(k) parser takes for granted.    *)
(***************************************************************************)
EXTENDS ParserGeneration, LRConstruction_proofs, TLAPS

SetsProof == INSTANCE GrammarSets_proofs WITH phase <- step, modified <- changed

-----------------------------------------------------------------------------
(***************************************************************************)
(* The sets.                                                               *)
(***************************************************************************)
LEMMA SameStep == Sets!Next => SetsProof!Next
BY DEF Sets!Next, SetsProof!Next, Sets!EnterRule, SetsProof!EnterRule, Sets!ComputeChoice, SetsProof!ComputeChoice,
       Sets!EndFirstsPass, SetsProof!EndFirstsPass, Sets!InitialFollower, SetsProof!InitialFollower,
       Sets!PropagateFollowers, SetsProof!PropagateFollowers, Sets!EndFollowersPass, SetsProof!EndFollowersPass,
       Sets!Rewind, SetsProof!Rewind, Sets!FirstsAdded, SetsProof!FirstsAdded, Sets!RulesOf, SetsProof!RulesOf,
       Sets!Outside, SetsProof!Outside, Sets!HeadVar, SetsProof!HeadVar, Sets!Body, SetsProof!Body, Sets!BodyOf, SetsProof!BodyOf,
       Sets!Variables, SetsProof!Variables, Sets!VariablesOf, SetsProof!VariablesOf, Sets!Epsilon, SetsProof!Epsilon,
       Sets!FirstsAfter, SetsProof!FirstsAfter, Sets!EndsRule, SetsProof!EndsRule

LEMMA SameInit == Sets!Init => SetsProof!Init
BY DEF Sets!Init, SetsProof!Init, Sets!RulesOf, SetsProof!RulesOf, Sets!Outside, SetsProof!Outside, Sets!BodyOf, SetsProof!BodyOf,
       Sets!Variables, SetsProof!Variables, Sets!VariablesOf, SetsProof!VariablesOf, Sets!ChoicesOf, SetsProof!ChoicesOf

LEMMA SamePrepared == ASSUME NEW g PROVE IsPrepared(g) <=> SetsProof!IsPrepared(g)
BY DEF IsPrepared, SetsProof!IsPrepared, IsGrammar, SetsProof!IsGrammar, TrueFirsts, SetsProof!TrueFirsts,
       TrueVarFirsts, SetsProof!TrueVarFirsts, Places, SetsProof!Places, At, SetsProof!At, HeadAt, SetsProof!HeadAt,
       NullableSpan, SetsProof!NullableSpan, Nullable, SetsProof!Nullable, Smallest, SetsProof!Smallest,
       SymbolsOf, SetsProof!SymbolsOf, Dollar, SetsProof!Dollar, Epsilon, SetsProof!Epsilon, RulesOf, SetsProof!RulesOf,
       BodyOf, SetsProof!BodyOf, ChoicesOf, SetsProof!ChoicesOf, VariablesOf, SetsProof!VariablesOf,
       HeadOfAxiom, SetsProof!HeadOfAxiom, AxiomRule, SetsProof!AxiomRule, Dummy, SetsProof!Dummy

LEMMA SameExact == SetsProof!FirstsExact /\ SetsProof!FollowersExact => Sets!FirstsExact /\ Sets!FollowersExact
BY DEF Sets!FirstsExact, SetsProof!FirstsExact, Sets!FollowersExact, SetsProof!FollowersExact,
       Sets!TrueFollowers, SetsProof!TrueFollowers, Sets!TrueFirsts, SetsProof!TrueFirsts,
       Sets!TrueVarFirsts, SetsProof!TrueVarFirsts, Sets!Places, SetsProof!Places, Sets!At, SetsProof!At,
       Sets!HeadAt, SetsProof!HeadAt, Sets!NullableSpan, SetsProof!NullableSpan, Sets!Nullable, SetsProof!Nullable,
       Sets!Smallest, SetsProof!Smallest, Sets!SymbolsOf, SetsProof!SymbolsOf, Sets!Dollar, SetsProof!Dollar,
       Sets!Epsilon, SetsProof!Epsilon, Sets!RulesOf, SetsProof!RulesOf, Sets!BodyOf, SetsProof!BodyOf,
       Sets!ChoicesOf, SetsProof!ChoicesOf, Sets!VariablesOf, SetsProof!VariablesOf, Sets!Variables, SetsProof!Variables

\* As long as prepare() runs, its invariant holds.
SetsInv ==
    /\ phase = "prepare" => SetsProof!IInv
    /\ phase # "prepare" => step = "done"

LEMMA ConstructLeaves == Construct => phase # "prepare" /\ phase' # "prepare"
BY DEF Construct, BuildState, GraphBuilt, BuildTable, Propagate, EndPass, CloseState,
       BuildReductions, Goto

LEMMA PrepareRuns == Prepare => step # "done"
BY DEF Prepare, Sets!Next, Sets!EnterRule, Sets!ComputeChoice, Sets!EndFirstsPass, Sets!InitialFollower,
       Sets!PropagateFollowers, Sets!EndFollowersPass

LEMMA SetsStep ==
    ASSUME SetsInv, [GenerationNext]_allVars
    PROVE  SetsInv'
<1>1. ASSUME phase = "prepare", phase' = phase, [SetsProof!Next]_(SetsProof!vars)
      PROVE  SetsInv'
  <2>1. SetsProof!IInv
    BY <1>1 DEF SetsInv
  <2>2. SetsProof!IInv'
    BY <1>1, <2>1, SetsProof!NextProof
  <2> QED BY <1>1, <2>2 DEF SetsInv
<1>2. CASE Prepare
  <2>1. phase = "prepare"
    BY <1>2, PrepareRuns DEF SetsInv
  <2>2. phase' = phase /\ SetsProof!Next
    BY <1>2, SameStep DEF Prepare
  <2> QED BY <1>1, <2>1, <2>2
<1>3. CASE StartGraph
  BY <1>3 DEF StartGraph, Goto, SetsInv, setsVars
<1>4. CASE Construct /\ UNCHANGED <<setsVars, reportVars>>
  <2>1. phase # "prepare" /\ phase' # "prepare"
    BY <1>4, ConstructLeaves
  <2>2. step' = step
    BY <1>4 DEF setsVars
  <2> QED BY <2>1, <2>2 DEF SetsInv
<1>5. CASE Report
  BY <1>5 DEF Report, SetsInv, setsVars
<1>6. CASE UNCHANGED allVars
  <2>1. phase' = phase /\ step' = step /\ UNCHANGED SetsProof!vars
    BY <1>6 DEF allVars, vars, setsVars, SetsProof!vars
  <2>2. CASE phase = "prepare"
    BY <1>1, <2>1, <2>2
  <2>3. CASE phase # "prepare"
    BY <2>1, <2>3 DEF SetsInv
  <2> QED BY <2>2, <2>3
<1> QED BY <1>2, <1>3, <1>4, <1>5, <1>6 DEF GenerationNext

LEMMA SetsStart ==
    ASSUME GenerationInit
    PROVE  SetsInv
<1>1. SetsProof!Init /\ SetsProof!IsPrepared(grammar)
  BY SameInit, SamePrepared, InputGrammarsAssumption DEF GenerationInit, Sets!Init
<1>2. SetsProof!IInv
  BY <1>1, SetsProof!InitProof
<1> QED BY <1>2 DEF SetsInv, GenerationInit

\* The sets that build_graph reads are exact, for all the grammars.
THEOREM SetsAreExact == GenerationSpec => []SetsExact
<1>1. GenerationInit => SetsInv
  BY SetsStart
<1>2. SetsInv /\ [GenerationNext]_allVars => SetsInv'
  BY SetsStep
<1>3. SetsInv => SetsExact
  BY SameExact DEF SetsInv, SetsExact, SetsProof!IInv
<1> QED BY <1>1, <1>2, <1>3, PTL DEF GenerationSpec

\* The grammar that build_graph gets is one that it can work on.
LEMMA StartInput ==
    ASSUME SetsInv, StartGraph
    PROVE  IsInput(grammar')
<1>1. /\ SetsProof!IInv /\ IsPrepared(grammar) /\ SetsProof!TypeOK
      /\ grammar' = [grammar EXCEPT !.firsts = firsts]
  BY SamePrepared DEF SetsInv, StartGraph, SetsProof!IInv
<1>2. DOMAIN grammar = {"rules", "symbols", "firsts"} /\ IsGrammar(grammar)
  BY <1>1 DEF IsPrepared
<1>3. grammar'.rules = grammar.rules /\ grammar'.symbols = grammar.symbols /\ grammar'.firsts = firsts
  BY <1>1, <1>2
<1>4. \A r \in RulesOf(grammar) : \A k \in DOMAIN BodyOf(grammar, r) :
        /\ BodyOf(grammar, r)[k] \in SymbolsOf(grammar)
        /\ BodyOf(grammar, r)[k] \in Elements(grammar.symbols) \ {HeadOfAxiom(grammar)}
  <2> SUFFICES ASSUME NEW r \in RulesOf(grammar), NEW k \in DOMAIN BodyOf(grammar, r)
               PROVE  /\ BodyOf(grammar, r)[k] \in SymbolsOf(grammar)
                      /\ BodyOf(grammar, r)[k] \in Elements(grammar.symbols) \ {HeadOfAxiom(grammar)}
    OBVIOUS
  <2>1. <<r, k>> \in Places(grammar)
    BY DEF Places
  <2>2. BodyOf(grammar, r)[k] \in Elements(grammar.symbols) \ {HeadOfAxiom(grammar)}
    BY <1>2, <2>1 DEF IsGrammar, At, Elements
  <2> QED BY <2>2 DEF SymbolsOf, Elements
<1>5. \A r \in RulesOf(grammar) : \A k \in ChoicesOf(grammar, r) : firsts[r][k] \subseteq Marks(grammar)
  <2>1. SetsProof!RulesOf(grammar) = RulesOf(grammar) /\ SetsProof!SymbolsOf(grammar) = SymbolsOf(grammar)
    BY DEF SetsProof!RulesOf, RulesOf, SetsProof!SymbolsOf, SymbolsOf, SetsProof!VariablesOf, VariablesOf,
           SetsProof!Dollar, Dollar
  <2>2. \A r : SetsProof!ChoicesOf(grammar, r) = ChoicesOf(grammar, r)
    BY DEF SetsProof!ChoicesOf, ChoicesOf, SetsProof!BodyOf, BodyOf
  <2>3. SetsProof!Set \subseteq SUBSET Marks(grammar)
    <3>1. SetsProof!Terminals \subseteq SymbolsOf(grammar) \ VariablesOf(grammar)
      BY <1>4, <2>1 DEF SetsProof!Terminals, SetsProof!BodyOf, BodyOf, SetsProof!Variables,
             SetsProof!VariablesOf, VariablesOf
    <3> QED BY <3>1 DEF SetsProof!Set, SetsProof!Epsilon, Epsilon, Marks
  <2>4. \A r \in SetsProof!RulesOf(grammar) : firsts[r] \in [SetsProof!ChoicesOf(grammar, r) -> SetsProof!Set]
    BY <1>1 DEF SetsProof!TypeOK
  <2> QED BY <2>1, <2>2, <2>3, <2>4
<1>6. /\ RulesOf(grammar') = RulesOf(grammar) /\ Marks(grammar') = Marks(grammar)
      /\ SymbolsOf(grammar') = SymbolsOf(grammar) /\ HeadOfAxiom(grammar') = HeadOfAxiom(grammar)
      /\ \A r : BodyOf(grammar', r) = BodyOf(grammar, r) /\ ChoicesOf(grammar', r) = ChoicesOf(grammar, r)
  BY <1>3 DEF RulesOf, Marks, SymbolsOf, VariablesOf, BodyOf, ChoicesOf, HeadOfAxiom, AxiomRule
<1> QED BY <1>2, <1>3, <1>4, <1>5, <1>6 DEF IsGrammar, IsInput

\* The graph with the state of the axiom
LEMMA StartStates ==
    ASSUME NEW g, IsInput(g), NEW m, NEW graph,
           graph = <<IntoState(g, AxiomKernel(g, {}), GraphModeOf(m))>>
    PROVE  /\ graph \in Graphs(g, GraphModeOf(m))
           /\ graph[1].kernel = AxiomKernel(g, {})
<1> DEFINE mode == GraphModeOf(m)
           kernel == AxiomKernel(g, {})
           s == IntoState(g, kernel, mode)
           x == Item(AxiomRule(g), 0, {})
<1>1. mode \in {"LR0", "LR1"} /\ mode \in Modes
  BY DEF GraphModeOf, Modes
<1>2. kernel \in Items(g)
  BY AxiomShape
<1>3. kernel \in Kernels(g, mode)
  <2>1. kernel = <<x>> /\ x.rule = AxiomRule(g) /\ x.lookaheads = {}
    BY DEF AxiomKernel, Item
  <2>2. x \in ItemType(g)
    <3>1. kernel \in Seq(ItemType(g))
      BY <1>2 DEF Items
    <3> HIDE DEF x, kernel
    <3> QED BY <2>1, <3>1
  <2> HIDE DEF x, kernel, mode
  <2>3. x \in Exact(g, mode)
    BY <1>1, <2>1, <2>2 DEF Exact
  <2> QED BY <2>1, <2>3 DEF Kernels
<1>4. s.kernel = kernel /\ s.items = Closure(g, kernel, mode)
  BY DEF IntoState
<1>5. s \in State(g)
  BY <1>1, <1>2, IntoStateShape
<1>6. graph = <<s>>
  OBVIOUS
<1> HIDE DEF s, kernel, mode
<1>7. s \in GraphState(g, mode)
  BY <1>3, <1>4, <1>5 DEF GraphState
<1>8. graph \in Graphs(g, mode)
  BY <1>6, <1>7 DEF Graphs
<1> QED BY <1>4, <1>6, <1>8 DEF mode, kernel

LEMMA StartGraphShape ==
    ASSUME SetsInv, GraphInv, StartGraph
    PROVE  GraphInv'
<1>1. /\ phase = "prepare" /\ kernels = <<>> /\ table = <<>>
      /\ phase' = "graph" /\ at' = 1 /\ kernels' = <<>> /\ table' = <<>> /\ method' \in Methods
      /\ states' = <<IntoState(grammar', AxiomKernel(grammar', {}), GraphModeOf(method'))>>
  BY DEF StartGraph, Goto, GraphInv
<1>2. IsInput(grammar')
  BY StartInput
<1> DEFINE g == grammar'
           mode == GraphModeOf(method')
<1>3. mode \in Modes
  BY <1>1 DEF GraphModeOf, Modes
<1>4. IntoState(g, AxiomKernel(g, {}), mode) \in State(g)
  <2> HIDE DEF g, mode
  <2>1. IsInput(g)
    BY <1>2 DEF g
  <2> QED BY <1>3, <2>1, AxiomShape, IntoStateShape
<1>5. states' \in Seq(State(grammar')) /\ Len(states') > 0
  <2> DEFINE s == IntoState(g, AxiomKernel(g, {}), mode)
             T == State(g)
  <2>1. s \in T /\ states' = <<s>>
    BY <1>1, <1>4
  <2> HIDE DEF s, T
  <2>2. states' \in Seq(T) /\ Len(states') > 0
    BY <2>1
  <2> QED BY <2>2 DEF T
<1>6. kernels' \in Seq(Items(grammar')) /\ IsTable(table)'
  BY <1>1 DEF IsTable
<1>7. states' \in Graphs(grammar', GraphMode')
  BY <1>1, <1>2, StartStates DEF GraphMode
<1> QED BY <1>1, <1>2, <1>5, <1>6, <1>7 DEF GraphInv
LEMMA GraphStep ==
    ASSUME SetsInv, GraphInv, [GenerationNext]_allVars
    PROVE  GraphInv'
<1>1. CASE Prepare
  <2>1. phase = "prepare" /\ UNCHANGED <<phase, kernels, table>>
    BY <1>1, PrepareRuns DEF Prepare, SetsInv
  <2> QED BY <2>1 DEF GraphInv
<1>2. CASE StartGraph
  BY <1>2, StartGraphShape
<1>3. CASE Construct
  BY <1>3, ConstructShape
<1>4. CASE Report
  <2>1. /\ phase = "done" /\ phase' = "returned"
        /\ UNCHANGED <<grammar, method, at, states, kernels, table>>
    BY <1>4 DEF Report
  <2> QED BY <2>1 DEF GraphInv, IsTable
<1>5. CASE UNCHANGED allVars
  <2>1. UNCHANGED <<phase, grammar, method, at, states, kernels, table>>
    BY <1>5 DEF allVars, vars
  <2> QED BY <2>1 DEF GraphInv, IsTable, GraphMode
<1> QED BY <1>1, <1>2, <1>3, <1>4, <1>5 DEF GenerationNext

LEMMA SoundStep ==
    ASSUME SetsInv, GraphInv, SoundInv, [GenerationNext]_allVars
    PROVE  SoundInv'
<1>1. CASE Construct
  BY <1>1, ConstructSound
<1>2. CASE Prepare \/ StartGraph \/ Report
  <2>1. phase' \notin {"reductions", "done"}
    <3>1. CASE Prepare
      <4>1. phase = "prepare"
        BY <3>1, PrepareRuns DEF SetsInv
      <4> QED BY <3>1, <4>1 DEF Prepare
    <3> QED BY <1>2, <3>1 DEF StartGraph, Report, Goto
  <2> QED BY <2>1 DEF SoundInv
<1>3. CASE UNCHANGED allVars
  BY <1>3 DEF allVars, vars, SoundInv, IsRNGLR
<1> QED BY <1>1, <1>2, <1>3 DEF GenerationNext

\* A table for which no conflict is raised has the one action that the items call for, for every
\* grammar and every method.
THEOREM TableIsSound == GenerationSpec => []TableSound
<1>1. GenerationInit => SetsInv /\ GraphInv /\ SoundInv
  <2> SUFFICES ASSUME GenerationInit PROVE SetsInv /\ GraphInv /\ SoundInv
    OBVIOUS
  <2>1. phase = "prepare" /\ kernels = <<>> /\ table = <<>>
    BY DEF GenerationInit
  <2> QED BY <2>1, SetsStart DEF GraphInv, SoundInv
<1>2. SetsInv /\ GraphInv /\ SoundInv /\ [GenerationNext]_allVars => (SetsInv /\ GraphInv /\ SoundInv)'
  BY SetsStep, GraphStep, SoundStep
<1>3. SoundInv => TableSound
  BY SoundTable
<1> QED BY <1>1, <1>2, <1>3, PTL DEF GenerationSpec

LEMMA TransStep ==
    ASSUME SetsInv, GraphInv, TransInv, [GenerationNext]_allVars
    PROVE  TransInv'
<1>1. CASE Prepare
  <2>1. phase = "prepare" /\ UNCHANGED <<phase, states>>
    BY <1>1, PrepareRuns DEF Prepare, SetsInv
  <2> QED BY <2>1 DEF TransInv
<1>2. CASE StartGraph
  <2>1. /\ phase' = "graph" /\ at' = 1
        /\ states' = <<IntoState(grammar', AxiomKernel(grammar', {}), GraphModeOf(method'))>>
    BY <1>2 DEF StartGraph, Goto
  <2>2. IsInput(grammar')
    BY <1>2, StartInput
  <2>3. states'[1].kernel = AxiomKernel(grammar', {})
    BY <2>1, <2>2, StartStates
  <2>4. DOMAIN states' = {1}
    BY <2>1
  <2>5. LinkedTo(grammar', states', at')
    BY <2>1, <2>4 DEF LinkedTo
  <2> QED BY <2>1, <2>3, <2>5 DEF TransInv
<1>3. CASE Construct
  BY <1>3, ConstructTrans
<1>4. CASE Report
  <2>1. phase = "done" /\ phase' = "returned" /\ UNCHANGED <<grammar, method, states>>
    BY <1>4 DEF Report
  <2> QED BY <2>1 DEF TransInv, IsLALR
<1>5. CASE UNCHANGED allVars
  <2>1. UNCHANGED <<phase, grammar, method, at, states, kernels>>
    BY <1>5 DEF allVars, vars
  <2> QED BY <2>1 DEF TransInv, IsLALR
<1> QED BY <1>1, <1>2, <1>3, <1>4, <1>5 DEF GenerationNext

\* The graph is the automaton of the items, for every grammar and every method.
THEOREM TransitionsAreExact == GenerationSpec => []TransitionsExact
<1>1. GenerationInit => SetsInv /\ GraphInv /\ TransInv
  <2> SUFFICES ASSUME GenerationInit PROVE SetsInv /\ GraphInv /\ TransInv
    OBVIOUS
  <2>1. phase = "prepare" /\ kernels = <<>> /\ table = <<>> /\ states = <<>>
    BY DEF GenerationInit
  <2> QED BY <2>1, SetsStart DEF GraphInv, TransInv
<1>2. SetsInv /\ GraphInv /\ TransInv /\ [GenerationNext]_allVars => (SetsInv /\ GraphInv /\ TransInv)'
  BY SetsStep, GraphStep, TransStep
<1>3. TransInv => TransitionsExact
  BY TransitionsAre
<1> QED BY <1>1, <1>2, <1>3, PTL DEF GenerationSpec
-----------------------------------------------------------------------------
(***************************************************************************)
(* The paths to a state.  The search enters each place once, so that it has  *)
(* no more to extend after as many paths as places; by then the states where *)
(* its paths begin are all those from which the target can be reached.      *)
(***************************************************************************)
\* Nothing comes twice.
Distinct(seq) == \A i, j \in DOMAIN seq : seq[i] = seq[j] => i = j

\* One step of Among: the n-th element, if it is in the set
AmongStep(seq, set, before, n) == IF seq[n] \in set THEN Append(before, seq[n]) ELSE before

\* Some elements of a sequence
LEMMA AmongIs ==
    ASSUME NEW T, NEW seq \in Seq(T), NEW set
    PROVE  /\ Among(seq, set) \in Seq(T)
           /\ Elements(Among(seq, set)) = Elements(seq) \cap set
           /\ Distinct(seq) => Distinct(Among(seq, set))
<1> DEFINE N == Len(seq)
           U == Seq(T)
           Step(x, n) == AmongStep(seq, set, x, n)
           F == [n \in 1 .. N |-> [x \in U |-> Step(x, n)]]
           Is(f) == f = [n \in 0 .. N |-> IF n = 0 THEN <<>> ELSE Step(f[n - 1], n)]
           Part(n) == {seq[m] : m \in {k \in 1 .. n : seq[k] \in set}}
<1>1. N \in Nat /\ DOMAIN seq = 1 .. N /\ \A n \in 1 .. N : seq[n] \in T
  OBVIOUS
<1>2. ASSUME NEW n \in 1 .. N, NEW x \in U
      PROVE  Step(x, n) \in U /\ F[n][x] = Step(x, n)
  BY <1>1 DEF AmongStep
<1>3. <<>> \in U /\ Elements(<<>>) = {}
  BY DEF Elements
<1>4. ASSUME NEW n \in 1 .. N, NEW x \in U
      PROVE  /\ Elements(Step(x, n)) = Elements(x) \cup (IF seq[n] \in set THEN {seq[n]} ELSE {})
             /\ Distinct(x) /\ seq[n] \notin Elements(x) => Distinct(Step(x, n))
             /\ seq[n] \notin set => Step(x, n) = x
  <2>1. CASE seq[n] \in set
    <3> DEFINE c == seq[n]
               new == Append(x, c)
    <3>1. c \in T
      BY <1>1
    <3>2. Step(x, n) = new
      BY <2>1 DEF AmongStep
    <3> HIDE DEF c
    <3>3. /\ Len(x) \in Nat /\ DOMAIN x = 1 .. Len(x) /\ DOMAIN new = 1 .. Len(x) + 1
          /\ new[Len(x) + 1] = c /\ \A i \in DOMAIN x : new[i] = x[i]
      BY <3>1
    <3> HIDE DEF new, Step
    <3>4. \A i : i \in DOMAIN new <=> i \in DOMAIN x \/ i = Len(x) + 1
      BY <3>3
    <3>5. Elements(new) = Elements(x) \cup {c}
      BY <3>3, <3>4 DEF Elements
    <3>6. Distinct(x) /\ c \notin Elements(x) => Distinct(new)
      BY <3>3, <3>4 DEF Elements, Distinct
    <3> QED BY <2>1, <3>2, <3>5, <3>6 DEF c
  <2>2. CASE seq[n] \notin set
    BY <2>2 DEF AmongStep
  <2> QED BY <2>1, <2>2
<1> HIDE DEF N, F, Step, U
<1>5. PICK f : IteratesIn(f, U, N, <<>>, F)
  <2>1. \A n \in 1 .. N : \A x \in U : F[n][x] \in U
    BY <1>2
  <2> HIDE DEF Is, Part
  <2> QED BY <1>1, <1>3, <2>1, RecursionOn
<1>6. \A n \in 0 .. N : n # 0 => n \in 1 .. N
  BY <1>1
<1>7. Is(f)
  BY <1>2, <1>5, <1>6 DEF IteratesIn
<1> DEFINE chosen == CHOOSE l : Is(l)
<1>8. Is(chosen)
  <2> HIDE DEF Is
  <2> QED BY <1>7
<1>9. Among(seq, set) = chosen[N]
  BY DEF Among, N, Step, AmongStep
<1> HIDE DEF chosen
<1>10. chosen[0] = <<>> /\ \A n \in 1 .. N : chosen[n] = Step(chosen[n - 1], n)
  <2>1. 0 \in 0 .. N /\ \A n \in 1 .. N : n \in 0 .. N /\ n # 0
    BY <1>1
  <2> QED BY <1>8, <2>1
<1> DEFINE P(n) == /\ chosen[n] \in U /\ Elements(chosen[n]) = Part(n)
                   /\ Distinct(seq) => Distinct(chosen[n])
           K == {n \in 0 .. N : P(n)}
<1>11. P(0)
  <2>1. Part(0) = {}
    OBVIOUS
  <2>2. Distinct(<<>>)
    BY DEF Distinct
  <2> QED BY <1>3, <1>10, <2>1, <2>2
<1>12. ASSUME NEW n \in 1 .. N, P(n - 1) PROVE P(n)
  <2>1. Part(n) = Part(n - 1) \cup (IF seq[n] \in set THEN {seq[n]} ELSE {})
    <3>1. \A k : k \in 1 .. n <=> k \in 1 .. n - 1 \/ k = n
      BY <1>1
    <3> QED BY <3>1
  <2>2. Distinct(seq) => seq[n] \notin Part(n - 1)
    <3>1. \A k \in 1 .. n - 1 : k \in DOMAIN seq /\ k # n /\ n \in DOMAIN seq
      BY <1>1
    <3> QED BY <3>1 DEF Distinct
  <2> DEFINE x == chosen[n - 1]
  <2>3. x \in U /\ Elements(x) = Part(n - 1) /\ (Distinct(seq) => Distinct(x)) /\ chosen[n] = Step(x, n)
    BY <1>10, <1>12
  <2> HIDE DEF Part, x
  <2>4. Elements(Step(x, n)) = Elements(x) \cup (IF seq[n] \in set THEN {seq[n]} ELSE {})
    BY <1>4, <2>3
  <2>5. Distinct(x) /\ seq[n] \notin Elements(x) => Distinct(Step(x, n))
    BY <1>4, <2>3
  <2>6. Step(x, n) \in U
    BY <1>2, <2>3
  <2> QED BY <2>1, <2>2, <2>3, <2>4, <2>5, <2>6
<1>13. P(N)
  <2>1. 0 \in K /\ \A n \in 1 .. N : n - 1 \in K => n \in K
    <3> HIDE DEF P
    <3> QED BY <1>1, <1>11, <1>12
  <2>2. \A n \in 0 .. N : n \in K
    <3> HIDE DEF K
    <3> QED BY <1>1, <2>1, Induction
  <2>3. N \in 0 .. N
    BY <1>1
  <2> HIDE DEF P
  <2> QED BY <2>2, <2>3
<1>14. Part(N) = Elements(seq) \cap set
  BY <1>1 DEF Elements
<1> HIDE DEF Part
<1> QED BY <1>9, <1>13, <1>14 DEF U

\* What a transition adds to a path, and how a path ends
PlaceOf(t) == [state |-> t.from, symbol |-> t.symbol]
AllPlaces == {PlaceOf(t) : t \in Transitions}
EndOf(target) == [state |-> target, symbol |-> NoSymbol]

\* The children of a state are states, the first one excepted.
IsGraph ==
    /\ Len(states) \in Nat \ {0} /\ DOMAIN states = 1 .. Len(states)
    /\ \A i \in DOMAIN states : \A X \in DOMAIN states[i].children :
            states[i].children[X] \in DOMAIN states \ {1}

\* The transitions in some order
IsOrder(order) == order \in Seq(Transitions) /\ Elements(order) = Transitions /\ Distinct(order)

\* What a transition is, and that there is one for each child
LEMMA TransitionIs ==
    ASSUME IsGraph
    PROVE  /\ \A t \in Transitions : /\ t.from \in DOMAIN states /\ t.to \in DOMAIN states \ {1}
                                     /\ t.symbol \in DOMAIN states[t.from].children
                                     /\ t.to = states[t.from].children[t.symbol]
           /\ \A t, u \in Transitions : PlaceOf(t) = PlaceOf(u) => t = u
           /\ \A i \in DOMAIN states : \A X \in DOMAIN states[i].children :
                \E t \in Transitions : /\ t.from = i /\ t.symbol = X /\ t.to = states[i].children[X]
                                       /\ PlaceOf(t) = [state |-> i, symbol |-> X]
<1> DEFINE Tr(i, X) == [from |-> i, symbol |-> X, to |-> states[i].children[X]]
<1>1. \A t \in Transitions : \E i \in DOMAIN states : \E X \in DOMAIN states[i].children : t = Tr(i, X)
  BY DEF Transitions
<1>2. \A i \in DOMAIN states : \A X \in DOMAIN states[i].children : Tr(i, X) \in Transitions
  BY DEF Transitions
<1>3. \A i, X : Tr(i, X).from = i /\ Tr(i, X).symbol = X /\ Tr(i, X).to = states[i].children[X]
  OBVIOUS
<1>4. \A t : PlaceOf(t).state = t.from /\ PlaceOf(t).symbol = t.symbol
  BY DEF PlaceOf
<1>5. \A i, X : PlaceOf(Tr(i, X)) = [state |-> i, symbol |-> X]
  BY <1>3 DEF PlaceOf
<1> HIDE DEF Tr
<1>6. \A t \in Transitions : /\ t.from \in DOMAIN states /\ t.to \in DOMAIN states \ {1}
                             /\ t.symbol \in DOMAIN states[t.from].children
                             /\ t.to = states[t.from].children[t.symbol]
                             /\ t = Tr(t.from, t.symbol)
  BY <1>1, <1>3 DEF IsGraph
<1>7. \A t, u \in Transitions : PlaceOf(t) = PlaceOf(u) => t = u
  BY <1>4, <1>6
<1> QED BY <1>2, <1>3, <1>5, <1>6, <1>7

\* The transitions to a state, each one once
LEMMA InverseIs ==
    ASSUME IsGraph, NEW order, IsOrder(order), NEW target \in DOMAIN states
    PROVE  LET to == InverseGraph(order)[target]
           IN /\ to \in Seq(Transitions) /\ Distinct(to)
              /\ Elements(to) = {t \in Transitions : t.to = target}
<1> DEFINE set == {t \in Transitions : t.to = target}
<1>1. InverseGraph(order)[target] = Among(order, set)
  BY DEF InverseGraph
<1>2. /\ Among(order, set) \in Seq(Transitions) /\ Distinct(Among(order, set))
      /\ Elements(Among(order, set)) = Transitions \cap set
  BY AmongIs DEF IsOrder
<1> QED BY <1>1, <1>2

LEMMA AllInverse ==
    ASSUME IsGraph, NEW order, IsOrder(order)
    PROVE  /\ UNION {Elements(InverseGraph(order)[i]) : i \in DOMAIN InverseGraph(order)} = Transitions
           /\ IsFiniteSet(Transitions) /\ Cardinality(Transitions) \in Nat
<1>1. DOMAIN InverseGraph(order) = DOMAIN states
  BY DEF InverseGraph
<1>2. \A i \in DOMAIN states : Elements(InverseGraph(order)[i]) = {t \in Transitions : t.to = i}
  BY InverseIs
<1>3. \A t \in Transitions : t.to \in DOMAIN states
  BY TransitionIs
<1>4. IsFiniteSet(Transitions)
  <2>1. Len(order) \in Nat /\ DOMAIN order = 1 .. Len(order)
    BY DEF IsOrder
  <2>2. IsFiniteSet(1 .. Len(order))
    BY <2>1, FS_Interval
  <2>3. Transitions = {order[i] : i \in 1 .. Len(order)}
    BY <2>1 DEF IsOrder, Elements
  <2> QED BY <2>2, <2>3, ImageFinite
<1> QED BY <1>1, <1>2, <1>3, <1>4, FS_CardinalityType

\* The paths that end in a state
IsPathTo(p, target) ==
    /\ Len(p) \in Nat \ {0} /\ DOMAIN p = 1 .. Len(p)
    /\ p[Len(p)] = EndOf(target)
    /\ \A k \in 1 .. Len(p) : p[k].state \in DOMAIN states
    /\ \A k \in 1 .. Len(p) - 1 :
        /\ p[k].symbol \in DOMAIN states[p[k].state].children
        /\ states[p[k].state].children[p[k].symbol] = p[k + 1].state

PathsOf(target) == {p \in Seq(AllPlaces \cup {EndOf(target)}) : IsPathTo(p, target)}

\* After n paths: each place visited begins one path, and the transitions to where
\* the first n begin are visited.
Searched(target, search, n) ==
    /\ search.paths \in Seq(PathsOf(target)) /\ Len(search.paths) > 0
    /\ search.paths[1] = <<EndOf(target)>>
    /\ search.visited \subseteq AllPlaces
    /\ \A place : place \in search.visited <=> \E k \in 2 .. Len(search.paths) : search.paths[k][1] = place
    /\ \A j, k \in 2 .. Len(search.paths) : search.paths[j][1] = search.paths[k][1] => j = k
    /\ \A k \in 1 .. Len(search.paths) : k <= n /\ search.paths[k][1].state # 1 =>
            \A t \in Transitions : t.to = search.paths[k][1].state => PlaceOf(t) \in search.visited

\* A path that is extended is a path.
LEMMA OnePathMore ==
    ASSUME IsGraph, NEW target \in DOMAIN states, NEW p \in PathsOf(target),
           NEW t \in Transitions, t.to = p[1].state
    PROVE  <<PlaceOf(t)>> \o p \in PathsOf(target) /\ (<<PlaceOf(t)>> \o p)[1] = PlaceOf(t)
<1> DEFINE S == AllPlaces \cup {EndOf(target)}
           c == PlaceOf(t)
           q == <<c>> \o p
<1>1. c \in S /\ c.state = t.from /\ c.symbol = t.symbol
  BY DEF AllPlaces, PlaceOf
<1>2. p \in Seq(S) /\ IsPathTo(p, target)
  BY DEF PathsOf
<1> HIDE DEF c, S
<1>3. /\ q \in Seq(S) /\ Len(q) = Len(p) + 1 /\ DOMAIN q = 1 .. Len(p) + 1
      /\ q[1] = c /\ \A k \in 1 .. Len(p) : q[k + 1] = p[k]
  BY <1>1, <1>2
<1> HIDE DEF q
<1>4. Len(p) \in Nat \ {0} /\ p[1].state \in DOMAIN states
  BY <1>2 DEF IsPathTo
<1>5. q[Len(q)] = EndOf(target)
  BY <1>2, <1>3, <1>4 DEF IsPathTo
<1>6. ASSUME NEW k \in 1 .. Len(q) PROVE q[k].state \in DOMAIN states
  <2>1. CASE k = 1
    BY <1>1, <1>3, <2>1, TransitionIs
  <2>2. CASE k # 1
    <3>1. k - 1 \in 1 .. Len(p) /\ k = (k - 1) + 1
      BY <1>3, <1>4, <2>2
    <3>2. q[k] = p[k - 1]
      BY <1>3, <3>1
    <3> QED BY <1>2, <3>1, <3>2 DEF IsPathTo
  <2> QED BY <2>1, <2>2
<1>7. ASSUME NEW k \in 1 .. Len(q) - 1
      PROVE  /\ q[k].symbol \in DOMAIN states[q[k].state].children
             /\ states[q[k].state].children[q[k].symbol] = q[k + 1].state
  <2>1. CASE k = 1
    <3>1. q[2] = p[1]
      BY <1>3, <1>4
    <3>2. q[1] = c /\ k + 1 = 2
      BY <1>3, <2>1
    <3> QED BY <1>1, <2>1, <3>1, <3>2, TransitionIs
  <2>2. CASE k # 1
    <3>1. k - 1 \in 1 .. Len(p) - 1 /\ k - 1 \in 1 .. Len(p) /\ k \in 1 .. Len(p) /\ k = (k - 1) + 1
      BY <1>3, <1>4, <2>2
    <3>2. q[k] = p[k - 1] /\ q[k + 1] = p[k]
      BY <1>3, <3>1
    <3> QED BY <1>2, <3>1, <3>2 DEF IsPathTo
  <2> QED BY <2>1, <2>2
<1>8. IsPathTo(q, target)
  BY <1>3, <1>4, <1>5, <1>6, <1>7 DEF IsPathTo
<1> QED BY <1>3, <1>8 DEF PathsOf, S, q, c

\* Two sequences, one after the other
LEMMA Joined ==
    ASSUME NEW T, NEW a \in Seq(T), NEW b \in Seq(T)
    PROVE  LET c == a \o b
           IN /\ c \in Seq(T) /\ Len(c) = Len(a) + Len(b) /\ DOMAIN c = 1 .. Len(a) + Len(b)
              /\ \A k \in 1 .. Len(a) : c[k] = a[k]
              /\ \A k \in 1 .. Len(b) : c[Len(a) + k] = b[k]
<1> DEFINE c == a \o b
<1>1. Len(a) \in Nat /\ Len(b) \in Nat
  OBVIOUS
<1>2. c \in Seq(T) /\ Len(c) = Len(a) + Len(b)
  OBVIOUS
<1>3. DOMAIN c = 1 .. Len(a) + Len(b)
  BY <1>2
<1>4. \A k \in 1 .. Len(a) : c[k] = a[k]
  OBVIOUS
<1>5. ASSUME NEW k \in 1 .. Len(b) PROVE c[Len(a) + k] = b[k]
  <2>1. Len(a) + k \in 1 .. Len(a) + Len(b) /\ Len(a) + k > Len(a) /\ Len(a) + k - Len(a) = k
    BY <1>1
  <2> QED BY <2>1
<1> QED BY <1>2, <1>3, <1>4, <1>5

\* A path more is extended.
LEMMA ExtendedIs ==
    ASSUME IsGraph, NEW order, IsOrder(order), NEW target \in DOMAIN states,
           NEW n \in Nat \ {0}, NEW search, Searched(target, search, n - 1), n \in DOMAIN search.paths
    PROVE  Searched(target, Extended(InverseGraph(order), search, n), n)
<1> DEFINE inverse == InverseGraph(order)
           paths == search.paths
           visited == search.visited
           N == Len(paths)
           p == paths[n]
           head == p[1].state
           more == {t \in Elements(inverse[head]) : head # 1 /\ Unvisited(visited, t)}
           before == Among(inverse[head], more)
           places == [k \in DOMAIN before |-> [state |-> before[k].from, symbol |-> before[k].symbol]]
           tails == [k \in DOMAIN before |-> <<places[k]>> \o paths[n]]
           new == Extended(inverse, search, n)
           M == Len(before)
<1>1. new.paths = paths \o tails /\ new.visited = visited \cup Elements(places)
  BY DEF Extended
<1>2. /\ paths \in Seq(PathsOf(target)) /\ N \in Nat \ {0} /\ DOMAIN paths = 1 .. N
      /\ paths[1] = <<EndOf(target)>>
      /\ visited \subseteq AllPlaces
      /\ \A place : place \in visited <=> \E k \in 2 .. N : paths[k][1] = place
      /\ \A j, k \in 2 .. N : paths[j][1] = paths[k][1] => j = k
      /\ \A k \in 1 .. N : k <= n - 1 /\ paths[k][1].state # 1 =>
            \A t \in Transitions : t.to = paths[k][1].state => PlaceOf(t) \in visited
  BY DEF Searched
<1>3. n \in 1 .. N /\ p \in PathsOf(target)
  BY <1>2
<1>4. head \in DOMAIN states
  <2>1. IsPathTo(p, target)
    BY <1>3 DEF PathsOf
  <2>2. 1 \in 1 .. Len(p)
    BY <2>1 DEF IsPathTo
  <2> QED BY <2>1, <2>2 DEF IsPathTo
<1>5. /\ inverse[head] \in Seq(Transitions) /\ Distinct(inverse[head])
      /\ Elements(inverse[head]) = {t \in Transitions : t.to = head}
  BY <1>4, InverseIs
<1>6. more = {t \in Transitions : t.to = head /\ head # 1 /\ PlaceOf(t) \notin visited}
  <2>1. \A t : Unvisited(visited, t) <=> PlaceOf(t) \notin visited
    BY DEF Unvisited, PlaceOf
  <2> HIDE DEF inverse, head, visited
  <2> QED BY <1>5, <2>1
<1>7. before \in Seq(Transitions) /\ Elements(before) = more /\ Distinct(before)
  <2> HIDE DEF inverse, head, visited, more
  <2>1. /\ Among(inverse[head], more) \in Seq(Transitions)
        /\ Elements(Among(inverse[head], more)) = Elements(inverse[head]) \cap more
        /\ Distinct(Among(inverse[head], more))
    BY <1>5, AmongIs
  <2>2. more \subseteq Elements(inverse[head])
    BY <1>5, <1>6
  <2> QED BY <2>1, <2>2
<1>8. M \in Nat /\ DOMAIN before = 1 .. M /\ \A k \in 1 .. M : before[k] \in more /\ before[k] \in Transitions
  <2> HIDE DEF more, before
  <2>1. M \in Nat /\ DOMAIN before = 1 .. M /\ \A k \in 1 .. M : before[k] \in Transitions
    BY <1>7
  <2> QED BY <1>7, <2>1 DEF Elements
<1>9. /\ DOMAIN places = 1 .. M /\ \A k \in 1 .. M : places[k] = PlaceOf(before[k])
      /\ \A j, k \in 1 .. M : places[j] = places[k] => j = k
  <2> HIDE DEF before
  <2>1. DOMAIN places = 1 .. M /\ \A k \in 1 .. M : places[k] = PlaceOf(before[k])
    BY <1>8 DEF PlaceOf
  <2> HIDE DEF places
  <2> QED BY <1>7, <1>8, <2>1, TransitionIs DEF Distinct
<1> HIDE DEF more, before, inverse, places
<1>10. /\ tails \in Seq(PathsOf(target)) /\ Len(tails) = M /\ DOMAIN tails = 1 .. M
       /\ \A k \in 1 .. M : tails[k][1] = PlaceOf(before[k])
  <2>1. \A k \in 1 .. M : tails[k] = <<PlaceOf(before[k])>> \o p
    BY <1>8, <1>9
  <2>2. \A k \in 1 .. M : before[k].to = p[1].state
    BY <1>6, <1>8
  <2> HIDE DEF tails, p
  <2>3. \A k \in 1 .. M : tails[k] \in PathsOf(target) /\ tails[k][1] = PlaceOf(before[k])
    <3> TAKE k \in 1 .. M
    <3>1. before[k] \in Transitions
      BY <1>8
    <3>2. before[k].to = p[1].state
      BY <2>2
    <3> DEFINE t == before[k]
    <3>3. <<PlaceOf(t)>> \o p \in PathsOf(target) /\ (<<PlaceOf(t)>> \o p)[1] = PlaceOf(t)
      <4> HIDE DEF t
      <4>1. t \in Transitions /\ t.to = p[1].state
        BY <3>1, <3>2 DEF t
      <4> QED BY <1>3, <4>1, OnePathMore
    <3> QED BY <2>1, <3>3
  <2>4. tails = [k \in 1 .. M |-> tails[k]]
    BY <1>8 DEF tails
  <2> QED BY <1>8, <2>3, <2>4, IsSequence
<1> HIDE DEF tails, new
<1> DEFINE all == new.paths
           seen == new.visited
<1>11. /\ all \in Seq(PathsOf(target)) /\ Len(all) = N + M /\ DOMAIN all = 1 .. N + M
       /\ \A k \in 1 .. N : all[k] = paths[k]
       /\ \A k \in 1 .. M : all[N + k] = tails[k]
  <2> HIDE DEF paths
  <2>1. all = paths \o tails /\ paths \in Seq(PathsOf(target)) /\ Len(paths) = N
    BY <1>1, <1>2
  <2> DEFINE T == PathsOf(target)
  <2>2. tails \in Seq(T) /\ Len(tails) = M
    BY <1>10
  <2> HIDE DEF all, N, M, T, tails, paths
  <2>3. paths \in Seq(T) /\ Len(paths) = N
    BY <2>1 DEF T
  <2>4. all = paths \o tails
    BY <2>1
  <2>5. /\ all \in Seq(T) /\ Len(all) = N + M /\ DOMAIN all = 1 .. N + M
        /\ \A k \in 1 .. N : all[k] = paths[k]
        /\ \A k \in 1 .. M : all[N + k] = tails[k]
    <3>1. /\ Len(all) = Len(paths) + Len(tails) /\ DOMAIN all = 1 .. Len(paths) + Len(tails)
          /\ \A k \in 1 .. Len(paths) : all[k] = paths[k]
          /\ \A k \in 1 .. Len(tails) : all[Len(paths) + k] = tails[k]
          /\ all \in Seq(T)
      BY <2>2, <2>3, <2>4, Joined
    <3> QED BY <2>2, <2>3, <3>1
  <2> QED BY <2>5 DEF T
<1>12. seen = visited \cup {PlaceOf(t) : t \in more}
  <2>1. Elements(places) = {PlaceOf(before[k]) : k \in 1 .. M}
    BY <1>9 DEF Elements
  <2>2. more = {before[k] : k \in 1 .. M}
    BY <1>7, <1>8 DEF Elements
  <2> QED BY <1>1, <2>1, <2>2
<1> HIDE DEF all, seen, N, M, paths, visited, p, head
<1>13. \A i \in 2 .. N + M : i \in 2 .. N \/ \E k \in 1 .. M : i = N + k
  <2> TAKE i \in 2 .. N + M
  <2>1. CASE i <= N
    BY <1>2, <2>1
  <2>2. CASE i > N
    <3>1. i - N \in 1 .. M /\ i = N + (i - N)
      BY <1>2, <1>8, <2>2
    <3> QED BY <3>1
  <2> QED BY <1>2, <1>8, <2>1, <2>2
<1>14. \A i \in 2 .. N : i \in 1 .. N /\ i \in 2 .. N + M
  BY <1>2, <1>8
<1>15. \A k \in 1 .. M : N + k \in 2 .. N + M /\ all[N + k][1] = PlaceOf(before[k])
  BY <1>2, <1>8, <1>10, <1>11
<1>16. \A i \in 2 .. N : all[i][1] = paths[i][1] /\ all[i][1] \in visited
  BY <1>2, <1>11, <1>14
<1>17. \A place : place \in seen <=> \E i \in 2 .. N + M : all[i][1] = place
  <2>1. ASSUME NEW place \in seen PROVE \E i \in 2 .. N + M : all[i][1] = place
    <3>1. CASE place \in visited
      BY <1>2, <1>14, <1>16, <3>1
    <3>2. CASE place \notin visited
      <4>1. PICK t \in more : place = PlaceOf(t)
        BY <1>12, <2>1, <3>2
      <4>2. PICK k \in 1 .. M : t = before[k]
        BY <1>7, <1>8, <4>1 DEF Elements
      <4> QED BY <1>15, <4>1, <4>2
    <3> QED BY <3>1, <3>2
  <2>2. ASSUME NEW i \in 2 .. N + M PROVE all[i][1] \in seen
    BY <1>8, <1>12, <1>13, <1>15, <1>16
  <2> QED BY <2>1, <2>2
<1>18. \A i, j \in 2 .. N + M : all[i][1] = all[j][1] => i = j
  <2>1. \A k \in 1 .. M : PlaceOf(before[k]) \notin visited
    BY <1>6, <1>8
  <2>2. \A j, k \in 1 .. M : PlaceOf(before[j]) = PlaceOf(before[k]) => j = k
    BY <1>9
  <2>3. \A i \in 2 .. N, k \in 1 .. M : all[i][1] # all[N + k][1]
    BY <1>15, <1>16, <2>1
  <2>4. \A i, j \in 2 .. N : all[i][1] = all[j][1] => i = j
    BY <1>2, <1>16
  <2>5. \A j, k \in 1 .. M : all[N + j][1] = all[N + k][1] => N + j = N + k
    BY <1>15, <2>2
  <2> TAKE i, j \in 2 .. N + M
  <2>6. CASE i \in 2 .. N /\ j \in 2 .. N
    BY <2>4, <2>6
  <2>7. CASE i \in 2 .. N /\ j \notin 2 .. N
    BY <1>13, <2>3, <2>7
  <2>8. CASE i \notin 2 .. N /\ j \in 2 .. N
    BY <1>13, <2>3, <2>8
  <2>9. CASE i \notin 2 .. N /\ j \notin 2 .. N
    <3>1. PICK a \in 1 .. M : i = N + a
      BY <1>13, <2>9
    <3>2. PICK b \in 1 .. M : j = N + b
      BY <1>13, <2>9
    <3> QED BY <2>5, <3>1, <3>2
  <2> QED BY <2>6, <2>7, <2>8, <2>9
<1>19. seen \subseteq AllPlaces
  BY <1>2, <1>6, <1>12 DEF AllPlaces
<1>20. ASSUME NEW k \in 1 .. N + M, k <= n, all[k][1].state # 1, NEW t \in Transitions, t.to = all[k][1].state
       PROVE  PlaceOf(t) \in seen
  <2>1. k \in 1 .. N /\ all[k] = paths[k]
    BY <1>2, <1>3, <1>8, <1>11, <1>20
  <2>2. CASE k = n
    <3>1. t.to = head /\ head # 1
      BY <1>20, <2>1, <2>2 DEF head, p
    <3> QED BY <1>6, <1>12, <3>1
  <2>3. CASE k # n
    <3>1. k <= n - 1
      BY <1>3, <1>20, <2>1, <2>3, <1>2
    <3> QED BY <1>2, <1>12, <1>20, <2>1, <3>1
  <2> QED BY <2>2, <2>3
<1>21. all[1] = <<EndOf(target)>> /\ Len(all) > 0
  BY <1>2, <1>8, <1>11
<1> QED BY <1>11, <1>17, <1>18, <1>19, <1>20, <1>21 DEF Searched, all, seen, new, inverse

\* The search has no more paths to extend after as many as there are places.
LEMMA SearchEnds ==
    ASSUME IsGraph, NEW order, IsOrder(order), NEW target \in DOMAIN states,
           NEW n \in Nat, n = 1 + Cardinality(Transitions), NEW search, Searched(target, search, n)
    PROVE  Len(search.paths) \in Nat /\ Len(search.paths) <= n
<1> DEFINE paths == search.paths
           N == Len(paths)
           first == [k \in 2 .. N |-> paths[k][1]]
<1>1. N \in Nat /\ N > 0
  BY DEF Searched
<1>2. IsFiniteSet(Transitions) /\ Cardinality(Transitions) \in Nat
  BY AllInverse
<1>3. IsFiniteSet(AllPlaces) /\ Cardinality(AllPlaces) \in Nat /\ Cardinality(AllPlaces) <= Cardinality(Transitions)
  <2> DEFINE place == [t \in Transitions |-> PlaceOf(t)]
  <2>1. place \in Surjection(Transitions, AllPlaces)
    BY DEF Surjection, AllPlaces
  <2> HIDE DEF place
  <2> QED BY <1>2, <2>1, FS_Surjection, FS_CardinalityType
<1>4. first \in Injection(2 .. N, AllPlaces)
  <2>1. \A k \in 2 .. N : first[k] \in AllPlaces
    BY DEF Searched
  <2>2. \A j, k \in 2 .. N : first[j] = first[k] => j = k
    BY DEF Searched
  <2> QED BY <2>1, <2>2 DEF Injection, IsInjective
<1>5. Cardinality(2 .. N) <= Cardinality(AllPlaces) /\ Cardinality(2 .. N) = N - 1
  <2> HIDE DEF first, N
  <2>1. Cardinality(2 .. N) = N - 1
    <3>1. Cardinality(2 .. N) = IF 2 > N THEN 0 ELSE N - 2 + 1
      BY <1>1, FS_Interval
    <3> QED BY <1>1, <3>1
  <2>2. Cardinality(2 .. N) <= Cardinality(AllPlaces)
    BY <1>3, <1>4, FS_Injection
  <2> QED BY <2>1, <2>2
<1> QED BY <1>1, <1>2, <1>3, <1>5

\* The search goes on until each path is extended.
LEMMA SearchIs ==
    ASSUME IsGraph, NEW order, IsOrder(order), NEW target \in DOMAIN states
    PROVE  \E search : \E n \in Nat :
            /\ Searched(target, search, n)
            /\ Len(search.paths) \in Nat /\ Len(search.paths) <= n
            /\ PathsTo(InverseGraph(order), target) = {p \in Elements(search.paths) : p[1].state = 1}
<1> DEFINE inverse == InverseGraph(order)
           most == 1 + Cardinality(UNION {Elements(inverse[i]) : i \in DOMAIN inverse})
           base == [paths |-> <<<<EndOf(target)>>>>, visited |-> {}]
           Step(x, n) == IF n \in DOMAIN x.paths THEN Extended(inverse, x, n) ELSE x
           U == [paths : Seq(PathsOf(target)), visited : SUBSET AllPlaces]
           F == [n \in 1 .. most |-> [x \in U |-> IF Searched(target, x, n - 1) THEN Step(x, n) ELSE x]]
           Is(f) == f = [n \in 0 .. most |-> IF n = 0 THEN base ELSE Step(f[n - 1], n)]
<1>1. most \in Nat /\ most = 1 + Cardinality(Transitions)
  BY AllInverse
<1>2. base \in U /\ Searched(target, base, 0)
  <2> DEFINE e == EndOf(target)
             q == <<e>>
             S == AllPlaces \cup {e}
             P == PathsOf(target)
  <2>1. e.state = target
    BY DEF EndOf
  <2>2. q \in Seq(S) /\ Len(q) = 1 /\ DOMAIN q = 1 .. 1 /\ q[1] = e
    <3> HIDE DEF e
    <3> QED OBVIOUS
  <2>3. IsPathTo(q, target)
    <3> HIDE DEF q
    <3> QED BY <2>1, <2>2 DEF IsPathTo, e
  <2>4. q \in P
    BY <2>2, <2>3 DEF PathsOf
  <2> HIDE DEF P, q
  <2>5. <<q>> \in Seq(P) /\ Len(<<q>>) = 1 /\ DOMAIN <<q>> = 1 .. 1 /\ <<q>>[1] = q
    BY <2>4
  <2>6. base.paths = <<q>> /\ base.visited = {} /\ base \in U
    BY <2>5 DEF q, P
  <2> HIDE DEF base
  <2> QED BY <2>5, <2>6 DEF Searched, q, P
<1>3. ASSUME NEW n \in 1 .. most, NEW x \in U, Searched(target, x, n - 1)
      PROVE  Step(x, n) \in U /\ Searched(target, Step(x, n), n)
  <2>1. CASE n \in DOMAIN x.paths
    <3>1. Searched(target, Extended(inverse, x, n), n)
      BY <1>1, <1>3, <2>1, ExtendedIs
    <3>2. Extended(inverse, x, n) = [paths |-> Extended(inverse, x, n).paths, visited |-> Extended(inverse, x, n).visited]
      BY DEF Extended
    <3> DEFINE y == Extended(inverse, x, n)
    <3> HIDE DEF y
    <3>3. y \in U
      BY <3>1, <3>2 DEF Searched, y
    <3> QED BY <2>1, <3>1, <3>3 DEF y
  <2>2. CASE n \notin DOMAIN x.paths
    <3>1. Len(x.paths) \in Nat /\ Len(x.paths) > 0 /\ Len(x.paths) < n
      <4> DEFINE paths == x.paths
                 P == PathsOf(target)
      <4>1. paths \in Seq(P) /\ Len(paths) > 0 /\ n \notin DOMAIN paths
        BY <1>3, <2>2 DEF Searched
      <4> HIDE DEF paths, P
      <4>2. Len(paths) \in Nat /\ DOMAIN paths = 1 .. Len(paths)
        BY <4>1
      <4>3. Len(paths) < n
        BY <1>1, <4>1, <4>2
      <4> QED BY <4>1, <4>2, <4>3 DEF paths
    <3>2. \A k \in 1 .. Len(x.paths) : k <= n - 1
      BY <1>1, <3>1
    <3>3. Searched(target, x, n)
      BY <1>3, <3>2 DEF Searched
    <3> QED BY <2>2, <3>3
  <2> QED BY <2>1, <2>2
<1> HIDE DEF U, Step, most, base
<1>4. PICK f : IteratesIn(f, U, most, base, F)
  <2>1. \A n \in 1 .. most : \A x \in U : F[n][x] \in U
    BY <1>3
  <2> HIDE DEF F, Is
  <2> QED BY <1>1, <1>2, <2>1, RecursionOn
<1>5. ASSUME NEW h, h[0] = base,
             \A n \in 1 .. most : h[n - 1] \in U /\ Searched(target, h[n - 1], n - 1) => h[n] = Step(h[n - 1], n)
      PROVE  \A n \in 0 .. most : h[n] \in U /\ Searched(target, h[n], n)
  <2> DEFINE K == {n \in 0 .. most : h[n] \in U /\ Searched(target, h[n], n)}
  <2>1. 0 \in K
    BY <1>1, <1>2, <1>5
  <2>2. \A n \in 1 .. most : n - 1 \in K => n \in K
    BY <1>1, <1>3, <1>5
  <2>3. \A n \in 0 .. most : n \in K
    <3> HIDE DEF K
    <3> QED BY <1>1, <2>1, <2>2, Induction
  <2> QED BY <2>3
<1>6. f = [n \in 0 .. most |-> f[n]] /\ f[0] = base /\ \A n \in 1 .. most : f[n] = F[n][f[n - 1]]
  BY <1>4 DEF IteratesIn
<1>7. \A n \in 0 .. most : f[n] \in U /\ Searched(target, f[n], n)
  <2>1. \A n \in 1 .. most : f[n - 1] \in U /\ Searched(target, f[n - 1], n - 1) => f[n] = Step(f[n - 1], n)
    BY <1>6
  <2> HIDE DEF F, Is
  <2> QED BY <1>5, <1>6, <2>1
<1>8. Is(f)
  <2>1. \A n \in 0 .. most : n # 0 => n \in 1 .. most /\ n - 1 \in 0 .. most
    BY <1>1
  <2>2. \A n \in 0 .. most : f[n] = IF n = 0 THEN base ELSE Step(f[n - 1], n)
    BY <1>6, <1>7, <2>1
  <2> HIDE DEF F
  <2> QED BY <1>6, <2>2
<1> DEFINE search == CHOOSE h : Is(h)
<1>9. Is(search)
  <2> HIDE DEF Is
  <2> QED BY <1>8
<1>10. PathsTo(inverse, target) = {p \in Elements(search[most].paths) : p[1].state = 1}
  BY DEF PathsTo, most, base, Step, EndOf
<1> HIDE DEF search
<1>11. search[0] = base /\ \A n \in 1 .. most : search[n] = Step(search[n - 1], n)
  <2>1. 0 \in 0 .. most /\ \A n \in 1 .. most : n \in 0 .. most /\ n # 0
    BY <1>1
  <2> QED BY <1>9, <2>1
<1>12. Searched(target, search[most], most)
  <2>1. most \in 0 .. most
    BY <1>1
  <2> HIDE DEF Is, F
  <2> QED BY <1>5, <1>11, <2>1
<1>13. Len(search[most].paths) \in Nat /\ Len(search[most].paths) <= most
  BY <1>1, <1>12, SearchEnds
<1> QED BY <1>1, <1>10, <1>12, <1>13

\* One round of Reachable, and the sets that it leaves alone
Follows(S) == S \cup {t.to : t \in {x \in Transitions : x.from \in S}}
IsClosedSet(S) == \A t \in Transitions : t.from \in S => t.to \in S

\* As many rounds as there are states reach the set that the transitions leave alone.
LEMMA ReachableIs ==
    ASSUME IsGraph, NEW c \in DOMAIN states
    PROVE  /\ c \in Reachable(c) /\ IsClosedSet(Reachable(c))
           /\ \A S : c \in S /\ IsClosedSet(S) => Reachable(c) \subseteq S
<1> DEFINE N == Len(states)
           D == DOMAIN states
           U == SUBSET D
           F == [n \in 1 .. N |-> [S \in U |-> Follows(S)]]
           Is(f) == f = [n \in 0 .. N |-> IF n = 0 THEN {c} ELSE Follows(f[n - 1])]
<1>1. N \in Nat /\ D = 1 .. N /\ IsFiniteSet(D) /\ Cardinality(D) = N
  <2>1. N \in Nat /\ N > 0 /\ D = 1 .. N
    BY DEF IsGraph
  <2> HIDE DEF N, D
  <2>2. IsFiniteSet(1 .. N) /\ Cardinality(1 .. N) = IF 1 > N THEN 0 ELSE N - 1 + 1
    BY <2>1, FS_Interval
  <2> QED BY <2>1, <2>2
<1>2. \A S \in U : Follows(S) \in U /\ S \subseteq Follows(S)
  <2>1. \A t \in Transitions : t.to \in D
    BY TransitionIs
  <2> QED BY <2>1 DEF Follows
<1> HIDE DEF N, D, F
<1>3. PICK f : IteratesIn(f, U, N, {c}, F)
  <2>1. \A n \in 1 .. N : \A S \in U : F[n][S] \in U
    BY <1>2 DEF F
  <2>2. {c} \in U
    BY DEF D
  <2> HIDE DEF U, Is
  <2> QED BY <1>1, <2>1, <2>2, RecursionOn
<1>4. Is(f)
  <2>1. \A n \in 0 .. N : n # 0 => n \in 1 .. N
    BY <1>1
  <2> QED BY <1>3, <2>1 DEF IteratesIn, F
<1> DEFINE more == CHOOSE h : Is(h)
<1>5. Is(more)
  <2> HIDE DEF Is
  <2> QED BY <1>4
<1>6. Reachable(c) = more[N]
  BY DEF Reachable, Follows, N
<1> HIDE DEF more
<1>7. more[0] = {c} /\ \A n \in 1 .. N : more[n] = Follows(more[n - 1])
  <2>1. 0 \in 0 .. N /\ \A n \in 1 .. N : n \in 0 .. N /\ n # 0
    BY <1>1
  <2> QED BY <1>5, <2>1
<1>8. N \in 0 .. N
  BY <1>1
<1>9. \A n \in 0 .. N : more[n] \in U
  <2>1. more[0] \in U
    BY <1>7 DEF D
  <2>2. \A n \in 1 .. N : more[n - 1] \in U => more[n] \in U
    BY <1>2, <1>7
  <2> HIDE DEF U, Is
  <2> QED BY <1>1, <2>1, <2>2, StaysIn
<1>10. \A n \in 0 .. N : c \in more[n] /\ (IsClosedSet(more[n]) \/ Cardinality(more[n]) >= n + 1)
  <2> DEFINE P(n) == c \in more[n] /\ (IsClosedSet(more[n]) \/ Cardinality(more[n]) >= n + 1)
             K == {n \in 0 .. N : P(n)}
  <2>1. P(0)
    <3>1. Cardinality({c}) = 1
      BY FS_Singleton
    <3> QED BY <1>7, <3>1
  <2>2. ASSUME NEW n \in 1 .. N, P(n - 1) PROVE P(n)
    <3> DEFINE old == more[n - 1]
               new == more[n]
    <3>1. n - 1 \in 0 .. N /\ n \in 0 .. N
      BY <1>1
    <3>2. new = Follows(old) /\ old \in U /\ new \in U /\ old \subseteq new /\ c \in new
      BY <1>2, <1>7, <1>9, <2>2, <3>1
    <3>3. IsFiniteSet(new) /\ Cardinality(new) \in Nat /\ Cardinality(old) \in Nat
      BY <1>1, <3>2, FS_Subset, FS_CardinalityType
    <3>4. CASE IsClosedSet(old)
      <4>1. new = old
        BY <3>2, <3>4 DEF IsClosedSet, Follows
      <4> QED BY <3>2, <3>4, <4>1
    <3>5. CASE ~ IsClosedSet(old)
      <4>1. new # old
        BY <3>2, <3>5 DEF IsClosedSet, Follows
      <4>2. Cardinality(old) >= n - 1 + 1
        BY <2>2, <3>5
      <4> HIDE DEF old, new
      <4>3. Cardinality(old) < Cardinality(new)
        BY <3>2, <3>3, <4>1, FS_Subset
      <4>4. Cardinality(new) >= n + 1
        BY <3>3, <4>2, <4>3
      <4> QED BY <3>2, <4>4 DEF new
    <3> QED BY <3>4, <3>5
  <2>3. 0 \in K /\ \A n \in 1 .. N : n - 1 \in K => n \in K
    <3> HIDE DEF P
    <3> QED BY <1>1, <2>1, <2>2
  <2>4. \A n \in 0 .. N : n \in K
    <3> HIDE DEF K
    <3> QED BY <1>1, <2>3, Induction
  <2> QED BY <2>4
<1>11. c \in more[N] /\ IsClosedSet(more[N])
  <2>1. Cardinality(more[N]) \in Nat /\ Cardinality(more[N]) <= N
    <3>1. more[N] \subseteq D
      BY <1>8, <1>9
    <3> QED BY <1>1, <3>1, FS_Subset, FS_CardinalityType
  <2>2. ~ (Cardinality(more[N]) >= N + 1)
    BY <1>1, <2>1
  <2> QED BY <1>8, <1>10, <2>2
<1>12. ASSUME NEW S, c \in S, IsClosedSet(S) PROVE more[N] \subseteq S
  <2>1. more[0] \in SUBSET S
    BY <1>7, <1>12
  <2>2. \A n \in 1 .. N : more[n - 1] \in SUBSET S => more[n] \in SUBSET S
    BY <1>7, <1>12 DEF IsClosedSet, Follows
  <2>3. \A n \in 0 .. N : more[n] \in SUBSET S
    <3> HIDE DEF U, Is
    <3> QED BY <1>1, <2>1, <2>2, StaysIn
  <2> QED BY <1>8, <2>3
<1> QED BY <1>6, <1>11, <1>12

\* A path that is found leads from where it begins.
LEMMA PathReaches ==
    ASSUME IsGraph, NEW target \in DOMAIN states, target # 1, NEW p, IsPathTo(p, target), p[1].state = 1
    PROVE  /\ IsPath(p, target)
           /\ p[1].symbol \in DOMAIN states[1].children
           /\ target \in Reachable(states[1].children[p[1].symbol])
<1> DEFINE N == Len(p)
           c == p[2].state
<1>1. N \in Nat \ {0} /\ DOMAIN p = 1 .. N /\ p[N].state = target
  BY DEF IsPathTo, EndOf
<1>2. N > 1
  BY <1>1
<1>3. p[1].symbol \in DOMAIN states[1].children /\ c = states[1].children[p[1].symbol] /\ c \in DOMAIN states
  <2>1. 1 \in 1 .. N - 1 /\ 2 \in 1 .. N
    BY <1>1, <1>2
  <2> QED BY <2>1 DEF IsPathTo
<1> DEFINE R == Reachable(c)
<1>4. c \in R /\ IsClosedSet(R)
  BY <1>3, ReachableIs
<1> DEFINE K == {n \in 0 .. N - 2 : p[n + 2].state \in R}
<1>5. 0 \in K
  BY <1>1, <1>2, <1>4
<1>6. ASSUME NEW n \in 1 .. N - 2, n - 1 \in K PROVE n \in K
  <2>1. n + 1 \in 1 .. N - 1 /\ n + 1 + 1 = n + 2 /\ n - 1 + 2 = n + 1 /\ n + 1 \in 1 .. N
    BY <1>1, <1>2
  <2> DEFINE q == p[n + 1]
  <2>2. /\ q.state \in DOMAIN states /\ q.state \in R
        /\ q.symbol \in DOMAIN states[q.state].children
        /\ states[q.state].children[q.symbol] = p[n + 2].state
    BY <1>6, <2>1 DEF IsPathTo
  <2>3. PICK t \in Transitions : t.from = q.state /\ t.to = p[n + 2].state
    BY <2>2, TransitionIs
  <2>4. p[n + 2].state \in R
    BY <1>4, <2>2, <2>3 DEF IsClosedSet
  <2> QED BY <1>1, <1>2, <2>4
<1>7. \A n \in 0 .. N - 2 : n \in K
  <2>1. N - 2 \in Nat
    BY <1>1, <1>2
  <2>2. \A n \in 1 .. N - 2 : n - 1 \in K => n \in K
    BY <1>6
  <2> HIDE DEF K, N
  <2> QED BY <1>5, <2>1, <2>2, Induction
<1>8. target \in R
  <2>1. N - 2 \in 0 .. N - 2 /\ N - 2 + 2 = N
    BY <1>1, <1>2
  <2> QED BY <1>1, <1>7, <2>1
<1>9. IsPath(p, target)
  BY <1>1 DEF IsPath, IsPathTo
<1> QED BY <1>3, <1>8, <1>9

\* The states from which the target can be reached are the ones where the paths found begin.
LEMMA PathFor ==
    ASSUME IsGraph, NEW order, IsOrder(order), NEW target \in DOMAIN states, target # 1,
           NEW X \in DOMAIN states[1].children, target \in Reachable(states[1].children[X])
    PROVE  \E p \in PathsTo(InverseGraph(order), target) : p[1].symbol = X
<1> DEFINE c == states[1].children[X]
<1>1. PICK search : \E n \in Nat :
            /\ Searched(target, search, n)
            /\ Len(search.paths) \in Nat /\ Len(search.paths) <= n
            /\ PathsTo(InverseGraph(order), target) = {p \in Elements(search.paths) : p[1].state = 1}
  BY SearchIs
<1>2. PICK n \in Nat :
            /\ Searched(target, search, n)
            /\ Len(search.paths) \in Nat /\ Len(search.paths) <= n
            /\ PathsTo(InverseGraph(order), target) = {p \in Elements(search.paths) : p[1].state = 1}
  BY <1>1
<1> DEFINE paths == search.paths
           N == Len(paths)
           Heads == {paths[k][1].state : k \in 1 .. N}
           Others == DOMAIN states \ Heads
<1>3. /\ N \in Nat /\ N > 0 /\ N <= n /\ DOMAIN paths = 1 .. N
      /\ paths[1] = <<EndOf(target)>>
      /\ \A place : place \in search.visited <=> \E k \in 2 .. N : paths[k][1] = place
      /\ \A k \in 1 .. N : paths[k][1].state # 1 =>
            \A t \in Transitions : t.to = paths[k][1].state => PlaceOf(t) \in search.visited
  <2>1. Searched(target, search, n)
    BY <1>2
  <2> DEFINE P == PathsOf(target)
  <2>2. paths \in Seq(P)
    BY <2>1 DEF Searched
  <2>3. DOMAIN paths = 1 .. N /\ N \in Nat
    <3> HIDE DEF P, paths
    <3> QED BY <2>2
  <2>4. \A k \in 1 .. N : k <= n
    BY <1>2, <2>3
  <2> QED BY <1>2, <2>1, <2>3, <2>4 DEF Searched
<1> HIDE DEF paths, N
<1>4. target \in Heads
  <2>1. paths[1][1].state = target /\ 1 \in 1 .. N
    BY <1>3 DEF EndOf
  <2> QED BY <2>1
<1>5. ASSUME NEW t \in Transitions, t.to \in Heads
      PROVE  \E k \in 1 .. N : paths[k][1] = PlaceOf(t)
  <2>1. PICK k \in 1 .. N : t.to = paths[k][1].state
    BY <1>5
  <2>2. t.to # 1
    BY TransitionIs
  <2>3. PlaceOf(t) \in search.visited
    BY <1>3, <2>1, <2>2
  <2>4. PICK j \in 2 .. N : paths[j][1] = PlaceOf(t)
    BY <1>3, <2>3
  <2>5. j \in 1 .. N
    BY <1>3
  <2> QED BY <2>4, <2>5
<1>6. IsClosedSet(Others)
  <2> SUFFICES ASSUME NEW t \in Transitions, t.from \in Others, t.to \in Heads PROVE FALSE
    BY TransitionIs DEF IsClosedSet
  <2>1. PICK k \in 1 .. N : paths[k][1] = PlaceOf(t)
    BY <1>5
  <2>2. paths[k][1].state = t.from
    BY <2>1 DEF PlaceOf
  <2> QED BY <2>2
<1>7. 1 \in DOMAIN states
  BY DEF IsGraph
<1>8. PICK t \in Transitions : t.from = 1 /\ t.symbol = X /\ t.to = c
  BY <1>7, TransitionIs
<1>9. c \in DOMAIN states
  BY <1>8, TransitionIs
<1>10. c \in Heads
  <2>1. c \in Others => Reachable(c) \subseteq Others
    BY <1>6, <1>9, ReachableIs
  <2> QED BY <1>4, <1>9, <2>1
<1>11. PICK k \in 1 .. N : paths[k][1] = PlaceOf(t)
  BY <1>5, <1>8, <1>10
<1>12. paths[k][1].state = 1 /\ paths[k][1].symbol = X
  BY <1>8, <1>11 DEF PlaceOf
<1>13. paths[k] \in PathsTo(InverseGraph(order), target)
  BY <1>2, <1>3, <1>12 DEF Elements, paths
<1> QED BY <1>12, <1>13

\* The paths that are found, in any order of the transitions
LEMMA PathsShown ==
    ASSUME IsGraph, NEW order, IsOrder(order)
    PROVE  PathsShow(order)
<1> SUFFICES ASSUME NEW target \in 2 .. Len(states)
             PROVE  /\ \A p \in PathsTo(InverseGraph(order), target) : IsPath(p, target)
                    /\ {p[1].symbol : p \in PathsTo(InverseGraph(order), target)} =
                        {X \in DOMAIN states[1].children : target \in Reachable(states[1].children[X])}
  BY DEF PathsShow
<1> DEFINE found == PathsTo(InverseGraph(order), target)
<1>1. target \in DOMAIN states /\ target # 1
  BY DEF IsGraph
<1>2. ASSUME NEW p \in found PROVE IsPathTo(p, target) /\ p[1].state = 1
  <2>1. PICK search : \E n \in Nat :
            /\ Searched(target, search, n)
            /\ Len(search.paths) \in Nat /\ Len(search.paths) <= n
            /\ found = {q \in Elements(search.paths) : q[1].state = 1}
    BY <1>1, SearchIs
  <2>2. search.paths \in Seq(PathsOf(target)) /\ found = {q \in Elements(search.paths) : q[1].state = 1}
    BY <2>1 DEF Searched
  <2> HIDE DEF found
  <2>3. p \in Elements(search.paths) /\ p[1].state = 1
    BY <1>2, <2>2
  <2>4. p \in PathsOf(target)
    <3> DEFINE P == PathsOf(target)
               paths == search.paths
    <3>1. paths \in Seq(P) /\ p \in Elements(paths)
      BY <2>2, <2>3
    <3> HIDE DEF P, paths
    <3>2. p \in P
      BY <3>1 DEF Elements
    <3> QED BY <3>2 DEF P
  <2> QED BY <2>3, <2>4 DEF PathsOf
<1>3. \A p \in found : IsPath(p, target) /\ p[1].symbol \in DOMAIN states[1].children
                       /\ target \in Reachable(states[1].children[p[1].symbol])
  BY <1>1, <1>2, PathReaches
<1>4. \A X \in DOMAIN states[1].children : target \in Reachable(states[1].children[X]) =>
        \E p \in found : p[1].symbol = X
  BY <1>1, PathFor
<1> HIDE DEF found
<1>5. {p[1].symbol : p \in found} = {X \in DOMAIN states[1].children : target \in Reachable(states[1].children[X])}
  BY <1>3, <1>4
<1> QED BY <1>3, <1>5 DEF found

\* The orders in which the run visits the transitions
LEMMA OrdersAre ==
    ASSUME IsFiniteSet(Transitions)
    PROVE  IsOrder(Listed(Transitions)) /\ IsOrder(Backwards(Listed(Transitions)))
<1> DEFINE listed == Listed(Transitions)
           N == Len(listed)
           back == Backwards(listed)
<1>1. listed \in Seq(Transitions) /\ Elements(listed) = Transitions /\ Distinct(listed)
  BY Listing DEF Distinct
<1>2. N \in Nat /\ DOMAIN listed = 1 .. N /\ \A k \in 1 .. N : listed[k] \in Transitions
  BY <1>1
<1>3. \A k \in 1 .. N : N + 1 - k \in 1 .. N /\ N + 1 - (N + 1 - k) = k
  BY <1>2
<1>4. back = [k \in 1 .. N |-> listed[N + 1 - k]]
  BY <1>2 DEF Backwards
<1> HIDE DEF back, listed, N
<1>5. \A k \in 1 .. N : back[k] = listed[N + 1 - k]
  BY <1>4
<1>6. back \in Seq(Transitions) /\ DOMAIN back = 1 .. N
  <2>1. back = [k \in 1 .. N |-> back[k]] /\ \A k \in 1 .. N : back[k] \in Transitions
    BY <1>2, <1>3, <1>4
  <2> QED BY <1>2, <2>1, IsSequence
<1>7. Elements(back) = Transitions
  <2>1. Elements(back) \subseteq Transitions
    BY <1>2, <1>3, <1>5, <1>6 DEF Elements
  <2>2. ASSUME NEW t \in Transitions PROVE t \in Elements(back)
    <3>1. PICK k \in 1 .. N : t = listed[k]
      BY <1>1, <1>2 DEF Elements
    <3>2. N + 1 - k \in 1 .. N /\ back[N + 1 - k] = t
      BY <1>3, <1>5, <3>1
    <3> QED BY <1>6, <3>2 DEF Elements
  <2> QED BY <2>1, <2>2
<1>8. Distinct(back)
  <2> SUFFICES ASSUME NEW i \in 1 .. N, NEW j \in 1 .. N, back[i] = back[j] PROVE i = j
    BY <1>6 DEF Distinct
  <2>1. N + 1 - i = N + 1 - j
    BY <1>1, <1>2, <1>3, <1>5 DEF Distinct
  <2> QED BY <1>2, <2>1
<1> QED BY <1>1, <1>6, <1>7, <1>8 DEF IsOrder, back, listed

\* What the construction gives is such a graph.
LEMMA GraphIs ==
    ASSUME GraphInv, TransInv, phase = "returned"
    PROVE  IsGraph /\ IsFiniteSet(Transitions)
<1>1. /\ IsInput(grammar) /\ states \in Seq(State(grammar)) /\ Len(states) > 0
      /\ Automaton(grammar, states) /\ Bases(states[1].kernel) = Bases(AxiomKernel(grammar, {}))
  BY DEF GraphInv, TransInv
<1>2. /\ Len(states) \in Nat \ {0} /\ DOMAIN states = 1 .. Len(states)
      /\ \A i \in DOMAIN states : states[i] \in State(grammar)
  <2> DEFINE S == State(grammar)
  <2>1. states \in Seq(S) /\ Len(states) > 0
    BY <1>1
  <2> HIDE DEF S
  <2>2. /\ Len(states) \in Nat \ {0} /\ DOMAIN states = 1 .. Len(states)
        /\ \A i \in DOMAIN states : states[i] \in S
    BY <2>1
  <2> QED BY <2>2 DEF S
<1>3. \A i \in DOMAIN states : DOMAIN states[i].children \subseteq SymbolsOf(grammar) /\ states[i].items \in Items(grammar)
  BY <1>2 DEF State
<1>4. ASSUME NEW i \in DOMAIN states, NEW X \in DOMAIN states[i].children
      PROVE  states[i].children[X] \in DOMAIN states \ {1}
  <2>1. /\ states[i].children[X] \in DOMAIN states
        /\ Bases(states[states[i].children[X]].kernel) = MovedOf(grammar, Bases(states[i].items), X)
    BY <1>1 DEF Automaton
  <2>2. <<AxiomRule(grammar), 0>> \in Bases(states[1].kernel)
    <3> DEFINE x == Item(AxiomRule(grammar), 0, {})
    <3>1. x.rule = AxiomRule(grammar) /\ x.position = 0 /\ AxiomKernel(grammar, {}) = <<x>>
      BY DEF Item, AxiomKernel
    <3> HIDE DEF x
    <3>2. DOMAIN <<x>> = {1} /\ <<x>>[1] = x
      OBVIOUS
    <3> QED BY <1>1, <3>1, <3>2, BasesAre DEF BaseOf
  <2>3. ASSUME NEW b \in MovedOf(grammar, Bases(states[i].items), X) PROVE b[2] # 0
    <3>1. PICK c \in Bases(states[i].items) : b = <<c[1], c[2] + 1>>
      BY DEF MovedOf
    <3>2. c[2] \in Nat
      <4>1. \A x \in Elements(states[i].items) : x.position \in Nat
        <5> DEFINE items == states[i].items
                   T == ItemType(grammar)
        <5>1. items \in Seq(T)
          BY <1>3 DEF Items
        <5>2. \A x \in T : x.position \in Nat
          BY DEF ItemType
        <5> HIDE DEF items, T
        <5>3. \A x \in Elements(items) : x.position \in Nat
          BY <5>1, <5>2 DEF Elements
        <5> QED BY <5>3 DEF items
      <4> QED BY <4>1 DEF Bases
    <3> QED BY <3>1, <3>2
  <2> QED BY <2>1, <2>2, <2>3
<1>5. IsGraph
  BY <1>2, <1>4 DEF IsGraph
<1>6. IsFiniteSet(Transitions)
  <2> DEFINE D == (DOMAIN states) \X SymbolsOf(grammar)
             key == [t \in Transitions |-> <<t.from, t.symbol>>]
  <2>1. IsFiniteSet(D)
    <3>1. IsFiniteSet(1 .. Len(states))
      BY <1>2, FS_Interval
    <3>2. IsFiniteSet(SymbolsOf(grammar))
      BY <1>1, MarksFinite
    <3>3. IsFiniteSet(DOMAIN states)
      BY <1>2, <3>1
    <3> QED BY <3>2, <3>3, FS_Product
  <2>2. key \in Injection(Transitions, D)
    <3>1. \A t \in Transitions : key[t] \in D
      <4>1. \A t \in Transitions : t.from \in DOMAIN states /\ t.symbol \in SymbolsOf(grammar)
        BY <1>3, <1>5, TransitionIs
      <4> QED BY <4>1
    <3>2. \A t, u \in Transitions : key[t] = key[u] => t = u
      <4>1. \A t, u \in Transitions : key[t] = key[u] => PlaceOf(t) = PlaceOf(u)
        BY DEF PlaceOf
      <4> QED BY <1>5, <4>1, TransitionIs
    <3> QED BY <3>1, <3>2 DEF Injection, IsInjective
  <2> HIDE DEF D, key
  <2> QED BY <2>1, <2>2, FS_Injection
<1> QED BY <1>5, <1>6

\* The order of the transitions is the one of hash maps: the paths are right in every one.
PathsInAnyOrder == phase = "returned" => \A order : IsOrder(order) => PathsShow(order)

LEMMA PathsAre ==
    ASSUME GraphInv, TransInv
    PROVE  PathsExact /\ PathsInAnyOrder
BY GraphIs, OrdersAre, PathsShown DEF PathsExact, PathsInAnyOrder

\* The paths found to a state are paths of the graph that lead there from its first state, one for
\* each way out of it that does, for every grammar, method and order of the transitions.
THEOREM PathsAreExact == GenerationSpec => [](PathsExact /\ PathsInAnyOrder)
<1>1. GenerationInit => SetsInv /\ GraphInv /\ TransInv
  <2> SUFFICES ASSUME GenerationInit PROVE SetsInv /\ GraphInv /\ TransInv
    OBVIOUS
  <2>1. phase = "prepare" /\ kernels = <<>> /\ table = <<>> /\ states = <<>>
    BY DEF GenerationInit
  <2> QED BY <2>1, SetsStart DEF GraphInv, TransInv
<1>2. SetsInv /\ GraphInv /\ TransInv /\ [GenerationNext]_allVars => (SetsInv /\ GraphInv /\ TransInv)'
  BY SetsStep, GraphStep, TransStep
<1>3. GraphInv /\ TransInv => PathsExact /\ PathsInAnyOrder
  BY PathsAre
<1> QED BY <1>1, <1>2, <1>3, PTL DEF GenerationSpec
-----------------------------------------------------------------------------
(***************************************************************************)
(* The LALR(1) kernels.  The grammar that build_graph works on is the one  *)
(* that was given: its FIRSTS are those that prepare() computed.           *)
(***************************************************************************)
GivenInv ==
    /\ phase = "prepare" => firsts = [r \in DOMAIN firsts |-> firsts[r]]
    /\ phase # "prepare" => grammar \in InputGrammars

LEMMA FirstsStay ==
    ASSUME Sets!Next, firsts = [r \in DOMAIN firsts |-> firsts[r]]
    PROVE  firsts' = [r \in DOMAIN firsts' |-> firsts'[r]]
<1>1. CASE Sets!ComputeChoice
  <2>1. firsts' = [firsts EXCEPT ![rule][pos] = @ \cup Sets!FirstsAdded]
    BY <1>1 DEF Sets!ComputeChoice
  <2> QED BY <2>1
<1>2. CASE UNCHANGED firsts
  BY <1>2
<1>3. Sets!ComputeChoice \/ UNCHANGED firsts
  BY DEF Sets!Next, Sets!EnterRule, Sets!EndFirstsPass, Sets!InitialFollower, Sets!PropagateFollowers,
         Sets!EndFollowersPass
<1> QED BY <1>1, <1>2, <1>3

LEMMA StartGiven ==
    ASSUME SetsInv, GivenInv, StartGraph
    PROVE  grammar' = grammar /\ grammar \in InputGrammars
<1>1. /\ SetsProof!IInv /\ IsPrepared(grammar) /\ SetsProof!TypeOK /\ SetsProof!FirstsExact /\ step = "done"
      /\ grammar' = [grammar EXCEPT !.firsts = firsts] /\ firsts = [r \in DOMAIN firsts |-> firsts[r]]
  BY SamePrepared DEF SetsInv, GivenInv, StartGraph, SetsProof!IInv
<1>2. SetsProof!RulesOf(grammar) = RulesOf(grammar) /\ \A r : SetsProof!ChoicesOf(grammar, r) = ChoicesOf(grammar, r)
  BY DEF SetsProof!RulesOf, RulesOf, SetsProof!ChoicesOf, ChoicesOf, SetsProof!BodyOf, BodyOf
<1>3. grammar.firsts = [r \in RulesOf(grammar) |-> [k \in ChoicesOf(grammar, r) |-> TrueFirsts(grammar, r, k)]]
      /\ grammar = [rules |-> grammar.rules, symbols |-> grammar.symbols, firsts |-> grammar.firsts]
  BY <1>1 DEF IsPrepared
<1>4. ASSUME NEW r \in RulesOf(grammar)
      PROVE  firsts[r] = grammar.firsts[r]
  <2>1. firsts[r] \in [ChoicesOf(grammar, r) -> SetsProof!Set]
    BY <1>1, <1>2 DEF SetsProof!TypeOK
  <2>2. \A k \in ChoicesOf(grammar, r) : firsts[r][k] = grammar.firsts[r][k]
    BY <1>1, <1>2 DEF SetsProof!FirstsExact
  <2>3. grammar.firsts[r] = [k \in ChoicesOf(grammar, r) |-> TrueFirsts(grammar, r, k)]
    BY <1>3
  <2> QED BY <2>1, <2>2, <2>3
<1>5. DOMAIN firsts = RulesOf(grammar)
  BY <1>1, <1>2 DEF SetsProof!TypeOK
<1>6. firsts = grammar.firsts
  <2>1. firsts = [r \in RulesOf(grammar) |-> grammar.firsts[r]]
    BY <1>1, <1>4, <1>5
  <2>2. grammar.firsts = [r \in RulesOf(grammar) |-> grammar.firsts[r]]
    BY <1>3
  <2> QED BY <2>1, <2>2
<1>7. grammar \in InputGrammars
  BY <1>1 DEF SetsProof!TypeOK
<1> QED BY <1>1, <1>3, <1>6, <1>7

LEMMA GivenStep ==
    ASSUME SetsInv, GraphInv, GivenInv, [GenerationNext]_allVars
    PROVE  GivenInv'
<1>1. CASE Prepare
  <2>1. phase = "prepare" /\ phase' = phase /\ Sets!Next
    BY <1>1, PrepareRuns DEF Prepare, SetsInv
  <2> QED BY <2>1, FirstsStay DEF GivenInv
<1>2. CASE StartGraph
  <2>1. phase' = "graph"
    BY <1>2 DEF StartGraph, Goto
  <2> QED BY <1>2, <2>1, StartGiven DEF GivenInv
<1>3. CASE Construct
  <2>1. phase # "prepare" /\ phase' # "prepare"
    BY <1>3, ConstructLeaves
  <2>2. grammar' = grammar
    BY <1>3 DEF Construct, BuildState, GraphBuilt, BuildTable, Propagate, EndPass, CloseState, BuildReductions
  <2> QED BY <2>1, <2>2 DEF GivenInv
<1>4. CASE Report
  <2>1. phase = "done" /\ phase' = "returned" /\ grammar' = grammar
    BY <1>4 DEF Report
  <2> QED BY <2>1 DEF GivenInv
<1>5. CASE UNCHANGED allVars
  <2>1. UNCHANGED <<phase, grammar, firsts>>
    BY <1>5 DEF allVars, vars, setsVars
  <2> QED BY <2>1 DEF GivenInv
<1> QED BY <1>1, <1>2, <1>3, <1>4, <1>5 DEF GenerationNext

LEMMA LookStep ==
    ASSUME SetsInv, GraphInv, TransInv, LookInv, [GenerationNext]_allVars
    PROVE  LookInv'
<1>1. CASE Prepare
  <2>1. phase' = "prepare"
    BY <1>1, PrepareRuns DEF Prepare, SetsInv
  <2> QED BY <2>1 DEF LookInv
<1>2. CASE StartGraph
  <2>1. /\ phase' = "graph"
        /\ states' = <<IntoState(grammar', AxiomKernel(grammar', {}), GraphModeOf(method'))>>
    BY <1>2 DEF StartGraph, Goto
  <2>2. states'[1].kernel = AxiomKernel(grammar', {}) /\ DOMAIN states' = {1}
    BY <1>2, <2>1, StartInput, StartStates
  <2>3. ASSUME IsCanonical(grammar', Canon') PROVE HasTwins'
    <3>1. 1 \in DOMAIN Canon' /\ Canon'[1].kernel = AxiomKernel(grammar', {Epsilon})
      BY <2>3 DEF IsCanonical
    <3>2. Bases(AxiomKernel(grammar', {Epsilon})) = Bases(AxiomKernel(grammar', {}))
      BY SingleBase
    <3> QED BY <2>2, <3>1, <3>2 DEF HasTwins
  <2> QED BY <2>1, <2>3 DEF LookInv, Comparable
<1>3. CASE Construct
  BY <1>3, ConstructLook
<1>4. CASE Report
  <2>1. phase = "done" /\ phase' = "returned" /\ UNCHANGED <<grammar, method, kernels>>
    BY <1>4 DEF Report
  <2> QED BY <2>1, KernelsLook
<1>5. CASE UNCHANGED allVars
  <2>1. UNCHANGED <<phase, grammar, method, at, states, kernels, table, modified>>
    BY <1>5 DEF allVars, vars
  <2> QED BY <2>1, SameLook
<1> QED BY <1>1, <1>2, <1>3, <1>4, <1>5 DEF GenerationNext

\* The lookaheads propagated to the LALR(1) kernels are those of the canonical LR(1) items that
\* they merge, for every grammar whose variables all have phrases.
THEOREM KernelsAreExact == GenerationSpec => []KernelsExact
<1>1. GenerationInit => SetsInv /\ GraphInv /\ TransInv /\ GivenInv /\ LookInv
  <2> SUFFICES ASSUME GenerationInit PROVE SetsInv /\ GraphInv /\ TransInv /\ GivenInv /\ LookInv
    OBVIOUS
  <2>1. phase = "prepare" /\ kernels = <<>> /\ table = <<>> /\ states = <<>>
    BY DEF GenerationInit
  <2>2. firsts = [r \in DOMAIN firsts |-> firsts[r]]
    BY DEF GenerationInit, Sets!Init
  <2> QED BY <2>1, <2>2, SetsStart DEF GraphInv, TransInv, GivenInv, LookInv
<1>2. SetsInv /\ GraphInv /\ TransInv /\ GivenInv /\ LookInv /\ [GenerationNext]_allVars
        => (SetsInv /\ GraphInv /\ TransInv /\ GivenInv /\ LookInv)'
  BY SetsStep, GraphStep, TransStep, GivenStep, LookStep
<1>3. GraphInv /\ GivenInv /\ LookInv => KernelsExact
  <2> SUFFICES ASSUME GraphInv, GivenInv, LookInv PROVE KernelsExact
    OBVIOUS
  <2>1. ASSUME phase # "prepare" PROVE NoDummy(grammar) /\ IsCanonical(grammar, Canon)
    <3>1. grammar \in InputGrammars
      BY <2>1 DEF GivenInv
    <3> QED BY <3>1, InputGrammarsAssumption, CanonicalAssumption, PreparedNoDummy DEF Canon
  <2> QED BY <2>1, KernelsAre
<1> QED BY <1>1, <1>2, <1>3, PTL DEF GenerationSpec
-----------------------------------------------------------------------------
(***************************************************************************)
(* The tables are what the LR(k) parser takes for granted.  Only what      *)
(* LRkParser says of an automaton is used here, so that its constants and  *)
(* variables are given any values.                                         *)
(***************************************************************************)
Parser == INSTANCE LRkParser
    WITH Automata <- {}, MaxTokens <- 0, automaton <- {}, tokens <- <<>>, status <- "next", stack <- <<>>,
         subtrees <- <<>>, reduction <- <<>>, handle <- <<>>, ast <- <<>>, root <- 0

Actions == [head : STRING, headAction : Parser!TreeActions, ops : Seq(Parser!Opcodes), context : Nat]

\* The rules of a grammar with their tree actions: an op pops each symbol of the body.
ActionsOf(g, rules) ==
    /\ rules \in Seq(Actions)
    /\ rules # <<>>
    /\ Len(g.rules) = Len(rules) + 1
    /\ \A r \in DOMAIN rules : /\ rules[r].head = g.rules[r].head
                               /\ Cardinality(Parser!Pops(rules[r])) = Len(BodyOf(g, r))

\* What the tables are read from
IsBuilt(g, graph) ==
    /\ IsInput(g) /\ HasRealAxiom(g)
    /\ graph \in Seq(State(g)) /\ Len(graph) > 0
    /\ Bases(graph[1].kernel) = Bases(AxiomKernel(g, {}))
    /\ Automaton(g, graph)
    /\ \A i \in DOMAIN graph : /\ Rooted(g, graph[i]) /\ Reducible(g, graph[i])
                               /\ i # 1 => IsMoved(graph[i].kernel)

Columns(g) == (Elements(g.symbols) \ VariablesOf(g)) \cup VariablesOf(g)

LEMMA PopShape ==
    ASSUME NEW action \in Parser!TreeActions, NEW symbol \in STRING
    PROVE  Opcode("POP", action, symbol) \in Parser!Opcodes /\ Opcode("POP", action, symbol).op = "POP"
BY DEF Opcode, Parser!Opcodes

\* FiniteSets of the module LRkParser is FiniteSets.
LEMMA SameCount == ASSUME NEW S PROVE Parser!Cardinality(S) = Cardinality(S)
BY DEF Parser!Cardinality, Cardinality

LEMMA CountTo == ASSUME NEW n \in Nat PROVE Cardinality(1 .. n) = n
BY FS_Interval

\* The productions are those of the rules.
LEMMA ProductionsAre ==
    ASSUME NEW g, IsInput(g), HasRealAxiom(g), NEW graph, NEW rules, ActionsOf(g, rules),
           NEW a, a = AutomatonOf(g, graph, rules)
    PROVE  /\ DOMAIN a.prods = RulesOf(g)
           /\ \A p \in RulesOf(g) : /\ a.prods[p].head = g.rules[p].head /\ a.prods[p].length = Len(BodyOf(g, p))
                                    /\ a.prods[p].ops \in Seq(Parser!Opcodes)
                                    /\ Cardinality(Parser!Pops(a.prods[p])) = Len(BodyOf(g, p))
           /\ Parser!HeadsOf(a) = VariablesOf(g) /\ Parser!SymbolsOf(a) = Columns(g)
<1> DEFINE ops == <<Opcode("POP", "PROMOTE", rules[1].head), Opcode("POP", "DROP", Dollar)>>
           last == [head |-> Axiom, headAction |-> "NONE", context |-> 0, ops |-> ops]
           all == WithRealAxiom(rules)
           N == Len(rules)
<1>1. /\ N \in Nat \ {0} /\ DOMAIN rules = 1 .. N /\ Len(g.rules) = N + 1 /\ RulesOf(g) = 1 .. N + 1
      /\ AxiomRule(g) = N + 1
  BY GrammarShape DEF ActionsOf, AxiomRule
<1>2. \A r \in 1 .. N : rules[r] \in Actions
  <2> HIDE DEF Actions
  <2> QED BY <1>1 DEF ActionsOf
<1>3. all = Append(rules, last)
  BY DEF WithRealAxiom
<1>4. rules[1].head \in STRING
  BY <1>1, <1>2 DEF Actions
<1>5. ops \in Seq(Parser!Opcodes) /\ Cardinality(Parser!Pops(last)) = 2
  <2> DEFINE one == Opcode("POP", "PROMOTE", rules[1].head)
             two == Opcode("POP", "DROP", Dollar)
  <2>1. one \in Parser!Opcodes /\ two \in Parser!Opcodes /\ one.op = "POP" /\ two.op = "POP"
    <3>1. "PROMOTE" \in Parser!TreeActions /\ "DROP" \in Parser!TreeActions /\ Dollar \in STRING
      <4>1. "PROMOTE" \in Parser!TreeActions
        BY DEF Parser!TreeActions
      <4>2. "DROP" \in Parser!TreeActions
        BY DEF Parser!TreeActions
      <4>3. Dollar \in STRING
        <5>1. AxiomRule(g) \in RulesOf(g)
          BY <1>1
        <5>2. BodyOf(g, AxiomRule(g)) \in Seq(STRING) /\ Len(BodyOf(g, AxiomRule(g))) = 2
          BY <5>1, GrammarShape DEF HasRealAxiom
        <5>3. BodyOf(g, AxiomRule(g))[2] \in STRING
          BY <5>2
        <5> QED BY <5>3 DEF HasRealAxiom
      <4> QED BY <4>1, <4>2, <4>3
    <3> QED BY <1>4, <3>1, PopShape
  <2>2. ops = <<one, two>> /\ last.ops = ops
    OBVIOUS
  <2> HIDE DEF one, two, ops
  <2>3. ops \in Seq(Parser!Opcodes) /\ DOMAIN ops = {1, 2} /\ ops[1] = one /\ ops[2] = two
    BY <2>1, <2>2
  <2> HIDE DEF last
  <2>4. Parser!Pops(last) = {1, 2}
    BY <2>1, <2>2, <2>3 DEF Parser!Pops
  <2>5. {1, 2} = 1 .. 2
    OBVIOUS
  <2>6. Cardinality(1 .. 2) = 2
    BY CountTo
  <2> QED BY <2>3, <2>4, <2>5, <2>6
<1>6. last.head = Axiom /\ last.ops = ops
  OBVIOUS
<1> HIDE DEF last, all, ops
<1>7. DOMAIN all = 1 .. N + 1 /\ all[N + 1] = last /\ \A r \in 1 .. N : all[r] = rules[r]
  <2> DEFINE S == Actions
  <2>1. rules \in Seq(S)
    BY DEF ActionsOf
  <2> HIDE DEF S
  <2>2. rules \in Seq(S \cup {last}) /\ last \in S \cup {last}
    BY <2>1
  <2> QED BY <1>1, <1>3, <2>2
<1>8. /\ DOMAIN a.prods = RulesOf(g)
      /\ \A p \in RulesOf(g) : /\ a.prods[p].head = all[p].head /\ a.prods[p].length = Len(BodyOf(g, p))
                               /\ a.prods[p].ops = all[p].ops
  <2>1. a.prods = [p \in DOMAIN all |-> [head |-> all[p].head, headAction |-> all[p].headAction,
                                         length |-> Len(BodyOf(g, p)), ops |-> all[p].ops]]
    BY DEF AutomatonOf, all
  <2> QED BY <1>1, <1>7, <2>1
<1>9. ASSUME NEW p \in RulesOf(g)
      PROVE  /\ a.prods[p].head = g.rules[p].head
             /\ a.prods[p].ops \in Seq(Parser!Opcodes)
             /\ Cardinality(Parser!Pops(a.prods[p])) = Len(BodyOf(g, p))
  <2>1. Parser!Pops(a.prods[p]) = Parser!Pops(all[p])
    BY <1>8 DEF Parser!Pops
  <2>2. CASE p = N + 1
    <3>1. g.rules[p].head = Axiom /\ Len(BodyOf(g, p)) = 2
      BY <1>1, <2>2 DEF HasRealAxiom, HeadOfAxiom
    <3> QED BY <1>5, <1>6, <1>7, <1>8, <2>1, <2>2, <3>1
  <2>3. CASE p # N + 1
    <3>1. p \in 1 .. N /\ p \in DOMAIN rules
      BY <1>1, <2>3
    <3>2. rules[p].ops \in Seq(Parser!Opcodes)
      BY <1>2, <3>1 DEF Actions
    <3>3. rules[p].head = g.rules[p].head /\ Cardinality(Parser!Pops(rules[p])) = Len(BodyOf(g, p))
      BY <3>1 DEF ActionsOf
    <3> QED BY <1>7, <1>8, <2>1, <3>1, <3>2, <3>3
  <2> QED BY <2>2, <2>3
<1>10. Parser!HeadsOf(a) = VariablesOf(g)
  BY <1>8, <1>9 DEF Parser!HeadsOf, VariablesOf
<1>11. Parser!SymbolsOf(a) = Columns(g)
  <2>1. a.terminals = Elements(g.symbols) \ VariablesOf(g)
    BY DEF AutomatonOf, Elements
  <2> QED BY <1>10, <2>1 DEF Parser!SymbolsOf, Columns
<1> QED BY <1>8, <1>9, <1>10, <1>11

LEMMA ItemBases ==
    ASSUME NEW g, NEW graph, IsBuilt(g, graph), NEW s \in DOMAIN graph, NEW b \in Bases(graph[s].items)
    PROVE  /\ b[1] \in RulesOf(g) /\ b[2] \in Nat /\ b[2] <= Len(BodyOf(g, b[1])) /\ b = <<b[1], b[2]>>
           /\ ~ IsLast(g, b) => /\ b[2] + 1 \in DOMAIN BodyOf(g, b[1])
                                /\ AfterBase(g, b) \in Elements(g.symbols) \ {HeadOfAxiom(g)}
<1>1. graph[s] \in State(g) /\ IsInput(g)
  <2> DEFINE S == State(g)
  <2>1. graph \in Seq(S)
    BY DEF IsBuilt
  <2> HIDE DEF S
  <2>2. graph[s] \in S
    BY <2>1
  <2> QED BY <2>2 DEF S, IsBuilt
<1>2. graph[s].items \in Items(g)
  BY <1>1 DEF State
<1>3. PICK x \in Elements(graph[s].items) : b = <<x.rule, x.position>>
  BY DEF Bases
<1>4. x \in ItemType(g)
  BY <1>2, <1>3 DEF Elements, Items
<1>5. x.rule \in RulesOf(g) /\ x.position \in Nat /\ x.position <= Len(BodyOf(g, x.rule))
  BY <1>4 DEF ItemType
<1>6. ~ IsReduce(g, x) => /\ x.position + 1 \in DOMAIN BodyOf(g, x.rule)
                          /\ NextSymbol(g, x) \in Elements(g.symbols) \ {HeadOfAxiom(g)}
  BY <1>1, <1>4, ItemShape
<1> QED BY <1>3, <1>5, <1>6 DEF IsLast, IsReduce, AfterBase, NextSymbol

\* An item of a state is in its kernel, or begins the rule of a symbol that is awaited there.
LEMMA ItemOrigin ==
    ASSUME NEW g, NEW graph, IsBuilt(g, graph), NEW s \in DOMAIN graph, NEW b \in Bases(graph[s].items)
    PROVE  \/ b \in Bases(graph[s].kernel)
           \/ /\ b[2] = 0
              /\ g.rules[b[1]].head \in AwaitedOf(g, Bases(graph[s].items)) \ {HeadOfAxiom(g)}
<1>1. GrownFrom(g, Bases(graph[s].kernel), Bases(graph[s].items))
  BY DEF IsBuilt, Rooted
<1> SUFFICES ASSUME NEW c \in Bases(graph[s].items), b \in BroughtBy(g, c)
             PROVE  b[2] = 0 /\ g.rules[b[1]].head \in AwaitedOf(g, Bases(graph[s].items)) \ {HeadOfAxiom(g)}
  BY <1>1 DEF GrownFrom
<1>2. ~ IsLast(g, c) /\ \E r \in RulesFor(g, AfterBase(g, c)) : b = <<r, 0>>
  BY DEF BroughtBy, IsLast, AfterBase
<1>3. b[2] = 0 /\ g.rules[b[1]].head = AfterBase(g, c)
  BY <1>2 DEF RulesFor
<1>4. AfterBase(g, c) \in AwaitedOf(g, Bases(graph[s].items))
  BY <1>2 DEF AwaitedOf
<1> QED BY <1>2, <1>3, <1>4, ItemBases

LEMMA FirstState ==
    ASSUME NEW g, NEW graph, IsBuilt(g, graph)
    PROVE  /\ 1 \in DOMAIN graph
           /\ Bases(graph[1].kernel) = {<<AxiomRule(g), 0>>}
           /\ \A b \in Bases(graph[1].items) : b[2] = 0
           /\ \A s \in DOMAIN graph : <<AxiomRule(g), 0>> \in Bases(graph[s].items) => s = 1
<1>1. 1 \in DOMAIN graph
  <2> DEFINE S == State(g)
  <2>1. graph \in Seq(S) /\ Len(graph) > 0
    BY DEF IsBuilt
  <2> HIDE DEF S
  <2> QED BY <2>1
<1>2. Bases(graph[1].kernel) = {<<AxiomRule(g), 0>>}
  BY SingleBase DEF IsBuilt
<1>3. ASSUME NEW b \in Bases(graph[1].items) PROVE b[2] = 0
  BY <1>1, <1>2, ItemOrigin
<1>4. ASSUME NEW s \in DOMAIN graph, <<AxiomRule(g), 0>> \in Bases(graph[s].items), s # 1 PROVE FALSE
  <2> DEFINE b == <<AxiomRule(g), 0>>
  <2>1. b[1] = AxiomRule(g) /\ b[2] = 0 /\ b \in Bases(graph[s].items)
    BY <1>4
  <2> HIDE DEF b
  <2>2. b \notin Bases(graph[s].kernel)
    BY <1>4, <2>1 DEF IsBuilt, IsMoved
  <2>3. g.rules[b[1]].head # HeadOfAxiom(g)
    BY <2>1, <2>2, ItemOrigin
  <2> QED BY <2>1, <2>3 DEF HeadOfAxiom
<1> QED BY <1>1, <1>2, <1>3, <1>4

\* What a shift leads to
LEMMA ShiftPassesItems ==
    ASSUME NEW g, NEW graph, IsBuilt(g, graph), NEW s \in DOMAIN graph, NEW X \in DOMAIN graph[s].children,
           NEW n, n = graph[s].children[X]
    PROVE  /\ n \in DOMAIN graph /\ n # 1
           /\ \A b \in Bases(graph[n].items) : b[2] > 0 =>
                <<b[1], b[2] - 1>> \in Bases(graph[s].items) /\ BodyOf(g, b[1])[b[2]] = X
           /\ X = Dollar => <<AxiomRule(g), 2>> \in Bases(graph[n].items)
<1> DEFINE B == Bases(graph[s].items)
<1>1. /\ DOMAIN graph[s].children = AwaitedOf(g, B) /\ n \in DOMAIN graph
      /\ Bases(graph[n].kernel) = MovedOf(g, B, X)
  BY DEF IsBuilt, Automaton
<1>2. \A b \in B : b[1] \in RulesOf(g) /\ b[2] \in Nat /\ b = <<b[1], b[2]>>
  BY ItemBases
<1>3. \A b \in MovedOf(g, B, X) : b[2] > 0 /\ <<b[1], b[2] - 1>> \in B /\ BodyOf(g, b[1])[b[2]] = X
  <2> SUFFICES ASSUME NEW b \in MovedOf(g, B, X)
               PROVE  b[2] > 0 /\ <<b[1], b[2] - 1>> \in B /\ BodyOf(g, b[1])[b[2]] = X
    OBVIOUS
  <2>1. PICK c \in B : AfterBase(g, c) = X /\ b = <<c[1], c[2] + 1>>
    BY DEF MovedOf
  <2>2. b[1] = c[1] /\ b[2] = c[2] + 1 /\ c[2] \in Nat /\ c = <<c[1], c[2]>>
    BY <1>2, <2>1
  <2>3. b[2] - 1 = c[2] /\ b[2] > 0
    BY <2>2
  <2> QED BY <2>1, <2>2, <2>3 DEF AfterBase
<1>4. n # 1
  <2>1. PICK c \in B : ~ IsLast(g, c) /\ AfterBase(g, c) = X
    BY <1>1 DEF AwaitedOf
  <2>2. <<c[1], c[2] + 1>> \in MovedOf(g, B, X)
    BY <2>1 DEF MovedOf
  <2>3. <<c[1], c[2] + 1>> # <<AxiomRule(g), 0>>
    BY <1>2
  <2>4. Bases(graph[1].kernel) = {<<AxiomRule(g), 0>>}
    BY FirstState
  <2> QED BY <1>1, <2>2, <2>3, <2>4
<1>5. ASSUME NEW b \in Bases(graph[n].items), b[2] > 0 PROVE b \in MovedOf(g, B, X)
  <2>1. b \in Bases(graph[n].kernel)
    BY <1>1, <1>5, ItemOrigin
  <2> QED BY <1>1, <2>1
<1>6. ASSUME X = Dollar PROVE <<AxiomRule(g), 2>> \in Bases(graph[n].items)
  <2>1. PICK c \in B : ~ IsLast(g, c) /\ AfterBase(g, c) = X
    BY <1>1 DEF AwaitedOf
  <2>2. c[1] \in RulesOf(g) /\ c[2] + 1 \in DOMAIN BodyOf(g, c[1]) /\ c[2] \in Nat
    BY <2>1, ItemBases
  <2> DEFINE p == <<c[1], c[2] + 1>>
  <2>3. p[1] = c[1] /\ p[2] = c[2] + 1 /\ p \in Places(g)
    BY <2>2 DEF Places
  <2> HIDE DEF p
  <2>4. At(g, p) = Dollar
    BY <1>6, <2>1, <2>3 DEF At, AfterBase
  <2>5. p = <<AxiomRule(g), 2>>
    BY <2>3, <2>4 DEF IsBuilt, HasRealAxiom
  <2>6. p \in MovedOf(g, B, X)
    BY <2>1 DEF MovedOf, p
  <2>7. Bases(graph[n].kernel) \subseteq Bases(graph[n].items)
    BY <1>1 DEF IsBuilt, Rooted, GrownFrom
  <2> QED BY <1>1, <2>5, <2>6, <2>7
<1> QED BY <1>1, <1>3, <1>4, <1>5, <1>6

LEMMA ActionIs ==
    ASSUME NEW g, NEW graph, IsBuilt(g, graph), NEW rules, NEW a, a = AutomatonOf(g, graph, rules),
           NEW s \in DOMAIN graph, NEW X \in Columns(g), NEW cell, cell = a.action[s][X]
    PROVE  /\ cell \in [code : Parser!Codes, data : Nat]
           /\ X \in DOMAIN graph[s].children <=> cell.code = "SHIFT"
           /\ cell.code = "SHIFT" => cell.data = graph[s].children[X]
           /\ cell.code = "REDUCE" => \E q \in graph[s].reductions : cell.data = q.rule
<1> DEFINE state == graph[s]
           own == ReductionsOn(state, X)
           reducing == IF own = {} THEN ReductionsOn(state, AnyTerminal) ELSE own
           chosen == CHOOSE r \in reducing : TRUE
<1>1. state \in State(g)
  <2> DEFINE S == State(g)
  <2>1. graph \in Seq(S)
    BY DEF IsBuilt
  <2> HIDE DEF S
  <2>2. state \in S
    BY <2>1
  <2> QED BY <2>2 DEF S
<1>2. cell = ActionOf(g, state, X)
  <2>1. a.action = [i \in DOMAIN graph |-> [Y \in Columns(g) |-> ActionOf(g, graph[i], Y)]]
    BY DEF AutomatonOf, Columns, Elements
  <2> QED BY <2>1
<1>3. \A r \in reducing : \E q \in state.reductions : r = q.rule
  BY DEF ReductionsOn
<1>4. \A q \in state.reductions : q.rule \in Nat
  BY <1>1 DEF State
<1>5. X \in DOMAIN state.children => state.children[X] \in Nat
  BY <1>1 DEF State
<1>6. reducing # {} => chosen \in reducing
  <2> HIDE DEF reducing
  <2> QED OBVIOUS
<1>7. ActionOf(g, state, X) =
        IF X \in DOMAIN state.children THEN [code |-> "SHIFT", data |-> state.children[X]]
        ELSE IF X \notin VariablesOf(g) /\ reducing # {} THEN [code |-> "REDUCE", data |-> chosen]
        ELSE [code |-> "NONE", data |-> 0]
  BY DEF ActionOf
<1> HIDE DEF state, reducing, chosen
<1>8. reducing # {} => chosen \in Nat /\ \E q \in state.reductions : chosen = q.rule
  BY <1>3, <1>4, <1>6
<1>9. CASE X \in DOMAIN state.children
  BY <1>2, <1>5, <1>7, <1>9 DEF state, Parser!Codes
<1>10. CASE X \notin DOMAIN state.children /\ X \notin VariablesOf(g) /\ reducing # {}
  BY <1>2, <1>7, <1>8, <1>10 DEF state, Parser!Codes
<1>11. CASE X \notin DOMAIN state.children /\ ~ (X \notin VariablesOf(g) /\ reducing # {})
  BY <1>2, <1>7, <1>11 DEF state, Parser!Codes
<1> QED BY <1>9, <1>10, <1>11

LEMMA TablesFit ==
    ASSUME NEW g, NEW graph, IsBuilt(g, graph), NEW rules, ActionsOf(g, rules),
           NEW a, a = AutomatonOf(g, graph, rules)
    PROVE  Parser!WellFormed(a) /\ Parser!FollowsRules(a)
<1>1. /\ IsInput(g) /\ HasRealAxiom(g)
      /\ Parser!SymbolsOf(a) = Columns(g) /\ DOMAIN a.prods = RulesOf(g)
      /\ \A p \in RulesOf(g) : /\ a.prods[p].head = g.rules[p].head /\ a.prods[p].length = Len(BodyOf(g, p))
                               /\ a.prods[p].ops \in Seq(Parser!Opcodes)
                               /\ Cardinality(Parser!Pops(a.prods[p])) = Len(BodyOf(g, p))
  BY ProductionsAre DEF IsBuilt
<1>2. /\ Parser!StatesOf(a) = DOMAIN graph
      /\ a.action = [s \in DOMAIN graph |-> [X \in Columns(g) |-> ActionOf(g, graph[s], X)]]
  BY DEF AutomatonOf, Columns, Elements, Parser!StatesOf
<1>3. a.items = [s \in DOMAIN graph |-> Bases(graph[s].items)] /\ a.rules = g.rules
  BY DEF AutomatonOf, Bases
<1>4. Parser!AxiomRule(a) = AxiomRule(g) /\ AxiomRule(g) \in RulesOf(g)
  BY <1>1, <1>3, GrammarShape DEF Parser!AxiomRule, AxiomRule
<1> DEFINE B(s) == Bases(graph[s].items)
           Passed(n, X) == \A b \in B(n) : b[2] > 0 => BodyOf(g, b[1])[b[2]] = X
<1>5. ASSUME NEW s \in DOMAIN graph, NEW X \in Columns(g)
      PROVE  /\ a.action[s][X] \in [code : Parser!Codes, data : Nat]
             /\ X \in DOMAIN graph[s].children <=> a.action[s][X].code = "SHIFT"
             /\ a.action[s][X].code = "SHIFT" => a.action[s][X].data = graph[s].children[X]
             /\ a.action[s][X].code = "REDUCE" => \E q \in graph[s].reductions : a.action[s][X].data = q.rule
  BY ActionIs
<1>6. \A s \in DOMAIN graph : a.items[s] = B(s)
  BY <1>3
<1> HIDE DEF B, Passed
<1>7. ASSUME NEW s \in DOMAIN graph, NEW X \in Columns(g), a.action[s][X].code = "SHIFT",
             NEW n, n = a.action[s][X].data
      PROVE  /\ n \in DOMAIN graph /\ n # 1
             /\ \A b \in B(n) : b[2] > 0 => <<b[1], b[2] - 1>> \in B(s)
             /\ Passed(n, X)
             /\ X = Dollar => <<AxiomRule(g), 2>> \in B(n)
  <2>1. X \in DOMAIN graph[s].children /\ n = graph[s].children[X]
    BY <1>5, <1>7
  <2>2. /\ n \in DOMAIN graph /\ n # 1
        /\ \A b \in Bases(graph[n].items) : b[2] > 0 =>
             <<b[1], b[2] - 1>> \in Bases(graph[s].items) /\ BodyOf(g, b[1])[b[2]] = X
        /\ X = Dollar => <<AxiomRule(g), 2>> \in Bases(graph[n].items)
    BY ONLY IsBuilt(g, graph), s \in DOMAIN graph, <2>1, ShiftPassesItems
  <2> QED BY <2>2 DEF B, Passed
<1>8. ASSUME NEW s \in DOMAIN graph, NEW X \in Columns(g), a.action[s][X].code = "REDUCE",
             NEW p, p = a.action[s][X].data
      PROVE  p \in RulesOf(g) /\ <<p, Len(BodyOf(g, p))>> \in B(s)
  <2>1. PICK q \in graph[s].reductions : p = q.rule
    BY <1>5, <1>8
  <2>2. <<q.rule, Len(BodyOf(g, q.rule))>> \in B(s)
    BY DEF IsBuilt, Reducible, B
  <2>3. q.rule \in RulesOf(g)
    BY <2>2, ItemBases DEF B
  <2> QED BY <2>1, <2>2, <2>3
<1>9. Parser!WellTyped(a)
  <2>1. a.action \in [DOMAIN graph -> [Columns(g) -> [code : Parser!Codes, data : Nat]]]
    BY <1>2, <1>5
  <2>2. 1 \in DOMAIN graph
    BY FirstState
  <2>3. \A s \in DOMAIN graph : B(s) \subseteq RulesOf(g) \X Nat
    BY ItemBases DEF B
  <2>4. \A p \in RulesOf(g) : Len(BodyOf(g, p)) \in Nat
    BY <1>1, GrammarShape
  <2>5. a.action \in [Parser!StatesOf(a) -> [Parser!SymbolsOf(a) -> [code : Parser!Codes, data : Nat]]]
    BY <1>1, <1>2, <2>1
  <2>6. \A s \in Parser!StatesOf(a) : a.items[s] \subseteq (DOMAIN a.prods) \X Nat
    BY <1>1, <1>2, <1>6, <2>3
  <2>7. \A p \in DOMAIN a.prods : /\ a.prods[p].length \in Nat /\ a.prods[p].ops \in Seq(Parser!Opcodes)
                                  /\ Parser!Cardinality(Parser!Pops(a.prods[p])) = a.prods[p].length
    BY <1>1, <2>4, SameCount
  <2>8. 1 \in Parser!StatesOf(a)
    BY <1>2, <2>2
  <2> QED BY <2>5, <2>6, <2>7, <2>8 DEF Parser!WellTyped
<1>10. Parser!ShiftsMoveItems(a)
  <2> SUFFICES ASSUME NEW s \in DOMAIN graph, NEW X \in Columns(g), NEW n, n = a.action[s][X].data,
                      a.action[s][X].code = "SHIFT"
               PROVE  n \in DOMAIN graph /\ \A i \in a.items[n] : i[2] > 0 => <<i[1], i[2] - 1>> \in a.items[s]
    BY <1>1, <1>2 DEF Parser!ShiftsMoveItems
  <2>1. n \in DOMAIN graph /\ \A b \in B(n) : b[2] > 0 => <<b[1], b[2] - 1>> \in B(s)
    BY <1>7
  <2> QED BY <1>6, <2>1
<1>11. Parser!ReductionsComplete(a)
  <2> SUFFICES ASSUME NEW s \in DOMAIN graph, NEW X \in Columns(g), NEW p, p = a.action[s][X].data,
                      a.action[s][X].code = "REDUCE"
               PROVE  p \in DOMAIN a.prods /\ <<p, a.prods[p].length>> \in a.items[s]
    BY <1>1, <1>2 DEF Parser!ReductionsComplete
  <2>1. p \in RulesOf(g) /\ <<p, Len(BodyOf(g, p))>> \in B(s)
    BY <1>8
  <2> QED BY <1>1, <1>6, <2>1
<1>12. Parser!BeginningsHaveGoto(a)
  <2> SUFFICES ASSUME NEW s \in DOMAIN graph, NEW r \in DOMAIN graph, NEW X \in Columns(g),
                      a.action[s][X].code = "REDUCE", NEW p, p = a.action[s][X].data, p # AxiomRule(g), <<p, 0>> \in B(r)
               PROVE  a.action[r][a.prods[p].head].code = "SHIFT"
    BY <1>1, <1>2, <1>4, <1>6 DEF Parser!BeginningsHaveGoto
  <2>1. p \in RulesOf(g)
    BY <1>8
  <2> DEFINE b == <<p, 0>>
  <2>2. b[1] = p /\ b[2] = 0 /\ b \in B(r)
    OBVIOUS
  <2>3. b \notin Bases(graph[r].kernel)
    <3>1. CASE r = 1
      <4>1. Bases(graph[1].kernel) = {<<AxiomRule(g), 0>>}
        BY FirstState
      <4> QED BY <3>1, <4>1
    <3>2. CASE r # 1
      <4> HIDE DEF b
      <4> QED BY <2>2, <3>2 DEF IsBuilt, IsMoved
    <3> QED BY <3>1, <3>2
  <2> HIDE DEF b
  <2>4. g.rules[p].head \in AwaitedOf(g, B(r))
    BY <2>2, <2>3, ItemOrigin DEF B
  <2>5. g.rules[p].head \in DOMAIN graph[r].children
    BY <2>4 DEF IsBuilt, Automaton, B
  <2>6. g.rules[p].head \in Columns(g)
    BY <2>1 DEF Columns, VariablesOf
  <2>7. a.action[r][g.rules[p].head].code = "SHIFT"
    <3> DEFINE Y == g.rules[p].head
    <3>1. Y \in DOMAIN graph[r].children /\ Y \in Columns(g)
      BY <2>5, <2>6
    <3> HIDE DEF Y
    <3>2. a.action[r][Y].code = "SHIFT"
      BY <1>5, <3>1
    <3> QED BY <3>2 DEF Y
  <2> QED BY <1>1, <2>1, <2>7
<1>13. Parser!WellFormed(a)
  <2>1. \A i \in a.items[1] : i[2] = 0
    BY <1>6, FirstState DEF B
  <2> QED BY <1>9, <1>10, <1>11, <1>12, <2>1 DEF Parser!WellFormed
<1>14. ASSUME NEW p \in RulesOf(g)
       PROVE  /\ a.rules[p].head = a.prods[p].head /\ a.rules[p].body \in Seq(Parser!SymbolsOf(a))
              /\ Len(a.rules[p].body) = a.prods[p].length /\ a.prods[p].head # Dollar
  <2>1. BodyOf(g, p) \in Seq(Columns(g))
    <3> DEFINE body == BodyOf(g, p)
    <3>1. body \in Seq(STRING) /\ DOMAIN body = 1 .. Len(body) /\ Len(body) \in Nat
      BY <1>1, GrammarShape
    <3>2. \A k \in DOMAIN body : body[k] \in Columns(g)
      BY <1>1 DEF IsInput, Columns
    <3> HIDE DEF body
    <3>3. body = [k \in 1 .. Len(body) |-> body[k]]
      BY <3>1
    <3> QED BY <3>1, <3>2, <3>3, IsSequence DEF body
  <2>2. g.rules[p].head # Dollar
    BY <1>1 DEF HasRealAxiom, VariablesOf
  <2> QED BY <1>1, <1>3, <2>1, <2>2 DEF BodyOf
<1>15. Parser!FollowsRules(a)
  <2>1. DOMAIN a.rules = DOMAIN a.prods
    BY <1>1, <1>3 DEF RulesOf
  <2>2. Len(a.rules[AxiomRule(g)].body) = 2 /\ a.rules[AxiomRule(g)].body[2] = Dollar
    BY <1>1, <1>3 DEF HasRealAxiom, BodyOf
  <2>3. \A s \in DOMAIN graph : <<AxiomRule(g), 0>> \in B(s) => s = 1
    BY FirstState DEF B
  <2>5. Parser!Dollar = Dollar
    BY DEF Parser!Dollar, Dollar
  <2>6. ASSUME NEW s \in Parser!StatesOf(a), NEW X \in Parser!SymbolsOf(a), a.action[s][X].code = "SHIFT",
               NEW next, next = a.action[s][X].data
        PROVE  /\ next # 1
               /\ \A i \in a.items[next] : i[2] > 0 => a.rules[i[1]].body[i[2]] = X
               /\ X = Dollar => <<AxiomRule(g), 2>> \in a.items[next]
    <3>1. next \in DOMAIN graph /\ next # 1 /\ Passed(next, X) /\ (X = Dollar => <<AxiomRule(g), 2>> \in B(next))
      <4>1. s \in DOMAIN graph /\ X \in Columns(g)
        BY <1>1, <1>2
      <4> QED BY <1>7, <2>6, <4>1
    <3>2. a.items[next] = B(next)
      BY <1>6, <3>1
    <3> QED BY <1>3, <3>1, <3>2 DEF BodyOf, Passed
  <2>7. \A s \in DOMAIN graph : <<AxiomRule(g), 0>> \in a.items[s] => s = 1
    BY <1>6, <2>3
  <2>8. \A p \in DOMAIN a.prods :
            /\ a.rules[p].head = a.prods[p].head /\ a.rules[p].body \in Seq(Parser!SymbolsOf(a))
            /\ Len(a.rules[p].body) = a.prods[p].length /\ a.prods[p].head # Parser!Dollar
    BY <1>1, <1>14, <2>5
  <2>9. /\ Len(a.rules[Parser!AxiomRule(a)].body) = 2 /\ a.rules[Parser!AxiomRule(a)].body[2] = Parser!Dollar
        /\ \A s \in Parser!StatesOf(a) : <<Parser!AxiomRule(a), 0>> \in a.items[s] => s = 1
    BY <1>2, <1>4, <2>2, <2>5, <2>7
  <2>10. \A s \in Parser!StatesOf(a), X \in Parser!SymbolsOf(a) :
            LET next == a.action[s][X].data
            IN a.action[s][X].code = "SHIFT" =>
                /\ next # 1
                /\ \A i \in a.items[next] : i[2] > 0 => a.rules[i[1]].body[i[2]] = X
                /\ X = Parser!Dollar => <<Parser!AxiomRule(a), 2>> \in a.items[next]
    BY <1>4, <2>5, <2>6
  <2> QED BY <2>1, <2>8, <2>9, <2>10 DEF Parser!FollowsRules
<1> QED BY <1>13, <1>15

LEMMA GrownStep ==
    ASSUME SetsInv, GraphInv, TransInv, GrownInv, [GenerationNext]_allVars
    PROVE  GrownInv'
<1>1. CASE Prepare
  <2>1. phase' = "prepare"
    BY <1>1, PrepareRuns DEF Prepare, SetsInv
  <2> QED BY <2>1 DEF GrownInv
<1>2. CASE StartGraph
  <2>1. /\ phase' = "graph"
        /\ states' = <<IntoState(grammar', AxiomKernel(grammar', {}), GraphModeOf(method'))>>
    BY <1>2 DEF StartGraph, Goto
  <2>2. IsInput(grammar')
    BY <1>2, StartInput
  <2>3. DOMAIN states' = {1}
    BY <2>1
  <2>4. Rooted(grammar', states'[1])
    <3>1. GraphModeOf(method') \in {"LR0", "LR1"} /\ states' \in Graphs(grammar', GraphModeOf(method'))
      BY <2>1, <2>2, StartStates DEF GraphModeOf
    <3> QED BY <2>2, <2>3, <3>1, GraphRooted
  <2> QED BY <2>1, <2>3, <2>4 DEF GrownInv
<1>3. CASE Construct
  BY <1>3, ConstructGrown
<1>4. CASE Report
  <2>1. phase = "done" /\ phase' = "returned" /\ UNCHANGED <<grammar, method, states>>
    BY <1>4 DEF Report
  <2> QED BY <2>1 DEF GrownInv, IsRNGLR
<1>5. CASE UNCHANGED allVars
  <2>1. UNCHANGED <<phase, grammar, method, at, states>>
    BY <1>5 DEF allVars, vars
  <2> QED BY <2>1 DEF GrownInv, IsRNGLR
<1> QED BY <1>1, <1>2, <1>3, <1>4, <1>5 DEF GenerationNext

\* The automata that ParserTableData writes, for any tree actions, satisfy the assumptions that
\* LRkParser makes of those it runs.
TablesRight ==
    phase \in {"done", "returned"} /\ ~ IsRNGLR =>
        \A rules : ActionsOf(grammar, rules) =>
            LET a == AutomatonOf(grammar, states, rules)
            IN Parser!WellFormed(a) /\ Parser!FollowsRules(a)

LEMMA GraphBuilds ==
    ASSUME GraphInv, TransInv, GivenInv, GrownInv, phase \in {"done", "returned"}, ~ IsRNGLR
    PROVE  IsBuilt(grammar, states)
<1>1. IsInput(grammar) /\ states \in Seq(State(grammar)) /\ Len(states) > 0
  BY DEF GraphInv
<1>2. HasRealAxiom(grammar)
  BY AxiomAssumption DEF GivenInv
<1>3. Bases(states[1].kernel) = Bases(AxiomKernel(grammar, {})) /\ Automaton(grammar, states)
  BY DEF TransInv
<1>4. \A i \in DOMAIN states : /\ Rooted(grammar, states[i]) /\ Reducible(grammar, states[i])
                               /\ i # 1 => IsMoved(states[i].kernel)
  BY DEF GrownInv
<1> QED BY <1>1, <1>2, <1>3, <1>4 DEF IsBuilt

\* What the LR(k) parser takes for granted of its tables is what the generation gives, for every
\* grammar, by the methods LR(0), LR(1) and LALR(1).
THEOREM TablesAreRight == GenerationSpec => []TablesRight
<1>1. GenerationInit => SetsInv /\ GraphInv /\ TransInv /\ GivenInv /\ GrownInv
  <2> SUFFICES ASSUME GenerationInit PROVE SetsInv /\ GraphInv /\ TransInv /\ GivenInv /\ GrownInv
    OBVIOUS
  <2>1. phase = "prepare" /\ kernels = <<>> /\ table = <<>> /\ states = <<>>
    BY DEF GenerationInit
  <2>2. firsts = [r \in DOMAIN firsts |-> firsts[r]]
    BY DEF GenerationInit, Sets!Init
  <2> QED BY <2>1, <2>2, SetsStart DEF GraphInv, TransInv, GivenInv, GrownInv
<1>2. SetsInv /\ GraphInv /\ TransInv /\ GivenInv /\ GrownInv /\ [GenerationNext]_allVars
        => (SetsInv /\ GraphInv /\ TransInv /\ GivenInv /\ GrownInv)'
  BY SetsStep, GraphStep, TransStep, GivenStep, GrownStep
<1>3. GraphInv /\ TransInv /\ GivenInv /\ GrownInv => TablesRight
  <2> SUFFICES ASSUME GraphInv, TransInv, GivenInv, GrownInv, phase \in {"done", "returned"}, ~ IsRNGLR,
                      NEW rules, ActionsOf(grammar, rules), NEW a, a = AutomatonOf(grammar, states, rules)
               PROVE  Parser!WellFormed(a) /\ Parser!FollowsRules(a)
    BY DEF TablesRight
  <2> QED BY GraphBuilds, TablesFit
<1> QED BY <1>1, <1>2, <1>3, PTL DEF GenerationSpec
=============================================================================
