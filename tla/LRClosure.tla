----------------------------- MODULE LRClosure ------------------------------
(***************************************************************************)
(* StateKernel::into_state (lr.rs): the items of a kernel are closed one   *)
(* after the other, each bringing its candidates at the end of the list    *)
(* the loop is walking.  An item is closed once, with the lookaheads it    *)
(* has at that moment.                                                     *)
(*                                                                         *)
(* The candidates of an item are added in an arbitrary fixed order; the    *)
(* code adds them rule by rule.                                            *)
(***************************************************************************)
EXTENDS LRGraphs

CONSTANT Inputs     \* what is closed: [grammar, mode, kernel]

IsItem(g, item) ==
    /\ item.rule \in RulesOf(g)
    /\ item.position \in ChoicesOf(g, item.rule)

HasFirsts(g) ==
    /\ g.rules \in Seq([head : STRING, body : Seq(STRING), context : Nat])
    /\ Len(g.rules) > 0
    /\ DOMAIN g.firsts = RulesOf(g)
    /\ \A r \in RulesOf(g) :
        /\ DOMAIN g.firsts[r] = ChoicesOf(g, r)
        /\ \A k \in ChoicesOf(g, r) : g.firsts[r][k] \subseteq STRING

\* No item is there twice; in LALR(1) mode, not even with other lookaheads
Distinct(m, list) ==
    \A i, j \in DOMAIN list :
        i # j => /\ ~ SameItem(list[i], list[j])
                 /\ m = "LALR1" => ~ SameBase(list[i], list[j])

\* A kernel holds the axiom before its first symbol, or items past theirs; in
\* LR(1) mode an item has one lookahead, save those of the rule of the axiom,
\* which nothing refers to, that have none
IsKernel(g, m, kernel) ==
    /\ \A i \in DOMAIN kernel :
        LET item == kernel[i] IN
        /\ IsItem(g, item)
        /\ item.position > 0 \/ item.rule = AxiomRule(g)
        /\ m = "LR0" => item.lookaheads = {}
    /\ Distinct(m, kernel)

ASSUME InputsAssumption ==
    \A in \in Inputs :
        /\ in.mode \in Modes
        /\ HasFirsts(in.grammar)
        /\ \A p \in Places(in.grammar) :
                At(in.grammar, p) # in.grammar.rules[AxiomRule(in.grammar)].head
        /\ in.kernel \in Seq([rule : Nat, position : Nat, lookaheads : SUBSET STRING])
        /\ IsKernel(in.grammar, in.mode, in.kernel)

VARIABLES
    grammar,      \* the grammar
    mode,         \* LookaheadMode
    items,        \* the closure so far
    index,        \* the item being closed
    rest          \* its candidates that remain to be added

vars == <<grammar, mode, items, index, rest>>

CandidatesAt(list, i) == IF i \in DOMAIN list THEN Candidates(grammar, list[i], mode) ELSE {}

Init ==
    \E in \in Inputs :
        /\ grammar = in.grammar
        /\ mode = in.mode
        /\ items = in.kernel
        /\ index = 1
        /\ rest = IF 1 \in DOMAIN in.kernel
                  THEN Candidates(in.grammar, in.kernel[1], in.mode)
                  ELSE {}

\* Fault: what is already there is compared by its rule only
AddCandidate_ByBase ==
    /\ rest # {}
    /\ LET candidate == CHOOSE c \in rest : TRUE
       IN /\ items' = IF \E i \in DOMAIN items : SameBase(items[i], candidate)
                      THEN items ELSE Append(items, candidate)
          /\ rest' = rest \ {candidate}
    /\ UNCHANGED <<grammar, mode, index>>

AddCandidate ==
    /\ rest # {}
    /\ LET candidate == CHOOSE c \in rest : TRUE
       IN /\ items' = WithCandidate(items, candidate, mode)
          /\ rest' = rest \ {candidate}
    /\ UNCHANGED <<grammar, mode, index>>

\* Fault: the loop starts again
NextIndex_Restart == IF index = Len(items) THEN 1 ELSE index + 1

NextIndex == index + 1

CloseNext ==
    /\ rest = {}
    /\ index \in DOMAIN items
    /\ index' = NextIndex
    /\ rest' = CandidatesAt(items, NextIndex)
    /\ UNCHANGED <<grammar, mode, items>>

Next == AddCandidate \/ CloseNext

Spec == Init /\ [][Next]_vars /\ WF_vars(Next)
-----------------------------------------------------------------------------
Closed == rest = {} /\ index > Len(items)

ItemType == [rule : Nat, position : Nat, lookaheads : SUBSET STRING]

TypeOK ==
    /\ mode \in Modes
    /\ items \in Seq(ItemType)
    /\ \A i \in DOMAIN items : IsItem(grammar, items[i])
    /\ index \in 1 .. Len(items) + 1
    /\ rest \subseteq ItemType
    /\ \A c \in rest : IsItem(grammar, c)

\* The lookaheads that the items of the closure have for a rule, at its start
Expected(r) == UNION {items[i].lookaheads : i \in {j \in DOMAIN items :
                            SameBase(items[j], Item(r, 0, {}))}}

\* "Firsts will therefore be the lookahead for child items" (lr.rs:236): once
\* the state is closed in LR(1) mode, a variable that comes next in an item may
\* be reduced to on every terminal that may follow it there.
LookaheadsComplete ==
    Closed /\ mode = "LR1" =>
        \A i \in DOMAIN items :
            ~ IsReduce(grammar, items[i]) =>
                \A r \in RulesFor(grammar, NextSymbol(grammar, items[i])) :
                    Following(grammar, items[i]) \subseteq Expected(r)

\* A closed state holds every item its items call for, whatever the order they
\* were found in and however they refer to each other.
ItemsComplete ==
    Closed => \A i \in DOMAIN items :
                  \A c \in Candidates(grammar, items[i], mode) :
                      \E j \in DOMAIN items : SameBase(items[j], c)

\* No item is there twice: the loop over the items ends because there are
\* finitely many, and a duplicate would be shifted and reduced twice.
NoDuplicate == Distinct(mode, items)

Terminates == <>Closed
=============================================================================
