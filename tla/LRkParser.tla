----------------------------- MODULE LRkParser ------------------------------
(***************************************************************************)
(* The LR(k) parser of the Rust runtime: the driver of parsers/lrk.rs, the *)
(* builder of trees it drives (LRkAstBuilder, with the flat sub-trees of   *)
(* parsers/subtree.rs) and the store of the final tree (AstImpl, ast.rs).  *)
(*                                                                         *)
(* The lexer is open: any terminal may come next.  A reduction is executed *)
(* one op-code a step, because the semantic actions of the user run in the *)
(* middle of it.  Indices start at 1, the state 1 is the state 0 of the    *)
(* table.                                                                  *)
(*                                                                         *)
(* An automaton is a record:                                               *)
(*    terminals  the terminals of its columns, Dollar included             *)
(*    action     action[state][symbol] = [code, data]                      *)
(*    prods      the productions [head, headAction, length, ops]; an op is *)
(*               [op, action, symbol]                                      *)
(*    opens      opens[state]: pairs <<symbol, context>>, the contexts that  *)
(*               a transition opens                                        *)
(*    items      items[state]: the LR items <<production, position>> the   *)
(*               state was built from; unknown to the parser               *)
(*    rules      the rules of the grammar; unknown to the parser           *)
(***************************************************************************)
EXTENDS Integers, Sequences, FiniteSets
Folding == INSTANCE SequencesExt

CONSTANTS
    Automata,       \* the automata the parser may run
    MaxTokens       \* bound of the model on the tokens before the end

Dollar == "$"
Codes == {"NONE", "SHIFT", "REDUCE"}
TreeActions == {"NONE", "REPLACE_BY_CHILDREN", "DROP", "PROMOTE", "REPLACE_BY_EPSILON"}

Pops(prod) == {k \in DOMAIN prod.ops : prod.ops[k].op = "POP"}

StatesOf(a) == DOMAIN a.action
HeadsOf(a) == {a.prods[p].head : p \in DOMAIN a.prods}
SymbolsOf(a) == a.terminals \cup HeadsOf(a)
Opcodes == [op : {"POP", "VIRTUAL", "ACTION"}, action : TreeActions, symbol : STRING]

WellTyped(a) ==
    /\ a.action \in [StatesOf(a) -> [SymbolsOf(a) -> [code : Codes, data : Nat]]]
    /\ 1 \in StatesOf(a)
    /\ \A s \in StatesOf(a) : a.items[s] \subseteq (DOMAIN a.prods) \X Nat
    /\ \A p \in DOMAIN a.prods :
        /\ a.prods[p].length \in Nat
        /\ a.prods[p].ops \in Seq(Opcodes)
        /\ Cardinality(Pops(a.prods[p])) = a.prods[p].length

\* A shift leads to a state whose items were one symbol before
ShiftsMoveItems(a) ==
    \A s \in StatesOf(a), X \in SymbolsOf(a) :
        a.action[s][X].code = "SHIFT" =>
            /\ a.action[s][X].data \in StatesOf(a)
            /\ \A i \in a.items[a.action[s][X].data] :
                    i[2] > 0 => <<i[1], i[2] - 1>> \in a.items[s]

\* A reduction is by a rule that is complete
ReductionsComplete(a) ==
    \A s \in StatesOf(a), X \in SymbolsOf(a) :
        a.action[s][X].code = "REDUCE" =>
            LET p == a.action[s][X].data
            IN p \in DOMAIN a.prods /\ <<p, a.prods[p].length>> \in a.items[s]

\* The rule of the axiom, which Dollar ends, is the last one.
AxiomRule(a) == Len(a.rules)

\* A state where a rule begins has a goto on its head, unless it is the axiom's, which
\* LR(0) tables reduce at its end
BeginningsHaveGoto(a) ==
    \A s, r \in StatesOf(a), X \in SymbolsOf(a) :
        LET p == a.action[s][X].data
        IN a.action[s][X].code = "REDUCE" /\ p # AxiomRule(a) /\ <<p, 0>> \in a.items[r]
                => a.action[r][a.prods[p].head].code = "SHIFT"

\* What the parser takes for granted of the tables the SDK generates
WellFormed(a) ==
    /\ WellTyped(a)
    /\ ShiftsMoveItems(a)
    /\ ReductionsComplete(a)
    /\ BeginningsHaveGoto(a)
    /\ \A i \in a.items[1] : i[2] = 0

\* The tables are those of the rules: the items of a state that a symbol leads to have
\* just passed it; Dollar leads to the end of the axiom's rule, which begins in the
\* first state only, and nothing leads back there.
FollowsRules(a) ==
    /\ DOMAIN a.rules = DOMAIN a.prods
    /\ \A p \in DOMAIN a.prods :
        /\ a.rules[p].head = a.prods[p].head
        /\ a.rules[p].body \in Seq(SymbolsOf(a))
        /\ Len(a.rules[p].body) = a.prods[p].length
        /\ a.prods[p].head # Dollar
    /\ Len(a.rules[AxiomRule(a)].body) = 2 /\ a.rules[AxiomRule(a)].body[2] = Dollar
    /\ \A s \in StatesOf(a) : <<AxiomRule(a), 0>> \in a.items[s] => s = 1
    /\ \A s \in StatesOf(a), X \in SymbolsOf(a) :
        LET next == a.action[s][X].data
        IN a.action[s][X].code = "SHIFT" =>
            /\ next # 1
            /\ \A i \in a.items[next] : i[2] > 0 => a.rules[i[1]].body[i[2]] = X
            /\ X = Dollar => <<AxiomRule(a), 2>> \in a.items[next]

ASSUME AutomataAssumption == \A a \in Automata : WellFormed(a)
ASSUME RulesAssumption == \A a \in Automata : FollowsRules(a)
ASSUME MaxTokensAssumption == MaxTokens \in Nat

VARIABLES
    automaton,      \* the automaton
    tokens,         \* the terminals of the tokens lexed so far
    status,         \* "next", "token", "reduce", "accepted" or "error"
    stack,          \* LRkParserData.stack: [state, symbol]
    subtrees,       \* LRkAstBuilder.stack: flat sub-trees [nodes, actions]
    reduction,      \* the reduction under way: [prod, cache, popCount, ip]
    handle,         \* LRkAstBuilder.handle: places in the cache
    ast,            \* AstImpl.nodes: cells [label, count, first]
    root,           \* AstImpl.root, or NoRoot
    errors          \* the error reported: the terminals said to be expected

vars == <<automaton, tokens, status, stack, subtrees, reduction, handle, ast, root, errors>>

NoRoot == 0
NoReduction == [prod |-> 0]
Top == stack[Len(stack)]
Lookahead == tokens[Len(tokens)]
Action(state, symbol) == automaton.action[state][symbol]
Prod == automaton.prods[reduction.prod]
-----------------------------------------------------------------------------
(***************************************************************************)
(* SubTree and AstImpl.                                                    *)
(***************************************************************************)
Cell(label) == [label |-> label, count |-> 0, first |-> 0]
Single(label, action) == [nodes |-> <<Cell(label)>>, actions |-> <<action>>]
Concat(tree, nodes, actions) ==
    [nodes |-> tree.nodes \o nodes, actions |-> tree.actions \o actions]

\* Where the n-th child of the root is, in a sub-tree of depth 2: the children
\* of each child come right after it
ChildAt(tree, n) ==
    LET at[k \in Nat] == IF k = 1 THEN 2
                         ELSE at[k - 1] + tree.nodes[at[k - 1]].count + 1
    IN at[n]

\* copy_to, copy_children_to: the part of a sub-tree that is copied
Part(tree, last) == Concat([nodes |-> <<>>, actions |-> <<>>],
                           SubSeq(tree.nodes, 1, last), SubSeq(tree.actions, 1, last))
Whole(tree) == Part(tree, tree.nodes[1].count + 1)
Children(tree) ==
    LET last == ChildAt(tree, tree.nodes[1].count + 1) - 1
    IN [nodes |-> SubSeq(tree.nodes, 2, last), actions |-> SubSeq(tree.actions, 2, last)]

\* AstImpl::store of the children of the node at a place: no place is taken for
\* none, and 0 is then what the node points to
Stored(cells, nodes, at) == cells \o SubSeq(nodes, at + 1, at + nodes[at].count)
WithFirst(cells, nodes, at) ==
    [nodes EXCEPT ![at].first = IF nodes[at].count = 0 THEN 0 ELSE Len(cells) + 1]
-----------------------------------------------------------------------------
(***************************************************************************)
(* LRkAstBuilder::reduce_tree: packs the nodes of the handle to the left   *)
(* of the cache, as the children of the root at its place 1.  The state of *)
(* the loop is [nodes, actions, cells, promotion, insertion].              *)
(***************************************************************************)
CommitChildren(loop, at) ==
    [loop EXCEPT !.nodes = WithFirst(loop.cells, loop.nodes, at),
                 !.cells = Stored(loop.cells, loop.nodes, at)]

\* Fault: the children of the node promoted before stay in the cache
Demote_NoReset(loop) ==
    LET counted == [loop EXCEPT !.nodes[1].count = loop.insertion - 2]
        committed == CommitChildren(counted, 1)
    IN [committed EXCEPT !.nodes[2] = committed.nodes[1]]

\* The node promoted before, with its children, becomes the first child
Demote(loop) ==
    LET counted == [loop EXCEPT !.nodes[1].count = loop.insertion - 2]
        committed == CommitChildren(counted, 1)
    IN [committed EXCEPT !.nodes[2] = committed.nodes[1], !.insertion = 3]

\* SubTree::move_range, to the left
Moved(seq, from, to, length) ==
    SubSeq(seq, 1, to - 1) \o SubSeq(seq, from, from + length - 1)
        \o SubSeq(seq, to + length, Len(seq))

PackPromoted(loop, item) ==
    LET ready == IF loop.promotion THEN Demote(loop) ELSE loop
        count == ready.nodes[item].count
        headed == [ready.nodes EXCEPT ![1] = ready.nodes[item]]
    IN [ready EXCEPT !.nodes = Moved(headed, item + 1, ready.insertion, count),
                     !.actions = Moved(ready.actions, item + 1, ready.insertion, count),
                     !.promotion = TRUE,
                     !.insertion = @ + count]

PackChild(loop, item) ==
    LET committed == CommitChildren(loop, item)
    IN [committed EXCEPT !.nodes[loop.insertion] = committed.nodes[item],
                         !.insertion = @ + 1]

PackItem(loop, item) ==
    IF loop.actions[item] = "PROMOTE" THEN PackPromoted(loop, item)
    ELSE PackChild(loop, item)

ReduceTree(cache, items, cells) ==
    LET epsilon == cache.actions[1] = "REPLACE_BY_EPSILON"
        start == [nodes     |-> IF epsilon THEN [cache.nodes EXCEPT ![1].label = <<"None", 0>>]
                                ELSE cache.nodes,
                  actions   |-> IF epsilon THEN [cache.actions EXCEPT ![1] = "NONE"]
                                ELSE cache.actions,
                  cells     |-> cells,
                  promotion |-> FALSE,
                  insertion |-> 2]
        packed == Folding!FoldLeft(PackItem, start, items)
    IN [packed EXCEPT !.nodes[1].count = packed.insertion - 2]
-----------------------------------------------------------------------------
Init ==
    /\ automaton \in Automata
    /\ tokens = <<>>
    /\ status = "next"
    /\ stack = <<[state |-> 1, symbol |-> "none"]>>
    /\ subtrees = <<>>
    /\ reduction = NoReduction
    /\ handle = <<>>
    /\ ast = <<>>
    /\ root = NoRoot
    /\ errors = <<>>

Ended == tokens # <<>> /\ Lookahead = Dollar

\* get_next_token, when there is one
NextToken ==
    /\ status = "next"
    /\ ~ Ended
    /\ \E t \in automaton.terminals :
        /\ t # Dollar => Len(tokens) < MaxTokens
        /\ tokens' = Append(tokens, t)
    /\ status' = "token"
    /\ UNCHANGED <<automaton, stack, subtrees, reduction, handle, ast, root, errors>>

\* LRkAstBuilder::commit_root: the sub-tree under the last one is the tree
CommitRoot ==
    IF Len(subtrees) > 1
    THEN LET n == Len(subtrees) - 1
             nodes == WithFirst(ast, subtrees[n].nodes, 1)
         IN /\ ast' = Append(Stored(ast, subtrees[n].nodes, 1), nodes[1])
            /\ root' = Len(ast')
            /\ subtrees' = [subtrees EXCEPT ![n].nodes = nodes]
    ELSE UNCHANGED <<ast, root, subtrees>>

\* parse: the lexer has no more token, the input is accepted
EndOfTokens ==
    /\ status = "next"
    /\ Ended
    /\ CommitRoot
    /\ status' = "accepted"
    /\ UNCHANGED <<automaton, tokens, stack, reduction, handle, errors>>

\* parse_on_token, on a shift
Shift ==
    /\ status = "token"
    /\ Action(Top.state, Lookahead).code = "SHIFT"
    /\ stack' = Append(stack, [state |-> Action(Top.state, Lookahead).data,
                               symbol |-> Lookahead])
    /\ subtrees' = Append(subtrees, Single(<<"Token", Len(tokens)>>, "NONE"))
    /\ status' = "next"
    /\ UNCHANGED <<automaton, tokens, reduction, handle, ast, root, errors>>

\* parse_on_token, on a reduction, up to reduction_prepare
Prepare ==
    /\ status = "token"
    /\ Action(Top.state, Lookahead).code = "REDUCE"
    /\ LET prod == automaton.prods[Action(Top.state, Lookahead).data]
       IN reduction' = [prod |-> Action(Top.state, Lookahead).data,
                        cache |-> Single(<<"Variable", prod.head>>, prod.headAction),
                        popCount |-> 0,
                        ip |-> 1]
    /\ status' = "reduce"
    /\ UNCHANGED <<automaton, tokens, stack, subtrees, handle, ast, root, errors>>

Op == Prod.ops[reduction.ip]
Executing(op) == /\ status = "reduce"
                 /\ reduction.ip \in DOMAIN Prod.ops
                 /\ Op.op = op

\* reduction_add_sub: the cache and the handle with a sub-tree added
AddSub(sub, action) ==
    LET size == Len(reduction.cache.nodes)
        count == sub.nodes[1].count
        copy == Whole(sub)
        list == Children(sub)
        change == action # "NONE"
    IN IF sub.actions[1] = "REPLACE_BY_CHILDREN"
       THEN [cache |-> Concat(reduction.cache, list.nodes, list.actions),
             handle |-> handle \o [k \in 1 .. count |-> size + ChildAt(sub, k) - 1]]
       ELSE IF action = "DROP" THEN [cache |-> reduction.cache, handle |-> handle]
       ELSE [cache |-> Concat(reduction.cache, copy.nodes,
                              IF change THEN [copy.actions EXCEPT ![1] = action]
                              ELSE copy.actions),
             handle |-> Append(handle, size + 1)]

\* Fault: the next sub-tree is taken from the top of the stack
Popped_FromTop == subtrees[Len(subtrees) - reduction.popCount]

\* The sub-tree that the next pop is about
Popped == subtrees[Len(subtrees) - Prod.length + reduction.popCount + 1]

\* reduction_pop
Pop ==
    /\ Executing("POP")
    /\ LET added == AddSub(Popped, Op.action)
       IN /\ reduction' = [reduction EXCEPT !.cache = added.cache,
                                            !.popCount = @ + 1,
                                            !.ip = @ + 1]
          /\ handle' = added.handle
    /\ UNCHANGED <<automaton, tokens, status, stack, subtrees, ast, root, errors>>

\* reduction_add_virtual
AddVirtual ==
    /\ Executing("VIRTUAL")
    /\ IF Op.action = "DROP"
       THEN /\ reduction' = [reduction EXCEPT !.ip = @ + 1]
            /\ UNCHANGED handle
       ELSE LET node == Single(<<"Virtual", Op.symbol>>, Op.action)
            IN /\ reduction' = [reduction EXCEPT
                                    !.cache = Concat(@, node.nodes, node.actions),
                                    !.ip = @ + 1]
               /\ handle' = Append(handle, Len(reduction.cache.nodes) + 1)
    /\ UNCHANGED <<automaton, tokens, status, stack, subtrees, ast, root, errors>>

\* The user's code is called: it reads the body built so far, through the handle
SemanticAction ==
    /\ Executing("ACTION")
    /\ reduction' = [reduction EXCEPT !.ip = @ + 1]
    /\ UNCHANGED <<automaton, tokens, status, stack, subtrees, handle, ast, root, errors>>

Truncated(seq, n) == SubSeq(seq, 1, Len(seq) - n)

\* Faults: as many symbols are removed as the body has nodes; the goto is that of the
\* state that made the reduction
StackLeft_ByHandle == Truncated(stack, Len(handle))
Uncovered_Top == Top.state

SubtreesLeft == Truncated(subtrees, Prod.length)
StackLeft == Truncated(stack, Prod.length)

\* The state uncovered when the body is popped
Uncovered == stack[Len(stack) - Prod.length].state
GotoState == Action(Uncovered, Prod.head).data

HandleAfter == <<>>

\* LRkAstBuilder::reduce, then the rest of parse_on_token
Reduce ==
    /\ status = "reduce"
    /\ reduction.ip \notin DOMAIN Prod.ops
    /\ LET cache == reduction.cache
           packed == ReduceTree(cache, handle, ast)
           replaced == cache.actions[1] = "REPLACE_BY_CHILDREN"
           tree == IF replaced
                   THEN [cache EXCEPT !.nodes[1].count = Len(handle)]
                   ELSE [nodes |-> packed.nodes, actions |-> packed.actions]
       IN /\ subtrees' = Append(SubtreesLeft, tree)
          /\ ast' = IF replaced THEN ast ELSE packed.cells
    /\ stack' = Append(StackLeft, [state |-> GotoState, symbol |-> Prod.head])
    /\ reduction' = NoReduction
    /\ handle' = HandleAfter
    /\ status' = "token"
    /\ UNCHANGED <<automaton, tokens, root, errors>>

\* Bound of the model on a chain of reductions: the code goes on until there is no
\* reduction; the chains of the sample automata are shorter
MaxChain == (Len(stack) + 1) * (Len(automaton.prods) + 1)

\* check_is_expected: the stack of the states after the reductions on the terminal
Simulated(terminal) ==
    LET after[k \in Nat, s \in Seq(Nat)] ==
            LET action == Action(s[Len(s)], terminal)
                popped == Truncated(s, automaton.prods[action.data].length)
                goto == Action(popped[Len(popped)], automaton.prods[action.data].head)
            IN IF k > 0 /\ action.code = "REDUCE"
               THEN after[k - 1, Append(popped, goto.data)]
               ELSE s
    IN after[MaxChain, [i \in DOMAIN stack |-> stack[i].state]]

\* Faults: a reduction on the terminal is enough; none is
CheckIsExpected_Trusting(terminal) == TRUE
CheckIsExpected(terminal) ==
    LET s == Simulated(terminal)
    IN Action(s[Len(s)], terminal).code = "SHIFT"

\* build_error
ExpectedTerminals ==
    {t \in automaton.terminals :
        \/ Action(Top.state, t).code = "SHIFT"
        \/ Action(Top.state, t).code = "REDUCE" /\ CheckIsExpected(t)}

\* parse: the token is unexpected, the parser stops and there is no tree
Reject ==
    /\ status = "token"
    /\ Action(Top.state, Lookahead).code = "NONE"
    /\ errors' = <<ExpectedTerminals>>
    /\ status' = "error"
    /\ UNCHANGED <<automaton, tokens, stack, subtrees, reduction, handle, ast, root>>

Ends == status \in {"accepted", "error"}
Returned == Ends /\ UNCHANGED vars

Next ==
    \/ NextToken
    \/ EndOfTokens
    \/ Shift
    \/ Prepare
    \/ Pop
    \/ AddVirtual
    \/ SemanticAction
    \/ Reduce
    \/ Reject
    \/ Returned

Spec == Init /\ [][Next]_vars
-----------------------------------------------------------------------------
TypeOK ==
    /\ automaton \in Automata
    /\ tokens \in Seq(automaton.terminals)
    /\ status \in {"next", "token", "reduce", "accepted", "error"}
    /\ status \in {"token", "reduce", "error"} => tokens # <<>>
    /\ stack \in Seq([state : StatesOf(automaton),
                       symbol : SymbolsOf(automaton) \cup {"none"}]) /\ stack # <<>>
    /\ Len(subtrees) = Len(stack) - 1
    /\ status = "reduce" =>
        /\ reduction.prod \in DOMAIN automaton.prods
        /\ reduction.ip \in 1 .. Len(Prod.ops) + 1
        /\ reduction.popCount = Cardinality({k \in Pops(Prod) : k < reduction.ip})
    /\ errors \in Seq(SUBSET automaton.terminals)

\* The stack spells a path of the LR automaton: an item of the state at a place
\* has been recognised symbol by symbol from the place where its rule began.
\* Every truncation and every goto of the driver rests on it.
ItemsBacked ==
    \A n \in DOMAIN stack : \A i \in automaton.items[stack[n].state] :
        /\ i[2] < n
        /\ \A j \in 0 .. i[2] : <<i[1], i[2] - j>> \in automaton.items[stack[n - j].state]

\* No step of a reduction goes out of a stack, and "this must be a shift"
\* (lrk.rs:464, 506), which the code never checks, is true: a reduction finds its
\* whole body on both stacks, each pop is of a symbol of that body, and the state
\* it uncovers has a goto.
ReductionsFit ==
    status = "reduce" =>
        /\ Prod.length < Len(stack)
        /\ Prod.length <= Len(subtrees)
        /\ reduction.ip \in Pops(Prod) => reduction.popCount < Prod.length
        /\ Action(Uncovered, Prod.head).code = "SHIFT"
=============================================================================
