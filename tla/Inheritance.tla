---------------------------- MODULE Inheritance ----------------------------
(***************************************************************************)
(* The loader of grammars (src/sdk-rust/src/loaders/mod.rs): grammars that *)
(* inherit others are loaded once those are, round after round, until all  *)
(* are loaded or a round makes no progress.                                *)
(*                                                                         *)
(* A grammar is known by the index of the input that declares it.  Besides *)
(* the grammar itself a loader keeps which grammars' own content it holds. *)
(* What the content is does not matter here: GrammarLoading says it.       *)
(***************************************************************************)
EXTENDS Integers, Sequences, FiniteSets

CONSTANTS
    Names,           \* names of grammars
    Declarations,    \* bound: the inputs, sequences of records [name, parents, source]
    EmptyGrammar,    \* Grammar::new
    Filled(_, _, _), \* load_content: a grammar, its input and what the source of it adds
    Inherited(_, _)  \* Grammar::inherit: a grammar with what a parent has

Elements(seq) == {seq[i] : i \in DOMAIN seq}
IsList(seq) == seq \in Seq(Elements(seq))

ASSUME DeclarationsAssumption ==
    \A inputs \in Declarations :
        /\ IsList(inputs)
        /\ \A i \in DOMAIN inputs : inputs[i].name \in Names /\ inputs[i].parents \in Seq(Names)

VARIABLES
    grammars,     \* the declarations of the inputs
    completed,    \* the loaders that are solved, in the order they were
    toResolve,    \* what the current round has left to try
    retained,     \* what it tried without success (finished_on_round)
    modified,     \* whether it inherited anything
    errors,       \* the parents reported as not defined: <<grammar, name>>
    returned      \* whether resolve_inheritance returned

vars == <<grammars, completed, toResolve, retained, modified, errors, returned>>

----------------------------------------------------------------------------
\* The elements of a sequence at some of its places
Selected(seq, places) ==
    LET upTo[n \in 0 .. Len(seq)] ==
            IF n = 0 THEN <<>>
            ELSE LET before == upTo[n - 1]
                 IN IF n \in places THEN Append(before, seq[n]) ELSE before
    IN upTo[Len(seq)]

IsSolved(l) == l.inherited = <<>>

\* The content of a grammar is loaded when its last parent is.
WithContent(l) ==
    IF IsSolved(l)
    THEN [l EXCEPT !.holds = @ \cup {l.input},
                   !.grammar = Filled(@, l.input, grammars[l.input].source)]
    ELSE l

NewLoader(i) ==
    WithContent([input |-> i, name |-> grammars[i].name, inherited |-> grammars[i].parents,
                 holds |-> {}, grammar |-> EmptyGrammar])

NamedBy(loaders, n) == {k \in DOMAIN loaders : loaders[k].name = n}

\* The first loader of that name is inherited.
Parent(n) == completed[CHOOSE k \in NamedBy(completed, n) : \A m \in NamedBy(completed, n) : k <= m]

\* The places of the parents that are available, among those awaited
AvailableAt(l) == {k \in DOMAIN l.inherited : NamedBy(completed, l.inherited[k]) # {}}

Available(l) == Selected(l.inherited, AvailableAt(l))
StillAwaited(l) == Selected(l.inherited, DOMAIN l.inherited \ AvailableAt(l))

\* The grammar with what the parents that are found have, in their order
WithInherited(grammar, found) ==
    LET after[n \in 0 .. Len(found)] ==
            IF n = 0 THEN grammar ELSE Inherited(after[n - 1], Parent(found[n]).grammar)
    IN after[Len(found)]

\* inherit of each parent that is available
Load(l) ==
    LET found == Available(l)
    IN WithContent([l EXCEPT
            !.inherited = StillAwaited(l),
            !.holds = @ \cup UNION {Parent(n).holds : n \in Elements(found)},
            !.grammar = WithInherited(@, found)])

\* Fault: any parent still awaited is reported.
NotDefined_Awaited(l) == {<<l.input, n>> : n \in Elements(l.inherited)}

\* The parents still awaited that no unresolved grammar declares.
NotDefined(l) == {<<l.input, n>> : n \in {m \in Elements(l.inherited) : NamedBy(retained, m) = {}}}

----------------------------------------------------------------------------
Loaders == [i \in DOMAIN grammars |-> NewLoader(i)]
SolvedAt == {i \in DOMAIN grammars : IsSolved(Loaders[i])}

Init ==
    /\ grammars \in Declarations
    /\ completed = Selected(Loaders, SolvedAt)
    /\ toResolve = Selected(Loaders, DOMAIN grammars \ SolvedAt)
    /\ retained = <<>>
    /\ modified = FALSE
    /\ errors = {}
    /\ returned = FALSE

\* Fault: the last grammar of a round alone tells whether there was progress.
Try_LastCounts ==
    /\ toResolve # <<>>
    /\ LET target == Load(Head(toResolve)) IN
       /\ completed' = IF IsSolved(target) THEN Append(completed, target) ELSE completed
       /\ retained' = IF IsSolved(target) THEN retained ELSE Append(retained, target)
       /\ modified' = (Available(Head(toResolve)) # <<>>)
    /\ toResolve' = Tail(toResolve)
    /\ UNCHANGED <<grammars, errors, returned>>

Try ==
    /\ toResolve # <<>>
    /\ LET target == Load(Head(toResolve)) IN
       /\ completed' = IF IsSolved(target) THEN Append(completed, target) ELSE completed
       /\ retained' = IF IsSolved(target) THEN retained ELSE Append(retained, target)
       /\ modified' = (modified \/ Available(Head(toResolve)) # <<>>)
    /\ toResolve' = Tail(toResolve)
    /\ UNCHANGED <<grammars, errors, returned>>

RoundEnds == ~returned /\ toResolve = <<>>

\* Fault: the flag of the last round is kept.
NextRound_NoReset ==
    /\ RoundEnds /\ retained # <<>> /\ modified
    /\ toResolve' = retained
    /\ retained' = <<>>
    /\ UNCHANGED <<grammars, completed, modified, errors, returned>>

NextRound ==
    /\ RoundEnds /\ retained # <<>> /\ modified
    /\ toResolve' = retained
    /\ retained' = <<>>
    /\ modified' = FALSE
    /\ UNCHANGED <<grammars, completed, errors, returned>>

Stall ==
    /\ RoundEnds /\ retained # <<>> /\ ~modified
    /\ errors' = UNION {NotDefined(retained[k]) : k \in DOMAIN retained}
    /\ returned' = TRUE
    /\ UNCHANGED <<grammars, completed, toResolve, retained, modified>>

AllSolved ==
    /\ RoundEnds /\ retained = <<>>
    /\ returned' = TRUE
    /\ UNCHANGED <<grammars, completed, toResolve, retained, modified, errors>>

Returned == returned /\ UNCHANGED vars

Next == Try \/ NextRound \/ Stall \/ AllSolved \/ Returned

\* A step is possible until the loader returns: this is WF_vars(Next), written
\* without ENABLED.
Fairness == []<>returned \/ []<><<Next>>_vars

Spec == Init /\ [][Next]_vars /\ Fairness

----------------------------------------------------------------------------
(* Properties. *)

Inputs(loaders) == {loaders[k].input : k \in DOMAIN loaders}

\* The loader of each input is in one place: moved between the lists of a round,
\* none is lost and none is there twice.
TypeOK ==
    LET all == completed \o toResolve \o retained IN
    /\ Inputs(all) = DOMAIN grammars /\ Len(all) = Len(grammars)
    /\ \A k \in DOMAIN all : /\ Elements(all[k].inherited) \subseteq Elements(grammars[all[k].input].parents)
                             /\ all[k].holds \subseteq DOMAIN grammars
    /\ modified \in BOOLEAN /\ returned \in BOOLEAN
    /\ errors \subseteq (DOMAIN grammars) \X Names

\* A grammar that is complete holds its own content and everything a grammar
\* of each parent's name holds (load, mod.rs:300-317).
HoldsItsParents ==
    \A k \in DOMAIN completed :
        LET l == completed[k] IN
        /\ l.input \in l.holds
        /\ \A n \in Elements(grammars[l.input].parents) :
             \E m \in NamedBy(completed, n) : m < k /\ completed[m].holds \subseteq l.holds

\* The grammars that can be loaded, by rounds over all of them at once: one
\* without parents can, and one whose parents' names are of ones that can.
CanLoadAfter(known) ==
    {i \in DOMAIN grammars :
        \A n \in Elements(grammars[i].parents) : \E j \in known : grammars[j].name = n}

Loadable ==
    LET after[r \in 0 .. Len(grammars)] == IF r = 0 THEN {} ELSE CanLoadAfter(after[r - 1])
    IN after[Len(grammars)]

\* A grammar that is complete has what it inherits; when the loader returns,
\* exactly the grammars that can be loaded are complete, whatever the order of the
\* inputs (resolve_inheritance).
CompletesTheLoadable ==
    /\ TypeOK /\ HoldsItsParents
    /\ returned => Inputs(completed) = Loadable

\* When the loader returns, exactly the parents no input declares are reported
\* (collect_errors, mod.rs:278-292).
ReportsTheMissing ==
    returned => errors = {e \in (DOMAIN grammars) \X Names :
                              e[2] \in Elements(grammars[e[1]].parents) /\ NamedBy(grammars, e[2]) = {}}

\* The rounds end: one without progress is the last.
Terminates == <>returned

=============================================================================
