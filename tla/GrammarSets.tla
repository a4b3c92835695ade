---------------------------- MODULE GrammarSets -----------------------------
(***************************************************************************)
(* Grammar::prepare of the SDK (grammars.rs): the FIRSTS sets of every     *)
(* choice of every rule and of every variable, then the FOLLOWERS sets of  *)
(* the variables, each by passes over the rules until nothing changes.     *)
(*                                                                         *)
(* The loops are unrolled: a step is one rule entered, one choice          *)
(* computed, one rule's followers, or the end of a pass.  The sets grow in *)
(* place during a pass, so that what a choice reads depends on the order.  *)
(***************************************************************************)
EXTENDS Grammars

CONSTANT InputGrammars     \* the grammars prepare() is called on

VARIABLES
    grammar,      \* the grammar being prepared
    phase,        \* "firsts", "initial", "followers", "done"
    rule,         \* the current rule of the pass
    pos,          \* the current choice of that rule, or Outside
    modified,     \* whether the pass changed anything yet
    firsts,       \* firsts[r][k]: RuleChoice.firsts of the choice k of r
    varFirsts,    \* Variable.firsts, and firsts_for_var
    followers     \* Variable.followers

vars == <<grammar, phase, rule, pos, modified, firsts, varFirsts, followers>>

Outside == -1
HeadVar == grammar.rules[rule].head
Body == BodyOf(grammar, rule)
Variables == VariablesOf(grammar)

Init ==
    /\ grammar \in InputGrammars
    /\ phase = "firsts"
    /\ rule = 1
    /\ pos = Outside
    /\ modified = FALSE
    /\ firsts = [r \in RulesOf(grammar) |-> [k \in ChoicesOf(grammar, r) |-> {}]]
    /\ varFirsts = [v \in Variables |-> {}]
    /\ followers = [v \in Variables |-> {}]

\* Variable::compute_firsts, before it computes the body of one of its rules
EnterRule ==
    /\ phase = "firsts"
    /\ rule \in RulesOf(grammar)
    /\ pos = Outside
    /\ varFirsts' = [varFirsts EXCEPT ![HeadVar] = @ \cup firsts[rule][0]]
    /\ modified' = (modified \/ varFirsts' # varFirsts)
    /\ pos' = Len(Body)
    /\ UNCHANGED <<grammar, phase, rule, firsts, followers>>

\* Fault: what follows a nullable variable is forgotten
FirstsAdded_NoNext ==
    IF pos = Len(Body) THEN {Epsilon}
    ELSE IF Body[pos + 1] \notin Variables THEN {Body[pos + 1]}
    ELSE varFirsts[Body[pos + 1]] \ {Epsilon}

\* RuleChoice::compute_firsts: what is added to the FIRSTS of the choice
FirstsAdded ==
    IF pos = Len(Body) THEN {Epsilon}
    ELSE IF Body[pos + 1] \notin Variables THEN {Body[pos + 1]}
    ELSE LET known == varFirsts[Body[pos + 1]]
         IN (known \ {Epsilon})
              \cup (IF Epsilon \in known THEN firsts[rule][pos + 1] ELSE {})

\* RuleBody::compute_firsts, one choice, from the last (empty) to the first
ComputeChoice ==
    /\ phase = "firsts"
    /\ rule \in RulesOf(grammar)
    /\ pos # Outside
    /\ firsts' = [firsts EXCEPT ![rule][pos] = @ \cup FirstsAdded]
    /\ modified' = (modified \/ firsts' # firsts)
    /\ pos' = pos - 1
    /\ rule' = IF pos = 0 THEN rule + 1 ELSE rule
    /\ UNCHANGED <<grammar, phase, varFirsts, followers>>

Rewind ==
    /\ rule' = 1
    /\ modified' = FALSE

\* Grammar::compute_firsts: the test of the loop
EndFirstsPass ==
    /\ phase = "firsts"
    /\ rule \notin RulesOf(grammar)
    /\ phase' = IF modified THEN "firsts" ELSE "initial"
    /\ Rewind
    /\ UNCHANGED <<grammar, pos, firsts, varFirsts, followers>>

\* The terminals that start what comes after the k-th symbol of the body
FirstsAfter(k) == firsts[rule][k] \ {Epsilon}

\* RuleBody::compute_initial_follower
InitialFollower ==
    /\ phase = "initial"
    /\ followers' = [v \in Variables |->
            followers[v] \cup (UNION {FirstsAfter(k) : k \in {i \in DOMAIN Body : Body[i] = v}})]
    /\ rule' = IF rule + 1 \in RulesOf(grammar) THEN rule + 1 ELSE 1
    /\ phase' = IF rule + 1 \in RulesOf(grammar) THEN "initial" ELSE "followers"
    /\ UNCHANGED <<grammar, pos, modified, firsts, varFirsts>>

EndsRule(k) == Epsilon \in firsts[rule][k]

\* RuleBody::propagate_followers
PropagateFollowers ==
    /\ phase = "followers"
    /\ rule \in RulesOf(grammar)
    /\ followers' = [v \in Variables |->
            IF \E k \in DOMAIN Body : Body[k] = v /\ EndsRule(k)
            THEN followers[v] \cup followers[HeadVar]
            ELSE followers[v]]
    /\ modified' = (modified \/ followers' # followers)
    /\ rule' = rule + 1
    /\ UNCHANGED <<grammar, phase, pos, firsts, varFirsts>>

\* Grammar::compute_followers: the test of the loop
EndFollowersPass ==
    /\ phase = "followers"
    /\ rule \notin RulesOf(grammar)
    /\ phase' = IF modified THEN "followers" ELSE "done"
    /\ Rewind
    /\ UNCHANGED <<grammar, pos, firsts, varFirsts, followers>>

Next ==
    \/ EnterRule
    \/ ComputeChoice
    \/ EndFirstsPass
    \/ InitialFollower
    \/ PropagateFollowers
    \/ EndFollowersPass

\* The loops are a plain sequential computation: it never pauses
Spec == Init /\ [][Next]_vars /\ WF_vars(Next)
-----------------------------------------------------------------------------
Terminals == (UNION {{BodyOf(grammar, r)[k] : k \in DOMAIN BodyOf(grammar, r)} :
                        r \in RulesOf(grammar)}) \ Variables
Set == SUBSET (Terminals \cup {Epsilon})

TypeOK ==
    /\ grammar \in InputGrammars
    /\ phase \in {"firsts", "initial", "followers", "done"}
    /\ rule \in 1 .. Len(grammar.rules) + 1
    /\ pos \in Int
    /\ rule \in RulesOf(grammar) => pos \in {Outside} \cup ChoicesOf(grammar, rule)
    /\ modified \in BOOLEAN
    /\ DOMAIN firsts = RulesOf(grammar)
    /\ \A r \in RulesOf(grammar) : firsts[r] \in [ChoicesOf(grammar, r) -> Set]
    /\ varFirsts \in [Variables -> Set]
    /\ followers \in [Variables -> SUBSET Terminals]

\* The sets are read only when the passes have stopped.  By then the FIRSTS of
\* every suffix of every rule, and of every variable, are what a derivation can
\* start with: stopping one pass early, or on a flag that misses a change,
\* leaves a set too small, and the parser built from it rejects valid inputs.
FirstsExact ==
    phase # "firsts" =>
        /\ \A r \in RulesOf(grammar) : \A k \in ChoicesOf(grammar, r) :
                firsts[r][k] = grammar.firsts[r][k]
        /\ \A v \in Variables : varFirsts[v] = TrueVarFirsts(grammar, v)

\* When prepare() returns, the FOLLOWERS of a variable are exactly the
\* terminals that may come after it in a sentential form.
FollowersExact ==
    phase = "done" => \A v \in Variables : followers[v] = TrueFollowers(grammar, v)

\* prepare() returns: both fixpoints are reached, whatever the recursion between
\* the rules (cycles of nullable variables included).
Terminates == <>(phase = "done")
=============================================================================
