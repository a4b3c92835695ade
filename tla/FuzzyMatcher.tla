----------------------------- MODULE FuzzyMatcher ---------------------------
(***************************************************************************)
(* The recovery of a lexer (runtime-rust/src/lexers/fuzzy.rs): the input   *)
(* ahead is matched against the automaton with at most max errors.  Heads  *)
(* go one unit of the input further at each generation.                    *)
(*                                                                         *)
(* A head is a state and the offsets of its errors.  The heads of the next *)
(* generation are those that are pushed, in order, but for the ones that   *)
(* have a head of the same state, as close, before them.                   *)
(***************************************************************************)
EXTENDS FiniteAutomata
LOCAL INSTANCE SequencesExt

HeadAt(state, errors) == [state |-> state, errors |-> errors]
Distance(head) == Len(head.errors)

NoMatch == [state |-> DEAD_STATE, errors |-> <<>>, length |-> 0, overflows |-> FALSE]

\* FuzzyMatcherHead::new_error
WithError(head, state, offset) == HeadAt(state, Append(head.errors, offset))

\* FuzzyMatcherResult::push_head, push_head_long_error
Kept(pushed) ==
    LET dominated(i) == \E j \in 1 .. (i - 1) : /\ pushed[j].state = pushed[i].state
                                                /\ Distance(pushed[j]) <= Distance(pushed[i])
        kept == SelectSeq([i \in DOMAIN pushed |-> i], LAMBDA i : ~ dominated(i))
    IN [k \in DOMAIN kept |-> pushed[kept[k]]]

\* A state that matches anything but the separator
MatchesToken(state, separator) ==
    IsMatching(state) /\ state.matches[1].terminal # separator

NoUnit == -1

\* Where a unit leads; at the end of the input the code reads 0
Ahead(state, unit) == TargetBy(state, IF unit = NoUnit THEN 0 ELSE unit)

\* FuzzyMatcher::explore_transitions: a replacement for each target
Replaced(head, state, offset) ==
    LET targets == TargetsOf(state)
    IN [k \in DOMAIN targets |-> WithError(head, targets[k], offset)]

\* FuzzyMatcher::explore_insertions, explore_insertion.  What the code examines
\* for each target is the state of the head and not the target: an insertion leads
\* where the unit leads without it, and matches what the head has matched
Inserted(head, state, offset, unit) ==
    IF TargetsOf(state) = <<>> \/ Ahead(state, unit) = DEAD_STATE THEN <<>>
    ELSE <<WithError(head, Ahead(state, unit), offset)>>

\* Fault: the limit on the errors is met one later
PushedBy_OneMore(table, head, offset, unit, max) ==
    LET state == StateAt(table, head.state)
        straight == IF unit = NoUnit \/ Ahead(state, unit) = DEAD_STATE THEN <<>>
                    ELSE <<HeadAt(Ahead(state, unit), head.errors)>>
        dropped == IF unit = NoUnit THEN <<>> ELSE <<WithError(head, head.state, offset)>>
    IN IF Distance(head) > max \/ IsDeadEnd(state) THEN <<>>
       ELSE straight \o dropped \o Replaced(head, state, offset) \o Inserted(head, state, offset, unit)

\* FuzzyMatcher::inspect, inspect_at_end: what a head pushes.  A head with as many
\* errors as there may be does not go on; at the end nothing is dropped, and
\* the targets are still taken as replacements
PushedBy(table, head, offset, unit, max) ==
    LET state == StateAt(table, head.state)
        straight == IF unit = NoUnit \/ Ahead(state, unit) = DEAD_STATE THEN <<>>
                    ELSE <<HeadAt(Ahead(state, unit), head.errors)>>
        dropped == IF unit = NoUnit THEN <<>> ELSE <<WithError(head, head.state, offset)>>
    IN IF Distance(head) >= max \/ IsDeadEnd(state) THEN <<>>
       ELSE straight \o dropped \o Replaced(head, state, offset) \o Inserted(head, state, offset, unit)

\* FuzzyMatcher::on_matching_insertion: a head that matches and may insert takes one
\* from the offset, a usize, to compare what the insertion is worth.  It is worth less
\* than the head, and never taken; but from 0 the subtraction overflows
InsertionOverflows(table, head, offset, separator, max) ==
    LET state == StateAt(table, head.state)
    IN /\ MatchesToken(state, separator)
       /\ Distance(head) < max
       /\ TargetsOf(state) # <<>>
       /\ offset < 1

\* FuzzyMatcher::on_matching_head, get_comparable_length: the first of the heads that
\* match with the fewest errors, if it is worth more than the match there is
BestMatch(match, table, heads, offset, separator, max) ==
    LET matching == {i \in DOMAIN heads : MatchesToken(StateAt(table, heads[i].state), separator)}
        best == CHOOSE i \in matching : \A j \in matching :
                    Distance(heads[i]) < Distance(heads[j])
                    \/ (Distance(heads[i]) = Distance(heads[j]) /\ i <= j)
        overflows == \E i \in DOMAIN heads : InsertionOverflows(table, heads[i], offset, separator, max)
        found == IF /\ matching # {}
                    /\ \/ match.state = DEAD_STATE
                       \/ offset - Distance(heads[best]) > match.length - Len(match.errors)
                 THEN [match EXCEPT !.state = heads[best].state, !.errors = heads[best].errors,
                                    !.length = offset]
                 ELSE match
    IN [found EXCEPT !.overflows = @ \/ overflows]

\* FuzzyMatcher::run: the generations of heads, from the k-th unit on
RECURSIVE Generations(_, _, _, _, _, _, _, _)
Generations(table, heads, match, units, k, offset, separator, max) ==
    IF heads = <<>> THEN match
    ELSE LET unit == IF k > Len(units) THEN NoUnit ELSE units[k].unit
             length == IF k > Len(units) THEN 0 ELSE units[k].length
             pushed == [i \in DOMAIN heads |-> PushedBy(table, heads[i], offset, unit, max)]
         IN Generations(table, Kept(FlattenSeq(pushed)),
                        BestMatch(match, table, heads, offset, separator, max),
                        units, k + 1, offset + length, separator, max)

FuzzyMatch(table, text, origin, separator, max) ==
    Generations(table, <<HeadAt(1, <<>>)>>, NoMatch, UnitsFrom(text, origin), 1, 0, separator, max)

\* FuzzyMatcher::on_success: where the errors of a match are reported.  An error
\* where the one before it is reported already is not; the first is compared with
\* the length of the match
ReportedAt(origin, match) ==
    LET at(i) == origin + match.errors[i]
        previous(i) == IF i = 1 THEN match.length + 1 ELSE at(i - 1)
    IN {at(i) : i \in {j \in DOMAIN match.errors : at(j) # previous(j)}}
=============================================================================
