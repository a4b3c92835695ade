------------------------- MODULE MCParserGeneration -------------------------
(***************************************************************************)
(* The generation of parsers for small grammars, and what is checked of it *)
(* against references that are computed apart: the canonical LR(1) graphs, *)
(* and the words of the grammars with their contexts.                      *)
(***************************************************************************)
EXTENDS ParserGeneration, SampleGrammars
LOCAL Graphs == INSTANCE LRTables
LOCAL Reference == INSTANCE Languages

CONSTANT PhraseLength      \* bound on the words the diagnostics are compared with

SampleInputs == AllGrammars \cup {ForkedContexts, OutOfContext}

SampleCanonical == [g \in SampleInputs |-> Graphs!CanonicalGraph(g)]

SampleContextOf(t) == CASE t = "x1" -> 1 [] t = "x2" -> 2 [] OTHER -> 0
-----------------------------------------------------------------------------
MarkedBeginnings == [g \in InputGrammars |-> Reference!MarkedPrefixes(g, PhraseLength)]

\* What is reported is true: a terminal that the lexer cannot give is reported if and
\* only if a sentence needs it; a terminal reported outside its context may come where
\* the context is not open.
ErrorsTrue ==
    phase = "returned" =>
        LET letters == UNION {{w[k] : k \in DOMAIN w} : w \in MarkedBeginnings[grammar]}
        IN /\ {e.terminal : e \in {x \in errors : x.kind = "TerminalCannotBeMatched"}} =
                {x.terminal : x \in letters} \ (expected \cup {Dollar})
           /\ \A e \in {x \in errors : x.kind = "TerminalOutsideContext"} :
                \E x \in letters : x.terminal = e.terminal /\ ContextOf(e.terminal) \notin DOMAIN x.since
=============================================================================
