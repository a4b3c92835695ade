# Hime in TLA+

Hime is a parser generator. The SDK (`src/sdk-rust`) compiles grammars into tables; a runtime
(`src/runtime-rust`, with ports to .NET, Java and TypeScript) runs the lexers and parsers those
tables describe; a language server (`src/langserv`) compiles the grammars of a workspace while
they are edited. This directory holds the TLA+ models of that code, the configurations that
check them with TLC, and proofs checked by TLAPS.

- `PROJECT.json` maps each definition to the lines it models and lists the runs, the faults the
  runs must find, the hazards, the findings and the theorems.
- Every `X_Fault` operator in a module is the definition `X` with a plausible bug in it. They
  are not part of any specification: they show that the properties can fail.

## 1. Inventory

Paths are relative to `src/`. "Hard" names what a test hardly reaches.

### Runtime (runtime-rust/src)

| Part | State | Operations | Hard | Correct when | Models |
|---|---|---|---|---|---|
| `utils/biglist.rs` BigList | chunks, current chunk, next cell | push, read, write, iterate | the push at the boundary of a chunk | it is an append-only list; indices stay valid | AppendList, BigList |
| `parsers/lrk.rs` LR(k) driver | stack of states, the token | shift, reduce, accept, error | states and sub-trees kept on two stacks by two functions; goto taken without a check | it accepts the language of the grammar and stops at the first token that cannot be | LRkParser, LRkResults |
| `parsers/lrk.rs`, `subtree.rs`, `ast.rs` trees | stack of flat sub-trees, reduction cache, handle, stored cells | prepare, pop, virtual, semantic action, reduce, commit; spans, parents and tokens looked for | packing in place; promotion; user code called in the middle; cells left by what was dropped | the tree is the one the actions describe, and its spans are those of its text | LRkParser, LRkResults, Ast, TreeBuilder |
| `parsers/lrk.rs` errors | copy of the stack | simulate, list what was expected | reductions done before the error; LALR lookaheads of other paths | expected = what could have come | LRkResults |
| `parsers/lrk.rs` contexts | parser stack | `get_context_priority` | looks ahead of reductions not made | a terminal is chosen in a context if it may come there | LRkResults |
| `parsers/rnglr.rs` | graph-structured stack, queues of reductions and shifts | shift, reduce along a path, contexts, errors | reductions through edges made in the same generation; nullable tails; parses abandoned later | all derivations, each followed once | RNGLRParser, RNGLRForests |
| `sppf.rs` and the builder in `rnglr.rs` | nodes with versions, lists, history of the generation | get or make a node, add a version, promote, drop; take a tree out of the forest, walk it | copies of what may still get a version; cycles | the forest has the trees of the derivations | SPPF, Ast, RNGLRForests |
| `lexers/*` | position, tokens, errors | match, choose a terminal, recover | context asked during lexing; progress on errors | longest match, among the contexts that are open | Lexer, FiniteAutomata, Lexing |
| `lexers/fuzzy.rs` | heads, best match | generations of insertions, deletions, changes | comparison over generations | a match within the distance | FuzzyMatcher |
| `tokens.rs`, `text.rs` | tokens, line index | add, search by index, positions | binary search on unsigned indices; endings of lines | the token that contains the index | Texts, Lexer |
| `result.rs`, `symbols.rs`, `errors.rs`, `utils/bin.rs` | plain data | accessors | - | - | - |

### SDK (sdk-rust/src)

| Part | State | Operations | Hard | Correct when | Models |
|---|---|---|---|---|---|
| `loaders/mod.rs` inheritance | loaders in three lists, errors | rounds | order of inputs, cycles | complete = loadable; the rest reported | Inheritance |
| `loaders/mod.rs`, `grammars.rs` content | the grammar | walk of the syntax tree, inheritance, templates | symbols found by name or by value while parents and templates add theirs | a variable has the words its rules define | GrammarLoading, LoadedGrammars |
| `loaders/mod.rs` terminals, `unicode/*` | NFAs | texts, classes, spans, categories, blocks, operators | surrogates, bounds of spans | the automaton of the definition | TerminalRules, Texts |
| `finite.rs` | NFA, DFA | build, determinise, minimise, prune, repack | marks of differences; overlapping spans | same language, right priorities | FiniteAutomata |
| `grammars.rs` prepare | FIRSTS, FOLLOWERS, flag | passes over the rules | sets that grow during a pass; the flag | least sets of the definitions | Grammars, GrammarSets |
| `grammars.rs` build | DFA, errors | refuse what cannot be matched | terminals hidden by others | no table with a terminal that never matches | LexerGeneration |
| `lr.rs` closure | list of items, index | close, add candidates | a list that grows while it is walked; lookaheads added late | closed, nothing twice | LRGraphs, LRClosure |
| `lr.rs` graphs | states, kernels, propagation table | five methods | identity of kernels, propagation | the automaton of the items; LALR(1) = merged LR(1) | LRGraphs, LRConstruction |
| `lr.rs` reductions | reductions, conflicts | keep one, record a conflict | a reduction lost without conflict | table = what the items call for | LRConstruction |
| `lr.rs` inverse graph | paths, phrases | explain conflicts and context errors | search on cyclic graphs | paths lead to the error; errors are true | ParserGeneration |
| `output/parser_data.rs`, `output/lexer_data.rs` | - | tables, op-codes, offsets | - | the runtime finds what the graph says | LRGraphs, LRTables, FiniteAutomata |
| `lib.rs` CompilationTask, `output/mod.rs`, `output/assembly_*.rs` | options, errors, files | load, select, build, write, package, remove | indices after a selection; one step of several failing | the files asked for, errors at their grammar | Compilation |
| `output/parser_*.rs`, `output/lexer_*.rs`, `errors/*`, `hime_grammar.rs` | - | formatting, messages, generated code | - | - | - |

### Language server (langserv/src)

| Part | State | Operations | Hard | Correct when | Models |
|---|---|---|---|---|---|
| `main.rs` Backend | lock, spawned workers | LSP handlers | handlers, workers and requests in any order | the client ends with the right diagnostics | Workspace |
| `workspace.rs` | documents, compiled data | scan, events, edits, lint, requests | data of the last compilation against the documents of now | answers name the document they come from | Workspace |
| `symbols.rs` | symbols | register | - | - | Workspace (as sets) |

Also in the repository and not modelled: the tools `parseit`, `sdk-debugger` and
`sdk-unicode-gen` (arguments and printing), the ports `runtime-net`, `runtime-java` and
`runtime-ts`, `jar-loader`, the test driver and executors, and the release scripts. Of `himecc`,
the test mode is in Compilation.

### How the parts interact

- A `CompilationTask` reads its inputs, `loaders` fills grammars from them and from the grammars
  they inherit, the task selects some, and each is built: the lexer by way of NFAs, a DFA and its
  table, the parser by `prepare`, `build_graph` and its table. Files are written, packaged by
  external tools, and some removed.
- The runtime reads the tables. Models run generated tables, not invented ones: LRkParser and
  RNGLRParser run the automata that LRTables makes from grammars, Lexer runs the
  table that LexerGeneration makes from terminal rules.
- The parser pulls tokens from the lexer, which asks the parser for the priorities of contexts
  while it lexes. The models cut there: Lexer may get any answer, and LRkResults and
  RNGLRForests check the answers that the parsers give at each of their states.
- The parser calls the semantic actions of the user in the middle of a reduction.
- Tokens, trees and cells live in BigLists, whose indices are kept everywhere.
- The language server calls the loader and the generator from background tasks that share one
  `RwLock` with the handlers.

## 2. The models

A component is a module of its own; a module that compares it with a reference extends it; MC
modules and the two modules of samples give the instances. In the modules that proofs are about
recursion is written with recursive functions; the references (words, trees, meanings) are
recursive operators, in modules that only TLC uses, and a property that compares with them is
in such a module.

### BigList

`AppendList` is what the clients rely on: a sequence, a push that returns the index, a write.
`BigList` has the chunks of the code, with indices split and joined as `>>`, `&` and `|` do
(on powers of two; `UpperOf` and `LowerOf` are division and remainder by `ChunkSize`). An
iterator may be open while clients read. Values that are not yet written are `Default`.
The history `pushed` has the cells that a push stored a value in: `ChunksFilled` says that they are
all the cells of the chunks before the one in use, and in this one those below `cell_index`, so that
no cell is skipped. `ImplementsList` is the refinement.

### Loading and compiling grammars

`Inheritance` is `do_load_grammars` with `resolve_inheritance`: three lists of loaders, one
`Try` per loader of a round. What a grammar contains does not matter to the rounds: the empty
grammar, the one filled from its source and the one with what a parent has are parameters of the
module, and `MCInheritance.cfg` gives them the operators of `GrammarLoading`. Those say what a
try does to the grammar: `InheritFrom` copies what a parent has, `LoadContent` walks the rules
of the source. A symbol is its kind and its
name; the names that the code generates carry the identifier they were made from. A definition
is a tree of records, and the operators follow the functions of the loader: one rule body per
alternative, generated variables for repetitions, groups and contexts, one instance per list of
arguments of a template. An `unwrap` of nothing sets `panics`. The name of a generated variable has
the number that its grammar was at, so that two parents may have variables of one name, and what
they have is then merged.

`LoadedGrammars` is the reference. It reads the same sources as mathematics: a variable has the
words of its definitions, its parents' too, a template call stands for the definition with its
parameters replaced, and tree actions, sub-rules and contexts are marks in the words.
`LoadsTheLanguage` compares the words of the loaded grammar with those, up to `MaxLetters`. They are
the same, unless two parents bring a generated variable of one name, where each word that is meant
is loaded but others may be (see Findings), or a template of one name, where the first is kept and
nothing is claimed.
`CompletesTheLoadable` and `ReportsTheMissing` say which grammars are loaded, whatever the order
of the inputs.

`Compilation` goes on with `CompilationTask::execute` and the test mode of himecc: the selection
of a grammar, the options of grammar, parents and task, the building, the files and the
packages. A grammar that does not build, a file that cannot be written or removed and a tool
that fails are choices. An assembly may fail before its files are copied, between two of them (a
Rust assembly is a library and a crate), or after, when its temporary folder is removed: the files
copied so far stay, and no source is removed. A file is a record of what it is made from, so that `OutputsExact` can
say that the right data is in it, and `ErrorsLocated` follows the index of an error back.

### Lexers

`Texts` has spans of UTF-16 units and of code points, with the translation of the second into
the first, and the text of the runtime: the sizes of its characters in bytes and units, lines and
positions. `FiniteAutomata` has the operations of `NFA` and `DFA` as operators: determinisation
with the marks that a difference puts, minimisation by successive partitions, pruning,
repacking of adjacent spans, the terminals expected and those that are overridden; it also writes
the table of a lexer and reads it.
`TerminalRules` turns the definition of a terminal into a NFA, with the escape sequences and the
cuts at the surrogates that the loader makes; a definition also has fields that the loader does
not read and that say what is meant. `LexerGeneration` is the state machine from rules to table,
with the errors of `Grammar::build`.

`FuzzyMatcher` is the search of a repair. `Lexer` is the loop of the two lexers, a turn a step; a context-sensitive
lexer gets any answer from the parser. `Lexing` puts generation and lexer together, so that the
text is lexed with the table that was made, and compares with the definitions. Where the outcome
depends on the build, it is a choice: `AbortOnClass` is the stop of the loader on a range of a class
that ends before it begins, and on one that is excluded up to the last unit; `LexPanic` is the stop of
the lexer on the overflow in the fuzzy matcher. The last two happen in a build with overflow checks,
and another one goes on.

- `RecognisesDefinitions`: of the words to `MaxWord` over the letters of the texts, the table
  recognises those that the definitions denote, each as the terminals that go first.
- `RefusesUnmatchable`: a terminal in use, or a separator, that no word is read as is refused, and
  what is said of a terminal that is refused is true.
- `LexesByDefinition`: the tokens are the longest lexemes, of a terminal that goes first in some
  context, or repairs where nothing matches; between them are separators or reported errors.
- `RecoversNearby`: a repaired token is within the distance of a word of its terminal.
- `PlacesExact`: the token at an index and the index at a position are found.

### From a grammar to its parser

`Grammars` gives rules, choices (suffixes of a body) and the real axiom; `GrammarSets` unrolls
the loops of `prepare`: a step computes one choice or the followers of one rule, or ends a pass.
`LRGraphs` has the items, one step of `close_to`, the closure as a recursive function and the
children of a state; `LRClosure` is the worklist of `into_state` as a state machine, over the same
operators. `LRConstruction` steps through `build_graph`: states one
by one, then for LALR(1) the propagation table, the passes of propagation, the states closed
again, then the reductions with their conflicts. `ParserGeneration` composes the two, and adds
the inverse graph, the phrases that show a conflict, the context errors and the terminals that
nothing matches.

- `SetsExact` compares FIRSTS and FOLLOWERS with the relations "may begin with" and "may be
  followed by", not with another fixpoint by passes.
- `TransitionsExact`, `KernelsExact` (the propagated LALR(1) kernels are the merged LR(1) ones)
  and `TableSound` relate the graph to the grammar. `PathsExact` and `ErrorsTrue` are about what
  is reported. `ErrorsTrue` compares with recursive operators, so it is in `MCParserGeneration`.
- `KernelsExact` compares with the canonical LR(1) graph of each grammar. That graph is a constant,
  `CanonicalLR1`, and `CanonicalAssumption` says what makes it canonical (`IsCanonical`: the state of
  the axiom followed by the end of input, closed states, the children that the items call for, each
  state reached from one before it). `MCParserGeneration` gives it the graphs that `LRTables` builds,
  and TLC evaluates the assumption on them. The property is about grammars in which every suffix of
  every rule has a FIRST (`HasPhrases`): a variable without phrases has no lookaheads to give, so that
  an LR(1) closure does not enter its rules where an LR(0) one does. The sample grammars all satisfy it.
- The code collects the kernels of the children in a hash map and treats them in the order of
  the symbols; the model numbers the states in a fixed order of the symbols too.
  `PathsExact` is checked for that order and for its reverse.
- Lookaheads are sets of terminals; the origins the code keeps for messages are left out.

`LRGraphs` has the table of the LR(k) parser (`AutomatonOf`), which is read from a graph with its
reductions. `LRTables` makes the graph from a first state (`GraphFrom`), and the automata of both
parsers from grammars, without the steps of the construction. Its
LALR(1) graph merges the
lookaheads of the LR(1) kernels instead of running the propagation: `KernelsExact` is what makes
the two the same. The states are then closed with the closure of the code, its loss of
lookaheads included (see Findings). There are two LR(1) graphs: `LR1Graph` is `get_graph_lr1`, which
gives the item of the axiom no lookahead, and `CanonicalGraph` starts from the end of input, as
`build_graph_lalr1_kernels` does; the lookaheads that are merged are those of the second. So a
RNGLALR(1) automaton has an accepting state, and a RNGLR(1) automaton none (see Findings).

### The LR(k) parser

`LRkParser` is the driver, the tree builder and the store, for any automaton. A reduction takes
one step per op-code (`Prepare`, then `Pop`, `AddVirtual` or `SemanticAction`, then `Reduce`)
because user code sees the state between them. Sub-trees are flat sequences of cells, and
`ReduceTree` packs them in place as the code does. The lexer is open: `NextToken` picks any
terminal. Tokens after an error do not come: the code does not recover.
There is no ACCEPT action in the model: `write_parser_lrk_data_state` writes
`LR_ACTION_CODE_ACCEPT` only in the ε column (parser_data.rs:126), and the lexers end with the
Dollar token and never give ε, so a parse is accepted where the tokens end, after the axiom's
rule has shifted Dollar.

- `ItemsBacked`: the stack is a path of the automaton of the items. This is the invariant that
  makes the unchecked "this must be a shift" (lrk.rs:464, 506) true. `ReductionsFit`: a reduction
  finds its whole body on both stacks, and the state it uncovers has a goto.
- `LRkResults` reads the flat cells as trees and states `BuildsTrees`: the parser implements
  `TreeBuilder`, the abstract specification with plain trees, under a refinement mapping.
  `BodyExact` says that at each step the handle is the body that the op-codes done so far
  describe; this is what a semantic action observes.
- `Ast` is what reads the tree: the walk from a node, the total span of a node, the parent and the
  node of a token, both looked for among the cells. `QueriesExact` compares them with the tree:
  the span of a node is the hull of its tokens although a promoted token comes before its left
  operand, siblings follow each other in the text, and the cells that dropped sub-trees leave do
  not come between. Tokens are one or two characters long with blanks between them.
- `LRkResults` also compares with the words of the grammar, enumerated by `Languages`: acceptance,
  rejection at the first impossible token, and the terminals an error reports. That all the
  expected terminals are reported is claimed of LR(1) tables only: a LALR(1) table may reduce on
  the unexpected token itself, and `build_error` asks the state this leads to.
- `ContextPriority` is the answer to the lexer. `Languages` marks each letter of a word with the
  contexts it is in and how long ago they began; `ChoosesInContext` compares the terminal chosen
  with those that may come there.

### The RNGLR parser

`RNGLRParser` has the graph-structured stack by generations, its edges with their labels, the
queue of reductions and that of shifts. A step is a shift, one path of one reduction, or a token.
`SPPF` has the forest as operators, and the builder with its history of the generation: nodes with
versions, lists in the place of replaceable nodes, promotions, the nullable trees. Two outcomes
that are not an end of the algorithm are states: `panic`, where the code unwraps nothing while
it computes the expected terminals (rnglr.rs:1281), and `hangs`, where that computation has no
end. Both occur after an unexpected token only, which is what `ParsesTheLanguage` claims of them.

A RNGLR(1) parser comes to the end of a sentence in a state that does not accept, and returns
neither a tree nor an error: this is the status `unfinished`.

`RNGLRForests` states that sentences are accepted by RNGLALR(1) parsers, and read to their end by
RNGLR(1) ones (`ParsesTheLanguage`), that the forest of an input that is accepted has
exactly the trees of the derivations with the tree actions applied (`ForestExact`, for grammars
with finitely many), that the lexer is given the terminal that may come (`ChoosesInContext`), and
that the reductions of a generation end although they feed each other (`Terminates`).
`ForestExact` also covers what is made of a forest: the tree that `build_final_ast` takes out of
it has an end in a cyclic grammar too, and is one of the trees; the spans, parents and tokens
that `Sppf` gives are right (its own `QueriesExact`, to `MaxRead` = 5 tokens: a walk comes to a
node as often as there are ways to it, thousands of times with six).

### Language server

`Workspace` has the documents, the compiled data, the lock, the number of workers waiting and
what the client shows. Handlers that take several steps (the scan of `initialize`, a batch of
file events, the publication by a worker) hold the lock across them. A file event reads the file
when it is handled: any content, or a failure that ends the batch and, as in the code, still
runs what the handler does after it. Requests take the read lock and are answered from `data`
with the addresses of `documents`. The compiler is abstracted to what the server tells apart: a
content defines and uses symbols, and may fail to parse or to build.

## 3. Runs

| Run | Instance | Shows |
|---|---|---|
| big_list | chunks of 2, 5 values | both boundaries of a chunk and the growth of the list; no cell skipped; refinement of AppendList |
| inheritance | 3 grammars, any parents among 3 names; 4 with one parent; 16 sets of grammars with rules; 11 with options, 15 tasks | rounds end, complete, report; the words of what is loaded; errors located, files exact |
| lexing | 16 sets of terminals, distances 0, 1 and 2 | definitions, refusals, tokens, repairs, places; both loops end |
| lexing_surrogates | a class with the surrogates in its span | an empty token (finding) |
| lr_closure | the LR kernels of the sample grammars, 3 modes | the worklist stops, complete and without duplicates |
| parser_generation | 12 grammars, 5 methods, phrases to 5 symbols | sets, automaton, propagated kernels, tables, paths, errors; all of it ends |
| lrk_parser | 16 automata of 12 grammars, to 8 tokens | stacks in step, bodies, trees and queries exact, language, error reports, contexts |
| lrk_contexts_lost | a list in a context | a context that is lost (finding) |
| lrk_dropped_list | a dropped list | a list that is not dropped (finding) |
| rnglr | 29 automata (RNGLALR(1) of 23 grammars, RNGLR(1) of 6 of them), to 6 tokens | language, forests, contexts; the reductions end |
| workspace | 2 addresses, 2 notifications, batches of 2 | convergence, answers, diagnostics |
| workspace_answers | 1 notification | a stale answer (finding) |

**Bounds.** `SampleGrammars` are chosen one per difficulty, named in its comments: precedence,
nullable tails, hidden left recursion, an LR(1) grammar that is not LALR(1), the grammar that is
LALR(1) and not SLR, an ambiguity, a cycle, items whose lookaheads come late, shared kernels,
contexts that nest and contexts that begin alike. `SampleTrees` has one grammar per tree action:
promotion twice in a rule and in left and right recursion, lists replaced by their children,
sub-rules replaced by epsilon, virtual symbols and semantic actions, and the same in ambiguities.
Eight tokens make every rule of the LR(k) samples reduce inside every other; six give the
ambiguous ones several splits of a list and a nullable element between two others. Phrases of
five symbols reach each terminal of each sample. Words of `MaxWord` = 3 letters are as long as the
shortest lexeme of each terminal and one more for repetitions; longer lexemes are in the texts.
With `MaxLetters` = 8, marks included, each part of each rule is in some word.
Chunks of two and five values cross two boundaries. Three inputs over three names give cycles of
one, two and three, missing parents, diamonds, and names declared twice. Two notifications are
enough for a change to arrive before, during and after a worker; with two addresses an index can
point to the wrong document or to none. Distances 0 to 2 have no repair, one, and two that
interact.

**Fairness.** The SDK's loops, the parsers and the lexer are sequential programs: their fairness
says only that the program goes on as long as it can, which is weak fairness of the next step
with what enables it written out (`[]<>(done) \/ []<><<step>>_vars`). In `Lexing` a turn that
covers nothing is not counted on, so that `Terminates` would show a lexer that stays where it is.
In `Workspace`, weak fairness of `HandleEvent` and `Work`: a handler that has the lock runs to
its end, and tokio's `RwLock` is fair to those who wait. Nothing forces the client to send
anything. The LR(k) parser has no liveness property: `RNGLRForests` has one, the tokens being
bounded.

**Deadlock** is checked except in `lr_closure`, `parser_generation`, `lexing` and
`lexing_surrogates`, where the modelled function returns and nothing comes after it.

## 4. Findings

Four disagreements have a run of their own:

- **A context is lost (`lrk.rs:428`).** A context is looked for by the symbol above the state that
  opens it. Once the variable that the context begins with is reduced, nothing on the stack
  opens the context any more, and its terminals are said to be unavailable.
- **A dropped list is kept (`lrk.rs:254`).** The action of the rule is not looked at when the
  sub-tree is a list, although "drop" says the node and all its descendants.
- **A lexer that does not advance (`loaders/mod.rs:573`).** A class that spans the surrogates
  matches half a character, of length 0: empty tokens are added for ever.
- **Answers from stale indices (`workspace.rs:553`).** A request served between a deletion and
  its worker names another document, or panics.

What follows was met while modelling; the models have it, and the samples of the passing runs do
not reach it, or the properties say where they stop. Where a definition is named, it shows the
behaviour in the place of the one of the cfg.

- *Contexts.* Only the first of a chain of reductions that closes a context is considered
  (lrk.rs:428-445), and the first token after an empty variable does not open its context
  (lrk.rs:411): `LossyContexts` as the `Automata` of MCLRk.cfg violates `ChoosesInContext`. In the
  RNGLR parser the context of an abandoned parse may stay open on an edge that another shares.
- *Forests.* An ambiguity is lost when a node is promoted, or a list copied, before its second
  version is found, and a virtual symbol that is dropped is kept (rnglr.rs:710): `LossyAutomata`
  as the `Automata` of MCRNGLR.cfg violates `ForestExact`. In a cyclic grammar a promotion may
  put a node below itself in the first versions, and `build_final_ast` (rnglr.rs:950) has no
  end: `CyclicPromotionRules`, one of those grammars. A walk over a cyclic forest (sppf.rs:1146)
  has none either: it does not mark what it has seen. The computation of expected terminals may
  panic (rnglr.rs:1281) or not end. `parser_data.rs` panics when a variable has two rules that
  may be empty.
- *RNGLR(1).* `get_graph_lr1` (lr.rs:1078-1088) gives the item of the axiom no lookahead; only
  `build_graph_lalr1_kernels` (lr.rs:1111-1114) adds ε. A RNGLR(1) graph then has no reduction on ε,
  `parser_data.rs:365` writes ACCEPT in no state, and `parse` (rnglr.rs:1803-1812) commits no root: a
  RNGLR(1) parser reads a sentence to its end and returns nothing. The method is offered
  (`Grammar::get_parsing_method`, himecc). `Follows` says so of `RNGLR1Automata`; `ForestExact` is about the other
  automata. The LR(k) parser never acts on ε, so its LR(1) tables are not concerned.
- *Trees.* `find_node_for` (ast.rs:231) looks through all the cells: the token of a sub-tree that
  was dropped is found in a cell that is not in the tree.
- *LALR(1) closure.* Lookaheads added to an item that was already closed do not reach its
  children (lr.rs:236, 284).
- *Diagnostics.* The errors of contexts are looked for among the children of the state after the
  terminal, first opening only, so some are not reported; example phrases leave out the
  variables that have no terminal; of equal conflicts in several states only the first is kept.
- *Loading.* Grammars that inherit each other are neither loaded nor reported (what
  `ReportsTheMissing` says is that the missing ones are). Options and content that several parents
  have depend on their order; an inline text that two parents have makes `unwrap` panic, so do an
  inherited rule with a context that has no terminal and an unknown argument of a template; a
  template that calls itself with growing arguments never ends; a template that is declared again
  keeps its old parameters and instances. Generated variables of two parents that have one name
  (grammars.rs:1366) are one variable with the rules of both (grammars.rs:1395-1400, 1657-1686):
  `MCInheritance` has a set of grammars where the names differ (with `Grouping`), and one where they
  are the same (with `Alike`) and the words are more than those of the parents. Of two templates of one name, generated or declared, the
  first parent's is kept (grammars.rs:1718-1745).
- *Terminals.* The end of a range of a class beyond plane 0 is cut without an error
  (loaders/mod.rs:577): `LongRangeSource` as the `Sources` of MCLexing.cfg violates
  `RecognisesDefinitions`. A range that ends before it begins stops the program in `CharSpan::new`
  (lib.rs:70-73). A negative class with a range up to U+FFFF takes `span.end + 1` beyond 16 bits
  (loaders/mod.rs:612): the program stops in a build with overflow checks, and in another one the
  class excludes nothing: `ExcludingSource` as the `Sources` violates `RecognisesDefinitions`. `\u` takes eight digits when there are eight. A span that leaves plane
  0 goes on at plane 16 only. A difference of a language with itself accepts the empty word.
- *Lines.* A CR that is followed by VT, FF, U+0085, U+2028 or U+2029 makes one line ending with it
  (text.rs:425-430 keeps the start of the second character only), although the comment above
  (text.rs:397-403) has both as endings; a CR at the very end of a text ends no line. `EndsLine` says
  what the code does, and the text of `Lined` has the case.
- *Repairs.* `on_matching_insertion` compares with `offset - d` (fuzzy.rs:417), 0 - 1 where a matching
  head may insert at the beginning of the input, as after a half character of length 0: a panic in a
  build with overflow checks (`LexPanic`), of no effect otherwise. The first error of a repaired token may be swallowed (fuzzy.rs:210-223):
  `RepairsAreReported` as the invariant of MCLexing.cfg is violated. A token index before the
  first token takes `m - 1` below zero (tokens.rs:167), and so do positions among the blanks that
  head a line (text.rs:297-342).
- *Pipeline.* An input that cannot be read shifts the results of those after it
  (loaders/mod.rs:217-242). Grammars of the same name at the same path overwrite each other's
  files; a test takes the only grammar whatever name was asked for.
- *Server.* The diagnostics of a deleted document stay at the client (workspace.rs:212).

## 5. Proofs

| Module | Theorem | For every |
|---|---|---|
| BigList_proofs | `TypeCorrect`, `ChunksAlwaysFilled`, `IteratesAlways`, `Refinement` | chunk size, value set, bound |
| LRClosure_proofs | `TypeCorrect`, `ItemsAreDistinct`, `ItemsAreComplete`, `LookaheadsAreComplete` | grammar, kernel, mode |
| GrammarSets_proofs | `SetsAreExact` | grammar |
| LRConstruction_proofs | the lemmas on closures, kernels, graphs and tables | grammar, method |
| ParserGeneration_proofs | `SetsAreExact`, `TransitionsAreExact`, `KernelsAreExact`, `TableIsSound`, `PathsAreExact`, `TablesAreRight` | grammar, method, tree actions |
| Inheritance_proofs | `LoadableAreCompleted`, `MissingAreReported` | inputs, whatever the content of a grammar is |
| LRkParser_proofs | `Invariant`, `TypeCorrect`, `StackIsAPath`, `ReductionsAlwaysFit`, `OnlySentencesAreAccepted` | automaton made from rules, input of any length |
| Workspace_proofs | `TypeCorrect`, `DataAlwaysInSync`, `ShownAlwaysInSync`, `AnswersAreRight` | addresses, contents, notifications |

**BigList.** Assumed: `ChunkSize` is positive. `IInv` adds `ChunksFilled` to the types: without
it a push could start a chunk before the last one is full, and index arithmetic would skip
cells. `ChunksFilled` is restated in terms of `pushed`: exactly the cells below the current one are
stored in, so every earlier chunk is full (`NextCell` and `NextChunk` are its two steps). Division and remainder are used through four lemmas (`SplitIndex`, `JoinIndex`,
`DistinctCells`, `BoundIndex`), because the solver does not do nonlinear arithmetic by itself.
`PushRefines` and `SetRefines` show each step to be a step of AppendList, all others stutter.

**LRClosure.** Assumed (`InputsAssumption`): kernels as the code makes them, and an axiom that
no rule refers to, which is true of the real axiom. The completeness properties are about the
end, so `IInv` says what holds midway: for every item before the index (`ItemsDone`,
`BasesDone`), each candidate is in the list or is still in `rest`. In LALR(1) mode only the base
of a candidate is claimed, and rightly so: the lookaheads may be lost (see Findings).

**GrammarSets.** Assumed (`IsPrepared`, for the grammars that the passes are started on): rules over
the symbols of the grammar, the real axiom in no body, and no symbol named as the mark of the empty
word or the dummy lookahead, which are variants of `TerminalRef` in the code and not names. That the sets hold nothing that the rules do not define (`Sound`) is inductive. That they hold
all of it is true only at the end of a pass that changed nothing, so
the invariant says of a pass under way that, unless it has already changed something, the rules
behind its place are satisfied by the sets as they are (`ClosedBehind`, `FollowedBehind`): a set that
grows later in the pass sets the flag, which is what the flag is for. The smallest closed set is the
intersection of all closed sets, so both inclusions are proved without an induction over
derivations.

**LRConstruction, ParserGeneration.** Assumed (`InputGrammarsAssumption`): the inputs are grammars
in the sense above, and (`AxiomAssumption`, for `TablesAreRight` only) their last rule is the one that
`add_real_axiom` adds, with Dollar nowhere else. The lemmas go up from the operators of `LRGraphs`:

- Recursive functions: each has a value up to any number of steps (`Recursion`, from the
  well-foundedness of `<`), and what its base has and its steps preserve holds of every value
  (`StaysIn`).
- The closure is a list of items of the grammar in each mode, the closing going on for as many steps
  as there may be items (`MostItemsIs`, `CloseSteps`, `ClosureShape`). Without lookaheads and in
  LALR(1) mode, no rule is added twice (`TailCount`), so the steps are enough, and the closure has
  exactly the smallest set of bases that contains the kernel's and is closed (`ClosureBases`).
- Kernels are compared as sets of items (`SameKernelIs`), so a state found again is the state
  looked for (`NoTwins`).

`GraphInv` is the shape of what `build_graph` keeps in each of its phases. `TransInv` adds, for
`TransitionsExact`, that the states before the current one have their children and that each child
holds the items moved over its symbol (`LinkedTo`), that this is so for all states in the later
phases (`Automaton`), and, for LALR(1), that the propagation and the second closing change lookaheads only:
the bases of the kernels remain those of the states (`SameBases`). `SoundInv` says that, as long as
no conflict is recorded, the states treated so far have for each terminal the one action that their
items call for; with the graph this is `TableSound`. `SetsInv` carries the result of GrammarSets
through the steps of the construction.

`PathsAreExact` is about what the search of paths returns, on any graph that the builder can hold
and for every order of its transitions (`PathsInAnyOrder`), as the code takes those of a state from a
hash map. A place (a state and the symbol that leads out of it) is entered only once, so there are
no more paths than transitions and each path gets its turn (`SearchEnds`). At the end the states that
some path begins with are closed backwards (`Searched`), but for the first state, at which a path
is reported and not extended. The states that can be reached are those that as many rounds as there
are states arrive at, and no more rounds are needed, for each but the last adds one (`ReachableIs`).
So a state is reported exactly when it can be reached, and by symbols that lead to it. That no
transition leads back to the first state, on which the search counts, is not in the shape of a graph:
it follows from the kernels (`TransInv`: a child's items have a position of at least 1, the first
state's is the axiom at 0).

`KernelsAreExact` is about the LALR(1) lookaheads, which the code finds without an LR(1) graph: it
closes each item of an LR(0) kernel with a dummy lookahead, gives the other lookaheads found to the
children in place, notes in a table where the dummy went, and carries lookaheads along the table until
a pass changes nothing. Assumed besides the above: `CanonicalAssumption`, on the constant to compare
with. The argument:

- *The closure.* With one lookahead per item, the LR(1) closure is the smallest set of items that holds
  the kernel and what its items bring (`ClosureSmallest`). What the dummy brings is what any other
  lookahead brings, with that one put for the dummy (`SubstitutedCandidates`), so the closure of a
  canonical kernel is the union of those of its items with the dummy, after substitution (`PutFrom`,
  `AllPutFrom`).
- *The links.* An `Arrow` leads from an item of a kernel, by an item that its dummy brings, to an
  item of a child. What the code links is exactly the arrows (`LinksAre`), and they do not depend on the
  lookaheads found so far (`ArrowsKept`). That a kernel has no two items of the same base
  (`DifferentBases`) is what lets the code find the item of the child by its base.
- *Nothing wrong.* Every LR(0) state has the bases of some canonical state (`HasTwins`, which needs that a
  new state of the LR(0) graph has the kernel of items moved over a symbol they wait for). A
  lookahead of an item is one of a canonical item of that base in a canonical state of those bases
  (`NoneWrong`), and an arrow leads from such a lookahead to such lookaheads (`ArrowSound`).
- *Nothing missing.* While the table is built, each arrow from a state already treated is in the
  table, if the dummy went along it, or its lookaheads have been given (`LinkedBefore`). During a pass that has changed
  nothing, what is before the index has been carried (`Carried`), so at the end of the last pass all arrows
  have arrived (`Arrived`). The canonical states are then covered one after the other, in the order
  in which they are found, by states of the same bases (`Completeness`, `CanonicalInduction`): this
  is where the order in `IsCanonical` is used.

`LookInv` puts these together by phase. `GivenInv` says that the grammar of the construction is the
one given, its FIRSTS being the ones that `prepare` computed (`StartGiven`), so that the assumption on
the canonical graphs applies to it.

`TablesAreRight` is where the construction meets the parser: the table that is written for the graph of any
grammar by LR(0), LR(1) or LALR(1), with any tree actions (`ActionsOf`: one POP for each symbol of a
body), satisfies the two assumptions that LRkParser makes of the automata it runs. It needs no
absence of conflicts, as what a conflict leaves out of the table is a reduction. `GrownInv` adds what
the graph alone does not say: an item of a state is in its kernel or is brought by another item there
(`Rooted`, by the smallest closure and by the second one of LALR(1)), only the first kernel has
items that have passed nothing (`IsMoved`), and the reductions of a state are by items at their end
(`Reducible`). So an item that has passed something comes over the shift that leads to its state
(`ShiftPassesItems`), and one that has passed nothing, but in the first state, is awaited by its
head there, which has a child (`ItemOrigin`). `TablesAreRight` is proved, and no run checks it: its
parts are assumptions that TLC evaluates on the samples of LRkParser. The RNGLR tables are not
covered.

**Inheritance.** Assumed (`DeclarationsAssumption`): each input has a name and a sequence of names
of parents; of the content of a grammar nothing. The properties say what holds when the loader
returns; `IInv` says what holds in a round. `Placed`: each grammar declared is in one of the three
lists. `Waiting`: a loader that is not complete awaits some parent, and holds what a completed
grammar of the name has for each parent it awaits no more. `Stuck`, as long as the flag is not
set: no loader retained awaits a name that a completed grammar has, which is why a round without
progress is the last. A grammar that is complete has its parents before it in the list, so the
loader at place k can be loaded in k rounds over all grammars at once (`CompletedCanLoad`); the
other inclusion (`LoadableIsCompleted`) is `Stuck` at the end.

**LRkParser.** Assumed (`WellFormed`): a shift leads to a state whose items are one symbol
further, a reduction is by a complete rule, and a state where a rule begins has a goto on its
head, but for the rule of the axiom: an LR(0) table reduces at its end, and the parser never does, as it has
no token to do it on. The samples satisfy it: TLC evaluates the assumption on the tables of `LRTables` in each
run, and `TablesAreRight` proves it of all tables that are generated for this parser. `ItemsBacked` alone is not inductive, since a reduction lasts several steps: `Called`
records that the item of the reduction under way is in the state on top of the stack and that
the uncovered state has the goto, and `Shaped` that flat sub-trees are sequences whose roots
exist, which `Pop` and `Reduce` need.

`OnlySentencesAreAccepted` assumes besides (`FollowsRules`) that the tables are those of the rules: the
items of a state have just passed the symbol that leads to it, the rule of the axiom has two symbols, it
begins in the first state only, Dollar is its second and leads to its end, is no variable, and nothing
leads back to the first state. TLC evaluates this on the same tables, and `TablesAreRight` proves it. What a grammar derives is said by spans of the tokens and not by
words, which would need recursion: a span of a symbol is in every set of spans that holds each
token and, with the spans of a body one after the other, that of its head (`Derives`). The
invariant is `SpellsInv`: the symbols on the stack are those that the items have passed (`Passed`), and
they derive the tokens taken, each from its mark to the next (`IsReading`). By `ItemsBacked` a
reduction then takes off exactly the body of its rule, whose marks are a cut of the span of
its head. At the end the item that is complete (`EndPassed`) has its beginning in the first state,
which is at the bottom only: so the stack is the body of the axiom's rule and nothing else. No
determinism is needed, and nothing is said of the lookaheads: a table with wrong lookaheads may refuse
sentences but accepts no other word.

**Workspace.** Nothing is assumed of the constants. What holds when no worker is left (`Settled`)
is prepared while the worker publishes (`Working`: the data is that of the documents, and each
document is shown or still to publish), and that in turn needs an address to have one document
(`Unique`): with two, the second publication would cover the first. `Starting` says that nothing
is idle while the workspace is scanned. A handler that changes a document leaves a worker behind
it, so that `Idle` is false (`StillBusy`) until it has linted. `Retained` is a recursive function:
that it has a value for every sequence, and what this value holds, is shown by taking the shortest
beginning of the documents for which it would not (`ShortestExample`, from the well-foundedness
of `<`), since the induction theorems of the library are out of the prover's reach.

TLC checks the properties of all theorems but `TablesAreRight` and `IteratesAlways` (an iterator yields the
values in their order) in the runs above.

**Only model-checked.** Termination and convergence: the prover has no fairness. That a canonical LR(1)
graph exists for each grammar, which `CanonicalAssumption` takes for granted: TLC builds those of the
samples. The errors reported (`ErrorsTrue`), the bodies, trees and queries of the LR(k) parser (`BodyExact`,
`BuildsTrees`, `QueriesExact`), the languages of the parsers and their forests (of `ParsesTheLanguage` of
the LR(k) parser the theorem shows that what is accepted is a sentence; that every sentence is
accepted, and a wrong word refused at its first impossible token, TLC shows), the tokens of the
lexers, the words of loaded grammars (`LoadsTheLanguage`): their references are recursive over
words, trees or automata, and induction over data is out of the prover's reach. The pipeline
(`ErrorsLocated`, `OutputsExact`) is checked too: its module composes with the loading of content,
which the prover cannot read.

## 6. Not modelled

- The code generators, `errors/*`, `hime_grammar.rs`, `result.rs`, `symbols.rs`, `errors.rs` and
  `utils/bin.rs`: formatting, messages, generated code and plain data; no state that changes over
  several steps.
- The reading and parsing of inputs and of the command line, and what external tools do: a
  choice of success or failure.
- The views of children, versions and symbols that `Ast` and `Sppf` offer (accessors), and in the
  language server the command `hime.parse`, which tries an input on a clone of a grammar.
- The constant tables of Unicode: three categories and two blocks are taken.
- `symbols.rs` of the language server, symbol by symbol: the server's model takes the definers and
  the users of a symbol.
- The ports of the runtime, the tools around it, the test driver and the release scripts.

## 7. How to run

    tlc -config MCWorkspace.cfg MCWorkspace
    tlapm LRkParser_proofs.tla

Each run of section 3 names its module and its configuration in `PROJECT.json`. A run takes
seconds to a few minutes.
