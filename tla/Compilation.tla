---------------------------- MODULE Compilation -----------------------------
(***************************************************************************)
(* The compiler as it is run (CompilationTask::execute in                  *)
(* src/sdk-rust/src/lib.rs, execute_test in src/himecc/src/main.rs): the    *)
(* inputs are loaded, grammars are selected, built, written and assembled. *)
(*                                                                         *)
(* Whether a grammar builds, a file is written or removed and an external  *)
(* tool succeeds is arbitrary; a file that is partly written is taken to   *)
(* be absent.  The names of the files are those that the name of the       *)
(* grammar gives in the case of each runtime; they are taken to be         *)
(* distinct for distinct names.                                            *)
(***************************************************************************)
EXTENDS LoadedGrammars
LOCAL INSTANCE SequencesExt
LOCAL INSTANCE FiniteSetsExt

\* The tasks with which each set of declarations is compiled, records
\* [target, mode, runtime, path, modifier, method, test]
CONSTANT TasksFor(_)

VARIABLES
    task,      \* the task
    stage,     \* how far it is
    data,      \* LoadedData::grammars
    at,        \* the grammar, or the runtime, that comes next
    built,     \* the BuildData, as [input, method]
    problems,  \* the errors [kind, index, about], `about` being the input concerned
    disk       \* the files [kind, path, name, part, of, from], made of inputs and of their BuildData

taskVars == <<task, stage, data, at, built, problems, disk>>

NotGiven == "not given"
Runtimes == <<"net", "u3d", "java", "rust", "ts">>
Modes == {"sources", "all", "assembly"}
Modifiers == {"internal", "public"}
Methods == {"lr0", "lr1", "lalr1", "rnglr1", "rnglalr1"}

\* get_mode_for, get_output_target_for, get_output_modifier_for, get_output_path_for,
\* Grammar::get_parsing_method: the task, then the grammar, then a default
Chosen(given, options, name, default) ==
    IF given # NotGiven THEN given
    ELSE IF name \in DOMAIN options THEN options[name] ELSE default
ModeFor(options) == Chosen(task.mode, options, "Mode", "sources")
RuntimeFor(options) == Chosen(task.runtime, options, "Runtime", "net")
ModifierFor(options) == Chosen(task.modifier, options, "Modifier", "internal")
PathFor(options) == Chosen(task.path, options, "OutputPath", ".")
MethodFor(options) == Chosen(task.method, options, "Method", "lalr1")

\* get_sources, in the order in which output_grammar_artifacts writes them: a Rust
\* parser is appended to its lexer
Parts(runtime) ==
    CASE runtime = "net" -> <<"Lexer.bin", "Parser.bin", "Lexer.cs", "Parser.cs">>
      [] runtime = "u3d" -> <<"Lexer.bytes", "Parser.bytes", "Unity.Lexer.cs", "Unity.Parser.cs">>
      [] runtime = "java" -> <<"Lexer.bin", "Parser.bin", "Lexer.java", "Parser.java">>
      [] runtime = "rust" -> <<"_lexer.bin", "_parser.bin", ".rs", ".rs">>
      [] runtime = "ts" -> <<".lexer.bin", ".parser.bin", ".lexer.ts", ".parser.ts">>

\* The grammars that are built together have their package at the path of the task
PackagePath == IF task.path # NotGiven THEN task.path ELSE "."

SamePlace(f, g) == <<f.kind, f.path, f.name, f.part>> = <<g.kind, g.path, g.name, g.part>>
Overwritten(files, f) == {g \in files : ~ SamePlace(f, g)} \cup {f}

Problem(kind, k) == [kind |-> kind, index |-> k, about |-> data[k].input]
TaskProblem(kind) == [kind |-> kind, index |-> 0, about |-> 0]
-----------------------------------------------------------------------------
NoTask == [target |-> NotGiven, mode |-> NotGiven, runtime |-> NotGiven,
           path |-> NotGiven, modifier |-> NotGiven, method |-> NotGiven, test |-> FALSE]

CompilationInit ==
    /\ Init
    /\ task = NoTask
    /\ stage = "load"
    /\ data = <<>>
    /\ at = 1
    /\ built = <<>>
    /\ problems = {}
    /\ disk = {}

LoadFails == errors # {} \/ \E k \in DOMAIN completed : completed[k].grammar.errors # {}

Fail(found) == stage' = "failed" /\ problems' = problems \cup found

\* CompilationTask::load, and what it returns to
LoadTask ==
    /\ returned /\ stage = "load"
    /\ task' \in TasksFor(grammars)
    /\ data' = completed
    /\ IF LoadFails THEN Fail({TaskProblem("Loading")})
       ELSE stage' = (IF task'.test THEN "select one" ELSE "select") /\ problems' = problems
    /\ UNCHANGED <<vars, at, built, disk>>

\* execute: the grammars of the name
Select ==
    /\ stage = "select"
    /\ LET named == IF task.target = NotGiven THEN data
                    ELSE SelectSeq(data, LAMBDA l : l.name = task.target)
       IN /\ data' = named
          /\ IF named = <<>> /\ task.target # NotGiven THEN Fail({TaskProblem("GrammarNotFound")})
             ELSE stage' = "build" /\ problems' = problems
    /\ UNCHANGED <<vars, task, at, built, disk>>

\* execute_test: the one grammar, or the first one of the name
SelectOne ==
    /\ stage = "select one"
    /\ LET named == {k \in DOMAIN data : Len(data) = 1 \/ data[k].name = task.target}
       IN IF data = <<>> \/ (Len(data) > 1 /\ task.target = NotGiven)
          THEN Fail({TaskProblem("GrammarNotSpecified")}) /\ at' = at
          ELSE IF named = {} THEN Fail({TaskProblem("GrammarNotFound")}) /\ at' = at
          ELSE stage' = "build one" /\ at' = Min(named) /\ problems' = problems
    /\ UNCHANGED <<vars, task, data, built, disk>>

\* Grammar::build: a method is needed
BuildData(k) == [input |-> data[k].input, method |-> MethodFor(data[k].grammar.options)]
MayBuild(k) == MethodFor(data[k].grammar.options) \in Methods

\* Fault: the grammars are numbered as they are built
Build_ByResults ==
    /\ stage = "build"
    /\ at <= Len(data)
    /\ at' = at + 1
    /\ \/ MayBuild(at) /\ built' = Append(built, BuildData(at)) /\ problems' = problems
       \/ /\ problems' = problems \cup {[kind |-> "Building", index |-> Len(built) + 1, about |-> data[at].input]}
          /\ built' = built
    /\ UNCHANGED <<vars, task, stage, data, disk>>

\* execute_build_grammars, the turn of a grammar
Build ==
    /\ stage = "build"
    /\ at <= Len(data)
    /\ at' = at + 1
    /\ \/ MayBuild(at) /\ built' = Append(built, BuildData(at)) /\ problems' = problems
       \/ problems' = problems \cup {Problem("Building", at)} /\ built' = built
    /\ UNCHANGED <<vars, task, stage, data, disk>>

\* What follows when the grammars, or the runtimes, are through
Through(last, next) ==
    /\ at > last
    /\ at' = 1
    /\ stage' = IF problems = {} THEN next ELSE "failed"
    /\ UNCHANGED <<vars, task, data, built, problems, disk>>

BuildDone == stage = "build" /\ Through(Len(data), "artifacts")

\* build_in_memory_grammar: tables for the method of the grammar, and nothing on the disk
InMemory(k) == <<BuildData(k)>>

\* generate_in_memory, in execute_test
BuildOne ==
    /\ stage = "build one"
    /\ \/ MayBuild(at) /\ stage' = "ok" /\ built' = InMemory(at) /\ problems' = problems
       \/ Fail({Problem("Building", at)}) /\ built' = built
    /\ UNCHANGED <<vars, task, data, at, disk>>
-----------------------------------------------------------------------------
Sources(k) ==
    LET options == data[k].grammar.options
        parts == Parts(RuntimeFor(options))
    IN [n \in DOMAIN parts |-> [kind |-> "source", path |-> PathFor(options), name |-> data[k].name,
                                part |-> parts[n], of |-> {data[k].input}, from |-> {built[k]}]]

InvalidOption(options) ==
    \/ ModeFor(options) \notin Modes
    \/ RuntimeFor(options) \notin ToSet(Runtimes)
    \/ ModifierFor(options) \notin Modifiers

\* output_grammar_artifacts: it stops at the first file that cannot be written
OutputGrammarArtifacts ==
    /\ stage = "artifacts"
    /\ at <= Len(data)
    /\ at' = at + 1
    /\ IF InvalidOption(data[at].grammar.options)
       THEN problems' = problems \cup {Problem("InvalidOption", at)} /\ disk' = disk
       ELSE LET sources == Sources(at)
            IN \E n \in 0 .. Len(sources) :
                /\ disk' = FoldLeft(Overwritten, disk, SubSeq(sources, 1, n))
                /\ problems' = IF n = Len(sources) THEN problems
                               ELSE problems \cup {TaskProblem("Writing")}
    /\ UNCHANGED <<vars, task, stage, data, built>>

ArtifactsDone == stage = "artifacts" /\ Through(Len(data), "assemblies")

\* gather_grammars_for_assembly
Units(runtime) ==
    {k \in DOMAIN data : /\ RuntimeFor(data[k].grammar.options) = runtime
                         /\ ModeFor(data[k].grammar.options) \in {"assembly", "all"}}

\* The files of an assembly, in the order in which they are copied
AssemblyParts(runtime) == IF runtime = "rust" THEN <<"library", "crate">> ELSE <<runtime>>

Assembly(units, runtime) ==
    LET one == CHOOSE k \in units : TRUE
        sources == UNION {ToSet(Sources(k)) : k \in units}
        alone == Cardinality(units) = 1
        parts == AssemblyParts(runtime)
    IN [n \in DOMAIN parts |->
        [kind |-> "assembly", path |-> IF alone THEN PathFor(data[one].grammar.options) ELSE PackagePath,
         name |-> IF alone THEN data[one].name ELSE "Parsers",
         part |-> parts[n], of |-> {data[k].input : k \in units},
         from |-> UNION {f.from : f \in {g \in disk : \E source \in sources : SamePlace(source, g)}}]]

\* Fault: the sources go whatever the mode
Deleted_Always(k) == ToSet(Sources(k))

\* delete_sources: which files of a unit are removed
Deleted(k) == IF ModeFor(data[k].grammar.options) = "assembly" THEN ToSet(Sources(k)) ELSE {}

\* build_assembly fails before its files are copied, between them, or after them all,
\* when its temporary folder cannot be removed: the sources then stay
BuildAssemblyFails(files, sources) ==
    \E n \in 0 .. Len(files) :
        /\ n > 0 => sources
        /\ disk' = FoldLeft(Overwritten, disk, SubSeq(files, 1, n))
        /\ problems' = problems \cup {TaskProblem("Assembling")}

\* execute_output_assembly, with delete_sources: each file may be one that cannot be
\* removed
ExecuteOutputAssembly ==
    /\ stage = "assemblies"
    /\ at <= Len(Runtimes)
    /\ at' = at + 1
    /\ LET units == Units(Runtimes[at])
           files == Assembly(units, Runtimes[at])
           sources == \A f \in UNION {ToSet(Sources(k)) : k \in units} : \E g \in disk : SamePlace(f, g)
           deleted == UNION {Deleted(k) : k \in units}
       IN \/ units = {} /\ UNCHANGED <<disk, problems>>
          \/ units # {} /\ BuildAssemblyFails(files, sources)
          \/ /\ units # {} /\ sources
             /\ \E kept \in SUBSET deleted :
                  /\ disk' = FoldLeft(Overwritten, disk, files) \ (deleted \ kept)
                  /\ problems' = IF kept = {} THEN problems ELSE problems \cup {TaskProblem("Removing")}
    /\ UNCHANGED <<vars, task, stage, data, built>>

AssembliesDone == stage = "assemblies" /\ Through(Len(Runtimes), "ok")

CompilationNext ==
    \/ Next /\ UNCHANGED taskVars
    \/ LoadTask
    \/ Select \/ SelectOne
    \/ Build \/ BuildOne \/ BuildDone
    \/ OutputGrammarArtifacts \/ ArtifactsDone
    \/ ExecuteOutputAssembly \/ AssembliesDone

CompilationSpec == CompilationInit /\ [][CompilationNext]_<<vars, taskVars>> /\ Fairness
-----------------------------------------------------------------------------
\* An error leads to what it is about: its index, into the grammars that are returned
\* with it, is that of the grammar that failed, although the named ones were selected
\* among those loaded; and no grammar that could not be built goes without one.
ErrorsLocated ==
    /\ \A p \in problems : p.index # 0 => p.index \in DOMAIN data /\ data[p.index].input = p.about
    /\ stage = "artifacts" => built = [k \in DOMAIN data |-> BuildData(k)]
    /\ stage = "build" =>
            \A k \in 1 .. at - 1 : BuildData(k) \in ToSet(built) \/ Problem("Building", k) \in problems

\* The value of an option for a grammar: its own, or else that of its last parent
\* that has one
RECURSIVE OptionOf(_, _)
OptionOf(i, name) ==
    LET own == grammars[i].source.options
        parent(n) == CHOOSE j \in DOMAIN grammars : grammars[j].name = n
        parents == grammars[i].parents
        having == {k \in DOMAIN parents : OptionOf(parent(parents[k]), name) # {}}
    IN IF name \in DOMAIN own THEN {own[name]}
       ELSE IF having = {} THEN {} ELSE OptionOf(parent(parents[Max(having)]), name)

Setting(i, given, name, default) ==
    IF given # NotGiven THEN given
    ELSE IF OptionOf(i, name) = {} THEN default ELSE CHOOSE v \in OptionOf(i, name) : TRUE

DataMeant(i) == [input |-> i, method |-> Setting(i, task.method, "Method", "lalr1")]

SourcesMeant(i) ==
    {[kind |-> "source", path |-> Setting(i, task.path, "OutputPath", "."), name |-> grammars[i].name,
      part |-> part, of |-> {i}, from |-> {DataMeant(i)}] : part \in ToSet(Parts(Setting(i, task.runtime, "Runtime", "net")))}

AssemblyMeant(together, runtime) ==
    LET one == CHOOSE i \in together : TRUE
        alone == Cardinality(together) = 1
    IN {[kind |-> "assembly",
         path |-> IF alone THEN Setting(one, task.path, "OutputPath", ".") ELSE PackagePath,
         name |-> IF alone THEN grammars[one].name ELSE "Parsers",
         part |-> part, of |-> together, from |-> {DataMeant(i) : i \in together}] :
            part \in ToSet(AssemblyParts(runtime))}

\* Once all is written, each grammar has its own sources, or is in an assembly all the
\* files of which are there: they are removed for no other reason, whatever fails.
\* After a success, the files are those that the options ask for, the grammar's, the
\* inherited and the task's, made from the data of their own grammars by the method
\* asked for, and there is no other; a test leaves none, and its parser is that of the
\* only grammar or of the one named.
OutputsExact ==
    LET inputs == {data[k].input : k \in DOMAIN data}
        mode(i) == Setting(i, task.mode, "Mode", "sources")
        runtime(i) == Setting(i, task.runtime, "Runtime", "net")
        assembled(r) == {i \in inputs : runtime(i) = r /\ mode(i) \in {"assembly", "all"}}
        assembliesMeant ==
            UNION {AssemblyMeant(assembled(r), r) : r \in {r \in ToSet(Runtimes) : assembled(r) # {}}}
    IN /\ stage = "assemblies" =>
            \A i \in inputs :
                \/ SourcesMeant(i) \subseteq disk
                \/ mode(i) = "assembly" /\ AssemblyMeant(assembled(runtime(i)), runtime(i)) \subseteq disk
       /\ stage = "ok" =>
            IF task.test
            THEN /\ disk = {}
                 /\ \E i \in inputs : /\ built = <<DataMeant(i)>>
                                      /\ inputs = {i} \/ grammars[i].name = task.target
            ELSE disk = assembliesMeant
                        \cup UNION {SourcesMeant(i) : i \in {j \in inputs : mode(j) # "assembly"}}
=============================================================================
