---------------------------- MODULE MCInheritance ----------------------------
(***************************************************************************)
(* Every declaration of up to MaxGrammars grammars over the names, and of  *)
(* one more when each has at most one parent: duplicate names, missing     *)
(* parents, chains against the order of the inputs, diamonds and cycles;   *)
(* and declarations with terminals and rules.                              *)
(***************************************************************************)
EXTENDS Compilation

CONSTANTS MaxGrammars, A, B, C

NoSource == [options |-> <<>>, terminals |-> <<>>, rules |-> <<>>]
Declared(parents) == [name : Names, parents : parents, source : {NoSource}]
OnlyChildren == Declared({<<>>} \cup {<<n>> : n \in Names})
Families == Declared({<<>>, <<A>>, <<B>>, <<C>>, <<A, B>>, <<A, C>>, <<B, C>>, <<A, B, C>>})

Abstract ==
    UNION {[1 .. n -> Families] : n \in 1 .. MaxGrammars}
    \cup [1 .. MaxGrammars + 1 -> OnlyChildren]
-----------------------------------------------------------------------------
\* The definitions
Leaf(k, n) == [k |-> k, name |-> <<n>>]
Ref(n) == Leaf("ref", n)
Text(n) == Leaf("text", n)
Act(n) == Leaf("action", n)
Virtual(n) == Leaf("virtual", n)
Call(n, args) == [k |-> "call", name |-> <<n>>, args |-> args]
Of(k, d) == [k |-> k, of |-> d]
In(context, d) == [k |-> "context", name |-> <<context>>, of |-> d]
Cat(l, r) == [k |-> "concat", left |-> l, right |-> r]
Or(l, r) == [k |-> "union", left |-> l, right |-> r]
Nothing == [k |-> "empty"]

Terminal(n) == [name |-> <<n>>, context |-> <<"__default">>]
TerminalIn(context, n) == [name |-> <<n>>, context |-> <<context>>]
Define(n, d) == [name |-> <<n>>, params |-> <<>>, d |-> d]
Template(n, params, d) == [name |-> <<n>>, params |-> params, d |-> d]
Grammar(name, parents, terminals, rules) ==
    [name |-> name, parents |-> parents, source |-> [options |-> <<>>, terminals |-> terminals, rules |-> rules]]

\* Repetitions, options, sub-rules, tree actions and a context; recursion
Base == Grammar(A, <<>>, <<Terminal("a"), Terminal("b"), TerminalIn("ctx", "c")>>,
    <<Define("S", Cat(Of("drop", Ref("a")),
                      Cat(Of("zeromore", Or(Of("promote", Ref("b")), Text("x"))),
                          Of("optional", Ref("T"))))),
      Define("T", Or(Of("sub", Cat(Ref("a"), Ref("b"))), Cat(Act("act"), Of("drop", Virtual("v"))))),
      Define("U", Cat(In("ctx", Or(Ref("c"), Cat(Ref("a"), Ref("U")))), Text("x"))),
      Define("V", Or(Of("promote", Cat(Of("onemore", Ref("a")), Ref("b"))), Nothing))>>)

\* A rule more for a variable that is inherited, and what it defines used again
Child == Grammar(B, <<A>>, <<Terminal("d")>>,
    <<Define("S", Cat(Ref("d"), Ref("S"))),
      Define("W", Cat(In("ctx", Ref("V")), Of("zeromore", Cat(Text("x"), Ref("d")))))>>)

\* A second parent with terminals, variables and texts of its own
Other == Grammar(C, <<>>, <<Terminal("e")>>,
    <<Define("X", Or(Cat(Ref("e"), Ref("X")), Text("y"))), Define("S", Text("z"))>>)
Both == Grammar(B, <<A, C>>, <<>>, <<Define("Y", Or(Ref("S"), Ref("X")))>>)
BothReversed == [Both EXCEPT !.parents = <<C, A>>]

\* Parents that have generated variables, and two of them one of the same name
Repeating == Grammar(A, <<>>, <<Terminal("a")>>, <<Define("S", Of("zeromore", Ref("a")))>>)
Grouping == Grammar(C, <<>>, <<Terminal("d"), TerminalIn("ctx", "e")>>,
    <<Define("X", Cat(Of("sub", Ref("d")), In("ctx", Cat(Ref("e"), Text("y")))))>>)
Alike == Grammar(C, <<>>, <<Terminal("d")>>, <<Define("X", Of("onemore", Ref("d")))>>)
Gathering == Grammar(B, <<A, C>>, <<>>, <<Define("Y", Or(Cat(Ref("X"), Ref("S")), Of("onemore", Text("z"))))>>)

\* Templates with repetitions and a sub-rule, that call another
Templates == Grammar(A, <<>>, <<Terminal("a"), Terminal("b"), TerminalIn("ctx", "c")>>,
    <<Template("list", <<<<"X">>>>, Cat(Ref("X"), Of("zeromore", Cat(Of("drop", Text(",")), Ref("X"))))),
      Template("pair", <<<<"X">>, <<"Y">>>>,
               Cat(Of("promote", Ref("X")), Of("sub", Or(Ref("Y"), Of("onemore", Call("list", <<Ref("Y")>>)))))),
      Define("S", Call("pair", <<Ref("a"), Ref("b")>>)),
      Define("T", Or(Call("pair", <<Ref("b"), Text("x")>>), Call("list", <<Call("list", <<Ref("b")>>)>>)))>>)

\* A template that calls itself, and one with a context
Recursive == Grammar(C, <<>>, <<Terminal("a"), Terminal("b"), TerminalIn("ctx", "c")>>,
    <<Template("nest", <<<<"X">>>>, Or(Ref("X"), Cat(Text("("), Cat(Call("nest", <<Ref("X")>>), Text(")"))))),
      Template("opt", <<<<"X">>>>, Or(Of("optional", Ref("X")), In("ctx", Ref("b")))),
      Define("U", Or(Call("nest", <<Ref("a")>>), Ref("b"))),
      Define("V", Cat(Call("opt", <<Call("nest", <<Ref("U")>>)>>), Call("opt", <<Virtual("v")>>)))>>)

\* Templates and instances that are inherited
Heir == Grammar(B, <<A>>, <<Terminal("d")>>,
    <<Define("W", Call("list", <<Ref("d")>>)),
      Define("S", Call("list", <<Ref("a")>>)),
      Template("twice", <<<<"Z">>>>, Cat(Call("list", <<Ref("Z")>>), Ref("Z"))),
      Define("Y", Or(Call("twice", <<Ref("a")>>), Call("pair", <<Ref("d"), Ref("W")>>)))>>)
HeirOfRecursive == Grammar(B, <<C>>, <<Terminal("d")>>,
    <<Define("W", Call("nest", <<Ref("d")>>)), Define("Y", Call("opt", <<Ref("U")>>))>>)

\* References that nothing defines, in a rule and in a template
Broken == Grammar(C, <<A>>, <<Terminal("d")>>,
    <<Define("W", Or(Cat(Ref("d"), Ref("nowhere")), Ref("d"))),
      Template("bad", <<<<"X">>>>, Or(Ref("X"), Ref("neither"))),
      Define("S", Of("onemore", Call("bad", <<Ref("d")>>)))>>)

Top == Grammar(C, <<B, A>>, <<>>, <<Define("Top", Or(Ref("S"), Ref("W")))>>)

Written ==
    {<<Repeating, Grouping, Gathering>>, <<Repeating, Alike, Gathering>>,
     <<Base>>, <<Child, Base>>, <<Base, Other, Both>>, <<BothReversed, Base, Other>>,
     <<Recursive>>, <<HeirOfRecursive, Recursive>>, <<Templates>>, <<Heir, Templates>>, <<Broken, Templates>>, <<Broken, Base>>,
     <<Top, Child, Base>>, <<Top, Templates, Heir>>, <<Base, Child, Broken>>, <<Heir, Other, Child>>}

-----------------------------------------------------------------------------
\* Grammars with options, to be compiled
With(name, parents, options) ==
    [name |-> name, parents |-> parents, source |-> [options |-> options, terminals |-> <<>>, rules |-> <<>>]]

Packaged == With(A, <<>>, [Mode |-> "assembly", Runtime |-> "rust", OutputPath |-> "out", Method |-> "rnglalr1"])
Packed == With(B, <<A>>, <<>>)
Apart == With(B, <<A>>, [OutputPath |-> "apart", Mode |-> "all"])
Plain == With(C, <<>>, [Modifier |-> "public", Method |-> "lr1"])
ForJava == With(C, <<A, B>>, [Runtime |-> "java"])
Namesake == With(C, <<>>, [OutputPath |-> "other", Mode |-> "assembly"])
Wrong(option) == With(C, <<>>, option)

Compiled ==
    {<<Packaged>>, <<Packed, Packaged>>, <<Plain, Packed, Packaged>>, <<Packaged, Apart>>,
     <<ForJava, Packaged, Apart>>, <<Plain, Namesake, Packaged>>, <<Plain, Packed>>,
     <<Packaged, Wrong([Mode |-> "x"])>>, <<Packaged, Wrong([Runtime |-> "x"])>>,
     <<Wrong([Modifier |-> "x"]), Packaged>>, <<Packaged, Wrong([Method |-> "x"])>>}

Tasks ==
    {[NoTask EXCEPT !.target = n, !.mode = m] : n \in {NotGiven, B, C}, m \in {NotGiven, "assembly", "all"}}
    \cup {[NoTask EXCEPT !.target = n, !.test = TRUE] : n \in {NotGiven, A, C}}
    \cup {[NoTask EXCEPT !.runtime = r, !.method = "lr0"] : r \in {"ts", "u3d"}}
    \cup {[NoTask EXCEPT !.path = "there", !.modifier = "internal", !.mode = "assembly"]}

\* Two grammars of the same name at the same path would write the same files
TasksOf(declared) ==
    IF \A k \in DOMAIN declared : DOMAIN declared[k].source.options = {} THEN {}
    ELSE {t \in Tasks : t.path = NotGiven \/ Namesake \notin {declared[k] : k \in DOMAIN declared}}

MCDeclarations == Abstract \cup Written \cup Compiled
=============================================================================
