--------------------------- MODULE GrammarLoading ---------------------------
(***************************************************************************)
(* How a grammar is filled: by what it inherits and by the rules of its    *)
(* source (loaders/mod.rs, grammars.rs).                                   *)
(*                                                                         *)
(* A name is a tuple of strings; the names that the code generates carry   *)
(* the symbol identifier they were made from.  A symbol is [kind, name]:   *)
(* within a table of a grammar a name stands for an identifier.            *)
(* A definition is a tree of records, see the operators below.             *)
(***************************************************************************)
EXTENDS Integers, Sequences
LOCAL INSTANCE SequencesExt

Sym(kind, name) == [kind |-> kind, name |-> name]
NoSymbol == Sym("none", <<>>)

NewGrammar ==
    [nextSid |-> 3, options |-> <<>>, contexts |-> <<<<"__default">>>>, terminals |-> <<>>, variables |-> <<>>,
     virtuals |-> <<>>, actions |-> <<>>, templates |-> <<>>, errors |-> {}, panics |-> FALSE]

Named(table, name) == {k \in DOMAIN table : table[k].name = name}
Place(table, name) == CHOOSE k \in Named(table, name) : \A j \in Named(table, name) : k <= j
TheOne(table, name) == table[Place(table, name)]
WithError(g, kind, name) == [g EXCEPT !.errors = @ \cup {<<kind, name>>}]

\* add_option, inherit_options: the later value replaces the earlier one
WithOptions(options, more) ==
    [name \in DOMAIN options \cup DOMAIN more |-> IF name \in DOMAIN more THEN more[name] ELSE options[name]]

\* get_symbol
GetSymbol(g, name) ==
    IF Named(g.terminals, name) # {} THEN Sym("terminal", name)
    ELSE IF Named(g.variables, name) # {} THEN Sym("variable", name)
    ELSE IF Named(g.virtuals, name) # {} THEN Sym("virtual", name)
    ELSE IF Named(g.actions, name) # {} THEN Sym("action", name)
    ELSE NoSymbol

\* add_variable, add_virtual, add_action
AddVariable(g, name) ==
    IF Named(g.variables, name) # {} THEN g
    ELSE [g EXCEPT !.variables = Append(@, [name |-> name, rules |-> <<>>]), !.nextSid = @ + 1]
AddVirtual(g, name) ==
    IF Named(g.virtuals, name) # {} THEN g
    ELSE [g EXCEPT !.virtuals = Append(@, [name |-> name]), !.nextSid = @ + 1]
AddAction(g, name) ==
    IF Named(g.actions, name) # {} THEN g
    ELSE [g EXCEPT !.actions = Append(@, [name |-> name]), !.nextSid = @ + 1]

\* generate_variable, generate_template_rule: the name of the next one
GeneratedName(g) == <<"__V", g.nextSid>>

\* resolve_context: its index
ContextOf(g, name) == CHOOSE c \in DOMAIN g.contexts : g.contexts[c] = name
ResolveContext(g, name) ==
    IF \E c \in DOMAIN g.contexts : g.contexts[c] = name THEN g
    ELSE [g EXCEPT !.contexts = Append(@, name)]

\* add_terminal
AddTerminal(g, name, value, context) ==
    [g EXCEPT !.terminals = Append(@, [name |-> name, value |-> value, context |-> context]),
              !.nextSid = @ + 1]

\* add_terminal_anonymous, unless a terminal has the value; names are unique over
\* all grammars
TextTerminal(g, owner, value) ==
    IF \E k \in DOMAIN g.terminals : g.terminals[k].value = value THEN g
    ELSE AddTerminal(g, <<"__T", owner, g.nextSid>>, value, 1)
TerminalOf(g, value) ==
    LET found == {k \in DOMAIN g.terminals : g.terminals[k].value = value}
    IN Sym("terminal", g.terminals[CHOOSE k \in found : \A j \in found : k <= j].name)

\* add_rule: a rule is told from the others by its body
WithRule(rules, rule) ==
    IF \E k \in DOMAIN rules : rules[k].body = rule.body THEN rules ELSE Append(rules, rule)

AddRules(g, name, rules) ==
    [g EXCEPT !.variables[Place(g.variables, name)].rules = FoldLeft(WithRule, @, rules)]
AppendRules(g, name, rules) ==
    [g EXCEPT !.variables[Place(g.variables, name)].rules = @ \o rules]
-----------------------------------------------------------------------------
(***************************************************************************)
(* Sets of bodies: BodySet.  A body is a sequence of [symbol, action].     *)
(***************************************************************************)
Empty == <<<<>>>>
Single(symbol) == <<<<[symbol |-> symbol, action |-> "NONE"]>>>>
Product(left, right) ==
    FlattenSeq([l \in DOMAIN left |-> [r \in DOMAIN right |-> left[l] \o right[r]]])
Applied(bodies, action) ==
    [b \in DOMAIN bodies |-> [e \in DOMAIN bodies[b] |-> [bodies[b][e] EXCEPT !.action = action]]]

\* The bodies of the variable ref that stands for a repetition
Repeated(ref, bodies) == bodies \o Product(Single(ref), bodies)

RulesOfBodies(bodies, headAction, context) ==
    [b \in DOMAIN bodies |-> [headAction |-> headAction, body |-> bodies[b], context |-> context]]
-----------------------------------------------------------------------------
(***************************************************************************)
(* Template rules: [name, params, headAction, context, bodies, instances], *)
(* an instance being [arguments, head].  A symbol of their bodies may also *)
(* be a parameter or a call of a template.                                 *)
(***************************************************************************)
Parameter(k) == [kind |-> "parameter", index |-> k]
CallOf(name, arguments) == [kind |-> "template", name |-> name, arguments |-> arguments]

\* add_template_rule: the one that is there is kept with its parameters
AddTemplate(g, name, params) ==
    IF Named(g.templates, name) # {} THEN g
    ELSE [g EXCEPT !.templates = Append(@, [name |-> name, params |-> params, headAction |-> "NONE",
                                            context |-> 1, bodies |-> <<>>, instances |-> <<>>])]

OnTemplate(g, name, new) == [g EXCEPT !.templates[Place(g.templates, name)] = new]

\* Fault: an instance for any arguments
InstancesFor_Any(template, arguments) == DOMAIN template.instances

InstancesFor(template, arguments) ==
    {k \in DOMAIN template.instances : template.instances[k].arguments = arguments}

\* [g, symbols]: a grammar and the symbols found so far
WithSymbol(next, symbols) == [g |-> next.g, symbols |-> Append(symbols, next.symbol)]
Started(g) == [g |-> g, symbols |-> <<>>]

\* The head of an instance; it is registered before its bodies are instantiated, so
\* that they may call it
InstanceHead(name, arguments) == <<"<>", name, [a \in DOMAIN arguments |-> arguments[a].name]>>
WithInstance(g, name, arguments) ==
    OnTemplate(AddVariable(g, InstanceHead(name, arguments)), name,
               [TheOne(g.templates, name) EXCEPT !.instances =
                    Append(@, [arguments |-> arguments, head |-> InstanceHead(name, arguments)])])

WithBody(done, body, bodies) ==
    [g |-> done.g,
     bodies |-> Append(bodies, [e \in DOMAIN body |-> [body[e] EXCEPT !.symbol = done.symbols[e]]])]

\* The head of a template that has been instantiated, with its rules
Instance(done, template, arguments) ==
    [g |-> AppendRules(done.g, InstanceHead(template.name, arguments),
                       RulesOfBodies(done.bodies, template.headAction, template.context)),
     symbol |-> Sym("variable", InstanceHead(template.name, arguments))]

RECURSIVE InstantiateSymbol(_, _, _)
RECURSIVE Instantiate(_, _)

\* instantiate_template_symbol: [g, symbol], in an instance with arguments
InstantiateSymbol(g, arguments, symbol) ==
    CASE symbol.kind = "parameter" -> [g |-> g, symbol |-> arguments[symbol.index]]
      [] symbol.kind = "template" ->
            Instantiate(FoldLeft(LAMBDA done, inner :
                                    WithSymbol(InstantiateSymbol(done.g, arguments, inner), done.symbols),
                                 Started(g), symbol.arguments),
                        symbol.name)
      [] OTHER -> [g |-> g, symbol |-> symbol]

\* instantiate_template_rule_at, for the symbols that are given as arguments
Instantiate(given, name) ==
    LET template == TheOne(given.g.templates, name)
        known == InstancesFor(template, given.symbols)
    IN IF known # {}
       THEN [g |-> given.g, symbol |-> Sym("variable",
                    template.instances[CHOOSE k \in known : \A j \in known : k <= j].head)]
       ELSE Instance(
            FoldLeft(LAMBDA done, body :
                        WithBody(FoldLeft(LAMBDA inner, element :
                                    WithSymbol(InstantiateSymbol(inner.g, given.symbols, element.symbol),
                                               inner.symbols),
                                    Started(done.g), body),
                                 body, done.bodies),
                     [g |-> WithInstance(given.g, name, given.symbols), bodies |-> <<>>],
                     template.bodies),
            template, given.symbols)
-----------------------------------------------------------------------------
(***************************************************************************)
(* The walk of a definition: the grammar that it leaves, and the bodies.   *)
(* Definitions are [k |-> "ref", "text", "action", "virtual", name], calls *)
(* [k |-> "call", name, args], [k |-> "concat", "union", left, right],     *)
(* [k |-> "optional", "zeromore", "onemore", "promote", "drop", "sub", of],*)
(* [k |-> "context", name, of] and [k |-> "empty"].                        *)
(***************************************************************************)
Atoms == {"ref", "text", "action", "virtual", "call"}
Groups == {"context", "sub", "zeromore", "onemore"}
Loaded(g, bodies) == [g |-> g, bodies |-> bodies]
HeadActionOf(d) == IF d.k = "sub" THEN "REPLACE_BY_EPSILON" ELSE "REPLACE_BY_CHILDREN"

\* The bodies of a definition that is read in two parts, or in one
Joined(k, left, right) ==
    Loaded(right.g, IF k = "union" THEN left \o right.bodies ELSE Product(left, right.bodies))
Changed(k, inner) ==
    Loaded(inner.g, CASE k = "optional" -> inner.bodies \o Empty
                      [] k = "promote" -> Applied(inner.bodies, "PROMOTE")
                      [] k = "drop" -> Applied(inner.bodies, "DROP"))

\* The arguments of a call: the symbol of each of them
WithArgument(next, symbols) ==
    [g |-> next.g, symbols |-> Append(symbols, next.bodies[1][1].symbol)]

\* The error of a call, if any
NotCalled(g, d) ==
    IF Named(g.templates, d.name) = {} THEN {"TemplateRuleNotFound"}
    ELSE IF Len(TheOne(g.templates, d.name).params) # Len(d.args)
    THEN {"TemplateRuleWrongNumberOfArgs"} ELSE {}

\* load_simple_rule_atomic_*; owner is the input that is loaded
LoadedText(g, value) == Loaded(g, Single(TerminalOf(g, value)))
SimpleAtom(g, owner, d) ==
    CASE d.k = "action" -> Loaded(AddAction(g, d.name), Single(Sym("action", d.name)))
      [] d.k = "virtual" -> Loaded(AddVirtual(g, d.name), Single(Sym("virtual", d.name)))
      [] d.k = "text" -> LoadedText(TextTerminal(g, owner, d.name), d.name)
      [] d.k = "ref" -> IF GetSymbol(g, d.name) = NoSymbol
                        THEN Loaded(WithError(g, "SymbolNotFound", d.name), <<>>)
                        ELSE Loaded(g, Single(GetSymbol(g, d.name)))

\* load_simple_rule_atomic_template_ref: the call is instantiated
LoadedInstance(instance) == Loaded(instance.g, Single(instance.symbol))
SimpleCall(given, d) ==
    IF NotCalled(given.g, d) = {} THEN LoadedInstance(Instantiate(given, d.name))
    ELSE Loaded(WithError(given.g, CHOOSE e \in NotCalled(given.g, d) : TRUE, d.name), <<>>)

\* load_simple_rule_context, _sub_rule, _zero_or_more, _one_or_more: a variable more
WithContextOf(g, d) == IF d.k = "context" THEN ResolveContext(g, d.name) ELSE g
ContextIn(g, d) == IF d.k = "context" THEN ContextOf(g, d.name) ELSE 1
GroupBodies(d, ref, bodies) == IF d.k \in {"zeromore", "onemore"} THEN Repeated(ref, bodies) ELSE bodies
LoadedGroup(g, d, ref) == Loaded(g, IF d.k = "zeromore" THEN Empty \o Single(ref) ELSE Single(ref))

SimpleGroup(d, inner) ==
    LET name == GeneratedName(inner.g)
        ref == Sym("variable", name)
    IN LoadedGroup(AddRules(AddVariable(inner.g, name), name,
                            RulesOfBodies(GroupBodies(d, ref, inner.bodies), HeadActionOf(d),
                                          ContextIn(inner.g, d))),
                   d, ref)

\* load_simple_rule_definitions
RECURSIVE LoadSimple(_, _, _)
RECURSIVE LoadSimpleRight(_, _, _)
LoadSimpleRight(left, owner, d) == Joined(d.k, left.bodies, LoadSimple(left.g, owner, d.right))

LoadSimple(g, owner, d) ==
    CASE d.k = "empty" -> Loaded(g, Empty)
      [] d.k = "call" ->
            SimpleCall(FoldLeft(LAMBDA done, arg :
                                    WithArgument(LoadSimple(done.g, owner, arg), done.symbols),
                                Started(g), d.args), d)
      [] d.k \in Atoms -> SimpleAtom(g, owner, d)
      [] d.k \in Groups -> SimpleGroup(d, LoadSimple(WithContextOf(g, d), owner, d.of))
      [] d.k \in {"union", "concat"} -> LoadSimpleRight(LoadSimple(g, owner, d.left), owner, d)
      [] OTHER -> Changed(d.k, LoadSimple(g, owner, d.of))

\* load_simple_rule
WithRules(loaded, name) == AddRules(loaded.g, name, RulesOfBodies(loaded.bodies, "NONE", 1))
LoadSimpleRule(g, owner, rule) == WithRules(LoadSimple(g, owner, rule.d), rule.name)
-----------------------------------------------------------------------------
\* load_template_rule_atomic_inline_text: the terminal comes with the template, were it
\* never called
TemplateText(g, owner, value) == LoadedText(TextTerminal(g, owner, value), value)

\* load_template_rule_atomic_simple_ref, and those that are loaded as in a rule
TemplateAtom(g, owner, params, d) ==
    LET places == {k \in DOMAIN params : params[k] = d.name}
    IN CASE d.k = "text" -> TemplateText(g, owner, d.name)
         [] d.k = "ref" /\ places # {} ->
                Loaded(g, Single(Parameter(CHOOSE k \in places : \A j \in places : k <= j)))
         [] OTHER -> SimpleAtom(g, owner, d)

\* load_template_rule_atomic_template_ref: the call is kept with its arguments
TemplateCall(given, d) ==
    IF NotCalled(given.g, d) = {} THEN Loaded(given.g, Single(CallOf(d.name, given.symbols)))
    ELSE Loaded(WithError(given.g, CHOOSE e \in NotCalled(given.g, d) : TRUE, d.name), <<>>)

\* load_template_rule_context, _sub_rule, _zero_or_more, _one_or_more: a template
\* more, with the same parameters
TemplateGroup(params, d, inner) ==
    LET name == GeneratedName(inner.g)
        ref == CallOf(name, [k \in DOMAIN params |-> Parameter(k)])
        added == AddTemplate([inner.g EXCEPT !.nextSid = @ + 1], name, params)
    IN LoadedGroup(OnTemplate(added, name,
                              [TheOne(added.templates, name) EXCEPT
                                    !.headAction = HeadActionOf(d),
                                    !.context = ContextIn(added, d),
                                    !.bodies = GroupBodies(d, ref, inner.bodies)]),
                   d, ref)

\* load_template_rule_definitions
RECURSIVE LoadTemplate(_, _, _, _)
RECURSIVE LoadTemplateRight(_, _, _, _)
LoadTemplateRight(left, owner, params, d) ==
    Joined(d.k, left.bodies, LoadTemplate(left.g, owner, params, d.right))

LoadTemplate(g, owner, params, d) ==
    CASE d.k = "empty" -> Loaded(g, Empty)
      [] d.k = "call" /\ Named(g.templates, d.name) = {} ->
            Loaded(WithError(g, "TemplateRuleNotFound", d.name), <<>>)
      [] d.k = "call" /\ Named(g.templates, d.name) # {} ->
            TemplateCall(FoldLeft(LAMBDA done, arg :
                                    WithArgument(LoadTemplate(done.g, owner, params, arg), done.symbols),
                                  Started(g), d.args), d)
      [] d.k \in Atoms -> TemplateAtom(g, owner, params, d)
      [] d.k \in Groups -> TemplateGroup(params, d, LoadTemplate(WithContextOf(g, d), owner, params, d.of))
      [] d.k \in {"union", "concat"} ->
            LoadTemplateRight(LoadTemplate(g, owner, params, d.left), owner, params, d)
      [] OTHER -> Changed(d.k, LoadTemplate(g, owner, params, d.of))

\* load_template_rule: the bodies replace those that are there
WithBodies(loaded, name) ==
    OnTemplate(loaded.g, name, [TheOne(loaded.g.templates, name) EXCEPT !.bodies = loaded.bodies])
LoadTemplateRule(g, owner, rule) ==
    WithBodies(LoadTemplate(g, owner, TheOne(g.templates, rule.name).params, rule.d), rule.name)
-----------------------------------------------------------------------------
IsTemplate(rule) == rule.params # <<>>
IsSimple(rule) == rule.params = <<>>

\* load_rules: all the heads first, then the templates, then the rules
AddHead(g, rule) ==
    IF IsTemplate(rule) THEN AddTemplate(g, rule.name, rule.params) ELSE AddVariable(g, rule.name)
LoadRules(g, owner, rules) ==
    FoldLeft(LAMBDA done, rule : LoadSimpleRule(done, owner, rule),
             FoldLeft(LAMBDA done, rule : LoadTemplateRule(done, owner, rule),
                      FoldLeft(AddHead, g, rules), SelectSeq(rules, IsTemplate)),
             SelectSeq(rules, IsSimple))

\* load_terminal_rule, load_terminal_rule_context, add_terminal_named
NamedTerminal(g, terminal) ==
    AddTerminal(g, terminal.name, terminal.name, ContextOf(g, terminal.context))
LoadTerminal(g, terminal) ==
    IF Named(g.terminals, terminal.name) # {}
    THEN WithError(ResolveContext(g, terminal.context), "OverridingPreviousTerminal", terminal.name)
    ELSE NamedTerminal(ResolveContext(g, terminal.context), terminal)

\* load_content
LoadContent(g, owner, source) ==
    LET there == [g EXCEPT !.options = WithOptions(@, source.options)]
    IN LoadRules(FoldLeft(LoadTerminal, there, source.terminals), owner, source.rules)
-----------------------------------------------------------------------------
(***************************************************************************)
(* Inheritance: Grammar::inherit.  Symbols are mapped by their names; one  *)
(* that is not found stops the program.                                    *)
(***************************************************************************)
InheritTerminals(g, other) ==
    FoldLeft(LAMBDA done, t :
                IF \E k \in DOMAIN done.terminals :
                        done.terminals[k].name = t.name \/ done.terminals[k].value = t.value
                THEN done
                ELSE LET there == ResolveContext(done, other.contexts[t.context])
                     IN [there EXCEPT !.terminals = Append(@,
                            [t EXCEPT !.context = ContextOf(there, other.contexts[t.context])])],
             g, other.terminals)

\* inherit_variable, inherit_virtual, inherit_action
MissingIn(table, others) == SelectSeq(others, LAMBDA symbol : Named(table, symbol.name) = {})
InheritSymbols(g, other) ==
    LET variables == MissingIn(g.variables, other.variables)
    IN [g EXCEPT !.variables = @ \o [k \in DOMAIN variables |-> [name |-> variables[k].name, rules |-> <<>>]],
                 !.virtuals = @ \o MissingIn(g.virtuals, other.virtuals),
                 !.actions = @ \o MissingIn(g.actions, other.actions)]

\* map_symbol_ref
TableFor(g, kind) == CASE kind = "terminal" -> g.terminals [] kind = "variable" -> g.variables
                       [] kind = "virtual" -> g.virtuals [] kind = "action" -> g.actions
Found(g, symbol) == Named(TableFor(g, symbol.kind), symbol.name) # {}

InheritRules(g, other) ==
    LET rulesOf(v) ==
            [r \in DOMAIN v.rules |->
                [v.rules[r] EXCEPT !.context =
                    LET name == other.contexts[v.rules[r].context]
                    IN IF \E c \in DOMAIN g.contexts : g.contexts[c] = name THEN ContextOf(g, name) ELSE 0]]
        stops == \E v \in DOMAIN other.variables :
                    LET rules == rulesOf(other.variables[v])
                    IN \E r \in DOMAIN rules :
                        \/ rules[r].context = 0
                        \/ \E e \in DOMAIN rules[r].body : ~ Found(g, rules[r].body[e].symbol)
    IN FoldLeft(LAMBDA done, v : AppendRules(done, v.name, rulesOf(v)),
                [g EXCEPT !.panics = @ \/ stops], other.variables)

\* inherit_template_rules, inherit_template_rule_symbol
RECURSIVE Lost(_, _)
Lost(g, symbol) ==
    CASE symbol.kind = "parameter" -> FALSE
      [] symbol.kind = "template" -> \E k \in DOMAIN symbol.arguments : Lost(g, symbol.arguments[k])
      [] OTHER -> ~ Found(g, symbol)

InheritTemplates(g, other) ==
    LET new == MissingIn(g.templates, other.templates)
        stops == \E t \in DOMAIN new :
            \/ \E b \in DOMAIN new[t].bodies : \E e \in DOMAIN new[t].bodies[b] :
                    Lost(g, new[t].bodies[b][e].symbol)
            \/ \E i \in DOMAIN new[t].instances : \E a \in DOMAIN new[t].instances[i].arguments :
                    ~ Found(g, new[t].instances[i].arguments[a])
    IN [g EXCEPT !.templates = @ \o new, !.panics = @ \/ stops]

\* inherit
InheritFrom(g, other) ==
    LET symbols == InheritSymbols(InheritTerminals(g, other), other)
    IN [InheritTemplates(InheritRules(symbols, other), other) EXCEPT
            !.nextSid = @ + other.nextSid - 3,
            !.options = WithOptions(@, other.options)]
=============================================================================
