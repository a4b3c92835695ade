CONSTANTS
    A = A
    B = B
    C = C
    Names = {A, B, C}
    MaxGrammars = 3
    MaxLetters = 8
    EmptyGrammar <- NewGrammar
    Filled <- LoadContent
    Inherited <- InheritFrom
    Declarations <- MCDeclarations
    TasksFor <- TasksOf
SPECIFICATION CompilationSpec
INVARIANTS
    CompletesTheLoadable
    ReportsTheMissing
    LoadsTheLanguage
    ErrorsLocated
    OutputsExact
PROPERTY
    Terminates
