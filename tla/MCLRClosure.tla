---------------------------- MODULE MCLRClosure -----------------------------
(***************************************************************************)
(* Closes every kernel of the LR(0), LR(1) and LALR(1) graphs of the       *)
(* sample grammars.                                                        *)
(***************************************************************************)
EXTENDS LRClosure, SampleGrammars
Graphs == INSTANCE LRTables

KernelsOf(graph) == {state.kernel : state \in Elements(graph)}

LR0Kernels(g) == KernelsOf(Graphs!GraphOf(g, "LR0"))
LR1Kernels(g) == KernelsOf(Graphs!GraphOf(g, "LR1"))

\* The LR(0) kernels with the lookaheads of the LR(1) kernels they merge (the
\* runs of LRConstruction show that the code computes these)
LALRKernels(g) ==
    LET lr1 == KernelsOf(Graphs!GraphFrom(g,
                  <<Graphs!IntoState(g, Graphs!AxiomKernel(g, {Epsilon}), "LR1")>>, 1, "LR1"))
        Bases(kernel) == {<<item.rule, item.position>> : item \in Elements(kernel)}
        MergedKernel(kernel, item) ==
            UNION {UNION {x.lookaheads : x \in {y \in Elements(k) : SameBase(y, item)}} :
                    k \in {z \in lr1 : Bases(z) = Bases(kernel)}}
    IN {[i \in DOMAIN kernel |-> [kernel[i] EXCEPT !.lookaheads = MergedKernel(kernel, kernel[i])]] :
            kernel \in LR0Kernels(g)}

Input(g, m, kernels) == {[grammar |-> g, mode |-> m, kernel |-> k] : k \in kernels}

AllInputs == UNION {Input(g, "LR0", LR0Kernels(g)) \cup Input(g, "LR1", LR1Kernels(g))
                        \cup Input(g, "LALR1", LALRKernels(g)) : g \in AllGrammars}
=============================================================================
