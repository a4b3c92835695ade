-------------------------- MODULE Workspace_proofs --------------------------
(***************************************************************************)
(* The language server: its data, its diagnostics and its answers are in   *)
(* step with the documents whenever no worker is left, for any addresses,  *)
(* contents and number of notifications.                                   *)
(***************************************************************************)
EXTENDS Workspace, TLAPS, WellFoundedInduction

\* An address has one document.
Unique == \A i, j \in DOMAIN documents : documents[i].url = documents[j].url => i = j

\* What the worker has done when it publishes, and what is left to publish.
Working ==
    lock = "worker" =>
        /\ data = Loaded(documents)
        /\ toPublish \subseteq DOMAIN documents
        /\ \A i \in DOMAIN documents :
              /\ documents[i].diagnostics = Problems(documents, i)
              /\ i \notin toPublish => shown[documents[i].url] = Problems(documents, i)

\* The state in which nothing is left to do.
Settled ==
    Idle => /\ data = Loaded(documents)
            /\ \A i \in DOMAIN documents : shown[documents[i].url] = Problems(documents, i)

Starting == lock = "initialize" => ~ started

IInv == TypeOK /\ Unique /\ Working /\ Settled /\ Starting
-----------------------------------------------------------------------------
(***************************************************************************)
(* Retained.  Facts about every beginning of the documents are shown by    *)
(* taking the shortest one for which they would not hold.                  *)
(***************************************************************************)

LEMMA ShortestExample ==
    ASSUME NEW T, T \subseteq Nat, T # {}
    PROVE  \E n \in T : \A m \in T : n <= m
<1>1. PICK n \in T : \A m \in T : <<m, n>> \notin OpToRel(<, Nat)
  BY NatLessThanWellFounded, WFMin
<1>2. \A m \in T : ~ (m < n)
  BY <1>1 DEF OpToRel
<1> QED BY <1>2

\* What one more document adds to those kept before it.
Step(docs, u, before, n) == IF docs[n].url = u THEN before ELSE Append(before, docs[n])

\* What the first n documents leave, by the definition of Retained.
Solves(docs, u, g, n) ==
    g = [k \in 0 .. n |-> IF k = 0 THEN <<>> ELSE Step(docs, u, g[k - 1], k)]

\* The recursive definition has a solution for one more document...
LEMMA OneMore ==
    ASSUME NEW docs \in Seq(Documents), NEW u, NEW n \in Nat \ {0}, NEW g,
           Solves(docs, u, g, n - 1)
    PROVE  \E h : Solves(docs, u, h, n)
<1> DEFINE h == [k \in 0 .. n |-> IF k = n THEN Step(docs, u, g[n - 1], n) ELSE g[k]]
<1>1. ASSUME NEW k \in 0 .. n
      PROVE  h[k] = IF k = 0 THEN <<>> ELSE Step(docs, u, h[k - 1], k)
  <2>1. CASE k = n
    <3>1. n - 1 \in 0 .. n /\ n - 1 # n
      OBVIOUS
    <3>2. h[n] = Step(docs, u, g[n - 1], n) /\ h[n - 1] = g[n - 1]
      BY <3>1
    <3> QED BY <2>1, <3>2
  <2>2. CASE k # n
    <3>1. k \in 0 .. n - 1
      BY <2>2
    <3>2. g[k] = IF k = 0 THEN <<>> ELSE Step(docs, u, g[k - 1], k)
      BY <3>1 DEF Solves
    <3>3. k # 0 => k - 1 \in 0 .. n /\ k - 1 # n
      BY <3>1
    <3> QED BY <2>2, <3>2, <3>3
  <2> QED BY <2>1, <2>2
<1>2. h = [k \in 0 .. n |-> h[k]]
  OBVIOUS
<1> HIDE DEF h
<1>3. Solves(docs, u, h, n)
  BY <1>1, <1>2 DEF Solves
<1> QED BY <1>3

\* ... hence one for all of them.
LEMMA KeptExists ==
    ASSUME NEW docs \in Seq(Documents), NEW u
    PROVE  \E kept : /\ Retained(docs, u) = kept[Len(docs)]
                     /\ kept[0] = <<>>
                     /\ \A n \in 1 .. Len(docs) : kept[n] = Step(docs, u, kept[n - 1], n)
<1> DEFINE T == {n \in 0 .. Len(docs) : ~ \E g : Solves(docs, u, g, n)}
<1>1. Len(docs) \in Nat /\ T \subseteq Nat
  OBVIOUS
<1>2. ASSUME T # {} PROVE FALSE
  <2> HIDE DEF T
  <2>1. PICK n \in T : \A m \in T : n <= m
    BY <1>1, <1>2, ShortestExample
  <2> USE DEF T
  <2>2. CASE n = 0
    <3>1. Solves(docs, u, [k \in 0 .. 0 |-> <<>>], 0)
      BY DEF Solves
    <3> QED BY <2>1, <2>2, <3>1
  <2>3. CASE n # 0
    <3>1. n - 1 \in 0 .. Len(docs) /\ n \in Nat \ {0} /\ n - 1 \notin T
      BY <1>1, <2>1, <2>3
    <3>2. PICK g : Solves(docs, u, g, n - 1)
      BY <3>1
    <3> QED BY <2>1, <3>1, <3>2, OneMore
  <2> QED BY <2>2, <2>3
<1>3. PICK g : Solves(docs, u, g, Len(docs))
  BY <1>1, <1>2
<1> DEFINE kept == CHOOSE h : Solves(docs, u, h, Len(docs))
<1>4. Solves(docs, u, kept, Len(docs))
  BY <1>3
<1>5. Retained(docs, u) = kept[Len(docs)]
  BY DEF Retained, Step, Solves
<1> HIDE DEF kept
<1>6. kept[0] = <<>> /\ \A n \in 1 .. Len(docs) : kept[n] = Step(docs, u, kept[n - 1], n)
  BY <1>1, <1>4 DEF Solves
<1> QED BY <1>5, <1>6

\* Only documents with another address are kept, one for each address.
LEMMA RetainedDocuments ==
    ASSUME NEW docs \in Seq(Documents), NEW u,
           \A i, j \in DOMAIN docs : docs[i].url = docs[j].url => i = j
    PROVE  /\ Retained(docs, u) \in Seq(Documents)
           /\ \A i, j \in DOMAIN Retained(docs, u) :
                    Retained(docs, u)[i].url = Retained(docs, u)[j].url => i = j
<1> DEFINE N == Len(docs)
<1>1. PICK kept : /\ Retained(docs, u) = kept[N]
                  /\ kept[0] = <<>>
                  /\ \A n \in 1 .. N : kept[n] = Step(docs, u, kept[n - 1], n)
  BY KeptExists
<1> DEFINE Good(n) ==
        /\ kept[n] \in Seq(Documents)
        /\ \A i \in DOMAIN kept[n] : \E k \in 1 .. n : kept[n][i] = docs[k]
        /\ \A i, j \in DOMAIN kept[n] : kept[n][i].url = kept[n][j].url => i = j
           T == {n \in 0 .. N : ~ Good(n)}
<1>2. T \subseteq Nat
  OBVIOUS
<1>3. ASSUME T # {} PROVE FALSE
  <2> HIDE DEF T
  <2>1. PICK n \in T : \A m \in T : n <= m
    BY <1>2, <1>3, ShortestExample
  <2> USE DEF T
  <2>2. Good(0)
    BY <1>1
  <2>3. n > 0 /\ n \in 1 .. N /\ Good(n - 1)
    BY <2>1, <2>2
  <2>4. kept[n] = Step(docs, u, kept[n - 1], n)
    BY <1>1, <2>3
  <2>5. CASE docs[n].url = u
    <3>1. kept[n] = kept[n - 1]
      BY <2>4, <2>5 DEF Step
    <3>2. Good(n)
      BY <2>3, <3>1
    <3> QED BY <2>1, <3>2
  <2>6. CASE docs[n].url # u
    <3>1. kept[n] = Append(kept[n - 1], docs[n]) /\ docs[n] \in Documents
      BY <2>3, <2>4, <2>6 DEF Step
    <3>2. \A i \in DOMAIN kept[n - 1] : kept[n - 1][i].url # docs[n].url
      BY <2>3
    <3>3. Good(n)
      BY <2>3, <3>1, <3>2
    <3> QED BY <2>1, <3>3
  <2> QED BY <2>5, <2>6
<1>4. Good(N)
  BY <1>3
<1> QED BY <1>1, <1>4
-----------------------------------------------------------------------------
(***************************************************************************)
(* What the compiler makes of the documents.                               *)
(***************************************************************************)

LEMMA ProblemsType ==
    ASSUME NEW docs, NEW i PROVE Problems(docs, i) \in SUBSET ProblemKinds
BY DEF Problems, ProblemKinds

LEMMA LoadedType ==
    ASSUME NEW docs \in Seq(Documents)
    PROVE  Loaded(docs) \in [loaded : BOOLEAN, inputs : Seq([url : Urls, content : Contents])]
<1> DEFINE Input(i) == [url |-> docs[i].url, content |-> docs[i].content]
           Kept == [url : Urls, content : Contents]
<1>1. ASSUME NEW i \in 1 .. Len(docs) PROVE Input(i) \in Kept
  <2>1. docs[i] \in Documents
    OBVIOUS
  <2> QED BY <2>1 DEF Documents
<1>2. Inputs(docs) \in Seq(Kept)
  <2>1. Inputs(docs) = [i \in 1 .. Len(docs) |-> Input(i)]
    BY DEF Inputs
  <2> HIDE DEF Input, Kept
  <2> QED BY <1>1, <2>1
<1> QED BY <1>2 DEF Loaded, NoData

\* The compiler does not look at the diagnostics of before.
LEMMA LintedDocuments ==
    ASSUME NEW docs \in Seq(Documents)
    PROVE  /\ Linted(docs) \in Seq(Documents)
           /\ DOMAIN Linted(docs) = DOMAIN docs
           /\ \A i \in DOMAIN docs :
                  /\ Linted(docs)[i].url = docs[i].url
                  /\ Linted(docs)[i].content = docs[i].content
                  /\ Linted(docs)[i].diagnostics = Problems(docs, i)
           /\ \A i \in DOMAIN docs : Problems(Linted(docs), i) = Problems(docs, i)
           /\ Loaded(Linted(docs)) = Loaded(docs)
<1> DEFINE linted == Linted(docs)
<1>1. /\ DOMAIN linted = DOMAIN docs
      /\ \A i \in DOMAIN docs : linted[i] = [docs[i] EXCEPT !.diagnostics = Problems(docs, i)]
  BY DEF Linted
<1>2. ASSUME NEW i \in DOMAIN docs
      PROVE  /\ linted[i] \in Documents
             /\ linted[i].url = docs[i].url
             /\ linted[i].content = docs[i].content
             /\ linted[i].diagnostics = Problems(docs, i)
  <2>1. docs[i] \in Documents /\ Problems(docs, i) \in SUBSET ProblemKinds
    BY ProblemsType
  <2>2. linted[i] = [docs[i] EXCEPT !.diagnostics = Problems(docs, i)]
    BY <1>1
  <2> HIDE DEF linted
  <2> QED BY <2>1, <2>2 DEF Documents
<1>3. linted \in Seq(Documents)
  <2> DEFINE d(i) == [docs[i] EXCEPT !.diagnostics = Problems(docs, i)]
  <2>1. linted = [i \in 1 .. Len(docs) |-> d(i)]
    BY DEF Linted
  <2>2. \A i \in 1 .. Len(docs) : d(i) \in Documents
    BY <1>1, <1>2
  <2> HIDE DEF linted, d
  <2> QED BY <2>1, <2>2
<1> HIDE DEF linted
<1>4. /\ Unparsed(linted) = Unparsed(docs)
      /\ Unbuilt(linted) = Unbuilt(docs)
      /\ Inputs(linted) = Inputs(docs)
  BY <1>1, <1>2 DEF Unparsed, Unbuilt, Inputs
<1>5. \A t : Definers(linted, t) = Definers(docs, t)
  BY <1>1, <1>2 DEF Definers
<1>6. Unknown(linted) = Unknown(docs)
  BY <1>1, <1>2, <1>5 DEF Unknown
<1>7. \A i \in DOMAIN docs : Problems(linted, i) = Problems(docs, i)
  BY <1>4, <1>6 DEF Problems
<1>8. Loaded(linted) = Loaded(docs)
  BY <1>4, <1>6 DEF Loaded, Loads
<1> QED BY <1>1, <1>2, <1>3, <1>7, <1>8 DEF linted

\* A document is added under an address that no other has.
LEMMA ResolvedDocuments ==
    ASSUME NEW docs \in Seq(Documents), NEW u \in Urls, NEW c \in Contents,
           \A i, j \in DOMAIN docs : docs[i].url = docs[j].url => i = j
    PROVE  /\ Resolved(docs, u, c) \in Seq(Documents)
           /\ \A i, j \in DOMAIN Resolved(docs, u, c) :
                    Resolved(docs, u, c)[i].url = Resolved(docs, u, c)[j].url => i = j
<1>1. CASE \A i \in DOMAIN docs : docs[i].url # u
  <2>1. Resolved(docs, u, c) = Append(docs, Document(u, c))
    BY <1>1 DEF Resolved
  <2>2. Document(u, c) \in Documents /\ Document(u, c).url = u
    BY DEF Document, Documents
  <2> QED BY <1>1, <2>1, <2>2
<1>2. CASE ~ \A i \in DOMAIN docs : docs[i].url # u
  BY <1>2 DEF Resolved
<1> QED BY <1>1, <1>2

LEMMA EditedDocuments ==
    ASSUME NEW docs \in Seq(Documents), NEW u \in Urls, NEW c \in Contents, NEW full \in BOOLEAN
    PROVE  /\ Edited(docs, u, c, full) \in Seq(Documents)
           /\ DOMAIN Edited(docs, u, c, full) = DOMAIN docs
           /\ \A i \in DOMAIN docs : Edited(docs, u, c, full)[i].url = docs[i].url
<1> DEFINE d(i) == IF full /\ docs[i].url = u THEN [docs[i] EXCEPT !.content = c] ELSE docs[i]
<1>1. ASSUME NEW i \in 1 .. Len(docs) PROVE d(i) \in Documents /\ d(i).url = docs[i].url
  <2>1. docs[i] \in Documents
    OBVIOUS
  <2> QED BY <2>1 DEF Documents
<1>2. Edited(docs, u, c, full) = [i \in 1 .. Len(docs) |-> d(i)]
  BY DEF Edited
<1> HIDE DEF d
<1> QED BY <1>1, <1>2
-----------------------------------------------------------------------------
(***************************************************************************)
(* The invariant.                                                          *)
(***************************************************************************)

LEMMA InitInv == Init => IInv
<1> SUFFICES ASSUME Init PROVE IInv
  OBVIOUS
<1>1. /\ documents = <<>> /\ data = NoData /\ lock = "free" /\ started = FALSE
      /\ events = <<>> /\ workers = 0 /\ toPublish = {} /\ shown = [u \in Urls |-> {}]
      /\ answer = {} /\ changes = 0
  BY DEF Init
<1>2. data \in [loaded : BOOLEAN, inputs : Seq([url : Urls, content : Contents])]
  <2>1. <<>> \in Seq([url : Urls, content : Contents])
    OBVIOUS
  <2> QED BY <1>1, <2>1 DEF NoData
<1>3. shown \in [Urls -> SUBSET ProblemKinds]
  BY <1>1
<1>4. TypeOK
  <2>1. documents \in Seq(Documents) /\ events \in Seq(Event)
    BY <1>1
  <2>2. /\ lock \in {"free", "initialize", "events", "worker"} /\ started \in BOOLEAN
        /\ workers \in Nat /\ toPublish \subseteq Nat /\ answer \subseteq Locations
        /\ changes \in Nat
    BY <1>1
  <2> QED BY <1>2, <1>3, <2>1, <2>2 DEF TypeOK
<1>5. Unique /\ Working /\ Settled /\ Starting
  BY <1>1 DEF Unique, Working, Settled, Starting, Idle
<1> QED BY <1>4, <1>5 DEF IInv

\* A step that leaves the documents, the data and what is shown as they are, and
\* after which either something is still to be done or nothing was before.
LEMMA NothingNew ==
    ASSUME IInv, TypeOK', Starting',
           UNCHANGED <<documents, data, shown, toPublish>>,
           lock' = "worker" => lock = "worker",
           Idle' => Idle
    PROVE  IInv'
<1>1. Unique'
  BY DEF IInv, Unique
<1>2. Working'
  BY DEF IInv, Working
<1>3. Settled'
  BY DEF IInv, Settled
<1> QED BY <1>1, <1>2, <1>3 DEF IInv

\* A step after which something is still to be done, and that keeps the addresses
\* apart.
LEMMA StillBusy ==
    ASSUME IInv, TypeOK', Unique', Starting', lock' # "worker", ~ Idle'
    PROVE  IInv'
BY DEF IInv, Working, Settled

LEMMA LintStep ==
    ASSUME IInv, Lint PROVE IInv'
<1>1. /\ documents \in Seq(Documents) /\ Unique
      /\ documents' = Linted(documents) /\ data' = Loaded(documents)
      /\ lock' = "worker" /\ workers' \in Nat /\ toPublish' = DOMAIN documents
      /\ UNCHANGED <<started, events, shown, answer, changes>>
  BY DEF Lint, IInv, TypeOK
<1>2. TypeOK'
  <2>1. documents' \in Seq(Documents)
    BY <1>1, LintedDocuments
  <2>2. data' \in [loaded : BOOLEAN, inputs : Seq([url : Urls, content : Contents])]
    BY <1>1, LoadedType
  <2>3. toPublish' \subseteq Nat
    BY <1>1
  <2> QED BY <1>1, <2>1, <2>2, <2>3 DEF IInv, TypeOK
<1>3. Unique'
  BY <1>1, LintedDocuments DEF Unique
<1>4. Working'
  BY <1>1, LintedDocuments DEF Working
<1>5. Settled' /\ Starting'
  BY <1>1 DEF Settled, Starting, Idle
<1> QED BY <1>2, <1>3, <1>4, <1>5 DEF IInv

\* The diagnostics of a document do not take the place of another's.
LEMMA PublishStep ==
    ASSUME IInv, NEW i \in toPublish, Publish(i) PROVE IInv'
<1>1. /\ lock = "worker" /\ lock' = "worker"
      /\ documents \in Seq(Documents) /\ Unique /\ i \in DOMAIN documents
      /\ shown \in [Urls -> SUBSET ProblemKinds]
      /\ shown' = [shown EXCEPT ![documents[i].url] = documents[i].diagnostics]
      /\ toPublish' = toPublish \ {i}
      /\ UNCHANGED <<documents, data, started, events, workers, answer, changes>>
  BY DEF Publish, IInv, TypeOK, Working
<1>2. \A j \in DOMAIN documents : documents[j].url \in Urls /\ documents[j].diagnostics \in SUBSET ProblemKinds
  <2> SUFFICES ASSUME NEW j \in DOMAIN documents
               PROVE  documents[j].url \in Urls /\ documents[j].diagnostics \in SUBSET ProblemKinds
    OBVIOUS
  <2>1. documents[j] \in Documents
    BY <1>1
  <2> QED BY <2>1 DEF Documents
<1>3. TypeOK'
  <2>1. shown' \in [Urls -> SUBSET ProblemKinds]
    BY <1>1, <1>2
  <2> QED BY <1>1, <2>1 DEF IInv, TypeOK
<1>4. Working'
  <2> SUFFICES ASSUME NEW j \in DOMAIN documents, j \notin toPublish'
               PROVE  shown'[documents[j].url] = Problems(documents, j)
    BY <1>1 DEF IInv, Working
  <2>1. CASE j = i
    BY <1>1, <1>2, <2>1 DEF IInv, Working
  <2>2. CASE j # i
    <3>1. documents[j].url # documents[i].url
      BY <1>1, <2>2 DEF Unique
    <3>2. shown[documents[j].url] = Problems(documents, j)
      BY <1>1, <2>2 DEF IInv, Working
    <3> QED BY <1>1, <1>2, <3>1, <3>2
  <2> QED BY <2>1, <2>2
<1>5. Unique' /\ Settled' /\ Starting'
  BY <1>1 DEF Unique, Settled, Starting, Idle
<1> QED BY <1>3, <1>4, <1>5 DEF IInv

LEMMA PublishedStep ==
    ASSUME IInv, Published PROVE IInv'
<1>1. /\ lock = "worker" /\ lock' = "free" /\ toPublish = {}
      /\ UNCHANGED <<documents, data, started, events, workers, toPublish, shown, answer, changes>>
  BY DEF Published
<1>2. TypeOK' /\ Unique' /\ Working' /\ Starting'
  BY <1>1 DEF IInv, TypeOK, Unique, Working, Starting
<1>3. Settled'
  BY <1>1 DEF IInv, Working, Settled
<1> QED BY <1>2, <1>3 DEF IInv

\* The steps of the handlers.
LEMMA HandlerStep ==
    ASSUME IInv,
           \/ Initialize \/ ScanFails \/ ScanDone
           \/ \E u \in Urls, c \in Contents : ScanFile(u, c)
           \/ \E batch \in Batches : DidChangeWatchedFiles(batch)
           \/ HandleEvent
           \/ \E u \in Urls, c \in Contents, full \in BOOLEAN : DidChange(u, c, full)
    PROVE  IInv'
<1> USE DEF IInv
<1>1. CASE Initialize
  <2>1. TypeOK' /\ Starting' /\ lock' # "worker" /\ ~ Idle' /\ Unique'
    BY <1>1 DEF Initialize, TypeOK, Starting, Idle, Unique
  <2> QED BY <2>1, StillBusy
<1>2. CASE ScanFails
  <2>1. TypeOK' /\ Starting' /\ lock' # "worker" /\ ~ Idle' /\ Unique'
    BY <1>2 DEF ScanFails, TypeOK, Starting, Idle, Unique
  <2> QED BY <2>1, StillBusy
<1>3. CASE ScanDone
  <2>1. TypeOK' /\ Starting' /\ lock' # "worker" /\ ~ Idle' /\ Unique'
    BY <1>3 DEF ScanDone, Execute, TypeOK, Starting, Idle, Unique
  <2> QED BY <2>1, StillBusy
<1>4. ASSUME NEW u \in Urls, NEW c \in Contents, ScanFile(u, c) PROVE IInv'
  <2>1. documents' \in Seq(Documents) /\ Unique'
    BY <1>4, ResolvedDocuments DEF ScanFile, TypeOK, Unique
  <2>2. TypeOK' /\ Starting' /\ lock' # "worker" /\ ~ Idle'
    BY <1>4, <2>1 DEF ScanFile, TypeOK, Starting, Idle
  <2> QED BY <2>1, <2>2, StillBusy
<1>5. ASSUME NEW batch \in Batches, DidChangeWatchedFiles(batch) PROVE IInv'
  <2>1. batch \in Seq(Event)
    BY DEF Batches
  <2>2. TypeOK' /\ Starting' /\ lock' # "worker" /\ ~ Idle' /\ Unique'
    BY <1>5, <2>1 DEF DidChangeWatchedFiles, TypeOK, Starting, Idle, Unique
  <2> QED BY <2>2, StillBusy
<1>6. CASE HandleEvent
  <2>1. ASSUME NEW c \in Contents, EventCreated(c) PROVE IInv'
    <3>1. Head(events).uri \in Urls
      <4>1. Head(events) \in Event
        BY <2>1 DEF EventCreated, TypeOK
      <4> QED BY <4>1 DEF Event
    <3>2. documents' \in Seq(Documents) /\ Unique'
      BY <2>1, <3>1, ResolvedDocuments DEF EventCreated, TypeOK, Unique
    <3>3. TypeOK' /\ Starting' /\ lock' # "worker" /\ ~ Idle'
      BY <2>1, <3>2 DEF EventCreated, TypeOK, Starting, Idle
    <3> QED BY <3>2, <3>3, StillBusy
  <2>2. CASE EventUnreadable
    <3>1. TypeOK' /\ Starting' /\ lock' # "worker" /\ ~ Idle' /\ Unique'
      BY <2>2 DEF EventUnreadable, TypeOK, Starting, Idle, Unique
    <3> QED BY <3>1, StillBusy
  <2>3. CASE EventChanged
    <3>1. TypeOK' /\ Starting' /\ lock' # "worker" /\ ~ Idle' /\ Unique'
      BY <2>3 DEF EventChanged, TypeOK, Starting, Idle, Unique
    <3> QED BY <3>1, StillBusy
  <2>4. CASE EventDeleted
    <3>1. documents' \in Seq(Documents) /\ Unique'
      BY <2>4, RetainedDocuments DEF EventDeleted, TypeOK, Unique
    <3>2. TypeOK' /\ Starting' /\ lock' # "worker" /\ ~ Idle'
      BY <2>4, <3>1 DEF EventDeleted, TypeOK, Starting, Idle
    <3> QED BY <3>1, <3>2, StillBusy
  <2>5. CASE EventsDone
    <3>1. TypeOK' /\ Starting' /\ lock' # "worker" /\ ~ Idle' /\ Unique'
      BY <2>5 DEF EventsDone, Execute, TypeOK, Starting, Idle, Unique
    <3> QED BY <3>1, StillBusy
  <2> QED BY <1>6, <2>1, <2>2, <2>3, <2>4, <2>5 DEF HandleEvent
<1>7. ASSUME NEW u \in Urls, NEW c \in Contents, NEW full \in BOOLEAN, DidChange(u, c, full)
      PROVE  IInv'
  <2>0. /\ documents' = Edited(documents, u, c, full)
        /\ documents' \in Seq(Documents) /\ DOMAIN documents' = DOMAIN documents
        /\ \A i \in DOMAIN documents : documents'[i].url = documents[i].url
    BY <1>7, EditedDocuments DEF DidChange, TypeOK
  <2>1. documents' \in Seq(Documents) /\ Unique'
    BY <2>0 DEF Unique
  <2>2. TypeOK' /\ Starting' /\ lock' # "worker" /\ ~ Idle'
    BY <1>7, <2>1 DEF DidChange, Execute, MayWrite, TypeOK, Starting, Idle
  <2> QED BY <2>1, <2>2, StillBusy
<1> QED BY <1>1, <1>2, <1>3, <1>4, <1>5, <1>6, <1>7

\* A request is answered from the inputs that were loaded last.
LEMMA QueryAnswers ==
    ASSUME TypeOK, Query
    PROVE  /\ data.loaded
           /\ UNCHANGED <<documents, data, lock, started, events, workers, toPublish, shown, changes>>
           /\ \E asked \in SUBSET DOMAIN data.inputs : answer' = {Location(j) : j \in asked}
<1>1. ASSUME NEW u \in Urls, NEW i \in DOMAIN documents, Describe(u, i)
      PROVE  /\ data.loaded
             /\ UNCHANGED <<documents, data, lock, started, events, workers, toPublish, shown, changes>>
             /\ \E asked \in SUBSET DOMAIN data.inputs : answer' = {Location(j) : j \in asked}
  <2>1. /\ i \in DOMAIN data.inputs /\ data.loaded /\ answer' = {Location(i)}
        /\ UNCHANGED <<documents, data, lock, started, events, workers, toPublish, shown, changes>>
    BY <1>1 DEF Describe, Asked, Answer
  <2>2. answer' = {Location(j) : j \in {i}} /\ {i} \in SUBSET DOMAIN data.inputs
    BY <2>1
  <2> QED BY <2>1, <2>2
<1>2. ASSUME NEW u \in Urls, NEW i \in DOMAIN documents, NEW s \in Symbols,
             GetDefinitionAt(u, i, s) \/ GetReferencesAt(u, i, s)
      PROVE  /\ data.loaded
             /\ UNCHANGED <<documents, data, lock, started, events, workers, toPublish, shown, changes>>
             /\ \E asked \in SUBSET DOMAIN data.inputs : answer' = {Location(j) : j \in asked}
  BY <1>2 DEF GetDefinitionAt, GetReferencesAt, Asked, Answer, Definers, Users
<1>3. ASSUME NEW s \in Symbols, LookupSymbols(s)
      PROVE  /\ data.loaded
             /\ UNCHANGED <<documents, data, lock, started, events, workers, toPublish, shown, changes>>
             /\ \E asked \in SUBSET DOMAIN data.inputs : answer' = {Location(j) : j \in asked}
  BY <1>3 DEF LookupSymbols, Answer, Definers
<1> QED BY <1>1, <1>2, <1>3 DEF Query

LEMMA QueryStep ==
    ASSUME IInv, Query PROVE IInv'
<1>1. PICK asked \in SUBSET DOMAIN data.inputs : answer' = {Location(j) : j \in asked}
  BY QueryAnswers DEF IInv
<1>2. UNCHANGED <<documents, data, lock, started, events, workers, toPublish, shown, changes>>
  BY QueryAnswers DEF IInv
<1>3. answer' \subseteq Locations
  <2> SUFFICES ASSUME NEW j \in DOMAIN data.inputs PROVE Location(j) \in Locations
    BY <1>1
  <2>1. data.inputs \in Seq([url : Urls, content : Contents]) /\ documents \in Seq(Documents)
    BY DEF IInv, TypeOK
  <2>2. data.inputs[j].url \in Urls
    <3>1. ASSUME NEW Kept, NEW inputs \in Seq(Kept), j \in DOMAIN inputs PROVE inputs[j] \in Kept
      BY <3>1
    <3>2. data.inputs[j] \in [url : Urls, content : Contents]
      BY <2>1, <3>1
    <3> QED BY <3>2
  <2>3. j \in DOMAIN documents => documents[j].url \in Urls
    <3>1. ASSUME NEW docs \in Seq(Documents), j \in DOMAIN docs PROVE docs[j] \in Documents
      BY <3>1
    <3>2. j \in DOMAIN documents => documents[j] \in Documents
      BY <2>1, <3>1
    <3> QED BY <3>2 DEF Documents
  <2> QED BY <2>2, <2>3 DEF Location, Locations
<1>4. TypeOK' /\ Starting'
  BY <1>2, <1>3 DEF IInv, TypeOK, Starting
<1>5. Idle' => Idle
  BY <1>2 DEF Idle
<1> QED BY <1>2, <1>4, <1>5, NothingNew

LEMMA StepInv == IInv /\ [Next]_vars => IInv'
<1> SUFFICES ASSUME IInv, [Next]_vars PROVE IInv'
  OBVIOUS
<1>1. CASE Work
  BY <1>1, LintStep, PublishStep, PublishedStep DEF Work
<1>2. CASE Query
  BY <1>2, QueryStep
<1>3. CASE UNCHANGED vars
  <2>1. TypeOK' /\ Starting' /\ (Idle' => Idle)
    BY <1>3 DEF vars, IInv, TypeOK, Starting, Idle
  <2> QED BY <1>3, <2>1, NothingNew DEF vars
<1>4. CASE Shutdown
  BY <1>3, <1>4 DEF Shutdown
<1> QED BY <1>1, <1>2, <1>3, <1>4, HandlerStep DEF Next
-----------------------------------------------------------------------------
(***************************************************************************)
(* The theorems.                                                           *)
(***************************************************************************)

\* The workspace, the queue of events and what the client shows have their types.
THEOREM TypeCorrect == Spec => []TypeOK
<1>1. IInv => TypeOK
  BY DEF IInv
<1> QED BY <1>1, InitInv, StepInv, PTL DEF Spec

\* Whatever the notifications, when no worker is left the data is that of the
\* documents, and an address has one document (Workspace::lint, resolve_document).
THEOREM DataAlwaysInSync == Spec => []DataInSync
<1>1. IInv => DataInSync
  <2> SUFFICES ASSUME IInv, Idle
               PROVE  /\ data.loaded <=> Loads(documents)
                      /\ data.loaded => data.inputs = Inputs(documents)
    BY DEF IInv, Unique, DataInSync
  <2>1. data = Loaded(documents)
    BY DEF IInv, Settled
  <2>2. CASE Loads(documents)
    BY <2>1, <2>2 DEF Loaded
  <2>3. CASE ~ Loads(documents)
    BY <2>1, <2>3 DEF Loaded, NoData
  <2> QED BY <2>2, <2>3
<1> QED BY <1>1, InitInv, StepInv, PTL DEF Spec

\* When no worker is left the client shows the problems of each document as it is:
\* the diagnostics of an earlier compilation never come last (Backend::worker).
THEOREM ShownAlwaysInSync == Spec => []ShownInSync
<1>1. IInv => ShownInSync
  BY DEF IInv, Settled, ShownInSync
<1> QED BY <1>1, InitInv, StepInv, PTL DEF Spec

\* A request that is served when no worker is left is answered with the documents the
\* symbols were read from (get_location): the indices of the data are theirs.
THEOREM AnswersAreRight == Spec => AnswersWhenIdle
<1>1. ASSUME IInv, [Next]_vars, Idle, answer' # answer
      PROVE  \A l \in answer' : l.given = l.actual
  <2>1. Query
    BY <1>1 DEF Next, vars, Shutdown, Initialize, ScanFails, ScanDone, ScanFile,
                DidChangeWatchedFiles, HandleEvent, EventCreated, EventUnreadable,
                EventChanged, EventDeleted, EventsDone, DidChange, Work, Lint, Publish,
                Published
  <2>2. data.loaded /\ data = Loaded(documents)
    BY <1>1, <2>1, QueryAnswers DEF IInv, Settled
  <2>3. data.inputs = Inputs(documents)
    BY <2>2 DEF Loaded, NoData
  <2>4. PICK asked \in SUBSET DOMAIN data.inputs : answer' = {Location(j) : j \in asked}
    BY <1>1, <2>1, QueryAnswers DEF IInv
  <2>5. ASSUME NEW j \in DOMAIN data.inputs PROVE Location(j).given = Location(j).actual
    <3>1. j \in DOMAIN documents /\ data.inputs[j].url = documents[j].url
      BY <2>3, <2>5 DEF Inputs
    <3> QED BY <3>1 DEF Location
  <2> QED BY <2>4, <2>5
<1>2. IInv /\ [Next]_vars =>
        [Idle => (answer' # answer => \A l \in answer' : l.given = l.actual)]_vars
  BY <1>1
<1> QED BY <1>2, InitInv, StepInv, PTL DEF Spec, AnswersWhenIdle
=============================================================================
