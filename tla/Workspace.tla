----------------------------- MODULE Workspace -----------------------------
(***************************************************************************)
(* The language server (src/langserv): the workspace of grammar documents  *)
(* behind a tokio RwLock, the LSP handlers that change it, the background  *)
(* workers they spawn to compile ("lint") it and publish diagnostics, and  *)
(* the read handlers that answer from the data of the last compilation.    *)
(*                                                                         *)
(* A critical section of the lock is a value of `lock'.  The handlers of   *)
(* file events and of initialize take several steps inside theirs; nothing *)
(* else runs meanwhile.  The worker keeps the lock while it publishes.     *)
(*                                                                         *)
(* The grammar compiler is abstracted to what the server tells apart: a    *)
(* content defines and uses symbols, may not parse, and may load but fail  *)
(* to build.  A position in a document is the symbol found there.          *)
(***************************************************************************)
EXTENDS Naturals, Sequences, FiniteSets

CONSTANTS
    Urls,         \* the documents' addresses
    Contents,     \* what a document may hold: records [defines, uses, fault]
    MaxChanges,   \* bound: notifications (file events and edits) received
    MaxBatch      \* bound: events in one notification of file events

VARIABLES
    documents,    \* Workspace::documents, records [url, content, diagnostics]
    data,         \* Workspace::data: whether there is any, and its inputs
    lock,         \* who holds the write lock, "free" when no one does
    started,      \* whether initialize succeeded
    events,       \* the events of the current notification left to handle
    workers,      \* the spawned workers that wait for the lock
    toPublish,    \* the documents whose diagnostics the worker has to publish
    shown,        \* the client: the diagnostics it shows for each address
    answer,       \* the locations of the last answer to a request
    changes       \* the notifications received, for the bound

vars == <<documents, data, lock, started, events, workers, toPublish, shown, answer, changes>>

----------------------------------------------------------------------------
(* The workspace's documents. *)

Document(u, c) == [url |-> u, content |-> c, diagnostics |-> {}]

\* Fault: a file event adds the document whatever is there.
Resolved_Always(docs, u, c) == Append(docs, Document(u, c))

\* A document is added once, whatever its content has become since.
Resolved(docs, u, c) ==
    IF \A i \in DOMAIN docs : docs[i].url # u THEN Append(docs, Document(u, c)) ELSE docs

\* Vec::retain, on the documents that have another address.
Retained(docs, u) ==
    LET kept[n \in 0 .. Len(docs)] ==
            IF n = 0 THEN <<>>
            ELSE IF docs[n].url = u THEN kept[n - 1] ELSE Append(kept[n - 1], docs[n])
    IN kept[Len(docs)]

\* A change of the whole text replaces the content, a partial one is skipped.
Edited(docs, u, c, full) ==
    [i \in DOMAIN docs |->
        IF full /\ docs[i].url = u THEN [docs[i] EXCEPT !.content = c] ELSE docs[i]]

(* What CompilationTask makes of the documents: it stops after parsing when  *)
(* one does not parse, and after loading when one uses an unknown symbol.    *)

Definers(docs, s) == {i \in DOMAIN docs : s \in docs[i].content.defines}
Users(docs, s)    == {i \in DOMAIN docs : s \in docs[i].content.uses}

Unparsed(docs) == {i \in DOMAIN docs : docs[i].content.fault = "syntax"}
Unknown(docs)  == {i \in DOMAIN docs : \E s \in docs[i].content.uses : Definers(docs, s) = {}}
Unbuilt(docs)  == {i \in DOMAIN docs : docs[i].content.fault = "build"}

Loads(docs) == Unparsed(docs) = {} /\ Unknown(docs) = {}

Problems(docs, i) ==
    IF Unparsed(docs) # {}     THEN {p \in {"syntax"} : i \in Unparsed(docs)}
    ELSE IF Unknown(docs) # {} THEN {p \in {"unknown"} : i \in Unknown(docs)}
    ELSE {p \in {"build"} : i \in Unbuilt(docs)}

\* Fault: a document keeps the diagnostics of earlier compilations.
Linted_Kept(docs) ==
    [i \in DOMAIN docs |-> [docs[i] EXCEPT !.diagnostics = @ \cup Problems(docs, i)]]

\* Every document is linted afresh: the diagnostics of before are cleared.
Linted(docs) == [i \in DOMAIN docs |-> [docs[i] EXCEPT !.diagnostics = Problems(docs, i)]]

NoData == [loaded |-> FALSE, inputs |-> <<>>]

\* The data keeps the inputs by index.  The code does not keep their addresses:
\* they are here to say what a correct answer is.
Inputs(docs) == [i \in DOMAIN docs |-> [url |-> docs[i].url, content |-> docs[i].content]]

Loaded(docs) == IF Loads(docs) THEN [loaded |-> TRUE, inputs |-> Inputs(docs)] ELSE NoData

----------------------------------------------------------------------------
Init ==
    /\ documents = <<>>
    /\ data = NoData
    /\ lock = "free"
    /\ started = FALSE
    /\ events = <<>>
    /\ workers = 0
    /\ toPublish = {}
    /\ shown = [u \in Urls |-> {}]
    /\ answer = {}
    /\ changes = 0

MayWrite == lock = "free"
MayRead  == lock = "free"

\* Fault: a handler that forgets to spawn the worker.
Execute_Never == workers' = workers

\* Backend::execute, called while the handler still holds the lock.
Execute == workers' = workers + 1

(* initialize: scan_workspace adds the files it finds; when one cannot be    *)
(* read the request fails, nothing is spawned and the client may try again.  *)

Initialize ==
    /\ ~started /\ MayWrite
    /\ lock' = "initialize"
    /\ UNCHANGED <<documents, data, started, events, workers, toPublish, shown, answer, changes>>

ScanFile(u, c) ==
    /\ lock = "initialize"
    /\ documents' = Resolved(documents, u, c)
    /\ UNCHANGED <<data, lock, started, events, workers, toPublish, shown, answer, changes>>

ScanFails ==
    /\ lock = "initialize"
    /\ lock' = "free"
    /\ UNCHANGED <<documents, data, started, events, workers, toPublish, shown, answer, changes>>

ScanDone ==
    /\ lock = "initialize"
    /\ started' = TRUE
    /\ lock' = "free"
    /\ Execute
    /\ UNCHANGED <<documents, data, events, toPublish, shown, answer, changes>>

(* did_change_watched_files: the events in order; one that cannot be handled *)
(* ends the notification, and the worker is spawned all the same.            *)

Event == [typ : {"created", "changed", "deleted"}, uri : Urls]

DidChangeWatchedFiles(batch) ==
    /\ started /\ MayWrite /\ changes < MaxChanges
    /\ changes' = changes + 1
    /\ lock' = "events"
    /\ events' = batch
    /\ UNCHANGED <<documents, data, started, workers, toPublish, shown, answer>>

EventCreated(c) ==
    /\ lock = "events" /\ events # <<>> /\ Head(events).typ = "created"
    /\ documents' = Resolved(documents, Head(events).uri, c)
    /\ events' = Tail(events)
    /\ UNCHANGED <<data, lock, started, workers, toPublish, shown, answer, changes>>

\* Fault: the handler returns the error, as the one of initialize does.
EventUnreadable_Returns ==
    /\ lock = "events" /\ events # <<>> /\ Head(events).typ = "created"
    /\ events' = <<>>
    /\ lock' = "free"
    /\ UNCHANGED <<documents, data, started, workers, toPublish, shown, answer, changes>>

EventUnreadable ==
    /\ lock = "events" /\ events # <<>> /\ Head(events).typ = "created"
    /\ events' = <<>>
    /\ UNCHANGED <<documents, data, lock, started, workers, toPublish, shown, answer, changes>>

EventChanged ==
    /\ lock = "events" /\ events # <<>> /\ Head(events).typ = "changed"
    /\ events' = Tail(events)
    /\ UNCHANGED <<documents, data, lock, started, workers, toPublish, shown, answer, changes>>

EventDeleted ==
    /\ lock = "events" /\ events # <<>> /\ Head(events).typ = "deleted"
    /\ documents' = Retained(documents, Head(events).uri)
    /\ events' = Tail(events)
    /\ UNCHANGED <<data, lock, started, workers, toPublish, shown, answer, changes>>

EventsDone ==
    /\ lock = "events" /\ events = <<>>
    /\ lock' = "free"
    /\ Execute
    /\ UNCHANGED <<documents, data, started, events, toPublish, shown, answer, changes>>

(* did_change: an edit of an open document. *)

DidChange(u, c, full) ==
    /\ started /\ MayWrite /\ changes < MaxChanges
    /\ changes' = changes + 1
    /\ documents' = Edited(documents, u, c, full)
    /\ Execute
    /\ UNCHANGED <<data, lock, started, events, toPublish, shown, answer>>

(* Backend::worker. *)

Lint ==
    /\ workers > 0 /\ MayWrite
    /\ lock' = "worker"
    /\ workers' = workers - 1
    /\ documents' = Linted(documents)
    /\ data' = Loaded(documents)
    /\ toPublish' = DOMAIN documents
    /\ UNCHANGED <<started, events, shown, answer, changes>>

\* join_all sends the diagnostics of the documents in any order.
Publish(i) ==
    /\ lock = "worker" /\ i \in toPublish
    /\ shown' = [shown EXCEPT ![documents[i].url] = documents[i].diagnostics]
    /\ toPublish' = toPublish \ {i}
    /\ UNCHANGED <<documents, data, lock, started, events, workers, answer, changes>>

Published ==
    /\ lock = "worker" /\ toPublish = {}
    /\ lock' = "free"
    /\ UNCHANGED <<documents, data, started, events, workers, toPublish, shown, answer, changes>>

----------------------------------------------------------------------------
(* The read handlers.  get_location takes the address of the document that   *)
(* has NOW the index an input had when the data was loaded, and panics when  *)
(* there is none.  An answer is a set of locations: the address given, and   *)
(* the address of the document the data was read from.                       *)

Location(j) ==
    [given  |-> IF j \in DOMAIN documents THEN documents[j].url ELSE "panic",
     actual |-> data.inputs[j].url]

Answer(locations) == answer' = locations
                     /\ UNCHANGED <<documents, data, lock, started, events, workers, toPublish, shown, changes>>

\* The input at the index of the document asked about.
Asked(u, i) == started /\ MayRead /\ data.loaded /\ i \in DOMAIN documents \cap DOMAIN data.inputs /\ documents[i].url = u

Mentions(c) == c.defines \cup c.uses

GetDefinitionAt(u, i, s) ==
    /\ Asked(u, i) /\ s \in Mentions(data.inputs[i].content)
    /\ Definers(data.inputs, s) # {}
    /\ Answer({Location(j) : j \in Definers(data.inputs, s)})

GetReferencesAt(u, i, s) ==
    /\ Asked(u, i) /\ s \in Mentions(data.inputs[i].content)
    /\ Answer({Location(j) : j \in Definers(data.inputs, s) \cup Users(data.inputs, s)})

\* get_symbol_description_at and get_code_lens answer for the document asked about.
Describe(u, i) ==
    /\ Asked(u, i) /\ Mentions(data.inputs[i].content) # {}
    /\ Answer({Location(i)})

LookupSymbols(s) ==
    /\ started /\ MayRead /\ data.loaded /\ Definers(data.inputs, s) # {}
    /\ Answer({Location(j) : j \in Definers(data.inputs, s)})

Symbols == UNION {Mentions(c) : c \in Contents}

Query ==
    \/ \E u \in Urls, i \in DOMAIN documents :
         \/ Describe(u, i)
         \/ \E s \in Symbols : GetDefinitionAt(u, i, s) \/ GetReferencesAt(u, i, s)
    \/ \E s \in Symbols : LookupSymbols(s)

----------------------------------------------------------------------------
Batches == UNION {[1 .. n -> Event] : n \in 1 .. MaxBatch}

HandleEvent == (\E c \in Contents : EventCreated(c)) \/ EventUnreadable \/ EventChanged \/ EventDeleted \/ EventsDone

Work == Lint \/ Published \/ \E i \in toPublish : Publish(i)

Idle == started /\ lock = "free" /\ workers = 0

\* shutdown changes nothing; nor does a client that sends nothing any more.
Shutdown == Idle /\ UNCHANGED vars

Next ==
    \/ Shutdown
    \/ Initialize \/ ScanFails \/ ScanDone
    \/ \E u \in Urls, c \in Contents : ScanFile(u, c)
    \/ \E batch \in Batches : DidChangeWatchedFiles(batch)
    \/ HandleEvent
    \/ \E u \in Urls, c \in Contents, full \in BOOLEAN : DidChange(u, c, full)
    \/ Work
    \/ Query

\* A handler that has the lock runs to its end, and tokio's lock is fair: a
\* worker that waits for it gets it.
Spec == Init /\ [][Next]_vars /\ WF_vars(HandleEvent) /\ WF_vars(Work)

----------------------------------------------------------------------------
(* Properties. *)

Locations == [given : Urls \cup {"panic"}, actual : Urls]

ProblemKinds == {"syntax", "unknown", "build"}
Documents == [url : Urls, content : Contents, diagnostics : SUBSET ProblemKinds]

TypeOK ==
    /\ documents \in Seq(Documents)
    /\ data \in [loaded : BOOLEAN, inputs : Seq([url : Urls, content : Contents])]
    /\ lock \in {"free", "initialize", "events", "worker"}
    /\ started \in BOOLEAN
    /\ events \in Seq(Event)
    /\ workers \in Nat
    /\ toPublish \subseteq Nat
    /\ shown \in [Urls -> SUBSET ProblemKinds]
    /\ answer \subseteq Locations
    /\ changes \in Nat

\* Once no worker is left, the data the requests are answered from is that of
\* the documents as they are, input by input: every handler that changes a
\* document leaves a worker behind it (main.rs:130-142, workspace.rs:232-271).
\* However files are scanned, created again and deleted, an address has one
\* document: the handlers find a document by its address (workspace.rs:189-193).
DataInSync ==
    /\ \A i, j \in DOMAIN documents : documents[i].url = documents[j].url => i = j
    /\ Idle =>
        /\ data.loaded <=> Loads(documents)
        /\ data.loaded => data.inputs = Inputs(documents)

\* Once no worker is left, the client shows for every document the problems of
\* the documents as they are: a lint that started before a change never
\* publishes after the lint of that change (main.rs:68-78).
ShownInSync ==
    Idle => \A i \in DOMAIN documents : shown[documents[i].url] = Problems(documents, i)

\* After the last change every worker gets its turn and the client ends up
\* showing the problems of the documents as they are (main.rs:81-83).
Converges ==
    (started /\ changes = MaxChanges) ~> [](Idle /\ ShownInSync)

\* A request served when no worker is left is answered with the documents the
\* symbols were read from: indices of the data are indices of the documents,
\* whatever was created and deleted before (workspace.rs:345-404, get_location).
AnswersWhenIdle ==
    [][Idle => (answer' # answer => \A l \in answer' : l.given = l.actual)]_vars

\* A location in an answer names the document the symbol was read from
\* (get_location, workspace.rs).  The run that checks it finds it violated.
AnswersLocate ==
    \A l \in answer : l.given = l.actual
=============================================================================
