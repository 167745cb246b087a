----------------------------- MODULE Documents -----------------------------
(***************************************************************************)
(* One document: a request that uploads or pastes it, or the demo seed,    *)
(* a request that deletes it, and analyses that begin with it.  Every      *)
(* statement commits by itself, so an analysis may meet a document of      *)
(* which only a part is stored (api/v1/documents.py, services/pipeline.py, *)
(* scripts/seed.py).                                                       *)
(*                                                                         *)
(* Chunking decides what the chunks are: they are the same whoever cuts.   *)
(***************************************************************************)
EXTENDS Integers, FiniteSets

CONSTANTS
    Chunks,         \* that the text has
    Attempts        \* at analyses of the document, of any policy

DocumentsAssumption == IsFiniteSet(Chunks) /\ Chunks # {}

VARIABLES
    document,       \* the row
    stored,         \* the chunks that have a row
    indexed,        \* those whose row has an embedding
    creating,       \* what the request or script that makes the document does next
    pcAttempt,      \* per attempt, the await of the request or of the pipeline it is at
    listed,         \* per attempt, the chunks it works with
    pending         \* per attempt, the chunks it is to index

vars == <<document, stored, indexed, creating, pcAttempt, listed, pending>>

\* seeded is history: the row was made by the script.
Document == [status : {"absent", "chunking", "ready"}, archived : BOOLEAN,
             deleted : BOOLEAN, seeded : BOOLEAN]

AttemptPcs == {"none", "create", "read", "list", "cut", "relist", "missing", "embed",
               "index", "extract", "failed"}

TypeOK ==
    /\ document \in Document
    /\ stored \subseteq Chunks
    /\ indexed \subseteq stored
    /\ creating \in {"create", "archive", "chunk", "ready", "seed", "end"}
    /\ pcAttempt \in [Attempts -> AttemptPcs]
    /\ listed \in [Attempts -> SUBSET Chunks]
    /\ pending \in [Attempts -> SUBSET Chunks]

Init ==
    /\ document = [status |-> "absent", archived |-> FALSE,
                   deleted |-> FALSE, seeded |-> FALSE]
    /\ stored = {}
    /\ indexed = {}
    /\ creating = "create"
    /\ pcAttempt = [a \in Attempts |-> "none"]
    /\ listed = [a \in Attempts |-> {}]
    /\ pending = [a \in Attempts |-> {}]

attemptVars == <<indexed, pcAttempt, listed, pending>>

-----------------------------------------------------------------------------
(* upload_document and paste_document, and seed_demo.                      *)

\* A pasted text has no file to archive.
CreateDocument ==
    /\ creating = "create"
    /\ document' = [document EXCEPT !.status = "chunking"]
    /\ creating' \in {"archive", "chunk"}
    /\ UNCHANGED <<stored, attemptVars>>

\* What goes wrong with the storage is logged and ignored.
Archive ==
    /\ creating = "archive"
    /\ \E done \in BOOLEAN : document' = [document EXCEPT !.archived = done]
    /\ creating' = "chunk"
    /\ UNCHANGED <<stored, attemptVars>>

\* Faulty variant of PersistChunks: the document is ready before its chunks are.
PersistChunksOneByOne ==
    /\ creating = "chunk"
    /\ \E c \in Chunks \ stored : stored' = stored \cup {c}
    /\ document' = [document EXCEPT !.status = "ready"]
    /\ creating' = IF stored' = Chunks THEN "ready" ELSE "chunk"
    /\ UNCHANGED attemptVars

\* executemany is one transaction.
PersistChunks ==
    /\ creating = "chunk"
    /\ stored' = Chunks
    /\ creating' = "ready"
    /\ UNCHANGED <<document, attemptVars>>

MarkReady ==
    /\ creating = "ready"
    /\ document' = [document EXCEPT !.status = "ready"]
    /\ creating' = "end"
    /\ UNCHANGED <<stored, attemptVars>>

SeedDocument ==
    /\ creating = "create"
    /\ document' = [document EXCEPT !.status = "ready", !.seeded = TRUE]
    /\ creating' = "seed"
    /\ UNCHANGED <<stored, attemptVars>>

\* A chunk that an analysis has stored meanwhile is passed over.
SeedChunk ==
    /\ creating = "seed"
    /\ \E c \in Chunks \ stored : stored' = stored \cup {c}
    /\ UNCHANGED <<document, creating, attemptVars>>

\* An exception, or the end of the process.
CreatingStops ==
    /\ creating \notin {"create", "end"}
    /\ creating' = "end"
    /\ UNCHANGED <<document, stored, attemptVars>>

Visible == document.status # "absent" /\ ~ document.deleted

DeleteDocument ==
    /\ Visible
    /\ document' = [document EXCEPT !.deleted = TRUE]
    /\ UNCHANGED <<stored, creating, attemptVars>>

-----------------------------------------------------------------------------
(* create_analysis, and run up to the first category.                      *)

Goto(a, place) ==
    /\ pcAttempt' = [pcAttempt EXCEPT ![a] = place]
    /\ UNCHANGED <<document, creating>>

\* The request sees a document that is ready.
RequestAccepted(a) ==
    /\ pcAttempt[a] = "none"
    /\ Visible
    /\ document.status = "ready"
    /\ Goto(a, "create")
    /\ UNCHANGED <<stored, indexed, listed, pending>>

\* It creates the analysis, and some time later a worker begins.
AttemptBegins(a) ==
    /\ pcAttempt[a] = "create"
    /\ Goto(a, "read")
    /\ UNCHANGED <<stored, indexed, listed, pending>>

ReadDocument(a) ==
    /\ pcAttempt[a] = "read"
    /\ Goto(a, IF Visible THEN "list" ELSE "failed")
    /\ UNCHANGED <<stored, indexed, listed, pending>>

ListChunks(a) ==
    /\ pcAttempt[a] \in {"list", "relist"}
    /\ listed' = [listed EXCEPT ![a] = stored]
    /\ Goto(a, IF stored = {} /\ pcAttempt[a] = "list" THEN "cut" ELSE "missing")
    /\ UNCHANGED <<stored, indexed, pending>>

\* ON CONFLICT DO NOTHING: a chunk that is stored keeps its row.
CutDocument(a) ==
    /\ pcAttempt[a] = "cut"
    /\ stored' = Chunks
    /\ Goto(a, "relist")
    /\ UNCHANGED <<indexed, listed, pending>>

MissingEmbeddings(a) ==
    /\ pcAttempt[a] = "missing"
    /\ pending' = [pending EXCEPT ![a] = stored \ indexed]
    /\ Goto(a, IF stored \subseteq indexed THEN "extract" ELSE "embed")
    /\ UNCHANGED <<stored, indexed, listed>>

\* The vectors of all that is pending, from the provider or its cache.
Embed(a) ==
    /\ pcAttempt[a] = "embed"
    /\ Goto(a, "index")
    /\ UNCHANGED <<stored, indexed, listed, pending>>

\* Faulty variant of SetEmbedding: it ends where another attempt has been.
SetEmbeddingUntilSet(a) ==
    /\ pcAttempt[a] = "index"
    /\ \E c \in pending[a] :
         /\ indexed' = indexed \cup {c}
         /\ pending' = [pending EXCEPT ![a] = IF c \in indexed THEN {} ELSE @ \ {c}]
    /\ Goto(a, IF pending'[a] = {} THEN "extract" ELSE "index")
    /\ UNCHANGED <<stored, listed>>

SetEmbedding(a) ==
    /\ pcAttempt[a] = "index"
    /\ \E c \in pending[a] :
         /\ indexed' = indexed \cup {c}
         /\ pending' = [pending EXCEPT ![a] = @ \ {c}]
    /\ Goto(a, IF pending'[a] = {} THEN "extract" ELSE "index")
    /\ UNCHANGED <<stored, listed>>

\* A statement or the provider raises, or the worker dies.
AttemptFails(a) ==
    /\ pcAttempt[a] \notin {"none", "extract", "failed"}
    /\ Goto(a, "failed")
    /\ UNCHANGED <<stored, indexed, listed, pending>>

\* A failed attempt is followed by another.
AttemptAgain(a) ==
    /\ pcAttempt[a] = "failed"
    /\ listed' = [listed EXCEPT ![a] = {}]
    /\ pending' = [pending EXCEPT ![a] = {}]
    /\ Goto(a, "read")
    /\ UNCHANGED <<stored, indexed>>

Create ==
    \/ CreateDocument
    \/ Archive
    \/ PersistChunks
    \/ MarkReady
    \/ SeedDocument
    \/ SeedChunk
    \/ CreatingStops

Analyse(a) ==
    \/ RequestAccepted(a)
    \/ AttemptBegins(a)
    \/ ReadDocument(a)
    \/ ListChunks(a)
    \/ CutDocument(a)
    \/ MissingEmbeddings(a)
    \/ Embed(a)
    \/ SetEmbedding(a)
    \/ AttemptFails(a)
    \/ AttemptAgain(a)

Next ==
    \/ Create
    \/ DeleteDocument
    \/ \E a \in Attempts : Analyse(a)

Spec == Init /\ [][Next]_vars

-----------------------------------------------------------------------------
(* Properties.                                                             *)

\* An attempt works with the whole text of a document, also while it is being
\* uploaded or deleted and whoever else cuts it.  The demo seed stores a document
\* that is ready without its chunks, and an analysis may meet a part of them.
WholeTextIsReviewed ==
    \A a \in Attempts :
        pcAttempt[a] \in {"missing", "embed", "index", "extract"} /\ ~ document.seeded
            => listed[a] = Chunks

\* When an attempt begins to extract, every chunk it works with can be found by
\* meaning, also if other attempts index the same document or have failed half way.
ListedIsIndexed ==
    \A a \in Attempts : pcAttempt[a] = "extract" => listed[a] \subseteq indexed

\* An attempt extracts from the whole text of its document, and from nothing
\* that the searches cannot find (upload_document, run).
AttemptsArePrepared == WholeTextIsReviewed /\ ListedIsIndexed
=============================================================================
