--------------------------------- MODULE RAG ---------------------------------
(***************************************************************************)
(* The knowledge base: ingestion of documents, one embedding per chunk,    *)
(* hybrid search, and deletion, while other requests run between any two   *)
(* embeddings.                                                             *)
(*                                                                         *)
(* A text is its length; a chunk is an interval of its characters.  Which  *)
(* chunks a query finds by meaning and which by its words is left open, as *)
(* are scores, ranks and the context that is put together from the chunks. *)
(* The answer that ask() adds to a search changes nothing here: the method *)
(* it calls on the LLM gateway does not exist, and the exception is taken  *)
(* for a failure of the model.                                             *)
(***************************************************************************)
EXTENDS Requests, Integers, SequencesExt

CONSTANTS
  TextLists,              \* what is ingested at once: texts [length, tenant]
  ChunkSize, Overlap,     \* chunk_size and chunk_overlap
  TopK,                   \* chunks a search returns
  ChunkLimit              \* bound: chunks ever stored

ASSUME RAGAssumption ==
  /\ ChunkSize \in Nat \ {0} /\ Overlap \in Nat /\ Overlap < ChunkSize
  /\ TopK \in Nat /\ ChunkLimit \in Nat
  /\ \A texts \in TextLists : \A i \in DOMAIN texts : i \in Nat /\ texts[i].length \in Nat

VARIABLES
  documents,    \* InMemoryVectorStore._documents
  embeddings,   \* the ids of InMemoryVectorStore._embeddings
  sources,      \* "_source" in each metadata dictionary
  stored,       \* chunks ever stored, and metadata dictionaries ever kept
  ragCalls      \* requests that wait for an embedding

ragVars == <<documents, embeddings, sources, stored, ragCalls>>

Idle == [kind |-> None, texts |-> <<>>, left |-> {}, embedded |-> 0, filter |-> None]

RAGInit ==
  /\ documents = <<>> /\ embeddings = {} /\ sources = <<>> /\ stored = 0
  /\ ragCalls = [c \in Calls |-> Idle]

-----------------------------------------------------------------------------
(* Chunks of a text: the characters from .first + 1 to .last. *)

\* Mutant: the last characters get no chunk.
ChunksWithoutTail(length) ==
  IF length <= ChunkSize THEN <<[first |-> 0, last |-> length]>>
  ELSE [i \in 1..(length \div ChunkSize) |->
          LET first == (i - 1) * (ChunkSize - Overlap)
          IN  [first |-> first, last |-> Min({first + ChunkSize, length})]]

Chunks(length) ==
  IF length <= ChunkSize THEN <<[first |-> 0, last |-> length]>>
  ELSE [i \in 1..((length - 1) \div (ChunkSize - Overlap) + 1) |->
          LET first == (i - 1) * (ChunkSize - Overlap)
          IN  [first |-> first, last |-> Min({first + ChunkSize, length})]]

-----------------------------------------------------------------------------
(* Ingestion. *)

\* The chunks of a text share the metadata dictionary of the request, which names the
\* tenant; when none was given each has an empty one of its own.
Stored(text) ==
  [i \in 1..Len(Chunks(text.length)) |->
     [text |-> stored + 1, length |-> text.length, span |-> Chunks(text.length)[i],
      tenant |-> text.tenant, metadata |-> stored + IF text.tenant = None THEN i ELSE 1]]

\* A text that was left empty in a batch is skipped; one that is refused alone never
\* gets here.
Ingest(c, texts) ==
  /\ ragCalls[c] = Idle
  /\ ragCalls' = [ragCalls EXCEPT ![c] =
       [Idle EXCEPT !.kind = "ingest", !.texts = texts,
                    !.left = {i \in DOMAIN texts : texts[i].length > 0}]]
  /\ UNCHANGED <<documents, embeddings, sources, stored>>

Add(text) ==
  LET n == Len(Chunks(text.length))
      ids == (stored + 1)..(stored + n)
  IN  /\ stored + n <= ChunkLimit
      /\ stored' = stored + n
      /\ documents' = [d \in DOMAIN documents \cup ids |->
                         IF d \in ids THEN Stored(text)[d - stored] ELSE documents[d]]
      /\ embeddings' = embeddings \cup ids
      /\ sources' = [o \in DOMAIN sources \cup {Stored(text)[i].metadata : i \in 1..n} |->
                       IF o \in DOMAIN sources THEN sources[o] ELSE None]

\* The chunks of a text are stored together, when the last of them is embedded.
Embedded(c) ==
  LET first == Min(ragCalls[c].left)
      text == ragCalls[c].texts[first]
  IN  /\ ragCalls[c].left # {}
      /\ IF ragCalls[c].embedded + 1 = Len(Chunks(text.length))
         THEN /\ Add(text)
              /\ ragCalls' = [ragCalls EXCEPT ![c].embedded = 0, ![c].left = @ \ {first}]
         ELSE /\ ragCalls' = [ragCalls EXCEPT ![c].embedded = @ + 1]
              /\ UNCHANGED <<documents, embeddings, sources, stored>>

IngestReturns(c) ==
  /\ ragCalls[c].kind = "ingest" /\ ragCalls[c].left = {}
  /\ ragCalls' = [ragCalls EXCEPT ![c] = Idle]
  /\ UNCHANGED <<documents, embeddings, sources, stored>>

\* The provider of embeddings fails: a text is not stored, those before it in a batch are.
EmbeddingFails(c) ==
  /\ ragCalls[c].kind = "search" \/ ragCalls[c].left # {}
  /\ ragCalls' = [ragCalls EXCEPT ![c] = Idle]
  /\ UNCHANGED <<documents, embeddings, sources, stored>>

-----------------------------------------------------------------------------
(* Search. *)

Search(c, filter) ==
  /\ ragCalls[c] = Idle
  /\ ragCalls' = [ragCalls EXCEPT ![c] = [Idle EXCEPT !.kind = "search", !.filter = filter]]
  /\ UNCHANGED <<documents, embeddings, sources, stored>>

Matching(filter) ==
  {d \in DOMAIN documents : filter = None \/ documents[d].tenant = filter}

\* The merge notes in each dictionary how its chunk was found: by meaning first, then, in
\* the order of their scores, those found by words, so the last chunk of a shared
\* dictionary decides.
Merge(semantic, keyword) ==
  LET With(ds, o) == {d \in ds : documents[d].metadata = o}
  IN  \E last \in {f \in [DOMAIN sources -> keyword \cup {None}] :
                     \A o \in DOMAIN sources :
                       IF With(keyword, o) = {} THEN f[o] = None
                       ELSE f[o] \in With(keyword, o)} :
        sources' = [o \in DOMAIN sources |->
                      IF last[o] # None
                      THEN IF last[o] \in semantic THEN "hybrid" ELSE "keyword"
                      ELSE IF With(semantic, o) # {} THEN "semantic" ELSE sources[o]]

SearchReturns(c) ==
  /\ ragCalls[c].kind = "search"
  /\ \E semantic \in SUBSET (Matching(ragCalls[c].filter) \cap embeddings),
        keyword \in SUBSET Matching(ragCalls[c].filter) :
       /\ Cardinality(semantic) <= 2 * TopK /\ Cardinality(keyword) <= 2 * TopK
       /\ Merge(semantic, keyword)
  /\ ragCalls' = [ragCalls EXCEPT ![c] = Idle]
  /\ UNCHANGED <<documents, embeddings, stored>>

-----------------------------------------------------------------------------
(* Deletion. *)

Delete(ids) ==
  /\ documents' = [d \in DOMAIN documents \ ids |-> documents[d]]
  /\ embeddings' = embeddings \ ids
  /\ sources' = [o \in {documents[d].metadata : d \in DOMAIN documents \ ids} |-> sources[o]]
  /\ UNCHANGED <<stored, ragCalls>>

DeleteDocument(d) == Delete({d})

DeleteByFilter(filter) == Delete(Matching(filter))

ClearKnowledgeBase == Delete(DOMAIN documents)

RAGNext ==
  \/ \E c \in Calls :
       \/ \E texts \in TextLists : Ingest(c, texts)
       \/ Embedded(c) \/ IngestReturns(c) \/ EmbeddingFails(c)
       \/ \E filter \in Tenants \cup {None} : Search(c, filter)
       \/ SearchReturns(c)
  \/ \E d \in DOMAIN documents : DeleteDocument(d)
  \/ \E filter \in Tenants : DeleteByFilter(filter)
  \/ ClearKnowledgeBase

RAGSpec == RAGInit /\ [][RAGNext]_ragVars

-----------------------------------------------------------------------------
\* Properties.

\* A search reads the document of every embedding, and a document without one is never
\* found by its meaning.
IndexAgrees == embeddings = DOMAIN documents

\* A text enters the knowledge base as a whole, every character of it in a chunk, and a
\* chunk never changes, whichever requests run between its embeddings and however they
\* end.
EntersWhole ==
  LET entered == DOMAIN documents' \ DOMAIN documents
  IN  /\ \A d \in DOMAIN documents \cap DOMAIN documents' : documents'[d] = documents[d]
      /\ \A d \in entered :
           /\ \A e \in DOMAIN documents : documents[e].text # documents'[d].text
           /\ 1..documents'[d].length =
                UNION {(documents'[e].span.first + 1)..documents'[e].span.last :
                         e \in {f \in entered : documents'[f].text = documents'[d].text}}

TextsWhole == [][EntersWhole]_ragVars

\* Whichever requests run between two embeddings: the index agrees with the documents, and
\* texts enter as a whole and stay.
TextsHold == []IndexAgrees /\ TextsWhole
=============================================================================
