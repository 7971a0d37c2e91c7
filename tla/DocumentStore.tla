--------------------------- MODULE DocumentStore ---------------------------
(***************************************************************************)
(* What is kept of a document: in Redis its meta data, its parsed chunks   *)
(* and its place in the ticker's list, in PostgreSQL its embedded chunks.  *)
(* Uploads are ingested and embedded by two routes of                      *)
(* app/routers/documents.py; filings are stored and embedded at once by    *)
(* sync_edgar_filings_for_ticker of app/workers/edgar_worker.py, called by *)
(* the route /edgar/sync (nothing starts the daemon of that file).         *)
(*                                                                         *)
(* The id of a document is new and known to nobody before it is listed or  *)
(* returned, so what ingestion writes is one step, of which a failing call *)
(* leaves a part.  Transactions are taken as in MarketStore.               *)
(***************************************************************************)
EXTENDS Naturals

CONSTANTS
    Uploads, Filings,   \* documents
    Embeds,             \* runs of embed_document_chunks
    Edgar,              \* the EDGAR sync as a writer of chunks
    Indexes             \* chunk indexes of a document

ASSUME DocumentAssumption ==
    /\ Uploads \cap Filings = {}
    /\ Edgar \notin Embeds
    /\ Indexes # {}

VARIABLES
    ingested,     \* documents whose id is out
    meta,         \* doc:{id}:meta
    parsed,       \* documents whose doc:{id}:chunks is there
    listed,       \* docs:ticker:{ticker}
    chunkRows,    \* committed rows of document_chunks, with their writer
    syncing,      \* filings whose rows are committed and nothing else yet
    embed         \* step and local variables of each run

documentVars == <<ingested, meta, parsed, listed, chunkRows, syncing, embed>>

Docs == Uploads \cup Filings
ChunkRows == Docs \X Indexes \X (Embeds \cup {Edgar})
RowsOf(d) == {r \in chunkRows : r[1] = d}

DocumentTypeOK ==
    /\ ingested \subseteq Docs
    /\ meta \in [Docs -> {"none", "parsed", "EMBEDDED"}]
    /\ parsed \subseteq Uploads
    /\ listed \subseteq Docs
    /\ chunkRows \subseteq ChunkRows
    /\ syncing \subseteq Filings
    /\ embed \in [Embeds -> [pc: {"idle", "chunks", "delete", "commit", "mark",
                                  "done"},
                             doc: Docs \cup {"none"}, victims: SUBSET ChunkRows]]

DocumentInit ==
    /\ ingested = {}
    /\ meta = [d \in Docs |-> "none"]
    /\ parsed = {}
    /\ listed = {}
    /\ chunkRows = {}
    /\ syncing = {}
    /\ embed = [e \in Embeds |-> [pc |-> "idle", doc |-> "none", victims |-> {}]]

Goto(e, pc) == embed' = [embed EXCEPT ![e].pc = pc]

-----------------------------------------------------------------------------
(* ingest_document                                                         *)

\* Meta data, chunks and list, in this order, as far as Redis answers; the
\* caller is told 201 and the id in any case.
Ingest(d) ==
    /\ d \in Uploads \ ingested
    /\ ingested' = ingested \cup {d}
    /\ \/ UNCHANGED <<meta, parsed, listed>>
       \/ /\ meta' = [meta EXCEPT ![d] = "parsed"]
          /\ \/ UNCHANGED <<parsed, listed>>
             \/ parsed' = parsed \cup {d} /\ listed' \in {listed, listed \cup {d}}
    /\ UNCHANGED <<chunkRows, syncing, embed>>

\* The keys live seven days, each from its own last SET.
MetaExpires(d) ==
    /\ meta[d] # "none"
    /\ meta' = [meta EXCEPT ![d] = "none"]
    /\ UNCHANGED <<ingested, parsed, listed, chunkRows, syncing, embed>>

ChunksExpire(d) ==
    /\ d \in parsed
    /\ parsed' = parsed \ {d}
    /\ UNCHANGED <<ingested, meta, listed, chunkRows, syncing, embed>>

ListExpires ==
    /\ listed # {}
    /\ listed' = {}
    /\ UNCHANGED <<ingested, meta, parsed, chunkRows, syncing, embed>>

-----------------------------------------------------------------------------
(* embed_document_chunks                                                   *)

\* 404 without meta data
ReadMeta(e) ==
    /\ embed[e].pc = "idle"
    /\ \E d \in ingested :
          embed' = [embed EXCEPT ![e] =
                     [pc |-> IF meta[d] = "none" THEN "done" ELSE "chunks",
                      doc |-> d, victims |-> {}]]
    /\ UNCHANGED <<ingested, meta, parsed, listed, chunkRows, syncing>>

\* 404 without parsed chunks, as of any filing; then the batch is embedded.
ReadChunks(e) ==
    /\ embed[e].pc = "chunks"
    /\ Goto(e, IF embed[e].doc \in parsed THEN "delete" ELSE "done")
    /\ UNCHANGED <<ingested, meta, parsed, listed, chunkRows, syncing>>

\* Mutant: the DELETE is committed on its own
DeleteCommitted(e) ==
    /\ embed[e].pc = "delete"
    /\ chunkRows' = chunkRows \ RowsOf(embed[e].doc)
    /\ embed' = [embed EXCEPT ![e] = [@ EXCEPT !.pc = "commit",
                                               !.victims = RowsOf(embed[e].doc)]]
    /\ UNCHANGED <<ingested, meta, parsed, listed, syncing>>

DeleteRows(e) ==
    /\ embed[e].pc = "delete"
    /\ embed' = [embed EXCEPT ![e] = [@ EXCEPT !.pc = "commit",
                                               !.victims = RowsOf(embed[e].doc)]]
    /\ UNCHANGED <<ingested, meta, parsed, listed, chunkRows, syncing>>

\* chunk_id and (document_id, chunk_index) are unique.
InsertRows(e) ==
    LET d == embed[e].doc IN
    /\ embed[e].pc = "commit"
    /\ RowsOf(d) \subseteq embed[e].victims
    /\ chunkRows' = (chunkRows \ embed[e].victims) \cup ({d} \X Indexes \X {e})
    /\ Goto(e, "mark")
    /\ UNCHANGED <<ingested, meta, parsed, listed, syncing>>

\* The meta data read at the start, back with the new status
MarkEmbedded(e) ==
    /\ embed[e].pc = "mark"
    /\ meta' = [meta EXCEPT ![embed[e].doc] = "EMBEDDED"]
    /\ Goto(e, "done")
    /\ UNCHANGED <<ingested, parsed, listed, chunkRows, syncing>>

\* A conflict, a failing call, or the death of the process: 500.
EmbedFails(e) ==
    /\ embed[e].pc \in {"chunks", "delete", "commit", "mark"}
    /\ Goto(e, "done")
    /\ UNCHANGED <<ingested, meta, parsed, listed, chunkRows, syncing>>

-----------------------------------------------------------------------------
(* sync_edgar_filings_for_ticker                                           *)

SyncRows(d) ==
    /\ d \in Filings \ (ingested \cup syncing)
    /\ chunkRows' = chunkRows \cup ({d} \X Indexes \X {Edgar})
    /\ syncing' = syncing \cup {d}
    /\ UNCHANGED <<ingested, meta, parsed, listed, embed>>

\* Meta data and list, as far as Redis answers, and the answer "SYNCED"
SyncMeta(d) ==
    /\ d \in syncing
    /\ syncing' = syncing \ {d}
    /\ ingested' = ingested \cup {d}
    /\ \/ UNCHANGED <<meta, listed>>
       \/ /\ meta' = [meta EXCEPT ![d] = "EMBEDDED"]
          /\ listed' \in {listed, listed \cup {d}}
    /\ UNCHANGED <<parsed, chunkRows, embed>>

DocumentNext ==
    \/ \E d \in Docs :
          \/ Ingest(d) \/ MetaExpires(d) \/ ChunksExpire(d)
          \/ SyncRows(d) \/ SyncMeta(d)
    \/ ListExpires
    \/ \E e \in Embeds :
          \/ ReadMeta(e) \/ ReadChunks(e) \/ DeleteRows(e) \/ InsertRows(e)
          \/ MarkEmbedded(e) \/ EmbedFails(e)

DocumentSpec == DocumentInit /\ [][DocumentNext]_documentVars

-----------------------------------------------------------------------------
(* Properties.                                                             *)

\* A document whose progress is reported as COMPLETED can be searched in
\* full: all its chunks are in the table, and they are of one embedding run,
\* however runs overlap, fail half-way or outlive the keys.
EmbeddedMeansStored ==
    \A d \in Docs : meta[d] = "EMBEDDED" =>
        \E w \in Embeds \cup {Edgar} : RowsOf(d) = {d} \X Indexes \X {w}
=============================================================================
