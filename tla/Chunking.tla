------------------------------ MODULE Chunking ------------------------------
(***************************************************************************)
(* chunk_document of app/core/document_parser.py, word by word: a window   *)
(* over the words of all pages, cut into chunks that overlap, each with    *)
(* the pages it is cited by.  A text is the sequence of its words' pages,  *)
(* and a chunk holds its words by their positions.  parse_and_chunk_pdf    *)
(* refuses a document without text.                                        *)
(***************************************************************************)
EXTENDS Naturals, Sequences

CONSTANTS
    Documents,    \* the texts
    Target,       \* target_tokens: 512 words
    Overlap       \* overlap_tokens: 50 words

ASSUME ChunkingAssumption ==
    /\ Documents \subseteq Seq(Nat) \ {<<>>}
    /\ Target \in Nat
    /\ Overlap \in 1..(Target - 1)

VARIABLES
    pageOf,       \* the text
    next,         \* position of the next word
    from,         \* position of the first of accumulated_words
    span,         \* current_pages
    chunks,
    flushed       \* the loop is over and the rest is a chunk

chunkingVars == <<pageOf, next, from, span, chunks, flushed>>

\* accumulated_words
Accumulated == next - from

ChunkingTypeOK ==
    /\ pageOf \in Documents
    /\ next \in 1..(Len(pageOf) + 1)
    /\ from \in 1..next
    /\ Accumulated < Target
    /\ span \subseteq Nat
    /\ chunks \in Seq([first: Nat, last: Nat, pages: SUBSET Nat])
    /\ flushed \in BOOLEAN

ChunkingInit ==
    /\ pageOf \in Documents
    /\ next = 1
    /\ from = 1
    /\ span = {}
    /\ chunks = <<>>
    /\ flushed = FALSE

\* Mutant: the chunk is cut one word late
FullLate == Accumulated + 1 > Target

\* The word at next fills the chunk.
Full == Accumulated + 1 >= Target

AddWord ==
    /\ next <= Len(pageOf)
    /\ ~Full
    /\ next' = next + 1
    /\ span' = span \cup {pageOf[next]}
    /\ UNCHANGED <<pageOf, from, chunks, flushed>>

Emit(last, pages) ==
    chunks' = Append(chunks, [first |-> from, last |-> last, pages |-> pages])

\* Mutant: one word less is carried over
CutShort ==
    /\ next <= Len(pageOf)
    /\ Full
    /\ Emit(next, span \cup {pageOf[next]})
    /\ next' = next + 1
    /\ from' = next + 2 - Overlap
    /\ span' = {pageOf[next]}
    /\ UNCHANGED <<pageOf, flushed>>

\* Mutant: current_pages is not reset
CutKeepingPages ==
    /\ next <= Len(pageOf)
    /\ Full
    /\ Emit(next, span \cup {pageOf[next]})
    /\ next' = next + 1
    /\ from' = next + 1 - Overlap
    /\ span' = span \cup {pageOf[next]}
    /\ UNCHANGED <<pageOf, flushed>>

\* The chunk's last words are carried over, but only the last one's page.
Cut ==
    /\ next <= Len(pageOf)
    /\ Full
    /\ Emit(next, span \cup {pageOf[next]})
    /\ next' = next + 1
    /\ from' = next + 1 - Overlap
    /\ span' = {pageOf[next]}
    /\ UNCHANGED <<pageOf, flushed>>

\* The words left over, be they only carried over from the last chunk
Flush ==
    /\ next > Len(pageOf)
    /\ ~flushed
    /\ flushed' = TRUE
    /\ IF Accumulated > 0 THEN Emit(Len(pageOf), span) ELSE UNCHANGED chunks
    /\ UNCHANGED <<pageOf, next, from, span>>

ChunkingNext == AddWord \/ Cut \/ Flush

ChunkingSpec == ChunkingInit /\ [][ChunkingNext]_chunkingVars

-----------------------------------------------------------------------------
(* Properties.                                                             *)

\* The chunks leave no word out: the first begins with the text, each goes
\* on exactly Overlap words before the end of the one before, and after the
\* last word is read the last of them ends with the text.
ChunksCover ==
    /\ chunks # <<>> => chunks[1].first = 1
    /\ \A i \in 1..(Len(chunks) - 1) :
          chunks[i + 1].first + Overlap = chunks[i].last + 1
    /\ flushed => chunks # <<>> /\ chunks[Len(chunks)].last = Len(pageOf)

\* A citation names no page that its chunk has no word of, although the set
\* of pages is carried from one chunk to the next.
CitedPagesAreTrue ==
    \A i \in 1..Len(chunks) : \A p \in chunks[i].pages :
        \E k \in chunks[i].first..chunks[i].last : pageOf[k] = p
=============================================================================
