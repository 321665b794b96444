--------------------------- MODULE DocumentBatches ---------------------------
(***************************************************************************)
(* A long document read by the model in batches of pages: split_by_pages   *)
(* and batch_page_texts of app/document_chunking.py, with the two places   *)
(* that use them.  The entity extraction (worker/entity_extraction.py)     *)
(* retries a batch the model refuses for its rate; the prose query (app/   *)
(* document_intelligence.py) does not, and gives the model no more than    *)
(* the target of each batch.  A page is its length.                        *)
(***************************************************************************)
EXTENDS Naturals, Sequences, FiniteSets, SequencesExt, FiniteSetsExt

CONSTANTS
    Lengths,   \* how long a page can be; an empty one is left out
    MaxPages,  \* bound: pages in a document
    Target,    \* target_chars
    Separator, \* what joins two pages in a batch
    Retries,   \* _BATCH_MAX_RETRIES
    Limit      \* _BATCH_SEMAPHORE_LIMIT, _PROSE_SEMAPHORE_LIMIT

VARIABLES
    use,     \* "extraction" or "prose"
    pages,   \* the lengths of the pages with text
    taken,   \* how many of them are in a batch
    parts,   \* the pages of the batch being filled
    batches, \* the batches that are full, each a sequence of pages
    call,    \* per batch [at, tries]; <<>> while batches are made
    read     \* the pages whose batch the result was merged from

batchVars == <<use, pages, taken, parts, batches, call, read>>

Length(ps) == MapThenSumSet(LAMBDA i : pages[ps[i]], DOMAIN ps)
TextLength(ps) == Length(ps) + Separator * (Len(ps) - 1)

\* Pages without text are not among the pages that are batched.
Init ==
    /\ use \in {"extraction", "prose"}
    /\ pages \in SeqOf({length \in Lengths : length > 0}, MaxPages)
    /\ taken = 0 /\ parts = <<>> /\ batches = <<>> /\ call = <<>> /\ read = {}

-----------------------------------------------------------------------------
(* The batches. *)

BatchIsFull(page) == parts # <<>> /\ Length(parts) + pages[page] > Target

TakePage ==
    /\ taken < Len(pages)
    /\ LET page == taken + 1 IN
         IF BatchIsFull(page)
         THEN batches' = Append(batches, parts) /\ parts' = <<page>>
         ELSE parts' = Append(parts, page) /\ UNCHANGED batches
    /\ taken' = taken + 1
    /\ UNCHANGED <<use, pages, call, read>>

\* The rest is the last batch; without any there is nothing to ask.
LastBatch ==
    /\ taken = Len(pages) /\ parts # <<>> /\ call = <<>>
    /\ batches' = Append(batches, parts)
    /\ parts' = <<>>
    /\ call' = [b \in 1..Len(batches') |-> [at |-> "waiting", tries |-> 0]]
    /\ UNCHANGED <<use, pages, taken, read>>

-----------------------------------------------------------------------------
(* A call of the model for each, a few at a time. *)

AtCall(b, at) == b \in DOMAIN call /\ call[b].at = at
Reading == {b \in DOMAIN call : call[b].at = "asked"}
Becomes(b, at) == call' = [call EXCEPT ![b].at = at]

AskModel(b) ==
    /\ AtCall(b, "waiting") /\ Cardinality(Reading) < Limit
    /\ call' = [call EXCEPT ![b] = [at |-> "asked", tries |-> @.tries + 1]]
    /\ UNCHANGED <<use, pages, taken, parts, batches, read>>

Answers(b) ==
    /\ AtCall(b, "asked") /\ Becomes(b, "answered")
    /\ UNCHANGED <<use, pages, taken, parts, batches, read>>

\* The semaphore is given back before the sleep.
RetriesBatch(b) == use = "extraction" /\ call[b].tries <= Retries
RateLimited(b) ==
    /\ AtCall(b, "asked") /\ Becomes(b, IF RetriesBatch(b) THEN "asleep" ELSE "failed")
    /\ UNCHANGED <<use, pages, taken, parts, batches, read>>

Wakes(b) ==
    /\ AtCall(b, "asleep") /\ Becomes(b, "waiting")
    /\ UNCHANGED <<use, pages, taken, parts, batches, read>>

\* A failed batch is logged, and the others go on.
BatchFails(b) ==
    /\ AtCall(b, "asked") /\ Becomes(b, "failed")
    /\ UNCHANGED <<use, pages, taken, parts, batches, read>>

Whole(b) == Range(batches[b])
MergeResults ==
    /\ call # <<>> /\ \A b \in DOMAIN call : call[b].at \in {"answered", "failed"}
    /\ read' = UNION {Whole(b) : b \in {c \in DOMAIN call : call[c].at = "answered"}}
    /\ UNCHANGED <<use, pages, taken, parts, batches, call>>

Next ==
    \/ TakePage \/ LastBatch \/ MergeResults
    \/ \E b \in 1..MaxPages :
          AskModel(b) \/ Answers(b) \/ RateLimited(b) \/ Wakes(b) \/ BatchFails(b)

Spec == Init /\ [][Next]_batchVars

-----------------------------------------------------------------------------
TypeOK ==
    /\ use \in {"extraction", "prose"}
    /\ pages \in SeqOf(Lengths \ {0}, MaxPages) /\ taken \in 0..Len(pages)
    /\ \A b \in DOMAIN batches : batches[b] # <<>> /\ Range(batches[b]) \subseteq DOMAIN pages
    /\ call # <<>> => /\ DOMAIN call = DOMAIN batches
                      /\ \A b \in DOMAIN call :
                            /\ call[b].at \in {"waiting", "asked", "asleep", "answered", "failed"}
                            /\ call[b].tries \in 0..(Retries + 1)
    /\ read \subseteq DOMAIN pages

\* Every page is in one batch, in order, and what the model is not given of a
\* batch is the end of one long page, or no more than what joins its pages.
Unread(b) ==
    IF use = "prose" /\ TextLength(batches[b]) > Target THEN TextLength(batches[b]) - Target ELSE 0
PagesAreRead ==
    /\ FlattenSeq(batches) \o parts = [i \in 1..taken |-> i]
    /\ \A b \in DOMAIN batches :
          Len(batches[b]) > 1 => Unread(b) <= Separator * (Len(batches[b]) - 1)
    /\ read # {} => \A b \in DOMAIN call : call[b].at = "failed" \/ Whole(b) \subseteq read

\* No more batches are asked of at once than the semaphore admits.
BatchesAreBounded == Cardinality(Reading) <= Limit
=============================================================================
