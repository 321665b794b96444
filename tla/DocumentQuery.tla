----------------------------- MODULE DocumentQuery -----------------------------
(***************************************************************************)
(* Questions about the documents of one session                            *)
(* (query_document in app/document_intelligence.py, app/routers/           *)
(* documents.py): the cache of answers, the budget, the plan, and the      *)
(* extraction from chunks of the documents.  A document is its number of   *)
(* rows (or pages, for prose); an answer is the rows it looked at.         *)
(***************************************************************************)
EXTENDS Naturals, Sequences, FiniteSets, FiniteSetsExt

CONSTANTS
    Callers,        \* queries that may run at once
    Queries,        \* the texts that are asked
    RowsPerChunk,   \* 100 in the code
    PastTheCut,     \* rows of wide columns: the prompt of their chunk ends before them
    Budget,         \* max_session_cost, in calls of the model
    Rows,           \* a bound: rows of a document
    MaxDocs,        \* a bound: documents of the session
    MaxFaults       \* a bound: failures of Redis and of the model

VARIABLES
    docs,     \* the documents of the session
    answer,   \* doc_query:{session}:{query}: cached, and the rows looked at
    keys,     \* doc_query_keys:{session}: the answers an upload will delete
    cost,     \* doc_cost:{session}, within the week after which it expires unused
    call,     \* what each query is doing
    upload,   \* what the upload of the next document is doing
    excused,  \* queries that overlapped an upload or met a failure
    faults,
    spent     \* what the queries of the session have used, counted or not

queryVars == <<docs, answer, keys, cost, call, upload, excused, faults, spent>>

NoAnswer == [cached |-> FALSE, rows |-> {}, path |-> "none"]
Idle == [pc |-> "idle", query |-> "none", given |-> <<>>, path |-> "none",
         todo |-> {}, found |-> {}, failed |-> FALSE, used |-> 0]
At(c, pc) == call[c].pc = pc
Go(c, pc) == call' = [call EXCEPT ![c].pc = pc]
Fault == faults < MaxFaults /\ faults' = faults + 1
Ends(c) == call' = [call EXCEPT ![c] = Idle]

RowsOf(ds) == UNION {{d} \X (1..ds[d]) : d \in DOMAIN ds}

SameChunk(x, y) == x[1] = y[1] /\ (x[2] - 1) \div RowsPerChunk = (y[2] - 1) \div RowsPerChunk

\* MUTANT: whole chunks only.
FullChunks(ds) ==
    {ch \in {{y \in RowsOf(ds) : SameChunk(x, y)} : x \in RowsOf(ds)} : Cardinality(ch) = RowsPerChunk}
\* The rows of each document in batches, the last of them shorter.
Chunks(ds) == {{y \in RowsOf(ds) : SameChunk(x, y)} : x \in RowsOf(ds)}

Init ==
    /\ docs \in {<<n>> : n \in Rows}
    /\ answer = [q \in Queries |-> NoAnswer] /\ keys = {}
    /\ cost = 0
    /\ call = [c \in Callers |-> Idle]
    /\ upload = [pc |-> "idle", members |-> {}]
    /\ excused = {} /\ faults = 0 /\ spent = 0

-----------------------------------------------------------------------------
(* A query. *)

\* A cached answer is the end of it; a failed look is a miss.
LookUp(c, q) ==
    /\ At(c, "idle") /\ ~answer[q].cached
    /\ call' = [call EXCEPT ![c] = [Idle EXCEPT !.pc = "budget", !.query = q]]
    /\ UNCHANGED <<docs, answer, keys, cost, upload, excused, faults, spent>>

LookUpFails(c, q) ==
    /\ At(c, "idle") /\ answer[q].cached /\ Fault
    /\ call' = [call EXCEPT ![c] = [Idle EXCEPT !.pc = "budget", !.query = q]]
    /\ UNCHANGED <<docs, answer, keys, cost, upload, excused, spent>>

CheckBudget(c) ==
    /\ At(c, "budget")
    /\ IF cost >= Budget THEN Ends(c) ELSE Go(c, "load")
    /\ UNCHANGED <<docs, answer, keys, cost, upload, excused, faults, spent>>

\* Redis does not say what was spent, and the query goes on.
BudgetUnknown(c) ==
    /\ At(c, "budget") /\ Fault
    /\ Go(c, "load")
    /\ UNCHANGED <<docs, answer, keys, cost, upload, excused, spent>>

\* The documents as they are now.  An upload under way may be about to change them.
LoadDocuments(c) ==
    /\ At(c, "load")
    /\ call' = [call EXCEPT ![c].pc = "plan", ![c].given = docs]
    /\ excused' = excused \cup (IF upload.pc = "idle" THEN {} ELSE {call[c].query})
    /\ UNCHANGED <<docs, answer, keys, cost, upload, faults, spent>>

\* The documents cannot be read, or are gone: the query ends with an error.
LoadFails(c) ==
    /\ At(c, "load") /\ Fault
    /\ Ends(c)
    /\ UNCHANGED <<docs, answer, keys, cost, upload, excused, spent>>

\* The schema and the plan decide how the rows are looked at: tables without the
\* model, tables in chunks, or prose in chunks.  A failed plan is a simple one.
BuildQueryPlan(c, path) ==
    /\ At(c, "plan")
    /\ call' = [call EXCEPT ![c].pc = IF path = "simple" THEN "cost" ELSE "extract",
                  ![c].path = path, ![c].used = 1,
                  ![c].todo = IF path = "simple" THEN {} ELSE Chunks(call[c].given),
                  ![c].found = IF path = "simple" THEN RowsOf(call[c].given) ELSE {}]
    /\ UNCHANGED <<docs, answer, keys, cost, upload, excused, faults, spent>>

\* The prompt takes the text of a chunk up to a limit of characters.
Prompt(chunk) == chunk \ PastTheCut

Extract(c, chunk, path) ==
    /\ At(c, "extract") /\ call[c].path = path /\ chunk \in call[c].todo
    /\ call' = [call EXCEPT ![c].todo = @ \ {chunk}, ![c].found = @ \cup Prompt(chunk),
                           ![c].used = @ + 1]
    /\ UNCHANGED <<docs, answer, keys, cost, upload, excused, faults, spent>>

ExtractTabularChunk(c, chunk) == Extract(c, chunk, "complex")
ExtractProseChunk(c, chunk) == Extract(c, chunk, "prose")

\* A chunk that fails is left out.
ChunkFails(c, chunk) ==
    /\ At(c, "extract") /\ chunk \in call[c].todo /\ Fault
    /\ call' = [call EXCEPT ![c].todo = @ \ {chunk}, ![c].failed = TRUE, ![c].used = @ + 1]
    /\ UNCHANGED <<docs, answer, keys, cost, upload, excused, spent>>

Merge(c, path) ==
    /\ At(c, "extract") /\ call[c].path = path /\ call[c].todo = {}
    /\ Go(c, "cost")
    /\ UNCHANGED <<docs, answer, keys, cost, upload, excused, faults, spent>>
MergeTabular(c) == Merge(c, "complex")
MergeProse(c) == Merge(c, "prose")

\* INCRBYFLOAT, once the query has done its work.
LogQueryCost(c) ==
    /\ At(c, "cost")
    /\ \/ cost' = cost + call[c].used /\ faults' = faults
       \/ cost' = cost /\ Fault
    /\ Go(c, "store")
    /\ spent' = spent + call[c].used
    /\ UNCHANGED <<docs, answer, keys, upload, excused>>

\* Only the path through the tables knows that chunks are missing.
Partial(c) == call[c].path = "complex" /\ call[c].failed

\* SETEX, unless the answer is partial.
StoreAnswer(c) ==
    /\ At(c, "store")
    /\ IF Partial(c) THEN Ends(c) /\ UNCHANGED answer
       ELSE /\ answer' = [answer EXCEPT ![call[c].query] =
                 [cached |-> TRUE, rows |-> call[c].found, path |-> call[c].path]]
            /\ Go(c, "register")
    /\ excused' = excused \cup (IF call[c].failed THEN {call[c].query} ELSE {})
    /\ UNCHANGED <<docs, keys, cost, upload, faults, spent>>

\* SADD, which lets an upload find the answer.
RegisterAnswer(c) ==
    /\ At(c, "register")
    /\ keys' = keys \cup {call[c].query}
    /\ Ends(c)
    /\ UNCHANGED <<docs, answer, cost, upload, excused, faults, spent>>

\* Redis fails at either: an answer that is not registered is not deleted either.
StoreFails(c) ==
    /\ At(c, "store") \/ At(c, "register")
    /\ Fault
    /\ excused' = excused \cup {call[c].query}
    /\ Ends(c)
    /\ UNCHANGED <<docs, answer, keys, cost, upload, spent>>

-----------------------------------------------------------------------------
(* An upload to the session: the answers are deleted, then the document is added. *)

InFlight == {call[c].query : c \in {d \in Callers : ~At(d, "idle")}}

ReadKeys ==
    /\ upload.pc = "idle" /\ Len(docs) < MaxDocs
    /\ upload' = [pc |-> "delete", members |-> keys]
    /\ excused' = excused \cup InFlight
    /\ UNCHANGED <<docs, answer, keys, cost, call, faults, spent>>

DeletedOf(members) == members

DeleteAnswers ==
    /\ upload.pc = "delete"
    /\ answer' = [q \in Queries |-> IF q \in DeletedOf(upload.members) THEN NoAnswer ELSE answer[q]]
    /\ keys' = {}
    /\ upload' = [pc |-> "append", members |-> {}]
    /\ excused' = excused \cup (keys \ upload.members)
    /\ UNCHANGED <<docs, cost, call, faults, spent>>

\* The failure is logged and the upload goes on.
InvalidateFails ==
    /\ upload.pc = "delete" /\ Fault
    /\ upload' = [pc |-> "append", members |-> {}]
    /\ excused' = excused \cup {q \in Queries : answer[q].cached}
    /\ UNCHANGED <<docs, answer, keys, cost, call, spent>>

AppendDocument(n) ==
    /\ upload.pc = "append"
    /\ docs' = Append(docs, n)
    /\ upload' = [pc |-> "idle", members |-> {}]
    /\ UNCHANGED <<answer, keys, cost, call, excused, faults, spent>>

Next ==
    \/ ReadKeys \/ DeleteAnswers \/ InvalidateFails
    \/ \E n \in Rows : AppendDocument(n)
    \/ \E c \in Callers :
         \/ \E q \in Queries : LookUp(c, q) \/ LookUpFails(c, q)
         \/ CheckBudget(c) \/ BudgetUnknown(c) \/ LoadDocuments(c) \/ LoadFails(c)
         \/ \E path \in {"simple", "complex", "prose"} : BuildQueryPlan(c, path)
         \/ \E chunk \in call[c].todo :
              ExtractTabularChunk(c, chunk) \/ ExtractProseChunk(c, chunk) \/ ChunkFails(c, chunk)
         \/ MergeTabular(c) \/ MergeProse(c) \/ LogQueryCost(c)
         \/ StoreAnswer(c) \/ RegisterAnswer(c) \/ StoreFails(c)

Spec == Init /\ [][Next]_queryVars

-----------------------------------------------------------------------------
(* What must hold. *)

TypeOK ==
    /\ Len(docs) \in 1..MaxDocs
    /\ \A q \in Queries : answer[q].cached => answer[q].rows \subseteq RowsOf(docs)
    /\ keys \subseteq Queries /\ cost \in Nat /\ spent \in Nat
    /\ \A c \in Callers : call[c].query \in Queries \cup {"none"}
    /\ upload.pc \in {"idle", "delete", "append"}
    /\ excused \subseteq Queries /\ faults \in 0..MaxFaults

\* The budget is looked at before a query and charged after it, by queries that
\* overlap: what the session really uses passes it by no more than one query may use,
\* for each of those that overlap and for each failure of Redis, which lets a query by
\* or loses what one has used.
MostCalls == 1 + MaxDocs * Max(Rows)
BudgetHolds == spent <= Budget - 1 + (Cardinality(Callers) + faults) * MostCalls

\* An answer in the cache has looked at every chunk of the session's documents, though
\* documents were added since: a row it has not looked at is past the cut of its chunk,
\* and the answer is the model's, for the path without it reads all.  The exceptions are
\* queries that overlapped an upload, lost a chunk, or met a failing Redis.
Unread(q) == RowsOf(docs) \ answer[q].rows
AnswersCoverTheChunks ==
    upload.pc = "idle" =>
        \A q \in Queries \ excused : answer[q].cached =>
            /\ answer[q].rows \subseteq RowsOf(docs)
            /\ Unread(q) \subseteq PastTheCut
            /\ answer[q].path = "simple" => Unread(q) = {}
=============================================================================
