--------------------------- MODULE ClientResolver ---------------------------
(***************************************************************************)
(* Client lookup: the names of a document or of a list are resolved to     *)
(* client ids (agent/batch_resolver.py over agent/client_resolver.py and   *)
(* db/client_lookup.py).                                                   *)
(*                                                                         *)
(* The chunks of a document are read by concurrent calls of the model and  *)
(* their names merged; the batch then runs one task per distinct name, at  *)
(* most Concurrency at a time.  A task searches two tables, answers at     *)
(* once when a single client is found with a high score, and otherwise     *)
(* asks the model, whose failure leaves a rule that takes the best score.  *)
(* A call has its own timeout and the batch another; what is unfinished    *)
(* when the batch's ends is cancelled and reported as an error.            *)
(*                                                                         *)
(* A mention is [key, form]: the normalised name and how it was written.   *)
(* Scores and confidences are percentages.  The model's timeout (15 s) is  *)
(* longer than the call's (10 s), so within a batch a slow model is always *)
(* the call's timeout and the rule below only ever follows an error.       *)
(***************************************************************************)
EXTENDS Integers, Sequences, SequencesExt

CONSTANTS Keys,         \* normalised names
          Forms,        \* ways to write one
          Blank,        \* what normalising leaves of an honorific alone
          Clients,      \* client ids
          Nobody,       \* no client id
          Scores,       \* percentages the searches give
          Certainties,  \* percentages the model gives
          Concurrency,  \* _BATCH_CONCURRENCY
          MaxMentions   \* bound: mentions in one input

VARIABLES chunks,   \* the mentions of each chunk; <<>> when a list was given
          heard,    \* per chunk "asked", "heard" or "failed"
          people,   \* what batch_resolve_clients was given
          stage,    \* "extracting", "resolving", "returned" or "raised"
          entries,  \* the distinct names being resolved
          call,     \* per entry [at, found, result]
          output    \* what the batch returned

resolverVars == <<chunks, heard, people, stage, entries, call, output>>

Mentions == [key: Keys \cup {Blank}, form: Forms]
Candidates == [id: Clients, score: Scores]
Best(c, s) == \A d \in s : d.id = c.id => d.score <= c.score

(* The first mention of every name, in order: blank names are dropped and  *)
(* a second mention, whatever its company, is not looked up again.         *)
Distinct(s) ==
    FoldLeft(LAMBDA acc, p : IF p.key = Blank \/ \E i \in DOMAIN acc : acc[i].key = p.key
                             THEN acc ELSE Append(acc, p),
             <<>>, s)

Answer(status, id, confidence, by) ==
    [status |-> status, id |-> id, confidence |-> confidence, by |-> by]
NoMatch(by) == Answer("no_match", Nobody, 0, by)
Error(why) == Answer("error", Nobody, 0, why)
Match(id, confidence, by) == Answer("matched", id, confidence, by)

IdsOf(found) == {c.id : c \in found.fuzzy \cup found.queue}
Percent(a, b) == IF a < b THEN a ELSE b

(* One client only, and a high score in the table it is highest in.        *)
IsFast(found) ==
    /\ \E id \in Clients : IdsOf(found) = {id}
    /\ LET top(s) == {c \in s : \A d \in found.fuzzy \cup found.queue : d.score <= c.score}
       IN  \/ \E c \in top(found.fuzzy) : c.score >= 85
           \/ top(found.fuzzy) = {} /\ \E c \in top(found.queue) : c.score >= 75
FastPath(found) ==
    CHOOSE r \in {Match(c.id, Percent(c.score, 95), "fast") : c \in found.fuzzy \cup found.queue} :
        \A c \in found.fuzzy \cup found.queue : Percent(c.score, 95) <= r.confidence

(* The rule that stands in for the model: the best score, the queue's      *)
(* raised by a fifth, whatever other client is as good.                    *)
Raised(c) == [id |-> c.id, score |-> Percent((c.score * 12) \div 10, 100)]
Fallbacks(found) ==
    LET all == found.fuzzy \cup {Raised(c) : c \in found.queue}
        best == {c \in all : \A d \in all : d.score <= c.score}
    IN  {IF c.score < 40 THEN NoMatch("rule") ELSE Match(c.id, Percent(c.score, 60), "rule") : c \in best}

(* What becomes of the model's decision.  Nothing asks whether the id is   *)
(* one of the candidates: only a candidate's can be found too close to     *)
(* another's.                                                              *)
TooClose(found, id, certainty) ==
    LET all == found.fuzzy \cup found.queue
        own == IF \E c \in found.fuzzy : c.id = id THEN found.fuzzy ELSE found.queue
    IN  \E c \in own : /\ c.id = id
                       /\ \E d \in all : d.id # id /\ c.score - d.score < 15
                       /\ certainty < 85
Decisions(found) ==
    {NoMatch("model")} \cup       \* a conflict, an ambiguity or no match
    {IF certainty < 70 \/ TooClose(found, id, certainty)
     THEN NoMatch("model") ELSE Match(id, certainty, "model") :
        id \in Clients, certainty \in Certainties}

Waiting == [at |-> "waiting", found |-> [fuzzy |-> {}, queue |-> {}], result |-> Error("none")]

TypeOK ==
    /\ chunks \in Seq(Seq(Mentions))
    /\ heard \in [DOMAIN chunks -> {"asked", "heard", "failed"}]
    /\ people \in Seq(Mentions) /\ entries \in Seq(Mentions)
    /\ stage \in {"extracting", "resolving", "returned", "raised"}
    /\ DOMAIN call = DOMAIN entries
    /\ \A i \in DOMAIN call : call[i].at \in {"waiting", "searching", "judging", "done", "cancelled"}
    /\ DOMAIN output \subseteq DOMAIN entries

(* A document cut in two chunks, or a list the agent made itself.          *)
ChunksOf(s, cut) == <<SubSeq(s, 1, cut), SubSeq(s, cut + 1, Len(s))>>
FromDocument(s, cut) ==
    chunks = ChunksOf(s, cut) /\ stage = "extracting" /\ people = <<>> /\ entries = <<>>
FromList(s) == chunks = <<>> /\ stage = "resolving" /\ people = s /\ entries = Distinct(s)

Init == /\ \E n \in 1..MaxMentions : \E s \in [1..n -> Mentions] :
              FromList(s) \/ \E cut \in 0..n : FromDocument(s, cut)
        /\ heard = [k \in DOMAIN chunks |-> "asked"]
        /\ call = [i \in DOMAIN entries |-> Waiting]
        /\ output = <<>>

(* extract_person_names: the chunks are read concurrently, and one that    *)
(* fails or cannot be parsed gives no name.                                *)
HearChunk(k) ==
    /\ stage = "extracting" /\ heard[k] = "asked"
    /\ \E h \in {"heard", "failed"} : heard' = [heard EXCEPT ![k] = h]
    /\ UNCHANGED <<chunks, people, stage, entries, call, output>>

MergeNames ==
    /\ stage = "extracting" /\ \A k \in DOMAIN chunks : heard[k] # "asked"
    /\ LET names == Distinct(FlattenSeq([k \in DOMAIN chunks |->
                        IF heard[k] = "heard" THEN chunks[k] ELSE <<>>]))
       IN  /\ people' = names
           /\ entries' = Distinct(names)
           /\ call' = [i \in DOMAIN entries' |-> Waiting]
           /\ stage' = IF names = <<>> THEN "returned" ELSE "resolving"
    /\ UNCHANGED <<chunks, heard, output>>

(* Waiting for nothing raises: a list of blank names only.                 *)
NothingToWait ==
    /\ stage = "resolving" /\ entries = <<>> /\ stage' = "raised"
    /\ UNCHANGED <<chunks, heard, people, entries, call, output>>

Running == {i \in DOMAIN call : call[i].at \in {"searching", "judging"}}
HasRoom == Cardinality(Running) < Concurrency
Starts(i) ==
    /\ stage = "resolving" /\ call[i].at = "waiting"
    /\ \A j \in 1..i - 1 : call[j].at # "waiting"
    /\ HasRoom
    /\ call' = [call EXCEPT ![i].at = "searching"]
    /\ UNCHANGED <<chunks, heard, people, stage, entries, output>>

Ends(i, result) ==
    /\ call' = [call EXCEPT ![i].at = "done", ![i].result = result]
    /\ UNCHANGED <<chunks, heard, people, stage, entries, output>>

(* Both searches have answered: one that failed found nothing, and of a    *)
(* client found twice in one table the best score is kept.                 *)
SearchEnds(i) ==
    /\ stage = "resolving" /\ call[i].at = "searching"
    /\ \E fuzzy, queue \in {{}} \cup {{c} : c \in Candidates} \cup {Candidates} :
          LET found == [fuzzy |-> {c \in fuzzy : Best(c, fuzzy)}, queue |-> {c \in queue : Best(c, queue)}]
          IN  CASE IdsOf(found) = {} -> Ends(i, NoMatch("search"))
                [] IsFast(found)     -> Ends(i, FastPath(found))
                [] OTHER             ->
                     /\ call' = [call EXCEPT ![i].at = "judging", ![i].found = found]
                     /\ UNCHANGED <<chunks, heard, people, stage, entries, output>>

Judge(i) ==
    /\ stage = "resolving" /\ call[i].at = "judging"
    /\ \E r \in Decisions(call[i].found) : Ends(i, r)
ModelFails(i) ==
    /\ stage = "resolving" /\ call[i].at = "judging"
    /\ \E r \in Fallbacks(call[i].found) : Ends(i, r)

CallTimesOut(i) ==
    /\ stage = "resolving" /\ i \in Running
    /\ Ends(i, Error("call"))

(* The batch returns what every task gave, in the order of the names, and  *)
(* an error for one it cancelled.                                          *)
Finished(c) == {i \in DOMAIN c : c[i].at = "done"}
Gathered(c) ==
    [i \in DOMAIN c |-> [mention |-> entries[i],
                         result |-> IF i \in Finished(c) THEN c[i].result ELSE Error("batch")]]

Return ==
    /\ stage = "resolving" /\ entries # <<>> /\ Finished(call) = DOMAIN call
    /\ output' = Gathered(call) /\ stage' = "returned"
    /\ UNCHANGED <<chunks, heard, people, entries, call>>

BatchTimesOut ==
    /\ stage = "resolving" /\ Finished(call) # DOMAIN call
    /\ call' = [i \in DOMAIN call |->
                  IF i \in Finished(call) THEN call[i] ELSE [call[i] EXCEPT !.at = "cancelled"]]
    /\ output' = Gathered(call) /\ stage' = "returned"
    /\ UNCHANGED <<chunks, heard, people, entries>>

Next == \/ \E k \in DOMAIN chunks : HearChunk(k)
        \/ MergeNames
        \/ NothingToWait
        \/ \E i \in DOMAIN call : Starts(i) \/ SearchEnds(i) \/ Judge(i) \/ ModelFails(i) \/ CallTimesOut(i)
        \/ Return
        \/ BatchTimesOut

Spec == Init /\ [][Next]_resolverVars

-----------------------------------------------------------------------------
(* At most Concurrency names are being looked up.                          *)
LookupsAreBounded == Cardinality(Running) <= Concurrency

(* Whatever failed or ran out of time, the batch answers for every         *)
(* distinct name it was given, once and in the order of the names, with    *)
(* what that name's own task decided if it ended in time.                  *)
EveryNameIsAnswered ==
    stage = "returned" =>
        /\ {people[i].key : i \in DOMAIN people} \ {Blank} = {output[i].mention.key : i \in DOMAIN output}
        /\ \A i, j \in DOMAIN output : i # j => output[i].mention.key # output[j].mention.key
        /\ \A i \in DOMAIN output : /\ output[i].mention = entries[i]
                                    /\ call[i].at = "done" => output[i].result = call[i].result
=============================================================================
