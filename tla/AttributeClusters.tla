--------------------------- MODULE AttributeClusters ---------------------------
(***************************************************************************)
(* The clusters of a campaign's attributes: a language model groups them   *)
(* once, the rows are kept, and a later validation job has only its new    *)
(* attributes grouped (worker/workflows/attribute_clustering.py,           *)
(* app/db/clusters.py).  Jobs of one campaign may ask at the same time.    *)
(*                                                                         *)
(* A cluster is the set of its attributes; two rows with the same set      *)
(* count as one.  Attributes are numbers, 0 is a label the model made up   *)
(* or spelled in its own way.                                              *)
(***************************************************************************)
EXTENDS Integers, FiniteSets, FiniteSetsExt

CONSTANTS
    Jobs,          \* validation jobs that ask for clusters
    MaxAttribute,  \* a bound: attributes are 1..MaxAttribute
    MaxSize,       \* MAX_CLUSTER_SIZE, 10 in the code
    Limit,         \* how many attributes are shown to the model, 100 in the code
    MaxAnswer,     \* a bound: clusters in an answer of the model
    MaxFaults      \* a bound: how many failures a behaviour may have

Attributes == 1..MaxAttribute
Invented == 0

VARIABLES
    rows,    \* playbook.attribute_clusters of the campaign
    job,     \* what each job is doing, and with what
    faults

clusterVars == <<rows, job, faults>>

Idle == [pc |-> "idle", given |-> {}, existing |-> {}, toSave |-> {}, result |-> {}]

Init ==
    /\ rows = {}
    /\ job = [j \in Jobs |-> Idle]
    /\ faults = 0

-----------------------------------------------------------------------------
(* cluster_attributes. *)

Rank(a, S) == Cardinality({b \in S : b < a})
First(n, S) == {a \in S : Rank(a, S) < n}

\* A cluster that is too large is cut in its order.
Part(a, C) == {b \in C : Rank(b, C) \div MaxSize = Rank(a, C) \div MaxSize}
Split(C) == {Part(a, C) : a \in C}

\* What the model may say of a set of attributes: it need not use all of them,
\* may use one twice and may make one up.
Answers(S) ==
    UNION {kSubset(n, (SUBSET (S \cup {Invented})) \ {{}}) : n \in 0..MaxAnswer}

\* What the model left out gets a cluster of its own.
Unclustered(asked, answer) == asked \ UNION answer

ClusterAttributes(S, answer) ==
    (UNION {Split(C) : C \in answer}) \cup Split(Unclustered(First(Limit, S), answer))

\* Labels back to ids; clusters without an id are dropped.
Records(clusters) == {C \ {Invented} : C \in clusters} \ {{}}

-----------------------------------------------------------------------------
(* get_or_create_clusters. *)

\* The job asks about the attributes of its filter, among those there are at
\* the time: attributes come and go between two jobs.
Ask(j, given) ==
    /\ job[j].pc = "idle" /\ given # {}
    /\ job' = [job EXCEPT ![j] = [Idle EXCEPT !.pc = "read", !.given = given]]
    /\ UNCHANGED <<rows, faults>>

New(given, existing) == given \ UNION existing

\* With every attribute in some cluster, the answer is those clusters without
\* the attributes that are not this job's.
ReadClusters(j) ==
    LET given == job[j].given
    IN /\ job[j].pc = "read"
       /\ job' = [job EXCEPT ![j] =
            IF New(given, rows) = {}
            THEN [@ EXCEPT !.pc = "returned", !.result = {C \cap given : C \in rows} \ {{}}]
            ELSE [@ EXCEPT !.pc = "cluster", !.existing = rows]]
       /\ UNCHANGED <<rows, faults>>

\* The model groups the new attributes.
Cluster(j) ==
    LET new == New(job[j].given, job[j].existing)
    IN /\ job[j].pc = "cluster"
       /\ \E answer \in Answers(First(Limit, new)) :
            job' = [job EXCEPT ![j].pc = "save",
                               ![j].toSave = Records(ClusterAttributes(new, answer)),
                               ![j].result = job[j].existing]
       /\ UNCHANGED <<rows, faults>>

\* One INSERT; every row is committed on its own.
SaveOne(j) ==
    /\ job[j].pc = "save"
    /\ \E C \in job[j].toSave :
         /\ rows' = rows \cup {C}
         /\ job' = [job EXCEPT ![j].toSave = @ \ {C}, ![j].result = @ \cup {C}]
    /\ UNCHANGED faults

Saved(j) ==
    /\ job[j].pc = "save" /\ job[j].toSave = {}
    /\ job' = [job EXCEPT ![j] = [@ EXCEPT !.pc = "returned", !.existing = {}]]
    /\ UNCHANGED <<rows, faults>>

\* The model, the answer's form or an INSERT fails: the call raises, the job
\* fails, and the rows that were written stay.
CallFails(j) ==
    /\ job[j].pc \in {"read", "cluster", "save"}
    /\ faults < MaxFaults /\ faults' = faults + 1
    /\ job' = [job EXCEPT ![j] = Idle]
    /\ UNCHANGED rows

Next ==
    \E j \in Jobs :
        \/ \E given \in SUBSET Attributes : Ask(j, given)
        \/ ReadClusters(j) \/ Cluster(j) \/ SaveOne(j) \/ Saved(j) \/ CallFails(j)

Spec == Init /\ [][Next]_clusterVars

-----------------------------------------------------------------------------
(* What must hold. *)

TypeOK ==
    /\ rows \subseteq SUBSET Attributes
    /\ job \in [Jobs -> [pc : {"idle", "read", "cluster", "save", "returned"},
                         given : SUBSET Attributes, existing : SUBSET SUBSET Attributes,
                         toSave : SUBSET SUBSET Attributes, result : SUBSET SUBSET Attributes]]
    /\ faults \in 0..MaxFaults

\* A job gets clusters of at most MaxSize that hold every attribute it asked
\* about, whatever the model answered, whatever rows an earlier failure left, and
\* whatever another job writes meanwhile.  (Only up to Limit new attributes: the
\* others are not shown to the model and are in no cluster of the answer.)
CallCoversItsAttributes ==
    \A j \in Jobs : job[j].pc = "returned" =>
        /\ \A C \in job[j].result : Cardinality(C) <= MaxSize
        /\ Cardinality(job[j].given) <= Limit => job[j].given \subseteq UNION job[j].result
=============================================================================
