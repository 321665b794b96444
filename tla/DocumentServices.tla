-------------------------- MODULE DocumentServices --------------------------
(***************************************************************************)
(* The services around documents, campaigns and their scores, the walks of *)
(* the knowledge graph and the conversation with the agent, and what each  *)
(* expects of its constants.                                               *)
(***************************************************************************)
EXTENDS ServiceState

Cache == INSTANCE SchemaCache
CacheConstants == MaxDocs \in Nat \ {0} /\ MaxPolls \in Nat /\ MaxFaults \in Nat

Query == INSTANCE DocumentQuery WITH Callers <- Askers, Rows <- DocumentRows
QueryConstants ==
    /\ IsFiniteSet(Askers) /\ Budget \in Nat \ {0} /\ MaxDocs \in Nat \ {0} /\ MaxFaults \in Nat
    /\ DocumentRows \subseteq Nat /\ \E n \in DocumentRows : \A m \in DocumentRows : n >= m

Resolver == INSTANCE ClientResolver WITH Keys <- MentionKeys
ResolverConstants == Concurrency \in Nat /\ MaxMentions \in Nat

Batches == INSTANCE DocumentBatches
BatchConstants ==
    /\ Lengths \subseteq Nat
    /\ MaxPages \in Nat /\ Target \in Nat /\ Separator \in Nat /\ Retries \in Nat /\ Limit \in Nat

Talk == INSTANCE AgentHistory WITH Budget <- HistoryBudget
TalkConstants ==
    /\ Sizes \subseteq Nat /\ HistoryBudget \in Nat /\ Keep \in Nat /\ MaxParallel \in Nat
    /\ MaxRounds \in Nat /\ MaxQuestions \in Nat

Catalog == INSTANCE CampaignCatalog WITH Labels <- AttributeLabels, MaxRequests <- MaxCalls
CatalogConstants == MaxCalls \in Nat

Scoring == INSTANCE CampaignScores WITH
    Attributes <- ScoredAttributes, Text <- TextAttributes, MaxEdits <- ScoreEdits
ScoreConstants == ScoreEdits \in Nat /\ MaxFaults \in Nat

Traversal == INSTANCE GraphTraversal
TraversalConstants ==
    /\ IsFiniteSet(Nodes)
    /\ MaxHops \in Nat /\ MaxPaths \in Nat \ {0} /\ Limit \in Nat
    /\ MaxEdges \in Nat /\ MaxChanges \in Nat
=============================================================================
