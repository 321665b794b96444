---------------------------- MODULE TeamServices ----------------------------
(***************************************************************************)
(* The services a team shares: chats, research and what is known of it,    *)
(* comments, monitors and the clusters of attributes, with the schema and  *)
(* the connections they all use; and what each expects of its constants.   *)
(***************************************************************************)
EXTENDS HeartbeatTiming, ServiceState

Sched == INSTANCE Scheduler WITH MaxDay <- LastDay, MaxEdits <- MonitorEdits
SchedConstants ==
    /\ Daily \in Nat /\ Weekly \in Nat /\ Daily <= Weekly
    /\ Tasks \subseteq Nat /\ IsFiniteSet(Tasks)
    /\ NoInstance \notin Instances
    /\ LastDay \in Nat /\ MaxSessions \in Nat /\ MonitorEdits \in Nat /\ MaxFaults \in Nat

Clusters == INSTANCE AttributeClusters
ClusterConstants ==
    /\ MaxAttribute \in Nat /\ MaxSize \in Nat \ {0} /\ Limit \in Nat
    /\ MaxAnswer \in Nat /\ MaxFaults \in Nat

Collab == INSTANCE Collaboration WITH Teams <- SharedWith
CollabConstants ==
    /\ NoOne \notin Users \cup Comments /\ Sessions \cap Comments = {}
    /\ MaxRequests \in Nat /\ MaxFaults \in Nat

Startup == INSTANCE SchemaStartup WITH NoTeam <- TeamOfNone, Labels <- RowLabels
StartupConstants ==
    /\ NoInstance \notin Instances
    /\ Master \notin Teams /\ TeamOfNone \notin Teams \cup {Master}
    /\ MaxRows \in Nat \ {0} /\ MaxStarts \in Nat /\ MaxFaults \in Nat

\* The keys of each table are worked out once.
Foreign == INSTANCE DatabaseSchema WITH Tables <- {}, KeysOfTable <- <<>>, MaxRows <- 0
ForeignKeys == [t \in SchemaTables |-> {k \in Foreign!AllKeys : k.table = t}]
Schema == INSTANCE DatabaseSchema WITH
    Tables <- SchemaTables, KeysOfTable <- ForeignKeys, MaxRows <- RowsInAll
SchemaConstants == \A k \in Schema!AllKeys : k.table \in SchemaTables

Pool == INSTANCE ConnectionPool
PoolConstants ==
    /\ NoCaller \notin Callers
    /\ MaxRotations \in Nat /\ MaxPools \in Nat /\ MaxFaults \in Nat

Chat == INSTANCE KgChat
ChatConstants ==
    /\ IsFiniteSet(Requests) /\ RateLimit \in Nat
    /\ SessionLimit \in Nat \ {0} /\ CallLimit \in Nat \ {0}
    /\ Parallel \in Nat /\ MaxFaults \in Nat

Research == INSTANCE ResearchStream WITH Jobs <- Investigations, Parallel <- Abreast
ResearchConstants ==
    /\ IsFiniteSet(Streams) /\ Abreast \in Nat /\ MaxTurns \in Nat
    /\ MaxTalkers \in Nat /\ MaxFaults \in Nat

Known == INSTANCE KnowledgeCache WITH Labels <- AttributeLabels, NoTeam <- TeamOfNone
KnownConstants ==
    /\ TeamOfNone \notin Teams
    /\ MaxDay \in Nat \ {0} /\ MaxEdits \in Nat /\ MaxFaults \in Nat
=============================================================================
