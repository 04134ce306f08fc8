------------------------ MODULE InstanceOpsProofs ------------------------
(***************************************************************************)
(* Proofs about InstanceOps for every set of names, groups, servers, ports *)
(* and requests, checked by TLAPS.                                         *)
(***************************************************************************)
EXTENDS InstanceOps, MinimumProofs, TLAPS

\* What some theorems are about: a server that manages one group.
OneGroup == \A g, h \in Group : g = h

-----------------------------------------------------------------------------
(* What a transaction leaves of the groups it is given.                     *)

LEMMA TopologyType ==
    ASSUME NEW is, NEW group, NEW g
    PROVE  Topology(is, group, g) \in {"healthy", "degraded"}
  BY DEF Topology

\* Recalculation touches the derived field of one group.
LEMMA RecalculateEffect ==
    ASSUME NEW is, NEW gs, NEW g, NEW h \in DOMAIN gs
    PROVE  \/ RecalculateGroupTopology(is, gs, g)[h] = gs[h]
           \/ \E t \in {"healthy", "degraded"} :
                RecalculateGroupTopology(is, gs, g)[h] = [gs[h] EXCEPT !.topology = t]
  BY TopologyType DEF RecalculateGroupTopology

\* Well-typed contents of the file.
InstancesOK(is) == /\ DOMAIN is \subseteq Name
                   /\ \A n \in DOMAIN is : is[n] \in Instance

GroupsOK(gs) == /\ DOMAIN gs \subseteq Group
                /\ \A g \in DOMAIN gs : gs[g] \in GroupState

\* Two versions of a group that differ in the topology status at most.
SameGroup(x, y) == /\ x.type = y.type
                   /\ x.currentMaster = y.currentMaster
                   /\ x.masterPort = y.masterPort
                   /\ x.autoPort = y.autoPort

LEMMA WriteEffect ==
    ASSUME NEW is, NEW gs, NEW G, GroupsOK(gs), Write(is, gs, G)
    PROVE  /\ instances' = is
           /\ DOMAIN groups' = DOMAIN gs
           /\ GroupsOK(groups')
           /\ \A g \in DOMAIN gs : SameGroup(groups'[g], gs[g])
<1>1. instances' = is /\ DOMAIN groups' = DOMAIN gs
  BY DEF Write
<1>2. ASSUME NEW g \in DOMAIN gs
      PROVE  groups'[g] \in GroupState /\ SameGroup(groups'[g], gs[g])
  <2>1. groups'[g] = gs[g] \/ groups'[g] = RecalculateGroupTopology(is, gs, g)[g]
    BY DEF Write
  <2>2. \/ groups'[g] = gs[g]
        \/ \E t \in {"healthy", "degraded"} : groups'[g] = [gs[g] EXCEPT !.topology = t]
    BY <2>1, RecalculateEffect
  <2>3. gs[g] \in GroupState
    BY DEF GroupsOK
  <2> QED
    BY <2>2, <2>3 DEF GroupState, SameGroup
<1> QED
  BY <1>1, <1>2 DEF GroupsOK

-----------------------------------------------------------------------------
(* Type correctness.  The four conjuncts are handled apart: most actions    *)
(* disturb one or two of them.                                              *)

ReqOK == /\ req \in [Request -> RequestState]
         /\ \A r \in Request : req[r].pc = "received" => req[r].holder # NONE

ReconOK == /\ DOMAIN recon = Reconciler
           /\ \A k \in Reconciler : /\ DOMAIN recon[k] \subseteq Name
                                    /\ \A n \in DOMAIN recon[k] : recon[k][n] \in Patch

LEMMA TypeParts ==
    /\ TypeOK <=> InstancesOK(instances) /\ GroupsOK(groups) /\ ReqOK /\ ReconOK
    /\ TypeOK' <=> InstancesOK(instances') /\ GroupsOK(groups') /\ ReqOK' /\ ReconOK'
  BY DEF TypeOK, InstancesOK, GroupsOK, ReqOK, ReconOK

LEMMA IdleType == Idle \in RequestState /\ Idle.pc # "received"
  BY DEF Idle, RequestState

LEMMA ReachesType ==
    ASSUME ReqOK, NEW r \in Request, NEW pc \in {"done", "abort", "finished"},
           Reaches(r, pc)
    PROVE  ReqOK'
  BY DEF ReqOK, Reaches, RequestState

LEMMA EndsType ==
    ASSUME ReqOK, NEW r \in Request, Ends(r)
    PROVE  ReqOK'
  BY IdleType DEF ReqOK, Ends

\* One field of one record.
LEMMA SetStatusType ==
    ASSUME InstancesOK(instances), GroupsOK(groups), NEW n, NEW status \in Status,
           SetStatus(n, status)
    PROVE  InstancesOK(instances') /\ GroupsOK(groups')
<1>1. CASE n \in DOMAIN instances
  <2>1. InstancesOK([instances EXCEPT ![n].status = status])
    BY <1>1 DEF InstancesOK, Instance
  <2> QED
    BY <1>1, <2>1, WriteEffect DEF SetStatus
<1>2. CASE n \notin DOMAIN instances
  BY <1>2 DEF SetStatus
<1> QED
  BY <1>1, <1>2

LEMMA WriteFailsType ==
    ASSUME InstancesOK(instances), GroupsOK(groups), WriteFails
    PROVE  InstancesOK(instances') /\ GroupsOK(groups')
  BY DEF WriteFails

\* How a create ends.
LEMMA CreateWrites ==
    ASSUME NEW r \in Request, CreateDone(r) \/ CreateFailed(r)
    PROVE  \/ \E n, status : SetStatus(n, status)
           \/ instances' = instances /\ groups' = groups
<1>1. CASE CreateDone(r)
  BY <1>1 DEF CreateDone, WriteFails
<1>2. CASE CreateFailed(r)
  BY <1>2 DEF CreateFailed, WriteFails
<1> QED
  BY <1>1, <1>2

LEMMA WithAutoPortType ==
    ASSUME NEW gs, GroupsOK(gs), NEW g \in DOMAIN gs
    PROVE  /\ GroupsOK(WithAutoPort(gs, g))
           /\ DOMAIN WithAutoPort(gs, g) = DOMAIN gs
<1>1. CASE gs[g].autoPort = 0 /\ EnvoyPortsAvailable(gs, TRUE)
  <2>1. Min(FreeAutoPorts(gs)) \in EnvoyAuto
    BY <1>1, MinIsMember, PortsAreNumbers DEF EnvoyPortsAvailable, FreeAutoPorts
  <2> QED
    BY <1>1, <2>1 DEF GroupsOK, GroupState, WithAutoPort
<1>2. CASE ~(gs[g].autoPort = 0 /\ EnvoyPortsAvailable(gs, TRUE))
  BY <1>2 DEF WithAutoPort
<1> QED
  BY <1>1, <1>2

\* The replica's group as create and replicate leave it.
LEMMA ReplicationGroupType ==
    ASSUME GroupsOK(groups), NEW g \in DOMAIN groups
    PROVE  LET gs == WithAutoPort([groups EXCEPT ![g].type = "replication"], g)
           IN  GroupsOK(gs) /\ DOMAIN gs = DOMAIN groups
<1> DEFINE gs0 == [groups EXCEPT ![g].type = "replication"]
<1>1. GroupsOK(gs0) /\ DOMAIN gs0 = DOMAIN groups
  BY DEF GroupsOK, GroupState
<1> HIDE DEF gs0
<1>2. GroupsOK(WithAutoPort(gs0, g)) /\ DOMAIN WithAutoPort(gs0, g) = DOMAIN groups
  BY <1>1, WithAutoPortType
<1> QED
  BY <1>2 DEF gs0

LEMMA NewInstanceType ==
    ASSUME NEW g \in Group, NEW role \in {"master", "replica"}, NEW s \in Server,
           NEW m \in Name \cup {NONE}, FreeRedisPorts(instances, s) # {}
    PROVE  /\ NewInstance(g, role, s, m) \in Instance
           /\ NewInstance(g, role, s, m).port \in FreeRedisPorts(instances, s)
<1>1. Min(FreeRedisPorts(instances, s)) \in FreeRedisPorts(instances, s)
  BY MinIsMember, PortsAreNumbers DEF FreeRedisPorts
<1>2. FreeRedisPorts(instances, s) \subseteq RedisPort
  BY DEF FreeRedisPorts
<1> QED
  BY <1>1, <1>2 DEF NewInstance, Instance, Status

LEMMA NewGroupType ==
    ASSUME NEW type \in {"standalone", "replication"}, NEW n \in Name,
           EnvoyPortsAvailable(groups, type = "replication")
    PROVE  /\ NewGroup(type, n) \in GroupState
           /\ NewGroup(type, n).masterPort \in FreeMasterPorts(groups)
           /\ NewGroup(type, n).autoPort \in FreeAutoPorts(groups) \cup {0}
           /\ NewGroup(type, n).currentMaster = n
<1>1. /\ Min(FreeMasterPorts(groups)) \in FreeMasterPorts(groups)
      /\ FreeMasterPorts(groups) \subseteq EnvoyMaster
  BY MinIsMember, PortsAreNumbers DEF EnvoyPortsAvailable, FreeMasterPorts
<1>2. /\ type = "replication" => Min(FreeAutoPorts(groups)) \in FreeAutoPorts(groups)
      /\ FreeAutoPorts(groups) \subseteq EnvoyAuto
  BY MinIsMember, PortsAreNumbers DEF EnvoyPortsAvailable, FreeAutoPorts
<1> QED
  BY <1>1, <1>2 DEF NewGroup, GroupState

LEMMA AcquireType ==
    ASSUME NEW is, InstancesOK(is), NEW S, NEW h \in Holder
    PROVE  InstancesOK(AcquireAll(is, S, h))
  BY DEF InstancesOK, AcquireAll, Acquired, Instance, Lock

LEMMA ReleaseType ==
    ASSUME NEW is, InstancesOK(is), NEW S, NEW h
    PROVE  InstancesOK(ReleaseAll(is, S, h))
  BY DEF InstancesOK, ReleaseAll, Released, Instance

LEMMA TakeLocksType ==
    ASSUME InstancesOK(instances), GroupsOK(groups), ReqOK, ReconOK,
           NEW r \in Request, NEW op \in AllOps \cup {"none"}, NEW n \in DOMAIN instances,
           NEW target \in Name \cup {NONE}, NEW h \in Holder,
           NEW pc \in {"locked", "finished"},
           TakeLocks(r, op, n, target, h, pc)
    PROVE  InstancesOK(instances') /\ GroupsOK(groups') /\ ReqOK' /\ ReconOK'
<1>1. InstancesOK(instances')
  BY AcquireType DEF TakeLocks
<1>2. InstanceGroup(instances, n) \subseteq Name
  BY DEF InstanceGroup, Members, InstancesOK
<1>3. instances[n].group \in Group \cup {NONE} /\ n \in Name
  BY DEF InstancesOK, Instance
<1>4. ReqOK'
  BY <1>2, <1>3 DEF TakeLocks, ReqOK, RequestState
<1>5. GroupsOK(groups') /\ ReconOK'
  BY DEF TakeLocks, GroupsOK, ReconOK
<1> QED
  BY <1>1, <1>4, <1>5

LEMMA CreateMasterType ==
    ASSUME TypeOK, NEW r \in Request, NEW n \in Name, NEW g \in Group, NEW s \in Server,
           NEW type \in {"standalone", "replication"},
           CreateMaster(r, n, g, s, type)
    PROVE  TypeOK'
<1> DEFINE inst  == NewInstance(g, "master", s, NONE)
           group == NewGroup(type, n)
<1>1. inst \in Instance
  BY NewInstanceType DEF CreateMaster
<1>2. group \in GroupState
  BY NewGroupType DEF CreateMaster
<1>3. Write(Put(instances, n, inst), Put(groups, g, group), {g})
  BY DEF CreateMaster
<1> HIDE DEF inst, group
<1>4. InstancesOK(Put(instances, n, inst)) /\ GroupsOK(Put(groups, g, group))
  BY <1>1, <1>2, TypeParts DEF InstancesOK, GroupsOK, Put
<1>5. InstancesOK(instances') /\ GroupsOK(groups')
  BY <1>3, <1>4, WriteEffect
<1>6. ReqOK' /\ ReconOK'
  BY IdleType, TypeParts
     DEF CreateMaster, StartCreating, ReqOK, ReconOK, RequestState, Idle, AllOps
<1> QED
  BY <1>5, <1>6, TypeParts

LEMMA CreateReplicaType ==
    ASSUME TypeOK, NEW r \in Request, NEW n \in Name, NEW m \in Name, NEW s \in Server,
           CreateReplica(r, n, m, s)
    PROVE  TypeOK'
<1> DEFINE g    == instances[m].group
           inst == NewInstance(g, "replica", s, m)
           gs   == WithAutoPort([groups EXCEPT ![g].type = "replication"], g)
<1>1. g \in DOMAIN groups /\ g \in Group
  BY TypeParts DEF CreateReplica, GroupsOK
<1>2. inst \in Instance
  BY <1>1, NewInstanceType DEF CreateReplica
<1>3. GroupsOK(gs)
  BY <1>1, ReplicationGroupType, TypeParts
<1>4. Write(Put(instances, n, inst), gs, {g})
  BY DEF CreateReplica
<1> HIDE DEF g, inst, gs
<1>5. InstancesOK(Put(instances, n, inst))
  BY <1>2, TypeParts DEF InstancesOK, Put
<1>6. InstancesOK(instances') /\ GroupsOK(groups')
  BY <1>3, <1>4, <1>5, WriteEffect
<1>7. ReqOK' /\ ReconOK'
  BY IdleType, TypeParts
     DEF CreateReplica, StartCreating, ReqOK, ReconOK, RequestState, Idle, AllOps
<1> QED
  BY <1>6, <1>7, TypeParts

LEMMA CreateType ==
    ASSUME TypeOK, NEW r \in Request, Create(r)
    PROVE  TypeOK'
  BY CreateMasterType, CreateReplicaType DEF Create

LEMMA EnterType ==
    ASSUME TypeOK, NEW r \in Request, Enter(r)
    PROVE  TypeOK'
<1>1. PICK n \in Name, h \in Sessions(r) :
        \/ \E op \in Ops : Begin(r, op, n, h)
        \/ BeginBackup(r, n, h)
        \/ BeginPromote(r, n, h)
        \/ BeginDelete(r, n, h)
        \/ CheckStop(r, n, h)
        \/ \E m \in Name : ResolveReplicate(r, n, m, h)
  BY DEF Enter
<1>2. h \in Holder
  BY DEF Sessions, Holder
<1> USE TypeParts
<1>3. ASSUME NEW op \in AllOps, NEW pc \in {"locked", "finished"},
             CanLock(n, h), TakeLocks(r, op, n, NONE, h, pc)
      PROVE  TypeOK'
  BY <1>2, <1>3, TakeLocksType DEF CanLock
<1>4. ASSUME NEW op \in Ops, Begin(r, op, n, h) PROVE TypeOK'
  BY <1>3, <1>4 DEF Begin, AllOps
<1>5. CASE BeginPromote(r, n, h)
  BY <1>3, <1>5 DEF BeginPromote, AllOps
<1>6. CASE BeginDelete(r, n, h)
  BY <1>3, <1>6 DEF BeginDelete, AllOps
<1>7. CASE CheckStop(r, n, h)
  BY <1>2, <1>7, NoneIsNoValue DEF CheckStop, Idle, ReqOK, ReconOK, RequestState, AllOps
<1>8. ASSUME NEW m \in Name, ResolveReplicate(r, n, m, h) PROVE TypeOK'
  BY <1>2, <1>8, NoneIsNoValue DEF ResolveReplicate, Idle, ReqOK, ReconOK, RequestState, AllOps
<1>9. CASE BeginBackup(r, n, h)
  BY <1>3, <1>9 DEF BeginBackup, AllOps
<1> QED
  BY <1>1, <1>4, <1>5, <1>6, <1>7, <1>8, <1>9

LEMMA LockReceivedType ==
    ASSUME TypeOK, NEW r \in Request, LockReceived(r)
    PROVE  TypeOK'
<1> USE TypeParts
<1>1. /\ req[r].op \in AllOps \cup {"none"}
      /\ req[r].target \in Name \cup {NONE}
      /\ req[r].holder \in Holder
  BY DEF ReqOK, RequestState, LockReceived
<1>2. CASE CanLock(req[r].name, req[r].holder)
  BY <1>1, <1>2, TakeLocksType DEF LockReceived, CanLock
<1>3. CASE ~CanLock(req[r].name, req[r].holder)
  BY <1>3, EndsType DEF LockReceived, ReconOK
<1> QED
  BY <1>2, <1>3

LEMMA AnswerType ==
    ASSUME TypeOK, NEW r \in Request, AgentSucceeds(r) \/ AgentFails(r)
    PROVE  TypeOK'
  BY TypeParts, ReachesType DEF AgentSucceeds, AgentFails, ReconOK

LEMMA OrphanedType ==
    ASSUME NEW inst \in Instance, NEW R
    PROVE  Orphaned(inst, R) \in Instance
  BY DEF Orphaned, Instance, Lock, Holder

LEMMA ReleaseStepType ==
    ASSUME TypeOK, NEW r \in Request, Release(r)
    PROVE  TypeOK'
<1> USE TypeParts
<1>1. CASE instances' = ReleaseAll(instances, req[r].held, req[r].holder)
  BY <1>1, ReleaseType, EndsType DEF Release, ReconOK
<1>2. CASE instances' = OrphanAll(instances, {r})
  <2>1. InstancesOK(instances')
    BY <1>2, OrphanedType DEF InstancesOK, OrphanAll
  <2> QED
    BY <2>1, EndsType DEF Release, ReconOK
<1> QED
  BY <1>1, <1>2 DEF Release

LEMMA CommitDeleteType ==
    ASSUME TypeOK, NEW r \in Request, CommitDelete(r)
    PROVE  TypeOK'
<1> DEFINE is == Without(instances, req[r].name)
           g  == req[r].group
<1> USE TypeParts
<1>1. InstancesOK(is)
  BY DEF InstancesOK, Without, Restrict
<1>2. GroupsOK(Without(groups, g))
  BY DEF GroupsOK, Without, Restrict
<1>3. \/ instances' = is /\ groups' = Without(groups, g)
      \/ Write(is, groups, {g})
  BY DEF CommitDelete
<1> HIDE DEF is, g
<1>4. InstancesOK(instances') /\ GroupsOK(groups')
  BY <1>1, <1>2, <1>3, WriteEffect
<1> QED
  BY <1>4, ReachesType DEF CommitDelete, ReconOK

LEMMA PromotedType ==
    ASSUME NEW is, InstancesOK(is), NEW n \in Name, NEW old
    PROVE  InstancesOK(Promoted(is, n, old))
  BY DEF InstancesOK, Promoted, Instance

LEMMA CommitPromoteType ==
    ASSUME TypeOK, NEW r \in Request, CommitPromote(r)
    PROVE  TypeOK'
<1> DEFINE n == req[r].name
           g == instances[n].group
           gs == [groups EXCEPT ![g].currentMaster = n, ![g].type = "replication"]
<1> USE TypeParts
<1>1. InstancesOK(instances') /\ GroupsOK(groups')
  <2>1. CASE n \notin DOMAIN instances
    BY <2>1 DEF CommitPromote
  <2>2. CASE n \in DOMAIN instances /\ g \in DOMAIN groups
    <3>1. n \in Name
      BY <2>2 DEF InstancesOK
    <3>2. GroupsOK(gs)
      BY <2>2, <3>1 DEF GroupsOK, GroupState
    <3>3. Write(Promoted(instances, n, groups[g].currentMaster), gs, {g})
      BY <2>2 DEF CommitPromote
    <3> HIDE DEF n, g, gs
    <3> QED
      BY <3>1, <3>2, <3>3, PromotedType, WriteEffect
  <2>3. CASE n \in DOMAIN instances /\ g \notin DOMAIN groups
    <3>1. n \in Name
      BY <2>3 DEF InstancesOK
    <3>2. Write(Promoted(instances, n, n), groups, {})
      BY <2>3 DEF CommitPromote
    <3> HIDE DEF n, g
    <3> QED
      BY <3>1, <3>2, PromotedType, WriteEffect
  <2> QED
    BY <2>1, <2>2, <2>3
<1> QED
  BY <1>1, ReachesType DEF CommitPromote, ReconOK

LEMMA ReplicaType ==
    ASSUME NEW is, InstancesOK(is), NEW n \in DOMAIN is,
           NEW m \in Name \cup {NONE}, NEW g \in Group \cup {NONE}
    PROVE  InstancesOK([is EXCEPT ![n].role = "replica", ![n].replicaOf = m,
                                  ![n].group = g])
<1> DEFINE new  == [is EXCEPT ![n].role = "replica", ![n].replicaOf = m, ![n].group = g]
           inst == [is[n] EXCEPT !.role = "replica", !.replicaOf = m, !.group = g]
<1>1. is[n] \in Instance /\ DOMAIN is \subseteq Name
  BY DEF InstancesOK
<1>2. inst \in Instance
  BY <1>1 DEF Instance
<1>3. DOMAIN new = DOMAIN is /\ \A x \in DOMAIN is : new[x] = IF x = n THEN inst ELSE is[x]
  OBVIOUS
<1> HIDE DEF new, inst
<1>4. InstancesOK(new)
  BY <1>2, <1>3 DEF InstancesOK
<1> QED
  BY <1>4 DEF new

LEMMA CommitReplicateType ==
    ASSUME TypeOK, NEW r \in Request, CommitReplicate(r)
    PROVE  TypeOK'
<1> DEFINE n  == req[r].name
           m  == req[r].target
           g  == IF m \in DOMAIN instances THEN instances[m].group ELSE NONE
           gs == IF g \in DOMAIN groups
                 THEN WithAutoPort([groups EXCEPT ![g].type = "replication"], g)
                 ELSE groups
           is == [instances EXCEPT ![n].role = "replica", ![n].replicaOf = m,
                                   ![n].group = g]
<1> USE TypeParts
<1>1. InstancesOK(instances') /\ GroupsOK(groups')
  <2>1. CASE n \notin DOMAIN instances
    BY <2>1 DEF CommitReplicate
  <2>2. CASE n \in DOMAIN instances
    <3>1. m \in Name \cup {NONE}
      BY DEF ReqOK, RequestState
    <3>2. g \in Group \cup {NONE}
      BY DEF InstancesOK, Instance
    <3>3. GroupsOK(gs)
      BY ReplicationGroupType
    <3>4. Write(is, gs, {g, instances[n].group})
      BY <2>2 DEF CommitReplicate
    <3>5. InstancesOK(is)
      <4> HIDE DEF n, m, g, gs
      <4> QED
        BY <2>2, <3>1, <3>2, ReplicaType
    <3> HIDE DEF n, m, g, gs, is
    <3> QED
      BY <3>3, <3>4, <3>5, WriteEffect
  <2> QED
    BY <2>1, <2>2
<1> QED
  BY <1>1, ReachesType DEF CommitReplicate, ReconOK

LEMMA CommitType ==
    ASSUME TypeOK, NEW r \in Request, Commit(r)
    PROVE  TypeOK'
<1> USE TypeParts
<1>1. CASE CreateDone(r)
  <2>1. InstancesOK(instances') /\ GroupsOK(groups')
    BY <1>1, SetStatusType, WriteFailsType DEF CreateDone, Status
  <2> QED
    BY <1>1, <2>1, EndsType DEF CreateDone, ReconOK
<1>2. CASE CreateFailed(r)
  <2>1. InstancesOK(instances') /\ GroupsOK(groups')
    BY <1>2, SetStatusType, WriteFailsType DEF CreateFailed, Status
  <2> QED
    BY <1>2, <2>1, EndsType DEF CreateFailed, ReconOK
<1>3. CASE CommitStart(r)
  BY <1>3, SetStatusType, ReachesType DEF CommitStart, ReconOK, Status
<1>4. CASE CommitStop(r)
  BY <1>4, SetStatusType, ReachesType DEF CommitStop, ReconOK, Status
<1>5. CASE CommitConfig(r) \/ CommitBackup(r) \/ CommitRestore(r)
  BY <1>5, ReachesType DEF CommitConfig, CommitBackup, CommitRestore, ReconOK
<1> QED
  BY <1>1, <1>2, <1>3, <1>4, <1>5, CommitDeleteType, CommitPromoteType,
     CommitReplicateType DEF Commit

LEMMA SentinelFailoverType ==
    ASSUME TypeOK, NEW g \in Group, NEW n \in Name, SentinelFailover(g, n)
    PROVE  TypeOK'
<1> DEFINE old == groups[g].currentMaster
           is  == [m \in DOMAIN instances |->
                     IF instances[m].group = g THEN [instances[m] EXCEPT !.lock = NONE]
                                               ELSE instances[m]]
           over == [m \in DOMAIN is |-> FailedOver(is[m], m, g, old, n)]
           gs   == [groups EXCEPT ![g].currentMaster = n]
<1> USE TypeParts
<1>1. InstancesOK(is)
  BY DEF InstancesOK, Instance
<1>2. GroupsOK(gs)
  BY DEF SentinelFailover, GroupsOK, GroupState
<1>3. \/ instances' = is /\ UNCHANGED groups
      \/ Write(over, gs, {g})
  BY DEF SentinelFailover
<1> HIDE DEF is, gs, old
<1>4. InstancesOK(over)
  <2>1. \A m \in DOMAIN is : is[m] \in Instance /\ m \in Name
    BY <1>1 DEF InstancesOK
  <2>2. ASSUME NEW m \in DOMAIN is PROVE FailedOver(is[m], m, g, old, n) \in Instance
    BY <2>1 DEF FailedOver, Instance, Status
  <2> QED
    BY <2>1, <2>2 DEF InstancesOK
<1> HIDE DEF over
<1>5. InstancesOK(instances') /\ GroupsOK(groups')
  BY <1>1, <1>2, <1>3, <1>4, WriteEffect DEF GroupsOK
<1> QED
  BY <1>5 DEF SentinelFailover, ReqOK, ReconOK

LEMMA NoPatchesType == DOMAIN NoPatches = {}
  BY DEF NoPatches

LEMMA ReconcileReadType ==
    ASSUME TypeOK, NEW k \in Reconciler, ReconcileRead(k)
    PROVE  TypeOK'
<1> USE TypeParts
<1>0. PICK S \in SUBSET DOMAIN instances : \E new \in [S -> Status] :
        recon' = [recon EXCEPT ![k] =
                    [n \in S |-> [seen |-> instances[n].status, new |-> new[n]]]]
  BY DEF ReconcileRead
<1>1. PICK new \in [S -> Status] :
        recon' = [recon EXCEPT ![k] =
                    [n \in S |-> [seen |-> instances[n].status, new |-> new[n]]]]
  BY <1>0
<1>2. \A n \in S : n \in Name /\ instances[n].status \in Status
  BY DEF InstancesOK, Instance
<1>3. ReconOK'
  BY <1>1, <1>2 DEF ReconOK, Patch
<1> QED
  BY <1>3 DEF ReconcileRead, ReqOK

LEMMA ReconcileApplyType ==
    ASSUME TypeOK, NEW k \in Reconciler, ReconcileApply(k)
    PROVE  TypeOK'
<1> USE TypeParts
<1>1. InstancesOK(Patched(instances, recon[k]))
  BY DEF InstancesOK, Patched, Instance, ReconOK, Patch
<1>2. InstancesOK(instances') /\ GroupsOK(groups')
  BY <1>1, WriteEffect DEF ReconcileApply
<1>3. ReconOK'
  BY NoPatchesType DEF ReconcileApply, ReconOK
<1> QED
  BY <1>2, <1>3 DEF ReconcileApply, ReqOK

LEMMA ExpireType ==
    ASSUME TypeOK, NEW n \in Name, Expire(n)
    PROVE  TypeOK'
<1> USE TypeParts
<1>1. instances[n].lock \in Lock
  BY DEF Expire, InstancesOK, Instance
<1>2. [instances[n].lock EXCEPT !.expired = TRUE] \in Lock
  BY <1>1 DEF Lock
<1>3. [instances[n] EXCEPT !.lock = [instances[n].lock EXCEPT !.expired = TRUE]] \in Instance
  BY <1>2 DEF Expire, InstancesOK, Instance
<1>4. instances' = [instances EXCEPT ![n] =
                      [instances[n] EXCEPT !.lock = [instances[n].lock EXCEPT !.expired = TRUE]]]
  BY DEF Expire
<1>5. InstancesOK(instances')
  BY <1>3, <1>4 DEF InstancesOK
<1> QED
  BY <1>5 DEF Expire, GroupsOK, ReqOK, ReconOK

LEMMA RestartType ==
    ASSUME TypeOK, Restart
    PROVE  TypeOK'
<1> USE TypeParts
<1>2. InstancesOK(instances')
  BY OrphanedType DEF Restart, OrphanAll, InstancesOK
<1> QED
  BY <1>2, IdleType, NoPatchesType DEF Restart, GroupsOK, ReqOK, ReconOK

LEMMA InitType == Init => TypeOK
  BY IdleType, NoPatchesType DEF Init, TypeOK

LEMMA TypeStep == TypeOK /\ [Next]_vars => TypeOK'
<1> SUFFICES ASSUME TypeOK, [Next]_vars PROVE TypeOK'
  OBVIOUS
<1>1. ASSUME NEW r \in Request,
             \/ Create(r) \/ Enter(r) \/ LockReceived(r) \/ AgentSucceeds(r)
             \/ AgentFails(r) \/ Commit(r) \/ Release(r)
      PROVE  TypeOK'
  BY <1>1, CreateType, EnterType, LockReceivedType, AnswerType, CommitType, ReleaseStepType
<1>2. ASSUME NEW g \in Group, NEW n \in Name, SentinelFailover(g, n) PROVE TypeOK'
  BY <1>2, SentinelFailoverType
<1>3. ASSUME NEW k \in Reconciler, ReconcileRead(k) \/ ReconcileApply(k) PROVE TypeOK'
  BY <1>3, ReconcileReadType, ReconcileApplyType
<1>4. CASE UNCHANGED vars
  BY <1>4, TypeParts DEF vars, GroupsOK, InstancesOK, ReqOK, ReconOK
<1> QED
  BY <1>1, <1>2, <1>3, <1>4, ExpireType, RestartType DEF Next

\* Every state the server can reach is well typed: a port or a port range that
\* is exhausted, a target that is gone and a group that was removed never put
\* a value into the file that its readers do not expect.
THEOREM TypeCorrect == Spec => []TypeOK
  BY InitType, TypeStep, PTL DEF Spec

=============================================================================
