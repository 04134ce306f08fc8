--------------------- MODULE InstanceTopologyProofs ---------------------
(***************************************************************************)
(* Roles, groups and ports in InstanceOps: a group never has two masters,  *)
(* an instance's group is recorded, no port is given twice, and InstanceOps *)
(* implements GroupRegistry; and where there is one group, the stored      *)
(* topology status is up to date.                                          *)
(***************************************************************************)
EXTENDS InstanceOpsProofs

-----------------------------------------------------------------------------
\* Between its transactions a handler changes locks, and nothing else of the file.
LEMMA LocksAtMost ==
    ASSUME NEW r \in Request,
           Enter(r) \/ LockReceived(r) \/ AgentSucceeds(r) \/ AgentFails(r) \/ Release(r)
    PROVE  /\ groups' = groups
           /\ \/ instances' = instances
              \/ \E S, h : instances' = AcquireAll(instances, S, h)
              \/ \E S, h : instances' = ReleaseAll(instances, S, h)
              \/ \E R : instances' = OrphanAll(instances, R)
<1>1. CASE Enter(r)
  <2>1. PICK n \in Name, h \in Sessions(r) :
          \/ \E op \in Ops : Begin(r, op, n, h)
          \/ BeginBackup(r, n, h)
          \/ BeginPromote(r, n, h)
          \/ BeginDelete(r, n, h)
          \/ CheckStop(r, n, h)
          \/ \E m \in Name : ResolveReplicate(r, n, m, h)
    BY <1>1 DEF Enter
  <2>2. CASE \E op \in Ops : Begin(r, op, n, h)
    BY <2>2 DEF Begin, TakeLocks
  <2>3. CASE BeginBackup(r, n, h)
    BY <2>3 DEF BeginBackup, TakeLocks
  <2>4. CASE BeginPromote(r, n, h)
    BY <2>4 DEF BeginPromote, TakeLocks
  <2>5. CASE BeginDelete(r, n, h)
    BY <2>5 DEF BeginDelete, TakeLocks
  <2>6. CASE CheckStop(r, n, h) \/ \E m \in Name : ResolveReplicate(r, n, m, h)
    BY <2>6 DEF CheckStop, ResolveReplicate
  <2> QED
    BY <2>1, <2>2, <2>3, <2>4, <2>5, <2>6
<1>2. CASE LockReceived(r)
  <2>1. \/ TakeLocks(r, req[r].op, req[r].name, req[r].target, req[r].holder, "locked")
        \/ UNCHANGED <<instances, groups>>
    BY <1>2 DEF LockReceived
  <2> QED
    BY <2>1 DEF TakeLocks
<1>3. CASE AgentSucceeds(r) \/ AgentFails(r)
  BY <1>3 DEF AgentSucceeds, AgentFails
<1>4. CASE Release(r)
  BY <1>4 DEF Release
<1> QED
  BY <1>1, <1>2, <1>3, <1>4

-----------------------------------------------------------------------------
(* Mastership.  The two invariants are one relation between the two maps of *)
(* the file; neither is inductive alone, since create relies on a new group *)
(* having no members and promote on the old master being the recorded one.  *)

Consistent(is, gs) ==
    \A n \in DOMAIN is : is[n].group # NONE =>
        /\ is[n].group \in DOMAIN gs
        /\ is[n].role = "master" => gs[is[n].group].currentMaster = n

LEMMA ConsistentParts ==
    /\ Consistent(instances, groups) <=> MembersHaveGroup /\ MasterIsCurrent
    /\ Consistent(instances', groups') <=> MembersHaveGroup' /\ MasterIsCurrent'
  BY DEF Consistent, MembersHaveGroup, MasterIsCurrent

\* What most transactions do: roles, memberships and current masters stay.
LEMMA ConsistencyKept ==
    ASSUME NEW is, NEW gs, Consistent(is, gs), NEW is2, NEW gs2,
           DOMAIN is2 \subseteq DOMAIN is,
           \A n \in DOMAIN is2 : is2[n].role = is[n].role /\ is2[n].group = is[n].group,
           DOMAIN gs \subseteq DOMAIN gs2,
           \A g \in DOMAIN gs : gs2[g].currentMaster = gs[g].currentMaster
    PROVE  Consistent(is2, gs2)
  BY DEF Consistent

\* A write keeps what holds of the maps it is given: the recalculation touches
\* nothing this relation reads.
LEMMA ConsistentWrite ==
    ASSUME NEW is, NEW gs, NEW G, GroupsOK(gs), Consistent(is, gs), Write(is, gs, G)
    PROVE  Consistent(instances', groups')
<1>1. /\ instances' = is
      /\ DOMAIN groups' = DOMAIN gs
      /\ \A g \in DOMAIN gs : groups'[g].currentMaster = gs[g].currentMaster
  BY WriteEffect DEF SameGroup
<1> QED
  BY <1>1 DEF Consistent

LEMMA SetStatusConsistent ==
    ASSUME TypeOK, Consistent(instances, groups), NEW n, NEW status, SetStatus(n, status)
    PROVE  Consistent(instances', groups')
<1>1. CASE n \in DOMAIN instances
  <2> DEFINE is == [instances EXCEPT ![n].status = status]
  <2>1. \A m \in DOMAIN instances : instances[m] \in Instance
    BY TypeParts DEF InstancesOK
  <2>2. /\ DOMAIN is = DOMAIN instances
        /\ \A m \in DOMAIN is : /\ is[m].role = instances[m].role
                                /\ is[m].group = instances[m].group
    BY <2>1 DEF Instance
  <2>3. Write(is, groups, {instances[n].group})
    BY <1>1 DEF SetStatus
  <2> HIDE DEF is
  <2>4. Consistent(is, groups)
    BY <2>2, ConsistencyKept
  <2> QED
    BY <2>3, <2>4, ConsistentWrite, TypeParts
<1>2. CASE n \notin DOMAIN instances
  BY <1>2 DEF SetStatus
<1> QED
  BY <1>1, <1>2

\* Locks come and go without disturbing the relation.
LEMMA LocksConsistent ==
    ASSUME TypeOK, Consistent(instances, groups), NEW S, NEW h
    PROVE  /\ Consistent(AcquireAll(instances, S, h), groups)
           /\ Consistent(ReleaseAll(instances, S, h), groups)
           /\ Consistent(OrphanAll(instances, S), groups)
<1>1. \A n \in DOMAIN instances : instances[n] \in Instance
  BY TypeParts DEF InstancesOK
<1>2. \A n \in DOMAIN instances :
        /\ AcquireAll(instances, S, h)[n].role = instances[n].role
        /\ AcquireAll(instances, S, h)[n].group = instances[n].group
        /\ ReleaseAll(instances, S, h)[n].role = instances[n].role
        /\ ReleaseAll(instances, S, h)[n].group = instances[n].group
        /\ OrphanAll(instances, S)[n].role = instances[n].role
        /\ OrphanAll(instances, S)[n].group = instances[n].group
  BY <1>1 DEF AcquireAll, Acquired, ReleaseAll, Released, OrphanAll, Orphaned, Instance
<1>3. /\ DOMAIN AcquireAll(instances, S, h) = DOMAIN instances
      /\ DOMAIN ReleaseAll(instances, S, h) = DOMAIN instances
      /\ DOMAIN OrphanAll(instances, S) = DOMAIN instances
  BY DEF AcquireAll, ReleaseAll, OrphanAll
<1> QED
  BY <1>2, <1>3, ConsistencyKept

LEMMA CreateMasterConsistent ==
    ASSUME TypeOK, Consistent(instances, groups),
           NEW r \in Request, NEW n \in Name, NEW g \in Group, NEW s \in Server,
           NEW type \in {"standalone", "replication"},
           CreateMaster(r, n, g, s, type)
    PROVE  Consistent(instances', groups')
<1> DEFINE inst  == NewInstance(g, "master", s, NONE)
           group == NewGroup(type, n)
<1>1. /\ n \notin DOMAIN instances /\ g \notin DOMAIN groups
      /\ Write(Put(instances, n, inst), Put(groups, g, group), {g})
  BY DEF CreateMaster
<1>2. inst.group = g
  BY DEF NewInstance
<1>3. group \in GroupState /\ group.currentMaster = n
  BY NewGroupType DEF CreateMaster
<1> HIDE DEF inst, group
<1>4. Consistent(Put(instances, n, inst), Put(groups, g, group))
  BY <1>1, <1>2, <1>3 DEF Consistent, Put
<1>5. GroupsOK(Put(groups, g, group))
  BY <1>3, TypeParts DEF GroupsOK, Put
<1> QED
  BY <1>1, <1>4, <1>5, ConsistentWrite

LEMMA WithAutoPortMaster ==
    ASSUME NEW gs, GroupsOK(gs), NEW g \in DOMAIN gs, NEW x \in DOMAIN gs
    PROVE  WithAutoPort(gs, g)[x].currentMaster = gs[x].currentMaster
  BY DEF WithAutoPort, GroupsOK, GroupState

\* Create and replicate turn the group into a replication group; its master stays.
LEMMA ReplicationGroupConsistent ==
    ASSUME TypeOK, NEW g \in DOMAIN groups
    PROVE  LET gs == WithAutoPort([groups EXCEPT ![g].type = "replication"], g)
           IN  /\ GroupsOK(gs)
               /\ DOMAIN gs = DOMAIN groups
               /\ \A x \in DOMAIN groups : gs[x].currentMaster = groups[x].currentMaster
<1> DEFINE gs0 == [groups EXCEPT ![g].type = "replication"]
<1>1. /\ GroupsOK(gs0)
      /\ DOMAIN gs0 = DOMAIN groups
      /\ \A x \in DOMAIN groups : gs0[x].currentMaster = groups[x].currentMaster
  BY TypeParts DEF GroupsOK, GroupState
<1> HIDE DEF gs0
<1>2. \A x \in DOMAIN groups : WithAutoPort(gs0, g)[x].currentMaster = groups[x].currentMaster
  BY <1>1, WithAutoPortMaster
<1>3. GroupsOK(WithAutoPort(gs0, g)) /\ DOMAIN WithAutoPort(gs0, g) = DOMAIN groups
  BY <1>1, WithAutoPortType
<1> QED
  BY <1>2, <1>3 DEF gs0

LEMMA CreateReplicaConsistent ==
    ASSUME TypeOK, Consistent(instances, groups),
           NEW r \in Request, NEW n \in Name, NEW m \in Name, NEW s \in Server,
           CreateReplica(r, n, m, s)
    PROVE  Consistent(instances', groups')
<1> DEFINE g    == instances[m].group
           inst == NewInstance(g, "replica", s, m)
           gs   == WithAutoPort([groups EXCEPT ![g].type = "replication"], g)
<1>1. /\ n \notin DOMAIN instances /\ g \in DOMAIN groups
      /\ Write(Put(instances, n, inst), gs, {g})
  BY DEF CreateReplica
<1>2. inst.group = g /\ inst.role = "replica"
  BY DEF NewInstance
<1>3. /\ GroupsOK(gs)
      /\ DOMAIN gs = DOMAIN groups
      /\ \A x \in DOMAIN groups : gs[x].currentMaster = groups[x].currentMaster
  BY <1>1, ReplicationGroupConsistent
<1> HIDE DEF g, inst, gs
<1>4. Consistent(Put(instances, n, inst), gs)
  BY <1>1, <1>2, <1>3 DEF Consistent, Put
<1> QED
  BY <1>1, <1>3, <1>4, ConsistentWrite

\* The group goes with its last member, and only then: nobody is left naming it.
LEMMA CommitDeleteConsistent ==
    ASSUME TypeOK, Consistent(instances, groups), NEW r \in Request, CommitDelete(r)
    PROVE  Consistent(instances', groups')
<1> DEFINE is == Without(instances, req[r].name)
           g  == req[r].group
<1>1. /\ DOMAIN is \subseteq DOMAIN instances
      /\ \A n \in DOMAIN is : is[n] = instances[n]
  BY DEF Without, Restrict
<1>2. Consistent(is, groups)
  BY <1>1 DEF Consistent
<1>3. CASE Abandoned(is, g)
  <2>1. instances' = is /\ groups' = Without(groups, g)
    BY <1>3 DEF CommitDelete
  <2>2. \A n \in DOMAIN is : is[n].group # g
    BY <1>3 DEF Abandoned, Members
  <2> HIDE DEF is, g
  <2> QED
    BY <1>2, <2>1, <2>2 DEF Consistent, Without, Restrict
<1>4. CASE ~Abandoned(is, g)
  <2>1. Write(is, groups, {g})
    BY <1>4 DEF CommitDelete
  <2> HIDE DEF is, g
  <2> QED
    BY <1>2, <2>1, ConsistentWrite, TypeParts
<1> QED
  BY <1>3, <1>4

\* The old master is found through the group, so that it is demoted wherever it
\* is; an instance whose group is not recorded has none.
LEMMA CommitPromoteConsistent ==
    ASSUME TypeOK, Consistent(instances, groups), NEW r \in Request, CommitPromote(r)
    PROVE  Consistent(instances', groups')
<1> DEFINE n == req[r].name
           g == instances[n].group
           old == groups[g].currentMaster
           gs == [groups EXCEPT ![g].currentMaster = n, ![g].type = "replication"]
<1>0. \A m \in DOMAIN instances : instances[m] \in Instance
  BY TypeParts DEF InstancesOK
<1>1. CASE n \notin DOMAIN instances
  BY <1>1 DEF CommitPromote
<1>2. CASE n \in DOMAIN instances /\ g \in DOMAIN groups
  <2> DEFINE is == Promoted(instances, n, old)
  <2>1. Write(is, gs, {g})
    BY <1>2 DEF CommitPromote
  <2>2. /\ DOMAIN is = DOMAIN instances
        /\ \A m \in DOMAIN instances :
             /\ is[m].group = instances[m].group
             /\ m # n /\ m = old => is[m].role = "replica"
             /\ m # n /\ m # old => is[m].role = instances[m].role
    BY <1>0 DEF Promoted, Instance
  <2>3. /\ GroupsOK(gs) /\ DOMAIN gs = DOMAIN groups
        /\ gs[g].currentMaster = n
        /\ \A x \in DOMAIN groups : x # g => gs[x] = groups[x]
    <3>1. n \in Name
      BY <1>2, TypeParts DEF InstancesOK
    <3>2. groups[g] \in GroupState
      BY <1>2, TypeParts DEF GroupsOK
    <3> HIDE DEF n, g
    <3> QED
      BY <3>1, <3>2, <1>2, TypeParts DEF GroupsOK, GroupState
  <2>4. Consistent(is, gs)
    <3> SUFFICES ASSUME NEW m \in DOMAIN is, is[m].group # NONE
                 PROVE  /\ is[m].group \in DOMAIN gs
                        /\ is[m].role = "master" => gs[is[m].group].currentMaster = m
      BY DEF Consistent
    <3> HIDE DEF n, g, old, is, gs
    <3>1. /\ instances[m].group \in DOMAIN groups
          /\ instances[m].role = "master" => groups[instances[m].group].currentMaster = m
      BY <2>2 DEF Consistent
    <3>2. CASE m = n
      BY <3>1, <3>2, <2>2, <2>3 DEF g
    <3>3. CASE m # n
      BY <3>1, <3>3, <2>2, <2>3 DEF old
    <3> QED
      BY <3>2, <3>3
  <2> HIDE DEF n, g, old, is, gs
  <2> QED
    BY <2>1, <2>3, <2>4, ConsistentWrite
<1>3. CASE n \in DOMAIN instances /\ g \notin DOMAIN groups
  <2> DEFINE is == Promoted(instances, n, n)
  <2>1. Write(is, groups, {})
    BY <1>3 DEF CommitPromote
  <2>2. g = NONE
    BY <1>3 DEF Consistent
  <2>3. /\ DOMAIN is = DOMAIN instances
        /\ \A m \in DOMAIN instances :
             /\ is[m].group = instances[m].group
             /\ m # n => is[m].role = instances[m].role
    BY <1>0 DEF Promoted, Instance
  <2>4. Consistent(is, groups)
    BY <2>2, <2>3 DEF Consistent
  <2> HIDE DEF is
  <2> QED
    BY <2>1, <2>4, ConsistentWrite, TypeParts
<1> QED
  BY <1>1, <1>2, <1>3

LEMMA CommitReplicateConsistent ==
    ASSUME TypeOK, Consistent(instances, groups), NEW r \in Request, CommitReplicate(r)
    PROVE  Consistent(instances', groups')
<1> DEFINE n  == req[r].name
           m  == req[r].target
           g  == IF m \in DOMAIN instances THEN instances[m].group ELSE NONE
           gs == IF g \in DOMAIN groups
                 THEN WithAutoPort([groups EXCEPT ![g].type = "replication"], g)
                 ELSE groups
           is == [instances EXCEPT ![n].role = "replica", ![n].replicaOf = m,
                                   ![n].group = g]
<1>1. CASE n \notin DOMAIN instances
  BY <1>1 DEF CommitReplicate
<1>2. CASE n \in DOMAIN instances
  <2>1. Write(is, gs, {g, instances[n].group})
    BY <1>2 DEF CommitReplicate
  <2>2. /\ GroupsOK(gs) /\ DOMAIN gs = DOMAIN groups
        /\ \A x \in DOMAIN groups : gs[x].currentMaster = groups[x].currentMaster
    BY ReplicationGroupConsistent, TypeParts
  <2>3. g # NONE => g \in DOMAIN groups
    BY DEF Consistent
  <2>4. /\ DOMAIN is = DOMAIN instances
        /\ is[n].group = g /\ is[n].role = "replica"
        /\ \A x \in DOMAIN instances : x # n => is[x] = instances[x]
    <3> HIDE DEF g, m, n
    <3>1. instances[n] \in Instance
      BY <1>2, TypeParts DEF InstancesOK
    <3> QED
      BY <1>2, <3>1 DEF Instance
  <2> HIDE DEF n, m, g, gs, is
  <2>5. Consistent(is, gs)
    BY <2>2, <2>3, <2>4 DEF Consistent
  <2> QED
    BY <2>1, <2>2, <2>5, ConsistentWrite
<1> QED
  BY <1>1, <1>2

\* Sentinel's choice is a member of the group, so it can be no other group's
\* master; the old master becomes a replica of the group wherever it was.
LEMMA SentinelFailoverConsistent ==
    ASSUME TypeOK, Consistent(instances, groups), NEW g \in Group, NEW n \in Name,
           SentinelFailover(g, n)
    PROVE  Consistent(instances', groups')
<1> DEFINE old == groups[g].currentMaster
           is  == [m \in DOMAIN instances |->
                     IF instances[m].group = g THEN [instances[m] EXCEPT !.lock = NONE]
                                               ELSE instances[m]]
           over == [m \in DOMAIN is |-> FailedOver(is[m], m, g, old, n)]
           gs   == [groups EXCEPT ![g].currentMaster = n]
<1>1. \/ instances' = is /\ UNCHANGED groups
      \/ Write(over, gs, {g})
  BY DEF SentinelFailover
<1>2. /\ g \in DOMAIN groups
      /\ n \in DOMAIN instances /\ instances[n].group = g
  BY DEF SentinelFailover, Members
<1>3. /\ DOMAIN is = DOMAIN instances
      /\ \A m \in DOMAIN is : /\ is[m] \in Instance
                              /\ is[m].role = instances[m].role
                              /\ is[m].group = instances[m].group
  BY TypeParts DEF InstancesOK, Instance
<1>4. GroupsOK(gs) /\ DOMAIN gs = DOMAIN groups
      /\ gs[g].currentMaster = n /\ \A x \in DOMAIN groups : x # g => gs[x] = groups[x]
  BY <1>2, TypeParts DEF GroupsOK, GroupState
<1> HIDE DEF is
<1>5. /\ DOMAIN over = DOMAIN instances
      /\ \A m \in DOMAIN instances :
           /\ m = n => over[m].group = g
           /\ m # n /\ m = old => over[m].role = "replica" /\ over[m].group = g
           /\ m # n /\ m # old => /\ over[m].group = instances[m].group
                                  /\ over[m].role \in {"replica", instances[m].role}
  BY <1>2, <1>3 DEF FailedOver, Instance
<1>6. Consistent(is, groups)
  BY <1>3, ConsistencyKept
<1>7. Consistent(over, gs)
  <2> SUFFICES ASSUME NEW m \in DOMAIN instances, over[m].group # NONE
               PROVE  /\ over[m].group \in DOMAIN gs
                      /\ over[m].role = "master" => gs[over[m].group].currentMaster = m
    BY <1>5 DEF Consistent
  <2> HIDE DEF over, gs
  <2>1. instances[m].group # NONE =>
          /\ instances[m].group \in DOMAIN groups
          /\ instances[m].role = "master" => groups[instances[m].group].currentMaster = m
    BY DEF Consistent
  <2>2. CASE m = n
    BY <2>2, <1>2, <1>4, <1>5
  <2>3. CASE m # n /\ m = old
    BY <2>3, <1>2, <1>4, <1>5
  <2>4. CASE m # n /\ m # old
    BY <2>1, <2>4, <1>4, <1>5
  <2> QED
    BY <2>2, <2>3, <2>4
<1> HIDE DEF over, gs, old
<1> QED
  BY <1>1, <1>4, <1>6, <1>7, ConsistentWrite

LEMMA BesideConsistent ==
    ASSUME TypeOK, Consistent(instances, groups),
           \/ \E k \in Reconciler : ReconcileApply(k)
           \/ \E n \in Name : Expire(n)
           \/ Restart
    PROVE  Consistent(instances', groups')
<1>0. \A m \in DOMAIN instances : instances[m] \in Instance
  BY TypeParts DEF InstancesOK
<1>1. ASSUME NEW k \in Reconciler, ReconcileApply(k) PROVE Consistent(instances', groups')
  <2> DEFINE is == Patched(instances, recon[k])
  <2>1. \E G : Write(is, groups, G)
    BY <1>1 DEF ReconcileApply
  <2>2. /\ DOMAIN is = DOMAIN instances
        /\ \A m \in DOMAIN is : is[m].role = instances[m].role /\ is[m].group = instances[m].group
    BY <1>0 DEF Patched, Instance
  <2> HIDE DEF is
  <2>3. Consistent(is, groups)
    BY <2>2, ConsistencyKept
  <2> QED
    BY <2>1, <2>3, ConsistentWrite, TypeParts
<1>2. ASSUME NEW n \in Name, Expire(n) PROVE Consistent(instances', groups')
  <2>1. /\ DOMAIN instances' = DOMAIN instances /\ groups' = groups
        /\ \A m \in DOMAIN instances : /\ instances'[m].role = instances[m].role
                                       /\ instances'[m].group = instances[m].group
    BY <1>0, <1>2 DEF Expire, Instance
  <2> QED
    BY <2>1, ConsistencyKept
<1>3. ASSUME Restart PROVE Consistent(instances', groups')
  <2>1. /\ DOMAIN instances' = DOMAIN instances /\ groups' = groups
        /\ \A m \in DOMAIN instances : /\ instances'[m].role = instances[m].role
                                       /\ instances'[m].group = instances[m].group
    BY <1>0, <1>3 DEF Restart, OrphanAll, Orphaned, Instance
  <2> QED
    BY <2>1, ConsistencyKept
<1> QED
  BY <1>1, <1>2, <1>3

LEMMA HandlerConsistent ==
    ASSUME TypeOK, Consistent(instances, groups), NEW r \in Request,
           \/ Create(r) \/ Enter(r) \/ LockReceived(r) \/ AgentSucceeds(r)
           \/ AgentFails(r) \/ Commit(r) \/ Release(r)
    PROVE  Consistent(instances', groups')
<1>1. CASE Create(r)
  BY <1>1, CreateMasterConsistent, CreateReplicaConsistent DEF Create
<1>2. CASE Enter(r) \/ LockReceived(r) \/ AgentSucceeds(r) \/ AgentFails(r) \/ Release(r)
  <2>1. /\ groups' = groups
        /\ \/ instances' = instances
           \/ \E S, h : instances' = AcquireAll(instances, S, h)
           \/ \E S, h : instances' = ReleaseAll(instances, S, h)
           \/ \E R : instances' = OrphanAll(instances, R)
    BY <1>2, LocksAtMost
  <2> QED
    BY <2>1, LocksConsistent
<1>3. CASE Commit(r)
  <2>1. CASE CreateDone(r) \/ CreateFailed(r)
    BY <2>1, CreateWrites, SetStatusConsistent
  <2>2. CASE ~(CreateDone(r) \/ CreateFailed(r))
    BY <1>3, <2>2, SetStatusConsistent, CommitDeleteConsistent, CommitPromoteConsistent,
       CommitReplicateConsistent
       DEF Commit, CommitStart, CommitStop, CommitConfig, CommitBackup, CommitRestore
  <2> QED
    BY <2>1, <2>2
<1> QED
  BY <1>1, <1>2, <1>3

\* In every reachable state a master is its group's current master, so that no
\* group has two, and the group an instance names is recorded, whatever the
\* handlers, Sentinel, the reconciliation, time and restarts do to each other.
THEOREM OneMaster == Spec => [](MasterIsCurrent /\ MembersHaveGroup)
<1> DEFINE IInv == TypeOK /\ Consistent(instances, groups)
<1>1. Init => IInv
  BY InitType DEF Init, Consistent
<1>2. IInv /\ [Next]_vars => IInv'
  <2> SUFFICES ASSUME TypeOK, Consistent(instances, groups), [Next]_vars
               PROVE  TypeOK' /\ Consistent(instances', groups')
    OBVIOUS
  <2>1. TypeOK'
    BY TypeStep
  <2>2. CASE UNCHANGED vars
    BY <2>1, <2>2 DEF vars
  <2>3. ASSUME NEW k \in Reconciler, ReconcileRead(k) PROVE Consistent(instances', groups')
    BY <2>3 DEF ReconcileRead
  <2>4. CASE Next
    BY <2>1, <2>3, <2>4, HandlerConsistent, SentinelFailoverConsistent, BesideConsistent DEF Next
  <2> QED
    BY <2>1, <2>2, <2>4
<1>3. IInv => MasterIsCurrent /\ MembersHaveGroup
  BY ConsistentParts
<1> QED
  BY <1>1, <1>2, <1>3, PTL DEF Spec

-----------------------------------------------------------------------------
(* Listings.  What the dashboard assumes of the answers it is given.        *)

Page == INSTANCE InstanceList WITH Node <- Server

\* The page orders names, which are numbers there; "" is 0.
NumbersForNames == Name \subseteq Nat \ {0} /\ Group \subseteq Nat \ {0}

\* An answer to /instance/list: the instances in S that there are and the groups
\* in G.  Without filters it is all of them; nobody sets failover_conflict.
ListingOf(S, G, nodes) ==
    [items  |-> [n \in S \cap DOMAIN instances |->
                    [group  |-> IF instances[n].group = NONE THEN 0 ELSE instances[n].group,
                     role   |-> instances[n].role,
                     status |-> instances[n].status]],
     groups |-> [g \in G \cap DOMAIN groups |->
                    [type          |-> groups[g].type,
                     currentMaster |-> groups[g].currentMaster,
                     topology      |-> groups[g].topology,
                     conflict      |-> FALSE]],
     nodes  |-> nodes]

\* Filters leave the groups of the instances they leave.
Covers(G, S) == \A n \in S \cap DOMAIN instances : instances[n].group \in G \cup {NONE}

LEMMA ListingType ==
    ASSUME TypeOK, NEW S, NEW G,
           NEW nodes \in [Server -> {"healthy", "unhealthy", "drain"}]
    PROVE  ListingOf(S, G, nodes) \in Page!Listing
<1> DEFINE l == ListingOf(S, G, nodes)
           I == S \cap DOMAIN instances
           H == G \cap DOMAIN groups
<1>1. /\ l = [items |-> l.items, groups |-> l.groups, nodes |-> l.nodes]
      /\ l.nodes = nodes
      /\ DOMAIN l.items = I /\ DOMAIN l.groups = H
  BY DEF ListingOf
<1>2. \A n \in I : l.items[n] \in Page!Item
  BY TypeParts DEF InstancesOK, Instance, Status, ListingOf, Page!Item, Page!Records!Status
<1>3. \A g \in H : l.groups[g] \in Page!GroupState
  BY TypeParts DEF GroupsOK, GroupState, ListingOf, Page!GroupState
<1>4. /\ l.items = [n \in I |-> l.items[n]]
      /\ l.groups = [g \in H |-> l.groups[g]]
  BY DEF ListingOf
<1>5. I \in SUBSET Name /\ H \in SUBSET Group
  BY TypeParts DEF InstancesOK, GroupsOK
<1> HIDE DEF l, I, H
<1>6. l.items \in [I -> Page!Item] /\ l.groups \in [H -> Page!GroupState]
  BY <1>2, <1>3, <1>4
<1>7. /\ l.items \in UNION {[T -> Page!Item] : T \in SUBSET Name}
      /\ l.groups \in UNION {[T -> Page!GroupState] : T \in SUBSET Group}
  BY <1>5, <1>6
<1>8. l \in Page!Listing
  BY <1>1, <1>7 DEF Page!Listing
<1> QED
  BY <1>8 DEF l

LEMMA ListingHasCurrentMasters ==
    ASSUME NumbersForNames, MasterIsCurrent, NEW S, NEW G, Covers(G, S), NEW nodes
    PROVE  Page!MasterIsCurrent(ListingOf(S, G, nodes))
  BY DEF MasterIsCurrent, Page!MasterIsCurrent, ListingOf, Covers

\* Whatever the server answers to /instance/list, filtered or not, keeps the
\* promise the dashboard's theorems start from (ListingsAreKept in Dashboard), in
\* every reachable state of the server: so the page's rules for rows hide nobody.
THEOREM ListingsKeepThePromise ==
    ASSUME NumbersForNames, NEW S, NEW G,
           NEW nodes \in [Server -> {"healthy", "unhealthy", "drain"}]
    PROVE  Spec => [](Covers(G, S) => /\ ListingOf(S, G, nodes) \in Page!Listing
                                      /\ Page!MasterIsCurrent(ListingOf(S, G, nodes)))
<1>1. TypeOK /\ MasterIsCurrent =>
        (Covers(G, S) => /\ ListingOf(S, G, nodes) \in Page!Listing
                         /\ Page!MasterIsCurrent(ListingOf(S, G, nodes)))
  BY ListingType, ListingHasCurrentMasters
<1> QED
  BY <1>1, OneMaster, TypeCorrect, PTL

-----------------------------------------------------------------------------
(* Ports.  A record keeps its server and port, a group its listener ports,  *)
(* except that a group without auto port may get one.                       *)

Apart(is) ==
    \A m, n \in DOMAIN is : m # n /\ is[m].server = is[n].server => is[m].port # is[n].port

GroupsApart(gs) ==
    \A g, h \in DOMAIN gs :
        g # h => /\ gs[g].masterPort # gs[h].masterPort
                 /\ gs[g].autoPort = gs[h].autoPort => gs[g].autoPort = 0

\* is2 has no record that is does not have, at the same address.
SameAddresses(is, is2) ==
    /\ DOMAIN is2 \subseteq DOMAIN is
    /\ \A n \in DOMAIN is2 : is2[n].server = is[n].server /\ is2[n].port = is[n].port

SameListeners(gs, gs2) ==
    /\ DOMAIN gs2 \subseteq DOMAIN gs
    /\ \A g \in DOMAIN gs2 : /\ gs2[g].masterPort = gs[g].masterPort
                             /\ gs2[g].autoPort = gs[g].autoPort

LEMMA ApartKept ==
    /\ \A is, is2 : Apart(is) /\ SameAddresses(is, is2) => Apart(is2)
    /\ \A gs, gs2 : GroupsApart(gs) /\ SameListeners(gs, gs2) => GroupsApart(gs2)
  BY DEF Apart, SameAddresses, GroupsApart, SameListeners

LEMMA WriteListeners ==
    ASSUME NEW is, NEW gs, NEW G, GroupsOK(gs), Write(is, gs, G)
    PROVE  instances' = is /\ SameListeners(gs, groups')
  BY WriteEffect DEF SameListeners, SameGroup

\* A free port is nobody's port.
LEMMA PutApart ==
    ASSUME Apart(instances), NEW n, n \notin DOMAIN instances, NEW inst,
           inst.port \in FreeRedisPorts(instances, inst.server)
    PROVE  Apart(Put(instances, n, inst))
<1>1. \A m \in DOMAIN instances :
        instances[m].server = inst.server => instances[m].port # inst.port
  BY DEF FreeRedisPorts
<1>2. Apart(Put(instances, n, inst))
  BY <1>1 DEF Apart, Put
<1> QED
  BY <1>2

LEMMA WithAutoPortApart ==
    ASSUME NEW gs, GroupsOK(gs), GroupsApart(gs), NEW g \in DOMAIN gs
    PROVE  GroupsApart(WithAutoPort(gs, g))
<1>1. CASE gs[g].autoPort = 0 /\ EnvoyPortsAvailable(gs, TRUE)
  <2> DEFINE p == Min(FreeAutoPorts(gs))
             gs2 == [gs EXCEPT ![g].autoPort = p]
  <2>1. p \in FreeAutoPorts(gs)
    BY <1>1, MinIsMember, PortsAreNumbers DEF EnvoyPortsAvailable, FreeAutoPorts
  <2>2. \A h \in DOMAIN gs : gs[h].autoPort # p
    BY <2>1 DEF FreeAutoPorts
  <2>3. gs[g] \in GroupState
    BY DEF GroupsOK
  <2> HIDE DEF p
  <2>4. /\ DOMAIN gs2 = DOMAIN gs
        /\ gs2[g].autoPort = p /\ gs2[g].masterPort = gs[g].masterPort
        /\ \A h \in DOMAIN gs : h # g => gs2[h] = gs[h]
    BY <2>3 DEF GroupState
  <2> HIDE DEF gs2
  <2>5. GroupsApart(gs2)
    BY <2>2, <2>4 DEF GroupsApart
  <2> QED
    BY <1>1, <2>5 DEF WithAutoPort, gs2, p
<1>2. CASE ~(gs[g].autoPort = 0 /\ EnvoyPortsAvailable(gs, TRUE))
  BY <1>2 DEF WithAutoPort
<1> QED
  BY <1>1, <1>2

LEMMA ReplicationGroupApart ==
    ASSUME TypeOK, GroupsApart(groups), NEW g \in DOMAIN groups
    PROVE  GroupsApart(WithAutoPort([groups EXCEPT ![g].type = "replication"], g))
<1> DEFINE gs0 == [groups EXCEPT ![g].type = "replication"]
<1>1. GroupsOK(gs0) /\ DOMAIN gs0 = DOMAIN groups /\ SameListeners(groups, gs0)
  BY TypeParts DEF GroupsOK, GroupState, SameListeners
<1> HIDE DEF gs0
<1>2. GroupsApart(WithAutoPort(gs0, g))
  BY <1>1, ApartKept, WithAutoPortApart
<1> QED
  BY <1>2 DEF gs0

LEMMA CreateMasterApart ==
    ASSUME TypeOK, Apart(instances), GroupsApart(groups),
           NEW r \in Request, NEW n \in Name, NEW g \in Group, NEW s \in Server,
           NEW type \in {"standalone", "replication"},
           CreateMaster(r, n, g, s, type)
    PROVE  Apart(instances') /\ GroupsApart(groups')
<1> DEFINE inst  == NewInstance(g, "master", s, NONE)
           group == NewGroup(type, n)
<1>1. /\ n \notin DOMAIN instances /\ g \notin DOMAIN groups
      /\ Write(Put(instances, n, inst), Put(groups, g, group), {g})
  BY DEF CreateMaster
<1>2. inst.server = s /\ inst.port \in FreeRedisPorts(instances, s)
  BY NewInstanceType DEF CreateMaster, NewInstance
<1>3. /\ group \in GroupState
      /\ group.masterPort \in FreeMasterPorts(groups)
      /\ group.autoPort \in FreeAutoPorts(groups) \cup {0}
  BY NewGroupType DEF CreateMaster
<1> HIDE DEF inst, group
<1>4. Apart(Put(instances, n, inst))
  BY <1>1, <1>2, PutApart
<1>5. \A h \in DOMAIN groups : /\ groups[h].masterPort # group.masterPort
                               /\ groups[h].autoPort = group.autoPort => group.autoPort = 0
  BY <1>3 DEF FreeMasterPorts, FreeAutoPorts
<1>6. GroupsOK(Put(groups, g, group)) /\ GroupsApart(Put(groups, g, group))
  BY <1>1, <1>3, <1>5, TypeParts DEF GroupsOK, GroupsApart, Put
<1> QED
  BY <1>1, <1>4, <1>6, WriteListeners, ApartKept

LEMMA CreateReplicaApart ==
    ASSUME TypeOK, Apart(instances), GroupsApart(groups),
           NEW r \in Request, NEW n \in Name, NEW m \in Name, NEW s \in Server,
           CreateReplica(r, n, m, s)
    PROVE  Apart(instances') /\ GroupsApart(groups')
<1> DEFINE g    == instances[m].group
           inst == NewInstance(g, "replica", s, m)
           gs   == WithAutoPort([groups EXCEPT ![g].type = "replication"], g)
<1>1. /\ n \notin DOMAIN instances /\ g \in DOMAIN groups /\ g \in Group
      /\ Write(Put(instances, n, inst), gs, {g})
  BY TypeParts DEF CreateReplica, GroupsOK
<1>2. inst.server = s /\ inst.port \in FreeRedisPorts(instances, s)
  BY <1>1, NewInstanceType DEF CreateReplica, NewInstance
<1>3. GroupsOK(gs) /\ GroupsApart(gs)
  BY <1>1, ReplicationGroupConsistent, ReplicationGroupApart
<1> HIDE DEF g, inst, gs
<1>4. Apart(Put(instances, n, inst))
  BY <1>1, <1>2, PutApart
<1> QED
  BY <1>1, <1>3, <1>4, WriteListeners, ApartKept

LEMMA SetStatusApart ==
    ASSUME TypeOK, Apart(instances), GroupsApart(groups), NEW n, NEW status,
           SetStatus(n, status)
    PROVE  Apart(instances') /\ GroupsApart(groups')
<1>1. CASE n \in DOMAIN instances
  <2>1. \A m \in DOMAIN instances : instances[m] \in Instance
    BY TypeParts DEF InstancesOK
  <2>2. SameAddresses(instances, [instances EXCEPT ![n].status = status])
    BY <2>1 DEF SameAddresses, Instance
  <2> QED
    BY <1>1, <2>2, ApartKept, WriteListeners, TypeParts DEF SetStatus
<1>2. CASE n \notin DOMAIN instances
  BY <1>2 DEF SetStatus
<1> QED
  BY <1>1, <1>2

LEMMA CommitDeleteApart ==
    ASSUME TypeOK, Apart(instances), GroupsApart(groups), NEW r \in Request, CommitDelete(r)
    PROVE  Apart(instances') /\ GroupsApart(groups')
<1> DEFINE is == Without(instances, req[r].name)
           g  == req[r].group
<1>1. SameAddresses(instances, is) /\ SameListeners(groups, Without(groups, g))
  BY DEF Without, Restrict, SameAddresses, SameListeners
<1>2. \/ instances' = is /\ groups' = Without(groups, g)
      \/ Write(is, groups, {g})
  BY DEF CommitDelete
<1> HIDE DEF is, g
<1> QED
  BY <1>1, <1>2, ApartKept, WriteListeners, TypeParts

LEMMA CommitPromoteApart ==
    ASSUME TypeOK, Apart(instances), GroupsApart(groups), NEW r \in Request, CommitPromote(r)
    PROVE  Apart(instances') /\ GroupsApart(groups')
<1> DEFINE n == req[r].name
           g == instances[n].group
           gs == [groups EXCEPT ![g].currentMaster = n, ![g].type = "replication"]
<1>1. \A m \in DOMAIN instances : instances[m] \in Instance
  BY TypeParts DEF InstancesOK
<1>2. ASSUME NEW old PROVE SameAddresses(instances, Promoted(instances, n, old))
  BY <1>1 DEF SameAddresses, Promoted, Instance
<1>3. CASE n \notin DOMAIN instances
  BY <1>3 DEF CommitPromote
<1>4. CASE n \in DOMAIN instances /\ g \in DOMAIN groups
  <2>1. Write(Promoted(instances, n, groups[g].currentMaster), gs, {g})
    BY <1>4 DEF CommitPromote
  <2>2. n \in Name /\ groups[g] \in GroupState
    BY <1>4, TypeParts DEF InstancesOK, GroupsOK
  <2>3. GroupsOK(gs) /\ SameListeners(groups, gs)
    <3> HIDE DEF n, g
    <3> QED
      BY <1>4, <2>2, TypeParts DEF GroupsOK, GroupState, SameListeners
  <2> HIDE DEF n, g, gs
  <2> QED
    BY <1>2, <2>1, <2>3, ApartKept, WriteListeners
<1>5. CASE n \in DOMAIN instances /\ g \notin DOMAIN groups
  <2>1. Write(Promoted(instances, n, n), groups, {})
    BY <1>5 DEF CommitPromote
  <2> HIDE DEF n, g, gs
  <2> QED
    BY <1>2, <2>1, ApartKept, WriteListeners, TypeParts
<1> QED
  BY <1>3, <1>4, <1>5

LEMMA CommitReplicateApart ==
    ASSUME TypeOK, Apart(instances), GroupsApart(groups), NEW r \in Request, CommitReplicate(r)
    PROVE  Apart(instances') /\ GroupsApart(groups')
<1> DEFINE n  == req[r].name
           m  == req[r].target
           g  == IF m \in DOMAIN instances THEN instances[m].group ELSE NONE
           gs == IF g \in DOMAIN groups
                 THEN WithAutoPort([groups EXCEPT ![g].type = "replication"], g)
                 ELSE groups
           is == [instances EXCEPT ![n].role = "replica", ![n].replicaOf = m,
                                   ![n].group = g]
<1>1. CASE n \notin DOMAIN instances
  BY <1>1 DEF CommitReplicate
<1>2. CASE n \in DOMAIN instances
  <2>1. Write(is, gs, {g, instances[n].group})
    BY <1>2 DEF CommitReplicate
  <2>2. GroupsOK(gs) /\ GroupsApart(gs)
    BY ReplicationGroupConsistent, ReplicationGroupApart, TypeParts
  <2>3. instances[n] \in Instance
    BY <1>2, TypeParts DEF InstancesOK
  <2>4. SameAddresses(instances, is)
    <3> HIDE DEF n, m, g
    <3> QED
      BY <1>2, <2>3 DEF SameAddresses, Instance
  <2> HIDE DEF n, m, g, gs, is
  <2> QED
    BY <2>1, <2>2, <2>4, ApartKept, WriteListeners
<1> QED
  BY <1>1, <1>2

LEMMA SentinelFailoverApart ==
    ASSUME TypeOK, Apart(instances), GroupsApart(groups), NEW g \in Group, NEW n \in Name,
           SentinelFailover(g, n)
    PROVE  Apart(instances') /\ GroupsApart(groups')
<1> DEFINE old == groups[g].currentMaster
           is  == [m \in DOMAIN instances |->
                     IF instances[m].group = g THEN [instances[m] EXCEPT !.lock = NONE]
                                               ELSE instances[m]]
           over == [m \in DOMAIN is |-> FailedOver(is[m], m, g, old, n)]
           gs   == [groups EXCEPT ![g].currentMaster = n]
<1>1. \/ instances' = is /\ UNCHANGED groups
      \/ Write(over, gs, {g})
  BY DEF SentinelFailover
<1>2. GroupsOK(gs) /\ SameListeners(groups, gs)
  BY TypeParts DEF SentinelFailover, GroupsOK, GroupState, SameListeners
<1>3. /\ SameAddresses(instances, is)
      /\ DOMAIN is = DOMAIN instances /\ \A m \in DOMAIN is : is[m] \in Instance
  BY TypeParts DEF InstancesOK, Instance, SameAddresses
<1> HIDE DEF is, old, gs
<1>4. SameAddresses(is, over)
  BY <1>3 DEF SameAddresses, FailedOver, Instance
<1> HIDE DEF over
<1> QED
  BY <1>1, <1>2, <1>3, <1>4, ApartKept, WriteListeners

LEMMA HandlerApart ==
    ASSUME TypeOK, Apart(instances), GroupsApart(groups), NEW r \in Request,
           \/ Create(r) \/ Enter(r) \/ LockReceived(r) \/ AgentSucceeds(r)
           \/ AgentFails(r) \/ Commit(r) \/ Release(r)
    PROVE  Apart(instances') /\ GroupsApart(groups')
<1>1. CASE Create(r)
  BY <1>1, CreateMasterApart, CreateReplicaApart DEF Create
<1>2. CASE Enter(r) \/ LockReceived(r) \/ AgentSucceeds(r) \/ AgentFails(r) \/ Release(r)
  <2>1. /\ groups' = groups
        /\ \/ instances' = instances
           \/ \E S, h : instances' = AcquireAll(instances, S, h)
           \/ \E S, h : instances' = ReleaseAll(instances, S, h)
           \/ \E R : instances' = OrphanAll(instances, R)
    BY <1>2, LocksAtMost
  <2>2. \A n \in DOMAIN instances : instances[n] \in Instance
    BY TypeParts DEF InstancesOK
  <2>3. ASSUME NEW S, NEW h
        PROVE  /\ SameAddresses(instances, AcquireAll(instances, S, h))
               /\ SameAddresses(instances, ReleaseAll(instances, S, h))
               /\ SameAddresses(instances, OrphanAll(instances, S))
    BY <2>2 DEF SameAddresses, AcquireAll, Acquired, ReleaseAll, Released, OrphanAll, Orphaned, Instance
  <2> QED
    BY <2>1, <2>3, ApartKept
<1>3. CASE Commit(r)
  <2>1. CASE CreateDone(r) \/ CreateFailed(r)
    BY <2>1, CreateWrites, SetStatusApart
  <2>2. CASE ~(CreateDone(r) \/ CreateFailed(r))
    BY <1>3, <2>2, SetStatusApart, CommitDeleteApart, CommitPromoteApart, CommitReplicateApart
       DEF Commit, CommitStart, CommitStop, CommitConfig, CommitBackup, CommitRestore
  <2> QED
    BY <2>1, <2>2
<1> QED
  BY <1>1, <1>2, <1>3

LEMMA BesideApart ==
    ASSUME TypeOK, Apart(instances), GroupsApart(groups),
           \/ \E k \in Reconciler : ReconcileApply(k)
           \/ \E n \in Name : Expire(n)
           \/ Restart
    PROVE  Apart(instances') /\ GroupsApart(groups')
<1>0. \A m \in DOMAIN instances : instances[m] \in Instance
  BY TypeParts DEF InstancesOK
<1>1. ASSUME NEW k \in Reconciler, ReconcileApply(k)
      PROVE  Apart(instances') /\ GroupsApart(groups')
  <2>1. SameAddresses(instances, Patched(instances, recon[k]))
    BY <1>0 DEF Patched, Instance, SameAddresses
  <2> QED
    BY <1>1, <2>1, ApartKept, WriteListeners, TypeParts DEF ReconcileApply
<1>2. ASSUME NEW n \in Name, Expire(n) PROVE SameAddresses(instances, instances')
  BY <1>0, <1>2 DEF Expire, Instance, SameAddresses
<1>3. ASSUME Restart PROVE SameAddresses(instances, instances')
  BY <1>0, <1>3 DEF Restart, OrphanAll, Orphaned, Instance, SameAddresses
<1> QED
  BY <1>1, <1>2, <1>3, ApartKept DEF Expire, Restart

\* No port is given twice: neither a Redis port of a server, to records that may
\* be creating, failed or stopped, nor an Envoy listener port of a group.
THEOREM PortsAreDistinct == Spec => [](PortsDistinct /\ EnvoyPortsDistinct)
<1> DEFINE IInv == TypeOK /\ Apart(instances) /\ GroupsApart(groups)
<1>1. Init => IInv
  BY InitType DEF Init, Apart, GroupsApart
<1>2. IInv /\ [Next]_vars => IInv'
  <2> SUFFICES ASSUME TypeOK, Apart(instances), GroupsApart(groups), [Next]_vars
               PROVE  TypeOK' /\ Apart(instances') /\ GroupsApart(groups')
    OBVIOUS
  <2>1. TypeOK'
    BY TypeStep
  <2>2. CASE UNCHANGED vars
    BY <2>1, <2>2 DEF vars
  <2>3. ASSUME NEW k \in Reconciler, ReconcileRead(k)
        PROVE  Apart(instances') /\ GroupsApart(groups')
    BY <2>3 DEF ReconcileRead
  <2>4. CASE Next
    BY <2>1, <2>3, <2>4, HandlerApart, SentinelFailoverApart, BesideApart DEF Next
  <2> QED
    BY <2>2, <2>4
<1>3. IInv => PortsDistinct /\ EnvoyPortsDistinct
  BY DEF PortsDistinct, EnvoyPortsDistinct, Apart, GroupsApart
<1> QED
  BY <1>1, <1>2, <1>3, PTL DEF Spec

-----------------------------------------------------------------------------
(* The registry.  Each transaction maps to one of its steps or to a stutter; *)
(* that a group joined has its master, and that an instance without recorded *)
(* group has none, is the relation proved above.                             *)

\* The fields the registry shows of a record.
Seen(x, y) == /\ x.server = y.server /\ x.port = y.port
              /\ x.group = y.group /\ x.role = y.role

LEMMA QuietStep ==
    ASSUME DOMAIN instances' = DOMAIN instances,
           \A n \in DOMAIN instances : Seen(instances'[n], instances[n]),
           DOMAIN groups' = DOMAIN groups,
           \A g \in DOMAIN groups : SameGroup(groups'[g], groups[g])
    PROVE  UNCHANGED Registry!vars
<1>1. UNCHANGED [n \in DOMAIN instances |-> <<instances[n].server, instances[n].port>>]
  BY DEF Seen
<1>2. UNCHANGED [n \in DOMAIN instances |-> instances[n].group]
  BY DEF Seen
<1>3. UNCHANGED {n \in DOMAIN instances : instances[n].role = "master"}
  BY DEF Seen
<1>4. UNCHANGED [g \in DOMAIN groups |-> groups[g].currentMaster]
  BY DEF SameGroup
<1>5. UNCHANGED [g \in DOMAIN groups |-> groups[g].masterPort]
  BY DEF SameGroup
<1>6. UNCHANGED [g \in DOMAIN groups |-> groups[g].autoPort]
  BY DEF SameGroup
<1> QED
  BY <1>1, <1>2, <1>3, <1>4, <1>5, <1>6 DEF Registry!vars

\* A write of records that look as before.
LEMMA QuietWrite ==
    ASSUME TypeOK, NEW is, NEW G, Write(is, groups, G),
           DOMAIN is = DOMAIN instances,
           \A n \in DOMAIN instances : Seen(is[n], instances[n])
    PROVE  UNCHANGED Registry!vars
  BY QuietStep, WriteEffect, TypeParts

LEMMA QuietLocks ==
    ASSUME TypeOK, groups' = groups, NEW S, NEW h,
           \/ instances' = AcquireAll(instances, S, h)
           \/ instances' = ReleaseAll(instances, S, h)
           \/ instances' = OrphanAll(instances, S)
    PROVE  UNCHANGED Registry!vars
<1>1. \A n \in DOMAIN instances : instances[n] \in Instance
  BY TypeParts DEF InstancesOK
<1>2. /\ DOMAIN instances' = DOMAIN instances
      /\ \A n \in DOMAIN instances : Seen(instances'[n], instances[n])
  BY <1>1 DEF AcquireAll, Acquired, ReleaseAll, Released, OrphanAll, Orphaned, Instance, Seen
<1> QED
  BY <1>2, QuietStep DEF SameGroup

LEMMA QuietSetStatus ==
    ASSUME TypeOK, NEW n, NEW status, SetStatus(n, status)
    PROVE  UNCHANGED Registry!vars
<1>1. CASE n \in DOMAIN instances
  <2> DEFINE is == [instances EXCEPT ![n].status = status]
  <2>1. \A m \in DOMAIN instances : instances[m] \in Instance
    BY TypeParts DEF InstancesOK
  <2>2. DOMAIN is = DOMAIN instances /\ \A m \in DOMAIN instances : Seen(is[m], instances[m])
    BY <2>1 DEF Instance, Seen
  <2>3. Write(is, groups, {instances[n].group})
    BY <1>1 DEF SetStatus
  <2> HIDE DEF is
  <2> QED
    BY <2>2, <2>3, QuietWrite
<1>2. CASE n \notin DOMAIN instances
  BY <1>2, QuietStep DEF SetStatus, Seen, SameGroup
<1> QED
  BY <1>1, <1>2

\* A new record: its address is nobody's.
LEMMA RegisterStep ==
    ASSUME TypeOK, NEW n \in Name, n \notin DOMAIN instances, NEW inst \in Instance,
           inst.port \in FreeRedisPorts(instances, inst.server),
           instances' = Put(instances, n, inst)
    PROVE  Registry!Register(n, inst.group)
<1> DEFINE a == <<inst.server, inst.port>>
           address == [m \in DOMAIN instances |-> <<instances[m].server, instances[m].port>>]
<1>1. a \in Server \X RedisPort
  BY DEF Instance
<1>2. \A m \in DOMAIN address : address[m] # a
  BY DEF FreeRedisPorts
<1>3. a \in Registry!Free(Server \X RedisPort, address)
  BY <1>1, <1>2 DEF Registry!Free
<1>4. address' = Registry!Add(address, n, a)
  BY DEF Registry!Add, Put
<1>5. [m \in DOMAIN instances |-> instances[m].group]'
        = Registry!Add([m \in DOMAIN instances |-> instances[m].group], n, inst.group)
  BY DEF Registry!Add, Put
<1> QED
  BY <1>3, <1>4, <1>5 DEF Registry!Register

\* A group that becomes a replication group gets at most a free auto port.
LEMMA MayOpenStep ==
    ASSUME TypeOK, NEW g \in DOMAIN groups, NEW is, NEW G,
           Write(is, WithAutoPort([groups EXCEPT ![g].type = "replication"], g), G)
    PROVE  /\ Registry!MayOpen(g)
           /\ UNCHANGED [h \in DOMAIN groups |-> groups[h].currentMaster]
           /\ UNCHANGED [h \in DOMAIN groups |-> groups[h].masterPort]
<1> DEFINE gs0 == [groups EXCEPT ![g].type = "replication"]
           gs  == WithAutoPort(gs0, g)
           autoPort == [h \in DOMAIN groups |-> groups[h].autoPort]
           p   == Min(FreeAutoPorts(gs0))
<1>1. /\ GroupsOK(gs0) /\ DOMAIN gs0 = DOMAIN groups
      /\ \A h \in DOMAIN groups : /\ gs0[h].autoPort = groups[h].autoPort
                                  /\ gs0[h].masterPort = groups[h].masterPort
                                  /\ gs0[h].currentMaster = groups[h].currentMaster
  BY TypeParts DEF GroupsOK, GroupState
<1>2. GroupsOK(gs) /\ DOMAIN gs = DOMAIN groups
  BY ReplicationGroupType, TypeParts
<1>3. /\ DOMAIN groups' = DOMAIN groups
      /\ \A h \in DOMAIN groups : /\ groups'[h].autoPort = gs[h].autoPort
                                  /\ groups'[h].masterPort = gs[h].masterPort
                                  /\ groups'[h].currentMaster = gs[h].currentMaster
  BY <1>2, WriteEffect DEF SameGroup
<1> HIDE DEF gs0
<1>4. CASE gs0[g].autoPort = 0 /\ EnvoyPortsAvailable(gs0, TRUE)
  <2>1. p \in FreeAutoPorts(gs0)
    BY <1>4, MinIsMember, PortsAreNumbers DEF EnvoyPortsAvailable, FreeAutoPorts
  <2>2. p \in EnvoyAuto /\ \A h \in DOMAIN groups : groups[h].autoPort # p
    BY <1>1, <2>1 DEF FreeAutoPorts
  <2>3. p \in Registry!Free(EnvoyAuto, autoPort)
    BY <2>2 DEF Registry!Free
  <2>4. gs = [gs0 EXCEPT ![g].autoPort = p]
    BY <1>4 DEF WithAutoPort
  <2>5. gs0[g] \in GroupState
    BY <1>1 DEF GroupsOK
  <2> HIDE DEF p, gs
  <2>6. \A h \in DOMAIN groups : /\ gs[h].autoPort = IF h = g THEN p ELSE groups[h].autoPort
                                 /\ gs[h].masterPort = groups[h].masterPort
                                 /\ gs[h].currentMaster = groups[h].currentMaster
    BY <1>1, <2>4, <2>5 DEF GroupState
  <2>7. autoPort' = [autoPort EXCEPT ![g] = p]
    BY <1>3, <2>6
  <2>8. autoPort[g] = 0
    BY <1>1, <1>4
  <2>9. Registry!MayOpen(g)
    BY <2>3, <2>7, <2>8 DEF Registry!MayOpen
  <2> QED
    BY <1>3, <2>6, <2>9
<1>5. CASE ~(gs0[g].autoPort = 0 /\ EnvoyPortsAvailable(gs0, TRUE))
  <2>1. gs = gs0
    BY <1>5 DEF WithAutoPort
  <2>2. \A h \in DOMAIN groups : /\ groups'[h].autoPort = groups[h].autoPort
                                 /\ groups'[h].masterPort = groups[h].masterPort
                                 /\ groups'[h].currentMaster = groups[h].currentMaster
    BY <1>1, <1>3, <2>1
  <2>3. UNCHANGED autoPort
    BY <1>3, <2>2
  <2>4. Registry!MayOpen(g)
    BY <2>3 DEF Registry!MayOpen
  <2> QED
    BY <1>3, <2>2, <2>4
<1> QED
  BY <1>4, <1>5

LEMMA FoundStep ==
    ASSUME TypeOK, Consistent(instances, groups),
           NEW r \in Request, NEW n \in Name, NEW g \in Group, NEW s \in Server,
           NEW type \in {"standalone", "replication"},
           CreateMaster(r, n, g, s, type)
    PROVE  Registry!Found(n, g)
<1> DEFINE inst  == NewInstance(g, "master", s, NONE)
           group == NewGroup(type, n)
           gs    == Put(groups, g, group)
<1>1. /\ n \notin DOMAIN instances /\ g \notin DOMAIN groups
      /\ Write(Put(instances, n, inst), gs, {g})
  BY DEF CreateMaster
<1>2. /\ inst.group = g /\ inst.role = "master" /\ inst.server = s
      /\ inst \in Instance /\ inst.port \in FreeRedisPorts(instances, s)
  BY NewInstanceType DEF CreateMaster, NewInstance
<1>3. /\ group \in GroupState /\ group.currentMaster = n
      /\ group.masterPort \in FreeMasterPorts(groups)
      /\ group.autoPort \in FreeAutoPorts(groups) \cup {0}
  BY NewGroupType DEF CreateMaster
<1> HIDE DEF inst, group
<1>4. GroupsOK(gs)
  BY <1>3, TypeParts DEF GroupsOK, Put
<1>5. /\ instances' = Put(instances, n, inst)
      /\ DOMAIN groups' = DOMAIN groups \cup {g}
      /\ \A h \in DOMAIN groups' : SameGroup(groups'[h], IF h = g THEN group ELSE groups[h])
  <2>1. DOMAIN gs = DOMAIN groups \cup {g}
        /\ \A h \in DOMAIN gs : gs[h] = IF h = g THEN group ELSE groups[h]
    BY DEF Put
  <2> HIDE DEF gs
  <2> QED
    BY <1>1, <1>4, <2>1, WriteEffect
<1>6. \A m \in DOMAIN instances : instances[m].group # g
  BY <1>1, NoneIsNoValue DEF Consistent
<1>7. Registry!Register(n, g)
  BY <1>1, <1>2, <1>5, RegisterStep
<1>8. {m \in DOMAIN instances : instances[m].role = "master"}'
        = {m \in DOMAIN instances : instances[m].role = "master"} \cup {n}
  BY <1>1, <1>2, <1>5 DEF Put
<1>9. /\ [h \in DOMAIN groups |-> groups[h].currentMaster]'
           = Registry!Add([h \in DOMAIN groups |-> groups[h].currentMaster], g, n)
      /\ [h \in DOMAIN groups |-> groups[h].masterPort]'
           = Registry!Add([h \in DOMAIN groups |-> groups[h].masterPort], g, group.masterPort)
      /\ [h \in DOMAIN groups |-> groups[h].autoPort]'
           = Registry!Add([h \in DOMAIN groups |-> groups[h].autoPort], g, group.autoPort)
  BY <1>1, <1>3, <1>5 DEF Registry!Add, SameGroup
<1>10. group.masterPort \in
         Registry!Free(EnvoyMaster, [h \in DOMAIN groups |-> groups[h].masterPort])
  BY <1>3 DEF FreeMasterPorts, Registry!Free
<1>11. group.autoPort \in
         Registry!Free(EnvoyAuto, [h \in DOMAIN groups |-> groups[h].autoPort]) \cup {0}
  BY <1>3 DEF FreeAutoPorts, Registry!Free
<1> QED
  BY <1>1, <1>6, <1>7, <1>8, <1>9, <1>10, <1>11 DEF Registry!Found

LEMMA JoinStep ==
    ASSUME TypeOK, Consistent(instances, groups),
           NEW r \in Request, NEW n \in Name, NEW m \in Name, NEW s \in Server,
           CreateReplica(r, n, m, s), NEW g \in Group, g = instances[m].group
    PROVE  Registry!Join(n, g)
<1> DEFINE inst == NewInstance(g, "replica", s, m)
           gs   == WithAutoPort([groups EXCEPT ![g].type = "replication"], g)
<1>1. /\ n \notin DOMAIN instances /\ m \in DOMAIN instances
      /\ instances[m].role = "master" /\ g \in DOMAIN groups
      /\ Write(Put(instances, n, inst), gs, {g})
  BY DEF CreateReplica
<1>2. /\ inst.group = g /\ inst.role = "replica" /\ inst.server = s
      /\ inst \in Instance /\ inst.port \in FreeRedisPorts(instances, s)
  BY <1>1, NewInstanceType DEF CreateReplica, NewInstance
<1>3. groups[g].currentMaster = m
  BY <1>1, NoneIsNoValue DEF Consistent
<1>4. instances' = Put(instances, n, inst)
  BY <1>1 DEF Write
<1>5. /\ Registry!MayOpen(g)
      /\ UNCHANGED [h \in DOMAIN groups |-> groups[h].currentMaster]
      /\ UNCHANGED [h \in DOMAIN groups |-> groups[h].masterPort]
  BY <1>1, MayOpenStep
<1> HIDE DEF inst, gs
<1>6. Registry!Register(n, g)
  BY <1>1, <1>2, <1>4, RegisterStep
<1>7. UNCHANGED {x \in DOMAIN instances : instances[x].role = "master"}
  BY <1>1, <1>2, <1>4 DEF Put
<1> QED
  BY <1>1, <1>3, <1>5, <1>6, <1>7 DEF Registry!Join

\* A delete that comes second finds no record, but may find its group empty.
LEMMA DeleteStep ==
    ASSUME TypeOK, NEW r \in Request, CommitDelete(r),
           NEW n, n = req[r].name, NEW g, g = req[r].group
    PROVE  \/ n \in Name /\ Registry!Delete(n)
           \/ g \in Group /\ Registry!Close(g)
           \/ UNCHANGED Registry!vars
<1> DEFINE is == Without(instances, n)
           address == [m \in DOMAIN instances |-> <<instances[m].server, instances[m].port>>]
           member  == [m \in DOMAIN instances |-> instances[m].group]
           masters == {m \in DOMAIN instances : instances[m].role = "master"}
           listeners == <<[h \in DOMAIN groups |-> groups[h].masterPort],
                          [h \in DOMAIN groups |-> groups[h].autoPort]>>
           current == [h \in DOMAIN groups |-> groups[h].currentMaster]
<1>1. /\ DOMAIN is = DOMAIN instances \ {n}
      /\ \A m \in DOMAIN is : is[m] = instances[m]
  BY DEF Without, Restrict
<1>2. instances' = is
  BY WriteEffect, TypeParts DEF CommitDelete
<1>3. \/ UNCHANGED <<current, listeners>>
      \/ g \in Group /\ Registry!Dissolve(g)
  <2>1. CASE Abandoned(is, g) /\ g \in DOMAIN groups
    <3>1. groups' = Without(groups, g)
      BY <2>1 DEF CommitDelete
    <3>2. DOMAIN groups' = DOMAIN groups \ {g} /\ \A h \in DOMAIN groups' : groups'[h] = groups[h]
      BY <3>1 DEF Without, Restrict
    <3>3. \A m \in DOMAIN member' : member'[m] # g
      BY <1>2, <2>1 DEF Abandoned, Members
    <3>4. g \in DOMAIN current /\ g \in Group
      BY <2>1, TypeParts DEF GroupsOK
    <3>5. /\ current' = Registry!Drop(current, g)
          /\ [h \in DOMAIN groups |-> groups[h].masterPort]'
               = Registry!Drop([h \in DOMAIN groups |-> groups[h].masterPort], g)
          /\ [h \in DOMAIN groups |-> groups[h].autoPort]'
               = Registry!Drop([h \in DOMAIN groups |-> groups[h].autoPort], g)
      BY <3>2 DEF Registry!Drop, Registry!Restrict
    <3> QED
      BY <3>3, <3>4, <3>5 DEF Registry!Dissolve
  <2>2. CASE Abandoned(is, g) /\ g \notin DOMAIN groups
    <3>1. groups' = Without(groups, g)
      BY <2>2 DEF CommitDelete
    <3>2. DOMAIN groups' = DOMAIN groups /\ \A h \in DOMAIN groups : groups'[h] = groups[h]
      BY <2>2, <3>1 DEF Without, Restrict
    <3> QED
      BY <3>2
  <2>3. CASE ~Abandoned(is, g)
    <3>1. Write(is, groups, {g})
      BY <2>3 DEF CommitDelete
    <3>2. /\ DOMAIN groups' = DOMAIN groups
          /\ \A h \in DOMAIN groups : SameGroup(groups'[h], groups[h])
      BY <3>1, WriteEffect, TypeParts
    <3> QED
      BY <3>2 DEF SameGroup
  <2> QED
    BY <2>1, <2>2, <2>3
<1>4. CASE n \in DOMAIN instances
  <2>1. /\ address' = Registry!Drop(address, n)
        /\ member' = Registry!Drop(member, n)
    BY <1>1, <1>2 DEF Registry!Drop, Registry!Restrict
  <2>2. masters' = masters \ {n}
    BY <1>1, <1>2
  <2>3. n \in Name /\ n \in DOMAIN member
    BY <1>4, TypeParts DEF InstancesOK
  <2>4. Registry!Delete(n)
    BY <1>3, <2>1, <2>2, <2>3 DEF Registry!Delete, Registry!listeners
  <2> QED
    BY <2>3, <2>4
<1>5. CASE n \notin DOMAIN instances
  <2>1. UNCHANGED <<address, member, masters>>
    BY <1>1, <1>2, <1>5
  <2>2. CASE UNCHANGED <<current, listeners>>
    BY <2>1, <2>2 DEF Registry!vars
  <2>3. CASE g \in Group /\ Registry!Dissolve(g)
    BY <2>1, <2>3 DEF Registry!Close
  <2> QED
    BY <1>3, <2>2, <2>3
<1> QED
  BY <1>4, <1>5

\* Mastership moves within group g: what a promote and a failover have in common.
LEMMA ElectStep ==
    ASSUME NEW n, NEW g \in DOMAIN groups, NEW old, old = groups[g].currentMaster,
           n \in DOMAIN instances, instances[n].group = g,
           DOMAIN instances' = DOMAIN instances,
           \A m \in DOMAIN instances :
              /\ instances'[m].server = instances[m].server
              /\ instances'[m].port = instances[m].port
              /\ m # old => instances'[m].group = instances[m].group
              /\ instances'[m].role = "master"
                   <=> m = n \/ (m # old /\ instances[m].role = "master"),
           \/ \A m \in DOMAIN instances : instances'[m].group = instances[m].group
           \/ old \in DOMAIN instances /\ instances'[old].group = g,
           DOMAIN groups' = DOMAIN groups,
           \A h \in DOMAIN groups :
              /\ groups'[h].currentMaster = IF h = g THEN n ELSE groups[h].currentMaster
              /\ groups'[h].masterPort = groups[h].masterPort
              /\ groups'[h].autoPort = groups[h].autoPort
    PROVE  Registry!Elect(n, g)
<1> DEFINE member  == [m \in DOMAIN instances |-> instances[m].group]
           masters == {m \in DOMAIN instances : instances[m].role = "master"}
           current == [h \in DOMAIN groups |-> groups[h].currentMaster]
<1>1. current[g] = old /\ current' = [current EXCEPT ![g] = n]
  OBVIOUS
<1>2. masters' = (masters \ {old}) \cup {n}
  OBVIOUS
<1>3. \/ UNCHANGED member
      \/ old \in DOMAIN member /\ member' = [member EXCEPT ![old] = g]
  <2>1. CASE \A m \in DOMAIN instances : instances'[m].group = instances[m].group
    BY <2>1
  <2>2. CASE old \in DOMAIN instances /\ instances'[old].group = g
    <3>1. \A m \in DOMAIN instances :
            instances'[m].group = IF m = old THEN g ELSE instances[m].group
      BY <2>2
    <3>2. member' = [member EXCEPT ![old] = g]
      BY <2>2, <3>1
    <3> QED
      BY <2>2, <3>2
  <2> QED
    BY <2>1, <2>2
<1>4. UNCHANGED [m \in DOMAIN instances |-> <<instances[m].server, instances[m].port>>]
  OBVIOUS
<1>5. UNCHANGED Registry!listeners
  BY DEF Registry!listeners
<1> QED
  BY <1>1, <1>2, <1>3, <1>4, <1>5 DEF Registry!Elect

\* Who is promoted outside any recorded group is in none.
LEMMA PromoteStep ==
    ASSUME TypeOK, Consistent(instances, groups), NEW r \in Request, CommitPromote(r),
           NEW n, n = req[r].name, NEW g, g = instances[n].group
    PROVE  \/ n \in Name /\ g \in Group /\ Registry!Elect(n, g)
           \/ n \in Name /\ Registry!ElectAlone(n)
           \/ UNCHANGED Registry!vars
<1>0. \A m \in DOMAIN instances : instances[m] \in Instance /\ m \in Name
  BY TypeParts DEF InstancesOK
<1>1. CASE n \notin DOMAIN instances
  BY <1>1, QuietStep DEF CommitPromote, Seen, SameGroup
<1>2. CASE n \in DOMAIN instances /\ g \in DOMAIN groups
  <2> DEFINE old == groups[g].currentMaster
             is  == Promoted(instances, n, old)
             gs  == [groups EXCEPT ![g].currentMaster = n, ![g].type = "replication"]
  <2>1. Write(is, gs, {g})
    BY <1>2 DEF CommitPromote
  <2>2. /\ DOMAIN is = DOMAIN instances
        /\ \A m \in DOMAIN instances :
              /\ is[m].server = instances[m].server
              /\ is[m].port = instances[m].port
              /\ is[m].group = instances[m].group
              /\ is[m].role = "master" <=> m = n \/ (m # old /\ instances[m].role = "master")
    BY <1>0 DEF Promoted, Instance
  <2>3. groups[g] \in GroupState /\ g \in Group
    BY <1>2, TypeParts DEF GroupsOK
  <2>4. /\ GroupsOK(gs) /\ DOMAIN gs = DOMAIN groups
        /\ \A h \in DOMAIN groups :
              /\ gs[h].currentMaster = IF h = g THEN n ELSE groups[h].currentMaster
              /\ gs[h].masterPort = groups[h].masterPort
              /\ gs[h].autoPort = groups[h].autoPort
    BY <1>0, <1>2, <2>3, TypeParts DEF GroupsOK, GroupState
  <2> HIDE DEF is, gs
  <2>5. /\ instances' = is /\ DOMAIN groups' = DOMAIN groups
        /\ \A h \in DOMAIN groups : SameGroup(groups'[h], gs[h])
    BY <2>1, <2>4, WriteEffect
  <2>6. Registry!Elect(n, g)
    BY <1>2, <2>2, <2>4, <2>5, ElectStep DEF SameGroup
  <2> QED
    BY <1>0, <1>2, <2>3, <2>6
<1>3. CASE n \in DOMAIN instances /\ g \notin DOMAIN groups
  <2> DEFINE is == Promoted(instances, n, n)
  <2>1. Write(is, groups, {})
    BY <1>3 DEF CommitPromote
  <2>2. /\ DOMAIN is = DOMAIN instances
        /\ \A m \in DOMAIN instances :
              /\ is[m].server = instances[m].server
              /\ is[m].port = instances[m].port
              /\ is[m].group = instances[m].group
              /\ is[m].role = "master" <=> m = n \/ instances[m].role = "master"
    BY <1>0 DEF Promoted, Instance
  <2> HIDE DEF is
  <2>3. /\ instances' = is /\ DOMAIN groups' = DOMAIN groups
        /\ \A h \in DOMAIN groups : SameGroup(groups'[h], groups[h])
    BY <2>1, WriteEffect, TypeParts
  <2>4. g = NONE
    BY <1>3 DEF Consistent
  <2>5. {m \in DOMAIN instances : instances[m].role = "master"}'
          = {m \in DOMAIN instances : instances[m].role = "master"} \cup {n}
    BY <1>3, <2>2, <2>3
  <2>6. /\ UNCHANGED [m \in DOMAIN instances |-> <<instances[m].server, instances[m].port>>]
        /\ UNCHANGED [m \in DOMAIN instances |-> instances[m].group]
    BY <2>2, <2>3
  <2>7. /\ UNCHANGED [h \in DOMAIN groups |-> groups[h].currentMaster]
        /\ UNCHANGED [h \in DOMAIN groups |-> groups[h].masterPort]
        /\ UNCHANGED [h \in DOMAIN groups |-> groups[h].autoPort]
    BY <2>3 DEF SameGroup
  <2>8. Registry!ElectAlone(n)
    BY <1>3, <2>4, <2>5, <2>6, <2>7 DEF Registry!ElectAlone, Registry!listeners
  <2> QED
    BY <1>0, <1>3, <2>8
<1> QED
  BY <1>1, <1>2, <1>3

LEMMA MoveStep ==
    ASSUME TypeOK, Consistent(instances, groups), NEW r \in Request, CommitReplicate(r),
           NEW n, n = req[r].name, NEW m, m = req[r].target,
           NEW g, g = IF m \in DOMAIN instances THEN instances[m].group ELSE NONE
    PROVE  \/ n \in Name /\ g \in Group \cup {NONE} /\ Registry!Move(n, g)
           \/ UNCHANGED Registry!vars
<1> DEFINE gs == IF g \in DOMAIN groups
                 THEN WithAutoPort([groups EXCEPT ![g].type = "replication"], g)
                 ELSE groups
           is == [instances EXCEPT ![n].role = "replica", ![n].replicaOf = m,
                                   ![n].group = g]
           member  == [x \in DOMAIN instances |-> instances[x].group]
           masters == {x \in DOMAIN instances : instances[x].role = "master"}
<1>0. \A x \in DOMAIN instances : instances[x] \in Instance /\ x \in Name
  BY TypeParts DEF InstancesOK
<1>1. CASE n \notin DOMAIN instances
  BY <1>1, QuietStep DEF CommitReplicate, Seen, SameGroup
<1>2. CASE n \in DOMAIN instances
  <2>1. Write(is, gs, {g, instances[n].group})
    BY <1>2 DEF CommitReplicate
  <2>2. /\ DOMAIN is = DOMAIN instances
        /\ is[n].group = g /\ is[n].role = "replica"
        /\ is[n].server = instances[n].server /\ is[n].port = instances[n].port
        /\ \A x \in DOMAIN instances : x # n => is[x] = instances[x]
    BY <1>0, <1>2 DEF Instance
  <2>3. instances' = is
    BY <2>1 DEF Write
  <2>4. g \in DOMAIN groups => g \in Group
    BY TypeParts DEF GroupsOK
  <2>5. CASE g \in DOMAIN groups
    <3>1. gs = WithAutoPort([groups EXCEPT ![g].type = "replication"], g)
      BY <2>5
    <3>2. /\ Registry!MayOpen(g)
          /\ UNCHANGED [h \in DOMAIN groups |-> groups[h].currentMaster]
          /\ UNCHANGED [h \in DOMAIN groups |-> groups[h].masterPort]
      BY <2>1, <2>5, <3>1, MayOpenStep
    <3>3. \E x \in DOMAIN member : member[x] = g
      BY <2>4, <2>5, NoneIsNoValue
    <3> HIDE DEF is, gs
    <3>4. member' = [member EXCEPT ![n] = g] /\ masters' = masters \ {n}
      BY <1>2, <2>2, <2>3
    <3>5. UNCHANGED [x \in DOMAIN instances |-> <<instances[x].server, instances[x].port>>]
      BY <2>2, <2>3
    <3>6. Registry!Move(n, g)
      BY <1>2, <2>5, <3>2, <3>3, <3>4, <3>5 DEF Registry!Move
    <3> QED
      BY <1>0, <1>2, <2>4, <2>5, <3>6
  <2>6. CASE g \notin DOMAIN groups
    <3>1. gs = groups
      BY <2>6
    <3>2. g = NONE
      BY <2>6 DEF Consistent
    <3> HIDE DEF is, gs
    <3>3. /\ DOMAIN groups' = DOMAIN groups
          /\ \A h \in DOMAIN groups : SameGroup(groups'[h], groups[h])
      BY <2>1, <3>1, WriteEffect, TypeParts
    <3>4. /\ UNCHANGED [h \in DOMAIN groups |-> groups[h].currentMaster]
          /\ UNCHANGED [h \in DOMAIN groups |-> groups[h].masterPort]
          /\ UNCHANGED [h \in DOMAIN groups |-> groups[h].autoPort]
      BY <3>3 DEF SameGroup
    <3>5. member' = [member EXCEPT ![n] = g] /\ masters' = masters \ {n}
      BY <1>2, <2>2, <2>3
    <3>6. UNCHANGED [x \in DOMAIN instances |-> <<instances[x].server, instances[x].port>>]
      BY <2>2, <2>3
    <3>7. Registry!Move(n, g)
      BY <1>2, <3>2, <3>4, <3>5, <3>6 DEF Registry!Move
    <3> QED
      BY <1>0, <1>2, <3>2, <3>7
  <2> QED
    BY <2>5, <2>6
<1> QED
  BY <1>1, <1>2

\* Running members are demoted too, but none of them can be a master.
LEMMA FailoverStep ==
    ASSUME TypeOK, Consistent(instances, groups), NEW g \in Group, NEW n \in Name,
           SentinelFailover(g, n), NEW old, old = groups[g].currentMaster
    PROVE  Registry!Elect(n, g) \/ UNCHANGED Registry!vars
<1> DEFINE is  == [m \in DOMAIN instances |->
                     IF instances[m].group = g THEN [instances[m] EXCEPT !.lock = NONE]
                                               ELSE instances[m]]
           over == [m \in DOMAIN is |-> FailedOver(is[m], m, g, old, n)]
           gs   == [groups EXCEPT ![g].currentMaster = n]
<1>1. \/ instances' = is /\ groups' = groups
      \/ Write(over, gs, {g})
  BY DEF SentinelFailover
<1>2. /\ g \in DOMAIN groups /\ old \in DOMAIN instances
      /\ n \in DOMAIN instances /\ instances[n].group = g
  BY DEF SentinelFailover, Members
<1>3. /\ DOMAIN is = DOMAIN instances
      /\ \A m \in DOMAIN is : is[m] \in Instance /\ Seen(is[m], instances[m])
  BY TypeParts DEF InstancesOK, Instance, Seen
<1>4. \A m \in DOMAIN instances :
        m # old /\ instances[m].group = g => instances[m].role # "master"
  BY <1>2, NoneIsNoValue DEF Consistent
<1>5. /\ GroupsOK(gs) /\ DOMAIN gs = DOMAIN groups
      /\ \A h \in DOMAIN groups :
            /\ gs[h].currentMaster = IF h = g THEN n ELSE groups[h].currentMaster
            /\ gs[h].masterPort = groups[h].masterPort
            /\ gs[h].autoPort = groups[h].autoPort
  BY <1>2, TypeParts DEF GroupsOK, GroupState
<1> HIDE DEF is
<1>6. ASSUME NEW m \in DOMAIN instances
      PROVE  /\ over[m].server = instances[m].server
             /\ over[m].port = instances[m].port
             /\ m # old => over[m].group = instances[m].group
             /\ m = old /\ old # n => over[m].group = g
             /\ m = n => over[m].group = g
             /\ over[m].role = "master" <=> m = n \/ (m # old /\ instances[m].role = "master")
  BY <1>2, <1>3, <1>4 DEF FailedOver, Instance, Seen
<1> HIDE DEF over, gs
<1>7. CASE instances' = is /\ groups' = groups
  BY <1>3, <1>7, QuietStep DEF SameGroup
<1>8. CASE Write(over, gs, {g})
  <2>1. /\ instances' = over /\ DOMAIN groups' = DOMAIN groups
        /\ \A h \in DOMAIN groups : SameGroup(groups'[h], gs[h])
    BY <1>5, <1>8, WriteEffect
  <2>2. DOMAIN over = DOMAIN instances
    BY <1>3 DEF over
  <2>3. Registry!Elect(n, g)
    BY <1>2, <1>5, <1>6, <2>1, <2>2, ElectStep DEF SameGroup
  <2> QED
    BY <2>3
<1> QED
  BY <1>1, <1>7, <1>8

LEMMA CreateRegistered ==
    ASSUME TypeOK, Consistent(instances, groups), NEW r \in Request, Create(r)
    PROVE  Registry!Next
<1>1. CASE \E n \in Name, g \in Group, s \in Server, type \in {"standalone", "replication"} :
             CreateMaster(r, n, g, s, type)
  BY <1>1, FoundStep DEF Registry!Next
<1>2. CASE \E n, m \in Name, s \in Server : CreateReplica(r, n, m, s)
  <2>1. PICK n \in Name, m \in Name, s \in Server : CreateReplica(r, n, m, s)
    BY <1>2
  <2>2. PICK g \in Group : g = instances[m].group
    BY <2>1, TypeParts DEF CreateReplica, GroupsOK
  <2>3. Registry!Join(n, g)
    BY <2>1, <2>2, JoinStep
  <2> QED
    BY <2>3 DEF Registry!Next
<1> QED
  BY <1>1, <1>2 DEF Create

LEMMA CommitRegistered ==
    ASSUME TypeOK, Consistent(instances, groups), NEW r \in Request, Commit(r)
    PROVE  Registry!Next \/ UNCHANGED Registry!vars
<1>1. CASE CommitDelete(r)
  <2>1. PICK n, g : n = req[r].name /\ g = req[r].group
    OBVIOUS
  <2> QED
    BY <1>1, <2>1, DeleteStep DEF Registry!Next
<1>2. CASE CommitPromote(r)
  <2>1. PICK n : n = req[r].name
    OBVIOUS
  <2>2. PICK g : g = instances[n].group
    OBVIOUS
  <2> QED
    BY <1>2, <2>1, <2>2, PromoteStep DEF Registry!Next
<1>3. CASE CommitReplicate(r)
  <2>1. PICK n, m : n = req[r].name /\ m = req[r].target
    OBVIOUS
  <2>2. PICK g : g = IF m \in DOMAIN instances THEN instances[m].group ELSE NONE
    OBVIOUS
  <2> QED
    BY <1>3, <2>1, <2>2, MoveStep DEF Registry!Next
<1>4. CASE \/ CreateDone(r) \/ CreateFailed(r) \/ CommitStart(r) \/ CommitStop(r)
           \/ CommitConfig(r) \/ CommitBackup(r) \/ CommitRestore(r)
  <2>1. \/ \E n, status : SetStatus(n, status)
        \/ instances' = instances /\ groups' = groups
    BY <1>4, CreateWrites DEF CommitStart, CommitStop, CommitConfig, CommitBackup, CommitRestore
  <2> QED
    BY <2>1, QuietSetStatus, QuietStep DEF Seen, SameGroup
<1> QED
  BY <1>1, <1>2, <1>3, <1>4 DEF Commit

LEMMA BesideUnregistered ==
    ASSUME TypeOK,
           \/ \E k \in Reconciler : ReconcileRead(k) \/ ReconcileApply(k)
           \/ \E n \in Name : Expire(n)
           \/ Restart
    PROVE  UNCHANGED Registry!vars
<1>0. \A m \in DOMAIN instances : instances[m] \in Instance
  BY TypeParts DEF InstancesOK
<1>1. ASSUME NEW k \in Reconciler, ReconcileRead(k) PROVE UNCHANGED Registry!vars
  BY <1>1, QuietStep DEF ReconcileRead, Seen, SameGroup
<1>2. ASSUME NEW k \in Reconciler, ReconcileApply(k) PROVE UNCHANGED Registry!vars
  <2> DEFINE is == Patched(instances, recon[k])
  <2>1. \E G : Write(is, groups, G)
    BY <1>2 DEF ReconcileApply
  <2>2. DOMAIN is = DOMAIN instances /\ \A m \in DOMAIN instances : Seen(is[m], instances[m])
    BY <1>0 DEF Patched, Instance, Seen
  <2> HIDE DEF is
  <2> QED
    BY <2>1, <2>2, QuietWrite
<1>3. ASSUME NEW n \in Name, Expire(n) PROVE UNCHANGED Registry!vars
  <2>1. /\ DOMAIN instances' = DOMAIN instances /\ groups' = groups
        /\ \A m \in DOMAIN instances : Seen(instances'[m], instances[m])
    BY <1>0, <1>3 DEF Expire, Instance, Seen
  <2> QED
    BY <2>1, QuietStep DEF SameGroup
<1>4. CASE Restart
  <2>1. /\ DOMAIN instances' = DOMAIN instances /\ groups' = groups
        /\ \A m \in DOMAIN instances : Seen(instances'[m], instances[m])
    BY <1>0, <1>4 DEF Restart, OrphanAll, Orphaned, Instance, Seen
  <2> QED
    BY <2>1, QuietStep DEF SameGroup
<1> QED
  BY <1>1, <1>2, <1>3, <1>4

LEMMA RegistryStep ==
    ASSUME TypeOK, Consistent(instances, groups), Next
    PROVE  Registry!Next \/ UNCHANGED Registry!vars
<1>1. ASSUME NEW r \in Request, Create(r) PROVE Registry!Next
  BY <1>1, CreateRegistered
<1>2. ASSUME NEW r \in Request,
             Enter(r) \/ LockReceived(r) \/ AgentSucceeds(r) \/ AgentFails(r) \/ Release(r)
      PROVE  UNCHANGED Registry!vars
  <2>1. /\ groups' = groups
        /\ \/ instances' = instances
           \/ \E S, h : instances' = AcquireAll(instances, S, h)
           \/ \E S, h : instances' = ReleaseAll(instances, S, h)
           \/ \E R : instances' = OrphanAll(instances, R)
    BY <1>2, LocksAtMost
  <2> QED
    BY <2>1, QuietLocks, QuietStep DEF Seen, SameGroup
<1>3. ASSUME NEW r \in Request, Commit(r) PROVE Registry!Next \/ UNCHANGED Registry!vars
  BY <1>3, CommitRegistered
<1>4. ASSUME NEW g \in Group, NEW n \in Name, SentinelFailover(g, n)
      PROVE  Registry!Next \/ UNCHANGED Registry!vars
  <2>1. PICK old : old = groups[g].currentMaster
    OBVIOUS
  <2> QED
    BY <1>4, <2>1, FailoverStep DEF Registry!Next
<1> QED
  BY <1>1, <1>2, <1>3, <1>4, BesideUnregistered DEF Next

\* Every transaction, however late and whatever ran between it and the lock it
\* follows, does to addresses, memberships, masters and listeners what one step
\* of the registry may do, or nothing: an address and a listener port are given
\* once and stay, a replica joins its master, the role of master passes from the
\* current master to a member, and a group goes only with or after its last member.
THEOREM RegistryIsKept == Spec => RegistryKept
<1> DEFINE IInv == TypeOK /\ Consistent(instances, groups)
<1>1. Init => IInv /\ Registry!Init
  <2> SUFFICES ASSUME Init PROVE IInv /\ Registry!Init
    OBVIOUS
  <2>1. DOMAIN instances = {} /\ DOMAIN groups = {}
    BY DEF Init
  <2>2. Registry!Init
    BY <2>1 DEF Registry!Init
  <2> QED
    BY <2>1, <2>2, InitType DEF Consistent
<1>2. Spec => []IInv
  BY OneMaster, TypeCorrect, ConsistentParts, PTL
<1>3. ASSUME IInv, [Next]_vars PROVE [Registry!Next]_(Registry!vars)
  <2>1. CASE Next
    BY <1>3, <2>1, RegistryStep
  <2>2. CASE UNCHANGED vars
    BY <2>2, QuietStep DEF vars, Seen, SameGroup
  <2> QED
    BY <1>3, <2>1, <2>2
<1> QED
  BY <1>1, <1>2, <1>3, PTL DEF Spec, RegistryKept, Registry!Spec

-----------------------------------------------------------------------------
(* The derived status.  It is recalculated for the groups that a           *)
(* transaction names; where there is one group these are all it can touch. *)

Fresh(is, gs) == \A g \in DOMAIN gs : gs[g].topology = Topology(is, gs[g], g)

\* The rule reads the type and the current master of the group, and the roles
\* and statuses of its members.
LEMMA SameTopology ==
    ASSUME NEW is, NEW is2, NEW x, NEW y, NEW g,
           x.type = y.type, x.currentMaster = y.currentMaster,
           Members(is2, g) = Members(is, g),
           \A n \in Members(is, g) : is2[n].role = is[n].role /\ is2[n].status = is[n].status
    PROVE  Topology(is2, y, g) = Topology(is, x, g)
<1> DEFINE M == Members(is, g)
           Leads(i, z) == \E n \in M : /\ n = z.currentMaster /\ i[n].role = "master"
                                       /\ i[n].status = "running"
           Follows(i)  == \E n \in M : i[n].role = "replica" /\ i[n].status = "running"
<1>1. Leads(is2, y) <=> Leads(is, x)
  OBVIOUS
<1>2. Follows(is2) <=> Follows(is)
  OBVIOUS
<1>3. /\ Topology(is, x, g) = IF Leads(is, x) /\ (x.type = "replication" => Follows(is))
                              THEN "healthy" ELSE "degraded"
      /\ Topology(is2, y, g) = IF Leads(is2, y) /\ (y.type = "replication" => Follows(is2))
                               THEN "healthy" ELSE "degraded"
  BY DEF Topology
<1> HIDE DEF Leads, Follows
<1> QED
  BY <1>1, <1>2, <1>3

\* A transaction has to recalculate the groups whose status it makes stale.
LEMMA FreshWrite ==
    ASSUME NEW is, NEW gs, NEW G, GroupsOK(gs), Write(is, gs, G),
           \A g \in DOMAIN gs \ G : gs[g].topology = Topology(is, gs[g], g)
    PROVE  Fresh(instances', groups')
<1>1. instances' = is /\ DOMAIN groups' = DOMAIN gs
  BY WriteEffect
<1>2. ASSUME NEW g \in DOMAIN gs
      PROVE  groups'[g].topology = Topology(is, groups'[g], g)
  <2>1. Topology(is, groups'[g], g) = Topology(is, gs[g], g)
    BY WriteEffect, SameTopology DEF SameGroup
  <2>2. CASE g \in G
    <3>1. groups'[g] = [gs[g] EXCEPT !.topology = Topology(is, gs[g], g)]
      BY <2>2 DEF Write, RecalculateGroupTopology
    <3>2. gs[g] \in GroupState
      BY DEF GroupsOK
    <3>3. groups'[g].topology = Topology(is, gs[g], g)
      BY <3>1, <3>2 DEF GroupState
    <3> QED
      BY <2>1, <3>3
  <2>3. CASE g \notin G
    BY <2>1, <2>3 DEF Write
  <2> QED
    BY <2>2, <2>3
<1> QED
  BY <1>1, <1>2 DEF Fresh

\* Transactions that change no record of a group keep its status.
LEMMA FreshKept ==
    ASSUME NEW is, NEW gs, Fresh(is, gs), NEW is2, NEW g \in DOMAIN gs,
           Members(is2, g) = Members(is, g),
           \A n \in Members(is, g) : is2[n].role = is[n].role /\ is2[n].status = is[n].status
    PROVE  gs[g].topology = Topology(is2, gs[g], g)
  BY SameTopology DEF Fresh

\* Locks, and what else is not read by the rule.
LEMMA FreshLocks ==
    ASSUME Fresh(instances, groups), groups' = groups,
           DOMAIN instances' = DOMAIN instances,
           \A n \in DOMAIN instances : /\ instances'[n].group = instances[n].group
                                       /\ instances'[n].role = instances[n].role
                                       /\ instances'[n].status = instances[n].status
    PROVE  Fresh(instances', groups')
<1>1. \A g : Members(instances', g) = Members(instances, g)
  BY DEF Members
<1>2. \A g : Members(instances, g) \subseteq DOMAIN instances
  BY DEF Members
<1>3. \A g \in DOMAIN groups : groups[g].topology = Topology(instances', groups[g], g)
  BY <1>1, <1>2, FreshKept
<1> QED
  BY <1>3 DEF Fresh

\* A handler that deletes knows the group from the moment it locked.
DeletesKnow == \A r \in Request : /\ req[r].op = "delete" => req[r].group \in Group
                                  /\ req[r].pc = "received" => req[r].op # "delete"

LEMMA SetStatusFresh ==
    ASSUME OneGroup, TypeOK, Fresh(instances, groups), NEW n, NEW status,
           SetStatus(n, status)
    PROVE  Fresh(instances', groups')
<1>1. CASE n \in DOMAIN instances
  <2> DEFINE is == [instances EXCEPT ![n].status = status]
  <2>1. Write(is, groups, {instances[n].group})
    BY <1>1 DEF SetStatus
  <2>2. /\ DOMAIN is = DOMAIN instances
        /\ \A m \in DOMAIN instances : is[m].group = instances[m].group
        /\ \A m \in DOMAIN instances : m # n => is[m] = instances[m]
    BY <1>1, TypeParts DEF InstancesOK, Instance
  <2> HIDE DEF is
  <2>3. ASSUME NEW g \in DOMAIN groups \ {instances[n].group}
        PROVE  groups[g].topology = Topology(is, groups[g], g)
    <3>1. Members(is, g) = Members(instances, g)
      BY <2>2 DEF Members
    <3>2. \A m \in Members(instances, g) : is[m] = instances[m]
      BY <2>2, <2>3 DEF Members
    <3> QED
      BY <3>1, <3>2, FreshKept
  <2> QED
    BY <2>1, <2>3, FreshWrite, TypeParts
<1>2. CASE n \notin DOMAIN instances
  BY <1>2 DEF SetStatus
<1> QED
  BY <1>1, <1>2

\* The founded or joined group is the one that is recalculated.
LEMMA CreateFresh ==
    ASSUME OneGroup, TypeOK, NEW r \in Request, Create(r)
    PROVE  Fresh(instances', groups')
<1>1. ASSUME NEW n \in Name, NEW g \in Group, NEW s \in Server,
             NEW type \in {"standalone", "replication"}, CreateMaster(r, n, g, s, type)
      PROVE  Fresh(instances', groups')
  <2> DEFINE is == Put(instances, n, NewInstance(g, "master", s, NONE))
             gs == Put(groups, g, NewGroup(type, n))
  <2>1. Write(is, gs, {g})
    BY <1>1 DEF CreateMaster
  <2>2. NewGroup(type, n) \in GroupState
    BY <1>1, NewGroupType DEF CreateMaster
  <2>3. GroupsOK(gs)
    BY <2>2, TypeParts DEF GroupsOK, Put
  <2>4. DOMAIN gs \subseteq {g}
    BY <2>3 DEF GroupsOK, OneGroup
  <2> HIDE DEF is, gs
  <2> QED
    BY <2>1, <2>3, <2>4, FreshWrite
<1>2. ASSUME NEW n \in Name, NEW m \in Name, NEW s \in Server, CreateReplica(r, n, m, s)
      PROVE  Fresh(instances', groups')
  <2> DEFINE g  == instances[m].group
             is == Put(instances, n, NewInstance(g, "replica", s, m))
             gs == WithAutoPort([groups EXCEPT ![g].type = "replication"], g)
  <2>1. Write(is, gs, {g}) /\ g \in DOMAIN groups
    BY <1>2 DEF CreateReplica
  <2>2. GroupsOK(gs) /\ DOMAIN gs = DOMAIN groups
    BY <2>1, ReplicationGroupType, TypeParts
  <2>3. DOMAIN gs \subseteq {g}
    BY <2>1, <2>2 DEF GroupsOK, OneGroup
  <2> HIDE DEF is, gs, g
  <2> QED
    BY <2>1, <2>2, <2>3, FreshWrite
<1> QED
  BY <1>1, <1>2 DEF Create

LEMMA CommitDeleteFresh ==
    ASSUME OneGroup, TypeOK, DeletesKnow, NEW r \in Request, CommitDelete(r)
    PROVE  Fresh(instances', groups')
<1> DEFINE is == Without(instances, req[r].name)
           g  == req[r].group
<1>1. g \in Group
  BY DEF CommitDelete, At, DeletesKnow
<1>2. DOMAIN groups \subseteq {g}
  BY <1>1, TypeParts DEF GroupsOK, OneGroup
<1>3. CASE Abandoned(is, g)
  <2>1. groups' = Without(groups, g)
    BY <1>3 DEF CommitDelete
  <2>2. DOMAIN groups' = {}
    BY <1>2, <2>1 DEF Without, Restrict
  <2> QED
    BY <2>2 DEF Fresh
<1>4. CASE ~Abandoned(is, g)
  <2>1. Write(is, groups, {g})
    BY <1>4 DEF CommitDelete
  <2> HIDE DEF is, g
  <2> QED
    BY <1>2, <2>1, FreshWrite, TypeParts
<1> QED
  BY <1>3, <1>4

LEMMA CommitPromoteFresh ==
    ASSUME OneGroup, TypeOK, Fresh(instances, groups), NEW r \in Request, CommitPromote(r)
    PROVE  Fresh(instances', groups')
<1> DEFINE n == req[r].name
           g == instances[n].group
           gs == [groups EXCEPT ![g].currentMaster = n, ![g].type = "replication"]
<1>1. CASE n \notin DOMAIN instances
  BY <1>1 DEF CommitPromote
<1>2. CASE n \in DOMAIN instances /\ g \in DOMAIN groups
  <2> DEFINE is == Promoted(instances, n, groups[g].currentMaster)
  <2>1. Write(is, gs, {g})
    BY <1>2 DEF CommitPromote
  <2>2. GroupsOK(gs) /\ DOMAIN gs = DOMAIN groups
    <3>1. n \in Name /\ groups[g] \in GroupState
      BY <1>2, TypeParts DEF InstancesOK, GroupsOK
    <3> HIDE DEF n, g
    <3> QED
      BY <3>1, <1>2, TypeParts DEF GroupsOK, GroupState
  <2>3. DOMAIN gs \subseteq {g}
    BY <1>2, <2>2 DEF GroupsOK, OneGroup
  <2> HIDE DEF n, g, is, gs
  <2> QED
    BY <2>1, <2>2, <2>3, FreshWrite
<1>3. CASE n \in DOMAIN instances /\ g \notin DOMAIN groups
  <2> DEFINE is == Promoted(instances, n, n)
  <2>1. Write(is, groups, {})
    BY <1>3 DEF CommitPromote
  <2>2. /\ DOMAIN is = DOMAIN instances
        /\ \A m \in DOMAIN instances : is[m].group = instances[m].group
        /\ \A m \in DOMAIN instances : m # n => is[m] = instances[m]
    BY TypeParts DEF Promoted, InstancesOK, Instance
  <2> HIDE DEF is
  <2>3. ASSUME NEW x \in DOMAIN groups PROVE groups[x].topology = Topology(is, groups[x], x)
    <3>1. Members(is, x) = Members(instances, x)
      BY <2>2 DEF Members
    <3>2. \A m \in Members(instances, x) : is[m] = instances[m]
      BY <1>3, <2>2 DEF Members
    <3> QED
      BY <3>1, <3>2, FreshKept
  <2> QED
    BY <2>1, <2>3, FreshWrite, TypeParts
<1> QED
  BY <1>1, <1>2, <1>3

\* An instance that leaves for no group, or comes from none, is a member of none
\* that is not recalculated.
LEMMA CommitReplicateFresh ==
    ASSUME OneGroup, TypeOK, Fresh(instances, groups), NEW r \in Request, CommitReplicate(r)
    PROVE  Fresh(instances', groups')
<1> DEFINE n  == req[r].name
           m  == req[r].target
           g  == IF m \in DOMAIN instances THEN instances[m].group ELSE NONE
           gs == IF g \in DOMAIN groups
                 THEN WithAutoPort([groups EXCEPT ![g].type = "replication"], g)
                 ELSE groups
           is == [instances EXCEPT ![n].role = "replica", ![n].replicaOf = m,
                                   ![n].group = g]
<1>1. CASE n \notin DOMAIN instances
  BY <1>1 DEF CommitReplicate
<1>2. CASE n \in DOMAIN instances
  <2>1. Write(is, gs, {g, instances[n].group})
    BY <1>2 DEF CommitReplicate
  <2>2. GroupsOK(gs) /\ DOMAIN gs = DOMAIN groups
    BY ReplicationGroupConsistent, TypeParts
  <2>3. g \in DOMAIN groups => DOMAIN groups \subseteq {g}
    BY TypeParts DEF GroupsOK, OneGroup
  <2>4. g \notin DOMAIN groups => gs = groups
    OBVIOUS
  <2>5. /\ DOMAIN is = DOMAIN instances
        /\ is[n].group = g
        /\ \A x \in DOMAIN instances : x # n => is[x] = instances[x]
    <3> HIDE DEF g, m, n
    <3>1. instances[n] \in Instance
      BY <1>2, TypeParts DEF InstancesOK
    <3> QED
      BY <1>2, <3>1 DEF Instance
  <2> HIDE DEF n, m, g, gs, is
  <2>6. ASSUME NEW x \in DOMAIN gs \ {g, instances[n].group}
        PROVE  gs[x].topology = Topology(is, gs[x], x)
    <3>1. gs = groups /\ x \in DOMAIN groups
      BY <2>2, <2>3, <2>4
    <3>2. /\ Members(is, x) = Members(instances, x)
          /\ \A y \in Members(instances, x) : is[y] = instances[y]
      BY <2>5 DEF Members
    <3> QED
      BY <3>1, <3>2, FreshKept
  <2> QED
    BY <2>1, <2>2, <2>6, FreshWrite
<1> QED
  BY <1>1, <1>2

LEMMA SentinelFailoverFresh ==
    ASSUME OneGroup, TypeOK, Fresh(instances, groups), NEW g \in Group, NEW n \in Name,
           SentinelFailover(g, n)
    PROVE  Fresh(instances', groups')
<1> DEFINE old == groups[g].currentMaster
           is  == [m \in DOMAIN instances |->
                     IF instances[m].group = g THEN [instances[m] EXCEPT !.lock = NONE]
                                               ELSE instances[m]]
           over == [m \in DOMAIN is |-> FailedOver(is[m], m, g, old, n)]
           gs   == [groups EXCEPT ![g].currentMaster = n]
<1>1. \/ instances' = is /\ UNCHANGED groups
      \/ Write(over, gs, {g})
  BY DEF SentinelFailover
<1>2. /\ DOMAIN is = DOMAIN instances
      /\ \A m \in DOMAIN is : /\ is[m].role = instances[m].role
                              /\ is[m].group = instances[m].group
                              /\ is[m].status = instances[m].status
  BY TypeParts DEF InstancesOK, Instance
<1>3. GroupsOK(gs) /\ DOMAIN gs = DOMAIN groups /\ DOMAIN gs \subseteq {g}
  BY TypeParts DEF GroupsOK, GroupState, OneGroup
<1> HIDE DEF is, over, gs
<1> QED
  BY <1>1, <1>2, <1>3, FreshLocks, FreshWrite

LEMMA BesideFresh ==
    ASSUME OneGroup, TypeOK, Fresh(instances, groups),
           \/ \E k \in Reconciler : ReconcileApply(k)
           \/ \E n \in Name : Expire(n)
           \/ Restart
    PROVE  Fresh(instances', groups')
<1>0. \A m \in DOMAIN instances : instances[m] \in Instance
  BY TypeParts DEF InstancesOK
<1>1. ASSUME NEW k \in Reconciler, ReconcileApply(k) PROVE Fresh(instances', groups')
  <2> DEFINE is == Patched(instances, recon[k])
             G  == {instances[n].group : n \in DOMAIN recon[k] \cap DOMAIN instances}
  <2>1. Write(is, groups, G)
    BY <1>1 DEF ReconcileApply
  <2>2. /\ DOMAIN is = DOMAIN instances
        /\ \A m \in DOMAIN instances :
              /\ is[m].group = instances[m].group
              /\ is[m].role = instances[m].role
              /\ instances[m].group \notin G => is[m] = instances[m]
    BY <1>0 DEF Patched, Instance
  <2> HIDE DEF is, G
  <2>3. ASSUME NEW g \in DOMAIN groups \ G PROVE groups[g].topology = Topology(is, groups[g], g)
    <3>1. /\ Members(is, g) = Members(instances, g)
          /\ \A m \in Members(instances, g) : is[m] = instances[m]
      BY <2>2, <2>3 DEF Members
    <3> QED
      BY <3>1, FreshKept
  <2> QED
    BY <2>1, <2>3, FreshWrite, TypeParts
<1>2. ASSUME NEW n \in Name, Expire(n) PROVE Fresh(instances', groups')
  BY <1>0, <1>2, FreshLocks DEF Expire, Instance
<1>3. ASSUME Restart PROVE Fresh(instances', groups')
  BY <1>0, <1>3, FreshLocks DEF Restart, OrphanAll, Orphaned, Instance
<1> QED
  BY <1>1, <1>2, <1>3

LEMMA HandlerFresh ==
    ASSUME OneGroup, TypeOK, DeletesKnow, Fresh(instances, groups), NEW r \in Request,
           \/ Create(r) \/ Enter(r) \/ LockReceived(r) \/ AgentSucceeds(r)
           \/ AgentFails(r) \/ Commit(r) \/ Release(r)
    PROVE  Fresh(instances', groups')
<1>0. \A m \in DOMAIN instances : instances[m] \in Instance
  BY TypeParts DEF InstancesOK
<1>1. CASE Create(r)
  BY <1>1, CreateFresh
<1>2. CASE Enter(r) \/ LockReceived(r)
  <2>1. ASSUME NEW op, NEW n, NEW t, NEW h, NEW pc, TakeLocks(r, op, n, t, h, pc)
        PROVE  Fresh(instances', groups')
    <3> DEFINE is == AcquireAll(instances, InstanceGroup(instances, n), h)
    <3>1. instances' = is /\ groups' = groups
      BY <2>1 DEF TakeLocks
    <3>2. /\ DOMAIN is = DOMAIN instances
          /\ \A m \in DOMAIN instances :
                /\ is[m].group = instances[m].group
                /\ is[m].role = instances[m].role
                /\ is[m].status = instances[m].status
      BY <1>0 DEF AcquireAll, Acquired, Instance
    <3> HIDE DEF is
    <3> QED
      BY <3>1, <3>2, FreshLocks
  <2>2. CASE Enter(r)
    <3>1. PICK n \in Name, h \in Sessions(r) :
            \/ \E op \in Ops : Begin(r, op, n, h)
            \/ BeginBackup(r, n, h)
            \/ BeginPromote(r, n, h)
            \/ BeginDelete(r, n, h)
            \/ CheckStop(r, n, h)
            \/ \E m \in Name : ResolveReplicate(r, n, m, h)
      BY <2>2 DEF Enter
    <3>2. ASSUME NEW op \in Ops, Begin(r, op, n, h) PROVE Fresh(instances', groups')
      BY <2>1, <3>2 DEF Begin
    <3>3. CASE BeginBackup(r, n, h)
      BY <2>1, <3>3 DEF BeginBackup
    <3>4. CASE BeginPromote(r, n, h)
      BY <2>1, <3>4 DEF BeginPromote
    <3>5. CASE BeginDelete(r, n, h)
      BY <2>1, <3>5 DEF BeginDelete
    <3>6. CASE CheckStop(r, n, h)
      BY <3>6 DEF CheckStop
    <3>7. ASSUME NEW m \in Name, ResolveReplicate(r, n, m, h) PROVE Fresh(instances', groups')
      BY <3>7 DEF ResolveReplicate
    <3> QED
      BY <3>1, <3>2, <3>3, <3>4, <3>5, <3>6, <3>7
  <2>3. CASE LockReceived(r)
    BY <2>1, <2>3 DEF LockReceived
  <2> QED
    BY <1>2, <2>2, <2>3
<1>3. CASE AgentSucceeds(r) \/ AgentFails(r)
  BY <1>3 DEF AgentSucceeds, AgentFails
<1>4. CASE Commit(r)
  <2>1. CASE CreateDone(r) \/ CreateFailed(r)
    BY <2>1, CreateWrites, SetStatusFresh
  <2>2. CASE ~(CreateDone(r) \/ CreateFailed(r))
    BY <1>4, <2>2, SetStatusFresh, CommitDeleteFresh, CommitPromoteFresh, CommitReplicateFresh
       DEF Commit, CommitStart, CommitStop, CommitConfig, CommitBackup, CommitRestore
  <2> QED
    BY <2>1, <2>2
<1>5. CASE Release(r)
  BY <1>0, <1>5, FreshLocks DEF Release, ReleaseAll, Released, OrphanAll, Orphaned, Instance
<1> QED
  BY <1>1, <1>2, <1>3, <1>4, <1>5

LEMMA DeletesKnowStep ==
    ASSUME TypeOK, DeletesKnow, Next
    PROVE  DeletesKnow'
<1>0. req \in [Request -> RequestState] /\ DOMAIN groups \subseteq Group
  BY TypeParts DEF ReqOK, GroupsOK
<1>1. ASSUME NEW r \in Request, Create(r) PROVE DeletesKnow'
  <2>1. PICK n \in Name : StartCreating(r, n)
    BY <1>1 DEF Create, CreateMaster, CreateReplica
  <2>2. req'[r].op = "create" /\ \A s \in Request : s # r => req'[s] = req[s]
    BY <1>0, <2>1 DEF StartCreating, Idle
  <2> QED
    BY <2>2 DEF DeletesKnow
<1>2. ASSUME NEW r \in Request, Enter(r) PROVE DeletesKnow'
  <2>0. PICK n \in Name, h \in Sessions(r) :
          \/ \E op \in Ops : Begin(r, op, n, h)
          \/ BeginBackup(r, n, h)
          \/ BeginPromote(r, n, h)
          \/ BeginDelete(r, n, h)
          \/ CheckStop(r, n, h)
          \/ \E m \in Name : ResolveReplicate(r, n, m, h)
    BY <1>2 DEF Enter
  <2>1. /\ req'[r].op = "delete" => req'[r].group \in Group
        /\ req'[r].pc = "received" => req'[r].op # "delete"
    <3>1. CASE \E op \in Ops : Begin(r, op, n, h)
      BY <1>0, <3>1 DEF Begin, TakeLocks
    <3>2. CASE BeginBackup(r, n, h)
      BY <1>0, <3>2 DEF BeginBackup, TakeLocks
    <3>3. CASE BeginPromote(r, n, h)
      BY <1>0, <3>3 DEF BeginPromote, TakeLocks
    <3>4. CASE BeginDelete(r, n, h)
      BY <1>0, <3>4 DEF BeginDelete, TakeLocks
    <3>5. CASE CheckStop(r, n, h)
      BY <1>0, <3>5 DEF CheckStop, Idle
    <3>6. CASE \E m \in Name : ResolveReplicate(r, n, m, h)
      BY <1>0, <3>6 DEF ResolveReplicate, Idle
    <3> QED
      BY <2>0, <3>1, <3>2, <3>3, <3>4, <3>5, <3>6
  <2>2. \A s \in Request : s # r => req'[s] = req[s]
    BY <1>0, <2>0 DEF Begin, BeginBackup, BeginPromote, BeginDelete, CheckStop,
                      ResolveReplicate, TakeLocks
  <2> QED
    BY <2>1, <2>2 DEF DeletesKnow
<1>3. ASSUME NEW r \in Request, LockReceived(r) PROVE DeletesKnow'
  BY <1>0, <1>3 DEF LockReceived, TakeLocks, Ends, Idle, DeletesKnow
<1>4. ASSUME NEW r \in Request, AgentSucceeds(r) \/ AgentFails(r) PROVE DeletesKnow'
  BY <1>0, <1>4 DEF AgentSucceeds, AgentFails, Reaches, RequestState, DeletesKnow
<1>5. ASSUME NEW r \in Request, Commit(r) PROVE DeletesKnow'
  <2>1. Ends(r) \/ Reaches(r, "finished")
    BY <1>5 DEF Commit, CreateDone, CreateFailed, CommitDelete, CommitStart, CommitStop,
                CommitConfig, CommitBackup, CommitRestore, CommitPromote, CommitReplicate
  <2> QED
    BY <1>0, <2>1 DEF Ends, Reaches, Idle, RequestState, DeletesKnow
<1>6. ASSUME NEW r \in Request, Release(r) PROVE DeletesKnow'
  BY <1>0, <1>6 DEF Release, Ends, Idle, DeletesKnow
<1>7. ASSUME NEW g \in Group, NEW n \in Name, SentinelFailover(g, n) PROVE DeletesKnow'
  BY <1>7 DEF SentinelFailover, DeletesKnow
<1>8. ASSUME NEW k \in Reconciler, ReconcileRead(k) \/ ReconcileApply(k) PROVE DeletesKnow'
  BY <1>8 DEF ReconcileRead, ReconcileApply, DeletesKnow
<1>9. ASSUME NEW n \in Name, Expire(n) PROVE DeletesKnow'
  BY <1>9 DEF Expire, DeletesKnow
<1>10. CASE Restart
  BY <1>10 DEF Restart, Idle, DeletesKnow
<1> QED
  BY <1>1, <1>2, <1>3, <1>4, <1>5, <1>6, <1>7, <1>8, <1>9, <1>10 DEF Next

\* With one group the stored topology status is always what its rule says of
\* the present records, whatever handlers, failovers, late patches, timeouts and
\* restarts do.  With several, replicate can carry a current master to another
\* group, and a promote in the old one then changes it there unnoticed.
THEOREM TopologyIsFresh ==
    ASSUME OneGroup
    PROVE  Spec => []TopologyFresh
<1> DEFINE IInv == TypeOK /\ DeletesKnow /\ Fresh(instances, groups)
<1>1. Init => IInv
  BY InitType DEF Init, Idle, DeletesKnow, Fresh
<1>2. IInv /\ [Next]_vars => IInv'
  <2> SUFFICES ASSUME TypeOK, DeletesKnow, Fresh(instances, groups), [Next]_vars
               PROVE  TypeOK' /\ DeletesKnow' /\ Fresh(instances', groups')
    OBVIOUS
  <2>1. TypeOK'
    BY TypeStep
  <2>2. CASE UNCHANGED vars
    BY <2>1, <2>2 DEF vars, DeletesKnow
  <2>3. ASSUME NEW k \in Reconciler, ReconcileRead(k) PROVE Fresh(instances', groups')
    BY <2>3 DEF ReconcileRead
  <2>4. CASE Next
    BY <2>1, <2>3, <2>4, DeletesKnowStep, HandlerFresh, SentinelFailoverFresh, BesideFresh
       DEF Next
  <2> QED
    BY <2>2, <2>4
<1>3. IInv => TopologyFresh
  BY DEF TopologyFresh, Fresh
<1> QED
  BY <1>1, <1>2, <1>3, PTL DEF Spec

=============================================================================
