--------------------------- MODULE InstanceOps ---------------------------
(***************************************************************************)
(* The server's operations on instances: the HTTP handlers of              *)
(* instance_handler.go, the Sentinel failover transaction of sentinel.go   *)
(* and the status reconciliation of reconcile_handler.go, interleaved over *)
(* one instances-state.yaml.                                               *)
(*                                                                         *)
(* Every WithInstances transaction is one action.  A handler is a request  *)
(* `r` that walks through its transactions; between two of them it waits   *)
(* for an agent, which may take any time, and any other request, watcher   *)
(* or loop may run.  The agents' own state is not part of this module: an  *)
(* answer is success or failure, whatever the time.                        *)
(***************************************************************************)
EXTENDS InstancesState

CONSTANTS Reconciler, \* passes of runReconcile that can overlap
          Ops         \* the operations and events a run admits

AllOps == {"create", "delete", "start", "stop", "forceStop", "config", "promote",
           "replicate", "backup", "restore",
           "sentinel", "reconcile", "expire", "restart", "writeFails"}

ASSUME OpsAreKnown == Ops \subseteq AllOps

VARIABLES
    instances, \* instances-state.yaml: instances
    groups,    \* instances-state.yaml: groups
    req,       \* the handlers in flight
    recon      \* the patches each reconciliation has computed, not yet applied

vars == <<instances, groups, req, recon>>

-----------------------------------------------------------------------------
(* Handlers in flight.  `pc` is the next thing the handler does:           *)
(*   received  checked or resolved from a read without lock, next: lock    *)
(*   locked    the agent has been (or is about to be) called               *)
(*   done      the agent succeeded, next: write the result                 *)
(*   abort     the agent failed to create, next: write "failed"            *)
(*   finished  next: the deferred release of the group's locks             *)

Idle == [op |-> "none", pc |-> "idle", name |-> NONE, target |-> NONE,
         holder |-> NONE, held |-> {}, group |-> NONE]

RequestState == [op     : AllOps \cup {"none"},
                 pc     : {"idle", "received", "locked", "done", "abort", "finished"},
                 name   : Name \cup {NONE},
                 target : Name \cup {NONE},
                 holder : Holder \cup {NONE},
                 held   : SUBSET Name,
                 group  : Group \cup {NONE}]

Patch == [seen : Status, new : Status]

TypeOK ==
    /\ DOMAIN instances \subseteq Name
    /\ \A n \in DOMAIN instances : instances[n] \in Instance
    /\ DOMAIN groups \subseteq Group
    /\ \A g \in DOMAIN groups : groups[g] \in GroupState
    /\ req \in [Request -> RequestState]
    /\ \A r \in Request : req[r].pc = "received" => req[r].holder # NONE
    /\ DOMAIN recon = Reconciler
    /\ \A k \in Reconciler : /\ DOMAIN recon[k] \subseteq Name
                              /\ \A n \in DOMAIN recon[k] : recon[k][n] \in Patch

NoPatches == [n \in {} |-> [seen |-> "running", new |-> "failed"]]

Init ==
    /\ instances = [n \in {} |-> NONE]
    /\ groups = [g \in {} |-> NONE]
    /\ req = [r \in Request |-> Idle]
    /\ recon = [k \in Reconciler |-> NoPatches]

\* The session a request presents: its own, or one named by X-Session-ID.
Sessions(r) == {r} \cup Session

\* Handler r reaches `pc`; the values it computed stay.
Reaches(r, pc) == req' = [req EXCEPT ![r].pc = pc]

Ends(r) == req' = [req EXCEPT ![r] = Idle]

At(r, op, pc) == req[r].op = op /\ req[r].pc = pc

\* One transaction: the new instances and groups, with the topology status of
\* the groups in G recalculated.
Write(is, gs, G) ==
    /\ instances' = is
    /\ groups' = [g \in DOMAIN gs |-> IF g \in G
                    THEN RecalculateGroupTopology(is, gs, g)[g] ELSE gs[g]]

-----------------------------------------------------------------------------
(* Create: no lock is taken, the record is written before the agent runs.  *)

NewInstance(g, role, s, m) ==
    [group |-> g, role |-> role, server |-> s,
     port |-> Min(FreeRedisPorts(instances, s)),
     replicaOf |-> m, status |-> "creating", lock |-> NONE]

NewGroup(type, n) ==
    [type |-> type, currentMaster |-> n, topology |-> "degraded",
     masterPort |-> Min(FreeMasterPorts(groups)),
     autoPort |-> IF type = "replication" THEN Min(FreeAutoPorts(groups)) ELSE 0]

StartCreating(r, n) ==
    req' = [req EXCEPT ![r] = [Idle EXCEPT !.op = "create", !.pc = "locked", !.name = n]]

\* A master, or standalone instance, founds its group.
CreateMaster(r, n, g, s, type) ==
    /\ "create" \in Ops
    /\ req[r] = Idle
    /\ n \notin DOMAIN instances
    /\ g \notin DOMAIN groups
    /\ FreeRedisPorts(instances, s) # {}
    /\ EnvoyPortsAvailable(groups, type = "replication")
    /\ Write(Put(instances, n, NewInstance(g, "master", s, NONE)),
             Put(groups, g, NewGroup(type, n)), {g})
    /\ StartCreating(r, n)
    /\ UNCHANGED recon

\* A replica joins the group of the master m it names.
CreateReplica(r, n, m, s) ==
    /\ "create" \in Ops
    /\ req[r] = Idle
    /\ n \notin DOMAIN instances
    /\ m \in DOMAIN instances
    /\ instances[m].role = "master"
    /\ instances[m].group \in DOMAIN groups
    /\ FreeRedisPorts(instances, s) # {}
    /\ LET g  == instances[m].group
           gs == WithAutoPort([groups EXCEPT ![g].type = "replication"], g)
       IN  Write(Put(instances, n, NewInstance(g, "replica", s, m)), gs, {g})
    /\ StartCreating(r, n)
    /\ UNCHANGED recon

\* The result is written to whatever record has the name by now.
FaultySetStatus(n, status) ==
    IF n \in DOMAIN instances
    THEN Write([instances EXCEPT ![n].status = status], groups, {})
    ELSE UNCHANGED <<instances, groups>>

SetStatus(n, status) ==
    IF n \in DOMAIN instances
    THEN Write([instances EXCEPT ![n].status = status], groups, {instances[n].group})
    ELSE UNCHANGED <<instances, groups>>

\* The file cannot be read or written; nobody looks at the transaction's error.
WriteFails == "writeFails" \in Ops /\ UNCHANGED <<instances, groups>>

CreateDone(r) ==
    /\ At(r, "create", "done")
    /\ SetStatus(req[r].name, "running") \/ WriteFails
    /\ Ends(r)
    /\ UNCHANGED recon

CreateFailed(r) ==
    /\ At(r, "create", "abort")
    /\ SetStatus(req[r].name, "failed") \/ WriteFails
    /\ Ends(r)
    /\ UNCHANGED recon

-----------------------------------------------------------------------------
(* Locked operations: resolveAndLock, the agent's answer, the deferred      *)
(* releaseLockGroup.                                                        *)

\* All or nothing: one member that cannot be locked rejects the operation.
CanLock(n, h) ==
    /\ n \in DOMAIN instances
    /\ \A m \in InstanceGroup(instances, n) : Lockable(instances[m], h)

TakeLocks(r, op, n, target, h, pc) ==
    LET S == InstanceGroup(instances, n)
    IN  /\ instances' = AcquireAll(instances, S, h)
        /\ req' = [req EXCEPT ![r] = [op |-> op, pc |-> pc, name |-> n,
                                      target |-> target, holder |-> h, held |-> S,
                                      group |-> IF op = "delete" THEN instances[n].group ELSE NONE]]
        /\ UNCHANGED <<groups, recon>>

\* start, forced stop, config and restore lock without other checks.
Begin(r, op, n, h) ==
    /\ op \in Ops \cap {"start", "forceStop", "config", "restore"}
    /\ req[r] = Idle
    /\ CanLock(n, h)
    /\ TakeLocks(r, op, n, NONE, h, "locked")

\* A backup, asked for or scheduled, locks in a session of its own.
BeginBackup(r, n, h) ==
    /\ "backup" \in Ops /\ h = r
    /\ req[r] = Idle
    /\ CanLock(n, h)
    /\ TakeLocks(r, "backup", n, NONE, h, "locked")

\* The role is looked at once the group is locked; any but a replica is
\* refused, and the lock released on the way out.
BeginPromote(r, n, h) ==
    /\ "promote" \in Ops
    /\ req[r] = Idle
    /\ CanLock(n, h)
    /\ TakeLocks(r, "promote", n, NONE, h,
             IF instances[n].role = "replica" THEN "locked" ELSE "finished")

\* Delete refuses a master whose group has other members, in the transaction
\* that takes the locks.
BeginDelete(r, n, h) ==
    /\ "delete" \in Ops
    /\ req[r] = Idle
    /\ CanLock(n, h)
    /\ instances[n].group \in DOMAIN groups
    /\ instances[n].role = "master" => InstanceGroup(instances, n) = {n}
    /\ TakeLocks(r, "delete", n, NONE, h, "locked")

\* Stop without force first looks, without lock, whether n is the master of a
\* replication group.
MasterOfReplication(n) ==
    /\ n \in DOMAIN instances
    /\ instances[n].role = "master"
    /\ instances[n].group \in DOMAIN groups
    /\ groups[instances[n].group].type = "replication"

CheckStop(r, n, h) ==
    /\ "stop" \in Ops
    /\ req[r] = Idle
    /\ ~MasterOfReplication(n)
    /\ req' = [req EXCEPT ![r] = [Idle EXCEPT !.op = "stop", !.pc = "received",
                                              !.name = n, !.holder = h]]
    /\ UNCHANGED <<instances, groups, recon>>

\* Replicate first resolves its target, without lock; n itself may be the target.
ResolveReplicate(r, n, m, h) ==
    /\ "replicate" \in Ops
    /\ req[r] = Idle
    /\ m \in DOMAIN instances
    /\ instances[m].role = "master"
    /\ req' = [req EXCEPT ![r] = [Idle EXCEPT !.op = "replicate", !.pc = "received",
                                              !.name = n, !.target = m, !.holder = h]]
    /\ UNCHANGED <<instances, groups, recon>>

\* Then both lock the group of n, or are refused.
LockReceived(r) ==
    /\ req[r].pc = "received"
    /\ IF CanLock(req[r].name, req[r].holder)
       THEN TakeLocks(r, req[r].op, req[r].name, req[r].target, req[r].holder, "locked")
       ELSE Ends(r) /\ UNCHANGED <<instances, groups, recon>>

\* These ask groupForInstance for the engine before they call the agent.
NeedsGroup == {"start", "stop", "forceStop", "config", "backup", "restore"}

\* The agent did what it was asked.  (groupForInstance is read here too: the
\* answer changes nothing in this module, so when it comes does not matter.)
AgentSucceeds(r) ==
    /\ req[r].pc = "locked"
    /\ req[r].op \in NeedsGroup =>
         /\ req[r].name \in DOMAIN instances
         /\ instances[req[r].name].group \in DOMAIN groups
    /\ Reaches(r, "done")
    /\ UNCHANGED <<instances, groups, recon>>

\* The agent answers with an error or not at all, its server has left the pool,
\* or the state cannot be read.
AgentFails(r) ==
    /\ req[r].pc = "locked"
    /\ Reaches(r, IF req[r].op = "create" THEN "abort" ELSE "finished")
    /\ UNCHANGED <<instances, groups, recon>>

\* A lock that a handler of R has set is nobody's to release from now on.
Orphaned(inst, R) ==
    IF inst.lock # NONE /\ inst.lock.heldBy \in R
    THEN [inst EXCEPT !.lock.heldBy = Lost] ELSE inst

OrphanAll(is, R) == [n \in DOMAIN is |-> Orphaned(is[n], R)]

\* What is released is what was locked, whatever the group's members are now.
FaultyRelease(r) ==
    /\ req[r].pc = "finished"
    /\ instances' = ReleaseAll(instances, {req[r].name}, req[r].holder)
    /\ Ends(r)
    /\ UNCHANGED <<groups, recon>>

\* A release whose own transaction fails leaves the locks to their deadlines.
Release(r) ==
    /\ req[r].pc = "finished"
    /\ \/ instances' = ReleaseAll(instances, req[r].held, req[r].holder)
       \/ /\ "writeFails" \in Ops
          /\ instances' = OrphanAll(instances, {r})
    /\ Ends(r)
    /\ UNCHANGED <<groups, recon>>

-----------------------------------------------------------------------------
(* The transactions that write the result.  None looks at the lock again.   *)

\* The record goes, and its group (as of the lock) if nobody is left in it.
FaultyAbandoned(is, g) == \A n \in Members(is, g) : is[n].role = "replica"

Abandoned(is, g) == Members(is, g) = {}

CommitDelete(r) ==
    /\ At(r, "delete", "done")
    /\ LET is == Without(instances, req[r].name)
           g  == req[r].group
       IN  IF Abandoned(is, g)
           THEN instances' = is /\ groups' = Without(groups, g)
           ELSE Write(is, groups, {g})
    /\ Reaches(r, "finished")
    /\ UNCHANGED recon

CommitStart(r) ==
    /\ At(r, "start", "done")
    /\ SetStatus(req[r].name, "running")
    /\ Reaches(r, "finished")
    /\ UNCHANGED recon

CommitStop(r) ==
    /\ At(r, "stop", "done") \/ At(r, "forceStop", "done")
    /\ SetStatus(req[r].name, "stopped")
    /\ Reaches(r, "finished")
    /\ UNCHANGED recon

\* config_overrides is the only field written.
CommitConfig(r) ==
    /\ At(r, "config", "done")
    /\ Reaches(r, "finished")
    /\ UNCHANGED <<instances, groups, recon>>

\* last_backup is.
CommitBackup(r) ==
    /\ At(r, "backup", "done")
    /\ Reaches(r, "finished")
    /\ UNCHANGED <<instances, groups, recon>>

\* A restore writes nothing.
CommitRestore(r) ==
    /\ At(r, "restore", "done")
    /\ Reaches(r, "finished")
    /\ UNCHANGED <<instances, groups, recon>>

\* n becomes the master of the group it is in, and the group's current master,
\* wherever it is, a replica of n.
FaultyPromoted(is, n, old) ==
    [is EXCEPT ![n].role = "master", ![n].replicaOf = NONE]

Promoted(is, n, old) ==
    [m \in DOMAIN is |->
        CASE m = n   -> [is[m] EXCEPT !.role = "master", !.replicaOf = NONE]
          [] m # n /\ m = old -> [is[m] EXCEPT !.role = "replica", !.replicaOf = n]
          [] OTHER   -> is[m]]

CommitPromote(r) ==
    /\ At(r, "promote", "done")
    /\ LET n == req[r].name
           g == instances[n].group
       IN  IF n \notin DOMAIN instances
           THEN UNCHANGED <<instances, groups>>
           ELSE IF g \in DOMAIN groups
           THEN Write(Promoted(instances, n, groups[g].currentMaster),
                      [groups EXCEPT ![g].currentMaster = n, ![g].type = "replication"],
                      {g})
           ELSE Write(Promoted(instances, n, n), groups, {})
    /\ Reaches(r, "finished")
    /\ UNCHANGED recon

\* n joins the group its target is in now, or none if the target is gone.
CommitReplicate(r) ==
    /\ At(r, "replicate", "done")
    /\ LET n  == req[r].name
           m  == req[r].target
           g  == IF m \in DOMAIN instances THEN instances[m].group ELSE NONE
           gs == IF g \in DOMAIN groups
                 THEN WithAutoPort([groups EXCEPT ![g].type = "replication"], g)
                 ELSE groups
       IN  IF n \notin DOMAIN instances
           THEN UNCHANGED <<instances, groups>>
           ELSE Write([instances EXCEPT ![n].role = "replica", ![n].replicaOf = m,
                                        ![n].group = g],
                      gs, {g, instances[n].group})
    /\ Reaches(r, "finished")
    /\ UNCHANGED recon

-----------------------------------------------------------------------------
(* What runs beside the handlers.                                           *)

\* The status, role and group of m once Sentinel has moved the mastership of
\* group g from `old` to n: every running member follows n, the old master is
\* written off and brought into the group.
FailedOver(inst, m, g, old, n) ==
    CASE m = n -> [inst EXCEPT !.role = "master", !.status = "running", !.replicaOf = NONE]
      [] m # n /\ m = old ->
            [inst EXCEPT !.role = "replica", !.status = "failed", !.replicaOf = n, !.group = g]
      [] m \notin {n, old} /\ inst.group = g /\ inst.status = "running" ->
            [inst EXCEPT !.role = "replica", !.replicaOf = n]
      [] OTHER -> inst

\* handleSentinelFailover: one transaction, under a session of its own that
\* takes every member's lock and releases it before it writes.  What remains
\* of that: the locks must be free or expired, and are gone afterwards.
SentinelFailover(g, n) ==
    /\ "sentinel" \in Ops
    /\ g \in DOMAIN groups
    /\ groups[g].type = "replication"
    /\ groups[g].currentMaster \in DOMAIN instances
    /\ \A m \in Members(instances, g) : Lockable(instances[m], NONE)
    /\ n \in Members(instances, g)
    /\ LET old == groups[g].currentMaster
           is  == [m \in DOMAIN instances |->
                     IF instances[m].group = g THEN [instances[m] EXCEPT !.lock = NONE]
                                               ELSE instances[m]]
       IN  IF old = n /\ is[n].role = "master" /\ is[n].status = "running"
           THEN instances' = is /\ UNCHANGED groups
           ELSE Write([m \in DOMAIN is |-> FailedOver(is[m], m, g, old, n)],
                      [groups EXCEPT ![g].currentMaster = n], {g})
    /\ UNCHANGED <<req, recon>>

\* The statuses runReconcile derives for a record from what the agent reports:
\* a container that is running, or one that is stopped or missing.
Drift(status) ==
    CASE status \in {"creating", "failed", "unexpected_stopped"} -> {"running"}
      [] status = "running" -> {"unexpected_stopped", "failed"}
      [] status = "stopped" -> {}

\* It reads the records, then asks the agents, and writes much later.
ReconcileRead(k) ==
    /\ "reconcile" \in Ops
    /\ recon[k] = NoPatches
    /\ \E S \in SUBSET DOMAIN instances \ {{}} :
         \E new \in [S -> Status] :
            /\ \A n \in S : new[n] \in Drift(instances[n].status)
            /\ recon' = [recon EXCEPT ![k] =
                  [n \in S |-> [seen |-> instances[n].status, new |-> new[n]]]]
    /\ UNCHANGED <<instances, groups, req>>

Patched(is, patches) ==
    [n \in DOMAIN is |-> IF n \in DOMAIN patches
                         THEN [is[n] EXCEPT !.status = patches[n].new] ELSE is[n]]

ReconcileApply(k) ==
    /\ recon[k] # NoPatches
    /\ Write(Patched(instances, recon[k]), groups,
             {instances[n].group : n \in DOMAIN recon[k] \cap DOMAIN instances})
    /\ recon' = [recon EXCEPT ![k] = NoPatches]
    /\ UNCHANGED req

\* Time passes the timeout of a lock.  Members locked together need not expire
\* together: each has its own acquired_at, cut to a second.
Expire(n) ==
    /\ "expire" \in Ops
    /\ n \in DOMAIN instances
    /\ instances[n].lock # NONE
    /\ ~instances[n].lock.expired
    /\ instances' = [instances EXCEPT ![n].lock.expired = TRUE]
    /\ UNCHANGED <<groups, req, recon>>

\* The server stops and starts again: the file stays, the handlers are gone.
Restart ==
    /\ "restart" \in Ops
    /\ (\E r \in Request : req[r] # Idle) \/ (\E k \in Reconciler : recon[k] # NoPatches)
    /\ instances' = OrphanAll(instances, Request)
    /\ req' = [r \in Request |-> Idle]
    /\ recon' = [k \in Reconciler |-> NoPatches]
    /\ UNCHANGED groups

-----------------------------------------------------------------------------
Create(r) ==
    \/ \E n \in Name, g \in Group, s \in Server, type \in {"standalone", "replication"} :
          CreateMaster(r, n, g, s, type)
    \/ \E n, m \in Name, s \in Server : CreateReplica(r, n, m, s)

Enter(r) ==
    \E n \in Name, h \in Sessions(r) :
        \/ \E op \in Ops : Begin(r, op, n, h)
        \/ BeginBackup(r, n, h)
        \/ BeginPromote(r, n, h)
        \/ BeginDelete(r, n, h)
        \/ CheckStop(r, n, h)
        \/ \E m \in Name : ResolveReplicate(r, n, m, h)

Commit(r) ==
    \/ CreateDone(r)
    \/ CreateFailed(r)
    \/ CommitDelete(r)
    \/ CommitStart(r)
    \/ CommitStop(r)
    \/ CommitConfig(r)
    \/ CommitBackup(r)
    \/ CommitRestore(r)
    \/ CommitPromote(r)
    \/ CommitReplicate(r)

Next ==
    \/ \E r \in Request : \/ Create(r)
                          \/ Enter(r)
                          \/ LockReceived(r)
                          \/ AgentSucceeds(r)
                          \/ AgentFails(r)
                          \/ Commit(r)
                          \/ Release(r)
    \/ \E g \in Group, n \in Name : SentinelFailover(g, n)
    \/ \E k \in Reconciler : ReconcileRead(k) \/ ReconcileApply(k)
    \/ \E n \in Name : Expire(n)
    \/ Restart

Spec == Init /\ [][Next]_vars

\* Time passes: a lock that stays gets past its timeout.  Nothing is assumed of
\* the agents, whose calls have no timeout, nor of the clients.
LiveSpec == Spec /\ \A n \in Name : WF_vars(Expire(n))

-----------------------------------------------------------------------------
(* Properties.                                                              *)

\* A master is the current_master of the group it is in; so no group ever has
\* two masters, whatever create, promote, replicate, delete and the failovers
\* of Sentinel do to each other.  (An instance without a group, which replicate
\* can produce, is nobody's concern: it may be promoted on its own.)
MasterIsCurrent ==
    \A n \in DOMAIN instances :
        instances[n].role = "master" /\ instances[n].group # NONE =>
            /\ instances[n].group \in DOMAIN groups
            /\ groups[instances[n].group].currentMaster = n

\* The group an instance names is recorded: CommitDelete never removes the
\* group of an instance that create, replicate or a failover put there.
MembersHaveGroup ==
    \A n \in DOMAIN instances :
        instances[n].group # NONE => instances[n].group \in DOMAIN groups

\* No two records share a port of a server, failed and creating ones included:
\* allocRedisPort runs in the transaction that writes the record.
PortsDistinct ==
    \A m, n \in DOMAIN instances :
        m # n /\ instances[m].server = instances[n].server =>
            instances[m].port # instances[n].port

\* No two groups share an Envoy listener port, although a group gets its auto
\* port at three different moments (allocEnvoyPorts has three callers).
EnvoyPortsDistinct ==
    \A g, h \in DOMAIN groups :
        g # h => /\ groups[g].masterPort # groups[h].masterPort
                 /\ groups[g].autoPort = groups[h].autoPort => groups[g].autoPort = 0

InFlight(r) == req[r].op # "create" /\ req[r].pc \in {"locked", "done", "finished"}

\* It has taken its locks and not written its result.
Working(r) == InFlight(r) /\ req[r].pc # "finished"

\* A lock has a handler in flight that is still going to release it: on every
\* path out of a handler the deferred release covers all it locked, also the
\* members that left the group meanwhile.  A lock stays behind (holder Lost) only
\* after a crash, or a release whose own transaction failed: releaseLockGroup
\* ignores that error (instance_handler.go:1188-1196).
LocksHaveOwner ==
    \A n \in DOMAIN instances, r \in Request :
        instances[n].lock # NONE /\ instances[n].lock.heldBy = r =>
            InFlight(r) /\ req[r].holder = r /\ n \in req[r].held

\* Between its lock and its last write a handler holds the locks of all the
\* members it found, as long as no lock times out and no session is shared.
LocksKept ==
    \A r \in Request :
        Working(r) =>
            /\ req[r].name \in req[r].held
            /\ \A n \in req[r].held : /\ n \in DOMAIN instances
                                      /\ instances[n].lock # NONE
                                      /\ instances[n].lock.heldBy = req[r].holder

\* Under the same conditions no two handlers work on one group at a time, also
\* when the group's members change under them: create adds to a locked group,
\* replicate moves an instance into one, a failover drags a master back.
GroupsSerialized ==
    \A r, s \in Request :
        /\ r # s
        /\ Working(r) /\ req[r].name \in DOMAIN instances
        /\ Working(s) /\ req[s].name \in DOMAIN instances
        => instances[req[r].name].group = NONE
           \/ instances[req[r].name].group # instances[req[s].name].group

\* topology_status is what its rule says of the present records
\* (ARCHITECTURE.md:421).
TopologyFresh ==
    \A g \in DOMAIN groups : groups[g].topology = Topology(instances, groups[g], g)

\* No two sessions hold locks in one group, as long as no instance is moved by
\* replicate: although the lock of each member expires for itself, create adds
\* members without one, crashes leave locks behind, and a failover drags in the
\* old master with the lock it has.
OneSessionPerGroup ==
    \A m, n \in DOMAIN instances :
        /\ instances[m].group = instances[n].group /\ instances[n].group # NONE
        /\ instances[m].lock # NONE /\ instances[n].lock # NONE
        => instances[m].lock.heldBy = instances[n].lock.heldBy

\* The records without what handlers, agents and time do to them.
Registry == INSTANCE GroupRegistry WITH
    address    <- [n \in DOMAIN instances |-> <<instances[n].server, instances[n].port>>],
    member     <- [n \in DOMAIN instances |-> instances[n].group],
    masters    <- {n \in DOMAIN instances : instances[n].role = "master"},
    current    <- [g \in DOMAIN groups |-> groups[g].currentMaster],
    masterPort <- [g \in DOMAIN groups |-> groups[g].masterPort],
    autoPort   <- [g \in DOMAIN groups |-> groups[g].autoPort]

\* Every transaction, of a handler, a failover or a loop and however late, does
\* to addresses, memberships, masters and listeners what one step of the
\* registry may do, or nothing.
RegistryKept == Registry!Spec

\* The step deletes record n or changes its role, group or replica_of.
Rewritten(n) ==
    \/ n \notin DOMAIN instances'
    \/ instances[n].role # instances'[n].role
    \/ instances[n].group # instances'[n].group
    \/ instances[n].replicaOf # instances'[n].replicaOf

\* It does so although the record's lock is valid.
RewrittenLocked(n) ==
    /\ instances[n].lock # NONE
    /\ ~instances[n].lock.expired
    /\ instances[n].lock.heldBy # Lost
    /\ Rewritten(n)

\* The current_master of a group that it is not, or no longer, in.
Stray(n) ==
    \E g \in DOMAIN groups : groups[g].currentMaster = n /\ instances[n].group # g

\* The handler still has the lock of the instance it works on.
StillLocks(r) ==
    /\ req[r].name \in DOMAIN instances
    /\ instances[req[r].name].lock # NONE
    /\ instances[req[r].name].lock.heldBy = req[r].holder

\* Within one group, a record whose lock another session validly holds keeps its
\* role, group and replica_of, and is not deleted.
LockRespected ==
    [][\A n \in DOMAIN instances : RewrittenLocked(n) =>
         \E r \in Request : /\ req[r].holder = instances[n].lock.heldBy
                            /\ req[r] # req'[r]]_vars

\* Commits do not look at the lock again.  Still, if a record is rewritten under
\* a valid lock by another session, then by a handler that has lost the lock of
\* the very instance it works on, because its agent took longer than the timeout
\* or a client shares its session; or the record is a stray master.
OnlyTheOvertakenInterfere ==
    [][\A n \in DOMAIN instances : RewrittenLocked(n) =>
         \/ Stray(n)
         \/ \E r \in Request :
              /\ req[r] # req'[r]
              /\ req[r].holder = instances[n].lock.heldBy \/ ~StillLocks(r)]_vars

\* While nothing times out and no session is shared, a handler at work finds the
\* records it has locked as they were, replicate between groups included; but a
\* promote or failover of its former group rewrites a stray master.
WorkUndisturbed ==
    [][\A r \in Request : Working(r) /\ req'[r] = req[r] =>
         \A n \in req[r].held : Stray(n) \/ ~Rewritten(n)]_vars

\* A group never loses its current master while it has other members
\* (instance_handler.go:441).
MasterNotDeletedUnderReplicas ==
    [][\A g \in DOMAIN groups :
         groups[g].currentMaster \in Members(instances, g) \ DOMAIN instances' =>
            Members(instances', g) = {}]_vars

\* A stop without force never stops the master of a replication group
\* (instance_handler.go:549).
StopNeedsForce ==
    [][\A r \in Request :
         At(r, "stop", "done") /\ req'[r].pc = "finished" =>
            ~MasterOfReplication(req[r].name)]_vars

\* A reconciliation writes a status only over the status it has compared with
\* (reconcile_handler.go:142).
ReconcileOverwritesNothingNew ==
    [][\A k \in Reconciler : recon[k] # NoPatches /\ recon'[k] = NoPatches =>
         \A n \in DOMAIN recon[k] \cap DOMAIN instances :
            n \in DOMAIN instances' /\ instances'[n].status # instances[n].status =>
                instances[n].status = recon[k][n].seen]_vars

\* Once no request presents a shared session, a group comes free again and
\* again, all its members at once, however handlers follow one another, crash,
\* hang or fail to release (ARCHITECTURE.md:517): since a handler takes the locks
\* of a whole group or none, their timeouts cannot take turns for ever.
GroupsComeFree ==
    <>[](\A r \in Request : req[r].holder \notin Session) =>
        \A g \in Group : []<>(\A n \in Members(instances, g) : Lockable(instances[n], NONE))

=============================================================================
