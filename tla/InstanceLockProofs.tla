----------------------- MODULE InstanceLockProofs -----------------------
(***************************************************************************)
(* The operation locks of InstanceOps: none outlives its handler, and as   *)
(* long as none times out and no session is shared, the operations on a    *)
(* group exclude each other.                                               *)
(***************************************************************************)
EXTENDS InstanceOpsProofs

-----------------------------------------------------------------------------
\* Locks left behind stay as they are, but are no longer a handler's.
LEMMA OrphanEffect ==
    ASSUME TypeOK, NEW R, instances' = OrphanAll(instances, R)
    PROVE  /\ DOMAIN instances' = DOMAIN instances
           /\ \A n \in DOMAIN instances :
                /\ instances'[n].group = instances[n].group
                /\ instances'[n].role = instances[n].role
                /\ instances'[n].replicaOf = instances[n].replicaOf
                /\ instances[n].lock = NONE => instances'[n].lock = NONE
                /\ instances[n].lock # NONE =>
                     /\ instances'[n].lock # NONE
                     /\ instances'[n].lock.expired = instances[n].lock.expired
                     /\ instances'[n].lock.heldBy =
                          IF instances[n].lock.heldBy \in R THEN Lost ELSE instances[n].lock.heldBy
<1> SUFFICES ASSUME NEW n \in DOMAIN instances
             PROVE  LET inst == instances[n] IN
                /\ Orphaned(inst, R).group = inst.group
                /\ Orphaned(inst, R).role = inst.role
                /\ Orphaned(inst, R).replicaOf = inst.replicaOf
                /\ inst.lock = NONE => Orphaned(inst, R).lock = NONE
                /\ inst.lock # NONE =>
                     /\ Orphaned(inst, R).lock # NONE
                     /\ Orphaned(inst, R).lock.expired = inst.lock.expired
                     /\ Orphaned(inst, R).lock.heldBy =
                          IF inst.lock.heldBy \in R THEN Lost ELSE inst.lock.heldBy
  BY DEF OrphanAll
<1> DEFINE inst == instances[n]
<1>1. inst \in Instance
  BY TypeParts DEF InstancesOK
<1>2. CASE inst.lock # NONE /\ inst.lock.heldBy \in R
  <2>1. inst.lock \in Lock
    BY <1>1, <1>2 DEF Instance
  <2>2. Orphaned(inst, R) = [inst EXCEPT !.lock = [inst.lock EXCEPT !.heldBy = Lost]]
    BY <1>2 DEF Orphaned
  <2>3. [inst.lock EXCEPT !.heldBy = Lost] = [heldBy |-> Lost, expired |-> inst.lock.expired]
    BY <2>1 DEF Lock
  <2>4. NONE # [heldBy |-> Lost, expired |-> inst.lock.expired]
    BY <2>1, NoneIsNoRecord DEF Lock, Holder
  <2>5. PICK lock : /\ Orphaned(inst, R) = [inst EXCEPT !.lock = lock]
                    /\ lock # NONE /\ lock.heldBy = Lost /\ lock.expired = inst.lock.expired
    BY <2>2, <2>3, <2>4
  <2> QED
    BY <1>1, <1>2, <2>5 DEF Instance
<1>3. CASE ~(inst.lock # NONE /\ inst.lock.heldBy \in R)
  BY <1>3 DEF Orphaned
<1> QED
  BY <1>2, <1>3

\* A release takes the locks away or leaves them behind.
LEMMA ReleaseCases ==
    ASSUME NEW r \in Request, Release(r)
    PROVE  \/ instances' = ReleaseAll(instances, req[r].held, req[r].holder)
           \/ instances' = OrphanAll(instances, {r})
  BY DEF Release

-----------------------------------------------------------------------------
(* Steps of a handler that neither take nor release locks.                  *)

\* What such a step of r leaves alone: the other handlers, every lock, and the
\* records but those of the name r works on.
Quiet(r) ==
    /\ \A s \in Request \ {r} : req'[s] = req[s]
    /\ \A n \in DOMAIN instances :
         \/ Working(r) /\ n = req[r].name
         \/ /\ n \in DOMAIN instances'
            /\ instances'[n].lock = instances[n].lock
            /\ instances'[n].group = instances[n].group
    /\ \A n \in DOMAIN instances' :
         instances'[n].lock # NONE => /\ n \in DOMAIN instances
                                      /\ instances'[n].lock = instances[n].lock
    /\ InFlight(r) => /\ InFlight(r)'
                      /\ req'[r].holder = req[r].holder
                      /\ req'[r].held = req[r].held
    /\ Working(r)' => /\ Working(r)
                      /\ req'[r].name = req[r].name
                      /\ instances' = instances

LEMMA CreateQuiet ==
    ASSUME TypeOK, NEW r \in Request, Create(r)
    PROVE  Quiet(r)
<1>1. PICK n \in Name, g \in Group, s \in Server, role \in {"master", "replica"},
           m \in Name \cup {NONE} :
        /\ n \notin DOMAIN instances
        /\ instances' = Put(instances, n, NewInstance(g, role, s, m))
  <2>1. ASSUME NEW x \in Name, NEW y \in Name, NEW t \in Server, CreateReplica(r, x, y, t)
        PROVE  /\ instances[y].group \in Group
               /\ x \notin DOMAIN instances
               /\ instances' = Put(instances, x, NewInstance(instances[y].group, "replica", t, y))
    BY <2>1, TypeParts DEF CreateReplica, Write, GroupsOK
  <2>2. ASSUME NEW x \in Name, NEW y \in Group, NEW t \in Server,
               NEW type \in {"standalone", "replication"}, CreateMaster(r, x, y, t, type)
        PROVE  /\ x \notin DOMAIN instances
               /\ instances' = Put(instances, x, NewInstance(y, "master", t, NONE))
    BY <2>2 DEF CreateMaster, Write
  <2> QED
    BY <2>1, <2>2 DEF Create
<1>2. PICK k \in Name : /\ req[r] = Idle
                        /\ StartCreating(r, k)
  BY DEF Create, CreateMaster, CreateReplica
<1>3. /\ ~InFlight(r) /\ ~InFlight(r)'
      /\ \A q \in Request \ {r} : req'[q] = req[q]
  BY <1>2, TypeParts DEF InFlight, StartCreating, Idle, ReqOK
<1> QED
  BY <1>1, <1>3 DEF Quiet, Working, Put, NewInstance

\* A handler that ends without locks, or moves on with those it has.
LEMMA EndsQuiet ==
    ASSUME TypeOK, NEW r \in Request, ~InFlight(r), Ends(r)
    PROVE  /\ \A s \in Request \ {r} : req'[s] = req[s]
           /\ ~InFlight(r)'
  BY TypeParts DEF Ends, ReqOK, InFlight, Idle

LEMMA ReachesQuiet ==
    ASSUME TypeOK, NEW r \in Request, NEW pc \in {"done", "abort", "finished"},
           Reaches(r, pc), req[r].op = "create" \/ pc # "abort",
           req[r].pc \in {"locked", "done"}
    PROVE  /\ \A s \in Request \ {r} : req'[s] = req[s]
           /\ InFlight(r) => /\ InFlight(r)'
                             /\ req'[r].holder = req[r].holder
                             /\ req'[r].held = req[r].held
           /\ Working(r)' => /\ Working(r) /\ pc = "done"
                             /\ req'[r].name = req[r].name
<1>1. req[r] \in RequestState
  BY TypeParts DEF ReqOK
<1>2. /\ \A s \in Request \ {r} : req'[s] = req[s]
      /\ req'[r] = [req[r] EXCEPT !.pc = pc]
  BY TypeParts DEF ReqOK, Reaches
<1> QED
  BY <1>1, <1>2 DEF RequestState, InFlight, Working

LEMMA SetStatusLocks ==
    ASSUME TypeOK, NEW n, NEW status, SetStatus(n, status)
    PROVE  /\ DOMAIN instances' = DOMAIN instances
           /\ \A m \in DOMAIN instances : /\ instances'[m].lock = instances[m].lock
                                          /\ instances'[m].group = instances[m].group
<1>1. \A m \in DOMAIN instances : instances[m] \in Instance
  BY TypeParts DEF InstancesOK
<1> QED
  BY <1>1 DEF SetStatus, Write, Instance

LEMMA AnswerQuiet ==
    ASSUME TypeOK, NEW r \in Request, AgentSucceeds(r) \/ AgentFails(r)
    PROVE  Quiet(r)
<1>1. req[r].pc = "locked" /\ instances' = instances
  BY DEF AgentSucceeds, AgentFails
<1>2. \E pc \in {"done", "abort", "finished"} :
        Reaches(r, pc) /\ (req[r].op = "create" \/ pc # "abort")
  BY DEF AgentSucceeds, AgentFails
<1> QED
  BY <1>1, <1>2, ReachesQuiet DEF Quiet

\* The record a commit changes is the one its handler has locked.
LEMMA CommitQuiet ==
    ASSUME TypeOK, NEW r \in Request, Commit(r)
    PROVE  Quiet(r)
<1>0. /\ \A m \in DOMAIN instances : instances[m] \in Instance
      /\ req[r] \in RequestState
  BY TypeParts DEF InstancesOK, ReqOK
<1>1. CASE CreateDone(r) \/ CreateFailed(r)
  <2>1. ~InFlight(r) /\ Ends(r)
    BY <1>1 DEF CreateDone, CreateFailed, At, InFlight
  <2>2. ~Working(r)'
    BY <2>1, EndsQuiet DEF Working
  <2> QED
    BY <1>1, <2>1, <2>2, CreateWrites, EndsQuiet, SetStatusLocks DEF Quiet
<1> DEFINE Rest == /\ DOMAIN instances' \subseteq DOMAIN instances
                   /\ \A m \in DOMAIN instances :
                        m = req[r].name \/ (m \in DOMAIN instances' /\ instances'[m] \in Instance
                                            /\ instances'[m].lock = instances[m].lock
                                            /\ instances'[m].group = instances[m].group)
                   /\ \A m \in DOMAIN instances' : instances'[m].lock = instances[m].lock
<1>2. ASSUME Rest, req[r].pc = "done", req[r].op # "create", Reaches(r, "finished")
      PROVE  Quiet(r)
  BY <1>2, ReachesQuiet DEF Quiet, Working, InFlight
<1>3. CASE \/ CommitStart(r) \/ CommitStop(r)
        \/ CommitConfig(r) \/ CommitBackup(r) \/ CommitRestore(r)
  <2>1. /\ req[r].pc = "done" /\ req[r].op # "create" /\ Reaches(r, "finished")
        /\ (\E status \in Status : SetStatus(req[r].name, status)) \/ instances' = instances
    BY <1>3 DEF CommitStart, CommitStop, CommitConfig, CommitBackup, CommitRestore, At, Status
  <2>2. InstancesOK(instances')
    BY <2>1, SetStatusType, TypeParts
  <2>3. Rest
    BY <2>1, <2>2, SetStatusLocks DEF InstancesOK
  <2> QED
    BY <1>2, <2>1, <2>3
<1>4. CASE CommitDelete(r)
  <2>1. instances' = Without(instances, req[r].name)
    BY <1>4 DEF CommitDelete, Write
  <2>2. Rest
    BY <1>0, <2>1 DEF Without, Restrict
  <2> QED
    BY <1>2, <1>4, <2>2 DEF CommitDelete, At
<1>5. CASE CommitPromote(r)
  <2>1. instances' = instances \/ \E old : instances' = Promoted(instances, req[r].name, old)
    BY <1>5 DEF CommitPromote, Write
  <2>2. InstancesOK(instances')
    BY <1>5, CommitPromoteType, TypeParts
  <2>3. ASSUME NEW old
        PROVE  LET is == Promoted(instances, req[r].name, old)
               IN  /\ DOMAIN is = DOMAIN instances
                   /\ \A m \in DOMAIN instances : /\ is[m].lock = instances[m].lock
                                                  /\ is[m].group = instances[m].group
    BY <1>0 DEF Promoted, Instance
  <2>4. Rest
    BY <2>1, <2>2, <2>3 DEF InstancesOK
  <2> QED
    BY <1>2, <1>5, <2>4 DEF CommitPromote, At
<1>6. CASE CommitReplicate(r)
  <2> DEFINE n == req[r].name
             m == req[r].target
             g == IF m \in DOMAIN instances THEN instances[m].group ELSE NONE
             is == [instances EXCEPT ![n].role = "replica", ![n].replicaOf = m, ![n].group = g]
  <2>1. instances' = instances \/ (n \in DOMAIN instances /\ instances' = is)
    BY <1>6 DEF CommitReplicate, Write
  <2>2. InstancesOK(instances')
    BY <1>6, CommitReplicateType, TypeParts
  <2>3. n \in DOMAIN instances =>
          /\ DOMAIN is = DOMAIN instances
          /\ is[n].lock = instances[n].lock
          /\ \A x \in DOMAIN instances : x # n => is[x] = instances[x]
    <3> HIDE DEF n, m, g
    <3> QED
      BY <1>0 DEF Instance
  <2> HIDE DEF n, m, g, is
  <2>4. /\ DOMAIN instances' = DOMAIN instances
        /\ \A x \in DOMAIN instances : /\ instances'[x] \in Instance
                                       /\ instances'[x].lock = instances[x].lock
                                       /\ x # n => instances'[x] = instances[x]
    BY <2>1, <2>2, <2>3 DEF InstancesOK
  <2>5. Rest
    BY <2>4 DEF n
  <2> QED
    BY <1>2, <1>6, <2>5 DEF CommitReplicate, At
<1> QED
  BY <1>1, <1>3, <1>4, <1>5, <1>6 DEF Commit

-----------------------------------------------------------------------------
(* No lock outlives its handler.                                            *)

\* A handler locks under its own session or one a client names, never under
\* another handler's; stop and replicate alone look before they lock.
HoldersOwn ==
    \A r \in Request : /\ req[r].holder \in Sessions(r) \cup {NONE}
                       /\ req[r].pc = "received" => req[r].op \in {"stop", "replicate"}

LEMMA HoldersOwnStep == TypeOK /\ HoldersOwn /\ [Next]_vars => HoldersOwn'
<1> SUFFICES ASSUME TypeOK, HoldersOwn, [Next]_vars PROVE HoldersOwn'
  OBVIOUS
<1> USE TypeParts
<1>1. ASSUME NEW r \in Request, NEW q,
             q.holder \in Sessions(r) \cup {NONE},
             q.pc = "received" => q.op \in {"stop", "replicate"},
             req' = [req EXCEPT ![r] = q]
      PROVE  HoldersOwn'
  BY <1>1 DEF HoldersOwn, ReqOK, Sessions
<1>2. ASSUME NEW r \in Request, NEW pc \in {"done", "abort", "finished"}, Reaches(r, pc)
      PROVE  HoldersOwn'
  BY <1>2 DEF HoldersOwn, ReqOK, Reaches, Sessions, RequestState
<1>3. ASSUME NEW r \in Request, Ends(r) PROVE HoldersOwn'
  BY <1>1, <1>3 DEF Ends, Idle
<1>4. ASSUME NEW r \in Request, Create(r) PROVE HoldersOwn'
  BY <1>1, <1>4 DEF Create, CreateMaster, CreateReplica, StartCreating, Idle
<1>5. ASSUME NEW r \in Request, NEW op, NEW n, NEW target,
             NEW pc \in {"locked", "finished"}, NEW h \in Sessions(r) \cup {NONE},
             TakeLocks(r, op, n, target, h, pc)
      PROVE  HoldersOwn'
  <2> DEFINE q == [op |-> op, pc |-> pc, name |-> n, target |-> target, holder |-> h,
                   held |-> InstanceGroup(instances, n),
                   group |-> IF op = "delete" THEN instances[n].group ELSE NONE]
  <2>1. q.holder = h /\ q.pc = pc
    OBVIOUS
  <2>2. req' = [req EXCEPT ![r] = q]
    BY <1>5 DEF TakeLocks
  <2> HIDE DEF q
  <2> QED
    BY <1>1, <2>1, <2>2
<1>6. ASSUME NEW r \in Request, Enter(r) PROVE HoldersOwn'
  <2>1. PICK n \in Name, h \in Sessions(r) :
          \/ \E op \in Ops : Begin(r, op, n, h)
          \/ BeginBackup(r, n, h)
          \/ BeginPromote(r, n, h)
          \/ BeginDelete(r, n, h)
          \/ CheckStop(r, n, h)
          \/ \E m \in Name : ResolveReplicate(r, n, m, h)
    BY <1>6 DEF Enter
  <2>2. CASE \/ \E op \in Ops : Begin(r, op, n, h)
            \/ BeginBackup(r, n, h) \/ BeginPromote(r, n, h) \/ BeginDelete(r, n, h)
    BY <1>5, <2>2 DEF Begin, BeginBackup, BeginPromote, BeginDelete
  <2>3. CASE CheckStop(r, n, h)
    BY <1>1, <2>3 DEF CheckStop, Idle
  <2>4. CASE \E m \in Name : ResolveReplicate(r, n, m, h)
    BY <1>1, <2>4 DEF ResolveReplicate, Idle
  <2> QED
    BY <2>1, <2>2, <2>3, <2>4
<1>7. ASSUME NEW r \in Request, LockReceived(r) PROVE HoldersOwn'
  <2>1. req[r].holder \in Sessions(r) \cup {NONE}
    BY DEF HoldersOwn
  <2>2. CASE CanLock(req[r].name, req[r].holder)
    <3>1. TakeLocks(r, req[r].op, req[r].name, req[r].target, req[r].holder, "locked")
      BY <1>7, <2>2 DEF LockReceived
    <3> QED
      BY <1>5, <2>1, <3>1
  <2>3. CASE ~CanLock(req[r].name, req[r].holder)
    BY <1>3, <1>7, <2>3 DEF LockReceived
  <2> QED
    BY <2>2, <2>3
<1>8. ASSUME NEW r \in Request, AgentSucceeds(r) \/ AgentFails(r) \/ Commit(r) \/ Release(r)
      PROVE  HoldersOwn'
  BY <1>2, <1>3, <1>8
     DEF AgentSucceeds, AgentFails, Release, Commit, CreateDone, CreateFailed, CommitStart,
         CommitStop, CommitConfig, CommitBackup, CommitRestore, CommitDelete,
         CommitPromote, CommitReplicate
<1>9. CASE Restart
  BY <1>9 DEF Restart, HoldersOwn, Idle
<1>10. CASE UNCHANGED req
  BY <1>10 DEF HoldersOwn
<1>11. CASE UNCHANGED vars
  BY <1>10, <1>11 DEF vars
<1> QED
  BY <1>4, <1>6, <1>7, <1>8, <1>9, <1>10, <1>11
     DEF Next, SentinelFailover, ReconcileRead, ReconcileApply, Expire

\* The handlers stay as they are, and locks only go.
LEMMA OwnersStay ==
    ASSUME LocksHaveOwner, UNCHANGED req,
           \A n \in DOMAIN instances' : instances'[n].lock # NONE =>
              /\ n \in DOMAIN instances /\ instances[n].lock # NONE
              /\ instances'[n].lock.heldBy = instances[n].lock.heldBy
    PROVE  LocksHaveOwner'
  BY DEF LocksHaveOwner, InFlight

LEMMA QuietOwner ==
    ASSUME LocksHaveOwner, NEW r \in Request, Quiet(r)
    PROVE  LocksHaveOwner'
<1> SUFFICES ASSUME NEW n \in DOMAIN instances', NEW s \in Request,
                    instances'[n].lock # NONE, instances'[n].lock.heldBy = s
             PROVE  InFlight(s)' /\ req'[s].holder = s /\ n \in req'[s].held
  BY DEF LocksHaveOwner
<1>1. /\ n \in DOMAIN instances /\ instances'[n].lock = instances[n].lock
      /\ InFlight(s) /\ req[s].holder = s /\ n \in req[s].held
  BY DEF Quiet, LocksHaveOwner
<1>2. CASE s = r
  BY <1>1, <1>2 DEF Quiet
<1>3. CASE s # r
  BY <1>1, <1>3 DEF Quiet, InFlight
<1> QED
  BY <1>2, <1>3

\* What the transaction that takes the locks of n's group does.
LEMMA TakeLocksEffect ==
    ASSUME TypeOK, NEW r \in Request, NEW op \in AllOps \cup {"none"},
           NEW n \in DOMAIN instances, NEW target \in Name \cup {NONE}, NEW h \in Holder,
           NEW pc \in {"locked", "finished"}, CanLock(n, h),
           TakeLocks(r, op, n, target, h, pc)
    PROVE  LET S == InstanceGroup(instances, n)
           IN  /\ n \in S /\ S \subseteq DOMAIN instances
               /\ DOMAIN instances' = DOMAIN instances
               /\ \A m \in DOMAIN instances : /\ instances[m] \in Instance
                                              /\ instances'[m] \in Instance
                                              /\ instances'[m].group = instances[m].group
               /\ \A m \in S : /\ instances[m].lock # NONE =>
                                     instances[m].lock.heldBy = h \/ instances[m].lock.expired
                               /\ instances'[m].lock # NONE
                               /\ instances'[m].lock.heldBy = h
                               /\ instances'[m].lock.expired =>
                                     instances[m].lock # NONE /\ instances[m].lock.expired
               /\ \A m \in DOMAIN instances \ S : instances'[m] = instances[m]
               /\ \A s \in Request \ {r} : req'[s] = req[s]
               /\ req'[r].op = op /\ req'[r].pc = pc /\ req'[r].name = n
               /\ req'[r].holder = h /\ req'[r].held = S
<1> DEFINE S == InstanceGroup(instances, n)
<1>1. n \in S /\ S \subseteq DOMAIN instances
  BY DEF InstanceGroup, Members
<1>2. instances' = AcquireAll(instances, S, h)
  BY DEF TakeLocks
<1>3. \A m \in S : Lockable(instances[m], h)
  BY DEF CanLock
<1>4. /\ \A s \in Request \ {r} : req'[s] = req[s]
      /\ req'[r].op = op /\ req'[r].pc = pc /\ req'[r].name = n
      /\ req'[r].holder = h /\ req'[r].held = S
  BY TypeParts DEF TakeLocks, ReqOK
<1>5. \A m \in DOMAIN instances : instances[m] \in Instance
  BY TypeParts DEF InstancesOK
<1> HIDE DEF S
<1>6. InstancesOK(instances')
  BY <1>2, AcquireType, TypeParts
<1>7. \A m \in S : /\ instances'[m].lock # NONE
                   /\ instances'[m].lock.heldBy = h
                   /\ instances'[m].lock.expired =>
                         instances[m].lock # NONE /\ instances[m].lock.expired
  <2> SUFFICES ASSUME NEW m \in S
               PROVE  /\ instances'[m].lock # NONE
                      /\ instances'[m].lock.heldBy = h
                      /\ instances'[m].lock.expired =>
                            instances[m].lock # NONE /\ instances[m].lock.expired
    OBVIOUS
  <2>1. instances'[m] = Acquired(instances[m], h) /\ instances[m] \in Instance
    BY <1>1, <1>2, <1>5 DEF AcquireAll
  <2>2. CASE instances[m].lock # NONE /\ instances[m].lock.heldBy = h
    BY <2>1, <2>2 DEF Acquired
  <2>3. CASE ~(instances[m].lock # NONE /\ instances[m].lock.heldBy = h)
    <3>1. instances'[m].lock = [heldBy |-> h, expired |-> FALSE]
      BY <2>1, <2>3 DEF Acquired, Instance
    <3>2. [heldBy |-> h, expired |-> FALSE] # NONE
      BY NoneIsNoRecord
    <3> QED
      BY <3>1, <3>2
  <2> QED
    BY <2>2, <2>3
<1>8. /\ DOMAIN instances' = DOMAIN instances
      /\ \A m \in DOMAIN instances : instances'[m].group = instances[m].group
      /\ \A m \in DOMAIN instances \ S : instances'[m] = instances[m]
  BY <1>2, <1>5 DEF AcquireAll, Acquired, Instance
<1>9. \A m \in DOMAIN instances : instances'[m] \in Instance
  BY <1>6, <1>8 DEF InstancesOK
<1> QED
  BY <1>1, <1>3, <1>4, <1>5, <1>7, <1>8, <1>9 DEF S, Lockable

LEMMA TakeLocksOwner ==
    ASSUME TypeOK, LocksHaveOwner, NEW r \in Request, ~InFlight(r),
           NEW op \in AllOps \ {"create"},
           NEW n \in DOMAIN instances, NEW target \in Name \cup {NONE}, NEW h \in Sessions(r),
           NEW pc \in {"locked", "finished"}, CanLock(n, h),
           TakeLocks(r, op, n, target, h, pc)
    PROVE  LocksHaveOwner'
<1> DEFINE S == InstanceGroup(instances, n)
<1>0. h \in Holder
  BY DEF Sessions, Holder
<1>1. /\ DOMAIN instances' = DOMAIN instances
      /\ \A m \in S : instances'[m].lock.heldBy = h
      /\ \A m \in DOMAIN instances \ S : instances'[m] = instances[m]
      /\ \A s \in Request \ {r} : req'[s] = req[s]
      /\ req'[r].op = op /\ req'[r].pc = pc
      /\ req'[r].holder = h /\ req'[r].held = S
  BY <1>0, TakeLocksEffect
<1> SUFFICES ASSUME NEW m \in DOMAIN instances', NEW s \in Request,
                    instances'[m].lock # NONE, instances'[m].lock.heldBy = s
             PROVE  InFlight(s)' /\ req'[s].holder = s /\ m \in req'[s].held
  BY DEF LocksHaveOwner
<1> HIDE DEF S
<1>2. CASE m \in S
  <2>1. s = h /\ s = r
    BY <1>1, <1>2, HoldersDiffer DEF Sessions
  <2> QED
    BY <1>1, <1>2, <2>1 DEF InFlight
<1>3. CASE m \notin S
  <2>1. InFlight(s) /\ req[s].holder = s /\ m \in req[s].held
    BY <1>1, <1>3 DEF LocksHaveOwner
  <2> QED
    BY <1>1, <2>1 DEF InFlight
<1> QED
  BY <1>2, <1>3

\* Entering: a step that locks, or one that only looks.
LEMMA EnterCases ==
    ASSUME NEW r \in Request, Enter(r)
    PROVE  /\ req[r] = Idle
           /\ \/ \E op \in AllOps \ {"create"}, n \in DOMAIN instances, h \in Sessions(r),
                    pc \in {"locked", "finished"} :
                   CanLock(n, h) /\ TakeLocks(r, op, n, NONE, h, pc)
              \/ /\ UNCHANGED instances
                 /\ \E q : req' = [req EXCEPT ![r] = q] /\ q.pc = "received"
<1>1. PICK n \in Name, h \in Sessions(r) :
        \/ \E op \in Ops : Begin(r, op, n, h)
        \/ BeginBackup(r, n, h)
        \/ BeginPromote(r, n, h)
        \/ BeginDelete(r, n, h)
        \/ CheckStop(r, n, h)
        \/ \E m \in Name : ResolveReplicate(r, n, m, h)
  BY DEF Enter
<1>2. ASSUME NEW op \in Ops, Begin(r, op, n, h)
      PROVE  /\ req[r] = Idle /\ op \in AllOps \ {"create"} /\ n \in DOMAIN instances
             /\ CanLock(n, h) /\ TakeLocks(r, op, n, NONE, h, "locked")
  BY <1>2 DEF Begin, AllOps, CanLock
<1>3. CASE BeginPromote(r, n, h)
  BY <1>3 DEF BeginPromote, AllOps, CanLock
<1>4. CASE BeginDelete(r, n, h)
  BY <1>4 DEF BeginDelete, AllOps, CanLock
<1>5. CASE CheckStop(r, n, h)
  <2> DEFINE q == [Idle EXCEPT !.op = "stop", !.pc = "received", !.name = n, !.holder = h]
  <2>1. req' = [req EXCEPT ![r] = q] /\ q.pc = "received"
    BY <1>5 DEF CheckStop, Idle
  <2> HIDE DEF q
  <2> QED
    BY <1>5, <2>1 DEF CheckStop
<1>6. ASSUME NEW m \in Name, ResolveReplicate(r, n, m, h)
      PROVE  /\ req[r] = Idle /\ UNCHANGED instances
             /\ \E q : req' = [req EXCEPT ![r] = q] /\ q.pc = "received"
  <2> DEFINE q == [Idle EXCEPT !.op = "replicate", !.pc = "received", !.name = n,
                               !.target = m, !.holder = h]
  <2>1. req' = [req EXCEPT ![r] = q] /\ q.pc = "received"
    BY <1>6 DEF ResolveReplicate, Idle
  <2> HIDE DEF q
  <2> QED
    BY <1>6, <2>1 DEF ResolveReplicate
<1>7. CASE BeginBackup(r, n, h)
  BY <1>7 DEF BeginBackup, AllOps, CanLock
<1> QED
  BY <1>1, <1>2, <1>3, <1>4, <1>5, <1>6, <1>7

\* The same for the handlers that looked first.
LEMMA LockReceivedCases ==
    ASSUME TypeOK, HoldersOwn, NEW r \in Request, LockReceived(r)
    PROVE  /\ ~InFlight(r)
           /\ \/ \E op \in AllOps \ {"create"}, n \in DOMAIN instances, h \in Sessions(r),
                    target \in Name \cup {NONE} :
                   CanLock(n, h) /\ TakeLocks(r, op, n, target, h, "locked")
              \/ UNCHANGED instances /\ Ends(r)
<1>1. /\ req[r].pc = "received" /\ req[r].holder \in Sessions(r)
      /\ req[r].op \in {"stop", "replicate"}
      /\ req[r].target \in Name \cup {NONE}
  BY TypeParts DEF LockReceived, ReqOK, RequestState, HoldersOwn
<1> QED
  BY <1>1 DEF LockReceived, InFlight, AllOps, CanLock

LEMMA LockReceivedOwner ==
    ASSUME TypeOK, HoldersOwn, LocksHaveOwner, NEW r \in Request, LockReceived(r)
    PROVE  LocksHaveOwner'
<1>1. ASSUME UNCHANGED instances, Ends(r) PROVE LocksHaveOwner'
  <2>1. ~InFlight(r)
    BY LockReceivedCases
  <2>2. Quiet(r)
    BY <1>1, <2>1, EndsQuiet DEF Quiet, Working
  <2> QED
    BY <2>2, QuietOwner
<1> QED
  BY <1>1, LockReceivedCases, TakeLocksOwner

LEMMA EnterOwner ==
    ASSUME TypeOK, LocksHaveOwner, NEW r \in Request, Enter(r)
    PROVE  LocksHaveOwner'
<1>1. ~InFlight(r)
  BY EnterCases DEF InFlight, Idle
<1>2. ASSUME UNCHANGED instances, NEW q, req' = [req EXCEPT ![r] = q], q.pc = "received"
      PROVE  LocksHaveOwner'
  <2>1. /\ \A s \in Request \ {r} : req'[s] = req[s]
        /\ ~InFlight(r)'
    BY <1>2, TypeParts DEF ReqOK, InFlight
  <2>2. Quiet(r)
    BY <1>1, <1>2, <2>1 DEF Quiet, Working
  <2> QED
    BY <2>2, QuietOwner
<1>3. ASSUME NEW op \in AllOps \ {"create"}, NEW n \in DOMAIN instances,
             NEW h \in Sessions(r), NEW pc \in {"locked", "finished"},
             CanLock(n, h), TakeLocks(r, op, n, NONE, h, pc)
      PROVE  LocksHaveOwner'
  BY <1>1, <1>3, TakeLocksOwner
<1> QED
  BY <1>2, <1>3, EnterCases

\* Everything the handler holds is in `held`, so that nothing of it stays its own.
LEMMA ReleaseOwner ==
    ASSUME TypeOK, LocksHaveOwner, NEW r \in Request, Release(r)
    PROVE  LocksHaveOwner'
<1>1. \A n \in DOMAIN instances : instances[n] \in Instance
  BY TypeParts DEF InstancesOK
<1>2. \A s \in Request \ {r} : req'[s] = req[s]
  BY TypeParts DEF Release, Ends, ReqOK
<1> SUFFICES ASSUME NEW n \in DOMAIN instances', NEW s \in Request,
                    instances'[n].lock # NONE, instances'[n].lock.heldBy = s
             PROVE  InFlight(s)' /\ req'[s].holder = s /\ n \in req'[s].held
  BY DEF LocksHaveOwner
<1>3. CASE instances' = ReleaseAll(instances, req[r].held, req[r].holder)
  <2>1. /\ n \in DOMAIN instances
        /\ instances'[n].lock \in {NONE, instances[n].lock}
        /\ n \in req[r].held /\ instances[n].lock # NONE
             /\ instances[n].lock.heldBy = req[r].holder => instances'[n].lock = NONE
    BY <1>1, <1>3 DEF ReleaseAll, Released, Instance
  <2>2. /\ instances[n].lock # NONE /\ instances[n].lock.heldBy = s
        /\ InFlight(s) /\ req[s].holder = s /\ n \in req[s].held
    BY <2>1 DEF LocksHaveOwner
  <2>3. s # r
    BY <2>1, <2>2
  <2> QED
    BY <1>2, <2>2, <2>3 DEF InFlight
<1>4. CASE instances' = OrphanAll(instances, {r})
  <2>1. /\ n \in DOMAIN instances
        /\ instances[n].lock # NONE
        /\ s = IF instances[n].lock.heldBy \in {r} THEN Lost ELSE instances[n].lock.heldBy
    BY <1>4, OrphanEffect
  <2>2. instances[n].lock.heldBy = s /\ s # r
    BY <2>1, HoldersDiffer
  <2>3. InFlight(s) /\ req[s].holder = s /\ n \in req[s].held
    BY <2>1, <2>2 DEF LocksHaveOwner
  <2> QED
    BY <1>2, <2>2, <2>3 DEF InFlight
<1> QED
  BY <1>3, <1>4, ReleaseCases

LEMMA BesideOwner ==
    ASSUME TypeOK, LocksHaveOwner,
           \/ \E g \in Group, n \in Name : SentinelFailover(g, n)
           \/ \E k \in Reconciler : ReconcileRead(k) \/ ReconcileApply(k)
           \/ \E n \in Name : Expire(n)
           \/ Restart
    PROVE  LocksHaveOwner'
<1>0. \A n \in DOMAIN instances : instances[n] \in Instance
  BY TypeParts DEF InstancesOK
<1>1. ASSUME NEW g \in Group, NEW n \in Name, SentinelFailover(g, n) PROVE LocksHaveOwner'
  <2> DEFINE old == groups[g].currentMaster
             is  == [m \in DOMAIN instances |->
                       IF instances[m].group = g THEN [instances[m] EXCEPT !.lock = NONE]
                                                 ELSE instances[m]]
             over == [m \in DOMAIN is |-> FailedOver(is[m], m, g, old, n)]
  <2>1. instances' = is \/ instances' = over
    BY <1>1 DEF SentinelFailover, Write
  <2>2. /\ DOMAIN is = DOMAIN instances
        /\ \A m \in DOMAIN is : is[m] \in Instance /\ is[m].lock \in {NONE, instances[m].lock}
    BY <1>0 DEF Instance
  <2> HIDE DEF is, old
  <2>3. DOMAIN over = DOMAIN is /\ \A m \in DOMAIN is : over[m].lock = is[m].lock
    BY <2>2 DEF FailedOver, Instance
  <2> HIDE DEF over
  <2>4. UNCHANGED req
    BY <1>1 DEF SentinelFailover
  <2> QED
    BY <2>1, <2>2, <2>3, <2>4, OwnersStay
<1>2. ASSUME NEW k \in Reconciler, ReconcileRead(k) \/ ReconcileApply(k) PROVE LocksHaveOwner'
  <2>1. /\ DOMAIN instances' = DOMAIN instances
        /\ \A m \in DOMAIN instances : instances'[m].lock = instances[m].lock
        /\ UNCHANGED req
    BY <1>0, <1>2 DEF ReconcileRead, ReconcileApply, Write, Patched, Instance
  <2> QED
    BY <2>1, OwnersStay
<1>3. ASSUME NEW n \in Name, Expire(n) PROVE LocksHaveOwner'
  <2>1. instances[n].lock \in Lock
    BY <1>0, <1>3 DEF Expire, Instance
  <2>2. /\ DOMAIN instances' = DOMAIN instances /\ UNCHANGED req
        /\ \A m \in DOMAIN instances : m # n => instances'[m] = instances[m]
        /\ instances[n].lock # NONE
        /\ instances'[n].lock.heldBy = instances[n].lock.heldBy
    BY <1>0, <1>3, <2>1 DEF Expire, Instance, Lock
  <2> QED
    BY <2>2, OwnersStay
<1>4. ASSUME Restart PROVE LocksHaveOwner'
  <2>1. instances' = OrphanAll(instances, Request)
    BY <1>4 DEF Restart
  <2>2. ASSUME NEW m \in DOMAIN instances', instances'[m].lock # NONE
        PROVE  instances'[m].lock.heldBy \notin Request
    BY <2>1, <2>2, OrphanEffect, HoldersDiffer
  <2> QED
    BY <2>2 DEF LocksHaveOwner
<1> QED
  BY <1>1, <1>2, <1>3, <1>4

\* A lock is that of a handler in flight, on an instance it is still going to
\* release, unless a crash or a release that could not be written left it
\* (holder Lost): no error path, deletion or change of membership leaves one
\* behind, whatever times out.
THEOREM NoLockOutlivesItsHandler == Spec => []LocksHaveOwner
<1> DEFINE IInv == TypeOK /\ HoldersOwn /\ LocksHaveOwner
<1>1. Init => IInv
  BY InitType DEF Init, HoldersOwn, LocksHaveOwner, Idle
<1>2. IInv /\ [Next]_vars => IInv'
  <2> SUFFICES ASSUME TypeOK, HoldersOwn, LocksHaveOwner, [Next]_vars
               PROVE  TypeOK' /\ HoldersOwn' /\ LocksHaveOwner'
    OBVIOUS
  <2>1. TypeOK' /\ HoldersOwn'
    BY TypeStep, HoldersOwnStep
  <2>2. CASE UNCHANGED vars
    <3>1. LocksHaveOwner'
      BY <2>2 DEF vars, LocksHaveOwner, InFlight
    <3> QED
      BY <2>1, <3>1
  <2>3. ASSUME NEW r \in Request,
               \/ Create(r) \/ Enter(r) \/ LockReceived(r) \/ AgentSucceeds(r)
               \/ AgentFails(r) \/ Commit(r) \/ Release(r)
        PROVE  LocksHaveOwner'
    BY <2>3, CreateQuiet, EnterOwner, LockReceivedOwner, AnswerQuiet, CommitQuiet,
       QuietOwner, ReleaseOwner
  <2>4. CASE Next
    <3>1. LocksHaveOwner'
      BY <2>3, <2>4, BesideOwner DEF Next
    <3> QED
      BY <2>1, <3>1
  <2> QED
    BY <2>2, <2>4
<1> QED
  BY <1>1, <1>2, PTL DEF Spec

-----------------------------------------------------------------------------
(* Mutual exclusion.  Create ignores locks, replicate moves an instance into *)
(* a group others may hold, and a failover drags the old master into one:    *)
(* the argument is that each of them changes the group only of a record that *)
(* its own lock, or the absence of any lock in the group, protects.          *)

NoneExpired ==
    \A n \in DOMAIN instances : instances[n].lock # NONE => ~instances[n].lock.expired

\* GroupsSerialized says it of the instances worked on; but what a handler locks
\* is more, and stays out of another's group too.
HeldApart ==
    \A r, s \in Request :
        /\ r # s /\ Working(r) /\ Working(s)
        /\ req[s].name \in DOMAIN instances /\ instances[req[s].name].group # NONE
        => \A m \in req[r].held \cap DOMAIN instances :
             instances[m].group # instances[req[s].name].group

Exclusive == NoneExpired /\ LocksKept /\ HeldApart

LEMMA ExclusiveSerializes == Exclusive => GroupsSerialized
  BY DEF Exclusive, LocksKept, HeldApart, GroupsSerialized

LEMMA WorkingHolds ==
    ASSUME TypeOK, HoldersOwn, Session = {}, LocksKept, NEW r \in Request, Working(r)
    PROVE  /\ req[r].name \in req[r].held
           /\ req[r].holder = r
           /\ \A n \in req[r].held : /\ n \in DOMAIN instances
                                     /\ instances[n].lock # NONE
                                     /\ instances[n].lock.heldBy = r
<1>1. /\ req[r].name \in req[r].held
      /\ \A n \in req[r].held : /\ n \in DOMAIN instances
                                /\ instances[n].lock # NONE
                                /\ instances[n].lock.heldBy = req[r].holder
  BY DEF LocksKept
<1>2. req[r].name \in DOMAIN instances /\ instances[req[r].name].lock \in Lock
  BY <1>1, TypeParts DEF InstancesOK, Instance
<1>3. req[r].holder \in Holder
  BY <1>1, <1>2 DEF Lock
<1>4. req[r].holder = r
  BY <1>3, NoneIsNoValue DEF HoldersOwn, Sessions
<1> QED
  BY <1>1, <1>4

\* Two handlers at work hold nothing in common.
LEMMA WorkingApart ==
    ASSUME TypeOK, HoldersOwn, Session = {}, LocksKept,
           NEW r \in Request, Working(r), NEW s \in Request, Working(s), r # s
    PROVE  req[r].held \cap req[s].held = {}
  BY WorkingHolds

LEMMA QuietExclusive ==
    ASSUME TypeOK, HoldersOwn, Session = {}, Exclusive, NEW r \in Request, Quiet(r)
    PROVE  Exclusive'
<1>1. NoneExpired'
  BY DEF Exclusive, NoneExpired, Quiet
<1>2. ASSUME NEW s \in Request, Working(s)'
      PROVE  /\ Working(s)
             /\ req'[s].name = req[s].name
             /\ req'[s].holder = req[s].holder
             /\ req'[s].held = req[s].held
  BY <1>2 DEF Quiet, Working, InFlight
<1>3. ASSUME NEW s \in Request, Working(s)', NEW n \in req[s].held
      PROVE  /\ n \in DOMAIN instances /\ n \in DOMAIN instances'
             /\ instances'[n].lock = instances[n].lock
             /\ instances'[n].group = instances[n].group
  <2>1. Working(s) /\ n \in DOMAIN instances
    BY <1>2, <1>3, WorkingHolds DEF Exclusive
  <2>2. CASE s = r
    BY <1>3, <2>1, <2>2 DEF Quiet
  <2>3. CASE s # r
    <3>1. ~(Working(r) /\ n = req[r].name)
      BY <1>3, <2>1, <2>3, WorkingHolds, WorkingApart DEF Exclusive
    <3> QED
      BY <2>1, <3>1 DEF Quiet
  <2> QED
    BY <2>2, <2>3
<1>4. LocksKept'
  BY <1>2, <1>3 DEF LocksKept, Exclusive
<1>5. HeldApart'
  <2> SUFFICES ASSUME NEW s \in Request, NEW t \in Request, s # t,
                      Working(s)', Working(t)',
                      instances'[req'[t].name].group # NONE,
                      NEW m \in req'[s].held
               PROVE  instances'[m].group # instances'[req'[t].name].group
    BY DEF HeldApart
  <2>1. req[t].name \in req[t].held /\ m \in req[s].held
    BY <1>2, WorkingHolds DEF Exclusive
  <2> QED
    BY <1>2, <1>3, <2>1 DEF Exclusive, HeldApart
<1> QED
  BY <1>1, <1>4, <1>5 DEF Exclusive

\* Nobody at work holds what r can lock, so nobody works in the group r locks.
LEMMA TakeLocksExclusive ==
    ASSUME TypeOK, HoldersOwn, Session = {}, Exclusive, NEW r \in Request, ~InFlight(r),
           NEW op \in AllOps \ {"create"},
           NEW n \in DOMAIN instances, NEW target \in Name \cup {NONE}, NEW h \in Sessions(r),
           NEW pc \in {"locked", "finished"}, CanLock(n, h),
           TakeLocks(r, op, n, target, h, pc)
    PROVE  Exclusive'
<1> DEFINE S == InstanceGroup(instances, n)
<1>0. h = r /\ h \in Holder
  BY DEF Sessions, Holder
<1>1. /\ n \in S /\ S \subseteq DOMAIN instances
      /\ DOMAIN instances' = DOMAIN instances
      /\ \A m \in DOMAIN instances : instances'[m].group = instances[m].group
      /\ \A m \in S : /\ instances[m].lock # NONE =>
                            instances[m].lock.heldBy = h \/ instances[m].lock.expired
                      /\ instances'[m].lock # NONE
                      /\ instances'[m].lock.heldBy = h
                      /\ instances'[m].lock.expired =>
                            instances[m].lock # NONE /\ instances[m].lock.expired
      /\ \A m \in DOMAIN instances \ S : instances'[m] = instances[m]
      /\ \A s \in Request \ {r} : req'[s] = req[s]
      /\ req'[r].op = op /\ req'[r].pc = pc /\ req'[r].name = n
      /\ req'[r].holder = h /\ req'[r].held = S
  BY <1>0, TakeLocksEffect
<1>2. instances[n].group # NONE => S = Members(instances, instances[n].group)
  BY DEF InstanceGroup
<1> HIDE DEF S
<1>3. NoneExpired'
  BY <1>1 DEF Exclusive, NoneExpired
<1>4. ASSUME NEW s \in Request \ {r}, Working(s)'
      PROVE  /\ Working(s) /\ req'[s] = req[s]
             /\ req[s].name \in req[s].held
             /\ \A m \in req[s].held : m \in DOMAIN instances /\ m \notin S
  <2>1. Working(s) /\ req'[s] = req[s]
    BY <1>1, <1>4 DEF Working, InFlight
  <2>2. /\ req[s].name \in req[s].held
        /\ \A m \in req[s].held : /\ m \in DOMAIN instances
                                  /\ instances[m].lock # NONE
                                  /\ instances[m].lock.heldBy = s
    BY <2>1, WorkingHolds DEF Exclusive
  <2> QED
    BY <1>0, <1>1, <2>1, <2>2 DEF Exclusive, NoneExpired
<1>5. LocksKept'
  <2> SUFFICES ASSUME NEW s \in Request, Working(s)'
               PROVE  /\ req'[s].name \in req'[s].held
                      /\ \A m \in req'[s].held : /\ m \in DOMAIN instances'
                                                 /\ instances'[m].lock # NONE
                                                 /\ instances'[m].lock.heldBy = req'[s].holder
    BY DEF LocksKept
  <2>1. CASE s = r
    BY <1>1, <2>1
  <2>2. CASE s # r
    BY <1>1, <1>4, <2>2 DEF Exclusive, LocksKept
  <2> QED
    BY <2>1, <2>2
<1>6. ASSUME NEW s \in Request \ {r}, Working(s)', NEW m \in S, NEW k \in req[s].held,
             instances[m].group = instances[k].group
      PROVE  instances[k].group = NONE
  BY <1>2, <1>4, <1>6 DEF Members, InstanceGroup, S
<1>7. HeldApart'
  <2> SUFFICES ASSUME NEW s \in Request, NEW t \in Request, s # t,
                      Working(s)', Working(t)',
                      instances'[req'[t].name].group # NONE,
                      NEW m \in req'[s].held, m \in DOMAIN instances'
               PROVE  instances'[m].group # instances'[req'[t].name].group
    BY DEF HeldApart
  <2>1. CASE s = r
    BY <1>1, <1>4, <1>6, <2>1
  <2>2. CASE t = r
    BY <1>1, <1>4, <1>6, <2>2
  <2>3. CASE s # r /\ t # r
    BY <1>1, <1>4, <2>3 DEF Exclusive, HeldApart
  <2> QED
    BY <2>1, <2>2, <2>3
<1> QED
  BY <1>3, <1>5, <1>7 DEF Exclusive

LEMMA EnterExclusive ==
    ASSUME TypeOK, HoldersOwn, Session = {}, Exclusive, NEW r \in Request,
           Enter(r) \/ LockReceived(r)
    PROVE  Exclusive'
<1>1. ~InFlight(r)
  BY EnterCases, LockReceivedCases DEF InFlight, Idle
<1>2. ASSUME NEW q, UNCHANGED instances, req' = [req EXCEPT ![r] = q],
             q.pc \in {"received", "idle"}
      PROVE  Exclusive'
  <2>1. /\ \A s \in Request \ {r} : req'[s] = req[s]
        /\ ~InFlight(r)'
    BY <1>2, TypeParts DEF ReqOK, InFlight
  <2>2. Quiet(r)
    BY <1>1, <1>2, <2>1 DEF Quiet, Working
  <2> QED
    BY <2>2, QuietExclusive
<1>3. CASE Enter(r)
  BY <1>1, <1>2, <1>3, EnterCases, TakeLocksExclusive
<1>4. CASE LockReceived(r)
  <2>1. ASSUME UNCHANGED instances, Ends(r) PROVE Exclusive'
    BY <1>2, <2>1 DEF Ends, Idle
  <2> QED
    BY <1>1, <1>4, <2>1, LockReceivedCases, TakeLocksExclusive
<1> QED
  BY <1>3, <1>4

\* What others hold keeps its locks and its holder.
LEMMA ReleaseEffect ==
    ASSUME TypeOK, NEW r \in Request, Release(r)
    PROVE  /\ DOMAIN instances' = DOMAIN instances
           /\ \A n \in DOMAIN instances :
                /\ instances'[n].group = instances[n].group
                /\ instances'[n].lock # NONE =>
                      /\ instances[n].lock # NONE
                      /\ instances'[n].lock.expired = instances[n].lock.expired
                /\ instances[n].lock # NONE /\ instances[n].lock.heldBy \notin {r, req[r].holder} =>
                      /\ instances'[n].lock # NONE
                      /\ instances'[n].lock.heldBy = instances[n].lock.heldBy
<1>1. \A n \in DOMAIN instances : instances[n] \in Instance
  BY TypeParts DEF InstancesOK
<1>2. CASE instances' = ReleaseAll(instances, req[r].held, req[r].holder)
  BY <1>1, <1>2 DEF ReleaseAll, Released, Instance
<1>3. CASE instances' = OrphanAll(instances, {r})
  BY <1>3, OrphanEffect
<1> QED
  BY <1>2, <1>3, ReleaseCases

LEMMA ReleaseExclusive ==
    ASSUME TypeOK, HoldersOwn, Session = {}, Exclusive, NEW r \in Request, Release(r)
    PROVE  Exclusive'
<1>2. /\ DOMAIN instances' = DOMAIN instances
      /\ \A n \in DOMAIN instances :
           /\ instances'[n].group = instances[n].group
           /\ instances'[n].lock # NONE =>
                 /\ instances[n].lock # NONE
                 /\ instances'[n].lock.expired = instances[n].lock.expired
           /\ instances[n].lock # NONE /\ instances[n].lock.heldBy \notin {r, req[r].holder} =>
                 /\ instances'[n].lock # NONE
                 /\ instances'[n].lock.heldBy = instances[n].lock.heldBy
  BY ReleaseEffect
<1>3. /\ \A s \in Request \ {r} : req'[s] = req[s]
      /\ ~Working(r)'
  BY TypeParts DEF Release, Ends, ReqOK, Working, InFlight, Idle
<1>4. ASSUME NEW s \in Request, Working(s)'
      PROVE  /\ s # r /\ req'[s] = req[s] /\ Working(s)
             /\ req[s].name \in req[s].held
             /\ \A n \in req[s].held :
                  /\ n \in DOMAIN instances
                  /\ instances'[n].lock # NONE
                  /\ instances'[n].lock.heldBy = instances[n].lock.heldBy
  <2>1. s # r /\ req'[s] = req[s] /\ Working(s)
    BY <1>3, <1>4 DEF Working, InFlight
  <2>2. /\ req[s].name \in req[s].held
        /\ \A n \in req[s].held : /\ n \in DOMAIN instances
                                  /\ instances[n].lock # NONE
                                  /\ instances[n].lock.heldBy = s
    BY <2>1, WorkingHolds DEF Exclusive
  <2>3. req[r].holder # s
    BY <2>1, NoneIsNoValue DEF HoldersOwn, Sessions, Holder
  <2> QED
    BY <1>2, <2>1, <2>2, <2>3
<1>5. NoneExpired'
  BY <1>2 DEF Exclusive, NoneExpired
<1>6. LocksKept'
  BY <1>2, <1>4 DEF LocksKept, Exclusive
<1>7. HeldApart'
  BY <1>2, <1>4 DEF HeldApart, Exclusive
<1> QED
  BY <1>5, <1>6, <1>7 DEF Exclusive

\* With no lock past its timeout, a failover finds all members of the group
\* unlocked: nobody works in it when the old master is dragged in.
LEMMA SentinelFailoverExclusive ==
    ASSUME TypeOK, HoldersOwn, Session = {}, Exclusive, NEW g \in Group, NEW n \in Name,
           SentinelFailover(g, n)
    PROVE  Exclusive'
<1> DEFINE old == groups[g].currentMaster
           is  == [m \in DOMAIN instances |->
                     IF instances[m].group = g THEN [instances[m] EXCEPT !.lock = NONE]
                                               ELSE instances[m]]
           over == [m \in DOMAIN is |-> FailedOver(is[m], m, g, old, n)]
<1>1. \A m \in DOMAIN instances : /\ instances[m] \in Instance
                                  /\ instances[m].lock # NONE => instances[m].lock \in Lock
  BY TypeParts DEF InstancesOK, Instance
<1>2. \A m \in DOMAIN instances : instances[m].group = g => instances[m].lock = NONE
  <2> SUFFICES ASSUME NEW m \in DOMAIN instances, instances[m].group = g,
                      instances[m].lock # NONE
               PROVE  FALSE
    OBVIOUS
  <2>1. Lockable(instances[m], NONE)
    BY DEF SentinelFailover, Members
  <2>2. instances[m].lock.heldBy = NONE
    BY <2>1 DEF Lockable, Exclusive, NoneExpired
  <2>3. instances[m].lock.heldBy \in Holder
    BY <1>1 DEF Lock
  <2> QED
    BY <2>2, <2>3, NoneIsNoValue
<1>3. instances' = is \/ instances' = over
  BY DEF SentinelFailover, Write
<1>4. /\ n \in DOMAIN instances /\ instances[n].group = g
      /\ g \in Group
  BY DEF SentinelFailover, Members
<1>5. /\ DOMAIN is = DOMAIN instances
      /\ \A m \in DOMAIN instances : /\ is[m] \in Instance
                                     /\ is[m].lock = instances[m].lock
                                     /\ is[m].group = instances[m].group
  BY <1>1, <1>2 DEF Instance
<1> HIDE DEF is
<1>6. /\ DOMAIN over = DOMAIN instances
      /\ \A m \in DOMAIN instances : /\ over[m].lock = instances[m].lock
                                     /\ m # old => over[m].group = instances[m].group
                                     /\ over[m].group \in {g, instances[m].group}
  BY <1>5 DEF FailedOver, Instance
<1> HIDE DEF over
<1>7. /\ DOMAIN instances' = DOMAIN instances /\ UNCHANGED req
      /\ \A m \in DOMAIN instances : /\ instances'[m].lock = instances[m].lock
                                     /\ m # old => instances'[m].group = instances[m].group
                                     /\ instances'[m].group \in {g, instances[m].group}
  BY <1>3, <1>5, <1>6 DEF SentinelFailover
<1> HIDE DEF old
<1>8. NoneExpired' /\ LocksKept'
  BY <1>7 DEF Exclusive, NoneExpired, LocksKept, Working, InFlight
<1>9. HeldApart'
  <2> SUFFICES ASSUME NEW s \in Request, NEW t \in Request, s # t,
                      Working(s), Working(t),
                      instances'[req[t].name].group # NONE,
                      NEW m \in req[s].held
               PROVE  instances'[m].group # instances'[req[t].name].group
    BY <1>7 DEF HeldApart, Working, InFlight
  <2>1. /\ m \in DOMAIN instances /\ instances[m].group # g
        /\ req[t].name \in DOMAIN instances /\ instances[req[t].name].group # g
        /\ m # req[t].name
    BY <1>2, WorkingHolds, WorkingApart DEF Exclusive
  <2>2. \/ instances[req[t].name].group = NONE
        \/ instances[m].group # instances[req[t].name].group
    BY <2>1 DEF Exclusive, HeldApart
  <2>3. CASE m = old
    BY <1>7, <2>1, <2>2, <2>3
  <2>4. CASE req[t].name = old
    BY <1>7, <2>1, <2>2, <2>4
  <2>5. CASE m # old /\ req[t].name # old
    BY <1>7, <2>1, <2>2, <2>5
  <2> QED
    BY <2>3, <2>4, <2>5
<1> QED
  BY <1>8, <1>9 DEF Exclusive

LEMMA BesideExclusive ==
    ASSUME TypeOK, HoldersOwn, Session = {}, Exclusive,
           (\E k \in Reconciler : ReconcileRead(k) \/ ReconcileApply(k)) \/ Restart
    PROVE  Exclusive'
<1>0. \A n \in DOMAIN instances : instances[n] \in Instance
  BY TypeParts DEF InstancesOK
<1>1. ASSUME NEW k \in Reconciler, ReconcileRead(k) \/ ReconcileApply(k) PROVE Exclusive'
  <2>1. /\ DOMAIN instances' = DOMAIN instances
        /\ \A m \in DOMAIN instances : /\ instances'[m].lock = instances[m].lock
                                       /\ instances'[m].group = instances[m].group
        /\ UNCHANGED req
    BY <1>0, <1>1 DEF ReconcileRead, ReconcileApply, Write, Patched, Instance
  <2> QED
    BY <2>1 DEF Exclusive, NoneExpired, LocksKept, HeldApart, Working, InFlight
<1>2. CASE Restart
  <2>1. \A s \in Request : ~Working(s)'
    BY <1>2 DEF Restart, Working, InFlight, Idle
  <2>2. NoneExpired'
    BY <1>2, OrphanEffect DEF Restart, Exclusive, NoneExpired
  <2> QED
    BY <2>1, <2>2 DEF Exclusive, LocksKept, HeldApart
<1> QED
  BY <1>1, <1>2

LEMMA ExclusiveInvariant ==
    ASSUME "expire" \notin Ops, Session = {}
    PROVE  Spec => [](TypeOK /\ HoldersOwn /\ Exclusive)
<1> DEFINE IInv == TypeOK /\ HoldersOwn /\ Exclusive
<1>1. Init => IInv
  BY InitType
     DEF Init, HoldersOwn, Exclusive, NoneExpired, LocksKept, HeldApart, Working,
         InFlight, Idle
<1>2. IInv /\ [Next]_vars => IInv'
  <2> SUFFICES ASSUME TypeOK, HoldersOwn, Exclusive, [Next]_vars
               PROVE  TypeOK' /\ HoldersOwn' /\ Exclusive'
    OBVIOUS
  <2>1. TypeOK' /\ HoldersOwn'
    BY TypeStep, HoldersOwnStep
  <2>2. CASE UNCHANGED vars
    <3>1. Exclusive'
      BY <2>2 DEF vars, Exclusive, NoneExpired, LocksKept, HeldApart, Working, InFlight
    <3> QED
      BY <2>1, <3>1
  <2>3. ASSUME NEW r \in Request,
               \/ Create(r) \/ Enter(r) \/ LockReceived(r) \/ AgentSucceeds(r)
               \/ AgentFails(r) \/ Commit(r) \/ Release(r)
        PROVE  Exclusive'
    BY <2>3, CreateQuiet, EnterExclusive, AnswerQuiet, CommitQuiet, QuietExclusive,
       ReleaseExclusive
  <2>4. CASE Next
    <3>1. ASSUME NEW n \in Name, Expire(n) PROVE FALSE
      BY <3>1 DEF Expire
    <3>2. Exclusive'
      BY <2>3, <2>4, <3>1, SentinelFailoverExclusive, BesideExclusive DEF Next
    <3> QED
      BY <2>1, <3>2
  <2> QED
    BY <2>2, <2>4
<1> QED
  BY <1>1, <1>2, PTL DEF Spec

\* As long as no lock times out and no client shares its session among requests,
\* a handler at work holds every lock it took, and no two handlers are at work
\* in one group: also when create, replicate, delete or a failover change the
\* group's members in between, and across restarts of the server.
THEOREM OperationsExcludeEachOther ==
    ASSUME "expire" \notin Ops, Session = {}
    PROVE  Spec => [](LocksKept /\ GroupsSerialized)
<1>1. Exclusive => LocksKept /\ GroupsSerialized
  BY ExclusiveSerializes DEF Exclusive
<1> QED
  BY <1>1, ExclusiveInvariant, PTL

-----------------------------------------------------------------------------
(* Who rewrites a record: the commits of three operations, each of the      *)
(* record it is about; a promote also of the former master; and a failover. *)

CommitsOwn(r, n) ==
    req[r].op \in {"delete", "promote", "replicate"} /\ req[r].pc = "done" /\ n = req[r].name

CommitsFormer(r, n) ==
    /\ At(r, "promote", "done")
    /\ req[r].name \in DOMAIN instances
    /\ instances[req[r].name].group \in DOMAIN groups
    /\ n = groups[instances[req[r].name].group].currentMaster

LEMMA CommitRewrites ==
    ASSUME TypeOK, NEW r \in Request, Commit(r), NEW n \in DOMAIN instances, Rewritten(n)
    PROVE  /\ CommitsOwn(r, n) \/ CommitsFormer(r, n)
           /\ req'[r] # req[r]
<1>0. /\ \A m \in DOMAIN instances : instances[m] \in Instance
      /\ req[r] \in RequestState
      /\ req \in [Request -> RequestState]
  BY TypeParts DEF InstancesOK, ReqOK
<1>1. ASSUME NEW status, SetStatus(req[r].name, status) PROVE FALSE
  <2>1. CASE req[r].name \in DOMAIN instances
    <3>1. instances' = [instances EXCEPT ![req[r].name].status = status]
      BY <1>1, <2>1 DEF SetStatus, Write
    <3> QED
      BY <1>0, <3>1 DEF Rewritten, Instance
  <2>2. CASE req[r].name \notin DOMAIN instances
    BY <1>1, <2>2 DEF SetStatus, Rewritten
  <2> QED
    BY <2>1, <2>2
<1>2. CASE CreateDone(r) \/ CreateFailed(r) \/ CommitStart(r) \/ CommitStop(r)
  BY <1>1, <1>2 DEF CreateDone, CreateFailed, WriteFails, Rewritten, CommitStart, CommitStop
<1>3. CASE CommitConfig(r) \/ CommitBackup(r) \/ CommitRestore(r)
  BY <1>3 DEF CommitConfig, CommitBackup, CommitRestore, Rewritten
<1>4. ASSUME req[r].pc = "done", Reaches(r, "finished") PROVE req'[r] # req[r]
  <2>1. req'[r] = [req[r] EXCEPT !.pc = "finished"]
    BY <1>0, <1>4 DEF Reaches
  <2>2. req'[r].pc = "finished"
    BY <1>0, <2>1 DEF RequestState
  <2> QED
    BY <1>4, <2>2
<1>5. CASE CommitDelete(r)
  <2>1. instances' = Without(instances, req[r].name)
    BY <1>5 DEF CommitDelete, Write
  <2>2. n = req[r].name
    BY <2>1 DEF Without, Restrict, Rewritten
  <2> QED
    BY <1>4, <1>5, <2>2 DEF CommitDelete, At, CommitsOwn
<1>6. CASE CommitPromote(r)
  <2> DEFINE k == req[r].name
             g == instances[k].group
  <2>1. k \in DOMAIN instances
    BY <1>6 DEF CommitPromote, Rewritten
  <2>2. CASE g \in DOMAIN groups
    <3>1. instances' = Promoted(instances, k, groups[g].currentMaster)
      BY <1>6, <2>1, <2>2 DEF CommitPromote, Write
    <3>2. n \in {k, groups[g].currentMaster}
      BY <3>1 DEF Promoted, Rewritten
    <3> QED
      BY <1>4, <1>6, <2>1, <2>2, <3>2 DEF CommitPromote, At, CommitsOwn, CommitsFormer
  <2>3. CASE g \notin DOMAIN groups
    <3>1. instances' = Promoted(instances, k, k)
      BY <1>6, <2>1, <2>3 DEF CommitPromote, Write
    <3>2. n = k
      BY <3>1 DEF Promoted, Rewritten
    <3> QED
      BY <1>4, <1>6, <3>2 DEF CommitPromote, At, CommitsOwn
  <2> QED
    BY <2>2, <2>3
<1>7. CASE CommitReplicate(r)
  <2> DEFINE k == req[r].name
             m == req[r].target
             g == IF m \in DOMAIN instances THEN instances[m].group ELSE NONE
  <2>1. instances' = [instances EXCEPT ![k].role = "replica", ![k].replicaOf = m, ![k].group = g]
    BY <1>7 DEF CommitReplicate, Write, Rewritten
  <2> HIDE DEF m, g
  <2>2. n = k
    BY <2>1 DEF Rewritten
  <2> QED
    BY <1>4, <1>7, <2>2 DEF CommitReplicate, At, CommitsOwn
<1> QED
  BY <1>2, <1>3, <1>5, <1>6, <1>7 DEF Commit

\* Everything else leaves roles, groups and replica_of alone.
LEMMA RewriteCases ==
    ASSUME TypeOK, Next, NEW n \in DOMAIN instances, Rewritten(n)
    PROVE  \/ \E r \in Request : /\ CommitsOwn(r, n) \/ CommitsFormer(r, n)
                                 /\ req'[r] # req[r]
           \/ /\ UNCHANGED req
              /\ Lockable(instances[n], NONE) \/ Stray(n)
<1>0. \A m \in DOMAIN instances : instances[m] \in Instance
  BY TypeParts DEF InstancesOK
<1> DEFINE Same == /\ n \in DOMAIN instances'
                   /\ instances'[n].role = instances[n].role
                   /\ instances'[n].group = instances[n].group
                   /\ instances'[n].replicaOf = instances[n].replicaOf
<1>1. ASSUME Same PROVE FALSE
  BY <1>1 DEF Rewritten
<1>2. ASSUME NEW r \in Request, Create(r) PROVE FALSE
  <2>1. ASSUME NEW k, NEW i, instances' = Put(instances, k, i), k \notin DOMAIN instances
        PROVE  FALSE
    BY <1>1, <2>1 DEF Put
  <2>2. ASSUME NEW k \in Name, NEW g \in Group, NEW s \in Server,
               NEW type \in {"standalone", "replication"}, CreateMaster(r, k, g, s, type)
        PROVE  FALSE
    BY <2>1, <2>2 DEF CreateMaster, Write
  <2>3. ASSUME NEW k \in Name, NEW m \in Name, NEW s \in Server, CreateReplica(r, k, m, s)
        PROVE  FALSE
    BY <2>1, <2>3 DEF CreateReplica, Write
  <2> QED
    BY <1>2, <2>2, <2>3 DEF Create
<1>3. ASSUME NEW S, NEW h, instances' = AcquireAll(instances, S, h) PROVE FALSE
  BY <1>0, <1>1, <1>3 DEF AcquireAll, Acquired, Instance
<1>4. ASSUME NEW r \in Request, Enter(r) \/ LockReceived(r) PROVE FALSE
  <2>1. ASSUME NEW op, NEW k, NEW t, NEW h, NEW pc, TakeLocks(r, op, k, t, h, pc) PROVE FALSE
    BY <1>3, <2>1 DEF TakeLocks
  <2>2. ASSUME instances' = instances PROVE FALSE
    BY <1>1, <2>2
  <2>3. ASSUME NEW k \in Name, NEW h \in Sessions(r),
               \/ \E op \in Ops : Begin(r, op, k, h)
               \/ BeginBackup(r, k, h)
               \/ BeginPromote(r, k, h)
               \/ BeginDelete(r, k, h)
               \/ CheckStop(r, k, h)
               \/ \E m \in Name : ResolveReplicate(r, k, m, h)
        PROVE  FALSE
    BY <2>1, <2>2, <2>3 DEF Begin, BeginBackup, BeginPromote, BeginDelete, CheckStop,
                            ResolveReplicate
  <2> QED
    BY <1>4, <2>1, <2>2, <2>3 DEF Enter, LockReceived
<1>5. ASSUME NEW r \in Request, AgentSucceeds(r) \/ AgentFails(r) PROVE FALSE
  BY <1>1, <1>5 DEF AgentSucceeds, AgentFails
<1>6. ASSUME NEW r \in Request, Release(r) PROVE FALSE
  <2>1. CASE instances' = OrphanAll(instances, {r})
    BY <1>1, <2>1, OrphanEffect
  <2>2. CASE instances' = ReleaseAll(instances, req[r].held, req[r].holder)
    BY <1>0, <1>1, <2>2 DEF ReleaseAll, Released, Instance
  <2> QED
    BY <1>6, <2>1, <2>2, ReleaseCases
<1>7. ASSUME NEW k \in Reconciler, ReconcileRead(k) \/ ReconcileApply(k) PROVE FALSE
  BY <1>0, <1>1, <1>7 DEF ReconcileRead, ReconcileApply, Write, Patched, Instance
<1>8. ASSUME NEW k \in Name, Expire(k) PROVE FALSE
  BY <1>0, <1>1, <1>8 DEF Expire, Instance
<1>9. CASE Restart
  BY <1>1, <1>9, OrphanEffect DEF Restart
<1>10. ASSUME NEW g \in Group, NEW k \in Name, SentinelFailover(g, k)
       PROVE  UNCHANGED req /\ (Lockable(instances[n], NONE) \/ Stray(n))
  <2>1. UNCHANGED req
    BY <1>10 DEF SentinelFailover
  <2>2. CASE instances[n].group = g
    BY <1>10, <2>2 DEF SentinelFailover, Members
  <2>3. CASE instances[n].group # g
    <3> DEFINE old == groups[g].currentMaster
               is  == [m \in DOMAIN instances |->
                         IF instances[m].group = g THEN [instances[m] EXCEPT !.lock = NONE]
                                                   ELSE instances[m]]
    <3>1. is[n] = instances[n] /\ n # k
      BY <1>10, <2>3 DEF SentinelFailover, Members
    <3>2. instances' = is \/ instances' = [m \in DOMAIN is |-> FailedOver(is[m], m, g, old, k)]
      BY <1>10 DEF SentinelFailover, Write
    <3>3. n = old
      BY <1>1, <2>3, <3>1, <3>2 DEF FailedOver
    <3> QED
      BY <1>10, <2>1, <2>3, <3>3 DEF SentinelFailover, Stray
  <2> QED
    BY <2>1, <2>2, <2>3
<1>11. ASSUME NEW r \in Request, Commit(r)
       PROVE  (CommitsOwn(r, n) \/ CommitsFormer(r, n)) /\ req'[r] # req[r]
  BY <1>11, CommitRewrites
<1> QED
  BY <1>2, <1>4, <1>5, <1>6, <1>7, <1>8, <1>9, <1>10, <1>11 DEF Next

-----------------------------------------------------------------------------
(* Nobody moves between groups.  Then also locks that time out, shared        *)
(* sessions and restarts leave each group to one session at a time.           *)

NobodyMoves == \A r \in Request : req[r].op # "replicate"

LEMMA NobodyMovesStep ==
    ASSUME "replicate" \notin Ops, TypeOK, NobodyMoves, Next
    PROVE  NobodyMoves'
<1>0. req \in [Request -> RequestState]
  BY TypeParts DEF ReqOK
<1>1. ASSUME NEW r \in Request, NEW q \in RequestState, q.op # "replicate",
             req' = [req EXCEPT ![r] = q]
      PROVE  NobodyMoves'
  BY <1>0, <1>1 DEF NobodyMoves
<1>2. ASSUME NEW r \in Request, Ends(r) PROVE NobodyMoves'
  BY <1>0, <1>2 DEF Ends, Idle, NobodyMoves
<1>3. ASSUME NEW r \in Request, NEW pc, Reaches(r, pc) PROVE NobodyMoves'
  BY <1>0, <1>3 DEF Reaches, RequestState, NobodyMoves
<1>4. ASSUME NEW r \in Request, NEW op, NEW n, NEW t, NEW h, NEW pc,
             TakeLocks(r, op, n, t, h, pc), op # "replicate"
      PROVE  NobodyMoves'
  BY <1>0, <1>4 DEF TakeLocks, NobodyMoves
<1>5. ASSUME NEW r \in Request, Create(r) PROVE NobodyMoves'
  <2>1. PICK n \in Name : StartCreating(r, n)
    BY <1>5 DEF Create, CreateMaster, CreateReplica
  <2> QED
    BY <1>0, <2>1 DEF StartCreating, Idle, NobodyMoves
<1>6. ASSUME NEW r \in Request, Enter(r) PROVE NobodyMoves'
  <2>1. PICK n \in Name, h \in Sessions(r) :
          \/ \E op \in Ops : Begin(r, op, n, h)
          \/ BeginBackup(r, n, h)
          \/ BeginPromote(r, n, h)
          \/ BeginDelete(r, n, h)
          \/ CheckStop(r, n, h)
          \/ \E m \in Name : ResolveReplicate(r, n, m, h)
    BY <1>6 DEF Enter
  <2>2. CASE CheckStop(r, n, h)
    BY <1>0, <2>2 DEF CheckStop, Idle, NobodyMoves
  <2>3. ASSUME NEW m \in Name, ResolveReplicate(r, n, m, h) PROVE FALSE
    BY <2>3 DEF ResolveReplicate
  <2>4. ASSUME NEW op \in Ops, Begin(r, op, n, h) PROVE NobodyMoves'
    BY <1>4, <2>4 DEF Begin
  <2>5. CASE BeginBackup(r, n, h)
    BY <1>4, <2>5 DEF BeginBackup
  <2>6. CASE BeginPromote(r, n, h)
    BY <1>4, <2>6 DEF BeginPromote
  <2>7. CASE BeginDelete(r, n, h)
    BY <1>4, <2>7 DEF BeginDelete
  <2> QED
    BY <2>1, <2>2, <2>3, <2>4, <2>5, <2>6, <2>7
<1>7. ASSUME NEW r \in Request, LockReceived(r) PROVE NobodyMoves'
  BY <1>2, <1>4, <1>7 DEF LockReceived, NobodyMoves
<1>8. ASSUME NEW r \in Request, AgentSucceeds(r) \/ AgentFails(r) PROVE NobodyMoves'
  BY <1>3, <1>8 DEF AgentSucceeds, AgentFails
<1>9. ASSUME NEW r \in Request, Commit(r) PROVE NobodyMoves'
  <2>1. Ends(r) \/ Reaches(r, "finished")
    BY <1>9 DEF Commit, CreateDone, CreateFailed, CommitDelete, CommitStart, CommitStop,
                CommitConfig, CommitBackup, CommitRestore, CommitPromote, CommitReplicate
  <2> QED
    BY <1>2, <1>3, <2>1
<1>10. ASSUME NEW r \in Request, Release(r) PROVE NobodyMoves'
  BY <1>2, <1>10 DEF Release
<1>11. ASSUME UNCHANGED req PROVE NobodyMoves'
  BY <1>11 DEF NobodyMoves
<1>12. CASE Restart
  BY <1>12 DEF Restart, Idle, NobodyMoves
<1>13. CASE \/ \E g \in Group, n \in Name : SentinelFailover(g, n)
            \/ \E k \in Reconciler : ReconcileRead(k) \/ ReconcileApply(k)
            \/ \E n \in Name : Expire(n)
  BY <1>11, <1>13 DEF SentinelFailover, ReconcileRead, ReconcileApply, Expire
<1> QED
  BY <1>5, <1>6, <1>7, <1>8, <1>9, <1>10, <1>12, <1>13 DEF Next

\* A step that gives no lock to anybody and moves nobody who has one.
LocksOnlyGo ==
    \A n \in DOMAIN instances' : instances'[n].lock # NONE =>
        /\ n \in DOMAIN instances
        /\ instances'[n].group = instances[n].group
        /\ instances[n].lock # NONE
        /\ instances'[n].lock.heldBy = instances[n].lock.heldBy

LEMMA OneSessionKept ==
    ASSUME OneSessionPerGroup, LocksOnlyGo
    PROVE  OneSessionPerGroup'
  BY DEF OneSessionPerGroup, LocksOnlyGo

\* All members of the group are locked together or none is.
LEMMA TakeLocksOneSession ==
    ASSUME TypeOK, OneSessionPerGroup, NEW r \in Request, NEW op \in AllOps,
           NEW n \in DOMAIN instances, NEW t \in Name \cup {NONE}, NEW h \in Sessions(r),
           NEW pc \in {"locked", "finished"},
           CanLock(n, h), TakeLocks(r, op, n, t, h, pc)
    PROVE  OneSessionPerGroup'
<1> DEFINE S == InstanceGroup(instances, n)
<1>1. h \in Holder
  BY DEF Sessions, Holder
<1>2. /\ n \in S
      /\ DOMAIN instances' = DOMAIN instances
      /\ \A m \in DOMAIN instances : instances'[m].group = instances[m].group
      /\ \A m \in S : instances'[m].lock # NONE /\ instances'[m].lock.heldBy = h
      /\ \A m \in DOMAIN instances \ S : instances'[m] = instances[m]
  BY <1>1, TakeLocksEffect
<1>3. ASSUME NEW k \in DOMAIN instances, NEW m \in DOMAIN instances,
             instances[k].group = instances[m].group, instances[m].group # NONE
      PROVE  k \in S <=> m \in S
  BY <1>2, <1>3 DEF InstanceGroup, Members, S
<1> HIDE DEF S
<1> QED
  BY <1>2, <1>3 DEF OneSessionPerGroup

\* Then a commit may delete a record, but leaves every other with its lock and
\* in its group.
LEMMA CommitMovesNobody ==
    ASSUME TypeOK, NobodyMoves, NEW r \in Request, Commit(r), NEW n \in DOMAIN instances'
    PROVE  /\ n \in DOMAIN instances
           /\ instances'[n].group = instances[n].group
           /\ instances'[n].lock = instances[n].lock
<1>0. \A m \in DOMAIN instances : instances[m] \in Instance
  BY TypeParts DEF InstancesOK
<1>1. CASE CreateDone(r) \/ CreateFailed(r) \/ CommitStart(r) \/ CommitStop(r)
  BY <1>1, SetStatusLocks, CreateWrites DEF CommitStart, CommitStop
<1>2. CASE CommitConfig(r) \/ CommitBackup(r) \/ CommitRestore(r)
  BY <1>2 DEF CommitConfig, CommitBackup, CommitRestore
<1>3. CASE CommitDelete(r)
  <2>1. instances' = Without(instances, req[r].name)
    BY <1>3 DEF CommitDelete, Write
  <2> QED
    BY <2>1 DEF Without, Restrict
<1>4. CASE CommitPromote(r)
  <2>1. instances' = instances \/ \E old : instances' = Promoted(instances, req[r].name, old)
    BY <1>4 DEF CommitPromote, Write
  <2>2. ASSUME NEW old
        PROVE  LET is == Promoted(instances, req[r].name, old)
               IN  /\ DOMAIN is = DOMAIN instances
                   /\ \A m \in DOMAIN instances : /\ is[m].lock = instances[m].lock
                                                  /\ is[m].group = instances[m].group
    BY <1>0 DEF Promoted, Instance
  <2> QED
    BY <2>1, <2>2
<1>5. ~CommitReplicate(r)
  BY DEF CommitReplicate, At, NobodyMoves
<1> QED
  BY <1>1, <1>2, <1>3, <1>4, <1>5 DEF Commit

LEMMA CommitOneSession ==
    ASSUME TypeOK, NobodyMoves, OneSessionPerGroup, NEW r \in Request, Commit(r)
    PROVE  OneSessionPerGroup'
  BY CommitMovesNobody, OneSessionKept DEF LocksOnlyGo

\* What a failover drags in is alone with its lock: all others have lost theirs.
LEMMA SentinelFailoverOneSession ==
    ASSUME TypeOK, OneSessionPerGroup, NEW g \in Group, NEW k \in Name, SentinelFailover(g, k)
    PROVE  OneSessionPerGroup'
<1> DEFINE old == groups[g].currentMaster
           is  == [m \in DOMAIN instances |->
                     IF instances[m].group = g THEN [instances[m] EXCEPT !.lock = NONE]
                                               ELSE instances[m]]
           over == [m \in DOMAIN is |-> FailedOver(is[m], m, g, old, k)]
<1>0. \A m \in DOMAIN instances : instances[m] \in Instance
  BY TypeParts DEF InstancesOK
<1>1. instances' = is \/ instances' = over
  BY DEF SentinelFailover, Write
<1>2. /\ DOMAIN is = DOMAIN instances
      /\ \A m \in DOMAIN instances :
           /\ is[m] \in Instance
           /\ is[m].group = instances[m].group
           /\ instances[m].group = g => is[m].lock = NONE
           /\ instances[m].group # g => is[m].lock = instances[m].lock
  BY <1>0, NoneIsNoRecord DEF Instance
<1> HIDE DEF is
<1>3. /\ DOMAIN over = DOMAIN instances
      /\ \A m \in DOMAIN instances :
           /\ over[m].lock = is[m].lock
           /\ m # old => over[m].group = instances[m].group
           /\ over[m].group \in {g, instances[m].group}
  BY <1>2 DEF FailedOver, Instance
<1> HIDE DEF over, old
<1>4. /\ DOMAIN instances' = DOMAIN instances
      /\ \A m \in DOMAIN instances :
           /\ instances[m].group = g => instances'[m].lock = NONE
           /\ instances[m].group # g => instances'[m].lock = instances[m].lock
           /\ m # old => instances'[m].group = instances[m].group
           /\ instances'[m].group \in {g, instances[m].group}
  BY <1>1, <1>2, <1>3
<1> QED
  BY <1>4 DEF OneSessionPerGroup

LEMMA BesideOneSession ==
    ASSUME TypeOK, OneSessionPerGroup,
           \/ \E k \in Reconciler : ReconcileRead(k) \/ ReconcileApply(k)
           \/ \E n \in Name : Expire(n)
           \/ Restart
    PROVE  OneSessionPerGroup'
<1>0. \A m \in DOMAIN instances : instances[m] \in Instance
  BY TypeParts DEF InstancesOK
<1>1. ASSUME NEW k \in Reconciler, ReconcileRead(k) \/ ReconcileApply(k)
      PROVE  OneSessionPerGroup'
  BY <1>0, <1>1, OneSessionKept
     DEF ReconcileRead, ReconcileApply, Write, Patched, Instance, LocksOnlyGo
<1>2. ASSUME NEW n \in Name, Expire(n) PROVE OneSessionPerGroup'
  <2>1. n \in DOMAIN instances /\ instances[n].lock \in Lock
    BY <1>0, <1>2 DEF Expire, Instance
  <2>2. /\ instances'[n].lock.heldBy = instances[n].lock.heldBy
        /\ instances'[n].group = instances[n].group
        /\ instances[n].lock # NONE
        /\ DOMAIN instances' = DOMAIN instances
        /\ \A m \in DOMAIN instances \ {n} : instances'[m] = instances[m]
    BY <1>0, <1>2, <2>1 DEF Expire, Instance, Lock
  <2> QED
    BY <2>2, OneSessionKept DEF LocksOnlyGo
<1>3. CASE Restart
  BY <1>3, OrphanEffect DEF Restart, OneSessionPerGroup
<1> QED
  BY <1>1, <1>2, <1>3

LEMMA OneSessionInvariant ==
    ASSUME "replicate" \notin Ops
    PROVE  Spec => [](TypeOK /\ HoldersOwn /\ NobodyMoves /\ OneSessionPerGroup)
<1> DEFINE IInv == TypeOK /\ HoldersOwn /\ NobodyMoves /\ OneSessionPerGroup
<1>1. Init => IInv
  BY InitType DEF Init, HoldersOwn, Idle, NobodyMoves, OneSessionPerGroup
<1>2. IInv /\ [Next]_vars => IInv'
  <2> SUFFICES ASSUME TypeOK, HoldersOwn, NobodyMoves, OneSessionPerGroup, [Next]_vars
               PROVE  TypeOK' /\ HoldersOwn' /\ NobodyMoves' /\ OneSessionPerGroup'
    OBVIOUS
  <2>0. \A m \in DOMAIN instances : instances[m] \in Instance
    BY TypeParts DEF InstancesOK
  <2>1. TypeOK' /\ HoldersOwn'
    BY TypeStep, HoldersOwnStep
  <2>2. CASE UNCHANGED vars
    BY <2>1, <2>2 DEF vars, NobodyMoves, OneSessionPerGroup
  <2>3. ASSUME UNCHANGED instances PROVE OneSessionPerGroup'
    BY <2>3 DEF OneSessionPerGroup
  <2>4. ASSUME NEW r \in Request, Create(r) PROVE OneSessionPerGroup'
    <3>1. req[r] = Idle
      BY <2>4 DEF Create, CreateMaster, CreateReplica
    <3>2. ~Working(r) /\ Quiet(r)
      BY <2>4, <3>1, CreateQuiet DEF Idle, Working, InFlight
    <3> QED
      BY <3>2, OneSessionKept DEF Quiet, LocksOnlyGo
  <2>5. ASSUME NEW r \in Request, Enter(r) \/ LockReceived(r) PROVE OneSessionPerGroup'
    BY <2>3, <2>5, EnterCases, LockReceivedCases, TakeLocksOneSession
  <2>6. ASSUME NEW r \in Request, AgentSucceeds(r) \/ AgentFails(r) PROVE OneSessionPerGroup'
    BY <2>3, <2>6 DEF AgentSucceeds, AgentFails
  <2>7. ASSUME NEW r \in Request, Release(r) PROVE OneSessionPerGroup'
    <3>1. CASE instances' = ReleaseAll(instances, req[r].held, req[r].holder)
      BY <2>0, <3>1, OneSessionKept DEF ReleaseAll, Released, Instance, LocksOnlyGo
    <3>2. CASE instances' = OrphanAll(instances, {r})
      BY <3>2, OrphanEffect DEF OneSessionPerGroup
    <3> QED
      BY <2>7, <3>1, <3>2, ReleaseCases
  <2>8. CASE Next
    <3>1. NobodyMoves'
      BY <2>8, NobodyMovesStep
    <3>2. OneSessionPerGroup'
      BY <2>4, <2>5, <2>6, <2>7, <2>8, CommitOneSession, SentinelFailoverOneSession,
         BesideOneSession DEF Next
    <3> QED
      BY <2>1, <3>1, <3>2
  <2> QED
    BY <2>2, <2>8
<1> QED
  BY <1>1, <1>2, PTL DEF Spec

\* Without replicate, no two sessions ever hold locks in one group: also when
\* locks time out one by one, sessions are shared and the server restarts.
THEOREM GroupsHaveOneSession ==
    ASSUME "replicate" \notin Ops
    PROVE  Spec => []OneSessionPerGroup
  BY OneSessionInvariant, PTL

\* A handler that still has the lock of its instance commits under the session
\* that holds what it rewrites: the former master is in the same group.
LEMMA CommitterHolds ==
    ASSUME TypeOK, OneSessionPerGroup, NEW n \in DOMAIN instances, instances[n].lock # NONE,
           NEW r \in Request, CommitsOwn(r, n) \/ CommitsFormer(r, n),
           StillLocks(r), ~Stray(n)
    PROVE  req[r].holder = instances[n].lock.heldBy
<1>1. CASE CommitsOwn(r, n)
  BY <1>1 DEF CommitsOwn, StillLocks
<1>2. CASE CommitsFormer(r, n)
  <2> DEFINE g == instances[req[r].name].group
  <2>1. g # NONE
    BY <1>2, TypeParts, NoneIsNoValue DEF CommitsFormer, GroupsOK
  <2>2. instances[n].group = g
    BY <1>2 DEF CommitsFormer, Stray
  <2> QED
    BY <2>1, <2>2 DEF StillLocks, OneSessionPerGroup
<1> QED
  BY <1>1, <1>2

\* A commit by a handler that still has the lock of its instance leaves alone
\* what another session has locked, stray masters excepted.
LEMMA OvertakenStep ==
    ASSUME TypeOK, OneSessionPerGroup, [Next]_vars,
           NEW n \in DOMAIN instances, RewrittenLocked(n)
    PROVE  \/ Stray(n)
           \/ \E r \in Request :
                /\ req[r] # req'[r]
                /\ req[r].holder = instances[n].lock.heldBy \/ ~StillLocks(r)
<1>1. instances[n].lock \in Lock /\ instances[n].lock.heldBy # NONE
  <2>1. instances[n].lock \in Lock
    BY TypeParts DEF InstancesOK, Instance, RewrittenLocked
  <2> QED
    BY <2>1, NoneIsNoValue DEF Lock
<1>2. ~UNCHANGED vars
  BY DEF vars, RewrittenLocked, Rewritten
<1>3. ~Lockable(instances[n], NONE)
  BY <1>1 DEF Lockable, RewrittenLocked
<1>4. ASSUME NEW r \in Request, CommitsOwn(r, n) \/ CommitsFormer(r, n),
             StillLocks(r), ~Stray(n)
      PROVE  req[r].holder = instances[n].lock.heldBy
  BY <1>4, CommitterHolds DEF RewrittenLocked
<1> QED
  BY <1>2, <1>3, <1>4, RewriteCases DEF RewrittenLocked

\* Without replicate, in every interleaving and whatever times out, crashes or
\* shares a session: only a handler that has lost the lock of its own instance
\* can rewrite what another session has validly locked, stray masters excepted.
THEOREM TimeoutsAloneLetOthersIn ==
    ASSUME "replicate" \notin Ops
    PROVE  Spec => OnlyTheOvertakenInterfere
<1>1. ASSUME TypeOK, OneSessionPerGroup, [Next]_vars
      PROVE  \A n \in DOMAIN instances : RewrittenLocked(n) =>
               \/ Stray(n)
               \/ \E r \in Request :
                    /\ req[r] # req'[r]
                    /\ req[r].holder = instances[n].lock.heldBy \/ ~StillLocks(r)
  BY <1>1, OvertakenStep
<1> QED
  BY <1>1, OneSessionInvariant, PTL DEF OnlyTheOvertakenInterfere, Spec

-----------------------------------------------------------------------------
(* Handlers undisturbed.                                                      *)

\* Nothing that one handler has locked is in the reach of another's commit.
LEMMA UndisturbedStep ==
    ASSUME Session = {}, TypeOK, HoldersOwn, Exclusive, [Next]_vars,
           NEW r \in Request, Working(r), req'[r] = req[r],
           NEW n \in req[r].held, ~Stray(n)
    PROVE  ~Rewritten(n)
<1> SUFFICES ASSUME Rewritten(n) PROVE FALSE
  OBVIOUS
<1>1. n \in DOMAIN instances /\ instances[n].lock # NONE /\ instances[n].lock.heldBy = r
  BY WorkingHolds DEF Exclusive
<1>2. ~UNCHANGED vars
  BY <1>1 DEF vars, Rewritten
<1>3. ~Lockable(instances[n], NONE)
  BY <1>1, NoneIsNoValue DEF Lockable, Exclusive, NoneExpired, Holder
<1>4. ASSUME NEW s \in Request, s # r, CommitsOwn(s, n) PROVE FALSE
  <2>1. Working(s) /\ n = req[s].name
    BY <1>4 DEF CommitsOwn, Working, InFlight
  <2> QED
    BY <1>4, <2>1, WorkingHolds, WorkingApart DEF Exclusive
<1>5. ASSUME NEW s \in Request, s # r, CommitsFormer(s, n) PROVE FALSE
  <2> DEFINE g == instances[req[s].name].group
  <2>1. Working(s)
    BY <1>5 DEF CommitsFormer, At, Working, InFlight
  <2>2. g # NONE
    BY <1>5, TypeParts, NoneIsNoValue DEF CommitsFormer, GroupsOK
  <2>3. instances[n].group = g
    BY <1>5 DEF CommitsFormer, Stray
  <2> QED
    BY <1>1, <1>5, <2>1, <2>2, <2>3 DEF CommitsFormer, Exclusive, HeldApart
<1> QED
  BY <1>1, <1>2, <1>3, <1>4, <1>5, RewriteCases

\* While nothing times out and no session is shared, what a handler has locked
\* stays as it found it until it commits, whoever creates, replicates, deletes
\* or fails over beside it; only a stray master may be rewritten.
THEOREM HandlersWorkUndisturbed ==
    ASSUME "expire" \notin Ops, Session = {}
    PROVE  Spec => WorkUndisturbed
<1>1. ASSUME TypeOK, HoldersOwn, Exclusive, [Next]_vars
      PROVE  \A r \in Request : Working(r) /\ req'[r] = req[r] =>
               \A n \in req[r].held : Stray(n) \/ ~Rewritten(n)
  BY <1>1, UndisturbedStep
<1> QED
  BY <1>1, ExclusiveInvariant, PTL DEF WorkUndisturbed, Spec

-----------------------------------------------------------------------------
(* Locks respected.  While nothing times out and no session is shared, every  *)
(* committing handler still has its lock, so that only stray masters are left *)
(* of the exceptions above.  They need a second group, or one an instance has *)
(* left for none.                                                             *)

AllGrouped == \A n \in DOMAIN instances : instances[n].group # NONE

LEMMA AllGroupedStep == ASSUME TypeOK, HoldersOwn, NobodyMoves, AllGrouped, Next PROVE AllGrouped'
<1>0. \A m \in DOMAIN instances : instances[m] \in Instance
  BY TypeParts DEF InstancesOK
<1>1. ASSUME \A n \in DOMAIN instances' : /\ n \in DOMAIN instances
                                          /\ instances'[n].group = instances[n].group
      PROVE  AllGrouped'
  BY <1>1 DEF AllGrouped
<1>2. ASSUME NEW r \in Request, Create(r) PROVE AllGrouped'
  <2>1. ASSUME NEW k \in Name, NEW g \in Group, NEW role, NEW s, NEW m,
               instances' = Put(instances, k, NewInstance(g, role, s, m))
        PROVE  AllGrouped'
    BY <2>1, NoneIsNoValue DEF Put, NewInstance, AllGrouped
  <2>2. ASSUME NEW k \in Name, NEW g \in Group, NEW s \in Server,
               NEW type \in {"standalone", "replication"}, CreateMaster(r, k, g, s, type)
        PROVE  AllGrouped'
    BY <2>1, <2>2 DEF CreateMaster, Write
  <2>3. ASSUME NEW k \in Name, NEW m \in Name, NEW s \in Server, CreateReplica(r, k, m, s)
        PROVE  AllGrouped'
    <3>1. instances[m].group \in Group
      BY <2>3, TypeParts DEF CreateReplica, GroupsOK
    <3>2. instances' = Put(instances, k, NewInstance(instances[m].group, "replica", s, m))
      BY <2>3 DEF CreateReplica, Write
    <3> QED
      BY <2>1, <3>1, <3>2
  <2> QED
    BY <1>2, <2>2, <2>3 DEF Create
<1>3. ASSUME NEW r \in Request, Enter(r) \/ LockReceived(r) PROVE AllGrouped'
  <2>1. ASSUME NEW op \in AllOps \ {"create"}, NEW k \in DOMAIN instances, NEW h \in Sessions(r),
               NEW t \in Name \cup {NONE}, NEW pc \in {"locked", "finished"},
               CanLock(k, h), TakeLocks(r, op, k, t, h, pc)
        PROVE  AllGrouped'
    <3>1. h \in Holder
      BY DEF Sessions, Holder
    <3> QED
      BY <1>1, <2>1, <3>1, TakeLocksEffect
  <2>2. ASSUME UNCHANGED instances PROVE AllGrouped'
    BY <1>1, <2>2
  <2> QED
    BY <1>3, <2>1, <2>2, EnterCases, LockReceivedCases
<1>4. ASSUME NEW r \in Request, AgentSucceeds(r) \/ AgentFails(r) PROVE AllGrouped'
  BY <1>1, <1>4 DEF AgentSucceeds, AgentFails
<1>5. ASSUME NEW r \in Request, Commit(r) PROVE AllGrouped'
  BY <1>1, <1>5, CommitMovesNobody
<1>6. ASSUME NEW r \in Request, Release(r) PROVE AllGrouped'
  BY <1>1, <1>6, ReleaseEffect
<1>7. ASSUME NEW g \in Group, NEW k \in Name, SentinelFailover(g, k) PROVE AllGrouped'
  <2> DEFINE old == groups[g].currentMaster
             is  == [m \in DOMAIN instances |->
                       IF instances[m].group = g THEN [instances[m] EXCEPT !.lock = NONE]
                                                 ELSE instances[m]]
             over == [m \in DOMAIN is |-> FailedOver(is[m], m, g, old, k)]
  <2>1. instances' = is \/ instances' = over
    BY <1>7 DEF SentinelFailover, Write
  <2>2. /\ DOMAIN is = DOMAIN instances
        /\ \A m \in DOMAIN instances : is[m] \in Instance /\ is[m].group = instances[m].group
    BY <1>0 DEF Instance
  <2> HIDE DEF is, old
  <2>3. /\ DOMAIN over = DOMAIN instances
        /\ \A m \in DOMAIN instances : over[m].group \in {g, instances[m].group}
    BY <2>2 DEF FailedOver, Instance
  <2> HIDE DEF over
  <2> QED
    BY <2>1, <2>2, <2>3, NoneIsNoValue DEF AllGrouped
<1>8. ASSUME NEW k \in Reconciler, ReconcileRead(k) \/ ReconcileApply(k) PROVE AllGrouped'
  BY <1>0, <1>1, <1>8 DEF ReconcileRead, ReconcileApply, Write, Patched, Instance
<1>9. ASSUME NEW k \in Name, Expire(k) PROVE AllGrouped'
  BY <1>0, <1>1, <1>9 DEF Expire, Instance
<1>10. CASE Restart
  BY <1>1, <1>10, OrphanEffect DEF Restart
<1> QED
  BY <1>2, <1>3, <1>4, <1>5, <1>6, <1>7, <1>8, <1>9, <1>10 DEF Next

LEMMA AllGroupedInvariant ==
    ASSUME "replicate" \notin Ops
    PROVE  Spec => [](TypeOK /\ HoldersOwn /\ NobodyMoves /\ AllGrouped)
<1> DEFINE IInv == TypeOK /\ HoldersOwn /\ NobodyMoves /\ AllGrouped
<1>1. Init => IInv
  BY InitType DEF Init, HoldersOwn, Idle, NobodyMoves, AllGrouped
<1>2. IInv /\ [Next]_vars => IInv'
  <2> SUFFICES ASSUME IInv, [Next]_vars PROVE IInv'
    OBVIOUS
  <2>1. TypeOK' /\ HoldersOwn'
    BY TypeStep, HoldersOwnStep
  <2>2. CASE Next
    BY <2>1, <2>2, NobodyMovesStep, AllGroupedStep
  <2>3. CASE UNCHANGED vars
    BY <2>1, <2>3 DEF vars, NobodyMoves, AllGrouped
  <2> QED
    BY <2>2, <2>3
<1> QED
  BY <1>1, <1>2, PTL DEF Spec

LEMMA RespectedStep ==
    ASSUME TypeOK, Exclusive, OneSessionPerGroup, [Next]_vars,
           NEW n \in DOMAIN instances, RewrittenLocked(n), ~Stray(n)
    PROVE  \E r \in Request : /\ req[r].holder = instances[n].lock.heldBy
                              /\ req[r] # req'[r]
<1>1. instances[n].lock.heldBy # NONE
  <2>1. instances[n].lock \in Lock
    BY TypeParts DEF InstancesOK, Instance, RewrittenLocked
  <2> QED
    BY <2>1, NoneIsNoValue DEF Lock
<1>2. ~UNCHANGED vars
  BY DEF vars, RewrittenLocked, Rewritten
<1>3. ~Lockable(instances[n], NONE)
  BY <1>1 DEF Lockable, RewrittenLocked
<1>4. ASSUME NEW r \in Request, CommitsOwn(r, n) \/ CommitsFormer(r, n)
      PROVE  StillLocks(r)
  <2>1. Working(r)
    BY <1>4 DEF CommitsOwn, CommitsFormer, At, Working, InFlight
  <2> QED
    BY <2>1 DEF Exclusive, LocksKept, StillLocks
<1>5. instances[n].lock # NONE
  BY DEF RewrittenLocked
<1> QED
  BY <1>2, <1>3, <1>4, <1>5, CommitterHolds, RewriteCases DEF RewrittenLocked

\* Within one group, while nothing times out, no session is shared and no
\* instance is moved by replicate: nobody but its holder deletes a validly
\* locked record or changes its role, group or replica_of.
THEOREM LocksAreRespected ==
    ASSUME OneGroup, "replicate" \notin Ops, "expire" \notin Ops, Session = {}
    PROVE  Spec => LockRespected
<1>1. ASSUME TypeOK, AllGrouped, NEW n \in DOMAIN instances PROVE ~Stray(n)
  <2>1. DOMAIN groups \subseteq Group /\ instances[n].group \in Group
    BY <1>1, TypeParts DEF GroupsOK, InstancesOK, Instance, AllGrouped
  <2> QED
    BY <2>1 DEF Stray, OneGroup
<1>2. ASSUME TypeOK, AllGrouped, Exclusive, OneSessionPerGroup, [Next]_vars
      PROVE  \A n \in DOMAIN instances : RewrittenLocked(n) =>
               \E r \in Request : /\ req[r].holder = instances[n].lock.heldBy
                                  /\ req[r] # req'[r]
  BY <1>1, <1>2, RespectedStep
<1> QED
  BY <1>2, AllGroupedInvariant, ExclusiveInvariant, OneSessionInvariant, PTL
     DEF LockRespected, Spec

=============================================================================
