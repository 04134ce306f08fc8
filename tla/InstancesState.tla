------------------------- MODULE InstancesState -------------------------
(***************************************************************************)
(* The contents of instances-state.yaml and the pure functions the server  *)
(* applies to them inside one WithInstances transaction: operation locks,  *)
(* instance groups, the derived topology status, and port allocation.      *)
(*                                                                         *)
(* A Go map is a function whose domain is the set of keys present: `is`    *)
(* always stands for InstancesState.Instances and `gs` for                 *)
(* InstancesState.Groups.  Strings are model values, "" is NONE.           *)
(*                                                                         *)
(* Definitions named Faulty... are variants with one plausible mistake;    *)
(* no specification uses them.  They show that a property can fail.        *)
(***************************************************************************)
EXTENDS Naturals, FiniteSetsExt, Functions

CONSTANTS
    Name,        \* instance names
    Group,       \* group names
    Server,      \* servers registered in the pool
    RedisPort,   \* ports.redis of the configuration
    EnvoyMaster, \* ports.envoy_master
    EnvoyAuto,   \* ports.envoy_auto
    Request,     \* request handlers that can be in flight at once
    Session,     \* X-Session-ID values that clients may share
    Lost,        \* the holder of locks left by a crash or a failed release
    NONE         \* the empty string, the nil pointer

\* A handler without X-Session-ID locks under an identifier of its own, here
\* the request itself.
Holder == Request \cup Session \cup {Lost}

ASSUME PortsAreNumbers ==
    /\ RedisPort \subseteq Nat
    /\ EnvoyMaster \subseteq Nat
    /\ EnvoyAuto \subseteq Nat \ {0}

ASSUME NoneIsNoValue == NONE \notin Name \cup Group \cup Server \cup Holder

ASSUME HoldersDiffer == /\ Lost \notin Request \cup Session
                        /\ Request \cap Session = {}

ASSUME NoneIsNoRecord == \A h \in Holder, e \in BOOLEAN :
                            NONE # [heldBy |-> h, expired |-> e]

-----------------------------------------------------------------------------
(* The records of the file. *)

Status == {"creating", "running", "stopped", "failed", "unexpected_stopped"}

\* `expired` abstracts acquired_at and timeout: it is the result of the
\* comparison with the clock, which time turns from FALSE to TRUE.
Lock == [heldBy : Holder, expired : BOOLEAN]

Instance == [group     : Group \cup {NONE},
             role      : {"master", "replica"},
             server    : Server,
             port      : RedisPort,
             replicaOf : Name \cup {NONE},
             status    : Status,
             lock      : Lock \cup {NONE}]

GroupState == [type          : {"standalone", "replication"},
               currentMaster : Name,
               topology      : {"healthy", "degraded"},
               masterPort    : EnvoyMaster,
               autoPort      : EnvoyAuto \cup {0}]

-----------------------------------------------------------------------------
(* Maps: insertion and deletion of a key. *)

Put(f, k, v) == [x \in DOMAIN f \cup {k} |-> IF x = k THEN v ELSE f[x]]

Without(f, k) == Restrict(f, DOMAIN f \ {k})

-----------------------------------------------------------------------------
(* Operation locks. *)

\* TryAcquireLock succeeds: no lock, the caller's own, or one past its timeout.
FaultyLockableAlways(inst, h) == TRUE

Lockable(inst, h) ==
    inst.lock # NONE => inst.lock.heldBy = h \/ inst.lock.expired

\* Its effect: a reentrant acquisition keeps the old lock, age included.
Acquired(inst, h) ==
    IF inst.lock # NONE /\ inst.lock.heldBy = h
    THEN inst
    ELSE [inst EXCEPT !.lock = [heldBy |-> h, expired |-> FALSE]]

\* ReleaseLock clears the lock of its holder only.
Released(inst, h) ==
    IF inst.lock # NONE /\ inst.lock.heldBy = h
    THEN [inst EXCEPT !.lock = NONE]
    ELSE inst

\* The loops over a group's names: names no longer in the map are skipped.
AcquireAll(is, S, h) ==
    [n \in DOMAIN is |-> IF n \in S THEN Acquired(is[n], h) ELSE is[n]]

ReleaseAll(is, S, h) ==
    [n \in DOMAIN is |-> IF n \in S THEN Released(is[n], h) ELSE is[n]]

-----------------------------------------------------------------------------
(* Groups and their derived topology status. *)

Members(is, g) == {n \in DOMAIN is : is[n].group = g}

\* The names locked together with n.
FaultyInstanceGroup(is, n) == {n}

InstanceGroup(is, n) ==
    IF n \in DOMAIN is /\ is[n].group # NONE
    THEN Members(is, is[n].group)
    ELSE {n}

Topology(is, group, g) ==
    LET running(n) == is[n].status = "running"
        master     == \E n \in Members(is, g) : /\ n = group.currentMaster
                                                /\ is[n].role = "master"
                                                /\ running(n)
        replica    == \E n \in Members(is, g) : is[n].role = "replica" /\ running(n)
    IN  IF master /\ (group.type = "replication" => replica)
        THEN "healthy" ELSE "degraded"

RecalculateGroupTopology(is, gs, g) ==
    IF g \in DOMAIN gs
    THEN [gs EXCEPT ![g].topology = Topology(is, gs[g], g)]
    ELSE gs

-----------------------------------------------------------------------------
(* Port allocation: the first number of the range that no record uses. *)

FaultyFreeRedisPortsPastEnd(is, s) ==
    (RedisPort \cup {Max(RedisPort) + 1})
        \ {is[n].port : n \in {m \in DOMAIN is : is[m].server = s}}

FaultyFreeRedisPorts(is, s) ==
    RedisPort \ {is[n].port : n \in {m \in DOMAIN is : /\ is[m].server = s
                                                       /\ is[m].status # "failed"}}

FreeRedisPorts(is, s) ==
    RedisPort \ {is[n].port : n \in {m \in DOMAIN is : is[m].server = s}}

FreeMasterPorts(gs) == EnvoyMaster \ {gs[g].masterPort : g \in DOMAIN gs}

FaultyFreeAutoPorts(gs) == EnvoyAuto \ {gs[g].masterPort : g \in DOMAIN gs}

FreeAutoPorts(gs) == EnvoyAuto \ {gs[g].autoPort : g \in DOMAIN gs}

\* allocEnvoyPorts looks for a master port first, wanted or not.
EnvoyPortsAvailable(gs, withAuto) ==
    /\ FreeMasterPorts(gs) # {}
    /\ withAuto => FreeAutoPorts(gs) # {}

\* A group that becomes a replication group gets an auto port if it has none;
\* a failed allocation is ignored by both callers.
WithAutoPort(gs, g) ==
    IF gs[g].autoPort = 0 /\ EnvoyPortsAvailable(gs, TRUE)
    THEN [gs EXCEPT ![g].autoPort = Min(FreeAutoPorts(gs))]
    ELSE gs

=============================================================================
