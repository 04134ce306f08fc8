-------------------------- MODULE InstanceList --------------------------
(***************************************************************************)
(* What the dashboard makes of the server's answer to /instance/list: the  *)
(* groups, the row of each instance, the status of a group and the power   *)
(* action a row offers.  Pure functions of one listing.                    *)
(*                                                                         *)
(* The server encodes its two maps with their keys in order, so "first"    *)
(* and "last" in the page's loops mean the least and the greatest name:    *)
(* names are numbers here.  0 is the empty string.  An instance without a  *)
(* group is shown as a group of its own name, so names of instances and of *)
(* groups are strings of one kind and may coincide.                        *)
(***************************************************************************)
EXTENDS Naturals, FiniteSetsExt

CONSTANTS
    Name,   \* instance names
    Group,  \* group names
    Node    \* servers of the pool

ASSUME NamesAreOrdered == /\ Name \subseteq Nat \ {0}
                          /\ Group \subseteq Nat \ {0}

ASSUME FinitelyMany == IsFiniteSet(Name) /\ IsFiniteSet(Group) /\ IsFiniteSet(Node)

\* The server's own functions on the same records.
Records == INSTANCE InstancesState WITH
               Server <- {}, RedisPort <- {}, EnvoyMaster <- {}, EnvoyAuto <- {},
               Request <- {}, Session <- {}, Lost <- "lost", NONE <- 0

-----------------------------------------------------------------------------
(* Listings. *)

Item == [group  : Group \cup {0},
         role   : {"master", "replica"},
         status : Records!Status]

GroupState == [type          : {"standalone", "replication"},
               currentMaster : Name \cup {0},
               topology      : {"healthy", "degraded"},
               conflict      : BOOLEAN]

Listing == [items  : UNION {[S -> Item] : S \in SUBSET Name},
            groups : UNION {[S -> GroupState] : S \in SUBSET Group},
            nodes  : [Node -> {"healthy", "unhealthy", "drain"}]]

\* What the server promises of its records (InstanceOps!MasterIsCurrent).
MasterIsCurrent(l) ==
    \A n \in DOMAIN l.items :
        l.items[n].role = "master" /\ l.items[n].group # 0 =>
            /\ l.items[n].group \in DOMAIN l.groups
            /\ l.groups[l.items[n].group].currentMaster = n

-----------------------------------------------------------------------------
(* Statuses and their tones. *)

Tone(status) ==
    CASE status \in {"running", "healthy", "success"}               -> "ok"
      [] status \in {"creating", "drain", "stopped", "degraded"}    -> "warn"
      [] status \in {"failed", "unexpected_stopped", "unhealthy",
                     "failover_conflict", "error"}                  -> "bad"
      [] OTHER                                                      -> "neutral"

-----------------------------------------------------------------------------
(* Groups. *)

\* The title an instance is listed under.
Title(l, n) == IF l.items[n].group # 0 THEN l.items[n].group ELSE n

\* Groups that have instances, then the recorded groups without any.
Titles(l) == {Title(l, n) : n \in DOMAIN l.items} \cup DOMAIN l.groups

Members(l, t) == {n \in DOMAIN l.items : Title(l, n) = t}

GroupType(l, t) == IF t \in DOMAIN l.groups THEN l.groups[t].type ELSE ""

\* Among the members the last one with the role of a master.
LastMaster(l, t) ==
    LET masters == {n \in Members(l, t) : l.items[n].role = "master"}
    IN  IF masters = {} THEN 0 ELSE Max(masters)

\* The instance in the group's own row; 0 when the group has none.
FaultyPrimary(l, t) == IF Members(l, t) = {} THEN 0 ELSE Min(Members(l, t))

Primary(l, t) ==
    LET current == IF t \in DOMAIN l.groups THEN l.groups[t].currentMaster ELSE 0
    IN  IF current \in Members(l, t) THEN current
        ELSE IF LastMaster(l, t) # 0 THEN LastMaster(l, t)
        ELSE IF Members(l, t) # {} THEN Min(Members(l, t))
        ELSE 0

\* The instances in the rows below it.
Replicas(l, t) ==
    {n \in Members(l, t) : n # Primary(l, t) /\ l.items[n].role # "master"}

\* The statuses of the members taken together.
GroupStatus(l, t) ==
    LET M == Members(l, t)
        status(n) == l.items[n].status
    IN  IF M = {} THEN "unknown"
        ELSE IF M = {Min(M)} THEN status(Min(M))
        ELSE IF \E n \in M : Tone(status(n)) = "bad" THEN "failed"
        ELSE IF \E n \in M : Tone(status(n)) = "warn" THEN "creating"
        ELSE IF \A n \in M : status(n) = "running" THEN "running"
        ELSE status(Min(M))

\* The badge of the group: the stored topology status counts only when every
\* member runs.
FaultyTopologyStatus(l, t) ==
    IF t \in DOMAIN l.groups THEN l.groups[t].topology ELSE GroupStatus(l, t)

TopologyStatus(l, t) ==
    IF t \in DOMAIN l.groups /\ l.groups[t].conflict THEN "failover_conflict"
    ELSE IF GroupStatus(l, t) = "running" /\ t \in DOMAIN l.groups
    THEN l.groups[t].topology
    ELSE GroupStatus(l, t)

-----------------------------------------------------------------------------
(* The counters on top of the first tab. *)

HealthyGroups(l) ==
    Cardinality({t \in Titles(l) : TopologyStatus(l, t) \in {"healthy", "running"}})

\* Groups come from one answer of the server and nodes from another.
Alerts(l, nodes) ==
    Cardinality({t \in Titles(l) : Tone(TopologyStatus(l, t)) = "bad"})
    + Cardinality({s \in Node : nodes[s] = "unhealthy"})

-----------------------------------------------------------------------------
(* Power actions. *)

\* The master of a replication group gets a button that is disabled.
FaultyOffers(l, n) ==
    IF l.items[n].status \in {"running", "healthy"} THEN {"stop"} ELSE {"start"}

Offers(l, n) ==
    LET item == l.items[n]
    IN  {a \in {"stop", "start"} :
            \/ /\ a = "stop"
               /\ item.status \in {"running", "healthy"}
               /\ item.role = "master" => GroupType(l, Title(l, n)) = "standalone"
            \/ /\ a = "start"
               /\ item.status \in {"stopped", "unexpected_stopped", "failed"}}

\* The server refuses to stop, without force, the master of a replication
\* group; it never refuses a start for the status of the instance.
Admits(l, n, action) ==
    /\ n \in DOMAIN l.items
    /\ action = "stop" =>
          ~ /\ l.items[n].role = "master"
            /\ l.items[n].group \in DOMAIN l.groups
            /\ l.groups[l.items[n].group].type = "replication"

\* What the server makes of a power action that succeeds.
FaultyPowered(l, n, action) == [l EXCEPT !.items[n].status = action]

Powered(l, n, action) ==
    LET items == [l.items EXCEPT ![n].status =
                     IF action = "stop" THEN "stopped" ELSE "running"]
        g     == items[n].group
    IN  [l EXCEPT !.items  = items,
                  !.groups = IF g \notin DOMAIN l.groups THEN l.groups
                             ELSE [l.groups EXCEPT ![g].topology =
                                      Records!Topology(items, l.groups[g], g)]]

-----------------------------------------------------------------------------
(* Properties of a listing. *)

\* Every instance of a group is in a row, from where it can be opened, backed
\* up, started and stopped: none is lost between the group's own row and the
\* rows of its replicas, which are chosen by different rules.  It takes the
\* server's promise: of two masters the page would show one.
EveryInstanceHasARow(l) ==
    \A n \in DOMAIN l.items :
        l.items[n].group # 0 =>
            LET t == l.items[n].group
            IN  n = Primary(l, t) \/ n \in Replicas(l, t)

\* The badge of a group is bad exactly when an instance of it is, or when its
\* failover conflicts; and a group is counted as healthy only if it has
\* instances and all of them run.
BadgeTellsTheWorst(l) ==
    \A t \in Titles(l) :
        LET conflict == t \in DOMAIN l.groups /\ l.groups[t].conflict
            badge    == TopologyStatus(l, t)
        IN  /\ Tone(badge) = "bad" <=>
                  conflict \/ \E n \in Members(l, t) : Tone(l.items[n].status) = "bad"
            /\ badge \in {"healthy", "running"} =>
                  /\ Members(l, t) # {}
                  /\ \A n \in Members(l, t) : l.items[n].status = "running"

=============================================================================
