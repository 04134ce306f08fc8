----------------------- MODULE InstanceListProofs -----------------------
(***************************************************************************)
(* What the dashboard makes of a listing, for any number of instances,     *)
(* groups and nodes: nobody is hidden, a badge tells the worst, and what   *)
(* is offered the server admits.                                           *)
(***************************************************************************)
EXTENDS InstanceList, MinimumProofs, FiniteSetTheorems

\* The shape of a listing, field by field.
LEMMA ListingTypes ==
    ASSUME NEW l \in Listing
    PROVE  /\ DOMAIN l.items \subseteq Name
           /\ l.items \in [DOMAIN l.items -> Item]
           /\ DOMAIN l.groups \subseteq Group
           /\ l.groups \in [DOMAIN l.groups -> GroupState]
           /\ l.nodes \in [Node -> {"healthy", "unhealthy", "drain"}]
<1>1. /\ l.items \in UNION {[S -> Item] : S \in SUBSET Name}
      /\ l.groups \in UNION {[S -> GroupState] : S \in SUBSET Group}
      /\ l.nodes \in [Node -> {"healthy", "unhealthy", "drain"}]
  BY DEF Listing
<1>2. PICK S \in SUBSET Name : l.items \in [S -> Item]
  BY <1>1
<1>3. PICK R \in SUBSET Group : l.groups \in [R -> GroupState]
  BY <1>1
<1>4. DOMAIN l.items = S /\ DOMAIN l.groups = R
  BY <1>2, <1>3
<1> QED
  BY <1>1, <1>2, <1>3, <1>4

LEMMA ItemTypes ==
    ASSUME NEW l \in Listing, NEW n \in DOMAIN l.items
    PROVE  /\ n \in Name
           /\ l.items[n].group \in Group \cup {0}
           /\ l.items[n].role \in {"master", "replica"}
           /\ l.items[n].status \in {"creating", "running", "stopped", "failed",
                                     "unexpected_stopped"}
<1>1. l.items[n] \in Item /\ n \in Name
  BY ListingTypes
<1> QED
  BY <1>1 DEF Item, Records!Status

LEMMA GroupTypes ==
    ASSUME NEW l \in Listing, NEW g \in DOMAIN l.groups
    PROVE  /\ g \in Group /\ g # 0
           /\ l.groups[g].type \in {"standalone", "replication"}
           /\ l.groups[g].currentMaster \in Name \cup {0}
           /\ l.groups[g].topology \in {"healthy", "degraded"}
           /\ l.groups[g].conflict \in BOOLEAN
<1>1. l.groups[g] \in GroupState /\ g \in Group
  BY ListingTypes
<1> QED
  BY <1>1, NamesAreOrdered DEF GroupState

-----------------------------------------------------------------------------
(* Rows. *)

\* Given the server's promise of one current master per group, the row of a
\* group and the rows of its replicas, chosen by two different rules, together
\* show every member.
THEOREM EveryoneHasARow ==
    ASSUME NEW l \in Listing, MasterIsCurrent(l)
    PROVE  EveryInstanceHasARow(l)
<1> SUFFICES ASSUME NEW n \in DOMAIN l.items, l.items[n].group # 0
             PROVE  \/ n = Primary(l, l.items[n].group)
                    \/ n \in Replicas(l, l.items[n].group)
  BY DEF EveryInstanceHasARow
<1> DEFINE t == l.items[n].group
<1>1. n \in Members(l, t)
  BY DEF Members, Title
<1>2. CASE l.items[n].role = "master"
  <2>1. t \in DOMAIN l.groups /\ l.groups[t].currentMaster = n
    BY <1>2 DEF MasterIsCurrent
  <2> QED
    BY <1>1, <2>1 DEF Primary
<1>3. CASE l.items[n].role # "master"
  BY <1>1, <1>3 DEF Replicas
<1> QED
  BY <1>2, <1>3

\* The server keeps that promise in what it makes of a power action.
LEMMA PoweredIsListing ==
    ASSUME NEW l \in Listing, NEW n, NEW action, Admits(l, n, action)
    PROVE  /\ Powered(l, n, action) \in Listing
           /\ MasterIsCurrent(l) => MasterIsCurrent(Powered(l, n, action))
<1> DEFINE status == IF action = "stop" THEN "stopped" ELSE "running"
           items  == [l.items EXCEPT ![n].status = status]
           g      == items[n].group
           groups == IF g \notin DOMAIN l.groups THEN l.groups
                     ELSE [l.groups EXCEPT ![g].topology =
                              Records!Topology(items, l.groups[g], g)]
           p      == Powered(l, n, action)
<1>1. n \in DOMAIN l.items /\ n \in Name
  BY ListingTypes DEF Admits
<1>2. p = [l EXCEPT !.items = items, !.groups = groups]
  BY DEF Powered
<1>3. items \in [DOMAIN l.items -> Item]
  <2>1. status \in Records!Status
    BY DEF Records!Status
  <2> HIDE DEF status
  <2>2. l.items[n] \in Item
    BY <1>1, ListingTypes
  <2>3. [l.items[n] EXCEPT !.status = status] \in Item
    BY <2>1, <2>2 DEF Item
  <2> QED
    BY <1>1, <2>3, ListingTypes
<1>4. groups \in [DOMAIN l.groups -> GroupState]
  <2>1. CASE g \notin DOMAIN l.groups
    BY <2>1, ListingTypes
  <2>2. CASE g \in DOMAIN l.groups
    <3>1. l.groups[g] \in GroupState
      BY <2>2, ListingTypes
    <3> DEFINE topology == Records!Topology(items, l.groups[g], g)
    <3>2. topology \in {"healthy", "degraded"}
      BY DEF Records!Topology
    <3> HIDE DEF topology
    <3>3. [l.groups[g] EXCEPT !.topology = topology] \in GroupState
      BY <3>1, <3>2 DEF GroupState
    <3>4. groups = [l.groups EXCEPT ![g] = [l.groups[g] EXCEPT !.topology = topology]]
      BY <2>2, ListingTypes DEF topology
    <3> HIDE DEF items, g, groups
    <3> QED
      BY <2>2, <3>3, <3>4, ListingTypes
  <2> QED
    BY <2>1, <2>2
<1>5. /\ l \in [items : UNION {[S -> Item] : S \in SUBSET Name},
                groups : UNION {[S -> GroupState] : S \in SUBSET Group},
                nodes : [Node -> {"healthy", "unhealthy", "drain"}]]
      /\ DOMAIN l.items \in SUBSET Name /\ DOMAIN l.groups \in SUBSET Group
  BY ListingTypes DEF Listing
<1>6. /\ \A m \in DOMAIN l.items : /\ items[m].group = l.items[m].group
                                   /\ items[m].role = l.items[m].role
      /\ DOMAIN items = DOMAIN l.items
  BY <1>1, ListingTypes DEF Item
<1>7. /\ \A h \in DOMAIN l.groups : groups[h].currentMaster = l.groups[h].currentMaster
      /\ DOMAIN groups = DOMAIN l.groups
  <2> DEFINE topology == Records!Topology(items, l.groups[g], g)
  <2>1. groups = IF g \notin DOMAIN l.groups THEN l.groups
                 ELSE [l.groups EXCEPT ![g].topology = topology]
    OBVIOUS
  <2> HIDE DEF topology, g, items, groups
  <2> QED
    BY <2>1, ListingTypes DEF GroupState
<1> HIDE DEF items, groups, p
<1>8. /\ items \in UNION {[S -> Item] : S \in SUBSET Name}
      /\ groups \in UNION {[S -> GroupState] : S \in SUBSET Group}
  BY <1>3, <1>4, <1>5
<1>9. p \in Listing /\ p.items = items /\ p.groups = groups
  BY <1>2, <1>5, <1>8 DEF Listing
<1>10. MasterIsCurrent(l) => MasterIsCurrent(p)
  BY <1>6, <1>7, <1>9 DEF MasterIsCurrent
<1> QED
  BY <1>9, <1>10 DEF p

-----------------------------------------------------------------------------
(* Power actions. *)

\* What the page offers the server would admit in the same state: the page
\* goes by the group's title and the server by its name, the page refuses what
\* is not standalone and the server what is replication.
THEOREM OffersAdmitted ==
    ASSUME NEW l \in Listing, NEW n \in DOMAIN l.items, NEW a \in Offers(l, n)
    PROVE  Admits(l, n, a)
<1> SUFFICES ASSUME a = "stop",
                    l.items[n].role = "master",
                    l.items[n].group \in DOMAIN l.groups
             PROVE  l.groups[l.items[n].group].type # "replication"
  BY DEF Admits
<1>1. GroupType(l, Title(l, n)) = "standalone"
  BY DEF Offers
<1>2. Title(l, n) = l.items[n].group
  BY GroupTypes DEF Title
<1> QED
  BY <1>1, <1>2 DEF GroupType

-----------------------------------------------------------------------------
(* Badges and counters. *)

LEMMA Tones ==
    /\ Tone("running") = "ok" /\ Tone("healthy") = "ok"
    /\ Tone("creating") = "warn" /\ Tone("stopped") = "warn" /\ Tone("degraded") = "warn"
    /\ Tone("failed") = "bad" /\ Tone("unexpected_stopped") = "bad"
    /\ Tone("failover_conflict") = "bad"
    /\ Tone("unknown") = "neutral"
BY DEF Tone

LEMMA MemberTypes ==
    ASSUME NEW l \in Listing, NEW t
    PROVE  /\ Members(l, t) \subseteq DOMAIN l.items
           /\ Members(l, t) \in SUBSET Nat
<1>1. Members(l, t) \subseteq DOMAIN l.items
  BY DEF Members
<1> QED
  BY <1>1, ListingTypes, NamesAreOrdered

\* The statuses of the members taken together are bad when one is, and running
\* only when all run.
LEMMA StatusOfMembers ==
    ASSUME NEW l \in Listing, NEW t
    PROVE  /\ Tone(GroupStatus(l, t)) = "bad" <=>
                 \E n \in Members(l, t) : Tone(l.items[n].status) = "bad"
           /\ GroupStatus(l, t) = "running" =>
                 /\ Members(l, t) # {}
                 /\ \A n \in Members(l, t) : l.items[n].status = "running"
           /\ GroupStatus(l, t) # "healthy"
<1> DEFINE M == Members(l, t)
           s(n) == l.items[n].status
<1>1. \A n \in M : s(n) \in {"creating", "running", "stopped", "failed",
                           "unexpected_stopped"}
  BY ItemTypes, MemberTypes
<1>2. M # {} => Min(M) \in M
  BY MinIsMember, MemberTypes
<1>3. GroupStatus(l, t) =
          IF M = {} THEN "unknown"
          ELSE IF M = {Min(M)} THEN s(Min(M))
          ELSE IF \E n \in M : Tone(s(n)) = "bad" THEN "failed"
          ELSE IF \E n \in M : Tone(s(n)) = "warn" THEN "creating"
          ELSE IF \A n \in M : s(n) = "running" THEN "running"
          ELSE s(Min(M))
  BY DEF GroupStatus
<1> SUFFICES /\ Tone(GroupStatus(l, t)) = "bad" <=> \E n \in M : Tone(s(n)) = "bad"
             /\ GroupStatus(l, t) = "running" => M # {} /\ \A n \in M : s(n) = "running"
             /\ GroupStatus(l, t) # "healthy"
  OBVIOUS
<1> HIDE DEF M, s
<1>4. CASE M = {}
  BY <1>3, <1>4, Tones
<1>5. CASE M = {Min(M)}
  BY <1>1, <1>3, <1>5
<1>6. CASE M # {} /\ M # {Min(M)}
  <2>1. CASE \E n \in M : Tone(s(n)) = "bad"
    BY <1>3, <1>6, <2>1, Tones
  <2>2. CASE ~(\E n \in M : Tone(s(n)) = "bad") /\ \E n \in M : Tone(s(n)) = "warn"
    BY <1>3, <1>6, <2>2, Tones
  <2>3. CASE \A n \in M : Tone(s(n)) \notin {"bad", "warn"}
    <3>1. \A n \in M : s(n) = "running"
      BY <1>1, <2>3, Tones
    <3> QED
      BY <1>3, <1>6, <2>3, <3>1, Tones
  <2> QED
    BY <2>1, <2>2, <2>3
<1> QED
  BY <1>4, <1>5, <1>6

\* The badge of a group hides no trouble of its instances behind the stored
\* topology status, and no group counts as healthy that is empty or half down.
THEOREM BadgesTellTheWorst ==
    ASSUME NEW l \in Listing
    PROVE  BadgeTellsTheWorst(l)
<1> SUFFICES ASSUME NEW t \in Titles(l)
             PROVE  /\ Tone(TopologyStatus(l, t)) = "bad" <=>
                          \/ t \in DOMAIN l.groups /\ l.groups[t].conflict
                          \/ \E n \in Members(l, t) : Tone(l.items[n].status) = "bad"
                    /\ TopologyStatus(l, t) \in {"healthy", "running"} =>
                          /\ Members(l, t) # {}
                          /\ \A n \in Members(l, t) : l.items[n].status = "running"
  BY DEF BadgeTellsTheWorst
<1>1. CASE t \in DOMAIN l.groups /\ l.groups[t].conflict
  BY <1>1, Tones DEF TopologyStatus
<1>2. CASE ~(t \in DOMAIN l.groups /\ l.groups[t].conflict)
  <2>1. CASE GroupStatus(l, t) = "running" /\ t \in DOMAIN l.groups
    <3>1. TopologyStatus(l, t) \in {"healthy", "degraded"}
      BY <1>2, <2>1, GroupTypes DEF TopologyStatus
    <3>2. Tone(GroupStatus(l, t)) # "bad"
      BY <2>1, Tones
    <3> QED
      BY <1>2, <2>1, <3>1, <3>2, Tones, StatusOfMembers
  <2>2. CASE ~(GroupStatus(l, t) = "running" /\ t \in DOMAIN l.groups)
    <3>1. TopologyStatus(l, t) = GroupStatus(l, t)
      BY <1>2, <2>2 DEF TopologyStatus
    <3> QED
      BY <1>2, <3>1, StatusOfMembers
  <2> QED
    BY <2>1, <2>2
<1> QED
  BY <1>1, <1>2

LEMMA TitlesAreFinite ==
    ASSUME NEW l \in Listing
    PROVE  IsFiniteSet(Titles(l))
<1>1. Titles(l) \subseteq Name \cup Group
  <2>1. ASSUME NEW n \in DOMAIN l.items PROVE Title(l, n) \in Name \cup Group
    BY ItemTypes DEF Title
  <2> QED
    BY <2>1, ListingTypes DEF Titles
<1>2. IsFiniteSet(Name \cup Group)
  BY FinitelyMany, FS_Union
<1> QED
  BY <1>1, <1>2, FS_Subset

LEMMA OwnTitle ==
    ASSUME NEW l \in Listing, NEW n \in DOMAIN l.items
    PROVE  Title(l, n) \in Titles(l) /\ n \in Members(l, Title(l, n))
BY DEF Titles, Members

\* No alerts on top of the page: no instance and no node is in trouble.
THEOREM NoAlertsNoTrouble ==
    ASSUME NEW l \in Listing, NEW nodes, Alerts(l, nodes) = 0
    PROVE  /\ \A n \in DOMAIN l.items : Tone(l.items[n].status) # "bad"
           /\ \A s \in Node : nodes[s] # "unhealthy"
<1> DEFINE T == {t \in Titles(l) : Tone(TopologyStatus(l, t)) = "bad"}
           N == {s \in Node : nodes[s] = "unhealthy"}
<1>1. IsFiniteSet(T) /\ IsFiniteSet(N)
  <2>1. T \in SUBSET Titles(l) /\ N \in SUBSET Node
    OBVIOUS
  <2> QED
    BY <2>1, TitlesAreFinite, FinitelyMany, FS_Subset
<1>2. Cardinality(T) + Cardinality(N) = 0
  BY DEF Alerts
<1> HIDE DEF T, N
<1>3. Cardinality(T) \in Nat /\ Cardinality(N) \in Nat
  BY <1>1, FS_CardinalityType
<1>4. Cardinality(T) = 0 /\ Cardinality(N) = 0
  BY <1>2, <1>3
<1>5. T = {} /\ N = {}
  BY <1>1, <1>4, FS_EmptySet
<1>6. ASSUME NEW n \in DOMAIN l.items PROVE Tone(l.items[n].status) # "bad"
  <2>1. Tone(TopologyStatus(l, Title(l, n))) # "bad"
    BY <1>5, OwnTitle DEF T
  <2> QED
    BY <2>1, OwnTitle, BadgesTellTheWorst DEF BadgeTellsTheWorst
<1> QED
  BY <1>5, <1>6 DEF N

\* All groups count as healthy: every instance runs.
THEOREM AllHealthyAllRun ==
    ASSUME NEW l \in Listing, HealthyGroups(l) = Cardinality(Titles(l))
    PROVE  \A n \in DOMAIN l.items : l.items[n].status = "running"
<1> DEFINE T == {t \in Titles(l) : TopologyStatus(l, t) \in {"healthy", "running"}}
<1>1. Titles(l) = T
  <2>1. T \in SUBSET Titles(l) /\ Cardinality(Titles(l)) = Cardinality(T)
    BY DEF HealthyGroups
  <2> HIDE DEF T
  <2> QED
    BY <2>1, TitlesAreFinite, FS_Subset
<1>2. ASSUME NEW n \in DOMAIN l.items PROVE l.items[n].status = "running"
  <2>1. TopologyStatus(l, Title(l, n)) \in {"healthy", "running"}
    BY <1>1, OwnTitle
  <2> QED
    BY <2>1, OwnTitle, BadgesTellTheWorst DEF BadgeTellsTheWorst
<1> QED
  BY <1>2

=============================================================================
