------------------------ MODULE SentinelSyncProofs ------------------------
(***************************************************************************)
(* Proofs about SentinelSync for every number of members, Sentinel nodes,  *)
(* watchers and handlers, checked by TLAPS.                                *)
(***************************************************************************)
EXTENDS SentinelSync, MinimumProofs, FiniteSetTheorems, TLAPS

(* Between two steps, a process that is to switch the master knows to whom,*)
(* and only handlers have asked an agent.                                  *)
WorkIsKnown ==
    \A p \in Process :
        /\ proc[p].pc = "failover" => proc[p].addr \in Member
        /\ proc[p].pc \in {"agent", "commit"} => p \in Handler /\ proc[p].addr \in Member

IInv == TypeOK /\ WorkIsKnown

-----------------------------------------------------------------------------
(* The nodes.                                                              *)

LEMMA NodesAreNumbered ==
    /\ DOMAIN Nodes \subseteq Nat
    /\ IsFiniteSet(DOMAIN Nodes)
    /\ \A i \in DOMAIN Nodes : Nodes[i] \in Sentinel
<1>1. DOMAIN Nodes = 1..Len(Nodes) /\ Len(Nodes) \in Nat
  BY NodesAreListed
<1>2. IsFiniteSet(1..Len(Nodes))
  BY <1>1, FS_Interval
<1> QED
  BY <1>1, <1>2 DEF Sentinel

LEMMA SentinelIsFinite ==
    IsFiniteSet(Sentinel) /\ Cardinality(Sentinel) \in Nat
<1> DEFINE node == [i \in DOMAIN Nodes |-> Nodes[i]]
<1>1. node \in Surjection(DOMAIN Nodes, Sentinel)
  BY DEF Surjection, Sentinel
<1>2. IsFiniteSet(Sentinel)
  BY <1>1, NodesAreNumbered, FS_Surjection
<1> QED
  BY <1>2, FS_CardinalityType

\* There is a node to configure: a quorum of them is alive.
LEMMA SomeNodeRemains == Remaining(1) # {} /\ Remaining(1) \subseteq DOMAIN Nodes
<1>1. Alive # {}
  <2>1. Cardinality(Alive) > 0 \/ Cardinality(Alive) \notin Nat
    BY QuorumIsAlive, QuorumIsReachable, SentinelIsFinite
  <2>2. IsFiniteSet(Alive) /\ Cardinality(Alive) \in Nat
    BY QuorumIsAlive, SentinelIsFinite, FS_Subset, FS_CardinalityType
  <2> QED
    BY <2>1, <2>2, FS_EmptySet
<1>2. PICK s \in Alive : TRUE
  BY <1>1
<1>3. PICK i \in DOMAIN Nodes : Nodes[i] = s
  BY <1>2, QuorumIsAlive DEF Sentinel
<1>4. i >= 1
  BY <1>3, NodesAreListed
<1> QED
  BY <1>2, <1>3, <1>4 DEF Remaining

LEMMA FirstRemaining ==
    ASSUME NEW i, Remaining(i) # {}
    PROVE  Min(Remaining(i)) \in DOMAIN Nodes
<1>1. Remaining(i) \subseteq Nat
  BY NodesAreNumbered DEF Remaining
<1>2. Min(Remaining(i)) \in Remaining(i)
  BY <1>1, MinIsMember
<1> QED
  BY <1>2 DEF Remaining

LEMMA IdleType == Idle \in ProcessState
<1>1. 1 \in DOMAIN Nodes
  <2>1. PICK i \in DOMAIN Nodes : TRUE
    BY SomeNodeRemains
  <2> QED
    BY <2>1, NodesAreListed
<1> QED
  BY <1>1 DEF Idle, ProcessState

\* An answer is a master some node monitors.
LEMMA AnswerType ==
    ASSUME TypeOK
    PROVE  Answer \in Member \cup {NONE}
<1>1. CASE Answering = {}
  BY <1>1 DEF Answer
<1>2. CASE Answering # {}
  <2>1. Answering \subseteq Nat
    BY NodesAreNumbered DEF Answering
  <2>2. Min(Answering) \in DOMAIN Nodes
    BY <1>2, <2>1, MinIsMember DEF Answering
  <2> QED
    BY <1>2, <2>2, NodesAreNumbered DEF Answer, TypeOK
<1> QED
  BY <1>1, <1>2

\* There are never more ranks than nodes.
LEMMA RanksFit ==
    ASSUME NEW e
    PROVE  Ranked(e) \in [Sentinel -> 0..Cardinality(Sentinel)]
<1> DEFINE below(s) == {t \in Sentinel : e[t] > 0 /\ e[t] <= e[s]}
           ranks(s) == {e[t] : t \in below(s)}
<1>1. ASSUME NEW s \in Sentinel
      PROVE  Cardinality(ranks(s)) \in 0..Cardinality(Sentinel)
  <2> DEFINE rank == [t \in below(s) |-> e[t]]
  <2>1. rank \in Surjection(below(s), ranks(s))
    BY DEF Surjection
  <2>2. /\ IsFiniteSet(below(s))
        /\ Cardinality(below(s)) <= Cardinality(Sentinel)
    BY SentinelIsFinite, FS_Subset
  <2>3. /\ IsFiniteSet(ranks(s))
        /\ Cardinality(ranks(s)) <= Cardinality(below(s))
    BY <2>1, <2>2, FS_Surjection
  <2>4. Cardinality(ranks(s)) \in Nat /\ Cardinality(below(s)) \in Nat
    BY <2>2, <2>3, FS_CardinalityType
  <2> HIDE DEF below, ranks
  <2> QED
    BY <2>2, <2>3, <2>4, SentinelIsFinite
<1> QED
  BY <1>1 DEF Ranked

-----------------------------------------------------------------------------
(* What a process may become.                                              *)

LEMMA BecomesOK ==
    ASSUME TypeOK, WorkIsKnown, NEW p \in Process, NEW w \in ProcessState,
           w.pc = "failover" => w.addr \in Member,
           w.pc \in {"agent", "commit"} => p \in Handler /\ w.addr \in Member,
           proc' = [proc EXCEPT ![p] = w]
    PROVE  proc' \in [Process -> ProcessState] /\ WorkIsKnown'
<1>1. \A q \in Process : proc'[q] = IF q = p THEN w ELSE proc[q]
  BY DEF TypeOK
<1>2. WorkIsKnown'
  BY <1>1 DEF WorkIsKnown
<1>3. proc' \in [Process -> ProcessState]
  BY DEF TypeOK
<1> QED
  BY <1>2, <1>3

LEMMA EndsOK ==
    ASSUME TypeOK, WorkIsKnown, NEW p \in Process, Ends(p)
    PROVE  /\ proc' \in [Process -> ProcessState] /\ WorkIsKnown'
           /\ lock' \in Handler \cup {NONE}
<1>1. lock' \in Handler \cup {NONE}
  BY DEF Ends, TypeOK
<1>2. Idle.pc = "idle"
  BY DEF Idle
<1> QED
  BY <1>1, <1>2, IdleType, BecomesOK DEF Ends

LEMMA SyncsOK ==
    ASSUME TypeOK, WorkIsKnown, NEW p \in Process, Syncs(p)
    PROVE  proc' \in [Process -> ProcessState] /\ WorkIsKnown'
<1> DEFINE w == [Idle EXCEPT !.pc = "read"]
<1>1. w \in ProcessState /\ w.pc = "read"
  BY IdleType DEF Idle, ProcessState
<1>2. proc' = [proc EXCEPT ![p] = w]
  BY DEF Syncs
<1> HIDE DEF w
<1> QED
  BY <1>1, <1>2, BecomesOK

LEMMA NextNodeOK ==
    ASSUME TypeOK, WorkIsKnown, NEW p \in Process, NextNode(p)
    PROVE  /\ proc' \in [Process -> ProcessState] /\ WorkIsKnown'
           /\ lock' \in Handler \cup {NONE}
<1> DEFINE rest == Remaining(proc[p].node + 1)
<1>1. CASE rest = {}
  BY <1>1, EndsOK DEF NextNode
<1>2. CASE rest # {}
  <2> DEFINE w == [proc[p] EXCEPT !.pc = "clear", !.node = Min(rest)]
  <2>1. Min(rest) \in DOMAIN Nodes
    BY <1>2, FirstRemaining
  <2>2. w \in ProcessState /\ w.pc = "clear"
    BY <2>1 DEF TypeOK, ProcessState
  <2>3. proc' = [proc EXCEPT ![p] = w] /\ lock' = lock
    BY <1>2 DEF NextNode, TypeOK
  <2> HIDE DEF w
  <2> QED
    BY <2>2, <2>3, BecomesOK DEF TypeOK
<1> QED
  BY <1>1, <1>2

LEMMA ConfigureOK ==
    ASSUME TypeOK, NEW s, NEW m \in Member \cup {NONE}, Configure(s, m)
    PROVE  /\ monitors' \in [Sentinel -> Member \cup {NONE}]
           /\ knows' \subseteq Sentinel
           /\ epoch' \in [Sentinel -> 0..Cardinality(Sentinel)]
           /\ event' \in BOOLEAN
<1>1. 0 \in 0..Cardinality(Sentinel)
  BY SentinelIsFinite
<1> QED
  BY <1>1 DEF Configure, TypeOK

LEMMA SwitchOK ==
    ASSUME TypeOK, NEW s, NEW m \in Member \cup {NONE}, NEW e, Switch(s, m, e)
    PROVE  /\ monitors' \in [Sentinel -> Member \cup {NONE}]
           /\ epoch' \in [Sentinel -> 0..Cardinality(Sentinel)]
           /\ event' \in BOOLEAN
<1>1. epoch' \in [Sentinel -> 0..Cardinality(Sentinel)]
  BY RanksFit DEF Switch
<1>2. event' \in BOOLEAN
  BY DEF Switch, TypeOK
<1> QED
  BY <1>1, <1>2 DEF Switch, TypeOK

-----------------------------------------------------------------------------
(* Every step keeps the invariant.                                         *)

LEMMA BudgetShrinks ==
    ASSUME TypeOK, NEW op, Spend(op)
    PROVE  left' \in 0..Budget
  BY BudgetIsNumber DEF Spend, TypeOK

LEMMA InitOK == Init => IInv
<1> SUFFICES ASSUME Init PROVE IInv
  OBVIOUS
<1>1. TypeOK
  <2>1. proc \in [Process -> ProcessState]
    BY IdleType DEF Init
  <2>2. monitors \in [Sentinel -> Member \cup {NONE}]
    BY FounderIsMember DEF Init
  <2>3. epoch \in [Sentinel -> 0..Cardinality(Sentinel)]
    BY SentinelIsFinite DEF Init
  <2>4. status \in [Member -> {"running", "stopped", "failed"}]
    BY DEF Init
  <2>5. knows \subseteq Sentinel /\ left \in 0..Budget
    BY QuorumIsAlive, BudgetIsNumber DEF Init
  <2>6. current \in Member /\ lock \in Handler \cup {NONE} /\ up \subseteq Member
    BY FounderIsMember DEF Init
  <2>7. event \in BOOLEAN
    BY DEF Init
  <2> QED
    BY <2>1, <2>2, <2>3, <2>4, <2>5, <2>6, <2>7 DEF TypeOK
<1>2. WorkIsKnown
  BY DEF Init, Idle, WorkIsKnown
<1> QED
  BY <1>1, <1>2 DEF IInv

LEMMA HandlersOK ==
    ASSUME TypeOK, WorkIsKnown, NEW p \in Handler,
           \/ \E op \in Ops, n \in Member : Begin(p, op, n)
           \/ AgentActs(p)
           \/ AgentFails(p)
           \/ Other(p)
           \/ \E n \in Member : Report(p, n)
    PROVE  TypeOK' /\ WorkIsKnown'
<1> USE DEF server, sentinel
<1>0. p \in Process
  BY DEF Process
<1>1. ASSUME NEW op \in Ops, NEW n \in Member, Begin(p, op, n)
      PROVE  TypeOK' /\ WorkIsKnown'
  <2> DEFINE w == [Idle EXCEPT !.pc = "agent", !.op = op, !.addr = n]
  <2>1. w \in ProcessState /\ w.pc = "agent" /\ w.addr = n
    BY <1>1, IdleType DEF Begin, Idle, ProcessState
  <2>2. proc' = [proc EXCEPT ![p] = w]
    BY <1>1 DEF Begin
  <2> HIDE DEF w
  <2>3. proc' \in [Process -> ProcessState] /\ WorkIsKnown'
    BY <1>0, <2>1, <2>2, BecomesOK
  <2>4. left' \in 0..Budget
    BY <1>1, BudgetShrinks DEF Begin
  <2> QED
    BY <1>1, <2>3, <2>4 DEF Begin, TypeOK
<1>2. ASSUME AgentActs(p) PROVE TypeOK' /\ WorkIsKnown'
  <2> DEFINE w == [proc[p] EXCEPT !.pc = "commit"]
  <2>1. proc[p] \in ProcessState /\ proc[p].addr \in Member
    BY <1>0, <1>2 DEF AgentActs, TypeOK, WorkIsKnown
  <2>2. w \in ProcessState /\ w.pc = "commit" /\ w.addr \in Member
    BY <2>1 DEF ProcessState
  <2>3. proc' = [proc EXCEPT ![p] = w]
    BY <1>2 DEF AgentActs, Goes
  <2> HIDE DEF w
  <2>4. proc' \in [Process -> ProcessState] /\ WorkIsKnown'
    BY <1>0, <2>2, <2>3, BecomesOK
  <2>5. up' \subseteq Member
    BY <1>2, <2>1 DEF AgentActs, TypeOK
  <2> QED
    BY <1>2, <2>4, <2>5 DEF AgentActs, TypeOK
<1>3. ASSUME AgentFails(p) PROVE TypeOK' /\ WorkIsKnown'
  <2>1. /\ proc' \in [Process -> ProcessState] /\ WorkIsKnown'
        /\ lock' \in Handler \cup {NONE}
    BY <1>0, <1>3, EndsOK DEF AgentFails
  <2> QED
    BY <1>3, <2>1 DEF AgentFails, TypeOK
<1>4. ASSUME Other(p) PROVE TypeOK' /\ WorkIsKnown'
  <2>1. proc' \in [Process -> ProcessState] /\ WorkIsKnown'
    BY <1>0, <1>4, SyncsOK DEF Other
  <2>2. left' \in 0..Budget
    BY <1>4, BudgetShrinks DEF Other
  <2> QED
    BY <1>4, <2>1, <2>2 DEF Other, TypeOK
<1>5. ASSUME NEW n \in Member, Report(p, n) PROVE TypeOK' /\ WorkIsKnown'
  <2> DEFINE w == [Idle EXCEPT !.pc = "query", !.addr = n]
  <2>1. w \in ProcessState /\ w.pc = "query"
    BY IdleType DEF Idle, ProcessState
  <2>2. proc' = [proc EXCEPT ![p] = w]
    BY <1>5 DEF Report
  <2> HIDE DEF w
  <2>3. proc' \in [Process -> ProcessState] /\ WorkIsKnown'
    BY <1>0, <2>1, <2>2, BecomesOK
  <2>4. left' \in 0..Budget
    BY <1>5, BudgetShrinks DEF Report
  <2> QED
    BY <1>5, <2>3, <2>4 DEF Report, TypeOK
<1> QED
  BY <1>1, <1>2, <1>3, <1>4, <1>5

LEMMA CommitsOK ==
    ASSUME TypeOK, WorkIsKnown, NEW p \in Process,
           CommitPromote(p) \/ CommitStop(p) \/ CommitStart(p)
    PROVE  TypeOK' /\ WorkIsKnown'
<1> USE DEF server, sentinel
<1>0. proc[p].addr \in Member
  BY DEF CommitPromote, CommitStop, CommitStart, WorkIsKnown
<1>1. CASE CommitPromote(p)
  <2>1. proc' \in [Process -> ProcessState] /\ WorkIsKnown'
    BY <1>1, SyncsOK DEF CommitPromote
  <2> QED
    BY <1>0, <1>1, <2>1 DEF CommitPromote, TypeOK
<1>2. CASE CommitStop(p)
  <2>1. proc' \in [Process -> ProcessState] /\ WorkIsKnown'
    BY <1>2, SyncsOK DEF CommitStop
  <2> QED
    BY <1>2, <2>1 DEF CommitStop, TypeOK
<1>3. CASE CommitStart(p)
  <2>1. /\ proc' \in [Process -> ProcessState] /\ WorkIsKnown'
        /\ lock' \in Handler \cup {NONE}
    BY <1>3, EndsOK DEF CommitStart
  <2> QED
    BY <1>3, <2>1 DEF CommitStart, TypeOK
<1> QED
  BY <1>1, <1>2, <1>3

LEMMA FollowingOK ==
    ASSUME TypeOK, WorkIsKnown, NEW p \in Process,
           Tick \/ Watch(p) \/ Query(p) \/ Failover(p)
    PROVE  TypeOK' /\ WorkIsKnown'
<1> USE DEF server, sentinel
<1>1. CASE Tick
  <2> DEFINE w == [Idle EXCEPT !.pc = "query", !.seen = current]
  <2>1. w \in ProcessState /\ w.pc = "query"
    BY IdleType DEF Idle, ProcessState, TypeOK
  <2>2. Loop \in Process /\ proc' = [proc EXCEPT ![Loop] = w]
    BY <1>1 DEF Tick, Process
  <2> HIDE DEF w
  <2>3. proc' \in [Process -> ProcessState] /\ WorkIsKnown'
    BY <2>1, <2>2, BecomesOK
  <2> QED
    BY <1>1, <2>3 DEF Tick, TypeOK
<1>2. CASE Watch(p)
  <2> DEFINE w == [Idle EXCEPT !.pc = "query"]
  <2>1. w \in ProcessState /\ w.pc = "query"
    BY IdleType DEF Idle, ProcessState
  <2>2. proc' = [proc EXCEPT ![p] = w]
    BY <1>2 DEF Watch
  <2> HIDE DEF w
  <2>3. proc' \in [Process -> ProcessState] /\ WorkIsKnown'
    BY <2>1, <2>2, BecomesOK
  <2> QED
    BY <1>2, <2>3 DEF Watch, TypeOK
<1>3. CASE Query(p)
  <2> DEFINE addr == IF Answer = NONE THEN proc[p].addr ELSE Answer
  <2>1. addr \in Member \cup {NONE}
    BY AnswerType DEF TypeOK, ProcessState
  <2> HIDE DEF addr
  <2>2. CASE addr \in {NONE, proc[p].seen}
    <3>1. Ends(p)
      BY <1>3, <2>2 DEF Query, addr
    <3>2. /\ proc' \in [Process -> ProcessState] /\ WorkIsKnown'
          /\ lock' \in Handler \cup {NONE}
      BY <3>1, EndsOK
    <3> QED
      BY <1>3, <3>2 DEF Query, TypeOK
  <2>3. CASE addr \notin {NONE, proc[p].seen}
    <3> DEFINE w == [Idle EXCEPT !.pc = "failover", !.addr = addr]
    <3>1. w \in ProcessState /\ w.pc = "failover" /\ w.addr \in Member
      BY <2>1, <2>3, IdleType DEF Idle, ProcessState
    <3>2. proc' = [proc EXCEPT ![p] = w] /\ lock' = lock
      BY <1>3, <2>3 DEF Query, addr
    <3> HIDE DEF w
    <3>3. proc' \in [Process -> ProcessState] /\ WorkIsKnown'
      BY <3>1, <3>2, BecomesOK
    <3> QED
      BY <1>3, <3>2, <3>3 DEF Query, TypeOK
  <2> QED
    BY <2>2, <2>3
<1>4. CASE Failover(p)
  <2>1. proc[p].addr \in Member
    BY <1>4 DEF Failover, WorkIsKnown
  <2>2. CASE Ends(p) /\ UNCHANGED <<current, status>>
    <3>1. /\ proc' \in [Process -> ProcessState] /\ WorkIsKnown'
          /\ lock' \in Handler \cup {NONE}
      BY <2>2, EndsOK
    <3> QED
      BY <1>4, <2>2, <3>1 DEF Failover, TypeOK
  <2>3. CASE /\ current' = proc[p].addr
             /\ status' = [status EXCEPT ![current] = "failed", ![proc[p].addr] = "running"]
             /\ Syncs(p)
             /\ UNCHANGED lock
    <3>1. proc' \in [Process -> ProcessState] /\ WorkIsKnown'
      BY <2>3, SyncsOK
    <3> QED
      BY <1>4, <2>1, <2>3, <3>1 DEF Failover, TypeOK
  <2> QED
    BY <1>4, <2>2, <2>3 DEF Failover
<1> QED
  BY <1>1, <1>2, <1>3, <1>4

LEMMA TellingOK ==
    ASSUME TypeOK, WorkIsKnown, NEW p \in Process,
           SyncRead(p) \/ SyncClear(p) \/ SyncMonitor(p) \/ Lose(p)
    PROVE  TypeOK' /\ WorkIsKnown'
<1> USE DEF server, sentinel
<1>1. CASE SyncRead(p)
  <2> DEFINE want == IF status[current] = "running" THEN current ELSE NONE
             w == [Idle EXCEPT !.pc = "clear", !.node = Min(Remaining(1)), !.want = want]
  <2>1. Min(Remaining(1)) \in DOMAIN Nodes /\ want \in Member \cup {NONE}
    BY FirstRemaining, SomeNodeRemains DEF TypeOK
  <2> HIDE DEF want
  <2>2. w \in ProcessState /\ w.pc = "clear"
    BY <2>1, IdleType DEF Idle, ProcessState
  <2>3. proc' = [proc EXCEPT ![p] = w]
    BY <1>1 DEF SyncRead, want
  <2> HIDE DEF w
  <2>4. proc' \in [Process -> ProcessState] /\ WorkIsKnown'
    BY <2>2, <2>3, BecomesOK
  <2> QED
    BY <1>1, <2>4 DEF SyncRead, TypeOK
<1>2. CASE SyncClear(p)
  <2>1. /\ monitors' \in [Sentinel -> Member \cup {NONE}]
        /\ knows' \subseteq Sentinel
        /\ epoch' \in [Sentinel -> 0..Cardinality(Sentinel)]
        /\ event' \in BOOLEAN
    BY <1>2, ConfigureOK DEF SyncClear
  <2>2. CASE NextNode(p)
    BY <1>2, <2>1, <2>2, NextNodeOK DEF SyncClear, TypeOK
  <2>3. CASE Goes(p, "monitor") /\ UNCHANGED lock
    <3> DEFINE w == [proc[p] EXCEPT !.pc = "monitor"]
    <3>1. w \in ProcessState /\ w.pc = "monitor"
      BY DEF TypeOK, ProcessState
    <3>2. proc' = [proc EXCEPT ![p] = w]
      BY <2>3 DEF Goes
    <3> HIDE DEF w
    <3>3. proc' \in [Process -> ProcessState] /\ WorkIsKnown'
      BY <3>1, <3>2, BecomesOK
    <3> QED
      BY <1>2, <2>1, <2>3, <3>3 DEF SyncClear, TypeOK
  <2> QED
    BY <1>2, <2>2, <2>3 DEF SyncClear
<1>3. CASE SyncMonitor(p)
  <2>1. proc[p].want \in Member \cup {NONE}
    BY DEF TypeOK, ProcessState
  <2>2. /\ monitors' \in [Sentinel -> Member \cup {NONE}]
        /\ knows' \subseteq Sentinel
        /\ epoch' \in [Sentinel -> 0..Cardinality(Sentinel)]
        /\ event' \in BOOLEAN
    <3>1. CASE Configure(Nodes[proc[p].node], proc[p].want)
      BY <2>1, <3>1, ConfigureOK
    <3>2. CASE UNCHANGED sentinel
      BY <3>2 DEF TypeOK
    <3> QED
      BY <1>3, <3>1, <3>2 DEF SyncMonitor
  <2> QED
    BY <1>3, <2>2, NextNodeOK DEF SyncMonitor, TypeOK
<1>4. CASE Lose(p)
  BY <1>4, NextNodeOK DEF Lose, TypeOK
<1> QED
  BY <1>1, <1>2, <1>3, <1>4

LEMMA SurroundingsOK ==
    ASSUME TypeOK, WorkIsKnown,
           \/ \E n \in Member : StatusCheck(n) \/ Crash(n)
           \/ LockTimesOut
           \/ Election
           \/ Gossip
           \/ \E s \in Sentinel : Discover(s)
    PROVE  TypeOK' /\ WorkIsKnown'
<1> USE DEF server, sentinel
<1>1. proc' = proc
  BY DEF StatusCheck, Crash, LockTimesOut, Election, Elect, Gossip, Adopt, Discover
<1>2. proc' \in [Process -> ProcessState] /\ WorkIsKnown'
  BY <1>1 DEF TypeOK, WorkIsKnown
<1>3. ASSUME NEW n \in Member, StatusCheck(n) PROVE TypeOK'
  BY <1>2, <1>3 DEF StatusCheck, TypeOK
<1>4. ASSUME NEW n \in Member, Crash(n) PROVE TypeOK'
  <2>1. left' \in 0..Budget
    BY <1>4, BudgetShrinks DEF Crash
  <2> QED
    BY <1>2, <1>4, <2>1 DEF Crash, TypeOK
<1>5. CASE LockTimesOut
  BY <1>2, <1>5 DEF LockTimesOut, TypeOK
<1>6. ASSUME NEW s \in Sentinel, NEW n \in Member, Elect(s, n) PROVE TypeOK'
  BY <1>2, <1>6, SwitchOK DEF Elect, TypeOK
<1>7. ASSUME NEW s \in Sentinel, NEW t \in Sentinel, Adopt(s, t) PROVE TypeOK'
  <2>1. monitors[t] \in Member \cup {NONE}
    BY DEF TypeOK
  <2> QED
    BY <1>2, <1>7, <2>1, SwitchOK DEF Adopt, TypeOK
<1>8. ASSUME NEW s \in Sentinel, Discover(s) PROVE TypeOK'
  BY <1>2, <1>8 DEF Discover, TypeOK
<1> QED
  BY <1>2, <1>3, <1>4, <1>5, <1>6, <1>7, <1>8 DEF Election, Gossip

LEMMA StepOK == IInv /\ [Next]_vars => IInv'
<1> SUFFICES ASSUME TypeOK, WorkIsKnown, [Next]_vars PROVE TypeOK' /\ WorkIsKnown'
  BY DEF IInv
<1>1. CASE Tick
  BY <1>1, FollowingOK DEF Process
<1>2. ASSUME NEW p \in Process, Runs(p) \/ Lose(p) PROVE TypeOK' /\ WorkIsKnown'
  BY <1>2, FollowingOK, CommitsOK, TellingOK DEF Runs
<1>3. ASSUME NEW p \in Watcher, Watch(p) PROVE TypeOK' /\ WorkIsKnown'
  BY <1>3, FollowingOK DEF Process
<1>4. ASSUME NEW p \in Handler,
             \/ AgentActs(p)
             \/ AgentFails(p)
             \/ Other(p)
             \/ \E n \in Member, op \in Ops : Begin(p, op, n)
             \/ \E n \in Member : Report(p, n)
      PROVE  TypeOK' /\ WorkIsKnown'
  BY <1>4, HandlersOK
<1>5. CASE \/ \E n \in Member : StatusCheck(n) \/ Crash(n)
           \/ LockTimesOut
           \/ Election
           \/ Gossip
           \/ \E s \in Sentinel : Discover(s)
  BY <1>5, SurroundingsOK
<1>6. CASE UNCHANGED vars
  BY <1>6 DEF vars, TypeOK, WorkIsKnown
<1> QED
  BY <1>1, <1>2, <1>3, <1>4, <1>5, <1>6 DEF Next

LEMMA Invariant == Spec => []IInv
  BY InitOK, StepOK, PTL DEF Spec

\* The group's records, the processes and the nodes' configurations stay
\* well-formed: no process works on a node beyond the list, nobody becomes
\* master that is no member.
THEOREM TypeCorrect == Spec => []TypeOK
<1>1. IInv => TypeOK
  BY DEF IInv
<1> QED
  BY <1>1, Invariant, PTL

=============================================================================
