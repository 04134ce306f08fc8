-------------------------- MODULE SentinelSync --------------------------
(***************************************************************************)
(* One replication group between the server and its Sentinel nodes.        *)
(*                                                                         *)
(* Two truths are kept in step.  After most operations the server tells    *)
(* every Sentinel node which master to monitor (syncSentinelMasters, node  *)
(* by node, command by command).  When the nodes have elected another      *)
(* master, the server hears of it in a watcher or finds out in its loop    *)
(* (reconcileSentinelOnce) and follows (handleSentinelFailover, one        *)
(* transaction), which ends in telling the nodes again.                    *)
(*                                                                         *)
(* The records are reduced to the group's current master and the members'  *)
(* statuses; the members never change.  Sentinel and Redis themselves are  *)
(* external: a node that knows the replicas of a master that is down, and  *)
(* has a quorum with it, moves to another member; others adopt the newer   *)
(* configuration; MONITOR forgets it all.                                  *)
(*                                                                         *)
(* Definitions named Faulty... are variants with one plausible mistake;    *)
(* the specification uses none of them.                                    *)
(***************************************************************************)
EXTENDS Naturals, Sequences, FiniteSetsExt

CONSTANTS
    Member,    \* the instances of the group
    Founder,   \* the one it was created with
    Nodes,     \* sentinel.nodes, in the order of the configuration
    Alive,     \* the nodes that answer; the others are down for good
    Quorum,    \* sentinel.quorum
    Loop,      \* the goroutine of StartSentinelReconcileLoop
    Watcher,   \* the goroutines of StartSentinelWatchLoop
    Handler,   \* HTTP handlers in flight
    Ops,       \* the operations and disturbances a run admits
    Budget,    \* how many of them, lost commands apart, may happen in all
    NONE

AllOps == {"promote", "stop", "start", "other", "event", "crash", "lose"}

Process == {Loop} \cup Watcher \cup Handler
Sentinel == {Nodes[i] : i \in DOMAIN Nodes}

ASSUME QuorumIsReachable == Quorum \in 1..Cardinality(Sentinel)
ASSUME QuorumIsAlive == Alive \subseteq Sentinel /\ Cardinality(Alive) >= Quorum
ASSUME FounderIsMember == Founder \in Member
ASSUME NodesAreListed ==
    /\ Nodes \in Seq(Sentinel)
    /\ \A i, j \in DOMAIN Nodes : Nodes[i] = Nodes[j] => i = j
ASSUME ProcessesDiffer ==
    /\ Watcher \cap Handler = {} /\ Loop \notin Watcher \cup Handler
    /\ NONE \notin Process \cup Member
ASSUME SyncOpsAreKnown == Ops \subseteq AllOps
ASSUME BudgetIsNumber == Budget \in Nat

VARIABLES
    current,  \* the group's current_master; no other member has the role master
    status,   \* the members' statuses, unexpected_stopped counted as failed
    lock,     \* the handler that holds the group's operation lock, or NONE
    proc,     \* the handlers, the loop and the watchers
    up,       \* external: the members whose Redis answers
    monitors, \* external: the master each node monitors, or NONE
    knows,    \* external: the nodes that know the replicas of their master
    epoch,    \* external: the rank of each node's configuration, 0 for MONITOR's
    event,    \* external: a +switch-master is on its way to a watcher
    left      \* what remains of Budget

server   == <<current, status, lock>>
sentinel == <<monitors, knows, epoch, event>>
vars == <<current, status, lock, proc, up, monitors, knows, epoch, event, left>>

-----------------------------------------------------------------------------
(* `pc` is what a process does next; `seen` is the master the loop has     *)
(* read, `addr` the member it works on, `want` the master to be monitored, *)
(* `node` the position in Nodes.                                           *)

Idle == [pc |-> "idle", op |-> "none", seen |-> NONE, addr |-> NONE, want |-> NONE, node |-> 1]

ProcessState == [pc   : {"idle", "agent", "commit", "query", "failover",
                         "read", "clear", "monitor"},
                 op   : {"promote", "stop", "start", "none"},
                 seen : Member \cup {NONE},
                 addr : Member \cup {NONE},
                 want : Member \cup {NONE},
                 node : DOMAIN Nodes]

TypeOK ==
    /\ current \in Member
    /\ status \in [Member -> {"running", "stopped", "failed"}]
    /\ lock \in Handler \cup {NONE}
    /\ proc \in [Process -> ProcessState]
    /\ up \subseteq Member
    /\ monitors \in [Sentinel -> Member \cup {NONE}]
    /\ knows \subseteq Sentinel
    /\ epoch \in [Sentinel -> 0..Cardinality(Sentinel)]
    /\ event \in BOOLEAN
    /\ left \in 0..Budget

\* The group has been created and synchronised; some nodes may be down.
Init ==
    /\ current = Founder
    /\ status = [m \in Member |-> "running"]
    /\ lock = NONE
    /\ proc = [p \in Process |-> Idle]
    /\ up = Member
    /\ monitors = [s \in Sentinel |-> IF s \in Alive THEN current ELSE NONE]
    /\ knows = Alive
    /\ epoch = [s \in Sentinel |-> 0]
    /\ event = FALSE
    /\ left = Budget

Goes(p, pc) == proc' = [proc EXCEPT ![p].pc = pc]

\* What p has learned so far is of no use to the synchronisation.
Syncs(p) == proc' = [proc EXCEPT ![p] = [Idle EXCEPT !.pc = "read"]]

\* Process p is done; a handler releases the lock if it still has it.
Ends(p) ==
    /\ proc' = [proc EXCEPT ![p] = Idle]
    /\ lock' = IF lock = p THEN NONE ELSE lock

Spend(op) == op \in Ops /\ left > 0 /\ left' = left - 1

-----------------------------------------------------------------------------
(* Handlers.                                                               *)

\* promote, stop and start lock the group and ask the agent.
Begin(p, op, n) ==
    /\ op \in {"promote", "stop", "start"}
    /\ Spend(op)
    /\ proc[p] = Idle
    /\ lock = NONE
    /\ op = "promote" => n # current
    /\ lock' = p
    /\ proc' = [proc EXCEPT ![p] = [Idle EXCEPT !.pc = "agent", !.op = op, !.addr = n]]
    /\ UNCHANGED <<current, status, up, sentinel>>

AgentActs(p) ==
    /\ proc[p].pc = "agent"
    /\ up' = CASE proc[p].op = "stop"  -> up \ {proc[p].addr}
               [] proc[p].op = "start" -> up \cup {proc[p].addr}
               [] OTHER                -> up
    /\ Goes(p, "commit")
    /\ UNCHANGED <<server, sentinel, left>>

AgentFails(p) ==
    /\ proc[p].pc = "agent"
    /\ Ends(p)
    /\ UNCHANGED <<current, status, up, sentinel, left>>

CommitPromote(p) ==
    /\ proc[p].pc = "commit" /\ proc[p].op = "promote"
    /\ current' = proc[p].addr
    /\ Syncs(p)
    /\ UNCHANGED <<status, lock, up, sentinel, left>>

CommitStop(p) ==
    /\ proc[p].pc = "commit" /\ proc[p].op = "stop"
    /\ status' = [status EXCEPT ![proc[p].addr] = "stopped"]
    /\ Syncs(p)
    /\ UNCHANGED <<current, lock, up, sentinel, left>>

\* start is the only one that does not tell Sentinel.
CommitStart(p) ==
    /\ proc[p].pc = "commit" /\ proc[p].op = "start"
    /\ status' = [status EXCEPT ![proc[p].addr] = "running"]
    /\ Ends(p)
    /\ UNCHANGED <<current, up, sentinel, left>>

\* An operation on another group ends in a synchronisation of all groups, and
\* so does POST /sentinel/sync.
Other(p) ==
    /\ Spend("other")
    /\ proc[p] = Idle
    /\ Syncs(p)
    /\ UNCHANGED <<server, up, sentinel>>

\* POST /sentinel/event names a new master, used only if no node answers.
Report(p, n) ==
    /\ Spend("event")
    /\ proc[p] = Idle
    /\ proc' = [proc EXCEPT ![p] = [Idle EXCEPT !.pc = "query", !.addr = n]]
    /\ UNCHANGED <<server, up, sentinel>>

-----------------------------------------------------------------------------
(* From Sentinel to the server.                                            *)

Tick ==
    /\ proc[Loop] = Idle
    /\ proc' = [proc EXCEPT ![Loop] = [Idle EXCEPT !.pc = "query", !.seen = current]]
    /\ UNCHANGED <<server, up, sentinel, left>>

\* A watcher takes an event as a hint only, and asks for the master itself.
Watch(p) ==
    /\ proc[p] = Idle
    /\ event
    /\ event' = FALSE
    /\ proc' = [proc EXCEPT ![p] = [Idle EXCEPT !.pc = "query"]]
    /\ UNCHANGED <<server, up, monitors, knows, epoch, left>>

\* querySentinelMaster: the first node that answers with an address.
Answering == {i \in DOMAIN Nodes : Nodes[i] \in Alive /\ monitors[Nodes[i]] # NONE}

FaultyAnswer == IF Nodes[1] \in Alive THEN monitors[Nodes[1]] ELSE NONE

Answer == IF Answering = {} THEN NONE ELSE monitors[Nodes[Min(Answering)]]


\* The loop drops an answer equal to the master it has read before asking.
Query(p) ==
    /\ proc[p].pc = "query"
    /\ LET addr == IF Answer = NONE THEN proc[p].addr ELSE Answer
       IN  IF addr \in {NONE, proc[p].seen}
           THEN Ends(p)
           ELSE /\ proc' = [proc EXCEPT ![p] = [Idle EXCEPT !.pc = "failover", !.addr = addr]]
                /\ UNCHANGED lock
    /\ UNCHANGED <<current, status, up, sentinel, left>>

\* handleSentinelFailover is refused while a handler has the lock, and does
\* nothing if the master is the current one and running.
Failover(p) ==
    /\ proc[p].pc = "failover"
    /\ LET addr == proc[p].addr
       IN  IF lock = NONE /\ ~(addr = current /\ status[addr] = "running")
           THEN /\ current' = addr
                /\ status' = [status EXCEPT ![current] = "failed", ![addr] = "running"]
                /\ Syncs(p)
                /\ UNCHANGED lock
           ELSE /\ Ends(p)
                /\ UNCHANGED <<current, status>>
    /\ UNCHANGED <<up, sentinel, left>>

-----------------------------------------------------------------------------
(* From the server to Sentinel.                                            *)

\* The nodes the synchronisation still has to configure when it has come to
\* position i.  It tries the others too, and goes on after an error.
Remaining(i) == {j \in DOMAIN Nodes : j >= i /\ Nodes[j] \in Alive}

\* buildSentinelMasters: only a running master is to be monitored.
SyncRead(p) ==
    /\ proc[p].pc = "read"
    /\ proc' = [proc EXCEPT ![p] =
                   [Idle EXCEPT !.pc = "clear", !.node = Min(Remaining(1)),
                                !.want = IF status[current] = "running" THEN current ELSE NONE]]
    /\ UNCHANGED <<server, up, sentinel, left>>

FaultyNextNode(p) ==
    /\ proc' = [proc EXCEPT ![p].pc = "clear", ![p].node = @ + 1]
    /\ UNCHANGED lock

\* The next node's turn, or the end.
NextNode(p) ==
    LET rest == Remaining(proc[p].node + 1)
    IN  IF rest = {}
        THEN Ends(p)
        ELSE /\ proc' = [proc EXCEPT ![p].pc = "clear", ![p].node = Min(rest)]
             /\ UNCHANGED lock

\* The node's configuration is replaced by MONITOR's, or removed.
Configure(s, m) ==
    /\ monitors' = [monitors EXCEPT ![s] = m]
    /\ epoch' = [epoch EXCEPT ![s] = 0]
    /\ knows' = knows \ {s}
    /\ UNCHANGED event

\* SENTINEL REMOVE, whether the group is to be monitored again or not.
SyncClear(p) ==
    /\ proc[p].pc = "clear"
    /\ Configure(Nodes[proc[p].node], NONE)
    /\ IF proc[p].want = NONE THEN NextNode(p)
       ELSE Goes(p, "monitor") /\ UNCHANGED lock
    /\ UNCHANGED <<current, status, up, left>>

\* SENTINEL MONITOR, an error if somebody else has been faster.
SyncMonitor(p) ==
    /\ proc[p].pc = "monitor"
    /\ LET s == Nodes[proc[p].node]
       IN  IF monitors[s] = NONE THEN Configure(s, proc[p].want) ELSE UNCHANGED sentinel
    /\ NextNode(p)
    /\ UNCHANGED <<current, status, up, left>>

\* A command gets no answer in its three seconds: the node is left as it is.
Lose(p) ==
    /\ "lose" \in Ops
    /\ proc[p].pc \in {"clear", "monitor"}
    /\ NextNode(p)
    /\ UNCHANGED <<current, status, up, sentinel, left>>

-----------------------------------------------------------------------------
(* Beside them: runReconcile and the timeout of the lock.                  *)

\* runReconcile writes what the container's state says, and tells nobody.
StatusCheck(n) ==
    /\ \/ status[n] = "running" /\ n \notin up
       \/ status[n] = "failed" /\ n \in up
    /\ status' = [status EXCEPT ![n] = IF n \in up THEN "running" ELSE "failed"]
    /\ UNCHANGED <<current, lock, proc, up, sentinel, left>>

LockTimesOut ==
    /\ lock # NONE
    /\ lock' = NONE
    /\ UNCHANGED <<current, status, proc, up, sentinel, left>>

-----------------------------------------------------------------------------
(* External: Redis and Sentinel.                                           *)

Crash(n) ==
    /\ n \in up
    /\ Spend("crash")
    /\ up' = up \ {n}
    /\ UNCHANGED <<server, proc, sentinel>>

\* Only the ranks of the epochs matter.
Ranked(e) ==
    LET below(s) == {t \in Sentinel : e[t] > 0 /\ e[t] <= e[s]}
    IN  [s \in Sentinel |-> Cardinality({e[t] : t \in below(s)})]

Switch(s, m, e) ==
    /\ monitors' = [monitors EXCEPT ![s] = m]
    /\ epoch' = Ranked([epoch EXCEPT ![s] = e])
    /\ event' = (event \/ monitors[s] # m)

\* Node s, with a quorum that sees the master down, moves to another member.
Elect(s, n) ==
    /\ s \in Alive /\ s \in knows
    /\ monitors[s] # NONE /\ monitors[s] \notin up
    /\ Cardinality({t \in Alive : monitors[t] = monitors[s]}) >= Quorum
    /\ n \in up
    /\ Switch(s, n, Cardinality(Sentinel) + 1)
    /\ UNCHANGED <<server, proc, up, knows, left>>

\* The nodes exchange their configurations; the newer one prevails.
Adopt(s, t) ==
    /\ {s, t} \subseteq Alive
    /\ monitors[s] # NONE /\ monitors[t] # NONE
    /\ epoch[t] > epoch[s]
    /\ Switch(s, monitors[t], epoch[t])
    /\ UNCHANGED <<server, proc, up, knows, left>>

\* A node learns of the replicas from a master that answers.
Discover(s) ==
    /\ s \in Alive \ knows
    /\ monitors[s] \in up
    /\ knows' = knows \cup {s}
    /\ UNCHANGED <<server, proc, up, monitors, epoch, event, left>>

-----------------------------------------------------------------------------
\* The steps with a deadline of their own, or none to wait for.
Runs(p) ==
    \/ Query(p)
    \/ Failover(p)
    \/ CommitPromote(p)
    \/ CommitStop(p)
    \/ CommitStart(p)
    \/ SyncRead(p)
    \/ SyncClear(p)
    \/ SyncMonitor(p)

Gossip == \E s, t \in Sentinel : Adopt(s, t)

Election == \E s \in Sentinel, n \in Member : Elect(s, n)

Next ==
    \/ Tick
    \/ \E p \in Process : Runs(p) \/ Lose(p)
    \/ \E p \in Watcher : Watch(p)
    \/ \E p \in Handler : \/ AgentActs(p)
                          \/ AgentFails(p)
                          \/ Other(p)
                          \/ \E n \in Member, op \in Ops : Begin(p, op, n)
                          \/ \E n \in Member : Report(p, n)
    \/ \E n \in Member : StatusCheck(n) \/ Crash(n)
    \/ LockTimesOut
    \/ Election
    \/ Gossip
    \/ \E s \in Sentinel : Discover(s)

Spec == Init /\ [][Next]_vars

\* The reconcile loop ticks for ever, commands to Sentinel have deadlines,
\* locks time out.  Agents and watch connections promise nothing.
ServerSpec ==
    /\ Spec
    /\ WF_vars(Tick)
    /\ \A p \in Process : WF_vars(Runs(p))
    /\ WF_vars(LockTimesOut)

\* The status loop ticks too, and the nodes that are alive do their work.
LiveSpec ==
    /\ ServerSpec
    /\ \A n \in Member : WF_vars(StatusCheck(n))
    /\ WF_vars(Election)
    /\ WF_vars(Gossip)
    /\ \A s \in Sentinel : WF_vars(Discover(s))

-----------------------------------------------------------------------------
(* Properties.                                                             *)

\* When the Sentinel nodes that are alive have settled on a master, the server
\* follows in the end, without a single event, whichever of them is down and
\* whatever handlers did to the lock (ARCHITECTURE.md:1140).
ServerFollows ==
    \A n \in Member : <>[](\A s \in Alive : monitors[s] = n) => <>[](current = n)

\* When a crashed master stays down and a replica is left, the group gets a
\* running master in the end (ARCHITECTURE.md:1150).
MasterComesBack == <>[](up # {}) => []<>(current \in up)

\* A synchronisation that failed on some nodes is made good in the end
\* (ARCHITECTURE.md:1141).
SyncMadeGood ==
    \A n \in Member :
        <>[](current = n /\ status[n] = "running" /\ n \in up)
            => <>[](\A s \in Alive : monitors[s] = n)


=============================================================================
