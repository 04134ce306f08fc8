-------------------------- MODULE GroupRegistry --------------------------
(***************************************************************************)
(* What the server promises of its instances and groups to those who read  *)
(* them, the proxy, Sentinel and the users, without handlers, locks,       *)
(* statuses and agents.                                                    *)
(*                                                                         *)
(* An instance has one address as long as it exists, and has it for        *)
(* itself.  A group has one master port, for itself, until it goes, gets   *)
(* at most one auto port, and goes only when nobody is left in it.  New    *)
(* replicas join a group that has its master.  Mastership passes from the  *)
(* current master of a group to one of its members, in one step.           *)
(***************************************************************************)
EXTENDS Naturals, Functions

CONSTANTS Name, Group, Server, RedisPort, EnvoyMaster, EnvoyAuto, NONE

VARIABLES
    address,    \* per instance its server and port
    member,     \* per instance its group, or NONE
    masters,    \* the instances that are masters
    current,    \* per group the instance last made its master
    masterPort, \* per group the listener that leads to its master
    autoPort    \* per group the listener that leads to all members, 0 for none

listeners == <<masterPort, autoPort>>

vars == <<address, member, masters, current, masterPort, autoPort>>

Init ==
    /\ address = [n \in {} |-> NONE]
    /\ member = [n \in {} |-> NONE]
    /\ masters = {}
    /\ current = [g \in {} |-> NONE]
    /\ masterPort = [g \in {} |-> NONE]
    /\ autoPort = [g \in {} |-> NONE]

Add(f, k, v) == [x \in DOMAIN f \cup {k} |-> IF x = k THEN v ELSE f[x]]

Drop(f, k) == Restrict(f, DOMAIN f \ {k})

\* The values that f gives to nobody.
Free(S, f) == {v \in S : \A k \in DOMAIN f : f[k] # v}

Register(n, g) ==
    /\ n \notin DOMAIN member
    /\ \E a \in Free(Server \X RedisPort, address) : address' = Add(address, n, a)
    /\ member' = Add(member, n, g)

\* Group g may get an auto port if it has none.
MayOpen(g) ==
    \/ UNCHANGED autoPort
    \/ /\ autoPort[g] = 0
       /\ \E p \in Free(EnvoyAuto, autoPort) : autoPort' = [autoPort EXCEPT ![g] = p]

-----------------------------------------------------------------------------
\* A master founds its group, and is alone in it.
Found(n, g) ==
    /\ g \notin DOMAIN current
    /\ \A m \in DOMAIN member : member[m] # g
    /\ Register(n, g)
    /\ masters' = masters \cup {n}
    /\ current' = Add(current, g, n)
    /\ \E p \in Free(EnvoyMaster, masterPort) : masterPort' = Add(masterPort, g, p)
    /\ \E p \in Free(EnvoyAuto, autoPort) \cup {0} : autoPort' = Add(autoPort, g, p)

\* A replica joins a group whose current master is a member and a master.
Join(n, g) ==
    /\ g \in DOMAIN current
    /\ current[g] \in masters
    /\ member[current[g]] = g
    /\ Register(n, g)
    /\ MayOpen(g)
    /\ UNCHANGED <<masters, current, masterPort>>

\* A group goes when nobody is left in it.
Dissolve(g) ==
    /\ g \in DOMAIN current
    /\ \A m \in DOMAIN member' : member'[m] # g
    /\ current' = Drop(current, g)
    /\ masterPort' = Drop(masterPort, g)
    /\ autoPort' = Drop(autoPort, g)

\* An instance goes, alone or as the last of a group.
Delete(n) ==
    /\ n \in DOMAIN member
    /\ address' = Drop(address, n)
    /\ member' = Drop(member, n)
    /\ masters' = masters \ {n}
    /\ \/ UNCHANGED <<current, listeners>>
       \/ \E g \in Group : Dissolve(g)

\* The last of a group has left it otherwise.
Close(g) ==
    /\ UNCHANGED <<address, member, masters>>
    /\ Dissolve(g)

\* A member becomes the master and the current master, wherever it is, becomes
\* a replica; a failover brings it back into the group.
Elect(n, g) ==
    /\ g \in DOMAIN current
    /\ n \in DOMAIN member /\ member[n] = g
    /\ masters' = (masters \ {current[g]}) \cup {n}
    /\ current' = [current EXCEPT ![g] = n]
    /\ \/ UNCHANGED member
       \/ current[g] \in DOMAIN member /\ member' = [member EXCEPT ![current[g]] = g]
    /\ UNCHANGED <<address, listeners>>

\* An instance without group is master of itself.
ElectAlone(n) ==
    /\ n \in DOMAIN member /\ member[n] = NONE
    /\ masters' = masters \cup {n}
    /\ UNCHANGED <<address, member, current, listeners>>

\* An instance becomes a replica in a group that has members, or in none.
Move(n, g) ==
    /\ n \in DOMAIN member
    /\ member' = [member EXCEPT ![n] = g]
    /\ masters' = masters \ {n}
    /\ \/ g = NONE /\ UNCHANGED autoPort
       \/ g \in DOMAIN current /\ (\E m \in DOMAIN member : member[m] = g) /\ MayOpen(g)
    /\ UNCHANGED <<address, current, masterPort>>

Next ==
    \/ \E n \in Name, g \in Group : Found(n, g) \/ Join(n, g) \/ Elect(n, g)
    \/ \E n \in Name, g \in Group \cup {NONE} : Move(n, g)
    \/ \E n \in Name : ElectAlone(n) \/ Delete(n)
    \/ \E g \in Group : Close(g)

Spec == Init /\ [][Next]_vars

=============================================================================
