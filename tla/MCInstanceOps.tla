-------------------------- MODULE MCInstanceOps --------------------------
(***************************************************************************)
(* Small instances of InstanceOps for TLC.                                 *)
(***************************************************************************)
EXTENDS InstanceOps, TLC

\* Names, groups and handlers are interchangeable; ports are not.
Symmetry == Permutations(Name) \cup Permutations(Group) \cup Permutations(Request)

\* A replication group of a master m and one replica n, both running.
GroupInit ==
    \E m, n \in Name, g \in Group, s \in Server :
        /\ m # n
        /\ LET p    == Min(RedisPort)
               of(role, port, master) ==
                   [group |-> g, role |-> role, server |-> s, port |-> port,
                    replicaOf |-> master, status |-> "running", lock |-> NONE]
           IN  instances = (m :> of("master", p, NONE))
                           @@ (n :> of("replica", Min(RedisPort \ {p}), m))
        /\ groups = (g :> [type |-> "replication", currentMaster |-> m,
                           topology |-> "healthy",
                           masterPort |-> Min(EnvoyMaster),
                           autoPort |-> Min(EnvoyAuto)])
        /\ req = [r \in Request |-> Idle]
        /\ recon = [k \in Reconciler |-> NoPatches]

GroupSpec == GroupInit /\ [][Next]_vars

=============================================================================
