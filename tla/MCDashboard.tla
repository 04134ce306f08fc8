--------------------------- MODULE MCDashboard ---------------------------
(***************************************************************************)
(* A small server for Dashboard: a replication group 9 of the instances 1  *)
(* and 2.  Its master is 2, so that the first of the group is not its      *)
(* master, or 1 after a failover that left 2 failed.  In the first case a  *)
(* group 8 is left without instances.                                      *)
(***************************************************************************)
EXTENDS Dashboard, TLC

item(role, status) == [group |-> 9, role |-> role, status |-> status]

group(name, master, topology) ==
    name :> [type |-> "replication", currentMaster |-> master, topology |-> topology,
          conflict |-> FALSE]

nodes(status) == [s \in Node |-> status]

MCListings ==
    {[items  |-> 1 :> item("replica", "running") @@ 2 :> item("master", "running"),
      groups |-> group(9, 2, "healthy") @@ group(8, 0, "degraded"), nodes |-> nodes("healthy")],
     [items  |-> 1 :> item("master", "running") @@ 2 :> item("replica", "failed"),
      groups |-> group(9, 1, "degraded"), nodes |-> nodes("unhealthy")]}

=============================================================================
