----------------------- MODULE MCWorkspaceMembership ------------------------
(***************************************************************************)
(* Instances of WorkspaceMembership for TLC.  A behaviour stays within one *)
(* of the scenarios: the bounds that matter together are raised together,  *)
(* and one run explores the union of the instances.                        *)
(***************************************************************************)
EXTENDS WorkspaceMembership

VARIABLE scenario

Scenarios ==
  { [devices |-> 1, jobs |-> 1, rosters |-> 4, faults |-> FaultKinds \ {"stop"}],
    [devices |-> 1, jobs |-> 1, rosters |-> 3, faults |-> {"stop"}],
    [devices |-> 1, jobs |-> 2, rosters |-> 3, faults |-> {}],
    [devices |-> 2, jobs |-> 1, rosters |-> 4, faults |-> {}] }

InScenario ==
  /\ \A d \in Devices : registered[d] # 0 => d <= scenario.devices
  /\ signed <= scenario.rosters
  /\ \A i \in 1..Len(faults) : faults[i] \in scenario.faults

MCInit == Init /\ scenario \in Scenarios
MCNext ==
  /\ UNCHANGED scenario
  /\ \/ (Authority \/ Page) /\ InScenario'
     \/ "restore" \in scenario.faults /\ Restore
     \/ "network" \in scenario.faults /\ (Drops \/ \E j \in Jobs : RequestFails(j))
     \/ "stop" \in scenario.faults /\ Stops
     \/ \E j \in 1..scenario.jobs : Start(j) \/ JobStep(j) \/ RefreshWhileOnline(j)
     \/ Reset
MCSpec == MCInit /\ [][MCNext]_<<vars, scenario>>
=============================================================================
