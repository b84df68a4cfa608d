---------------------------- MODULE MCSimulation ----------------------------
(* Three nodes, one of them stable, and two overlapping rolling deployments. *)
EXTENDS Simulation, TLC

MCRatios == << <<"kube-system", 2>>, <<"production", 5>>, <<"staging", 3>> >>
MCProfiles == ("kube-system" :> "stable") @@ ("production" :> "normal")
                @@ ("staging" :> "volatile")
MCScenarios == << [trigger |-> 1, count |-> 2, stagger |-> 1, delay |-> 1],
                  [trigger |-> 2, count |-> 1, stagger |-> 1, delay |-> 2] >>
=============================================================================
