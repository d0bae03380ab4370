------------------------ MODULE MCDevelopmentMachine ------------------------
(* One service of the plan is local.  Under the supervisor one runtime at  *)
(* a time is down or stalled; between terminals both may be.               *)
EXTENDS DevelopmentMachine

OneFails ==
    scene = "supervised" =>
        Cardinality({r \in Runtime : power'[r] \in {"down", "stalled"}}) <= 1

MCSpec ==
    /\ MachineInit /\ [][MachineNext /\ OneFails]_machineVars
    /\ MachineFairness
=============================================================================
