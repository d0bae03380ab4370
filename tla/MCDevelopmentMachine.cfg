SPECIFICATION MCSpec
CONSTANTS
    Services = 2
    Lifecycles = 1
    Processes = 2
    Startable = {1, 2}
    Stoppable = {1, 2}
    Probed = {1}
    Command = Command
    Apple = Apple
    Docker = Docker
    Operation = {o1, o2}
    NoReceipt = NoReceipt
    Nobody = Nobody
    Managed = 1
    Supervised = o1
    Wanted = "auto"
INVARIANTS MachineTypeOK ShutdownIsClean
PROPERTIES ServicesKept RunEnds
CHECK_DEADLOCK FALSE
