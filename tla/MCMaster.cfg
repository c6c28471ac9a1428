\* Two workers, and room for their zombies and for the extra worker of a stop.
SPECIFICATION MasterFairSpec
CONSTANTS
    Pid = {p1, p2, p3, p4}
    WorkerProcesses = 2
    MaxStop = 1
    MaxForkFail = 1
    MaxDay = 1
INVARIANTS
    WorkersBounded
    NoForgottenZombie
PROPERTIES
    ZombiesReaped
    SomeoneRevived
    RotationHonoured
