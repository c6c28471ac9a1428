SPECIFICATION MasterFairSpec
CONSTANTS
    Pid = {p1, p2, p3}
    WorkerProcesses = 2
    MaxStop = 0
    MaxForkFail = 0
    MaxDay = 1
PROPERTY AllRevived
