CONSTANTS
    Cores = {0, 1, 2}
    Sockets = {0, 1}
    SocketOf <- TwoSockets
    NumaSettings = {TRUE, FALSE}
    NbReplica = 2
    Writers = {1}
    MaxChanges = 3
    SleepCovers = TRUE
    None = None
SPECIFICATION FairSpec
INVARIANTS NoReadWhileChanging DoneIsVisible SeenInOrder
PROPERTIES ViewsGrow ChangeArrives
