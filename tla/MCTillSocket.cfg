SPECIFICATION Spec
CONSTANTS
    Worker = {w1, w2}
    Socket = {s1, s2, s3}
    Event = {e1}
    NoWorker = NoWorker
    NoSocket = NoSocket
    NoEvent = NoEvent
    MaxRetries = 2
    MaxRenders = 1
    MaxFaults = 1
SYMMETRY Symmetry
CHECK_DEADLOCK FALSE
INVARIANTS RegistryAgrees ReachesWhoStays NeverStuck
