CONSTANTS
    Slaves = {s1, s2}
    SlaveObytes <- MCObytes
    SlaveIbytes <- MCIbytes
    MaxFaults = 1
    CallerRecords = {"Move"}
SPECIFICATION FairSpec
PROPERTIES
    InitReachesOp
