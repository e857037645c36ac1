CONSTANTS
    Slaves = {s1, s2}
    SlaveObytes <- MCObytes
    SlaveIbytes <- MCIbytes
    MaxFaults = 2
    CallerRecords = {"Move"}
SYMMETRY MCSymmetry
SPECIFICATION Spec
INVARIANTS
    RecoverComplete
