CONSTANTS
    s1 = s1
    s2 = s2
    Slaves = {s1, s2}
    SlaveObytes <- MCObytes
    SlaveIbytes <- MCIbytes
    Position <- MCPosition
    MaxFaults = 1
    CallerRecords = {"Move"}
SPECIFICATION Spec
INVARIANTS
    LegacyWkcChecked
