SPECIFICATION MemorySpec
CONSTANTS
    Absent = Absent
    Keys = {"language", "tone"}
    Callers = {"c1", "c2", "c3"}
    MaxCalls = 4
INVARIANTS
    CalmReadsSettled
PROPERTIES
    StaleEnds
CHECK_DEADLOCK FALSE
