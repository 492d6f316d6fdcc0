SPECIFICATION Spec
CONSTANTS
    Seeders = {s1, s2}
    MaxRuns = 2
SYMMETRY Hosts
INVARIANTS
    TypeOK
    SeededRolesOpenTheirRoutes
    RacesHaveAWinner
    OnlyDeathsOrphan
CHECK_DEADLOCK FALSE
