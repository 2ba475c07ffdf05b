SPECIFICATION FairSpec
CONSTANTS
    NumCards = 2
    CliOptions <- MCOptions
    Profiles <- MCProfiles
    Absent = Absent
    Attempts = 2
    ArbitraryErrors = 1
    MaxChange = 2
    MaxFault = 1
INVARIANTS MonitoringCovers DeafForAReason
PROPERTIES AccurateOrStuck

\* A plugin whose loop is blocked does nothing more.
CHECK_DEADLOCK FALSE
