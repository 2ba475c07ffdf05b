SPECIFICATION FairSpec

CONSTANTS
    MaxRev = 2
    MaxServer = 1
    MaxStream = 3
    MaxRestart = 1
    MaxFault = 0

PROPERTIES
    RestartsWithKubelet

\* A settled system does nothing; nor does one stuck in MissedRemoval.
CHECK_DEADLOCK FALSE
