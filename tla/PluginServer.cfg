SPECIFICATION FairSpec

CONSTANTS
    MaxRev = 2
    MaxServer = 1
    MaxStream = 3
    MaxRestart = 2
    MaxFault = 1

INVARIANTS
    TypeOK
    NoSilentLoss
    PipelineOrder
PROPERTIES
    NoRegressOnStream
    SettlesOrStuck

\* A settled system does nothing; nor does one stuck in MissedRemoval.
CHECK_DEADLOCK FALSE
