SPECIFICATION FairSpec
CONSTANTS
    NumPf = 2
    NumFn = 2
    Enabled = {1, 2}
    WithServices = {1, 2}
    Services = {"sym-asym", "asym-sym", "dc"}
    Setups <- MCSetups
    Containers <- MCContainers
    Size <- MCSize
    MaxEvent = 1
    MaxFault = 1
INVARIANTS TypeOK  EnvNamesDevices ExclusiveUnlessRetyped
PROPERTIES PolicyKept Settles
