SPECIFICATION Spec
CONSTANTS
    None = None
    Kinds = {"dsa"}
    Nodes = {n1}
    n1 = n1
    Images = {"0.35", "0.36"}
    InitImages = {"0.36"}
    OldImages = {"0.35"}
    MinImage = "0.36"
    EnvImage = ""
    Configs = {"conf"}
    Selectors = {{"arch=arm64"}}
    ArchLabels = {"arch=amd64", "arch=arm64"}
    Tolerations = {"nil"}
    Params = {1}
    MaxEvents = 2
INVARIANTS
    ConfigPassed
CHECK_DEADLOCK FALSE
