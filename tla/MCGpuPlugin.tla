----------------------------- MODULE MCGpuPlugin -----------------------------
(* GpuPlugin with the ways to start it and the cards that the run uses.    *)
EXTENDS GpuPlugin

Plain == [wslScan |-> FALSE, healthManagement |-> FALSE, xpumd |-> FALSE,
          limits |-> "default", enableMonitoring |-> FALSE,
          monitoringMode |-> "single", sharedDevNum |-> 1, policy |-> "none",
          allowIDs |-> {}, denyIDs |-> {}]

(* Every source of health, the WSL scan, both monitoring modes and lists   *)
(* of ids; the last three are refused by checkArgs.                        *)
MCOptions ==
    {[Plain EXCEPT !.healthManagement = TRUE, !.limits = "custom"],
     [Plain EXCEPT !.xpumd = TRUE],
     [Plain EXCEPT !.wslScan = TRUE, !.sharedDevNum = 2],
     [Plain EXCEPT !.enableMonitoring = TRUE, !.denyIDs = {"0x49c6"}],
     [Plain EXCEPT !.enableMonitoring = TRUE, !.monitoringMode = "split",
                   !.allowIDs = {"0x49c5"}],
     [Plain EXCEPT !.healthManagement = TRUE, !.xpumd = TRUE],
     [Plain EXCEPT !.allowIDs = {"0x49c5"}, !.denyIDs = {"0x49c6"}],
     [Plain EXCEPT !.wslScan = TRUE, !.enableMonitoring = TRUE]}

Arc == [intel |-> TRUE, drm |-> TRUE, pciID |-> "0x49c5", driver |-> "i915",
        numvfs |-> 0, nodes |-> TRUE]

MCProfiles == {Arc, [Arc EXCEPT !.driver = "xe"], [Arc EXCEPT !.numvfs = 2],
               [Arc EXCEPT !.pciID = "0x49c6", !.driver = "none"]}
=============================================================================
