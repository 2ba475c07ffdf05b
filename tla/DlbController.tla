---------------------------- MODULE DlbController ----------------------------
(***************************************************************************)
(* The DLB plugin's controller, pkg/controllers/dlb/controller.go.         *)
(***************************************************************************)
EXTENDS DaemonSets

dlb_InitVolumes == {"sysfs-devices", "sysfs-driver-dlb2"}

dlb_validatePlugin(dp) ==
    /\ dp.initImage # "" => validatePluginImage(dp.initImage)
    /\ validatePluginImage(dp.image)

(* The only argument is the log level, which has no default.               *)
dlb_getPodArgs(dp) == <<dp.param>>

dlb_setInitContainer(t, dp) ==
    [t EXCEPT !.initContainers = <<InitContainer(dp.initImage, "", dlb_InitVolumes)>>,
              !.volumes = addVolumeIfMissing(addVolumeIfMissing(@,
                              "sysfs-devices"), "sysfs-driver-dlb2")]

dlb_unsetInitContainer(t) ==
    [t EXCEPT !.initContainers = <<>>, !.volumes = removeVolume(@, dlb_InitVolumes)]

dlb_NewDaemonSet(dp) ==
    LET yaml == YamlTemplate({"devfs", "sysfs", "kubeletsockets"})
        t    == Customised(yaml, dp, dlb_getPodArgs(dp))
    IN  IF dp.initImage = "" THEN dlb_unsetInitContainer(t) ELSE dlb_setInitContainer(t, dp)

dlb_processInitContainer(t, dp) ==
    IF dp.initImage = ""
    THEN IF t.initContainers = <<>> THEN t ELSE dlb_unsetInitContainer(t)
    ELSE IF Len(t.initContainers) # 1 \/ t.initContainers[1].image # dp.initImage
         THEN dlb_setInitContainer(t, dp) ELSE t

dlb_UpdateDaemonSet(t, dp) ==
    Customised(dlb_processInitContainer(t, dp), dp, dlb_getPodArgs(dp))
===============================================================================
