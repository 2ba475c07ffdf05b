---------------------------- MODULE GpuController ----------------------------
(***************************************************************************)
(* The GPU plugin's controller, pkg/controllers/gpu/controller.go.         *)
(***************************************************************************)
EXTENDS DaemonSets

(* The checks of PCI ids and of the allocation policy are about arguments  *)
(* that Params abstracts.  The init image is not checked.                  *)
gpu_validatePlugin(dp) == validatePluginImage(dp.image)

gpu_getPodArgs(dp) == <<OrOne(dp.param)>>

gpu_setInitContainer(t, img) ==
    [t EXCEPT !.initContainers = <<InitContainer(img, "", {"nfd-sources"})>>,
              !.volumes = addVolumeIfMissing(@, "nfd-sources")]

(* The volume it removes is not the one gpu_setInitContainer adds.             *)
gpu_unsetInitContainer(t) ==
    [t EXCEPT !.initContainers = <<>>, !.volumes = removeVolume(@, {"nfd-features"})]

gpu_NewDaemonSet(dp) ==
    LET yaml == YamlTemplate({"devfs", "sysfsdrm", "kubeletsockets", "cdipath"})
        t    == Customised(yaml, dp, gpu_getPodArgs(dp))
    IN  IF dp.initImage = "" THEN gpu_unsetInitContainer(t)
        ELSE gpu_setInitContainer(t, dp.initImage)

gpu_processInitContainer(t, dp) ==
    IF dp.initImage = ""
    THEN IF t.initContainers = <<>> THEN t ELSE gpu_unsetInitContainer(t)
    ELSE IF Len(t.initContainers) # 1 \/ t.initContainers[1].image # dp.initImage
         THEN gpu_setInitContainer(t, dp.initImage) ELSE t

gpu_UpdateDaemonSet(t, dp) ==
    Customised(gpu_processInitContainer(t, dp), dp, gpu_getPodArgs(dp))
===============================================================================
