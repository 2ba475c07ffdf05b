---------------------------- MODULE QatController ----------------------------
(***************************************************************************)
(* The QAT plugin's controller, pkg/controllers/qat/controller.go.         *)
(***************************************************************************)
EXTENDS DaemonSets

qatConfigVolume == "intel-qat-config-volume"

qat_validatePlugin(dp) ==
    /\ dp.initImage # "" => validatePluginImage(dp.initImage)
    /\ dp.provisioningConfig # "" => dp.initImage # "" /\ dp.driver = "4xxxvf"
    /\ validatePluginImage(dp.image)

(* -max-num-devices defaults to 32.                                        *)
qat_getPodArgs(dp) == <<dp.driver, IF dp.param > 0 THEN dp.param ELSE 32>>

qat_provisioningConfigChanged(t, dp) ==
    LET currentConfig == IF qatConfigVolume \in DOMAIN t.volumes
                         THEN t.volumes[qatConfigVolume][1] ELSE ""
    IN  currentConfig # dp.provisioningConfig

(* Replaces the config volume where it is, or appends it.                  *)
qat_SetConfigVolume(volumes, config) ==
    IF qatConfigVolume \in DOMAIN volumes
    THEN [volumes EXCEPT ![qatConfigVolume] = [i \in DOMAIN @ |-> config]]
    ELSE appendVolumes(volumes, [n \in {qatConfigVolume} |-> <<config>>])

(* The container's env lists the PCI ids of the drivers' devices.          *)
qat_setInitContainer(t, dp) ==
    LET vols == addVolumeIfMissing(t.volumes, "sysfs")
        conf == dp.provisioningConfig # ""
    IN  [t EXCEPT
           !.initContainers = <<InitContainer(dp.initImage, dp.driver,
               {"sysfs"} \cup (IF conf THEN {qatConfigVolume} ELSE {}))>>,
           !.volumes = IF conf THEN qat_SetConfigVolume(vols, dp.provisioningConfig)
                       ELSE vols]

qat_NewDaemonSet(dp) ==
    LET yaml == YamlTemplate({"devdir", "debugfsdir", "pcidir", "kubeletsockets"})
        t    == Customised(yaml, dp, qat_getPodArgs(dp))
    IN  IF dp.initImage = "" THEN t ELSE qat_setInitContainer(t, dp)

(* The init container follows the resource, unless only its drivers change.*)
qat_processInitContainer(t, dp) ==
    IF dp.initImage = ""
    THEN IF t.initContainers = <<>> THEN t
         ELSE [t EXCEPT !.initContainers = <<>>,
                        !.volumes = removeVolume(@, {"sysfs", qatConfigVolume})]
    ELSE IF \/ Len(t.initContainers) # 1
            \/ t.initContainers[1].image # dp.initImage
            \/ qat_provisioningConfigChanged(t, dp)
         THEN qat_setInitContainer(IF dp.provisioningConfig # "" THEN t
                 ELSE [t EXCEPT !.volumes = removeVolume(@, {qatConfigVolume})], dp)
         ELSE t

qat_UpdateDaemonSet(t, dp) ==
    Customised(qat_processInitContainer(t, dp), dp, qat_getPodArgs(dp))
===============================================================================
