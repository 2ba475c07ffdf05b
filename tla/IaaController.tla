---------------------------- MODULE IaaController ----------------------------
(***************************************************************************)
(* The IAA plugin's controller, pkg/controllers/iaa/controller.go.         *)
(***************************************************************************)
EXTENDS DaemonSets

iaa_configVolumeName == "intel-iaa-config-volume"
iaa_InitVolumes == {"sys-bus-dsa", "sys-devices", "scratch"}

iaa_validatePlugin(dp) ==
    /\ validatePluginImage(dp.image)
    /\ dp.provisioningConfig # "" => dp.initImage # ""
    /\ dp.initImage # "" => validatePluginImage(dp.initImage)

iaa_getPodArgs(dp) == <<OrOne(dp.param)>>

iaa_removeInitContainer(t) ==
    [t EXCEPT !.initContainers = <<>>,
              !.volumes = removeVolume(@, iaa_InitVolumes \cup {iaa_configVolumeName})]

iaa_addInitContainer(t, dp) ==
    LET conf == [n \in IF dp.provisioningConfig = "" THEN {} ELSE {iaa_configVolumeName} |->
                    <<dp.provisioningConfig>>]
    IN  [t EXCEPT
           !.initContainers = Append(@, InitContainer(dp.initImage, "iaa",
               iaa_InitVolumes \cup DOMAIN conf)),
           !.volumes = appendVolumes(@, appendVolumes(HostVolumes(iaa_InitVolumes), conf))]

iaa_NewDaemonSet(dp) ==
    LET yaml == YamlTemplate({"devfs", "chardevs", "sysfs", "kubeletsockets"})
        t    == Customised(yaml, dp, iaa_getPodArgs(dp))
    IN  IF dp.initImage = "" THEN t ELSE iaa_addInitContainer(t, dp)

iaa_provisioningUpdate(t, dp) ==
    \/ \E c \in Range(t.initContainers) : c.image # dp.initImage
    \/ /\ iaa_configVolumeName \in DOMAIN t.volumes
       /\ \E c \in Range(t.volumes[iaa_configVolumeName]) : c # dp.provisioningConfig
    \/ t.initContainers = <<>> /\ dp.initImage # ""

(* Unlike the others it sets the architecture among the user's labels,     *)
(* which iaa_NewDaemonSet does not.                                        *)
iaa_UpdateDaemonSet(t, dp) ==
    LET bare == iaa_removeInitContainer(t)
        init == IF ~iaa_provisioningUpdate(t, dp) THEN t
                ELSE IF dp.initImage = "" THEN bare ELSE iaa_addInitContainer(bare, dp)
    IN  [Customised(init, dp, iaa_getPodArgs(dp)) EXCEPT
            !.nodeSelector = (dp.nodeSelector \ ArchLabels) \cup defaultNodeSelector]
===============================================================================
