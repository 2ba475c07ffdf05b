---------------------------- MODULE DsaController ----------------------------
(***************************************************************************)
(* The DSA plugin's controller, pkg/controllers/dsa/controller.go.         *)
(***************************************************************************)
EXTENDS DaemonSets

dsa_configVolumeName == "intel-dsa-config-volume"
dsa_InitVolumes == {"sys-bus-dsa", "sys-bus-pci", "sys-devices", "scratch"}

dsa_validatePlugin(dp) ==
    /\ validatePluginImage(dp.image)
    /\ dp.provisioningConfig # "" => dp.initImage # ""
    /\ dp.initImage # "" => validatePluginImage(dp.initImage)

dsa_getPodArgs(dp) == <<dp.driver, OrOne(dp.param)>>

dsa_removeContainerOnly(t) == [t EXCEPT !.initContainers = <<>>]

dsa_removeInitContainer(t) ==
    [t EXCEPT !.initContainers = <<>>,
              !.volumes = removeVolume(@, dsa_InitVolumes \cup {dsa_configVolumeName})]

dsa_addInitContainer(t, dp) ==
    LET conf == [n \in IF dp.provisioningConfig = "" THEN {} ELSE {dsa_configVolumeName} |->
                    <<dp.provisioningConfig>>]
    IN  [t EXCEPT
           !.initContainers = Append(@, InitContainer(dp.initImage, dp.driver,
               dsa_InitVolumes \cup DOMAIN conf)),
           !.volumes = appendVolumes(@, appendVolumes(HostVolumes(dsa_InitVolumes), conf))]

(* The loop over VolumeMounts sets MountPath in a copy: mounts stay.       *)
dsa_WithDevfs(t, dp) ==
    LET devfsPath == IF dp.driver = "vfio-pci" THEN "/dev/vfio" ELSE "/dev/dsa"
    IN  [t EXCEPT !.volumes = [n \in DOMAIN @ |->
            IF n = "devfs" THEN [i \in DOMAIN @[n] |-> devfsPath] ELSE @[n]]]

dsa_NewDaemonSet(dp) ==
    LET yaml == YamlTemplate({"devfs", "chardevs", "sysfs", "kubeletsockets"})
        t    == Customised(yaml, dp, dsa_getPodArgs(dp))
    IN  dsa_WithDevfs(IF dp.initImage = "" THEN t ELSE dsa_addInitContainer(t, dp), dp)

dsa_provisioningUpdate(t, dp) ==
    \/ \E c \in Range(t.initContainers) :
         c.image # dp.initImage \/ c.env # dp.driver
    \/ /\ dsa_configVolumeName \in DOMAIN t.volumes
       /\ \E c \in Range(t.volumes[dsa_configVolumeName]) : c # dp.provisioningConfig
    \/ t.initContainers = <<>> /\ dp.initImage # ""

dsa_UpdateDaemonSet(t, dp) ==
    LET bare == dsa_removeInitContainer(t)
        init == IF ~dsa_provisioningUpdate(t, dp) THEN t
                ELSE IF dp.initImage = "" THEN bare ELSE dsa_addInitContainer(bare, dp)
    IN  dsa_WithDevfs(Customised(init, dp, dsa_getPodArgs(dp)), dp)
===============================================================================
