------------------------------ MODULE DaemonSets ------------------------------
(***************************************************************************)
(* What the controllers of the eight device plugins share: the custom      *)
(* resource a user writes (dp), the pod template the operator derives from *)
(* it, and the helpers on templates.  Source: pkg/controllers and the yaml *)
(* files of deployments.                                                   *)
(*                                                                         *)
(* A template keeps what the controllers read or write.  Its volumes map a *)
(* name to the sources of the volumes of that name, in the order of the    *)
(* list (the order of volumes with different names is never read): "host", *)
(* a device path or the name of a ConfigMap.  mounts are the names of the  *)
(* volumes a container mounts.  The rest of a container (security context, *)
(* resources) is constant.                                                 *)
(***************************************************************************)
EXTENDS Integers, Sequences, FiniteSets, Functions

CONSTANTS
    Images, InitImages, \* image references
    OldImages,          \* those with a tag below ImageMinVersion
    MinImage,           \* an image with its tag replaced by ImageMinVersion
    EnvImage,           \* the plugin's *_SHA environment variable, or ""
    Configs,            \* names of provisioning ConfigMaps
    Selectors,          \* sets of node labels
    ArchLabels,         \* the labels with the key kubernetes.io/arch
    Tolerations,        \* "nil", "empty" or others
    Params              \* a numeric option such as sharedDevNum, 0 if unset

ASSUME ImageAssumption ==
    /\ OldImages \subseteq Images \cup InitImages
    /\ MinImage \in (Images \cap InitImages) \ OldImages
    /\ EnvImage \in (Images \ OldImages) \cup {""}
    /\ "" \notin Images \cup InitImages \cup Configs
    /\ Params \subseteq Nat

ASSUME ConfigAssumption == Configs \cap {"host", "/dev/dsa", "/dev/vfio"} = {}

(* The custom resources of all kinds; a kind ignores what it lacks.  driver*)
(* is DSA's Driver and QAT's KernelVfDrivers ("4xxxvf": one with a         *)
(* configurable device is among them).                                     *)
Specs == [image : Images, initImage : InitImages \cup {""},
          provisioningConfig : Configs \cup {""}, driver : {"idxd", "vfio-pci",
          "c6xxvf", "4xxxvf"}, nodeSelector : Selectors,
          tolerations : Tolerations, param : Params]

-----------------------------------------------------------------------------
(* Images.                                                                 *)

UpgradeImageUntagged(s, env) == IF s \in OldImages THEN "" ELSE s

UpgradeImage(s, env) ==
    IF s # "" /\ env # "" /\ s # env THEN env
    ELSE IF s \in OldImages THEN MinImage ELSE s

UpgradeImages(dp) ==
    [dp EXCEPT !.image = UpgradeImage(@, EnvImage),
               !.initImage = UpgradeImage(@, "")]

validatePluginImage(s) == s \notin OldImages \cup {""}

-----------------------------------------------------------------------------
(* Templates.                                                              *)

defaultNodeSelector == {"arch=amd64"}

HostVolumes(names) == [n \in names |-> <<"host">>]

(* A plugin's yaml file: its volumes, all mounted by its only container.   *)
YamlTemplate(names) ==
    [image |-> "devel", args |-> <<>>, nodeSelector |-> defaultNodeSelector,
     tolerations |-> "nil", initContainers |-> <<>>,
     volumes |-> HostVolumes(names), mounts |-> names]

removeVolume(volumes, names) ==
    [n \in DOMAIN volumes \ names |-> volumes[n]]

(* Appending the volumes of one list to another.                           *)
appendVolumes(volumes, more) ==
    [n \in DOMAIN volumes \cup DOMAIN more |->
        IF n \notin DOMAIN volumes THEN more[n]
        ELSE IF n \notin DOMAIN more THEN volumes[n] ELSE volumes[n] \o more[n]]

addVolumeIfMissing(volumes, name) ==
    IF name \in DOMAIN volumes THEN volumes
    ELSE appendVolumes(volumes, HostVolumes({name}))

(* A container that mounts the named volumes.                              *)
InitContainer(img, env, names) ==
    [image |-> img, env |-> env, mounts |-> names]

(* What every NewDaemonSet and UpdateDaemonSet copies from the resource.   *)
Customised(t, dp, args) ==
    [t EXCEPT !.image = dp.image, !.args = args,
              !.tolerations = dp.tolerations,
              !.nodeSelector = IF dp.nodeSelector = {}
                               THEN defaultNodeSelector ELSE dp.nodeSelector]

(* An option that defaults to 1.                                           *)
OrOne(n) == IF n > 0 THEN n ELSE 1

-----------------------------------------------------------------------------
(* The API server (external).                                              *)

(* A pod template is rejected when two of its volumes share a name or a    *)
(* container mounts a volume that is not there.                            *)
ValidTemplate(t) ==
    /\ \A n \in DOMAIN t.volumes : Len(t.volumes[n]) = 1
    /\ t.mounts \subseteq DOMAIN t.volumes
    /\ \A c \in Range(t.initContainers) : c.mounts \subseteq DOMAIN t.volumes

(* An empty list is not stored.                                            *)
Stored(t) == [t EXCEPT !.tolerations = IF @ = "empty" THEN "nil" ELSE @]
===============================================================================
