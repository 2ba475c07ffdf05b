---------------------------- MODULE OperatorProofs ----------------------------
(***************************************************************************)
(* Proofs about Operator, for any kinds, specs, nodes and events.  First   *)
(* what NewDaemonSet and UpdateDaemonSet of the eight controllers promise  *)
(* of the templates they make; then types, that the DaemonSet carries its  *)
(* resource's spec and a status is current when nothing is left to do,     *)
(* that Reconcile keeps the edits of users and that it writes only         *)
(* templates the API server accepts.                                       *)
(***************************************************************************)
EXTENDS Operator, FiniteSetTheorems, TLAPS

(* The volumes of a kind's yaml file, of its init container and of its     *)
(* provisioning config.                                                    *)
BaseVolumes(k) ==
    CASE k = "dlb" -> {"devfs", "sysfs", "kubeletsockets"}
      [] k = "dsa" -> {"devfs", "chardevs", "sysfs", "kubeletsockets"}
      [] k = "fpga" -> {"devfs", "sysfs", "kubeletsockets", "cdidir"}
      [] k = "gpu" -> {"devfs", "sysfsdrm", "kubeletsockets", "cdipath"}
      [] k = "iaa" -> {"devfs", "chardevs", "sysfs", "kubeletsockets"}
      [] k = "npu" -> {"devfs", "sysfsaccel", "kubeletsockets"}
      [] k = "qat" -> {"devdir", "debugfsdir", "pcidir", "kubeletsockets"}
      [] k = "sgx" -> {"kubeletsockets", "sgx-enclave", "sgx-provision", "cdipath"}

InitVolumes(k) ==
    CASE k = "dlb" -> {"sysfs-devices", "sysfs-driver-dlb2"}
      [] k = "dsa" -> {"sys-bus-dsa", "sys-bus-pci", "sys-devices", "scratch"}
      [] k = "fpga" -> {"intel-fpga-sw"}
      [] k = "gpu" -> {"nfd-sources"}
      [] k = "iaa" -> {"sys-bus-dsa", "sys-devices", "scratch"}
      [] k = "npu" -> {}
      [] k = "qat" -> {"sysfs"}
      [] k = "sgx" -> {"nfd-features"}

ConfigVolumes(k) ==
    CASE k = "dsa" -> {"intel-dsa-config-volume"}
      [] k = "iaa" -> {"intel-iaa-config-volume"}
      [] k = "qat" -> {"intel-qat-config-volume"}
      [] OTHER -> {}

Sources(k, n) ==
    IF n \in ConfigVolumes(k) THEN Configs ELSE {"host", "/dev/dsa", "/dev/vfio"}

(* No volume of the yaml file is missing, none is foreign to the kind, and *)
(* none is there twice.                                                    *)
WellFormedVolumes(k, volumes) ==
    /\ volumes = [n \in DOMAIN volumes |-> volumes[n]]
    /\ BaseVolumes(k) \subseteq DOMAIN volumes
    /\ DOMAIN volumes \subseteq BaseVolumes(k) \cup InitVolumes(k) \cup ConfigVolumes(k)
    /\ \A n \in DOMAIN volumes : \E x \in Sources(k, n) : volumes[n] = <<x>>

(* An init container has an image and the volumes it mounts; the volumes   *)
(* made for it, but GPU's, go with it.                                     *)
WellFormedInit(k, initContainers, volumes) ==
    \/ /\ initContainers = <<>> /\ k # "fpga"
       /\ k # "gpu" => DOMAIN volumes = BaseVolumes(k)
    \/ /\ k # "npu"
       /\ \E c \in [image : InitImages \cup {"devel"},
                   env : {"", "iaa", "idxd", "vfio-pci", "c6xxvf", "4xxxvf"},
                   mounts : SUBSET DOMAIN volumes] : initContainers = <<c>>

Template(i, a, l, o, ic, v, m) ==
    [image |-> i, args |-> a, nodeSelector |-> l, tolerations |-> o,
     initContainers |-> ic, volumes |-> v, mounts |-> m]

Shaped(k, t) ==
    /\ \E i, a, l, o, ic, v, m : t = Template(i, a, l, o, ic, v, m)
    /\ t.mounts = BaseVolumes(k)

WellFormed(k, t) ==
    /\ Shaped(k, t)
    /\ WellFormedVolumes(k, t.volumes)
    /\ WellFormedInit(k, t.initContainers, t.volumes)

-----------------------------------------------------------------------------
(* Lists of volumes.                                                       *)

(* w is v without the volumes of some names.                               *)
Shrunk(k, v, w, names) ==
    /\ WellFormedVolumes(k, w) /\ DOMAIN w = DOMAIN v \ names
    /\ \A n \in DOMAIN w : w[n] = v[n]

(* w is v with volumes of some names, which those not in v have from more. *)
Grown(k, v, w, more) ==
    /\ WellFormedVolumes(k, w) /\ DOMAIN w = DOMAIN v \cup DOMAIN more
    /\ \A n \in DOMAIN w : w[n] = IF n \in DOMAIN v THEN v[n] ELSE more[n]

LEMMA RemoveShrinks ==
    ASSUME NEW k, NEW v, WellFormedVolumes(k, v), NEW names, names \cap BaseVolumes(k) = {}
    PROVE  Shrunk(k, v, removeVolume(v, names), names)
BY Zenon DEF WellFormedVolumes, removeVolume, Shrunk

(* Volumes made for an init container.                                     *)
Extra(k, more) ==
    /\ more = [n \in DOMAIN more |-> more[n]]
    /\ DOMAIN more \subseteq InitVolumes(k) \cup ConfigVolumes(k)
    /\ \A n \in DOMAIN more : \E x \in Sources(k, n) : more[n] = <<x>>

LEMMA AppendGrows ==
    ASSUME NEW k, NEW v, WellFormedVolumes(k, v), NEW more, Extra(k, more),
           DOMAIN more \cap DOMAIN v = {}
    PROVE  Grown(k, v, appendVolumes(v, more), more)
BY Zenon DEF WellFormedVolumes, appendVolumes, Grown, Extra

LEMMA HostExtra ==
    ASSUME NEW k, NEW names, names \subseteq InitVolumes(k), names \cap ConfigVolumes(k) = {}
    PROVE  Extra(k, HostVolumes(names))
BY Zenon DEF HostVolumes, Extra, Sources

LEMMA AddIfMissingGrows ==
    ASSUME NEW k, NEW v, WellFormedVolumes(k, v),
           NEW name \in InitVolumes(k), name \notin ConfigVolumes(k)
    PROVE  Grown(k, v, addVolumeIfMissing(v, name), HostVolumes({name}))
<1>1. CASE name \in DOMAIN v
    BY Zenon, <1>1 DEF addVolumeIfMissing, Grown, HostVolumes
<1>2. CASE name \notin DOMAIN v
  <2>1. addVolumeIfMissing(v, name) = appendVolumes(v, HostVolumes({name}))
      BY Zenon, <1>2 DEF addVolumeIfMissing
  <2>2. DOMAIN HostVolumes({name}) \cap DOMAIN v = {}
      BY Zenon, <1>2 DEF HostVolumes
  <2>3. Extra(k, HostVolumes({name}))
      BY Zenon, HostExtra
  <2>4. QED
      BY Zenon, <2>1, <2>2, <2>3, AppendGrows
<1>3. QED
    BY Zenon, <1>1, <1>2

LEMMA HostWellFormed ==
    ASSUME NEW k, BaseVolumes(k) \cap ConfigVolumes(k) = {}
    PROVE  WellFormedVolumes(k, HostVolumes(BaseVolumes(k)))
BY Zenon DEF WellFormedVolumes, HostVolumes, Sources

-----------------------------------------------------------------------------
(* Templates.                                                              *)

LEMMA WellFormedValid ==
    ASSUME NEW k, NEW t, WellFormed(k, t)
    PROVE  ValidTemplate(t)
<1>1. \A n \in DOMAIN t.volumes : Len(t.volumes[n]) = 1
  <2> SUFFICES ASSUME NEW n \in DOMAIN t.volumes PROVE Len(t.volumes[n]) = 1
      BY Zenon
  <2>1. PICK x : t.volumes[n] = <<x>>
      BY Zenon DEF WellFormed, WellFormedVolumes
  <2>2. QED
      BY <2>1
<1>2. t.mounts \subseteq DOMAIN t.volumes
    BY Zenon DEF WellFormed, Shaped, WellFormedVolumes
<1>3. \A c \in Range(t.initContainers) : c.mounts \subseteq DOMAIN t.volumes
  <2>1. CASE t.initContainers = <<>>
      BY <2>1 DEF Range
  <2>2. CASE t.initContainers # <<>>
    <3>1. PICK c : t.initContainers = <<c>> /\ c.mounts \subseteq DOMAIN t.volumes
        BY Zenon, <2>2 DEF WellFormed, WellFormedInit
    <3>2. Range(t.initContainers) = {c}
        BY <3>1 DEF Range
    <3>3. QED
        BY Zenon, <3>1, <3>2
  <2>3. QED
      BY Zenon, <2>1, <2>2
<1>4. QED
    BY Zenon, <1>1, <1>2, <1>3 DEF ValidTemplate

(* u is t but for what sp and args say of images, labels and so on.        *)
FromSpec(k, t, u, sp, args) ==
    /\ WellFormed(k, u) /\ u.image = sp.image /\ u.args = args
    /\ u.tolerations = sp.tolerations
    /\ sp.nodeSelector \ (IF k = "iaa" THEN ArchLabels ELSE {}) \subseteq u.nodeSelector
    /\ u.volumes = t.volumes /\ u.initContainers = t.initContainers

LEMMA CustomisedFromSpec ==
    ASSUME NEW k, NEW t, WellFormed(k, t), NEW sp, NEW args
    PROVE  FromSpec(k, t, Customised(t, sp, args), sp, args)
<1>1. PICK i, a, l, o, ic, v, m : t = Template(i, a, l, o, ic, v, m)
    BY Zenon DEF WellFormed, Shaped
<1> DEFINE ns == IF sp.nodeSelector = {} THEN defaultNodeSelector ELSE sp.nodeSelector
           t1 == [t EXCEPT !.image = sp.image]
           t2 == [t1 EXCEPT !.args = args]
           t3 == [t2 EXCEPT !.tolerations = sp.tolerations]
           u  == Template(sp.image, args, ns, sp.tolerations, ic, v, m)
<1>2. Customised(t, sp, args) = [t3 EXCEPT !.nodeSelector = ns]
    BY Zenon DEF Customised
<1>3. sp.nodeSelector \subseteq ns
    BY Zenon
<1> HIDE DEF ns
<1>4. t1 = Template(sp.image, a, l, o, ic, v, m)
    BY <1>1 DEF Template
<1> HIDE DEF t1
<1>5. t2 = Template(sp.image, args, l, o, ic, v, m)
    BY <1>4 DEF Template
<1> HIDE DEF t2
<1>6. t3 = Template(sp.image, args, l, sp.tolerations, ic, v, m)
    BY <1>5 DEF Template
<1> HIDE DEF t3
<1>7. Customised(t, sp, args) = u
    BY Zenon, <1>2, <1>6 DEF Template
<1>8. t.mounts = m /\ t.volumes = v /\ t.initContainers = ic
    BY Zenon, <1>1 DEF Template
<1>9. /\ u.mounts = m /\ u.volumes = v /\ u.initContainers = ic
      /\ u.image = sp.image /\ u.args = args /\ u.tolerations = sp.tolerations
      /\ u.nodeSelector = ns
    BY Zenon DEF Template
<1> HIDE DEF u
<1>10. WellFormed(k, u)
    BY Zenon, <1>8, <1>9 DEF WellFormed, Shaped, u
<1>11. QED
    BY Zenon, <1>3, <1>7, <1>8, <1>9, <1>10 DEF FromSpec

(* The API server stores a well-formed template as one.                    *)
LEMMA StoredFields ==
    ASSUME NEW k, NEW t, WellFormed(k, t)
    PROVE  LET x == Stored(t)
           IN  /\ WellFormed(k, x) /\ x.image = t.image /\ x.args = t.args
               /\ x.nodeSelector = t.nodeSelector /\ x.volumes = t.volumes
               /\ x.initContainers = t.initContainers
               /\ x.tolerations = IF t.tolerations = "empty" THEN "nil" ELSE t.tolerations
<1>1. PICK i, a, l, o, ic, v, m : t = Template(i, a, l, o, ic, v, m)
    BY Zenon DEF WellFormed, Shaped
<1> DEFINE p == IF t.tolerations = "empty" THEN "nil" ELSE t.tolerations
           u == Template(i, a, l, p, ic, v, m)
<1>2. Stored(t) = [t EXCEPT !.tolerations = p]
    BY Zenon DEF Stored
<1> HIDE DEF p
<1>3. Stored(t) = u
    BY Zenon, <1>1, <1>2 DEF Template
<1>4. /\ t.mounts = m /\ t.volumes = v /\ t.initContainers = ic
      /\ t.image = i /\ t.args = a /\ t.nodeSelector = l
      /\ u.mounts = m /\ u.volumes = v /\ u.initContainers = ic
      /\ u.image = i /\ u.args = a /\ u.nodeSelector = l /\ u.tolerations = p
    BY Zenon, <1>1 DEF Template
<1> HIDE DEF u
<1>5. WellFormed(k, u)
    BY Zenon, <1>3, <1>4 DEF WellFormed, Shaped, u
<1>6. QED
    BY Zenon, <1>3, <1>4, <1>5 DEF p

LEMMA StoredSame ==
    ASSUME NEW k, NEW t, WellFormed(k, t), t.tolerations # "empty"
    PROVE  Stored(t) = t
<1>1. PICK i, a, l, o, ic, v, m : t = Template(i, a, l, o, ic, v, m)
    BY Zenon DEF WellFormed, Shaped
<1>2. Stored(t) = [t EXCEPT !.tolerations = t.tolerations]
    BY Zenon DEF Stored
<1>3. QED
    BY Zenon, <1>1, <1>2 DEF Template

(* Only a provisioning config's volume has a ConfigMap as its source.      *)
LEMMA ConfigIsOf ==
    ASSUME NEW k, NEW t, WellFormed(k, t)
    PROVE  /\ DOMAIN t.volumes \cap ConfigVolumes(k) = {} => ConfigsOf(t) = {}
           /\ \A n, x : /\ ConfigVolumes(k) = {n} /\ n \in DOMAIN t.volumes
                       /\ t.volumes[n] = <<x>>
                       => ConfigsOf(t) = {x}
<1>1. \A n, x : t.volumes[n] = <<x>> => Range(t.volumes[n]) = {x}
    BY DEF Range
<1>2. ASSUME NEW n \in DOMAIN t.volumes, n \notin ConfigVolumes(k)
      PROVE  Range(t.volumes[n]) \cap Configs = {}
  <2>1. PICK x \in {"host", "/dev/dsa", "/dev/vfio"} : t.volumes[n] = <<x>>
      BY Zenon, <1>2 DEF WellFormed, WellFormedVolumes, Sources
  <2>2. QED
      BY <1>1, <2>1, ConfigAssumption
<1>3. ASSUME NEW n \in DOMAIN t.volumes, n \in ConfigVolumes(k), NEW x, t.volumes[n] = <<x>>
      PROVE  x \in Configs
  <2>1. PICK y \in Configs : t.volumes[n] = <<y>>
      BY Zenon, <1>3 DEF WellFormed, WellFormedVolumes, Sources
  <2>2. QED
      BY <1>3, <2>1
<1>4. DOMAIN t.volumes \cap ConfigVolumes(k) = {} => ConfigsOf(t) = {}
    BY Zenon, <1>2 DEF ConfigsOf
<1>5. ASSUME NEW n, NEW x, ConfigVolumes(k) = {n}, n \in DOMAIN t.volumes, t.volumes[n] = <<x>>
      PROVE  ConfigsOf(t) = {x}
    BY <1>1, <1>2, <1>3, <1>5 DEF ConfigsOf
<1>6. QED
    BY Zenon, <1>4, <1>5

-----------------------------------------------------------------------------
(* NewDaemonSet.                                                           *)

(* A yaml file, customised: no init container yet.                         *)
LEMMA YamlFromSpec ==
    ASSUME NEW k, k # "fpga", BaseVolumes(k) \cap ConfigVolumes(k) = {}, NEW sp, NEW args
    PROVE  LET y == YamlTemplate(BaseVolumes(k))
           IN  /\ FromSpec(k, y, Customised(y, sp, args), sp, args)
               /\ y.initContainers = <<>> /\ DOMAIN y.volumes = BaseVolumes(k)
<1> DEFINE y == YamlTemplate(BaseVolumes(k))
<1>1. DOMAIN y.volumes = BaseVolumes(k) /\ y.initContainers = <<>>
    BY Zenon DEF YamlTemplate, HostVolumes
<1>2. WellFormedVolumes(k, y.volumes)
    BY Zenon, HostWellFormed DEF YamlTemplate
<1>3. y.mounts = BaseVolumes(k) /\ \E i, a, l, o, ic, v, m : y = Template(i, a, l, o, ic, v, m)
    BY Zenon DEF YamlTemplate, Template
<1> HIDE DEF y
<1>4. WellFormedInit(k, y.initContainers, y.volumes)
    BY Zenon, <1>1 DEF WellFormedInit
<1>5. WellFormed(k, y)
    BY Zenon, <1>2, <1>3, <1>4 DEF WellFormed, Shaped
<1>6. QED
    BY Zenon, <1>1, <1>5, CustomisedFromSpec DEF y

WithInit(t, ic, v) == [t EXCEPT !.initContainers = ic, !.volumes = v]

(* u is t with its init container and its volumes replaced.                *)
Replaced(k, t, u, ic, v) ==
    /\ WellFormed(k, u) /\ u.initContainers = ic /\ u.volumes = v
    /\ u.image = t.image /\ u.args = t.args /\ u.tolerations = t.tolerations
    /\ u.nodeSelector = t.nodeSelector

LEMMA ReplacedShaped ==
    ASSUME NEW k, NEW t, Shaped(k, t), NEW ic, NEW v,
           WellFormedVolumes(k, v), WellFormedInit(k, ic, v)
    PROVE  Replaced(k, t, WithInit(t, ic, v), ic, v)
<1>1. PICK i, a, l, o, ic0, v0, m : t = Template(i, a, l, o, ic0, v0, m)
    BY Zenon DEF Shaped
<1> DEFINE t1 == [t EXCEPT !.initContainers = ic]
           u  == Template(i, a, l, o, ic, v, m)
<1>2. WithInit(t, ic, v) = [t1 EXCEPT !.volumes = v]
    BY Zenon DEF WithInit
<1>3. t1 = Template(i, a, l, o, ic, v0, m)
    BY <1>1 DEF Template
<1> HIDE DEF t1
<1>4. [t1 EXCEPT !.volumes = v] = u
    BY <1>3 DEF Template
<1>5. /\ t.mounts = m /\ t.image = i /\ t.args = a /\ t.tolerations = o /\ t.nodeSelector = l
      /\ u.mounts = m /\ u.image = i /\ u.args = a /\ u.tolerations = o /\ u.nodeSelector = l
      /\ u.initContainers = ic /\ u.volumes = v
    BY Zenon, <1>1 DEF Template
<1> HIDE DEF u
<1>6. WellFormed(k, u)
    BY Zenon, <1>5 DEF WellFormed, Shaped, u
<1>7. QED
    BY Zenon, <1>2, <1>4, <1>5, <1>6 DEF Replaced

LEMMA ReplacedWellFormed ==
    ASSUME NEW k, NEW t, WellFormed(k, t), NEW ic, NEW v,
           WellFormedVolumes(k, v), WellFormedInit(k, ic, v)
    PROVE  Replaced(k, t, WithInit(t, ic, v), ic, v)
BY Zenon, ReplacedShaped DEF WellFormed

LEMMA SpecTypes ==
    ASSUME NEW k, NEW s \in SpecsOf(k)
    PROVE  /\ s.initImage \in InitImages \cup {""}
           /\ s.provisioningConfig \in Configs \cup {""}
           /\ s.provisioningConfig # "" => k \in {"dsa", "iaa", "qat"}
           /\ s.driver \in {"idxd", "vfio-pci", "c6xxvf", "4xxxvf"}
BY Zenon DEF SpecsOf, Specs

(* The init containers are what the resource asks for.                     *)
InitOf(ic, s) ==
    /\ s.initImage = "" => ic = <<>>
    /\ s.initImage # "" => ic # <<>> /\ ic[1].image = s.initImage

(* An init container of image sp.initImage that mounts its volumes.        *)
LEMMA InitWellFormed ==
    ASSUME NEW k, k # "npu", NEW s \in SpecsOf(k), s.initImage # "", NEW v, NEW mounts, mounts \subseteq DOMAIN v,
           NEW env \in {"", "iaa", "idxd", "vfio-pci", "c6xxvf", "4xxxvf"}
    PROVE  /\ WellFormedInit(k, <<InitContainer(s.initImage, env, mounts)>>, v)
           /\ InitOf(<<InitContainer(s.initImage, env, mounts)>>, s)
<1>1. s.initImage \in InitImages
    BY Zenon DEF SpecsOf, Specs
<1>2. InitContainer(s.initImage, env, mounts)
        \in [image : InitImages \cup {"devel"},
            env : {"", "iaa", "idxd", "vfio-pci", "c6xxvf", "4xxxvf"}, mounts : SUBSET DOMAIN v]
    BY Zenon, <1>1 DEF InitContainer
<1>3. InitOf(<<InitContainer(s.initImage, env, mounts)>>, s)
    BY Zenon DEF InitContainer, InitOf
<1>4. QED
    BY Zenon, <1>2, <1>3 DEF WellFormedInit

LEMMA InitShape ==
    ASSUME NEW k, NEW t, WellFormed(k, t)
    PROVE  \/ t.initContainers = <<>>
           \/ /\ Len(t.initContainers) = 1 /\ t.initContainers # <<>>
              /\ t.initContainers[1].image # ""
              /\ Range(t.initContainers) = {t.initContainers[1]}
<1> SUFFICES ASSUME t.initContainers # <<>>
             PROVE  /\ Len(t.initContainers) = 1 /\ t.initContainers[1].image # ""
                    /\ Range(t.initContainers) = {t.initContainers[1]}
    BY Zenon
<1>1. PICK c : t.initContainers = <<c>> /\ c.image \in InitImages \cup {"devel"}
    BY Zenon DEF WellFormed, WellFormedInit
<1>2. c.image # ""
    BY Zenon, <1>1, ImageAssumption
<1>3. Range(t.initContainers) = {c}
    BY <1>1 DEF Range
<1>4. Len(t.initContainers) = 1 /\ t.initContainers[1] = c
    BY <1>1
<1>5. QED
    BY Zenon, <1>2, <1>3, <1>4

(* What UpdateDaemonSet makes of the init container: it is the resource's, *)
(* and so is a config.                                                     *)
Processed(k, t, s) ==
    /\ WellFormed(k, t) /\ InitOf(t.initContainers, s)
    /\ ConfigsOf(t) \subseteq {s.provisioningConfig}
    /\ k = "qat" => ConfigsOf(t) = {s.provisioningConfig} \ {""}

LEMMA NoConfig ==
    ASSUME NEW k, ConfigVolumes(k) = {}, NEW t, WellFormed(k, t)
    PROVE  ConfigsOf(t) = {} /\ k # "qat"
<1>1. k # "qat"
    BY Zenon DEF ConfigVolumes
<1>2. DOMAIN t.volumes \cap ConfigVolumes(k) = {}
    BY Zenon
<1>3. QED
    BY Zenon, <1>1, <1>2, ConfigIsOf

(* An init container that is the resource's already.                       *)
LEMMA KeptProcessed ==
    ASSUME NEW k, ConfigVolumes(k) = {}, NEW t, WellFormed(k, t), NEW s,
           InitOf(t.initContainers, s)
    PROVE  Processed(k, t, s)
BY Zenon, NoConfig DEF Processed

LEMMA OneNotEmpty ==
    ASSUME NEW ic, Len(ic) = 1
    PROVE  ic # <<>>
OBVIOUS

LEMMA KeptInit ==
    ASSUME NEW ic, NEW s, IF s.initImage = "" THEN ic = <<>>
                          ELSE Len(ic) = 1 /\ ic[1].image = s.initImage
    PROVE  InitOf(ic, s)
BY Zenon, OneNotEmpty DEF InitOf

(* What NewDaemonSet promises.                                             *)
Made(k, t, s, args) ==
    WellFormed(k, t) /\ t.args = args /\ t.tolerations = s.tolerations

LEMMA ReplacedMade ==
    ASSUME NEW k, NEW y, NEW t, NEW s, NEW args, FromSpec(k, y, t, s, args),
           NEW u, NEW ic, NEW v, Replaced(k, t, u, ic, v)
    PROVE  Made(k, u, s, args)
BY Zenon DEF FromSpec, Replaced, Made

(* What UpdateDaemonSet promises.                                          *)
LEMMA ProcessedCustomised ==
    ASSUME NEW k, NEW t, NEW s, Processed(k, t, s), NEW args
    PROVE  /\ Processed(k, Customised(t, s, args), s)
           /\ FromSpec(k, t, Customised(t, s, args), s, args)
<1> DEFINE u == Customised(t, s, args)
<1>1. FromSpec(k, t, u, s, args)
    BY Zenon, CustomisedFromSpec DEF Processed
<1> HIDE DEF u
<1>2. ConfigsOf(u) = ConfigsOf(t)
    BY Zenon, <1>1 DEF ConfigsOf, FromSpec
<1>3. Processed(k, u, s)
    BY Zenon, <1>1, <1>2 DEF Processed, FromSpec
<1>4. QED
    BY Zenon, <1>1, <1>3 DEF u

-----------------------------------------------------------------------------
(* DLB.                                                                    *)

LEMMA DlbVolumes ==
    /\ BaseVolumes("dlb") = {"devfs", "sysfs", "kubeletsockets"}
    /\ InitVolumes("dlb") = {"sysfs-devices", "sysfs-driver-dlb2"}
    /\ ConfigVolumes("dlb") = {} /\ dlb_InitVolumes = {"sysfs-devices", "sysfs-driver-dlb2"}
BY Zenon DEF BaseVolumes, InitVolumes, ConfigVolumes, dlb_InitVolumes

(* DLB's init container.                                                   *)
LEMMA DlbSets ==
    ASSUME NEW t, WellFormed("dlb", t), NEW s \in SpecsOf("dlb"), s.initImage # ""
    PROVE  LET u == dlb_setInitContainer(t, s)
           IN  /\ Replaced("dlb", t, u, u.initContainers, u.volumes)
               /\ Processed("dlb", u, s)
<1> DEFINE v1 == addVolumeIfMissing(t.volumes, "sysfs-devices")
           v2 == addVolumeIfMissing(v1, "sysfs-driver-dlb2")
           ic == <<InitContainer(s.initImage, "", dlb_InitVolumes)>>
           u  == dlb_setInitContainer(t, s)
<1>1. /\ "sysfs-devices" \in InitVolumes("dlb") /\ "sysfs-devices" \notin ConfigVolumes("dlb")
      /\ "sysfs-driver-dlb2" \in InitVolumes("dlb")
      /\ "sysfs-driver-dlb2" \notin ConfigVolumes("dlb")
    BY Zenon, DlbVolumes
<1>2. WellFormedVolumes("dlb", t.volumes)
    BY Zenon DEF WellFormed
<1>3. Grown("dlb", t.volumes, v1, HostVolumes({"sysfs-devices"}))
    BY <1>1, <1>2, AddIfMissingGrows, Zenon
<1> HIDE DEF v1
<1>4. WellFormedVolumes("dlb", v1)
    BY Zenon, <1>3 DEF Grown
<1>5. Grown("dlb", v1, v2, HostVolumes({"sysfs-driver-dlb2"}))
    BY <1>1, <1>4, AddIfMissingGrows, Zenon
<1> HIDE DEF v2
<1>6. WellFormedVolumes("dlb", v2)
    BY Zenon, <1>5 DEF Grown
<1>7. dlb_InitVolumes \subseteq DOMAIN v2
    BY Zenon, <1>3, <1>5 DEF dlb_InitVolumes, Grown, HostVolumes
<1>8. WellFormedInit("dlb", ic, v2) /\ InitOf(ic, s)
    BY Zenon, <1>7, InitWellFormed
<1>9. u = WithInit(t, ic, v2)
    BY Zenon DEF dlb_setInitContainer, WithInit, v2, v1
<1> HIDE DEF ic, u
<1>10. WellFormedInit("dlb", ic, v2)
    BY Zenon, <1>8
<1>11. Replaced("dlb", t, u, ic, v2)
    BY <1>6, <1>9, <1>10, ReplacedWellFormed, Zenon
<1>12. WellFormed("dlb", u) /\ u.initContainers = ic /\ u.volumes = v2
    BY Zenon, <1>11 DEF Replaced
<1>13. ConfigsOf(u) = {} /\ "dlb" # "qat"
    BY Zenon, <1>12, DlbVolumes, NoConfig
<1>14. Processed("dlb", u, s)
    BY Zenon, <1>8, <1>12, <1>13 DEF Processed
<1>15. QED
    BY Zenon, <1>11, <1>12, <1>14 DEF u

LEMMA DlbUnsets ==
    ASSUME NEW t, WellFormed("dlb", t), NEW s, s.initImage = ""
    PROVE  LET u == dlb_unsetInitContainer(t)
           IN  /\ Replaced("dlb", t, u, u.initContainers, u.volumes)
               /\ Processed("dlb", u, s)
<1> DEFINE v == removeVolume(t.volumes, dlb_InitVolumes)
           u == dlb_unsetInitContainer(t)
<1>1. WellFormedVolumes("dlb", t.volumes) /\ dlb_InitVolumes \cap BaseVolumes("dlb") = {}
    BY Zenon, DlbVolumes DEF WellFormed
<1>2. Shrunk("dlb", t.volumes, v, dlb_InitVolumes)
    BY Zenon, <1>1, RemoveShrinks
<1> HIDE DEF v
<1>3. WellFormedVolumes("dlb", v) /\ DOMAIN v = BaseVolumes("dlb")
    BY Zenon, <1>1, <1>2, DlbVolumes DEF Shrunk, WellFormedVolumes
<1>4. WellFormedInit("dlb", <<>>, v)
    BY Zenon, <1>3 DEF WellFormedInit
<1>5. u = WithInit(t, <<>>, v)
    BY Zenon DEF dlb_unsetInitContainer, WithInit, v
<1> HIDE DEF u
<1>6. Replaced("dlb", t, u, <<>>, v)
    BY Zenon, <1>3, <1>4, <1>5, ReplacedWellFormed
<1>7. WellFormed("dlb", u) /\ u.initContainers = <<>> /\ u.volumes = v
    BY Zenon, <1>6 DEF Replaced
<1>8. ConfigsOf(u) = {} /\ "dlb" # "qat"
    BY Zenon, <1>7, DlbVolumes, NoConfig
<1>9. Processed("dlb", u, s)
    BY Zenon, <1>7, <1>8 DEF Processed, InitOf
<1>10. QED
    BY Zenon, <1>6, <1>7, <1>9 DEF u

LEMMA DlbNew ==
    ASSUME NEW s \in SpecsOf("dlb")
    PROVE  Made("dlb", dlb_NewDaemonSet(s), s, dlb_getPodArgs(s))
<1> DEFINE y == YamlTemplate({"devfs", "sysfs", "kubeletsockets"})
           t == Customised(y, s, dlb_getPodArgs(s))
           n == dlb_NewDaemonSet(s)
<1>1. FromSpec("dlb", y, t, s, dlb_getPodArgs(s))
    BY Zenon, DlbVolumes, YamlFromSpec
<1>2. n = IF s.initImage = "" THEN dlb_unsetInitContainer(t) ELSE dlb_setInitContainer(t, s)
    BY Zenon DEF dlb_NewDaemonSet
<1> HIDE DEF y, t, n
<1>3. WellFormed("dlb", t)
    BY Zenon, <1>1 DEF FromSpec
<1>4. Replaced("dlb", t, n, n.initContainers, n.volumes)
    BY Zenon, <1>2, <1>3, DlbSets, DlbUnsets
<1>5. QED
    BY Zenon, <1>1, <1>4, ReplacedMade DEF n

LEMMA DlbUpdate ==
    ASSUME NEW t, WellFormed("dlb", t), NEW s \in SpecsOf("dlb")
    PROVE  LET u == dlb_UpdateDaemonSet(t, s)
           IN  /\ Processed("dlb", u, s)
               /\ \E p : FromSpec("dlb", p, u, s, dlb_getPodArgs(s))
<1> DEFINE p == dlb_processInitContainer(t, s)
<1>1. Processed("dlb", p, s)
  <2>1. CASE s.initImage = "" /\ t.initContainers # <<>>
    <3>1. p = dlb_unsetInitContainer(t)
        BY Zenon, <2>1 DEF dlb_processInitContainer
    <3>2. QED
        BY Zenon, <2>1, <3>1, DlbUnsets
  <2>2. CASE /\ s.initImage # ""
             /\ Len(t.initContainers) # 1 \/ t.initContainers[1].image # s.initImage
    <3>1. p = dlb_setInitContainer(t, s)
        BY Zenon, <2>2 DEF dlb_processInitContainer
    <3>2. QED
        BY Zenon, <2>2, <3>1, DlbSets
  <2>3. CASE IF s.initImage = "" THEN t.initContainers = <<>>
             ELSE Len(t.initContainers) = 1 /\ t.initContainers[1].image = s.initImage
    <3>1. p = t
        BY Zenon, <2>3 DEF dlb_processInitContainer
    <3>2. InitOf(t.initContainers, s)
        BY Zenon, <2>3, KeptInit
    <3>3. QED
        BY Zenon, <3>1, <3>2, DlbVolumes, KeptProcessed
  <2>4. QED
      BY Zenon, <2>1, <2>2, <2>3
<1> HIDE DEF p
<1>2. QED
    BY Zenon, <1>1, ProcessedCustomised DEF dlb_UpdateDaemonSet, p

-----------------------------------------------------------------------------
(* GPU.                                                                    *)

LEMMA GpuVolumes ==
    /\ BaseVolumes("gpu") = {"devfs", "sysfsdrm", "kubeletsockets", "cdipath"}
    /\ InitVolumes("gpu") = {"nfd-sources"} /\ ConfigVolumes("gpu") = {}
BY Zenon DEF BaseVolumes, InitVolumes, ConfigVolumes

LEMMA GpuSets ==
    ASSUME NEW t, WellFormed("gpu", t), NEW s \in SpecsOf("gpu"), s.initImage # ""
    PROVE  LET u == gpu_setInitContainer(t, s.initImage)
           IN  /\ Replaced("gpu", t, u, u.initContainers, u.volumes)
               /\ Processed("gpu", u, s)
<1> DEFINE v  == addVolumeIfMissing(t.volumes, "nfd-sources")
           m  == {"nfd-sources"}
           ic == <<InitContainer(s.initImage, "", m)>>
           u  == gpu_setInitContainer(t, s.initImage)
<1>1. "nfd-sources" \in InitVolumes("gpu") /\ "nfd-sources" \notin ConfigVolumes("gpu")
    BY Zenon, GpuVolumes
<1>2. WellFormedVolumes("gpu", t.volumes)
    BY Zenon DEF WellFormed
<1>3. Grown("gpu", t.volumes, v, HostVolumes({"nfd-sources"}))
    BY <1>1, <1>2, AddIfMissingGrows, Zenon
<1> HIDE DEF v
<1>4. WellFormedVolumes("gpu", v) /\ m \subseteq DOMAIN v
    BY Zenon, <1>3 DEF Grown, HostVolumes
<1> HIDE DEF m
<1>5. WellFormedInit("gpu", ic, v) /\ InitOf(ic, s)
    BY Zenon, <1>4, InitWellFormed
<1>6. u = WithInit(t, ic, v)
    BY Zenon DEF gpu_setInitContainer, WithInit, v, m
<1> HIDE DEF ic, u
<1>7. WellFormedVolumes("gpu", v) /\ WellFormedInit("gpu", ic, v)
    BY Zenon, <1>4, <1>5
<1>8. Replaced("gpu", t, u, ic, v)
    BY <1>6, <1>7, ReplacedWellFormed, Zenon
<1>9. WellFormed("gpu", u) /\ u.initContainers = ic /\ u.volumes = v
    BY Zenon, <1>8 DEF Replaced
<1>10. ConfigsOf(u) = {} /\ "gpu" # "qat"
    BY Zenon, <1>9, GpuVolumes, NoConfig
<1>11. Processed("gpu", u, s)
    BY Zenon, <1>5, <1>9, <1>10 DEF Processed
<1>12. QED
    BY Zenon, <1>8, <1>9, <1>11 DEF u

LEMMA GpuUnsets ==
    ASSUME NEW t, WellFormed("gpu", t), NEW s, s.initImage = ""
    PROVE  LET u == gpu_unsetInitContainer(t)
           IN  /\ Replaced("gpu", t, u, u.initContainers, u.volumes)
               /\ Processed("gpu", u, s)
<1> DEFINE v == removeVolume(t.volumes, {"nfd-features"})
           u == gpu_unsetInitContainer(t)
<1>1. WellFormedVolumes("gpu", t.volumes) /\ {"nfd-features"} \cap BaseVolumes("gpu") = {}
    BY Zenon, GpuVolumes DEF WellFormed
<1>2. Shrunk("gpu", t.volumes, v, {"nfd-features"})
    BY Zenon, <1>1, RemoveShrinks
<1> HIDE DEF v
<1>3. WellFormedVolumes("gpu", v)
    BY Zenon, <1>1, <1>2, GpuVolumes DEF Shrunk, WellFormedVolumes
<1>4. WellFormedInit("gpu", <<>>, v)
    BY Zenon, <1>3 DEF WellFormedInit
<1>5. u = WithInit(t, <<>>, v)
    BY Zenon DEF gpu_unsetInitContainer, WithInit, v
<1> HIDE DEF u
<1>6. Replaced("gpu", t, u, <<>>, v)
    BY Zenon, <1>3, <1>4, <1>5, ReplacedWellFormed
<1>7. WellFormed("gpu", u) /\ u.initContainers = <<>> /\ u.volumes = v
    BY Zenon, <1>6 DEF Replaced
<1>8. ConfigsOf(u) = {} /\ "gpu" # "qat"
    BY Zenon, <1>7, GpuVolumes, NoConfig
<1>9. Processed("gpu", u, s)
    BY Zenon, <1>7, <1>8 DEF Processed, InitOf
<1>10. QED
    BY Zenon, <1>6, <1>7, <1>9 DEF u

LEMMA GpuNew ==
    ASSUME NEW s \in SpecsOf("gpu")
    PROVE  Made("gpu", gpu_NewDaemonSet(s), s, gpu_getPodArgs(s))
<1> DEFINE y == YamlTemplate({"devfs", "sysfsdrm", "kubeletsockets", "cdipath"})
           t == Customised(y, s, gpu_getPodArgs(s))
           n == gpu_NewDaemonSet(s)
<1>1. FromSpec("gpu", y, t, s, gpu_getPodArgs(s))
    BY Zenon, GpuVolumes, YamlFromSpec
<1>2. n = IF s.initImage = "" THEN gpu_unsetInitContainer(t) ELSE gpu_setInitContainer(t, s.initImage)
    BY Zenon DEF gpu_NewDaemonSet
<1> HIDE DEF y, t, n
<1>3. WellFormed("gpu", t)
    BY Zenon, <1>1 DEF FromSpec
<1>4. Replaced("gpu", t, n, n.initContainers, n.volumes)
    BY Zenon, <1>2, <1>3, GpuSets, GpuUnsets
<1>5. QED
    BY Zenon, <1>1, <1>4, ReplacedMade DEF n

LEMMA GpuUpdate ==
    ASSUME NEW t, WellFormed("gpu", t), NEW s \in SpecsOf("gpu")
    PROVE  LET u == gpu_UpdateDaemonSet(t, s)
           IN  /\ Processed("gpu", u, s)
               /\ \E p : FromSpec("gpu", p, u, s, gpu_getPodArgs(s))
<1> DEFINE p == gpu_processInitContainer(t, s)
<1>1. Processed("gpu", p, s)
  <2>1. CASE s.initImage = "" /\ t.initContainers # <<>>
    <3>1. p = gpu_unsetInitContainer(t)
        BY Zenon, <2>1 DEF gpu_processInitContainer
    <3>2. QED
        BY Zenon, <2>1, <3>1, GpuUnsets
  <2>2. CASE /\ s.initImage # ""
             /\ Len(t.initContainers) # 1 \/ t.initContainers[1].image # s.initImage
    <3>1. p = gpu_setInitContainer(t, s.initImage)
        BY Zenon, <2>2 DEF gpu_processInitContainer
    <3>2. QED
        BY Zenon, <2>2, <3>1, GpuSets
  <2>3. CASE IF s.initImage = "" THEN t.initContainers = <<>>
             ELSE Len(t.initContainers) = 1 /\ t.initContainers[1].image = s.initImage
    <3>1. p = t
        BY Zenon, <2>3 DEF gpu_processInitContainer
    <3>2. InitOf(t.initContainers, s)
        BY Zenon, <2>3, KeptInit
    <3>3. QED
        BY Zenon, <3>1, <3>2, GpuVolumes, KeptProcessed
  <2>4. QED
      BY Zenon, <2>1, <2>2, <2>3
<1> HIDE DEF p
<1>2. QED
    BY Zenon, <1>1, ProcessedCustomised DEF gpu_UpdateDaemonSet, p

-----------------------------------------------------------------------------
(* SGX.                                                                    *)

LEMMA SgxVolumes ==
    /\ BaseVolumes("sgx") = {"kubeletsockets", "sgx-enclave", "sgx-provision", "cdipath"}
    /\ InitVolumes("sgx") = {"nfd-features"} /\ ConfigVolumes("sgx") = {}
BY Zenon DEF BaseVolumes, InitVolumes, ConfigVolumes

LEMMA SgxSets ==
    ASSUME NEW t, WellFormed("sgx", t), NEW s \in SpecsOf("sgx"), s.initImage # ""
    PROVE  LET u == sgx_setInitContainer(t, s.initImage)
           IN  /\ Replaced("sgx", t, u, u.initContainers, u.volumes)
               /\ Processed("sgx", u, s)
<1> DEFINE v  == addVolumeIfMissing(t.volumes, "nfd-features")
           m  == {"nfd-features"}
           ic == <<InitContainer(s.initImage, "", m)>>
           u  == sgx_setInitContainer(t, s.initImage)
<1>1. "nfd-features" \in InitVolumes("sgx") /\ "nfd-features" \notin ConfigVolumes("sgx")
    BY Zenon, SgxVolumes
<1>2. WellFormedVolumes("sgx", t.volumes)
    BY Zenon DEF WellFormed
<1>3. Grown("sgx", t.volumes, v, HostVolumes({"nfd-features"}))
    BY <1>1, <1>2, AddIfMissingGrows, Zenon
<1> HIDE DEF v
<1>4. WellFormedVolumes("sgx", v) /\ m \subseteq DOMAIN v
    BY Zenon, <1>3 DEF Grown, HostVolumes
<1> HIDE DEF m
<1>5. WellFormedInit("sgx", ic, v) /\ InitOf(ic, s)
    BY Zenon, <1>4, InitWellFormed
<1>6. u = WithInit(t, ic, v)
    BY Zenon DEF sgx_setInitContainer, WithInit, v, m
<1> HIDE DEF ic, u
<1>7. WellFormedVolumes("sgx", v) /\ WellFormedInit("sgx", ic, v)
    BY Zenon, <1>4, <1>5
<1>8. Replaced("sgx", t, u, ic, v)
    BY <1>6, <1>7, ReplacedWellFormed, Zenon
<1>9. WellFormed("sgx", u) /\ u.initContainers = ic /\ u.volumes = v
    BY Zenon, <1>8 DEF Replaced
<1>10. ConfigsOf(u) = {} /\ "sgx" # "qat"
    BY Zenon, <1>9, SgxVolumes, NoConfig
<1>11. Processed("sgx", u, s)
    BY Zenon, <1>5, <1>9, <1>10 DEF Processed
<1>12. QED
    BY Zenon, <1>8, <1>9, <1>11 DEF u

LEMMA SgxUnsets ==
    ASSUME NEW t, WellFormed("sgx", t), NEW s, s.initImage = ""
    PROVE  LET u == WithInit(t, <<>>, removeVolume(t.volumes, {"nfd-features"}))
           IN  /\ Replaced("sgx", t, u, u.initContainers, u.volumes)
               /\ Processed("sgx", u, s)
<1> DEFINE v == removeVolume(t.volumes, {"nfd-features"})
           u == WithInit(t, <<>>, removeVolume(t.volumes, {"nfd-features"}))
<1>1. WellFormedVolumes("sgx", t.volumes) /\ {"nfd-features"} \cap BaseVolumes("sgx") = {}
    BY Zenon, SgxVolumes DEF WellFormed
<1>2. Shrunk("sgx", t.volumes, v, {"nfd-features"})
    BY Zenon, <1>1, RemoveShrinks
<1> HIDE DEF v
<1>3. WellFormedVolumes("sgx", v) /\ DOMAIN v = BaseVolumes("sgx")
    BY Zenon, <1>1, <1>2, SgxVolumes DEF Shrunk, WellFormedVolumes
<1>4. WellFormedInit("sgx", <<>>, v)
    BY Zenon, <1>3 DEF WellFormedInit
<1>5. u = WithInit(t, <<>>, v)
    BY Zenon DEF v
<1> HIDE DEF u
<1>6. Replaced("sgx", t, u, <<>>, v)
    BY Zenon, <1>3, <1>4, <1>5, ReplacedWellFormed
<1>7. WellFormed("sgx", u) /\ u.initContainers = <<>> /\ u.volumes = v
    BY Zenon, <1>6 DEF Replaced
<1>8. ConfigsOf(u) = {} /\ "sgx" # "qat"
    BY Zenon, <1>7, SgxVolumes, NoConfig
<1>9. Processed("sgx", u, s)
    BY Zenon, <1>7, <1>8 DEF Processed, InitOf
<1>10. QED
    BY Zenon, <1>6, <1>7, <1>9 DEF u

LEMMA SgxNew ==
    ASSUME NEW s \in SpecsOf("sgx")
    PROVE  Made("sgx", sgx_NewDaemonSet(s), s, sgx_getPodArgs(s))
<1> DEFINE y == YamlTemplate({"kubeletsockets", "sgx-enclave", "sgx-provision", "cdipath"})
           t == Customised(y, s, sgx_getPodArgs(s))
           n == sgx_NewDaemonSet(s)
<1>1. FromSpec("sgx", y, t, s, sgx_getPodArgs(s))
    BY Zenon, SgxVolumes, YamlFromSpec
<1>2. n = IF s.initImage = "" THEN t ELSE sgx_setInitContainer(t, s.initImage)
    BY Zenon DEF sgx_NewDaemonSet
<1> HIDE DEF y, t, n
<1>3. WellFormed("sgx", t)
    BY Zenon, <1>1 DEF FromSpec
<1>4. CASE s.initImage = ""
    BY Zenon, <1>1, <1>2, <1>4 DEF FromSpec, Made, n
<1>5. CASE s.initImage # ""
  <2>1. Replaced("sgx", t, n, n.initContainers, n.volumes)
      BY Zenon, <1>2, <1>3, <1>5, SgxSets
  <2>2. QED
      BY Zenon, <1>1, <2>1, ReplacedMade DEF n
<1>6. QED
    BY Zenon, <1>4, <1>5

LEMMA SgxUpdate ==
    ASSUME NEW t, WellFormed("sgx", t), NEW s \in SpecsOf("sgx")
    PROVE  LET u == sgx_UpdateDaemonSet(t, s)
           IN  /\ Processed("sgx", u, s)
               /\ \E p : FromSpec("sgx", p, u, s, sgx_getPodArgs(s))
<1> DEFINE p == sgx_processInitContainer(t, s)
<1>1. Processed("sgx", p, s)
  <2>1. CASE s.initImage = "" /\ t.initContainers # <<>>
    <3>1. p = WithInit(t, <<>>, removeVolume(t.volumes, {"nfd-features"}))
        BY Zenon, <2>1 DEF sgx_processInitContainer, WithInit
    <3>2. QED
        BY Zenon, <2>1, <3>1, SgxUnsets
  <2>2. CASE s.initImage # ""
    <3>1. p = sgx_setInitContainer(t, s.initImage)
        BY Zenon, <2>2 DEF sgx_processInitContainer
    <3>2. QED
        BY Zenon, <2>2, <3>1, SgxSets
  <2>3. CASE s.initImage = "" /\ t.initContainers = <<>>
    <3>1. p = t
        BY Zenon, <2>3 DEF sgx_processInitContainer
    <3>2. InitOf(t.initContainers, s)
        BY Zenon, <2>3 DEF InitOf
    <3>3. QED
        BY Zenon, <3>1, <3>2, SgxVolumes, KeptProcessed
  <2>4. QED
      BY Zenon, <2>1, <2>2, <2>3
<1> HIDE DEF p
<1>2. QED
    BY Zenon, <1>1, ProcessedCustomised DEF sgx_UpdateDaemonSet, p

-----------------------------------------------------------------------------
(* NPU.                                                                    *)

LEMMA NpuVolumes ==
    BaseVolumes("npu") = {"devfs", "sysfsaccel", "kubeletsockets"} /\ ConfigVolumes("npu") = {}
BY Zenon DEF BaseVolumes, ConfigVolumes

LEMMA NpuNew ==
    ASSUME NEW s \in SpecsOf("npu")
    PROVE  Made("npu", npu_NewDaemonSet(s), s, npu_getPodArgs(s))
<1> DEFINE y == YamlTemplate({"devfs", "sysfsaccel", "kubeletsockets"})
<1>1. FromSpec("npu", y, npu_NewDaemonSet(s), s, npu_getPodArgs(s))
    BY Zenon, NpuVolumes, YamlFromSpec DEF npu_NewDaemonSet
<1>2. QED
    BY Zenon, <1>1 DEF FromSpec, Made

LEMMA NpuUpdate ==
    ASSUME NEW t, WellFormed("npu", t), NEW s \in SpecsOf("npu")
    PROVE  LET u == npu_UpdateDaemonSet(t, s)
           IN  /\ Processed("npu", u, s)
               /\ \E p : FromSpec("npu", p, u, s, npu_getPodArgs(s))
<1>1. t.initContainers = <<>> /\ s.initImage = ""
    BY Zenon DEF WellFormed, WellFormedInit, SpecsOf
<1>2. InitOf(t.initContainers, s)
    BY Zenon, <1>1 DEF InitOf
<1>3. Processed("npu", t, s)
    BY Zenon, <1>2, NpuVolumes, KeptProcessed
<1>4. QED
    BY Zenon, <1>3, ProcessedCustomised DEF npu_UpdateDaemonSet

-----------------------------------------------------------------------------
(* FPGA, whose yaml file has an init container.                            *)

LEMMA SingletonExcept ==
    ASSUME NEW c, NEW d
    PROVE  <<c>>[1] = c /\ <<c>> # <<>> /\ [<<c>> EXCEPT ![1] = d] = <<d>>
OBVIOUS

LEMMA NestedExcept ==
    ASSUME NEW w, NEW x
    PROVE  LET f == w.initContainers
           IN  [w EXCEPT !.initContainers[1].image = x]
                 = [w EXCEPT !.initContainers = [f EXCEPT ![1] = [f[1] EXCEPT !.image = x]]]
BY Zenon

LEMMA InitReplaced ==
    ASSUME NEW k, NEW t, Shaped(k, t), NEW ic
    PROVE  WithInit(t, ic, t.volumes) = [t EXCEPT !.initContainers = ic]
<1>1. PICK i, a, l, o, ic0, v, m : t = Template(i, a, l, o, ic0, v, m)
    BY Zenon DEF Shaped
<1> DEFINE t1 == [t EXCEPT !.initContainers = ic]
<1>2. WithInit(t, ic, t.volumes) = [t1 EXCEPT !.volumes = t.volumes]
    BY Zenon DEF WithInit
<1>3. t1 = Template(i, a, l, o, ic, v, m) /\ t.volumes = v
    BY <1>1 DEF Template
<1> HIDE DEF t1
<1>4. [t1 EXCEPT !.volumes = v] = t1
    BY <1>3 DEF Template
<1>5. QED
    BY Zenon, <1>2, <1>3, <1>4 DEF t1

LEMMA FpgaVolumes ==
    /\ BaseVolumes("fpga") = {"devfs", "sysfs", "kubeletsockets", "cdidir"}
    /\ InitVolumes("fpga") = {"intel-fpga-sw"} /\ ConfigVolumes("fpga") = {}
BY Zenon DEF BaseVolumes, InitVolumes, ConfigVolumes

LEMMA FpgaNew ==
    ASSUME NEW s \in SpecsOf("fpga")
    PROVE  Made("fpga", fpga_NewDaemonSet(s), s, fpga_getPodArgs(s))
<1> DEFINE y  == YamlTemplate({"devfs", "sysfs", "kubeletsockets", "cdidir"})
           v  == appendVolumes(y.volumes, HostVolumes({"intel-fpga-sw"}))
           m  == {"intel-fpga-sw"}
           ic == <<InitContainer("devel", "", m)>>
           t  == WithInit(y, ic, v)
<1>1. Shaped("fpga", y) /\ y.volumes = HostVolumes(BaseVolumes("fpga"))
    BY Zenon, FpgaVolumes DEF YamlTemplate, Shaped, Template
<1>2. fpga_NewDaemonSet(s) = Customised(t, s, fpga_getPodArgs(s))
    BY Zenon DEF fpga_NewDaemonSet, WithInit
<1> HIDE DEF y
<1>3. WellFormedVolumes("fpga", y.volumes)
    BY Zenon, <1>1, FpgaVolumes, HostWellFormed
<1>4. Extra("fpga", HostVolumes({"intel-fpga-sw"}))
    BY Zenon, FpgaVolumes, HostExtra
<1>5. DOMAIN HostVolumes({"intel-fpga-sw"}) \cap DOMAIN y.volumes = {}
    BY Zenon, <1>1, FpgaVolumes DEF HostVolumes
<1>6. Grown("fpga", y.volumes, v, HostVolumes({"intel-fpga-sw"}))
    BY Zenon, <1>3, <1>4, <1>5, AppendGrows
<1> HIDE DEF v
<1>7. WellFormedVolumes("fpga", v) /\ m \subseteq DOMAIN v
    BY Zenon, <1>6 DEF Grown, HostVolumes
<1> HIDE DEF m
<1>8. WellFormedInit("fpga", ic, v)
  <2>1. InitContainer("devel", "", m)
          \in [image : InitImages \cup {"devel"},
              env : {"", "iaa", "idxd", "vfio-pci", "c6xxvf", "4xxxvf"}, mounts : SUBSET DOMAIN v]
      BY Zenon, <1>7 DEF InitContainer
  <2>2. QED
      BY Zenon, <2>1 DEF WellFormedInit
<1> HIDE DEF ic
<1>9. WellFormed("fpga", t)
    BY Zenon, <1>1, <1>7, <1>8, ReplacedShaped DEF Replaced
<1> HIDE DEF t
<1>10. FromSpec("fpga", t, fpga_NewDaemonSet(s), s, fpga_getPodArgs(s))
    BY Zenon, <1>2, <1>9, CustomisedFromSpec
<1>11. QED
    BY Zenon, <1>10 DEF FromSpec, Made

LEMMA FpgaUpdate ==
    ASSUME NEW t, WellFormed("fpga", t), NEW s \in SpecsOf("fpga"), s.initImage # ""
    PROVE  LET u == fpga_UpdateDaemonSet(t, s)
           IN  /\ Processed("fpga", u, s)
               /\ \E p : FromSpec("fpga", p, u, s, fpga_getPodArgs(s))
<1> DEFINE w == Customised(t, s, fpga_getPodArgs(s))
           u == fpga_UpdateDaemonSet(t, s)
<1>1. FromSpec("fpga", t, w, s, fpga_getPodArgs(s))
    BY Zenon, CustomisedFromSpec
<1>2. u = [w EXCEPT !.initContainers[1].image = s.initImage]
    BY Zenon DEF fpga_UpdateDaemonSet
<1> HIDE DEF w, u
<1>3. WellFormed("fpga", w)
    BY Zenon, <1>1 DEF FromSpec
<1>4. PICK c \in [image : InitImages \cup {"devel"},
                 env : {"", "iaa", "idxd", "vfio-pci", "c6xxvf", "4xxxvf"},
                 mounts : SUBSET DOMAIN w.volumes] : w.initContainers = <<c>>
    BY Zenon, <1>3 DEF WellFormed, WellFormedInit
<1> DEFINE d == [c EXCEPT !.image = s.initImage]
<1>5. s.initImage \in InitImages
    BY Zenon DEF SpecsOf, Specs
<1>6. d.image = s.initImage
    BY Zenon, <1>4
<1>7. WellFormedInit("fpga", <<d>>, w.volumes)
  <2>1. d \in [image : InitImages \cup {"devel"},
              env : {"", "iaa", "idxd", "vfio-pci", "c6xxvf", "4xxxvf"},
              mounts : SUBSET DOMAIN w.volumes]
      BY Zenon, <1>4, <1>5
  <2>2. QED
      BY Zenon, <2>1 DEF WellFormedInit
<1>8. u = WithInit(w, <<d>>, w.volumes)
  <2> DEFINE f == w.initContainers
             g == [f EXCEPT ![1] = [f[1] EXCEPT !.image = s.initImage]]
  <2>1. u = [w EXCEPT !.initContainers = g]
      BY Zenon, <1>2, NestedExcept
  <2>2. f[1] = c
      BY Zenon, <1>4, SingletonExcept
  <2>3. g = [<<c>> EXCEPT ![1] = d]
      BY Zenon, <1>4, <2>2
  <2> HIDE DEF d, g
  <2>4. [<<c>> EXCEPT ![1] = d] = <<d>>
      BY Zenon, SingletonExcept
  <2>5. u = [w EXCEPT !.initContainers = <<d>>]
      BY Zenon, <2>1, <2>3, <2>4
  <2>6. Shaped("fpga", w)
      BY Zenon, <1>3 DEF WellFormed
  <2>7. QED
      BY Zenon, <2>5, <2>6, InitReplaced
<1> HIDE DEF d
<1>9. WellFormedVolumes("fpga", w.volumes)
    BY Zenon, <1>3 DEF WellFormed
<1>10. Replaced("fpga", w, u, <<d>>, w.volumes)
    BY Zenon, <1>3, <1>7, <1>8, <1>9, ReplacedWellFormed
<1>11. WellFormed("fpga", u) /\ u.initContainers = <<d>>
    BY Zenon, <1>10 DEF Replaced
<1>12. InitOf(u.initContainers, s)
  <2>1. u.initContainers # <<>> /\ u.initContainers[1] = d
      BY Zenon, <1>11, SingletonExcept
  <2>2. QED
      BY Zenon, <1>6, <2>1 DEF InitOf
<1>13. Processed("fpga", u, s)
    BY Zenon, <1>11, <1>12, FpgaVolumes, KeptProcessed
<1>14. FromSpec("fpga", u, u, s, fpga_getPodArgs(s))
    BY Zenon, <1>1, <1>10 DEF FromSpec, Replaced
<1>15. QED
    BY Zenon, <1>13, <1>14 DEF u

-----------------------------------------------------------------------------
(* DSA.                                                                    *)

(* m are the volumes of a and b.                                           *)
Joined(k, a, b, m) ==
    /\ Extra(k, m) /\ DOMAIN m = DOMAIN a \cup DOMAIN b
    /\ \A n \in DOMAIN b : m[n] = b[n]

LEMMA ExtraAppend ==
    ASSUME NEW k, NEW a, NEW b, Extra(k, a), Extra(k, b), DOMAIN a \cap DOMAIN b = {}
    PROVE  Joined(k, a, b, appendVolumes(a, b))
BY Zenon DEF appendVolumes, Extra, Joined

(* The volume of the resource's provisioning config.                       *)
ConfOf(c, s) == [n \in IF s.provisioningConfig = "" THEN {} ELSE {c} |-> <<s.provisioningConfig>>]

LEMMA ConfExtra ==
    ASSUME NEW k, NEW c, ConfigVolumes(k) = {c}, NEW s \in SpecsOf(k)
    PROVE  Extra(k, ConfOf(c, s))
<1>1. s.provisioningConfig \in Configs \cup {""}
    BY Zenon, SpecTypes
<1>2. QED
    BY Zenon, <1>1 DEF ConfOf, Extra, Sources

LEMMA SingletonNotEmpty ==
    ASSUME NEW c
    PROVE  <<c>> # <<>> /\ Append(<<>>, c) = <<c>>
OBVIOUS

LEMMA SingletonMap ==
    ASSUME NEW c, NEW d
    PROVE  [i \in DOMAIN <<c>> |-> d] = <<d>>
OBVIOUS

LEMMA VolumesReplaced ==
    ASSUME NEW k, NEW t, Shaped(k, t), NEW v
    PROVE  WithInit(t, t.initContainers, v) = [t EXCEPT !.volumes = v]
<1>1. PICK i, a, l, o, ic, v0, m : t = Template(i, a, l, o, ic, v0, m)
    BY Zenon DEF Shaped
<1> DEFINE t1 == [t EXCEPT !.initContainers = t.initContainers]
<1>2. WithInit(t, t.initContainers, v) = [t1 EXCEPT !.volumes = v]
    BY Zenon DEF WithInit
<1>3. t1 = t
    BY Zenon, <1>1 DEF Template
<1>4. QED
    BY Zenon, <1>2, <1>3

LEMMA BareVolumes ==
    ASSUME NEW k, k # "gpu", NEW t, WellFormed(k, t), t.initContainers = <<>>
    PROVE  DOMAIN t.volumes = BaseVolumes(k)
<1>1. WellFormedInit(k, t.initContainers, t.volumes)
    BY Zenon DEF WellFormed
<1>2. QED
    BY Zenon, <1>1, SingletonNotEmpty DEF WellFormedInit

LEMMA DsaVolumes ==
    /\ BaseVolumes("dsa") = {"devfs", "chardevs", "sysfs", "kubeletsockets"}
    /\ InitVolumes("dsa") = dsa_InitVolumes /\ ConfigVolumes("dsa") = {dsa_configVolumeName}
    /\ dsa_configVolumeName \notin dsa_InitVolumes \cup BaseVolumes("dsa")
    /\ dsa_InitVolumes \cap BaseVolumes("dsa") = {} /\ dsa_configVolumeName # "devfs"
BY Zenon DEF BaseVolumes, InitVolumes, ConfigVolumes, dsa_InitVolumes, dsa_configVolumeName

LEMMA DsaAdds ==
    ASSUME NEW t, WellFormed("dsa", t), t.initContainers = <<>>,
           NEW s \in SpecsOf("dsa"), s.initImage # ""
    PROVE  LET u == dsa_addInitContainer(t, s)
           IN  /\ Replaced("dsa", t, u, u.initContainers, u.volumes)
               /\ Processed("dsa", u, s)
<1> DEFINE conf == ConfOf(dsa_configVolumeName, s)
           more == appendVolumes(HostVolumes(dsa_InitVolumes), conf)
           v  == appendVolumes(t.volumes, more)
           c  == InitContainer(s.initImage, s.driver, dsa_InitVolumes \cup DOMAIN conf)
           ic == <<c>>
           u  == dsa_addInitContainer(t, s)
<1>1. WellFormedVolumes("dsa", t.volumes) /\ DOMAIN t.volumes = BaseVolumes("dsa")
    BY Zenon, BareVolumes DEF WellFormed
<1>2. Extra("dsa", conf)
    BY Zenon, DsaVolumes, ConfExtra
<1>3. /\ DOMAIN conf = IF s.provisioningConfig = "" THEN {} ELSE {dsa_configVolumeName}
      /\ s.provisioningConfig # "" => conf[dsa_configVolumeName] = <<s.provisioningConfig>>
    BY Zenon DEF ConfOf
<1>4. u = [t EXCEPT !.initContainers = Append(@, c), !.volumes = v]
    BY Zenon DEF dsa_addInitContainer, ConfOf
<1>5. Append(t.initContainers, c) = ic
    BY Zenon, SingletonNotEmpty
<1> HIDE DEF conf
<1>6. Extra("dsa", HostVolumes(dsa_InitVolumes)) /\ DOMAIN HostVolumes(dsa_InitVolumes) = dsa_InitVolumes
    BY Zenon, DsaVolumes, HostExtra DEF HostVolumes
<1>7. DOMAIN HostVolumes(dsa_InitVolumes) \cap DOMAIN conf = {}
    BY Zenon, <1>3, <1>6, DsaVolumes
<1> DEFINE host == HostVolumes(dsa_InitVolumes)
<1>8. Joined("dsa", host, conf, appendVolumes(host, conf))
  <2> HIDE DEF host
  <2>1. QED
      BY Zenon, <1>2, <1>6, <1>7, ExtraAppend DEF host
<1> HIDE DEF more
<1>9. /\ Extra("dsa", more) /\ DOMAIN more = dsa_InitVolumes \cup DOMAIN conf
      /\ \A n \in DOMAIN conf : more[n] = conf[n]
    BY Zenon, <1>6, <1>8 DEF Joined, more
<1>10. DOMAIN more \cap DOMAIN t.volumes = {}
    BY Zenon, <1>1, <1>3, <1>9, DsaVolumes
<1>11. Grown("dsa", t.volumes, v, more)
    BY Zenon, <1>1, <1>9, <1>10, AppendGrows
<1> HIDE DEF v
<1>12. /\ WellFormedVolumes("dsa", v) /\ DOMAIN v = BaseVolumes("dsa") \cup dsa_InitVolumes \cup DOMAIN conf
       /\ \A n \in DOMAIN conf : v[n] = conf[n]
    BY Zenon, <1>1, <1>9, <1>10, <1>11 DEF Grown
<1>13. s.driver \in {"", "iaa", "idxd", "vfio-pci", "c6xxvf", "4xxxvf"}
    BY Zenon, SpecTypes
<1>14. WellFormedInit("dsa", ic, v) /\ InitOf(ic, s)
    BY Zenon, <1>12, <1>13, InitWellFormed
<1> HIDE DEF ic, c, u
<1>15. u = WithInit(t, ic, v)
    BY Zenon, <1>4, <1>5 DEF WithInit
<1>16. Replaced("dsa", t, u, ic, v)
    BY Zenon, <1>12, <1>14, <1>15, ReplacedWellFormed
<1>17. WellFormed("dsa", u) /\ u.initContainers = ic /\ u.volumes = v
    BY Zenon, <1>16 DEF Replaced
<1>18. ConfigsOf(u) \subseteq {s.provisioningConfig}
  <2>1. CASE s.provisioningConfig = ""
    <3>1. DOMAIN u.volumes \cap ConfigVolumes("dsa") = {}
        BY Zenon, <1>3, <1>12, <1>17, <2>1, DsaVolumes
    <3>2. QED
        BY Zenon, <1>17, <3>1, ConfigIsOf
  <2>2. CASE s.provisioningConfig # ""
    <3>1. /\ dsa_configVolumeName \in DOMAIN u.volumes
          /\ u.volumes[dsa_configVolumeName] = <<s.provisioningConfig>>
        BY Zenon, <1>3, <1>12, <1>17, <2>2
    <3>2. QED
        BY Zenon, <1>17, <3>1, DsaVolumes, ConfigIsOf
  <2>3. QED
      BY Zenon, <2>1, <2>2
<1>19. Processed("dsa", u, s)
    BY Zenon, <1>14, <1>17, <1>18 DEF Processed
<1>20. QED
    BY Zenon, <1>16, <1>17, <1>19 DEF u

LEMMA DsaRemoves ==
    ASSUME NEW t, WellFormed("dsa", t)
    PROVE  LET u == dsa_removeInitContainer(t)
           IN  /\ Replaced("dsa", t, u, u.initContainers, u.volumes)
               /\ u.initContainers = <<>> /\ ConfigsOf(u) = {}
<1> DEFINE names == dsa_InitVolumes \cup {dsa_configVolumeName}
           v == removeVolume(t.volumes, names)
           u == dsa_removeInitContainer(t)
<1>1. /\ WellFormedVolumes("dsa", t.volumes) /\ names \cap BaseVolumes("dsa") = {}
      /\ names = InitVolumes("dsa") \cup ConfigVolumes("dsa")
    BY Zenon, DsaVolumes DEF WellFormed
<1>2. u = WithInit(t, <<>>, v)
    BY Zenon DEF dsa_removeInitContainer, WithInit
<1> HIDE DEF names, u
<1>3. Shrunk("dsa", t.volumes, v, names)
    BY Zenon, <1>1, RemoveShrinks
<1> HIDE DEF v
<1>4. WellFormedVolumes("dsa", v) /\ DOMAIN v = BaseVolumes("dsa")
    BY Zenon, <1>1, <1>3 DEF Shrunk, WellFormedVolumes
<1>5. WellFormedInit("dsa", <<>>, v)
    BY Zenon, <1>4 DEF WellFormedInit
<1>6. Replaced("dsa", t, u, <<>>, v)
    BY Zenon, <1>2, <1>4, <1>5, ReplacedWellFormed
<1>7. WellFormed("dsa", u) /\ u.initContainers = <<>> /\ u.volumes = v
    BY Zenon, <1>6 DEF Replaced
<1>8. DOMAIN u.volumes \cap ConfigVolumes("dsa") = {}
    BY Zenon, <1>4, <1>7, DsaVolumes
<1>9. QED
    BY Zenon, <1>6, <1>7, <1>8, ConfigIsOf DEF u

(* The devfs volume's path is replaced in place.                           *)
LEMMA DsaDevfs ==
    ASSUME NEW t, WellFormed("dsa", t), NEW s
    PROVE  LET u == dsa_WithDevfs(t, s)
           IN  /\ Replaced("dsa", t, u, t.initContainers, u.volumes)
               /\ ConfigsOf(u) = ConfigsOf(t)
<1> DEFINE path == IF s.driver = "vfio-pci" THEN "/dev/vfio" ELSE "/dev/dsa"
           w == t.volumes
           v == [n \in DOMAIN w |->
                   IF n = "devfs" THEN [i \in DOMAIN w[n] |-> path] ELSE w[n]]
           u == dsa_WithDevfs(t, s)
           cf == dsa_configVolumeName
<1>1. WellFormedVolumes("dsa", w) /\ Shaped("dsa", t) /\ WellFormedInit("dsa", t.initContainers, w)
    BY Zenon DEF WellFormed
<1>2. u = [t EXCEPT !.volumes = v]
    BY Zenon DEF dsa_WithDevfs
<1>3. path \in {"host", "/dev/dsa", "/dev/vfio"} /\ "devfs" \notin ConfigVolumes("dsa")
    BY Zenon, DsaVolumes
<1> HIDE DEF path, u, w, cf
<1>4. ASSUME NEW n \in DOMAIN w PROVE \E x \in Sources("dsa", n) : v[n] = <<x>>
  <2>1. PICK x \in Sources("dsa", n) : w[n] = <<x>>
      BY Zenon, <1>1 DEF WellFormedVolumes
  <2>2. CASE n = "devfs"
    <3>1. v[n] = [i \in DOMAIN <<x>> |-> path]
        BY Zenon, <2>1, <2>2
    <3>2. v[n] = <<path>>
        BY Zenon, <3>1, SingletonMap
    <3>3. path \in Sources("dsa", n)
        BY Zenon, <1>3, <2>2 DEF Sources
    <3>4. QED
        BY Zenon, <3>2, <3>3
  <2>3. CASE n # "devfs"
      BY Zenon, <2>1, <2>3
  <2>4. QED
      BY Zenon, <2>2, <2>3
<1>5. DOMAIN v = DOMAIN w /\ v = [n \in DOMAIN v |-> v[n]]
    BY Zenon
<1>6. \A n \in DOMAIN w : n # "devfs" => v[n] = w[n]
    BY Zenon
<1> HIDE DEF v
<1>7. WellFormedVolumes("dsa", v)
    BY Zenon, <1>1, <1>4, <1>5 DEF WellFormedVolumes
<1>8. WellFormedInit("dsa", t.initContainers, v)
    BY Zenon, <1>1, <1>5 DEF WellFormedInit
<1>9. u = WithInit(t, t.initContainers, v)
    BY Zenon, <1>1, <1>2, VolumesReplaced
<1>10. Replaced("dsa", t, u, t.initContainers, v)
    BY Zenon, <1>7, <1>8, <1>9, ReplacedWellFormed
<1>11. WellFormed("dsa", u) /\ u.volumes = v /\ t.volumes = w
    BY Zenon, <1>10 DEF Replaced, w
<1>12. ConfigVolumes("dsa") = {cf} /\ cf # "devfs"
    BY Zenon, DsaVolumes DEF cf
<1>13. ConfigsOf(u) = ConfigsOf(t)
  <2>1. CASE cf \notin DOMAIN w
    <3>1. DOMAIN u.volumes \cap ConfigVolumes("dsa") = {} /\ DOMAIN t.volumes \cap ConfigVolumes("dsa") = {}
        BY Zenon, <1>5, <1>11, <1>12, <2>1
    <3>2. QED
        BY Zenon, <1>11, <3>1, ConfigIsOf
  <2>2. CASE cf \in DOMAIN w
    <3>1. PICK x : w[cf] = <<x>>
        BY Zenon, <1>1, <2>2 DEF WellFormedVolumes
    <3>2. /\ cf \in DOMAIN u.volumes /\ u.volumes[cf] = <<x>>
          /\ cf \in DOMAIN t.volumes /\ t.volumes[cf] = <<x>>
        BY Zenon, <1>5, <1>6, <1>11, <1>12, <2>2, <3>1
    <3>3. ConfigsOf(u) = {x} /\ ConfigsOf(t) = {x}
        BY Zenon, <1>11, <1>12, <3>2, ConfigIsOf
    <3>4. QED
        BY Zenon, <3>3
  <2>3. QED
      BY Zenon, <2>1, <2>2
<1>14. QED
    BY Zenon, <1>10, <1>11, <1>13 DEF u

LEMMA DsaNew ==
    ASSUME NEW s \in SpecsOf("dsa")
    PROVE  Made("dsa", dsa_NewDaemonSet(s), s, dsa_getPodArgs(s))
<1> DEFINE y == YamlTemplate({"devfs", "chardevs", "sysfs", "kubeletsockets"})
           t == Customised(y, s, dsa_getPodArgs(s))
           i == IF s.initImage = "" THEN t ELSE dsa_addInitContainer(t, s)
           n == dsa_NewDaemonSet(s)
<1>1. FromSpec("dsa", y, t, s, dsa_getPodArgs(s)) /\ y.initContainers = <<>>
    BY Zenon, DsaVolumes, YamlFromSpec
<1>2. n = dsa_WithDevfs(i, s)
    BY Zenon DEF dsa_NewDaemonSet
<1> HIDE DEF y, t, n
<1>3. WellFormed("dsa", t) /\ t.initContainers = <<>>
    BY Zenon, <1>1 DEF FromSpec
<1>4. Made("dsa", i, s, dsa_getPodArgs(s))
  <2>1. CASE s.initImage = ""
      BY Zenon, <1>1, <1>3, <2>1 DEF FromSpec, Made
  <2>2. CASE s.initImage # ""
      BY Zenon, <1>1, <1>3, <2>2, DsaAdds, ReplacedMade
  <2>3. QED
      BY Zenon, <2>1, <2>2
<1> HIDE DEF i
<1>5. Replaced("dsa", i, n, i.initContainers, n.volumes)
    BY Zenon, <1>2, <1>4, DsaDevfs DEF Made
<1>6. QED
    BY Zenon, <1>4, <1>5 DEF Made, Replaced, n

LEMMA DsaKeeps ==
    ASSUME NEW t, WellFormed("dsa", t), NEW s, ~dsa_provisioningUpdate(t, s)
    PROVE  Processed("dsa", t, s)
<1>1. InitOf(t.initContainers, s)
    BY Zenon, InitShape DEF dsa_provisioningUpdate, InitOf
<1> DEFINE cf == dsa_configVolumeName
<1>2. ConfigVolumes("dsa") = {cf}
    BY Zenon, DsaVolumes
<1>3. cf \in DOMAIN t.volumes => \A c \in Range(t.volumes[cf]) : c = s.provisioningConfig
    BY Zenon DEF dsa_provisioningUpdate
<1> HIDE DEF cf
<1>4. ConfigsOf(t) \subseteq {s.provisioningConfig}
  <2>1. CASE cf \notin DOMAIN t.volumes
      BY <1>2, <2>1, ConfigIsOf
  <2>2. CASE cf \in DOMAIN t.volumes
    <3>1. PICK x : t.volumes[cf] = <<x>>
        BY Zenon, <2>2 DEF WellFormed, WellFormedVolumes
    <3>2. x = s.provisioningConfig
        BY <1>3, <2>2, <3>1 DEF Range
    <3>3. QED
        BY Zenon, <1>2, <2>2, <3>1, <3>2, ConfigIsOf
  <2>3. QED
      BY Zenon, <2>1, <2>2
<1>5. QED
    BY Zenon, <1>1, <1>4 DEF Processed

LEMMA DsaUpdate ==
    ASSUME NEW t, WellFormed("dsa", t), NEW s \in SpecsOf("dsa")
    PROVE  LET u == dsa_UpdateDaemonSet(t, s)
           IN  /\ Processed("dsa", u, s)
               /\ \E p : FromSpec("dsa", p, u, s, dsa_getPodArgs(s))
<1> DEFINE b == dsa_removeInitContainer(t)
           i == IF ~dsa_provisioningUpdate(t, s) THEN t
                ELSE IF s.initImage = "" THEN b ELSE dsa_addInitContainer(b, s)
           w == Customised(i, s, dsa_getPodArgs(s))
           u == dsa_UpdateDaemonSet(t, s)
<1>1. u = dsa_WithDevfs(w, s)
    BY Zenon DEF dsa_UpdateDaemonSet
<1>2. WellFormed("dsa", b) /\ b.initContainers = <<>> /\ ConfigsOf(b) = {}
    BY Zenon, DsaRemoves DEF Replaced
<1> HIDE DEF b, u
<1>3. Processed("dsa", i, s)
  <2>1. CASE ~dsa_provisioningUpdate(t, s)
      BY Zenon, <2>1, DsaKeeps
  <2>2. CASE dsa_provisioningUpdate(t, s) /\ s.initImage = ""
      BY Zenon, <1>2, <2>2 DEF Processed, InitOf
  <2>3. CASE dsa_provisioningUpdate(t, s) /\ s.initImage # ""
      BY Zenon, <1>2, <2>3, DsaAdds
  <2>4. QED
      BY Zenon, <2>1, <2>2, <2>3
<1> HIDE DEF i
<1>4. Processed("dsa", w, s) /\ FromSpec("dsa", i, w, s, dsa_getPodArgs(s))
    BY Zenon, <1>3, ProcessedCustomised
<1> HIDE DEF w
<1>5. /\ Replaced("dsa", w, u, w.initContainers, u.volumes)
      /\ ConfigsOf(u) = ConfigsOf(w)
    BY Zenon, <1>1, <1>4, DsaDevfs DEF Processed
<1>6. Processed("dsa", u, s)
    BY Zenon, <1>4, <1>5 DEF Processed, Replaced
<1>7. FromSpec("dsa", u, u, s, dsa_getPodArgs(s))
    BY Zenon, <1>4, <1>5 DEF FromSpec, Replaced
<1>8. QED
    BY Zenon, <1>6, <1>7 DEF u

-----------------------------------------------------------------------------
(* IAA.                                                                    *)

LEMMA IaaVolumes ==
    /\ BaseVolumes("iaa") = {"devfs", "chardevs", "sysfs", "kubeletsockets"}
    /\ InitVolumes("iaa") = iaa_InitVolumes /\ ConfigVolumes("iaa") = {iaa_configVolumeName}
    /\ iaa_configVolumeName \notin iaa_InitVolumes \cup BaseVolumes("iaa")
    /\ iaa_InitVolumes \cap BaseVolumes("iaa") = {}
BY Zenon DEF BaseVolumes, InitVolumes, ConfigVolumes, iaa_InitVolumes, iaa_configVolumeName

LEMMA IaaAdds ==
    ASSUME NEW t, WellFormed("iaa", t), t.initContainers = <<>>,
           NEW s \in SpecsOf("iaa"), s.initImage # ""
    PROVE  LET u == iaa_addInitContainer(t, s)
           IN  /\ Replaced("iaa", t, u, u.initContainers, u.volumes)
               /\ Processed("iaa", u, s)
<1> DEFINE conf == ConfOf(iaa_configVolumeName, s)
           more == appendVolumes(HostVolumes(iaa_InitVolumes), conf)
           v  == appendVolumes(t.volumes, more)
           c  == InitContainer(s.initImage, "iaa", iaa_InitVolumes \cup DOMAIN conf)
           ic == <<c>>
           u  == iaa_addInitContainer(t, s)
<1>1. WellFormedVolumes("iaa", t.volumes) /\ DOMAIN t.volumes = BaseVolumes("iaa")
    BY Zenon, BareVolumes DEF WellFormed
<1>2. Extra("iaa", conf)
    BY Zenon, IaaVolumes, ConfExtra
<1>3. /\ DOMAIN conf = IF s.provisioningConfig = "" THEN {} ELSE {iaa_configVolumeName}
      /\ s.provisioningConfig # "" => conf[iaa_configVolumeName] = <<s.provisioningConfig>>
    BY Zenon DEF ConfOf
<1>4. u = [t EXCEPT !.initContainers = Append(@, c), !.volumes = v]
    BY Zenon DEF iaa_addInitContainer, ConfOf
<1>5. Append(t.initContainers, c) = ic
    BY Zenon, SingletonNotEmpty
<1> HIDE DEF conf
<1>6. Extra("iaa", HostVolumes(iaa_InitVolumes)) /\ DOMAIN HostVolumes(iaa_InitVolumes) = iaa_InitVolumes
    BY Zenon, IaaVolumes, HostExtra DEF HostVolumes
<1>7. DOMAIN HostVolumes(iaa_InitVolumes) \cap DOMAIN conf = {}
    BY Zenon, <1>3, <1>6, IaaVolumes
<1> DEFINE host == HostVolumes(iaa_InitVolumes)
<1>8. Joined("iaa", host, conf, appendVolumes(host, conf))
  <2> HIDE DEF host
  <2>1. QED
      BY Zenon, <1>2, <1>6, <1>7, ExtraAppend DEF host
<1> HIDE DEF more
<1>9. /\ Extra("iaa", more) /\ DOMAIN more = iaa_InitVolumes \cup DOMAIN conf
      /\ \A n \in DOMAIN conf : more[n] = conf[n]
    BY Zenon, <1>6, <1>8 DEF Joined, more
<1>10. DOMAIN more \cap DOMAIN t.volumes = {}
    BY Zenon, <1>1, <1>3, <1>9, IaaVolumes
<1>11. Grown("iaa", t.volumes, v, more)
    BY Zenon, <1>1, <1>9, <1>10, AppendGrows
<1> HIDE DEF v
<1>12. /\ WellFormedVolumes("iaa", v) /\ DOMAIN v = BaseVolumes("iaa") \cup iaa_InitVolumes \cup DOMAIN conf
       /\ \A n \in DOMAIN conf : v[n] = conf[n]
    BY Zenon, <1>1, <1>9, <1>10, <1>11 DEF Grown
<1>13. "iaa" \in {"", "iaa", "idxd", "vfio-pci", "c6xxvf", "4xxxvf"}
    BY Zenon
<1>14. WellFormedInit("iaa", ic, v) /\ InitOf(ic, s)
    BY Zenon, <1>12, <1>13, InitWellFormed
<1> HIDE DEF ic, c, u
<1>15. u = WithInit(t, ic, v)
    BY Zenon, <1>4, <1>5 DEF WithInit
<1>16. Replaced("iaa", t, u, ic, v)
    BY Zenon, <1>12, <1>14, <1>15, ReplacedWellFormed
<1>17. WellFormed("iaa", u) /\ u.initContainers = ic /\ u.volumes = v
    BY Zenon, <1>16 DEF Replaced
<1>18. ConfigsOf(u) \subseteq {s.provisioningConfig}
  <2>1. CASE s.provisioningConfig = ""
    <3>1. DOMAIN u.volumes \cap ConfigVolumes("iaa") = {}
        BY Zenon, <1>3, <1>12, <1>17, <2>1, IaaVolumes
    <3>2. QED
        BY Zenon, <1>17, <3>1, ConfigIsOf
  <2>2. CASE s.provisioningConfig # ""
    <3>1. /\ iaa_configVolumeName \in DOMAIN u.volumes
          /\ u.volumes[iaa_configVolumeName] = <<s.provisioningConfig>>
        BY Zenon, <1>3, <1>12, <1>17, <2>2
    <3>2. QED
        BY Zenon, <1>17, <3>1, IaaVolumes, ConfigIsOf
  <2>3. QED
      BY Zenon, <2>1, <2>2
<1>19. Processed("iaa", u, s)
    BY Zenon, <1>14, <1>17, <1>18 DEF Processed
<1>20. QED
    BY Zenon, <1>16, <1>17, <1>19 DEF u

LEMMA IaaRemoves ==
    ASSUME NEW t, WellFormed("iaa", t)
    PROVE  LET u == iaa_removeInitContainer(t)
           IN  /\ Replaced("iaa", t, u, u.initContainers, u.volumes)
               /\ u.initContainers = <<>> /\ ConfigsOf(u) = {}
<1> DEFINE names == iaa_InitVolumes \cup {iaa_configVolumeName}
           v == removeVolume(t.volumes, names)
           u == iaa_removeInitContainer(t)
<1>1. /\ WellFormedVolumes("iaa", t.volumes) /\ names \cap BaseVolumes("iaa") = {}
      /\ names = InitVolumes("iaa") \cup ConfigVolumes("iaa")
    BY Zenon, IaaVolumes DEF WellFormed
<1>2. u = WithInit(t, <<>>, v)
    BY Zenon DEF iaa_removeInitContainer, WithInit
<1> HIDE DEF names, u
<1>3. Shrunk("iaa", t.volumes, v, names)
    BY Zenon, <1>1, RemoveShrinks
<1> HIDE DEF v
<1>4. WellFormedVolumes("iaa", v) /\ DOMAIN v = BaseVolumes("iaa")
    BY Zenon, <1>1, <1>3 DEF Shrunk, WellFormedVolumes
<1>5. WellFormedInit("iaa", <<>>, v)
    BY Zenon, <1>4 DEF WellFormedInit
<1>6. Replaced("iaa", t, u, <<>>, v)
    BY Zenon, <1>2, <1>4, <1>5, ReplacedWellFormed
<1>7. WellFormed("iaa", u) /\ u.initContainers = <<>> /\ u.volumes = v
    BY Zenon, <1>6 DEF Replaced
<1>8. DOMAIN u.volumes \cap ConfigVolumes("iaa") = {}
    BY Zenon, <1>4, <1>7, IaaVolumes
<1>9. QED
    BY Zenon, <1>6, <1>7, <1>8, ConfigIsOf DEF u

LEMMA IaaKeeps ==
    ASSUME NEW t, WellFormed("iaa", t), NEW s, ~iaa_provisioningUpdate(t, s)
    PROVE  Processed("iaa", t, s)
<1>1. InitOf(t.initContainers, s)
    BY Zenon, InitShape DEF iaa_provisioningUpdate, InitOf
<1> DEFINE cf == iaa_configVolumeName
<1>2. ConfigVolumes("iaa") = {cf}
    BY Zenon, IaaVolumes
<1>3. cf \in DOMAIN t.volumes => \A c \in Range(t.volumes[cf]) : c = s.provisioningConfig
    BY Zenon DEF iaa_provisioningUpdate
<1> HIDE DEF cf
<1>4. ConfigsOf(t) \subseteq {s.provisioningConfig}
  <2>1. CASE cf \notin DOMAIN t.volumes
      BY <1>2, <2>1, ConfigIsOf
  <2>2. CASE cf \in DOMAIN t.volumes
    <3>1. PICK x : t.volumes[cf] = <<x>>
        BY Zenon, <2>2 DEF WellFormed, WellFormedVolumes
    <3>2. x = s.provisioningConfig
        BY <1>3, <2>2, <3>1 DEF Range
    <3>3. QED
        BY Zenon, <1>2, <2>2, <3>1, <3>2, ConfigIsOf
  <2>3. QED
      BY Zenon, <2>1, <2>2
<1>5. QED
    BY Zenon, <1>1, <1>4 DEF Processed

LEMMA IaaNew ==
    ASSUME NEW s \in SpecsOf("iaa")
    PROVE  Made("iaa", iaa_NewDaemonSet(s), s, iaa_getPodArgs(s))
<1> DEFINE y == YamlTemplate({"devfs", "chardevs", "sysfs", "kubeletsockets"})
           t == Customised(y, s, iaa_getPodArgs(s))
           n == iaa_NewDaemonSet(s)
<1>1. FromSpec("iaa", y, t, s, iaa_getPodArgs(s)) /\ y.initContainers = <<>>
    BY Zenon, IaaVolumes, YamlFromSpec
<1>2. n = IF s.initImage = "" THEN t ELSE iaa_addInitContainer(t, s)
    BY Zenon DEF iaa_NewDaemonSet
<1> HIDE DEF y, t, n
<1>3. WellFormed("iaa", t) /\ t.initContainers = <<>>
    BY Zenon, <1>1 DEF FromSpec
<1>4. CASE s.initImage = ""
    BY Zenon, <1>1, <1>2, <1>3, <1>4 DEF FromSpec, Made, n
<1>5. CASE s.initImage # ""
    BY Zenon, <1>1, <1>2, <1>3, <1>5, IaaAdds, ReplacedMade DEF n
<1>6. QED
    BY Zenon, <1>4, <1>5

LEMMA Relabelled ==
    ASSUME NEW k, NEW t, WellFormed(k, t), NEW ns
    PROVE  LET u == [t EXCEPT !.nodeSelector = ns]
           IN  /\ Replaced(k, u, u, t.initContainers, t.volumes)
               /\ u.nodeSelector = ns /\ u.image = t.image /\ u.args = t.args
               /\ u.tolerations = t.tolerations
<1>1. PICK i, a, l, o, ic, v, m : t = Template(i, a, l, o, ic, v, m)
    BY Zenon DEF WellFormed, Shaped
<1> DEFINE u == Template(i, a, ns, o, ic, v, m)
<1>2. [t EXCEPT !.nodeSelector = ns] = u
    BY <1>1 DEF Template
<1>3. /\ t.mounts = m /\ t.volumes = v /\ t.initContainers = ic
      /\ t.image = i /\ t.args = a /\ t.tolerations = o
      /\ u.mounts = m /\ u.volumes = v /\ u.initContainers = ic
      /\ u.image = i /\ u.args = a /\ u.tolerations = o /\ u.nodeSelector = ns
    BY Zenon, <1>1 DEF Template
<1> HIDE DEF u
<1>4. WellFormed(k, u)
    BY Zenon, <1>3 DEF WellFormed, Shaped, u
<1>5. QED
    BY Zenon, <1>2, <1>3, <1>4 DEF Replaced

LEMMA IaaUpdate ==
    ASSUME NEW t, WellFormed("iaa", t), NEW s \in SpecsOf("iaa")
    PROVE  LET u == iaa_UpdateDaemonSet(t, s)
           IN  /\ Processed("iaa", u, s)
               /\ \E p : FromSpec("iaa", p, u, s, iaa_getPodArgs(s))
<1> DEFINE b == iaa_removeInitContainer(t)
           i == IF ~iaa_provisioningUpdate(t, s) THEN t
                ELSE IF s.initImage = "" THEN b ELSE iaa_addInitContainer(b, s)
           w == Customised(i, s, iaa_getPodArgs(s))
           ns == (s.nodeSelector \ ArchLabels) \cup defaultNodeSelector
           u == iaa_UpdateDaemonSet(t, s)
<1>1. u = [w EXCEPT !.nodeSelector = ns]
    BY Zenon DEF iaa_UpdateDaemonSet
<1>2. WellFormed("iaa", b) /\ b.initContainers = <<>> /\ ConfigsOf(b) = {}
    BY Zenon, IaaRemoves DEF Replaced
<1> HIDE DEF b, u
<1>3. Processed("iaa", i, s)
  <2>1. CASE ~iaa_provisioningUpdate(t, s)
      BY Zenon, <2>1, IaaKeeps
  <2>2. CASE iaa_provisioningUpdate(t, s) /\ s.initImage = ""
      BY Zenon, <1>2, <2>2 DEF Processed, InitOf
  <2>3. CASE iaa_provisioningUpdate(t, s) /\ s.initImage # ""
      BY Zenon, <1>2, <2>3, IaaAdds
  <2>4. QED
      BY Zenon, <2>1, <2>2, <2>3
<1> HIDE DEF i
<1>4. Processed("iaa", w, s) /\ FromSpec("iaa", i, w, s, iaa_getPodArgs(s))
    BY Zenon, <1>3, ProcessedCustomised
<1>5. s.nodeSelector \ ArchLabels \subseteq ns
    BY Zenon
<1> HIDE DEF w, ns
<1>6. /\ Replaced("iaa", u, u, w.initContainers, w.volumes)
      /\ u.nodeSelector = ns /\ u.image = w.image /\ u.args = w.args
      /\ u.tolerations = w.tolerations
    BY <1>1, <1>4, Relabelled DEF Processed
<1>7. ConfigsOf(u) = ConfigsOf(w)
    BY Zenon, <1>6 DEF ConfigsOf, Replaced
<1>8. Processed("iaa", u, s)
    BY Zenon, <1>4, <1>6, <1>7 DEF Processed, Replaced
<1>9. FromSpec("iaa", u, u, s, iaa_getPodArgs(s))
    BY Zenon, <1>4, <1>5, <1>6 DEF FromSpec, Replaced
<1>10. QED
    BY Zenon, <1>8, <1>9 DEF u

-----------------------------------------------------------------------------
(* QAT.                                                                    *)

LEMMA QatVolumes ==
    /\ BaseVolumes("qat") = {"devdir", "debugfsdir", "pcidir", "kubeletsockets"}
    /\ InitVolumes("qat") = {"sysfs"} /\ ConfigVolumes("qat") = {qatConfigVolume}
    /\ qatConfigVolume \notin {"sysfs"} \cup BaseVolumes("qat")
    /\ "sysfs" \notin BaseVolumes("qat")
BY Zenon DEF BaseVolumes, InitVolumes, ConfigVolumes, qatConfigVolume

(* w is v with the provisioning config c.                                  *)
ConfigSet(v, w, c) ==
    /\ WellFormedVolumes("qat", w) /\ DOMAIN w = DOMAIN v \cup {qatConfigVolume}
    /\ w[qatConfigVolume] = <<c>>

LEMMA QatSetsConfig ==
    ASSUME NEW v, WellFormedVolumes("qat", v), NEW c \in Configs
    PROVE  ConfigSet(v, qat_SetConfigVolume(v, c), c)
<1> DEFINE q == qatConfigVolume
           w == qat_SetConfigVolume(v, c)
<1>1. CASE q \in DOMAIN v
  <2>1. PICK x : v[q] = <<x>>
      BY Zenon, <1>1 DEF WellFormedVolumes
  <2>2. w = [v EXCEPT ![q] = [i \in DOMAIN v[q] |-> c]]
      BY Zenon, <1>1 DEF qat_SetConfigVolume
  <2>3. [i \in DOMAIN v[q] |-> c] = <<c>>
      BY Zenon, <2>1, SingletonMap
  <2>4. c \in Sources("qat", q)
      BY Zenon, QatVolumes DEF Sources
  <2> HIDE DEF q, w
  <2>5. w = [v EXCEPT ![q] = <<c>>]
      BY Zenon, <2>2, <2>3
  <2>6. QED
      BY Zenon, <1>1, <2>4, <2>5 DEF WellFormedVolumes, ConfigSet, q, w
<1>2. CASE q \notin DOMAIN v
  <2> DEFINE more == [n \in {q} |-> <<c>>]
  <2>1. w = appendVolumes(v, more)
      BY Zenon, <1>2 DEF qat_SetConfigVolume
  <2>2. Extra("qat", more) /\ DOMAIN more = {q} /\ more[q] = <<c>>
      BY Zenon, QatVolumes DEF Extra, Sources
  <2> HIDE DEF more, w
  <2>3. Grown("qat", v, w, more)
      BY Zenon, <1>2, <2>1, <2>2, AppendGrows
  <2>4. QED
      BY Zenon, <1>2, <2>2, <2>3 DEF Grown, ConfigSet, w
<1>3. QED
    BY Zenon, <1>1, <1>2

LEMMA QatSets ==
    ASSUME NEW t, Shaped("qat", t), WellFormedVolumes("qat", t.volumes),
           NEW s \in SpecsOf("qat"), s.initImage # "",
           s.provisioningConfig = "" => qatConfigVolume \notin DOMAIN t.volumes
    PROVE  LET u == qat_setInitContainer(t, s)
           IN  /\ Replaced("qat", t, u, u.initContainers, u.volumes)
               /\ Processed("qat", u, s)
<1> DEFINE q == qatConfigVolume
           cfg == s.provisioningConfig
           v1 == addVolumeIfMissing(t.volumes, "sysfs")
           v2 == IF cfg # "" THEN qat_SetConfigVolume(v1, cfg) ELSE v1
           m  == {"sysfs"} \cup (IF cfg # "" THEN {q} ELSE {})
           ic == <<InitContainer(s.initImage, s.driver, m)>>
           u  == qat_setInitContainer(t, s)
<1>1. u = WithInit(t, ic, v2)
    BY Zenon DEF qat_setInitContainer, WithInit
<1>2. "sysfs" \in InitVolumes("qat") /\ "sysfs" \notin ConfigVolumes("qat")
    BY Zenon, QatVolumes
<1>3. Grown("qat", t.volumes, v1, HostVolumes({"sysfs"}))
    BY <1>2, AddIfMissingGrows, Zenon
<1>4. cfg \in Configs \cup {""} /\ s.driver \in {"", "iaa", "idxd", "vfio-pci", "c6xxvf", "4xxxvf"}
    BY Zenon, SpecTypes
<1>5. ConfigVolumes("qat") = {q} /\ q # "sysfs"
    BY Zenon, QatVolumes
<1> HIDE DEF v1, u, cfg, q
<1>6. WellFormedVolumes("qat", v1) /\ DOMAIN v1 = DOMAIN t.volumes \cup {"sysfs"}
    BY Zenon, <1>3 DEF Grown, HostVolumes
<1>7. CASE cfg = ""
  <2>1. v2 = v1 /\ m = {"sysfs"}
      BY Zenon, <1>7
  <2> HIDE DEF v2, m
  <2>2. m \subseteq DOMAIN v2
      BY Zenon, <1>6, <2>1
  <2>3. WellFormedInit("qat", ic, v2) /\ InitOf(ic, s)
      BY Zenon, <1>4, <2>2, InitWellFormed
  <2> HIDE DEF ic
  <2>4. Replaced("qat", t, u, ic, v2)
      BY Zenon, <1>1, <1>6, <2>1, <2>3, ReplacedShaped
  <2>5. WellFormed("qat", u) /\ u.initContainers = ic /\ u.volumes = v2
      BY Zenon, <2>4 DEF Replaced
  <2>6. DOMAIN u.volumes \cap ConfigVolumes("qat") = {}
      BY Zenon, <1>5, <1>6, <1>7, <2>1, <2>5 DEF cfg, q
  <2>7. ConfigsOf(u) = {}
      BY Zenon, <2>5, <2>6, ConfigIsOf
  <2>8. Processed("qat", u, s)
      BY Zenon, <1>7, <2>3, <2>5, <2>7 DEF Processed, cfg
  <2>9. QED
      BY Zenon, <2>4, <2>5, <2>8 DEF u
<1>8. CASE cfg # ""
  <2>1. v2 = qat_SetConfigVolume(v1, cfg) /\ m = {"sysfs", q}
      BY Zenon, <1>8
  <2> HIDE DEF v2, m
  <2>2. ConfigSet(v1, v2, cfg)
      BY Zenon, <1>4, <1>6, <1>8, <2>1, QatSetsConfig
  <2>3. WellFormedVolumes("qat", v2) /\ q \in DOMAIN v2 /\ v2[q] = <<cfg>> /\ m \subseteq DOMAIN v2
      BY Zenon, <1>6, <2>1, <2>2 DEF ConfigSet, q
  <2>4. WellFormedInit("qat", ic, v2) /\ InitOf(ic, s)
      BY Zenon, <1>4, <2>3, InitWellFormed
  <2> HIDE DEF ic
  <2>5. Replaced("qat", t, u, ic, v2)
      BY Zenon, <1>1, <2>3, <2>4, ReplacedShaped
  <2>6. WellFormed("qat", u) /\ u.initContainers = ic /\ u.volumes = v2
      BY Zenon, <2>5 DEF Replaced
  <2>7. ConfigsOf(u) = {cfg}
      BY Zenon, <1>5, <2>3, <2>6, ConfigIsOf
  <2>8. Processed("qat", u, s)
      BY Zenon, <1>8, <2>4, <2>6, <2>7 DEF Processed, cfg
  <2>9. QED
      BY Zenon, <2>5, <2>6, <2>8 DEF u
<1>9. QED
    BY Zenon, <1>7, <1>8

LEMMA QatNew ==
    ASSUME NEW s \in SpecsOf("qat")
    PROVE  Made("qat", qat_NewDaemonSet(s), s, qat_getPodArgs(s))
<1> DEFINE y == YamlTemplate({"devdir", "debugfsdir", "pcidir", "kubeletsockets"})
           t == Customised(y, s, qat_getPodArgs(s))
           n == qat_NewDaemonSet(s)
<1>1. /\ FromSpec("qat", y, t, s, qat_getPodArgs(s)) /\ y.initContainers = <<>>
      /\ DOMAIN y.volumes = BaseVolumes("qat")
    BY Zenon, QatVolumes, YamlFromSpec
<1>2. n = IF s.initImage = "" THEN t ELSE qat_setInitContainer(t, s)
    BY Zenon DEF qat_NewDaemonSet
<1> HIDE DEF y, t, n
<1>3. Shaped("qat", t) /\ WellFormedVolumes("qat", t.volumes) /\ qatConfigVolume \notin DOMAIN t.volumes
    BY Zenon, <1>1, QatVolumes DEF FromSpec, WellFormed
<1>4. CASE s.initImage = ""
    BY Zenon, <1>1, <1>2, <1>4 DEF FromSpec, Made, n
<1>5. CASE s.initImage # ""
    BY Zenon, <1>1, <1>2, <1>3, <1>5, QatSets, ReplacedMade DEF n
<1>6. QED
    BY Zenon, <1>4, <1>5

LEMMA QatRemovesConfig ==
    ASSUME NEW t, WellFormed("qat", t)
    PROVE  LET u == [t EXCEPT !.volumes = removeVolume(@, {qatConfigVolume})]
           IN  /\ Shaped("qat", u) /\ WellFormedVolumes("qat", u.volumes)
               /\ qatConfigVolume \notin DOMAIN u.volumes
<1>1. PICK i, a, l, o, ic, v, m : t = Template(i, a, l, o, ic, v, m)
    BY Zenon DEF WellFormed, Shaped
<1> DEFINE r == removeVolume(v, {qatConfigVolume})
           u == Template(i, a, l, o, ic, r, m)
<1>2. t.volumes = v /\ t.mounts = m
    BY Zenon, <1>1 DEF Template
<1>3. WellFormedVolumes("qat", v) /\ m = BaseVolumes("qat")
    BY Zenon, <1>2 DEF WellFormed, Shaped
<1>4. {qatConfigVolume} \cap BaseVolumes("qat") = {}
    BY Zenon, QatVolumes
<1>5. Shrunk("qat", v, r, {qatConfigVolume})
    BY Zenon, <1>3, <1>4, RemoveShrinks
<1>6. [t EXCEPT !.volumes = removeVolume(@, {qatConfigVolume})] = [t EXCEPT !.volumes = r]
    BY Zenon, <1>2
<1> HIDE DEF r
<1>7. [t EXCEPT !.volumes = r] = u
    BY <1>1 DEF Template
<1>8. u.volumes = r /\ u.mounts = m
    BY Zenon DEF Template
<1> HIDE DEF u
<1>9. Shaped("qat", u)
    BY Zenon, <1>3, <1>8 DEF Shaped, u
<1>10. QED
    BY Zenon, <1>5, <1>6, <1>7, <1>8, <1>9 DEF Shrunk

LEMMA QatUnsets ==
    ASSUME NEW t, WellFormed("qat", t), NEW s, s.initImage = "", s.provisioningConfig = ""
    PROVE  Processed("qat", WithInit(t, <<>>, removeVolume(t.volumes, {"sysfs", qatConfigVolume})), s)
<1> DEFINE names == {"sysfs", qatConfigVolume}
           v == removeVolume(t.volumes, names)
           u == WithInit(t, <<>>, v)
<1>1. /\ WellFormedVolumes("qat", t.volumes) /\ names \cap BaseVolumes("qat") = {}
      /\ names = InitVolumes("qat") \cup ConfigVolumes("qat")
    BY Zenon, QatVolumes DEF WellFormed
<1> HIDE DEF names
<1>2. Shrunk("qat", t.volumes, v, names)
    BY Zenon, <1>1, RemoveShrinks
<1> HIDE DEF v
<1>3. WellFormedVolumes("qat", v) /\ DOMAIN v = BaseVolumes("qat")
    BY Zenon, <1>1, <1>2 DEF Shrunk, WellFormedVolumes
<1>4. WellFormedInit("qat", <<>>, v)
    BY Zenon, <1>3 DEF WellFormedInit
<1>5. Replaced("qat", t, u, <<>>, v)
    BY Zenon, <1>3, <1>4, ReplacedWellFormed
<1> HIDE DEF u
<1>6. WellFormed("qat", u) /\ u.initContainers = <<>> /\ u.volumes = v
    BY Zenon, <1>5 DEF Replaced
<1>7. DOMAIN u.volumes \cap ConfigVolumes("qat") = {}
    BY Zenon, <1>3, <1>6, QatVolumes
<1>8. ConfigsOf(u) = {}
    BY Zenon, <1>6, <1>7, ConfigIsOf
<1>9. QED
    BY Zenon, <1>6, <1>8 DEF Processed, InitOf, u, v, names

LEMMA QatKeeps ==
    ASSUME NEW t, WellFormed("qat", t), NEW s, InitOf(t.initContainers, s),
           ~qat_provisioningConfigChanged(t, s)
    PROVE  Processed("qat", t, s)
<1> DEFINE q == qatConfigVolume
<1>1. (IF q \in DOMAIN t.volumes THEN t.volumes[q][1] ELSE "") = s.provisioningConfig
    BY Zenon DEF qat_provisioningConfigChanged
<1>2. ConfigVolumes("qat") = {q}
    BY Zenon, QatVolumes
<1> HIDE DEF q
<1>3. ConfigsOf(t) = {s.provisioningConfig} \ {""}
  <2>1. CASE q \notin DOMAIN t.volumes
    <3>1. DOMAIN t.volumes \cap ConfigVolumes("qat") = {}
        BY Zenon, <1>2, <2>1
    <3>2. ConfigsOf(t) = {} /\ s.provisioningConfig = ""
        BY Zenon, <1>1, <2>1, <3>1, ConfigIsOf
    <3>3. QED
        BY Zenon, <3>2
  <2>2. CASE q \in DOMAIN t.volumes
    <3>1. PICK x \in Configs : t.volumes[q] = <<x>>
        BY Zenon, <1>2, <2>2 DEF WellFormed, WellFormedVolumes, Sources
    <3>2. x = s.provisioningConfig /\ x # ""
        BY Zenon, <1>1, <2>2, <3>1, SingletonExcept, ImageAssumption
    <3>3. ConfigsOf(t) = {x}
        BY Zenon, <1>2, <2>2, <3>1, ConfigIsOf
    <3>4. QED
        BY Zenon, <3>2, <3>3
  <2>3. QED
      BY Zenon, <2>1, <2>2
<1>4. QED
    BY Zenon, <1>3 DEF Processed

LEMMA QatUpdate ==
    ASSUME NEW t, WellFormed("qat", t), NEW s \in SpecsOf("qat"),
           s.provisioningConfig # "" => s.initImage # ""
    PROVE  LET u == qat_UpdateDaemonSet(t, s)
           IN  /\ Processed("qat", u, s)
               /\ \E p : FromSpec("qat", p, u, s, qat_getPodArgs(s))
<1> DEFINE p == qat_processInitContainer(t, s)
           same == /\ Len(t.initContainers) = 1 /\ t.initContainers[1].image = s.initImage
                   /\ ~qat_provisioningConfigChanged(t, s)
<1>1. Processed("qat", p, s)
  <2>1. CASE s.initImage = "" /\ t.initContainers = <<>>
    <3>1. p = t
        BY Zenon, <2>1 DEF qat_processInitContainer
    <3>2. DOMAIN t.volumes \cap ConfigVolumes("qat") = {}
        BY Zenon, <2>1, BareVolumes, QatVolumes
    <3>3. ConfigsOf(t) = {}
        BY Zenon, <3>2, ConfigIsOf
    <3>4. QED
        BY Zenon, <2>1, <3>1, <3>3 DEF Processed, InitOf
  <2>2. CASE s.initImage = "" /\ t.initContainers # <<>>
    <3>1. p = WithInit(t, <<>>, removeVolume(t.volumes, {"sysfs", qatConfigVolume}))
        BY Zenon, <2>2 DEF qat_processInitContainer, WithInit
    <3>2. QED
        BY Zenon, <2>2, <3>1, QatUnsets
  <2>3. CASE s.initImage # "" /\ ~same /\ s.provisioningConfig # ""
    <3>1. p = qat_setInitContainer(t, s)
        BY Zenon, <2>3 DEF qat_processInitContainer
    <3>2. QED
        BY Zenon, <2>3, <3>1, QatSets DEF WellFormed
  <2>4. CASE s.initImage # "" /\ ~same /\ s.provisioningConfig = ""
    <3> DEFINE r == [t EXCEPT !.volumes = removeVolume(@, {qatConfigVolume})]
    <3>1. p = qat_setInitContainer(r, s)
        BY Zenon, <2>4 DEF qat_processInitContainer
    <3>2. /\ Shaped("qat", r) /\ WellFormedVolumes("qat", r.volumes)
          /\ qatConfigVolume \notin DOMAIN r.volumes
        BY Zenon, QatRemovesConfig
    <3> HIDE DEF r
    <3>3. QED
        BY Zenon, <2>4, <3>1, <3>2, QatSets
  <2>5. CASE s.initImage # "" /\ same
    <3>1. p = t
        BY Zenon, <2>5 DEF qat_processInitContainer
    <3>2. InitOf(t.initContainers, s)
        BY Zenon, <2>5, KeptInit
    <3>3. QED
        BY Zenon, <2>5, <3>1, <3>2, QatKeeps
  <2>6. QED
      BY Zenon, <2>1, <2>2, <2>3, <2>4, <2>5
<1> HIDE DEF p
<1>2. QED
    BY Zenon, <1>1, ProcessedCustomised DEF qat_UpdateDaemonSet, p

-----------------------------------------------------------------------------
(* All kinds.                                                              *)

(* What every validatePlugin rules out.                                    *)
Admitted(k, s) ==
    /\ s.provisioningConfig # "" => s.initImage # ""
    /\ k = "fpga" => s.initImage # ""

LEMMA ValidAdmitted ==
    ASSUME NEW k \in Kinds, NEW s \in SpecsOf(k), validatePlugin(k, s)
    PROVE  Admitted(k, s)
<1>1. k = "dsa" => dsa_validatePlugin(s)
    BY Zenon DEF validatePlugin
<1>2. k = "iaa" => iaa_validatePlugin(s)
    BY Zenon DEF validatePlugin
<1>3. k = "qat" => qat_validatePlugin(s)
    BY Zenon DEF validatePlugin
<1>4. k = "fpga" => fpga_validatePlugin(s)
    BY Zenon DEF validatePlugin
<1>5. s.provisioningConfig # "" => k \in {"dsa", "iaa", "qat"}
    BY Zenon, SpecTypes
<1>6. QED
    BY Zenon, <1>1, <1>2, <1>3, <1>4, <1>5
    DEF Admitted, dsa_validatePlugin, iaa_validatePlugin, qat_validatePlugin,
        fpga_validatePlugin, validatePluginImage

LEMMA EveryNew ==
    ASSUME NEW k \in Kinds, NEW s \in SpecsOf(k)
    PROVE  \E args : Made(k, NewDaemonSet(k, s), s, args)
<1>1. CASE k = "dlb"
    BY Zenon, <1>1, DlbNew DEF NewDaemonSet
<1>2. CASE k = "dsa"
    BY Zenon, <1>2, DsaNew DEF NewDaemonSet
<1>3. CASE k = "fpga"
    BY Zenon, <1>3, FpgaNew DEF NewDaemonSet
<1>4. CASE k = "gpu"
    BY Zenon, <1>4, GpuNew DEF NewDaemonSet
<1>5. CASE k = "iaa"
    BY Zenon, <1>5, IaaNew DEF NewDaemonSet
<1>6. CASE k = "npu"
    BY Zenon, <1>6, NpuNew DEF NewDaemonSet
<1>7. CASE k = "qat"
    BY Zenon, <1>7, QatNew DEF NewDaemonSet
<1>8. CASE k = "sgx"
    BY Zenon, <1>8, SgxNew DEF NewDaemonSet
<1>9. QED
    BY Zenon, <1>1, <1>2, <1>3, <1>4, <1>5, <1>6, <1>7, <1>8, KindsAssumption

(* NewDaemonSet and UpdateDaemonSet pass the same arguments.               *)
LEMMA EveryUpdate ==
    ASSUME NEW k \in Kinds, NEW t, WellFormed(k, t), NEW s \in SpecsOf(k), Admitted(k, s)
    PROVE  LET u == UpdateDaemonSet(k, t, s)
           IN  /\ Processed(k, u, s)
               /\ \E p : FromSpec(k, p, u, s, NewDaemonSet(k, s).args)
<1>1. CASE k = "dlb"
  <2>1. UpdateDaemonSet(k, t, s) = dlb_UpdateDaemonSet(t, s)
      BY Zenon, <1>1 DEF UpdateDaemonSet
  <2>2. NewDaemonSet(k, s).args = dlb_getPodArgs(s)
      BY Zenon, <1>1, DlbNew DEF NewDaemonSet, Made
  <2>3. QED
      BY Zenon, <1>1, <2>1, <2>2, DlbUpdate
<1>2. CASE k = "dsa"
  <2>1. UpdateDaemonSet(k, t, s) = dsa_UpdateDaemonSet(t, s)
      BY Zenon, <1>2 DEF UpdateDaemonSet
  <2>2. NewDaemonSet(k, s).args = dsa_getPodArgs(s)
      BY Zenon, <1>2, DsaNew DEF NewDaemonSet, Made
  <2>3. QED
      BY Zenon, <1>2, <2>1, <2>2, DsaUpdate
<1>3. CASE k = "fpga"
  <2>1. UpdateDaemonSet(k, t, s) = fpga_UpdateDaemonSet(t, s)
      BY Zenon, <1>3 DEF UpdateDaemonSet
  <2>2. NewDaemonSet(k, s).args = fpga_getPodArgs(s)
      BY Zenon, <1>3, FpgaNew DEF NewDaemonSet, Made
  <2>3. QED
      BY Zenon, <1>3, <2>1, <2>2, FpgaUpdate DEF Admitted
<1>4. CASE k = "gpu"
  <2>1. UpdateDaemonSet(k, t, s) = gpu_UpdateDaemonSet(t, s)
      BY Zenon, <1>4 DEF UpdateDaemonSet
  <2>2. NewDaemonSet(k, s).args = gpu_getPodArgs(s)
      BY Zenon, <1>4, GpuNew DEF NewDaemonSet, Made
  <2>3. QED
      BY Zenon, <1>4, <2>1, <2>2, GpuUpdate
<1>5. CASE k = "iaa"
  <2>1. UpdateDaemonSet(k, t, s) = iaa_UpdateDaemonSet(t, s)
      BY Zenon, <1>5 DEF UpdateDaemonSet
  <2>2. NewDaemonSet(k, s).args = iaa_getPodArgs(s)
      BY Zenon, <1>5, IaaNew DEF NewDaemonSet, Made
  <2>3. QED
      BY Zenon, <1>5, <2>1, <2>2, IaaUpdate
<1>6. CASE k = "npu"
  <2>1. UpdateDaemonSet(k, t, s) = npu_UpdateDaemonSet(t, s)
      BY Zenon, <1>6 DEF UpdateDaemonSet
  <2>2. NewDaemonSet(k, s).args = npu_getPodArgs(s)
      BY Zenon, <1>6, NpuNew DEF NewDaemonSet, Made
  <2>3. QED
      BY Zenon, <1>6, <2>1, <2>2, NpuUpdate
<1>7. CASE k = "qat"
  <2>1. UpdateDaemonSet(k, t, s) = qat_UpdateDaemonSet(t, s)
      BY Zenon, <1>7 DEF UpdateDaemonSet
  <2>2. NewDaemonSet(k, s).args = qat_getPodArgs(s)
      BY Zenon, <1>7, QatNew DEF NewDaemonSet, Made
  <2>3. QED
      BY Zenon, <1>7, <2>1, <2>2, QatUpdate DEF Admitted
<1>8. CASE k = "sgx"
  <2>1. UpdateDaemonSet(k, t, s) = sgx_UpdateDaemonSet(t, s)
      BY Zenon, <1>8 DEF UpdateDaemonSet
  <2>2. NewDaemonSet(k, s).args = sgx_getPodArgs(s)
      BY Zenon, <1>8, SgxNew DEF NewDaemonSet, Made
  <2>3. QED
      BY Zenon, <1>8, <2>1, <2>2, SgxUpdate
<1>9. QED
    BY Zenon, <1>1, <1>2, <1>3, <1>4, <1>5, <1>6, <1>7, <1>8, KindsAssumption

LEMMA EmptyRange == Range(<<>>) = {}
BY DEF Range

(* A template processed for a spec carries it, stored.                     *)
LEMMA ProcessedCarries ==
    ASSUME NEW k \in Kinds, NEW s \in SpecsOf(k), NEW u, Processed(k, u, s),
           NEW p, FromSpec(k, p, u, s, NewDaemonSet(k, s).args)
    PROVE  Carries(k, Stored(u), s)
<1> DEFINE n == NewDaemonSet(k, s)
           x == Stored(u)
<1>1. WellFormed(k, n) /\ n.tolerations = s.tolerations
    BY Zenon, EveryNew DEF Made
<1>2. /\ u.image = s.image /\ u.args = n.args /\ u.tolerations = n.tolerations
      /\ s.nodeSelector \ (IF k = "iaa" THEN ArchLabels ELSE {}) \subseteq u.nodeSelector
    BY Zenon, <1>1 DEF FromSpec
<1> HIDE DEF n
<1>3. WellFormed(k, u)
    BY Zenon DEF Processed
<1>4. /\ x.image = u.image /\ x.args = u.args /\ x.nodeSelector = u.nodeSelector
      /\ x.initContainers = u.initContainers /\ x.volumes = u.volumes
      /\ x.tolerations = IF u.tolerations = "empty" THEN "nil" ELSE u.tolerations
    BY Zenon, <1>3, StoredFields
<1>5. Stored(n).tolerations = IF n.tolerations = "empty" THEN "nil" ELSE n.tolerations
    BY Zenon, <1>1, StoredFields
<1> HIDE DEF x
<1>6. ConfigsOf(x) = ConfigsOf(u)
    BY Zenon, <1>4 DEF ConfigsOf
<1>7. {c.image : c \in Range(x.initContainers)} = {s.initImage} \ {""}
  <2>1. CASE s.initImage = ""
    <3>1. x.initContainers = <<>>
        BY Zenon, <1>4, <2>1 DEF Processed, InitOf
    <3>2. Range(x.initContainers) = {}
        BY Zenon, <3>1, EmptyRange
    <3>3. QED
        BY Zenon, <2>1, <3>2
  <2>2. CASE s.initImage # ""
    <3>1. u.initContainers # <<>> /\ u.initContainers[1].image = s.initImage
        BY Zenon, <2>2 DEF Processed, InitOf
    <3>2. Range(u.initContainers) = {u.initContainers[1]}
        BY Zenon, <1>3, <3>1, InitShape
    <3>3. QED
        BY Zenon, <1>4, <2>2, <3>1, <3>2
  <2>3. QED
      BY Zenon, <2>1, <2>2
<1>8. QED
    BY Zenon, <1>2, <1>4, <1>5, <1>6, <1>7 DEF Carries, Processed, n, x

(* NewDaemonSet of every kind makes a well-formed template, which the API  *)
(* server accepts: no volume is there twice and every mounted volume is    *)
(* there, whatever the resource asks for.                                  *)
THEOREM NewDaemonSetValid ==
    ASSUME NEW k \in Kinds, NEW s \in SpecsOf(k)
    PROVE  WellFormed(k, NewDaemonSet(k, s)) /\ ValidTemplate(NewDaemonSet(k, s))
<1>1. WellFormed(k, NewDaemonSet(k, s))
    BY Zenon, EveryNew DEF Made
<1>2. QED
    BY Zenon, <1>1, WellFormedValid

(* UpdateDaemonSet of every kind makes of any well-formed template, made   *)
(* for whatever resource before, one that is well-formed, that the API     *)
(* server accepts and that carries the images, init container, arguments,  *)
(* labels, tolerations and config of the resource.                         *)
THEOREM UpdateDaemonSetCarries ==
    ASSUME NEW k \in Kinds, NEW t, WellFormed(k, t), NEW s \in SpecsOf(k), Admitted(k, s)
    PROVE  /\ WellFormed(k, UpdateDaemonSet(k, t, s))
           /\ ValidTemplate(UpdateDaemonSet(k, t, s))
           /\ Carries(k, Stored(UpdateDaemonSet(k, t, s)), s)
<1> DEFINE u == UpdateDaemonSet(k, t, s)
<1>1. PICK p : Processed(k, u, s) /\ FromSpec(k, p, u, s, NewDaemonSet(k, s).args)
    BY Zenon, EveryUpdate
<1> HIDE DEF u
<1>2. WellFormed(k, u)
    BY Zenon, <1>1 DEF Processed
<1>3. ValidTemplate(u)
    BY Zenon, <1>2, WellFormedValid
<1>4. Carries(k, Stored(u), s)
    BY Zenon, <1>1, ProcessedCarries
<1>5. QED
    BY Zenon, <1>2, <1>3, <1>4 DEF u

-----------------------------------------------------------------------------
(* The operator.                                                           *)

IsCr(x) == x \in Resources /\ x.spec \in SpecsOf(kind)

IsDs(x) ==
    /\ x = [uid |-> x.uid, owner |-> x.owner, template |-> x.template, ready |-> x.ready]
    /\ x.uid \in 1..2 /\ x.owner \in 0..MaxEvents /\ x.ready \in 0..Cardinality(Nodes)

Typed ==
    /\ kind \in Kinds
    /\ \A x \in {cr, crCache, dp} : x # None => IsCr(x)
    /\ \A x \in {ds, dsCache, child} : x # NoDs => IsDs(x)
    /\ pods \subseteq Nodes /\ podCache \subseteq Nodes
    /\ queued \in BOOLEAN /\ unseen \subseteq {"cr", "ds"}
    /\ pc \in {"idle", "get", "upgrade", "sync", "status"}
    /\ dp = None <=> pc \in {"idle", "get"}
    /\ child # NoDs => pc # "idle"
    /\ pc = "status" => IsDs(child)
    /\ events \in 0..MaxEvents /\ lastUid \in 1..2

(* A copy is the object itself, or an event or a request is on its way.    *)
Followed ==
    /\ "cr" \notin unseen => crCache = cr
    /\ "ds" \notin unseen => dsCache = ds
    /\ ~queued /\ "ds" \notin unseen /\ pc # "idle" => child = ds
    /\ ~queued /\ "cr" \notin unseen /\ pc \in {"upgrade", "sync", "status"} => dp = cr

IInv == Typed /\ Followed /\ StatusCurrent

LEMMA InitIInv == Init => IInv
<1> SUFFICES ASSUME Init PROVE IInv
    BY Zenon
<1>1. PICK s \in SpecsOf(kind) : cr = [uid |-> 0, spec |-> s, status |-> NoStatus]
    BY Zenon DEF Init
<1>2. Cardinality(Nodes) \in Nat
    BY Zenon, NodesAssumption, FS_CardinalityType
<1>3. NoStatus \in Statuses
    BY <1>2 DEF NoStatus, Statuses
<1>0. 0 \in 0..MaxEvents
    BY EventsAssumption
<1>4. IsCr(cr)
  <2>1. s \in Specs
      BY Zenon DEF SpecsOf
  <2>2. cr \in Resources /\ cr.spec = s
      BY Zenon, <1>0, <1>1, <1>3, <2>1 DEF Resources
  <2>3. QED
      BY Zenon, <2>2 DEF IsCr
<1>5. Typed
  <2>1. /\ kind \in Kinds /\ ds = NoDs /\ pods = {} /\ crCache = None /\ dsCache = NoDs
        /\ podCache = {} /\ unseen = {"cr"} /\ queued = FALSE /\ pc = "idle" /\ dp = None
        /\ child = NoDs /\ lastUid = 1 /\ events = 0
      BY Zenon DEF Init
  <2>2. \A x \in {cr, crCache, dp} : x # None => IsCr(x)
      BY Zenon, <1>4, <2>1
  <2>3. \A x \in {ds, dsCache, child} : x # NoDs => IsDs(x)
      BY Zenon, <2>1
  <2>4. dp = None <=> pc \in {"idle", "get"}
      BY Zenon, <2>1
  <2>5. /\ pods \subseteq Nodes /\ podCache \subseteq Nodes /\ queued \in BOOLEAN
        /\ unseen \subseteq {"cr", "ds"}
        /\ pc \in {"idle", "get", "upgrade", "sync", "status"} /\ (child # NoDs => pc # "idle")
      BY Zenon, <2>1
  <2>6. events \in 0..MaxEvents /\ lastUid \in 1..2
      BY <1>0, <2>1
  <2>7. QED
      BY Zenon, <2>1, <2>2, <2>3, <2>4, <2>5, <2>6 DEF Typed
<1>6. Followed /\ StatusCurrent
    BY Zenon DEF Init, Followed, StatusCurrent, Quiet
<1>7. QED
    BY Zenon, <1>5, <1>6 DEF IInv

(* The images an upgrade puts in are images of the kind.                   *)
LEMMA UpgradeTyped ==
    ASSUME NEW x, IsCr(x)
    PROVE  /\ [x EXCEPT !.spec = UpgradeImages(x.spec)] \in Resources
           /\ UpgradeImages(x.spec) \in SpecsOf(kind)
<1> DEFINE s == x.spec
           u == UpgradeImages(s)
<1>1. s \in Specs /\ s \in SpecsOf(kind)
    BY Zenon DEF IsCr, SpecsOf
<1>2. UpgradeImage(s.image, EnvImage) \in Images
    BY Zenon, <1>1, ImageAssumption DEF UpgradeImage, Specs
<1>3. /\ UpgradeImage(s.initImage, "") \in InitImages \cup {""}
      /\ UpgradeImage(s.initImage, "") # "" => s.initImage # ""
    BY Zenon, <1>1, ImageAssumption DEF UpgradeImage, Specs
<1>4. u = [s EXCEPT !.image = UpgradeImage(s.image, EnvImage),
                    !.initImage = UpgradeImage(s.initImage, "")]
    BY Zenon DEF UpgradeImages
<1>5. /\ u \in Specs /\ u.initImage = UpgradeImage(s.initImage, "")
      /\ u.provisioningConfig = s.provisioningConfig /\ u.driver = s.driver
    BY Zenon, <1>1, <1>2, <1>3, <1>4 DEF Specs
<1> HIDE DEF u
<1>6. u \in SpecsOf(kind)
    BY Zenon, <1>1, <1>3, <1>5 DEF SpecsOf
<1>7. [x EXCEPT !.spec = u] \in Resources
    BY Zenon, <1>5 DEF IsCr, Resources
<1>8. QED
    BY Zenon, <1>6, <1>7 DEF u

LEMMA StatusTyped ==
    ASSUME Typed, NEW x, IsDs(x), NEW names \in Listings(podCache)
    PROVE  StatusOf(x, names) \in Statuses
<1>1. Cardinality(podCache) \in Nat
    BY Zenon, NodesAssumption, FS_Subset, FS_CardinalityType DEF Typed
<1>2. names \in [1..Cardinality(podCache) -> podCache]
    BY Zenon DEF Listings
<1>3. names \in Seq(Nodes)
    BY <1>1, <1>2 DEF Typed
<1>4. QED
    BY <1>3 DEF IsDs, StatusOf, Statuses

-----------------------------------------------------------------------------
(* The cluster: every change makes an event.                               *)

LEMMA ClusterIInv ==
    ASSUME IInv, Cluster
    PROVE  IInv'
<1>1. UNCHANGED <<kind, client, lastUid>> /\ unseen \subseteq unseen' /\ unseen' \subseteq {"cr", "ds"}
    BY Zenon DEF Cluster, WriteCr, DeleteCr, CollectDs, DeleteDs, PodChange, Changed, IInv, Typed
<1>2. events' \in 0..MaxEvents
    BY EventsAssumption DEF Cluster, WriteCr, DeleteCr, CollectDs, DeleteDs, PodChange, Event, IInv, Typed
<1>3. ("cr" \in unseen' \/ UNCHANGED cr) /\ ("ds" \in unseen' \/ UNCHANGED ds) /\ unseen' # {}
    BY Zenon DEF Cluster, WriteCr, DeleteCr, CollectDs, DeleteDs, PodChange, Changed
<1>4. cr' # None => IsCr(cr')
  <2>1. CASE UNCHANGED cr \/ cr' = None
      BY Zenon, <2>1 DEF IInv, Typed
  <2>2. CASE WriteCr
    <3>1. PICK s \in SpecsOf(kind) :
            \/ cr' = [uid |-> events', spec |-> s, status |-> NoStatus]
            \/ cr # None /\ cr' = [cr EXCEPT !.spec = s]
        BY Zenon, <2>2 DEF WriteCr
    <3>2. s \in Specs
        BY Zenon DEF SpecsOf
    <3>3. NoStatus \in Statuses
        BY NodesAssumption, FS_CardinalityType DEF NoStatus, Statuses
    <3>4. CASE cr' = [uid |-> events', spec |-> s, status |-> NoStatus]
        BY Zenon, <1>2, <3>2, <3>3, <3>4 DEF IsCr, Resources
    <3>5. CASE cr # None /\ cr' = [cr EXCEPT !.spec = s]
      <4>1. cr \in Resources
          BY Zenon, <3>5 DEF IInv, Typed, IsCr
      <4>2. cr' \in Resources /\ cr'.spec = s
          BY Zenon, <3>2, <3>5, <4>1 DEF Resources
      <4>3. QED
          BY Zenon, <4>2 DEF IsCr
    <3>6. QED
        BY Zenon, <3>1, <3>4, <3>5
  <2>3. QED
      BY Zenon, <2>1, <2>2 DEF Cluster, DeleteCr, CollectDs, DeleteDs, PodChange
<1>5. (ds' # NoDs => IsDs(ds')) /\ pods' \subseteq Nodes
  <2>1. CASE UNCHANGED <<ds, pods>> \/ (ds' = NoDs /\ pods' = {})
      BY Zenon, <2>1 DEF IInv, Typed
  <2>2. ASSUME NEW n \in Nodes, PodChange(n)
        PROVE  IsDs(ds') /\ pods' \subseteq Nodes
    <3>1. pods' \subseteq Nodes /\ ds' = [ds EXCEPT !.ready = Cardinality(pods')] /\ IsDs(ds)
        BY Zenon, <2>2 DEF PodChange, IInv, Typed
    <3>2. Cardinality(pods') \in 0..Cardinality(Nodes)
      <4>1. IsFiniteSet(pods') /\ Cardinality(pods') <= Cardinality(Nodes)
          BY Zenon, <3>1, NodesAssumption, FS_Subset
      <4>2. Cardinality(pods') \in Nat /\ Cardinality(Nodes) \in Nat
          BY Zenon, <4>1, NodesAssumption, FS_CardinalityType
      <4>3. QED
          BY <4>1, <4>2
    <3> DEFINE k == Cardinality(pods')
    <3> HIDE DEF k
    <3>3. ds' = [uid |-> ds.uid, owner |-> ds.owner, template |-> ds.template, ready |-> k]
        BY Zenon, <3>1 DEF IsDs, k
    <3>4. QED
        BY Zenon, <3>1, <3>2, <3>3 DEF IsDs, k
  <2>3. QED
      BY Zenon, <2>1, <2>2 DEF Cluster, WriteCr, DeleteCr, CollectDs, DeleteDs
<1>6. Typed'
  <2>1. \A x \in {cr', crCache', dp'} : x # None => IsCr(x)'
      BY Zenon, <1>1, <1>4 DEF IInv, Typed, IsCr, SpecsOf, client, caches
  <2>2. \A x \in {ds', dsCache', child'} : x # NoDs => IsDs(x)
      BY Zenon, <1>1, <1>5 DEF IInv, Typed, client, caches
  <2>3. QED
      BY Zenon, <1>1, <1>2, <1>5, <2>1, <2>2 DEF IInv, Typed, IsDs, client, caches
<1>7. Followed' /\ StatusCurrent'
    BY Zenon, <1>1, <1>3 DEF IInv, Followed, StatusCurrent, Quiet, client, caches
<1>8. QED
    BY Zenon, <1>6, <1>7 DEF IInv

-----------------------------------------------------------------------------
(* Informers and restarts: copies become the objects they follow.          *)

LEMMA InformersIInv ==
    ASSUME IInv, Informers
    PROVE  IInv'
<1>1. UNCHANGED <<kind, api, pc, dp, child, lastUid, events>>
    BY Zenon DEF Informers, CrEvent, DsEvent, PodEvent
<1>2. /\ crCache' \in {cr, crCache} /\ dsCache' \in {ds, dsCache} /\ podCache' \in {pods, podCache}
      /\ queued' \in {TRUE, queued} /\ unseen' \subseteq unseen
    BY Zenon DEF Informers, CrEvent, DsEvent, PodEvent, caches
<1>3. Typed'
  <2>1. \A x \in {cr', crCache', dp'} : x # None => IsCr(x)'
      BY Zenon, <1>1, <1>2 DEF IInv, Typed, IsCr, SpecsOf, api
  <2>2. \A x \in {ds', dsCache', child'} : x # NoDs => IsDs(x)
      BY Zenon, <1>1, <1>2 DEF IInv, Typed, api
  <2>3. QED
      BY Zenon, <1>1, <1>2, <2>1, <2>2 DEF IInv, Typed, IsDs, api
<1>4. Followed' /\ StatusCurrent'
  <2>1. CASE CrEvent
      BY Zenon, <2>1 DEF CrEvent, api, IInv, Followed, StatusCurrent, Quiet
  <2>2. CASE DsEvent
      BY Zenon, <2>2 DEF DsEvent, api, IInv, Followed, StatusCurrent, Quiet
  <2>3. CASE PodEvent
      BY Zenon, <2>3 DEF PodEvent, api, IInv, Followed, StatusCurrent, Quiet
  <2>4. QED
      BY Zenon, <2>1, <2>2, <2>3 DEF Informers
<1>5. QED
    BY Zenon, <1>3, <1>4 DEF IInv

LEMMA RestartIInv ==
    ASSUME IInv, Restart
    PROVE  IInv'
<1>1. /\ UNCHANGED <<kind, cr, ds, pods, lastUid>> /\ pc' = "idle" /\ dp' = None /\ child' = NoDs
      /\ queued' = (cr # None \/ ds # NoDs)
      /\ crCache' = cr /\ dsCache' = ds /\ podCache' = pods /\ unseen' = {}
    BY Zenon DEF Restart, Return, api
<1>2. events' \in 0..MaxEvents
    BY EventsAssumption DEF Restart, Fails, Event, IInv, Typed
<1>3. Typed'
  <2>1. \A x \in {cr', crCache', dp'} : x # None => IsCr(x)'
      BY Zenon, <1>1 DEF IInv, Typed, IsCr, SpecsOf
  <2>2. \A x \in {ds', dsCache', child'} : x # NoDs => IsDs(x)
      BY Zenon, <1>1 DEF IInv, Typed
  <2>3. QED
      BY Zenon, <1>1, <1>2, <2>1, <2>2 DEF IInv, Typed, IsDs
<1>4. Followed' /\ StatusCurrent'
    BY Zenon, <1>1 DEF Followed, StatusCurrent, Quiet
<1>5. QED
    BY Zenon, <1>3, <1>4 DEF IInv

-----------------------------------------------------------------------------
(* Reconcile.                                                              *)

(* What is common to its steps: the objects it leaves, reads or writes are *)
(* typed, and a run that ends clears its copies.                           *)
LEMMA StepTyped ==
    ASSUME IInv, UNCHANGED <<kind, pods, caches>>,
           cr' = cr \/ IsCr(cr'), dp' \in {dp, cr, cr', crCache, None},
           ds' = ds \/ IsDs(ds'), child' \in {child, ds', dsCache, NoDs},
           queued' \in BOOLEAN, unseen' \subseteq {"cr", "ds"},
           pc' \in {"idle", "get", "upgrade", "sync", "status"},
           dp' = None <=> pc' \in {"idle", "get"},
           child' # NoDs => pc' # "idle", pc' = "status" => IsDs(child'),
           events' \in 0..MaxEvents, lastUid' \in 1..2
    PROVE  Typed'
<1>1. \A x \in {cr', crCache', dp'} : x # None => IsCr(x)'
    BY Zenon DEF IInv, Typed, IsCr, SpecsOf, caches
<1>2. \A x \in {ds', dsCache', child'} : x # NoDs => IsDs(x)
    BY Zenon DEF IInv, Typed, caches
<1>3. QED
    BY Zenon, <1>1, <1>2 DEF IInv, Typed, IsDs, caches

LEMMA EventsTyped ==
    ASSUME Typed, Works \/ Fails
    PROVE  events' \in 0..MaxEvents
BY EventsAssumption DEF Works, Fails, Event, Typed

LEMMA ListGetIInv ==
    ASSUME IInv, ListChildren \/ GetCr
    PROVE  IInv'
<1>1. CASE ListChildren
  <2>1. /\ UNCHANGED <<kind, cr, ds, pods, caches, unseen, dp, lastUid, events>>
        /\ pc = "idle" /\ pc' = "get" /\ queued' = FALSE /\ child' = dsCache
      BY Zenon, <1>1 DEF ListChildren, api
  <2>2. Typed'
      BY Zenon, <2>1, StepTyped DEF IInv, Typed
  <2>3. Followed' /\ StatusCurrent'
      BY Zenon, <2>1 DEF IInv, Followed, StatusCurrent, Quiet, caches
  <2>4. QED
      BY Zenon, <2>2, <2>3 DEF IInv
<1>2. CASE GetCr /\ crCache = None
  <2>1. /\ UNCHANGED <<kind, cr, ds, pods, caches, unseen, lastUid, events>>
        /\ pc' = "idle" /\ dp' = None /\ child' = NoDs /\ queued' = TRUE
      BY Zenon, <1>2 DEF GetCr, Return, api
  <2>2. Typed'
      BY Zenon, <2>1, StepTyped DEF IInv, Typed
  <2>3. Followed' /\ StatusCurrent'
      BY Zenon, <2>1 DEF IInv, Followed, StatusCurrent, Quiet, caches
  <2>4. QED
      BY Zenon, <2>2, <2>3 DEF IInv
<1>3. CASE GetCr /\ crCache # None
  <2>1. /\ UNCHANGED <<kind, cr, ds, pods, caches, unseen, lastUid, events, queued, child>>
        /\ pc = "get" /\ pc' = "upgrade" /\ dp' = crCache /\ crCache # None
      BY Zenon, <1>3 DEF GetCr, api
  <2>2. Typed'
      BY Zenon, <2>1, StepTyped DEF IInv, Typed
  <2>3. Followed' /\ StatusCurrent'
      BY Zenon, <2>1 DEF IInv, Followed, StatusCurrent, Quiet, caches
  <2>4. QED
      BY Zenon, <2>2, <2>3 DEF IInv
<1>4. QED
    BY Zenon, <1>1, <1>2, <1>3

LEMMA UpgradeIInv ==
    ASSUME IInv, Upgrade
    PROVE  IInv'
<1>1. /\ UNCHANGED <<kind, ds, pods, caches, queued, child, lastUid>>
      /\ pc = "upgrade" /\ pc' = "sync"
    BY Zenon DEF Upgrade
<1>2. events' \in 0..MaxEvents
    BY Zenon, EventsTyped DEF Upgrade, IInv
<1>3. dp # None /\ IsCr(dp)
    BY Zenon, <1>1 DEF IInv, Typed
<1>4. CASE UNCHANGED <<cr, dp, unseen>>
  <2>1. Typed'
      BY Zenon, <1>1, <1>2, <1>4, StepTyped DEF IInv, Typed
  <2>2. Followed' /\ StatusCurrent'
      BY Zenon, <1>1, <1>4 DEF IInv, Followed, StatusCurrent, Quiet, caches
  <2>3. QED
      BY Zenon, <2>1, <2>2 DEF IInv
<1>5. CASE ~UNCHANGED <<cr, dp, unseen>>
  <2>1. cr = dp /\ cr' = [cr EXCEPT !.spec = Upgraded] /\ dp' = cr' /\ unseen' = unseen \cup {"cr"}
      BY Zenon, <1>5 DEF Upgrade, Changed
  <2> DEFINE u == UpgradeImages(cr.spec)
  <2>2. cr' = [cr EXCEPT !.spec = u] /\ [cr EXCEPT !.spec = u] \in Resources /\ u \in SpecsOf(kind)
      BY Zenon, <1>3, <2>1, UpgradeTyped DEF Upgraded
  <2> HIDE DEF u
  <2>3. IsCr(cr') /\ cr' # None
    <3>1. cr'.spec = u
        BY Zenon, <1>3, <2>1, <2>2 DEF IsCr, Resources
    <3>2. QED
        BY Zenon, <2>2, <3>1, NoneAssumption DEF IsCr
  <2>4. unseen' \subseteq {"cr", "ds"}
      BY Zenon, <2>1 DEF IInv, Typed
  <2>5. Typed'
      BY Zenon, <1>1, <1>2, <2>1, <2>3, <2>4, StepTyped DEF IInv, Typed
  <2>6. Followed' /\ StatusCurrent'
      BY Zenon, <1>1, <2>1 DEF IInv, Followed, StatusCurrent, Quiet, caches
  <2>7. QED
      BY Zenon, <2>5, <2>6 DEF IInv
<1>6. QED
    BY Zenon, <1>4, <1>5

(* A run that ends with another one queued.                                *)
LEMMA ReturnsIInv ==
    ASSUME IInv, UNCHANGED <<kind, cr, ds, pods, caches, unseen, lastUid>>, Return(TRUE),
           events' \in 0..MaxEvents
    PROVE  IInv'
<1>1. pc' = "idle" /\ dp' = None /\ child' = NoDs /\ queued' = TRUE
    BY Zenon DEF Return
<1>2. Typed'
    BY Zenon, <1>1, StepTyped DEF IInv, Typed
<1>3. Followed' /\ StatusCurrent'
    BY Zenon, <1>1 DEF IInv, Followed, StatusCurrent, Quiet, caches
<1>4. QED
    BY Zenon, <1>2, <1>3 DEF IInv

LEMMA CreateDsIInv ==
    ASSUME IInv, CreateDs
    PROVE  IInv'
<1>1. UNCHANGED <<kind, cr, pods, caches>> /\ pc = "sync" /\ (Works \/ Fails)
    BY Zenon DEF CreateDs
<1>2. events' \in 0..MaxEvents
    BY Zenon, <1>1, EventsTyped DEF IInv
<1>3. CASE Return(TRUE) /\ UNCHANGED <<ds, unseen, lastUid>>
    BY Zenon, <1>1, <1>2, <1>3, ReturnsIInv
<1>4. CASE ~(Return(TRUE) /\ UNCHANGED <<ds, unseen, lastUid>>)
  <2>1. PICK t :
          /\ ds' = [uid |-> 3 - lastUid, owner |-> dp.uid, template |-> t, ready |-> 0]
          /\ lastUid' = 3 - lastUid /\ unseen' = unseen \cup {"ds"} /\ Return(queued)
      BY Zenon, <1>4 DEF CreateDs, Changed
  <2>2. pc' = "idle" /\ dp' = None /\ child' = NoDs /\ queued' = queued
      BY Zenon, <2>1 DEF Return
  <2>3. lastUid' \in 1..2 /\ unseen' \subseteq {"cr", "ds"} /\ queued' \in BOOLEAN
      BY <2>1, <2>2 DEF IInv, Typed
  <2>4. IsDs(ds')
    <3>1. dp.uid \in 0..MaxEvents
        BY Zenon, <1>1 DEF IInv, Typed, IsCr, Resources
    <3>2. 0 \in 0..Cardinality(Nodes)
        BY NodesAssumption, FS_CardinalityType
    <3> DEFINE u == 3 - lastUid
    <3>3. u \in 1..2
        BY Zenon, <2>1, <2>3
    <3> HIDE DEF u
    <3>4. ds' = [uid |-> u, owner |-> dp.uid, template |-> t, ready |-> 0]
        BY Zenon, <2>1 DEF u
    <3>5. QED
        BY Zenon, <3>1, <3>2, <3>3, <3>4 DEF IsDs
  <2>5. Typed'
      BY Zenon, <1>1, <1>2, <2>2, <2>3, <2>4, StepTyped
  <2>6. Followed' /\ StatusCurrent'
      BY Zenon, <1>1, <2>1, <2>2 DEF IInv, Followed, StatusCurrent, Quiet, caches
  <2>7. QED
      BY Zenon, <2>5, <2>6 DEF IInv
<1>5. QED
    BY Zenon, <1>3, <1>4

LEMMA UpdateDsIInv ==
    ASSUME IInv, UpdateDs
    PROVE  IInv'
<1>1. UNCHANGED <<kind, cr, pods, caches, lastUid>> /\ pc = "sync" /\ child # NoDs /\ (Works \/ Fails)
    BY Zenon DEF UpdateDs
<1>2. events' \in 0..MaxEvents
    BY Zenon, <1>1, EventsTyped DEF IInv
<1>3. CASE Return(TRUE) /\ UNCHANGED <<ds, unseen>>
    BY Zenon, <1>1, <1>2, <1>3, ReturnsIInv
<1>4. CASE pc' = "status" /\ UNCHANGED <<ds, unseen, queued, dp, child>>
  <2>1. Typed'
      BY Zenon, <1>1, <1>2, <1>4, StepTyped DEF IInv, Typed
  <2>2. Followed' /\ StatusCurrent'
      BY Zenon, <1>1, <1>4 DEF IInv, Followed, StatusCurrent, Quiet, caches
  <2>3. QED
      BY Zenon, <2>1, <2>2 DEF IInv
<1>5. CASE /\ ds = child /\ ds' = [ds EXCEPT !.template = Stored(Target)] /\ child' = ds'
           /\ unseen' = unseen \cup (IF ds' = ds THEN {} ELSE {"ds"})
           /\ pc' = "status" /\ UNCHANGED <<queued, dp>>
  <2> DEFINE t == Stored(Target)
  <2> HIDE DEF t
  <2>1. ds' = [ds EXCEPT !.template = t] /\ IsDs(ds)
      BY Zenon, <1>1, <1>5 DEF IInv, Typed, t
  <2>2. ds' = [uid |-> ds.uid, owner |-> ds.owner, template |-> t, ready |-> ds.ready]
      BY Zenon, <2>1 DEF IsDs
  <2>3. IsDs(ds')
      BY Zenon, <2>1, <2>2 DEF IsDs
  <2>4. unseen' \subseteq {"cr", "ds"}
      BY Zenon, <1>5 DEF IInv, Typed
  <2>5. Typed'
      BY Zenon, <1>1, <1>2, <1>5, <2>3, <2>4, StepTyped DEF IInv, Typed
  <2>6. "ds" \in unseen' \/ UNCHANGED <<ds, unseen>>
      BY Zenon, <1>5
  <2>7. "cr" \in unseen' <=> "cr" \in unseen
      BY Zenon, <1>5
  <2>8. Followed' /\ StatusCurrent'
      BY Zenon, <1>1, <1>5, <2>6, <2>7 DEF IInv, Followed, StatusCurrent, Quiet, caches
  <2>9. QED
      BY Zenon, <2>5, <2>8 DEF IInv
<1>6. QED
    BY Zenon, <1>3, <1>4, <1>5 DEF UpdateDs, Changed

(* The run that finds nothing to change has read the current objects, or   *)
(* another one follows.                                                    *)
LEMMA UpdateStatusIInv ==
    ASSUME IInv, UpdateStatus
    PROVE  IInv'
<1>1. UNCHANGED <<kind, ds, pods, caches, lastUid>> /\ pc = "status" /\ (Works \/ Fails)
    BY Zenon DEF UpdateStatus
<1>2. events' \in 0..MaxEvents
    BY Zenon, <1>1, EventsTyped DEF IInv
<1>3. dp # None /\ IsCr(dp)
    BY Zenon, <1>1 DEF IInv, Typed
<1>4. PICK names \in Listings(podCache) :
        LET st == StatusOf(child, names) IN
        \/ st = dp.status /\ Return(queued) /\ UNCHANGED <<cr, unseen>>
        \/ /\ cr = dp /\ cr' = [cr EXCEPT !.status = st] /\ Changed({"cr"}) /\ Return(queued)
        \/ Return(TRUE) /\ UNCHANGED <<cr, unseen>>
    BY Zenon DEF UpdateStatus
<1> DEFINE st == StatusOf(child, names)
<1>5. CASE Return(TRUE) /\ UNCHANGED <<cr, unseen>>
    BY Zenon, <1>1, <1>2, <1>5, ReturnsIInv
<1>6. CASE st = dp.status /\ Return(queued) /\ UNCHANGED <<cr, unseen>>
  <2>1. pc' = "idle" /\ dp' = None /\ child' = NoDs /\ queued' = queued
      BY Zenon, <1>6 DEF Return
  <2>2. Typed'
      BY Zenon, <1>1, <1>2, <1>6, <2>1, StepTyped DEF IInv, Typed
  <2>3. Followed'
      BY Zenon, <1>1, <1>6, <2>1 DEF IInv, Followed, caches
  <2>4. StatusCurrent'
    <3>1. SUFFICES ASSUME ~queued, unseen = {}
                   PROVE  cr.status.controlled = ds.uid /\ cr.status.ready = ds.ready
        BY Zenon, <1>1, <1>6, <2>1 DEF StatusCurrent, Quiet
    <3>2. child = ds /\ dp = cr
        BY Zenon, <1>1, <3>1 DEF IInv, Followed
    <3>3. st.controlled = child.uid /\ st.ready = child.ready
        BY Zenon DEF StatusOf
    <3>4. QED
        BY Zenon, <1>6, <3>2, <3>3
  <2>5. QED
      BY Zenon, <2>2, <2>3, <2>4 DEF IInv
<1>7. CASE cr = dp /\ cr' = [cr EXCEPT !.status = st] /\ Changed({"cr"}) /\ Return(queued)
  <2>1. /\ pc' = "idle" /\ dp' = None /\ child' = NoDs /\ queued' = queued
        /\ unseen' = unseen \cup {"cr"}
      BY Zenon, <1>7 DEF Return, Changed
  <2>2. IsDs(child)
      BY Zenon, <1>1 DEF IInv, Typed
  <2>3. IsCr(cr')
    <3>1. st \in Statuses
        BY Zenon, <2>2, StatusTyped DEF IInv
    <3> HIDE DEF st
    <3>2. cr' \in Resources /\ cr'.spec = cr.spec
        BY Zenon, <1>3, <1>7, <3>1 DEF IsCr, Resources
    <3>3. QED
        BY Zenon, <1>3, <1>7, <3>2 DEF IsCr
  <2>4. unseen' \subseteq {"cr", "ds"}
      BY Zenon, <2>1 DEF IInv, Typed
  <2>5. Typed'
      BY Zenon, <1>1, <1>2, <2>1, <2>3, <2>4, StepTyped DEF IInv, Typed
  <2>6. Followed' /\ StatusCurrent'
      BY Zenon, <1>1, <2>1 DEF IInv, Followed, StatusCurrent, Quiet, caches
  <2>7. QED
      BY Zenon, <2>5, <2>6 DEF IInv
<1>8. QED
    BY Zenon, <1>4, <1>5, <1>6, <1>7

-----------------------------------------------------------------------------
LEMMA NextIInv ==
    ASSUME IInv, [Next]_vars
    PROVE  IInv'
<1>1. CASE UNCHANGED vars
  <2>1. Typed'
      BY Zenon, <1>1 DEF vars, IInv, Typed, IsCr, SpecsOf, IsDs
  <2>2. Followed' /\ StatusCurrent'
      BY Zenon, <1>1 DEF vars, IInv, Followed, StatusCurrent, Quiet
  <2>3. QED
      BY Zenon, <2>1, <2>2 DEF IInv
<1>2. CASE Next
    BY Zenon, <1>2, ListGetIInv, UpgradeIInv, CreateDsIInv, UpdateDsIInv, UpdateStatusIInv,
       InformersIInv, ClusterIInv, RestartIInv DEF Next, Reconcile
<1>3. QED
    BY Zenon, <1>1, <1>2

LEMMA Invariance == Spec => []IInv
BY InitIInv, NextIInv, PTL DEF Spec

(* Resources, DaemonSets and what Reconcile has read keep their types: an  *)
(* upgrade of images leaves a valid resource of its kind (Reconcile,       *)
(* upgradeDevicePluginImages).                                             *)
THEOREM OperatorTypes == Spec => []TypeOK
<1>1. IInv => TypeOK
    BY Zenon DEF IInv, Typed, IsCr, IsDs, TypeOK
<1>2. QED
    BY Invariance, <1>1, PTL

(* For any number of nodes, edits, failing calls, stale reads and          *)
(* restarts, a status is current whenever nothing is left to do            *)
(* (UpdateStatus, Reconcile).                                              *)
THEOREM StatusFollows == Spec => []StatusCurrent
<1>1. IInv => StatusCurrent
    BY Zenon DEF IInv
<1>2. QED
    BY Invariance, <1>1, PTL

(* For all specs and histories a write of Reconcile keeps the spec a user  *)
(* wrote, but for the images it upgrades (Reconcile,                       *)
(* upgradeDevicePluginImages).                                             *)
THEOREM ReconcileKeepsEdits == Spec => EditsKept
<1>1. ASSUME IInv, Reconcile, cr # None
      PROVE  cr' # None /\ cr'.spec \in {cr.spec, UpgradeImages(cr.spec)}
  <2>1. CASE UNCHANGED cr
      BY Zenon, <1>1, <2>1
  <2>2. CASE Upgrade /\ ~UNCHANGED cr
    <3>1. cr = dp /\ cr' = [cr EXCEPT !.spec = Upgraded]
        BY Zenon, <2>2 DEF Upgrade
    <3> DEFINE u == UpgradeImages(cr.spec)
    <3>2. cr' = [cr EXCEPT !.spec = u] /\ cr' \in Resources
        BY Zenon, <1>1, <3>1, UpgradeTyped DEF Upgraded, IInv, Typed
    <3> HIDE DEF u
    <3>3. cr'.spec = u
        BY Zenon, <1>1, <3>2 DEF IInv, Typed, IsCr, Resources
    <3>4. QED
        BY Zenon, <3>2, <3>3, NoneAssumption DEF u
  <2>3. CASE UpdateStatus /\ ~UNCHANGED cr
    <3>1. PICK names \in Listings(podCache) : cr' = [cr EXCEPT !.status = StatusOf(child, names)]
        BY Zenon, <2>3 DEF UpdateStatus
    <3> DEFINE st == StatusOf(child, names)
    <3>2. st \in Statuses
        BY Zenon, <1>1, <2>3, StatusTyped DEF UpdateStatus, IInv, Typed
    <3> HIDE DEF st
    <3>3. cr' = [cr EXCEPT !.status = st] /\ cr \in Resources
        BY Zenon, <1>1, <3>1 DEF st, IInv, Typed, IsCr
    <3>4. cr' \in Resources /\ cr'.spec = cr.spec
        BY Zenon, <3>2, <3>3 DEF Resources
    <3>5. QED
        BY Zenon, <3>4, NoneAssumption
  <2>4. QED
      BY Zenon, <1>1, <2>1, <2>2, <2>3 DEF Reconcile, ListChildren, GetCr, CreateDs, UpdateDs, api
<1>2. IInv /\ [Next]_vars =>
        [Reconcile /\ cr # None => cr' # None /\ cr'.spec \in {cr.spec, UpgradeImages(cr.spec)}]_vars
    BY Zenon, <1>1
<1>3. QED
    BY Invariance, <1>2, PTL DEF Spec, EditsKept

-----------------------------------------------------------------------------
(* Templates.  Every resource was admitted and every template is one the   *)
(* controllers make, so what UpdateDaemonSet makes of it is accepted and   *)
(* carries the spec; what Reconcile has read is current unless an event or *)
(* a request is on its way.                                                *)

Fine(k, t) == WellFormed(k, t) /\ t.tolerations # "empty"

Templates ==
    /\ \A x \in {cr, crCache, dp} : x # None => Admitted(kind, x.spec)
    /\ \A x \in {ds, dsCache, child} : x # NoDs => Fine(kind, x.template)

Synced ==
    /\ pc = "status" => Carries(kind, child.template, UpgradeImages(dp.spec))
    /\ Quiet /\ cr # None => ds # NoDs /\ InSync

LEMMA UpgradeAdmitted ==
    ASSUME NEW k, NEW s \in Specs, Admitted(k, s)
    PROVE  Admitted(k, UpgradeImages(s))
<1> DEFINE u == UpgradeImages(s)
<1>1. UpgradeImage(s.initImage, "") = "" => s.initImage = ""
    BY Zenon, ImageAssumption DEF UpgradeImage
<1>2. u.initImage = UpgradeImage(s.initImage, "") /\ u.provisioningConfig = s.provisioningConfig
    BY Zenon DEF UpgradeImages, Specs
<1> HIDE DEF u
<1>3. QED
    BY Zenon, <1>1, <1>2 DEF Admitted, u

LEMMA InitTemplates == Init => Templates /\ Synced
<1> SUFFICES ASSUME Init PROVE Templates /\ Synced
    BY Zenon
<1>0. PICK s \in SpecsOf(kind) :
        /\ validatePlugin(kind, [s EXCEPT !.image = MinImage,
                                   !.initImage = IF @ = "" THEN "" ELSE MinImage])
        /\ cr = [uid |-> 0, spec |-> s, status |-> NoStatus]
    BY Zenon DEF Init
<1> DEFINE m == [s EXCEPT !.image = MinImage,
                          !.initImage = IF s.initImage = "" THEN "" ELSE MinImage]
<1>1. validatePlugin(kind, m) /\ cr.spec = s
    BY Zenon, <1>0
<1>2. m \in SpecsOf(kind) /\ m.provisioningConfig = s.provisioningConfig
      /\ (m.initImage # "" => s.initImage # "")
    BY Zenon, ImageAssumption DEF SpecsOf, Specs
<1> HIDE DEF m
<1>3. Admitted(kind, m)
    BY Zenon, <1>1, <1>2, ValidAdmitted DEF Init, m
<1>4. Admitted(kind, cr.spec)
    BY Zenon, <1>1, <1>2, <1>3 DEF Admitted
<1>5. QED
    BY Zenon, <1>4 DEF Init, Templates, Synced, Quiet

(* The templates of steps that only copy objects.                          *)
LEMMA StepTemplates ==
    ASSUME Templates, UNCHANGED kind,
           cr' \in {cr, None} \/ Admitted(kind, cr'.spec),
           crCache' \in {crCache, cr}, dp' \in {dp, cr', crCache, None},
           ds' \in {ds, NoDs} \/ Fine(kind, ds'.template),
           dsCache' \in {dsCache, ds}, child' \in {child, ds', dsCache, NoDs}
    PROVE  Templates'
BY Zenon DEF Templates

LEMMA ClusterTemplates ==
    ASSUME IInv, Templates, Synced, Cluster
    PROVE  Templates' /\ Synced'
<1>1. UNCHANGED <<kind, client>> /\ unseen' # {}
    BY Zenon DEF Cluster, WriteCr, DeleteCr, CollectDs, DeleteDs, PodChange, Changed
<1>2. cr' \in {cr, None} \/ Admitted(kind, cr'.spec)
  <2>1. CASE WriteCr
    <3>1. PICK s \in SpecsOf(kind) : /\ validatePlugin(kind, s)
            /\ \/ cr' = [uid |-> events', spec |-> s, status |-> NoStatus]
               \/ cr # None /\ cr' = [cr EXCEPT !.spec = s]
        BY Zenon, <2>1 DEF WriteCr
    <3>2. cr'.spec = s
        BY <3>1 DEF IInv, Typed, IsCr, Resources
    <3>3. QED
        BY Zenon, <3>1, <3>2, ValidAdmitted DEF IInv, Typed
  <2>2. QED
      BY Zenon, <2>1 DEF Cluster, DeleteCr, CollectDs, DeleteDs, PodChange
<1>3. ds' \in {ds, NoDs} \/ Fine(kind, ds'.template)
  <2>1. ASSUME NEW n \in Nodes, PodChange(n)
        PROVE  Fine(kind, ds'.template)
    <3>1. ds # NoDs /\ ds' = [ds EXCEPT !.ready = Cardinality(pods')]
        BY Zenon, <2>1 DEF PodChange
    <3>2. ds'.template = ds.template
        BY Zenon, <3>1 DEF IInv, Typed, IsDs
    <3>3. QED
        BY Zenon, <3>1, <3>2 DEF Templates
  <2>2. QED
      BY Zenon, <2>1 DEF Cluster, WriteCr, DeleteCr, CollectDs, DeleteDs
<1>4. Templates'
    BY Zenon, <1>1, <1>2, <1>3, StepTemplates DEF client, caches
<1>5. Synced'
    BY Zenon, <1>1 DEF Synced, Quiet, client
<1>6. QED
    BY Zenon, <1>4, <1>5

LEMMA InformersTemplates ==
    ASSUME Templates, Synced, Informers \/ Restart
    PROVE  Templates' /\ Synced'
<1>1. CASE Informers
  <2>1. UNCHANGED <<kind, cr, ds, pc, dp, child>> /\ (queued' \/ UNCHANGED <<queued, unseen>>)
      BY Zenon, <1>1 DEF Informers, CrEvent, DsEvent, PodEvent, api
  <2>2. crCache' \in {crCache, cr} /\ dsCache' \in {dsCache, ds}
      BY Zenon, <1>1 DEF Informers, CrEvent, DsEvent, PodEvent
  <2>3. Templates'
      BY Zenon, <2>1, <2>2, StepTemplates
  <2>4. Synced'
      BY Zenon, <2>1 DEF Synced, Quiet, InSync
  <2>5. QED
      BY Zenon, <2>3, <2>4
<1>2. CASE Restart
  <2>1. /\ UNCHANGED <<kind, cr, ds>> /\ pc' = "idle" /\ dp' = None /\ child' = NoDs
        /\ queued' = (cr # None \/ ds # NoDs) /\ crCache' = cr /\ dsCache' = ds
      BY Zenon, <1>2 DEF Restart, Return, api
  <2>2. Templates'
      BY Zenon, <2>1, StepTemplates
  <2>3. Synced'
      BY Zenon, <2>1 DEF Synced, Quiet
  <2>4. QED
      BY Zenon, <2>2, <2>3
<1>3. QED
    BY Zenon, <1>1, <1>2

(* What CreateDs and UpdateDs write.                                       *)
LEMMA SyncWrites ==
    ASSUME IInv, Templates, pc = "sync"
    PROVE  /\ LET n == NewDaemonSet(kind, Upgraded)
              IN  ValidTemplate(n) /\ Fine(kind, Stored(n))
           /\ child # NoDs => /\ ValidTemplate(Target) /\ Fine(kind, Stored(Target))
                              /\ Carries(kind, Stored(Target), Upgraded)
<1>1. kind \in Kinds /\ dp # None /\ IsCr(dp) /\ Admitted(kind, dp.spec)
    BY Zenon DEF IInv, Typed, Templates
<1>2. Upgraded \in SpecsOf(kind)
    BY Zenon, <1>1, UpgradeTyped DEF Upgraded
<1>3. Admitted(kind, Upgraded)
    BY Zenon, <1>1, UpgradeAdmitted DEF Upgraded, IsCr, SpecsOf
<1> DEFINE n == NewDaemonSet(kind, Upgraded)
           t == Target
<1>4. WellFormed(kind, n) /\ ValidTemplate(n)
    BY Zenon, <1>1, <1>2, NewDaemonSetValid
<1>5. ASSUME child # NoDs
      PROVE  WellFormed(kind, t) /\ ValidTemplate(t) /\ Carries(kind, Stored(t), Upgraded)
  <2>1. WellFormed(kind, child.template)
      BY Zenon, <1>5 DEF Templates, Fine
  <2>2. QED
      BY Zenon, <1>1, <1>2, <1>3, <2>1, UpdateDaemonSetCarries DEF Target
<1> HIDE DEF n, t
<1>6. ASSUME NEW x, WellFormed(kind, x) PROVE Fine(kind, Stored(x))
    BY Zenon, <1>6, StoredFields DEF Fine
<1>7. QED
    BY Zenon, <1>4, <1>5, <1>6 DEF n, t

LEMMA ReconcileTemplates ==
    ASSUME IInv, Templates, Synced, Reconcile
    PROVE  Templates' /\ Synced'
<1>1. CASE ListChildren \/ GetCr
  <2>1. /\ UNCHANGED <<kind, cr, ds, caches>> /\ dp' \in {dp, crCache, None}
        /\ child' \in {child, dsCache, NoDs} /\ pc' # "status" /\ (pc' = "idle" => queued')
      BY Zenon, <1>1 DEF ListChildren, GetCr, Return, api
  <2>2. Templates'
      BY Zenon, <2>1, StepTemplates DEF caches
  <2>3. Synced'
      BY Zenon, <2>1 DEF Synced, Quiet
  <2>4. QED
      BY Zenon, <2>2, <2>3
<1>2. CASE Upgrade
  <2>1. UNCHANGED <<kind, ds, caches, child>> /\ pc = "upgrade" /\ pc' = "sync"
      BY Zenon, <1>2 DEF Upgrade
  <2>2. CASE UNCHANGED <<cr, dp>>
      BY Zenon, <2>1, <2>2, StepTemplates DEF caches, Synced, Quiet
  <2>3. CASE ~UNCHANGED <<cr, dp>>
    <3>1. cr = dp /\ cr' = [cr EXCEPT !.spec = Upgraded] /\ dp' = cr'
        BY Zenon, <1>2, <2>3 DEF Upgrade
    <3>2. cr # None /\ IsCr(cr) /\ Admitted(kind, cr.spec)
        BY Zenon, <2>1, <3>1 DEF IInv, Typed, Templates
    <3> DEFINE u == UpgradeImages(cr.spec)
    <3>3. cr' = [cr EXCEPT !.spec = u] /\ Admitted(kind, u)
        BY Zenon, <3>1, <3>2, UpgradeAdmitted DEF Upgraded, IsCr, SpecsOf
    <3> HIDE DEF u
    <3>4. Admitted(kind, cr'.spec)
        BY Zenon, <3>2, <3>3 DEF IsCr, Resources
    <3>5. Templates'
        BY Zenon, <2>1, <3>1, <3>4, StepTemplates DEF caches
    <3>6. QED
        BY Zenon, <2>1, <3>5 DEF Synced, Quiet
  <2>4. QED
      BY Zenon, <2>2, <2>3
<1>3. CASE CreateDs
  <2>1. UNCHANGED <<kind, cr, caches>> /\ pc = "sync" /\ pc' = "idle" /\ dp' = None /\ child' = NoDs
      BY Zenon, <1>3 DEF CreateDs, Return
  <2>2. /\ ds' = ds \/ ds'.template = Stored(NewDaemonSet(kind, Upgraded))
        /\ queued' \/ unseen' # {}
      BY <1>3 DEF CreateDs, Return, Changed
  <2>3. Templates'
      BY Zenon, <2>1, <2>2, SyncWrites, StepTemplates DEF caches
  <2>4. Synced'
      BY Zenon, <2>1, <2>2 DEF Synced, Quiet
  <2>5. QED
      BY Zenon, <2>3, <2>4
<1>4. CASE UpdateDs
  <2>1. UNCHANGED <<kind, cr, caches>> /\ pc = "sync" /\ child # NoDs
      BY Zenon, <1>4 DEF UpdateDs
  <2>2. /\ Fine(kind, Stored(Target)) /\ Carries(kind, Stored(Target), Upgraded)
        /\ Fine(kind, child.template)
      BY Zenon, <2>1, SyncWrites DEF Templates
  <2>3. CASE Return(TRUE) /\ UNCHANGED ds
    <3>1. pc' = "idle" /\ dp' = None /\ child' = NoDs /\ queued'
        BY Zenon, <2>3 DEF Return
    <3>2. QED
        BY Zenon, <2>1, <2>3, <3>1, StepTemplates DEF caches, Synced, Quiet
  <2>4. CASE ~Updated /\ pc' = "status" /\ UNCHANGED <<ds, dp, child>>
    <3>1. Target = child.template
        BY Zenon, <2>4 DEF Updated
    <3>2. Stored(child.template) = child.template
        BY Zenon, <2>2, StoredSame DEF Fine
    <3>3. Templates'
        BY Zenon, <2>1, <2>4, StepTemplates DEF caches
    <3>4. Synced'
        BY Zenon, <2>1, <2>2, <2>4, <3>1, <3>2 DEF Synced, Quiet, Upgraded
    <3>5. QED
        BY Zenon, <3>3, <3>4
  <2>5. CASE /\ ds = child /\ ds' = [ds EXCEPT !.template = Stored(Target)] /\ child' = ds'
             /\ pc' = "status" /\ UNCHANGED dp
    <3> DEFINE t == Stored(Target)
    <3> HIDE DEF t
    <3>1. ds' = [ds EXCEPT !.template = t] /\ IsDs(ds)
        BY Zenon, <2>1, <2>5 DEF IInv, Typed, t
    <3>2. ds'.template = t
        BY Zenon, <3>1 DEF IsDs
    <3>3. Templates'
        BY Zenon, <2>1, <2>2, <2>5, <3>2, StepTemplates DEF caches, t
    <3>4. Synced'
        BY Zenon, <2>1, <2>2, <2>5, <3>2 DEF Synced, Quiet, Upgraded, t
    <3>5. QED
        BY Zenon, <3>3, <3>4
  <2>6. QED
      BY Zenon, <1>4, <2>3, <2>4, <2>5 DEF UpdateDs
<1>5. CASE UpdateStatus
  <2>1. UNCHANGED <<kind, ds, caches>> /\ pc = "status"
      BY Zenon, <1>5 DEF UpdateStatus
  <2>2. pc' = "idle" /\ dp' = None /\ child' = NoDs
      BY Zenon, <1>5 DEF UpdateStatus, Return
  <2>3. PICK names \in Listings(podCache) :
          LET st == StatusOf(child, names) IN
          \/ queued' = queued /\ UNCHANGED <<cr, unseen>>
          \/ cr = dp /\ cr' = [cr EXCEPT !.status = st] /\ "cr" \in unseen'
          \/ queued' /\ UNCHANGED <<cr, unseen>>
      BY Zenon, <1>5 DEF UpdateStatus, Return, Changed
  <2>4. CASE UNCHANGED <<cr, unseen>>
    <3>1. Templates'
        BY Zenon, <2>1, <2>2, <2>4, StepTemplates DEF caches
    <3>2. Synced'
      <4>1. SUFFICES ASSUME ~queued', unseen = {}, cr # None
                     PROVE  ds # NoDs /\ InSync
          BY Zenon, <2>1, <2>2, <2>4 DEF Synced, Quiet, InSync
      <4>2. ~queued
          BY Zenon, <2>3, <2>4, <4>1
      <4>3. child = ds /\ dp = cr
          BY Zenon, <2>1, <4>1, <4>2 DEF IInv, Followed
      <4>4. ds.uid \in 1..2
          BY Zenon, <2>1, <4>3 DEF IInv, Typed, IsDs
      <4>5. ds # NoDs
          BY <4>4 DEF NoDs
      <4>6. InSync
          BY Zenon, <2>1, <4>3 DEF Synced, InSync
      <4>7. QED
          BY Zenon, <4>5, <4>6
    <3>3. QED
        BY Zenon, <3>1, <3>2
  <2>5. CASE cr = dp /\ cr' = [cr EXCEPT !.status = StatusOf(child, names)] /\ "cr" \in unseen'
    <3> DEFINE st == StatusOf(child, names)
    <3> HIDE DEF st
    <3>1. cr' = [cr EXCEPT !.status = st] /\ cr \in Resources /\ Admitted(kind, cr.spec)
        BY Zenon, <2>1, <2>5 DEF IInv, Typed, IsCr, Templates, st
    <3>2. cr'.spec = cr.spec
        BY Zenon, <3>1 DEF Resources
    <3>3. Templates'
        BY Zenon, <2>1, <2>2, <3>1, <3>2, StepTemplates DEF caches
    <3>4. Synced'
        BY Zenon, <2>2, <2>5 DEF Synced, Quiet
    <3>5. QED
        BY Zenon, <3>3, <3>4
  <2>6. QED
      BY Zenon, <2>3, <2>4, <2>5
<1>6. QED
    BY Zenon, <1>1, <1>2, <1>3, <1>4, <1>5 DEF Reconcile

LEMMA TemplateInvariance == Spec => [](Templates /\ Synced)
<1>1. IInv /\ Templates /\ Synced /\ [Next]_vars => (Templates /\ Synced)'
  <2>1. ASSUME Templates, Synced, UNCHANGED vars PROVE (Templates /\ Synced)'
      BY Zenon, <2>1 DEF vars, Templates, Synced, Quiet, InSync
  <2>2. QED
      BY Zenon, <2>1, ClusterTemplates, InformersTemplates, ReconcileTemplates DEF Next
<1>2. QED
    BY <1>1, Invariance, InitTemplates, PTL DEF Spec

(* For any specs and any history of edits, deletions, failing calls, stale *)
(* reads and restarts, the template Reconcile is about to write is one the *)
(* API server accepts (createDaemonSet, updateDaemonSet and the eight      *)
(* controllers).                                                           *)
THEOREM WritesValid == Spec => []AlwaysValid
<1>1. IInv /\ Templates => AlwaysValid
    BY Zenon, SyncWrites DEF AlwaysValid
<1>2. QED
    BY <1>1, Invariance, TemplateInvariance, PTL

(* ...and Reconcile forgets nothing: whenever nothing is left to do, the   *)
(* DaemonSet is there and carries the resource's images, init container,   *)
(* arguments, labels, tolerations and config (Reconcile, fetchObjects).    *)
THEOREM EditsReachDaemonSet == Spec => []NoLostEdit
<1>1. Synced => NoLostEdit
    BY Zenon DEF Synced, NoLostEdit
<1>2. QED
    BY <1>1, TemplateInvariance, PTL
=============================================================================
