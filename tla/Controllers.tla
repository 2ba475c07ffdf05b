----------------------------- MODULE Controllers -----------------------------
(***************************************************************************)
(* The DevicePluginController interface of pkg/controllers/reconciler.go   *)
(* and its implementation by the controller of each kind of plugin, which  *)
(* cmd/operator/main.go registers.                                         *)
(***************************************************************************)
EXTENDS DlbController, DsaController, FpgaController, GpuController,
        IaaController, NpuController, QatController, SgxController

CONSTANT Kinds   \* the kinds of plugin

ASSUME KindsAssumption ==
    Kinds \subseteq {"dlb", "dsa", "fpga", "gpu", "iaa", "npu", "qat", "sgx"}

NewDaemonSet(k, dp) ==
    CASE k = "dlb" -> dlb_NewDaemonSet(dp)   [] k = "dsa" -> dsa_NewDaemonSet(dp)
      [] k = "fpga" -> fpga_NewDaemonSet(dp) [] k = "gpu" -> gpu_NewDaemonSet(dp)
      [] k = "iaa" -> iaa_NewDaemonSet(dp)   [] k = "npu" -> npu_NewDaemonSet(dp)
      [] k = "qat" -> qat_NewDaemonSet(dp)   [] k = "sgx" -> sgx_NewDaemonSet(dp)

UpdateDaemonSet(k, t, dp) ==
    CASE k = "dlb" -> dlb_UpdateDaemonSet(t, dp)
      [] k = "dsa" -> dsa_UpdateDaemonSet(t, dp)
      [] k = "fpga" -> fpga_UpdateDaemonSet(t, dp)
      [] k = "gpu" -> gpu_UpdateDaemonSet(t, dp)
      [] k = "iaa" -> iaa_UpdateDaemonSet(t, dp)
      [] k = "npu" -> npu_UpdateDaemonSet(t, dp)
      [] k = "qat" -> qat_UpdateDaemonSet(t, dp)
      [] k = "sgx" -> sgx_UpdateDaemonSet(t, dp)

validatePlugin(k, dp) ==
    CASE k = "dlb" -> dlb_validatePlugin(dp)   [] k = "dsa" -> dsa_validatePlugin(dp)
      [] k = "fpga" -> fpga_validatePlugin(dp) [] k = "gpu" -> gpu_validatePlugin(dp)
      [] k = "iaa" -> iaa_validatePlugin(dp)   [] k = "npu" -> npu_validatePlugin(dp)
      [] k = "qat" -> qat_validatePlugin(dp)   [] k = "sgx" -> sgx_validatePlugin(dp)

(* The fields a kind's resource has; the others stay unset.                *)
SpecsOf(k) ==
    {s \in Specs :
       /\ s.initImage # "" => k # "npu"
       /\ s.provisioningConfig # "" => k \in {"dsa", "iaa", "qat"}
       /\ s.driver \in CASE k = "dsa" -> {"idxd", "vfio-pci"}
                         [] k = "qat" -> {"c6xxvf", "4xxxvf"}
                         [] OTHER -> {"idxd"}}

-----------------------------------------------------------------------------
(* The ConfigMaps among the sources of a template's volumes.               *)
ConfigsOf(t) == {x \in Configs : \E n \in DOMAIN t.volumes : x \in Range(t.volumes[n])}

(* Template t of a plugin of kind k carries the images, arguments, labels  *)
(* and tolerations of spec s.  A provisioning config it has is the one of  *)
(* s; only QAT's controller also adds one to an init container that        *)
(* exists, and only IAA's replaces the user's choice of an architecture.   *)
Carries(k, t, s) ==
    /\ t.image = s.image
    /\ {c.image : c \in Range(t.initContainers)} = {s.initImage} \ {""}
    /\ t.args = NewDaemonSet(k, s).args
    /\ s.nodeSelector \ (IF k = "iaa" THEN ArchLabels ELSE {}) \subseteq t.nodeSelector
    /\ t.tolerations = Stored(NewDaemonSet(k, s)).tolerations
    /\ ConfigsOf(t) \subseteq {s.provisioningConfig}
    /\ k = "qat" => ConfigsOf(t) = {s.provisioningConfig} \ {""}
===============================================================================
