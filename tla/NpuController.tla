---------------------------- MODULE NpuController ----------------------------
(***************************************************************************)
(* The NPU plugin's controller, pkg/controllers/npu/controller.go.  It has *)
(* no init container.                                                      *)
(***************************************************************************)
EXTENDS DaemonSets

npu_validatePlugin(dp) == validatePluginImage(dp.image)

npu_getPodArgs(dp) == <<OrOne(dp.param)>>

npu_NewDaemonSet(dp) ==
    Customised(YamlTemplate({"devfs", "sysfsaccel", "kubeletsockets"}), dp,
               npu_getPodArgs(dp))

npu_UpdateDaemonSet(t, dp) == Customised(t, dp, npu_getPodArgs(dp))
===============================================================================
