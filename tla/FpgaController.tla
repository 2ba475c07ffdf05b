---------------------------- MODULE FpgaController ----------------------------
(***************************************************************************)
(* The FPGA plugin's controller, pkg/controllers/fpga/controller.go.  The  *)
(* yaml file has an init container, so an init image is mandatory.         *)
(***************************************************************************)
EXTENDS DaemonSets

fpga_validatePlugin(dp) ==
    validatePluginImage(dp.image) /\ validatePluginImage(dp.initImage)

(* The mode, "af" when unset.                                              *)
fpga_getPodArgs(dp) == <<OrOne(dp.param)>>

(* The init container keeps the yaml's image until the first update.       *)
fpga_NewDaemonSet(dp) ==
    LET yaml == YamlTemplate({"devfs", "sysfs", "kubeletsockets", "cdidir"})
        t    == [yaml EXCEPT
                   !.initContainers = <<InitContainer("devel", "", {"intel-fpga-sw"})>>,
                   !.volumes = appendVolumes(@, HostVolumes({"intel-fpga-sw"}))]
    IN  Customised(t, dp, fpga_getPodArgs(dp))

fpga_UpdateDaemonSet(t, dp) ==
    [Customised(t, dp, fpga_getPodArgs(dp)) EXCEPT !.initContainers[1].image = dp.initImage]
===============================================================================
