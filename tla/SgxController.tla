---------------------------- MODULE SgxController ----------------------------
(***************************************************************************)
(* The SGX plugin's controller, pkg/controllers/sgx/controller.go.         *)
(***************************************************************************)
EXTENDS DaemonSets

sgx_validatePlugin(dp) ==
    /\ validatePluginImage(dp.image)
    /\ dp.initImage # "" => validatePluginImage(dp.initImage)

sgx_getPodArgs(dp) == <<OrOne(dp.param)>>

sgx_setInitContainer(t, img) ==
    [t EXCEPT !.initContainers = <<InitContainer(img, "", {"nfd-features"})>>,
              !.volumes = addVolumeIfMissing(@, "nfd-features")]

sgx_NewDaemonSet(dp) ==
    LET yaml == YamlTemplate({"kubeletsockets", "sgx-enclave", "sgx-provision", "cdipath"})
        t    == Customised(yaml, dp, sgx_getPodArgs(dp))
    IN  IF dp.initImage = "" THEN t ELSE sgx_setInitContainer(t, dp.initImage)

(* Reports a change whenever there is an init image: the write is then one *)
(* that changes nothing.                                                   *)
sgx_processInitContainer(t, dp) ==
    IF dp.initImage # "" THEN sgx_setInitContainer(t, dp.initImage)
    ELSE IF t.initContainers = <<>> THEN t
    ELSE [t EXCEPT !.initContainers = <<>>,
                   !.volumes = removeVolume(@, {"nfd-features"})]

sgx_UpdateDaemonSet(t, dp) ==
    Customised(sgx_processInitContainer(t, dp), dp, sgx_getPodArgs(dp))
===============================================================================
