----------------------------- MODULE MCQatPlugin -----------------------------
(* QatPlugin with two PFs of two VFs each, and every policy and driver.    *)
EXTENDS QatPlugin, TLC

MCSetups ==
    {[vm |-> FALSE, dpdkDriver |-> "igb_uio", policy |-> "packed", maxDevices |-> 3,
      services |-> "sym-asym"],
     [vm |-> FALSE, dpdkDriver |-> "vfio-pci", policy |-> "balanced", maxDevices |-> 4,
      services |-> "sym-asym"],
     [vm |-> TRUE, dpdkDriver |-> "vfio-pci", policy |-> "none", maxDevices |-> 2,
      services |-> "dc"]}

MCSize == [c1 |-> 2, c2 |-> 1]
MCContainers == DOMAIN MCSize
=============================================================================
