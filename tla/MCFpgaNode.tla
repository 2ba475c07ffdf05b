----------------------------- MODULE MCFpgaNode -----------------------------
(* FpgaNode on a board with four ports, with a GBS for each of two         *)
(* interfaces and an AOCX.                                                 *)
EXTENDS FpgaNode

A == [ext |-> "gbs", iface |-> "i1", afu |-> "a", hash |-> ""]
B == [ext |-> "gbs", iface |-> "i2", afu |-> "b", hash |-> ""]
X == [ext |-> "aocx", iface |-> "i1", afu |-> "opencl", hash |-> "x"]

MCBitstreams == {A, B, X}
MCStored     == {{A, B}}

(* An FME with two ports, a second one of its kind, and one of another.    *)
MCBoards == {[fme |-> <<1, 1, 2, 3>>, iface |-> <<"i1", "i1", "i2">>,
              image |-> <<A, A, NoImage, B>>]}

(* Two functions; an AOCX by its hash; the function every AOCX has, which  *)
(* no file is named after.                                                 *)
MCWants ==
    [c1 |-> <<[iface |-> "i1", id |-> "a"], [iface |-> "i2", id |-> "b"]>>,
     c2 |-> <<[iface |-> "i1", id |-> "x"]>>,
     c3 |-> <<[iface |-> "i1", id |-> "opencl"]>>]
MCContainers == DOMAIN MCWants
=============================================================================
