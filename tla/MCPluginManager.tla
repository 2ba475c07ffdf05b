--------------------------- MODULE MCPluginManager ---------------------------
(* PluginManager with the symmetry of device types and of tables, for the  *)
(* safety run.                                                              *)
EXTENDS PluginManager, TLC

Symmetry == Permutations(DevTypes) \cup Permutations(Tables)
=============================================================================
