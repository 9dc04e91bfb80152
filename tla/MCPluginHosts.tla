---------------------------- MODULE MCPluginHosts ----------------------------
(* The plugin hosts for TLC. *)
EXTENDS PluginHosts, TLC
Symmetric == Permutations(Callers) \cup Permutations(Keys)
===============================================================================
