---------------------------- MODULE MCPluginRpc ----------------------------
(* Instances of PluginRpc for TLC. *)
EXTENDS PluginRpc
=============================================================================
