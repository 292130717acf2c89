----------------------------- MODULE MCPluginRpc -----------------------------
(* Two goroutines that share a client: the run configures every constant. *)
EXTENDS PluginRpc
=============================================================================
