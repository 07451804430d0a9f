---------------------------- MODULE MCPyLifecycle ----------------------------
(* PyLifecycle on small instances. *)
EXTENDS PyLifecycle
=============================================================================
