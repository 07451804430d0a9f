----------------------------- MODULE MCGoEngine -----------------------------
(* GoEngine on small instances. *)
EXTENDS GoEngine
=============================================================================
