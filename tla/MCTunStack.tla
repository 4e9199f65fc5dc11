----------------------------- MODULE MCTunStack ----------------------------
(* Two connections of apps, and as many sockets in all as MaxRelays. *)
EXTENDS TunStack
=============================================================================
