---------------------------- MODULE MCDnsFlight ----------------------------
(* Three callers of two domains; the cache has room for one answer. *)
EXTENDS DnsFlight
=============================================================================
