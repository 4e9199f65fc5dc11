----------------------------- MODULE MCUdpFlows -----------------------------
(* Two tasks at a time for three keys, over one slot: its first tunnel has *)
(* room for two streams, the next one for one.                             *)
EXTENDS UdpFlows

TwoThenOne == [m \in 1..MaxMuxes |-> IF m = 1 THEN 2 ELSE 1]
=============================================================================
