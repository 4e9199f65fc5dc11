------------------------------ MODULE DnsCall ------------------------------
(***************************************************************************)
(* What tun::dns::resolve_upstream promises its callers: a call ends with  *)
(* nothing, or with an address that an upstream server gave for the very   *)
(* domain the call is about.                                               *)
(***************************************************************************)
CONSTANTS Callers, Domains, Ips, None

VARIABLES
  asking,   \* the domain of a call that has not ended
  got,      \* what a caller's last call returned, None for nothing
  learned   \* pairs of a domain and an address an upstream gave for it

callVars == <<asking, got, learned>>

Init ==
  /\ asking = [c \in Callers |-> None] /\ got = [c \in Callers |-> None]
  /\ learned = {}

Ask(c, d) ==
  /\ asking[c] = None /\ asking' = [asking EXCEPT ![c] = d]
  /\ got' = [got EXCEPT ![c] = None] /\ UNCHANGED learned

\* Upstreams answer only what somebody asks.
Learn(d, ip) ==
  /\ \E c \in Callers : asking[c] = d
  /\ learned' = learned \cup {<<d, ip>>} /\ UNCHANGED <<asking, got>>

Return(c, ip) ==
  /\ asking[c] # None /\ (ip = None \/ <<asking[c], ip>> \in learned)
  /\ asking' = [asking EXCEPT ![c] = None] /\ got' = [got EXCEPT ![c] = ip]
  /\ UNCHANGED learned

Next ==
  \/ \E c \in Callers, d \in Domains : Ask(c, d)
  \/ \E d \in Domains, ip \in Ips : Learn(d, ip)
  \/ \E c \in Callers, ip \in Ips \cup {None} : Return(c, ip)

Spec == Init /\ [][Next]_callVars
=============================================================================
