----------------------------- MODULE BytePipe ------------------------------
(***************************************************************************)
(* What a byte stream over a tunnel promises: in each direction the bytes  *)
(* that were accepted are numbered, and come out once each and in order.   *)
(* Bytes that are still on their way may be lost with the connection.      *)
(***************************************************************************)
EXTENDS Integers, Sequences

CONSTANTS
  Directions,
  Bytes       \* bytes each side may write

VARIABLES
  accepted,   \* bytes a write has accepted
  delivered   \* bytes reads have returned, in their order

Init == accepted = [d \in Directions |-> 0] /\ delivered = [d \in Directions |-> <<>>]

Write(d) ==
  /\ \E n \in (accepted[d] + 1)..Bytes : accepted' = [accepted EXCEPT ![d] = n]
  /\ UNCHANGED delivered

Read(d) ==
  /\ \E n \in (Len(delivered[d]) + 1)..accepted[d] :
       delivered' = [delivered EXCEPT ![d] = [i \in 1..n |-> i]]
  /\ UNCHANGED accepted

Next == \E d \in Directions : Write(d) \/ Read(d)

Spec == Init /\ [][Next]_<<accepted, delivered>>
=============================================================================
