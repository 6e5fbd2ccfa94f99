-------------------------- MODULE MCRendezvousNode --------------------------
(* RendezvousNode with one attempt for each client, and an older client     *)
(* whose probes come from behind the same NAT as those of the others.       *)
EXTENDS RendezvousNode

CONSTANTS trusted, a1, a2, other, lan, nat

Callers == [a \in Attempt |-> IF a = a1 THEN trusted ELSE other]
JsonPaths == [x \in JsonNonce |-> {nat}]
=============================================================================
