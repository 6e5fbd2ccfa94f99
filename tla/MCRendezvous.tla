---------------------------- MODULE MCRendezvous ----------------------------
(* A small instance of Rendezvous.                                         *)
EXTENDS Rendezvous

CONSTANTS alice, bob, a1, a2

\* One attempt each of two clients.
TwoClients == [a \in Attempt |-> IF a = a1 THEN alice ELSE bob]
=============================================================================
