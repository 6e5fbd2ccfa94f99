------------------------------ MODULE MCAdverts ------------------------------
(* A small instance of Adverts.                                            *)
EXTENDS Adverts

CONSTANTS s1, s2

\* The clock of the second server is ahead by one.
OneAhead == [s \in Server |-> IF s = s2 THEN 1 ELSE 0]
=============================================================================
