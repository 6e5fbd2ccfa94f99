-------------------------- MODULE MCBootstrapProbe --------------------------
(* A small instance of BootstrapProbe.                                     *)
EXTENDS BootstrapProbe

CONSTANTS n0, n1
=============================================================================
