------------------------------ MODULE MCConsole ------------------------------
(* Two connect calls of one daemon, a page and a message.                   *)
EXTENDS Console

CONSTANTS c1, c2, m, p

MCCall == {c1, c2}
MCMessage == {m}
MCPage == {p}
=============================================================================
