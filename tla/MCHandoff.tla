------------------------------ MODULE MCHandoff ------------------------------
(* A daemon and a command-line client of one console server.                *)
EXTENDS Handoff

CONSTANTS daemon, commandLine

MCClient == {daemon, commandLine}
MCDaemon == {daemon}
=============================================================================
