----------------------------- MODULE MCShellExec -----------------------------
(* ShellExec with small sets of model values for sessions, tasks, frames.   *)
EXTENDS ShellExec
=============================================================================
