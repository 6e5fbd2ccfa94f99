\* A daemon is run with --handoff-fips.
SPECIFICATION Spec
CONSTANTS
  commandLine = commandLine
  daemon = daemon
  None = None
  Client <- MCClient
  Daemon <- MCDaemon
CHECK_DEADLOCK FALSE
INVARIANT DaemonOutlivesHandoff
