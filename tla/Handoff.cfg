\* A daemon and a command-line client of one server; every process may end.
SPECIFICATION FairSpec
CONSTANTS
  commandLine = commandLine
  daemon = daemon
  None = None
  Client <- MCClient
  Daemon <- MCDaemon
CHECK_DEADLOCK FALSE
INVARIANT ConnectedIsExpected
INVARIANT SocketGoesToPuncher
PROPERTY ConnectReturns
