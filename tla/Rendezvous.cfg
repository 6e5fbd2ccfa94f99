\* One attempt each of a trusted client and of one the server does not trust,
\* with the two paths a LAN peer has; the server may end at any point, and is
\* started again once.
SPECIFICATION Spec
CONSTANTS
  alice = alice
  bob = bob
  a1 = a1
  a2 = a2
  Client = {alice, bob}
  Attempt = {a1, a2}
  Owner <- TwoClients
  Trusted = {alice}
  Path = {lan, wan}
  HelloPath = wan
  MaxStarts = 2
  None = None
INVARIANTS
  EndsAgree
  ResumedOnPath
PROPERTIES
  ShownOnOnePath
  ImplementsBootstrap
CHECK_DEADLOCK FALSE
