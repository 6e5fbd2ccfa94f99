\* Two servers, one with a fast clock, that are restarted with other relays;
\* a time-to-live of two renewal intervals, as in the servers.
SPECIFICATION Spec
CONSTANTS
  s1 = s1
  s2 = s2
  Server = {s1, s2}
  Relay = {r1}
  DmRelay = {d1, d2}
  DmRelays = {{d1}, {d2}}
  DaemonRelays = {d1}
  DaemonLists = {{d2}}
  Skew <- OneAhead
  Interval = 1
  Ttl = 2
  MaxNow = 2
  MaxStarts = 2
  None = None
INVARIANTS
  CacheIsNewestHeard
  StaysAdvertised
PROPERTIES
  RelaysMeet
  FirstIsNewest
CHECK_DEADLOCK FALSE
