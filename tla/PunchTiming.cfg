\* A unit of time is the retry of the offer. Long waits are cut down to two
\* units, of which the second is for the last copy.
SPECIFICATION TimingSpec
CONSTANTS
  cl = cl
  ce = ce
  cn = cn
  sl = sl
  se = se
  sn = sn
  lo = lo
  Addr = {cl, ce, cn, sl, se, sn, lo}
  Subnet <- OneSubnet
  Loopback = lo
  Nothing = Nothing
  Skews <- SomeSkews
  Clients <- SomeClients
  Servers <- SomeServers
  Path <- LanAndWan
  Guarded <- Wan
  Named = {cn, sn}
  OfferWait = 2
  OfferRetry = 1
  HelloWait = 2
  HelloRetry = 1
  Validity = 4
  StartDelay = 1
  Duration = 2
  Grace = 1
  MaxSend = 1
  MaxAnswer = 1
  MaxLatency = 1
INVARIANTS
  ReturnsInTime
  WindowsTogether
  LostToClocksOrEnd
CHECK_DEADLOCK FALSE
