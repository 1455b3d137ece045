\* Two clients, two addresses; one client may be killed.
SPECIFICATION TimedSpec
CONSTANTS
  Client = {c1, c2}
  Addr = {a1, a2}
  NoClient = NoClient
  NoAddr = NoAddr
  Server = Server
  TTL = 3
  RetryLimit = 1
  MaxMissed = 0
  MaxLost = 0
  MaxDup = 0
  MaxKills = 1
CHECK_DEADLOCK FALSE
INVARIANT LiveLeaseKept
