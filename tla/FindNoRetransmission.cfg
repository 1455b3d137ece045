\* Two clients, two addresses; one datagram is lost.
SPECIFICATION TimedFairSpec
CONSTANTS
  Client = {c1, c2}
  Addr = {a1, a2}
  NoClient = NoClient
  NoAddr = NoAddr
  Server = Server
  TTL = 3
  RetryLimit = 1
  MaxMissed = 0
  MaxLost = 1
  MaxDup = 0
  MaxKills = 0
CHECK_DEADLOCK FALSE
PROPERTY OfferWaitEnds
