\* Two clients, two addresses; one datagram is lost, one repeated.
SPECIFICATION Spec
CONSTANTS
  Client = {c1, c2}
  Addr = {a1, a2}
  NoClient = NoClient
  NoAddr = NoAddr
  TTL = 2
  RetryLimit = 1
  MaxMissed = 1
  MaxLost = 1
  MaxDup = 1
  MaxKills = 0
CHECK_DEADLOCK FALSE
PROPERTY ResendKeepsClient
