\* Two clients, two addresses; one datagram is lost and one repeated, nobody
\* dies. Delay and reordering are always possible.
SPECIFICATION Spec
CONSTANTS
  Client = {c1, c2}
  Addr = {a1, a2}
  NoClient = NoClient
  NoAddr = NoAddr
  TTL = 2
  RetryLimit = 1
  MaxMissed = 0
  MaxLost = 1
  MaxDup = 1
  MaxKills = 0
SYMMETRY Symmetry
INVARIANTS TypeOK LeaseBacksAddress OneEntryPerClient EntryAccountedFor
PROPERTIES RenewalKeepsAddress ImplementsPool
CHECK_DEADLOCK FALSE
