\* Two clients and two addresses on a faithful network; both clients may be
\* killed, and one alarm a tick may miss select().
SPECIFICATION OneOrderSpec
CONSTANTS
  Client = {c1, c2}
  Addr = {a1, a2}
  NoClient = NoClient
  NoAddr = NoAddr
  Server = Server
  TTL = 3
  RetryLimit = 1
  MaxMissed = 1
  MaxLost = 0
  MaxDup = 0
  MaxKills = 2
INVARIANTS NoLeaseRunsOut
PROPERTIES  AckWaitEnds DeadLeaseReclaimed
CHECK_DEADLOCK FALSE
