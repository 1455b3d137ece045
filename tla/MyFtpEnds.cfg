\* Two commands of one client, or one of each; liveness.
SPECIFICATION FairSpec
CONSTANTS
  c1 = c1
  c2 = c2
  d1 = d1
  d2 = d2
  f = f
  Client = {c1, c2}
  Dir = {d1}
  Name = {f}
  Here = Here
  Tilde = Tilde
  NoArg = NoArg
  Byte = {"a", "b", "c", "x", "y", "z", "0"}
  Nul = "0"
  PieceSize = 2
  Split = {c2}
  NoFile = NoFile
  NoPath = NoPath
  MaxFaults = 1
  Home = d1
  MaxEntries = 1
  LocalHome = d1
  Quotas <- TwoOrTogether
  Typed <- OnlyHere
  ServerFiles <- OneFile
  LocalFiles <- MyFiles
PROPERTIES CommandEnds ChildEnds
CHECK_DEADLOCK FALSE
