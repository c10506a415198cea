SPECIFICATION RestoreSpec
CONSTANTS
  Controllers = {c1, c2}
  NoHolder = NoHolder
  TTL = 2
  MaxClock = 2
  Runners = {r1}
  Handlers = {h1}
  Requests = {q1, q2}
  Objects = {o1}
  Digests = {d1}
  NoRequest = NoRequest
  NoDigest = NoDigest
  Skews = {0}
  MaxSkew = 0
  Followers = {}
  EpochStride = 3
SYMMETRY Symmetry
CHECK_DEADLOCK FALSE
PROPERTIES
  DispatchesAboveAccepted
