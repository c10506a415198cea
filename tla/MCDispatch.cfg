SPECIFICATION Spec
CONSTANTS
  Controllers = {c1, c2}
  NoHolder = NoHolder
  TTL = 2
  MaxClock = 2
  Runners = {r1}
  Handlers = {h1, h2}
  Requests = {q1, q2}
  Objects = {o1}
  Digests = {d1, d2}
  NoRequest = NoRequest
  NoDigest = NoDigest
  Skews = {0}
  MaxSkew = 0
  Followers = {s1}
  EpochStride = 3
SYMMETRY Symmetry
CHECK_DEADLOCK FALSE
INVARIANTS
  TypeOK
  OneLiveController
  GenerationNamesOneOrder
  AdmissionRespectsHistory
  FinishedIsNotRepeated
PROPERTIES
  ReplacedControllerIsFenced
  DispatchesAboveAccepted
