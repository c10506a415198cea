CONSTANTS
  u1 = u1  u2 = u2  web = web  db1 = db1  alice = alice  bob = bob  ctl = ctl  run = run
  NoRow = NoRow  Nobody = Nobody  NoDomain = NoDomain
  Uuid <- MCUuid  Existing <- MCExisting  Name <- MCName  Owner <- MCOwner
  Host <- MCHost  Slot <- MCSlot  Size <- MCSize  NewSize <- MCNewSize  Settled <- MCSettled
  Local = ctl
  Memory = {1, 2}  Disk = {1, 2}  MemCeiling = 3  DiskCeiling = 3
  BatchSize = 1  MaxRequests = 2  MaxFaults = 1
  x1 = x1  x2 = x2  y1 = y1  y2 = y2  z1 = z1  z2 = z2
  Flow = {x1, x2}  Browser = {y1, y2}  Subject = {z1, z2}
  PreferredName <- MCPreferredName
  NameVariants = 2  Subnets = 2  MaxRotations = 1  MaxEvents = 2
  Conn = {x1, x2}  Page = {y1, y2}  Key = {z1, z2}  Account = {z1, z2}
  MaxPairings = 2  MaxKeyEdits = 1
SPECIFICATION ControlSpec
SYMMETRY Symmetry
INVARIANTS
  TypeOK
  CapacityRespected
  NameNeverStolen
  DiskCoversRow
  HaltIsPersistent
  OneAccountPerSubject
  LinkAttachesConfirmed
PROPERTIES
  NoProbeAfterLogout
