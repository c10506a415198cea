CONSTANTS
  u1 = u1  u2 = u2  web = web  db1 = db1  alice = alice  bob = bob  ctl = ctl  run = run
  NoRow = NoRow  Nobody = Nobody  NoDomain = NoDomain
  Uuid <- MCUuid  Existing <- MCExisting  Name <- MCName  Owner <- MCOwner
  Host <- MCHost  Slot <- MCSlot  Size <- MCSize  NewSize <- MCNewSize  Settled <- MCSettled
  Local = ctl
  Memory = {1, 2}  Disk = {1, 2}  MemCeiling = 3  DiskCeiling = 3
  BatchSize = 1  MaxRequests = 3  MaxFaults = 0
SPECIFICATION Spec
PROPERTY RemovesOnlyItsOwn
