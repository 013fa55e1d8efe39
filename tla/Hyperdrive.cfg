SPECIFICATION FairSpec
CONSTANTS
  Transmitters = {t1, t2, t3}
  t1 = t1 t2 = t2 t3 = t3 Managed = {t3}
  o1 = o1 o2 = o2 job = job junk = junk
  Owners = {o1, o2}
  FirstOwner = o1
  Payloads = {job, junk}
  Sends <- MCSends
  None = None
  Windows <- MCWindows
  Initial <- MCInitial
  Settings <- MCSettings
  Forgeries <- MCForgeries
  Quorum = 2
  MaxTransmittersPerSnapshot = 3
  TransmissionRate = 1
  MaxBlock = 1
  MaxSnapshot = 2
  MaxMessages = 2
  RootSnapshots = {2}
INVARIANTS
  TypeOK
  Authentic
  OneRootPerSnapshot
PROPERTIES
  SnapshotsAdvance
