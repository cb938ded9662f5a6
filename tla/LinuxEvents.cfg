SPECIFICATION FairSpec
CONSTANTS
  stick = stick
  plain = plain
  drive = drive
  internal = internal
  sn1 = sn1
  wwn1 = wwn1
  NoDisk = NoDisk
  NoId = NoId
  Ids = {sda, sdb, sn1, wwn1}
  Names = {sda, sdb}
  Disks = {stick, plain, drive, internal}
  Serial <- Serials
  Wwn <- Wwns
  Listed = {stick, plain, drive}
  Capacity = 1
  MaxMoves = 4
INVARIANTS
  TypeOK
  InsertedOnce
PROPERTIES
  DroppedEndsThread
