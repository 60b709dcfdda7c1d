CONSTANTS
  c1 = c1  c2 = c2  c3 = c3
  img = img  logo = logo
  Keys = {img, logo}
  ParentOf <- Siblings
  Root = Root
  Callers = {c1, c2, c3}
  Operator = Operator
  CallsOf <- OneKeyCalls
  InitialNames <- OneKeyNames
  Placed <- NothingPlaced
  LinkTarget = logo
  SizeUnknown <- Undeclared
  Absent = Absent
  Directory = Directory
  Link = Link
  Garbled = Garbled
  MaxCalls = 1
  MaxPlaced = 0
  MaxCuts = 1
  MaxLength = 2
  MayCancel = {c1}
  Faults = {"write", "sync", "kill"}
SPECIFICATION Spec
INVARIANTS
  TypeOK
  PublishedObjectsAreWhole
  PutReturnsItsOwnRef
  FailedPutsLeaveTheKeyAlone
  AcknowledgedPutsAreDurable
  OnlyKilledPutsLeaveFiles
  DeletesTakeDistinctObjects
PROPERTY ImplementsAssetMap
