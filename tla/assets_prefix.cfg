CONSTANTS
  c1 = c1  c2 = c2  c3 = c3
  img = img  logo = logo
  Keys = {img, logo}
  ParentOf <- Nested
  Root = Root
  Callers = {c1, c2}
  Operator = Operator
  CallsOf <- PrefixCalls
  InitialNames <- PrefixNames
  Placed <- PrefixPlaced
  LinkTarget = logo
  SizeUnknown <- Undeclared
  Absent = Absent
  Directory = Directory
  Link = Link
  Garbled = Garbled
  MaxCalls = 2
  MaxPlaced = 1
  MaxCuts = 0
  MaxLength = 1
  MayCancel = {}
  Faults = {"syncdir", "kill", "close"}
SPECIFICATION Spec
INVARIANTS
  NamesFormATree
  FailedPutsLeaveTheKeyAlone
PROPERTY RepliesAreOfOneInstant
