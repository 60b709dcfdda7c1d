CONSTANTS
  w1 = w1  w2 = w2  w3 = w3
  p1 = p1  p2 = p2
  a = a  b = b  inb = inb
  t1 = t1  t2 = t2  bad = bad
  Texts = {t1, t2}
  Invalid = {}
  Unwritable = {}
  Shapes = {"canonical", "crlf"}
  Canonical = "canonical"
  Damaged = "damaged"
  NoRevision = NoRevision
  Paths = {a, b}
  Inside <- BInsideA
  Absent = Absent
  Gitlink = Gitlink
  Other = Other
  Writers = {w1}
  Processes = {p1, p2}
  ProcessOf <- SharedProcess
  Nobody = Nobody
  PlainGit = PlainGit
  CallsOf <- NestedCalls
  InitialBranches <- NestedBranches
  GitEdits <- NoGitEdits
  MaxAttempts = 2
  MaxCalls = 1
  MaxGitCommits = 2
  MayCancel = {}
  Faults = {}
SPECIFICATION Spec
INVARIANT OnlyNamedDocumentChanges
