CONSTANTS
  w1 = w1  w2 = w2  w3 = w3
  p1 = p1  p2 = p2
  a = a  b = b  inb = inb
  t1 = t1  t2 = t2  bad = bad
  Texts = {t1, t2, bad}
  Invalid = {t2}
  Unwritable = {bad}
  Shapes = {"canonical", "crlf"}
  Canonical = "canonical"
  Damaged = "damaged"
  NoRevision = NoRevision
  Paths = {a}
  Inside = {}
  Absent = Absent
  Gitlink = Gitlink
  Other = Other
  Writers = {w1, w2}
  Processes = {p1, p2}
  ProcessOf <- SharedProcess
  Nobody = Nobody
  PlainGit = PlainGit
  CallsOf <- FaultCalls
  InitialBranches <- FaultBranches
  GitEdits <- FaultGitEdits
  MaxAttempts = 3
  MaxCalls = 1
  MaxGitCommits = 2
  MayCancel = {w1}
  Faults = {"fails", "refused", "killed"}
SPECIFICATION FairSpec
INVARIANTS
  CommitsAreCompareAndSwaps
  TurnsAreExclusive
PROPERTIES
  FastForwardOnly
  EveryCallReturns
