CONSTANTS
  t1 = t1  t2 = t2
  Texts = {t1, t2}
  Invalid = {}
  Unwritable = {}
  Shapes = {"canonical"}
  Canonical = "canonical"
  Damaged = "damaged"
  NoRevision = NoRevision
  Segments <- Names
  Unusable = {"[backslash].md"}
  Prefixed = {"c:d.md"}
  GitDirs = {}
  MarkdownNames = {"a.md", "b.md", "c:d.md", "-e.md", "[backslash].md"}
  Dashed = {"-e.md"}
  MaxContentPath = 3
  Paths <- RepositoryPaths
  Inside <- Nested
  Absent = Absent
  Gitlink = Gitlink
  Roots <- OnlyRoot
  Readers = {"r"}
  Asked <- OnePath
  Collections <- NoCollections
  InitialTrees <- InitialTree
  WriterEdits <- ReadEdits
  SideEdits = {}
  Limits = {1}
  Guesses <- MadeUp
  MaxCommits = 3
  MaxMerges = 0
  MaxReads = 2
SPECIFICATION Spec
INVARIANT LimitOnlyCaps
