SPECIFICATION Spec
CONSTANTS
  exe = exe
  dll = dll
  extra = extra
  Files <- MCFiles
  Original <- MCOriginal
  Releases <- MCReleases
  Faulty = {"rollback"}
  MaxRuns = 3
  None = None
  Partial = Partial
INVARIANT RollbackRestores
