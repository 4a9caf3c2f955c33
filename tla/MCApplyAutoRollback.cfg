SPECIFICATION Spec
CONSTANTS
  exe = exe
  dll = dll
  extra = extra
  Files <- MCFiles
  Original <- MCOriginal
  Releases <- MCReleases
  Faulty = {"update"}
  MaxRuns = 1
  None = None
  Partial = Partial
INVARIANT FailureRollsBack
