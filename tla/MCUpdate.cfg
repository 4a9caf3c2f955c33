SPECIFICATION UpdateSpec
CONSTANTS
  exe = exe
  dll = dll
  extra = extra
  NoVersion = NoVersion
  Files <- MCFiles
  Original <- MCOriginal
  Releases <- MCReleases
  Faulty = {"update"}
  MaxRuns = 3
  None = None
  Partial = Partial
  Versions = {1, 2, 3}
  Listings <- MCListings
  Zips <- MCZips
  Published <- MCPublished
  Signed <- MCSigned
  HasKey = TRUE
  PerFile = 2
  Total = 3
  Manifest = Manifest
  Directory = Directory
  Nameless = Nameless
INVARIANTS UpdateTypeOK Recoverable RollbackRestores UpdateInstallsAll StagedWithinLimits ChecksAgree
PROPERTIES PlansOnlyVerified InstallsReleases
