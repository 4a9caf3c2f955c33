SPECIFICATION Spec
CONSTANTS
  Callers = {c1, c2, c3}
  Scanners = {s1, s2, s3}
  NoScanner = NoScanner
  NoCaller = NoCaller
  AsyncWorkers = 1
  BlockingThreads = 3
  MaxCalls = 2
SYMMETRY Symmetry
INVARIANTS TypeOK LockDiscipline SingleOwner NoUseAfterDisconnect
PROPERTIES NeverOverwritten ServesAtomically
