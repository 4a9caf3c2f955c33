SPECIFICATION FairSpec
CONSTANTS
  Callers = {c1, c2, c3}
  Scanners = {s1, s2, s3}
  NoScanner = NoScanner
  NoCaller = NoCaller
  AsyncWorkers = 1
  BlockingThreads = 2
  MaxCalls = 1
PROPERTIES CallsReturn ImplementsService
