SPECIFICATION Spec
CONSTANTS
  Callers = {c1, c2}
  Scanners = {s1, s2}
  NoScanner = NoScanner
  NoCaller = NoCaller
  AsyncWorkers = 1
  BlockingThreads = 2
  MaxCalls = 2
INVARIANT VendorCallsSerialised
