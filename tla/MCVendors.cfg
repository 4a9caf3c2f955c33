SPECIFICATION VendorsSpec
CONSTANTS
  Kinds = {"capture", "enroll", "verify", "identify", "get_quality"}
  SampleArgs = {0, 1, 2}
  Qualities = {59, 60, 80, 99, 300}
  MinQualities = {0, 60}
  Scores = {0, 1, 2}
  MaxGallery = 3
  Places = {1, 2, 3}
  WbfSampleArgs = {0, 1, 2}
  MaxOps = 3
  Names = {"auto", "secugen", "wbf", "neurotec", "unknown"}
INVARIANTS VendorsTypeOK EnrollKeepsBest IdentifyNamesBest SuccessLeavesNothing CallsOnLiveHandle NothingLeftOpen WbfSessionOwned
