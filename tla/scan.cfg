SPECIFICATION CliSpec
CONSTANTS
  Samples <- MCSamples
  Shape <- MCShape
  Digest <- MCDigest
  Detections <- MCDetections
  Databases <- MCDatabases
  Images <- MCImages
  FakeImage <- MCFakeImage
  NoFile = NoFile
  pe1 = pe1
  pe2 = pe2
  script = script

INVARIANTS
  TypeOK
  ReportWellFormed
  MatchIffCurated
  AttributedToItsBackend
  ConsumerSeesTheReport
  FailureLeavesOutput
  ReportComplete
 
