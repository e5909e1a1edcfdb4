SPECIFICATION CliSpec
CONSTANTS
  Samples <- FewSamples
  Shape <- MCShape
  Digest <- MCDigest
  Detections <- MCDetections
  Databases <- FewDatabases
  Images <- FewImages
  FakeImage <- MCFakeImage
  NoFile = NoFile
  pe1 = pe1
  pe2 = pe2
  script = script

INVARIANT DatabaseFailureIsStructured
