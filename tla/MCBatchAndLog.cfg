SPECIFICATION ProgramSpec
CONSTANTS
  Lines <- MCLines
  MaxLines = 4
  Old = Old
  a = a  b = b
  Published <- MCPublished
  Partitions = {p0, p1}
  MaxRepeats = 2
INVARIANTS
  FilesTruthful
  FailuresAreTold
  OffsetsSound
  ReportTruthful
