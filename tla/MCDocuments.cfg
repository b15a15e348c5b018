SPECIFICATION FairSpec
CONSTANTS
  long = long
  short = short
  blank = blank
  Null = Null
  Upload = {u1, u2, u3}
  Content = {long, blank}
  MaxChars = 2
  Part = {0, 1}
  PartsOf <- MCPartsOf
  Faults = {"qdrant", "crash"}
INVARIANTS DocumentsTypeOK OneDocumentPerContent PointsMatchChunks AnswersAreTrue
PROPERTIES UploadsEnd KeepsCatalogue
CHECK_DEADLOCK FALSE
