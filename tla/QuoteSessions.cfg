SPECIFICATION Spec
CONSTANTS
  day = day  annual = annual
  pA = pA  pB = pB  pC = pC
  i1 = i1  i2 = i2
  Absent = Absent
  Jobs = {j1, j2}
  MaxRuns = 3
  Keys <- MCKeys
  Payloads <- MCPayloads
  Feed <- MCFeed
  Idents <- MCIdents
  RowsOf <- MCRowsOf
INVARIANTS TypeOK RevisionsContiguous RevisionsChangeBytes ArtifactObjectExists
PROPERTIES RevisedBytesOnRecord CommittedFileIsComplete
CHECK_DEADLOCK FALSE
