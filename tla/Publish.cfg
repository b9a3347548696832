SPECIFICATION Spec
CONSTANTS
  quotes = quotes  rates = rates  f1 = f1  f2 = f2
  d1 = d1  d2 = d2  pub1 = pub1  pub2 = pub2  reader = reader
  Names = {quotes, rates}
  Dates = {d1, d2}
  Frames = {f1, f2}
  Blocked = {f2}
  Empty = Empty  Corrupt = Corrupt  None = None
  Publishers = {pub1, pub2}
  Readers = {reader}
  Requests <- MCRequests
  FreshDates = TRUE
  MaxRuns = 2  MaxIngests = 1  MaxFaults = 1
INVARIANTS TypeOK LatestIsComplete ListingsStayDownloadable PublishedMeansComplete
SYMMETRY MCSymmetry
