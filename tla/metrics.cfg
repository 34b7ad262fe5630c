SPECIFICATION Spec
CONSTANTS
  Workers = {w1, w2}
  Buckets = 2
  MaxObservations = 3
  MaxDeaths = 1
  MaxResent = 1
  MaxScrapes = 2
SYMMETRY Symmetry
INVARIANTS
  TypeOK
  StoredCumulative
  ScrapeSkewBounded
  SumCoversCount
  QuietScrapeExact
CHECK_DEADLOCK FALSE
