SPECIFICATION Spec
CONSTANTS
  Currency <- MCCurrency
  Ingest <- MCIngest
  Dto <- MCDto
  OpeningRates <- MCOpeningRates
  Run = {n1, n2}
  Position <- MCPosition
  Holding <- MCHolding
  Lag = {0, 1}
  Day = 1
  MaxAge = 1
  MaxTime = 2
SYMMETRY Symmetry
INVARIANTS
  RateGapOnlyBetweenStatements
  OneOpenRate
  InstantHasOneRate
  RunsAreBooked
  NightlyRunsTelescope
  ExposureMatchesRevaluation
PROPERTIES
  HistoryFixedBeforeValidFrom
CHECK_DEADLOCK FALSE
