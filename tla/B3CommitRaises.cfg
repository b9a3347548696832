SPECIFICATION Spec
CONSTANTS
  NoCheckpoint = NoCheckpoint
  Ranges <- MCRanges
  Weekend <- MCWeekend
  YearOf <- MCYearOf
  MaxFaults = 1
INVARIANTS FailedDayNotClaimed
