SPECIFICATION FullSpec
CONSTANTS
  NoCheckpoint = NoCheckpoint
  Ranges <- MCOneRange
  Weekend <- MCWeekend
  YearOf <- MCYearOf
  MaxFaults = 1
INVARIANTS DbMaxIsLastFinishedDay
