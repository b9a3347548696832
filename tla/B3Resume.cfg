SPECIFICATION LiveSpec
CONSTANTS
  NoCheckpoint = NoCheckpoint
  Ranges <- MCRanges
  Weekend <- MCWeekend
  YearOf <- MCYearOf
  MaxFaults = 1
INVARIANTS TypeOK ResumeSkipsOnlyFinished DbMaxIsLastFinishedDay CommittedDaysNotRefetched NoResumeLeavesNoGap
PROPERTIES ImplementsResumableLoad JobEnds EveryRangeFinished
