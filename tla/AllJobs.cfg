SPECIFICATION Spec
CONSTANTS
  NoCheckpoint = NoCheckpoint
  p1 = p1  p2 = p2  r1 = r1
  Ranges = {r1}
  Chunks <- MCChunks
  Parts <- MCParts
  Missing <- MCMissing
  Commands <- MCCommands
  MaxFaults = 1
INVARIANTS TypeOK ResumeSkipsOnlySettled ExitZeroMeansSucceeded SessionHoldsOwnRows
PROPERTIES ChunksAreAtomic LoadersImplementLoad
