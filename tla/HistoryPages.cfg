SPECIFICATION Spec
CONSTANTS
  asset = asset  other = other
  Rows <- MCRows
  Keys = {asset, other}
  Selects <- MCSelects
  Limit = 2
  MaxMoves = 2
  NoCursor = NoCursor  NoReq = NoReq  NoReply = NoReply
INVARIANTS TypeOK ShownBelongsToKey PagesDescend NothingSkipped SpinnerMeansRequest
CHECK_DEADLOCK FALSE
