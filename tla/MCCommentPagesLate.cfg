SPECIFICATION Spec
CONSTANTS
  Ids <- MCOwnIds
  PageSize = 2
  MaxPages = 3
  Horizon = 1
  Tokens = {t1, t2}
  Foreign <- MCForeign
  NoCursor = NoCursor
  NoComment = NoComment
INVARIANT
  LateStaysOut
