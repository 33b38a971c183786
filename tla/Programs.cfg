CONSTANTS
  Discs <- MCNumbers
  Boards <- MCBoards
  Orders <- MCOrders
  COLS = 6
  LINES = 5
  ShapeX = 2
  ShapeY = 1
  Sides <- MCSides
  Deals <- MCDeals
  HSIZE = 4
  n_groups = 2
  Answers = {0, 1, 2, 3, 4}
  MaxRounds = 3
  Columns = 5
  Rows = 4
  FirstXY <- MCFirst
  StepXY <- MCStep
  NCOLS = 2
  NLINES = 2
  MaxArrows = 3
  ScreenCols = 6
  ScreenLines = 5
  width = 3
  height = 2
  Beyond = 5
  Texts <- MCTexts
  Corner <- MCFirst
SPECIFICATION Spec
INVARIANTS TypeOK AnswersAreRight TilesInPlay DemosAgree
CHECK_DEADLOCK FALSE
