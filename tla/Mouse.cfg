SPECIFICATION FairSpec
CONSTANTS
  screen_width = 80
  screen_height = 8
  Moves <- MCMoves
  Buttons = {0, 1}
  MaxLost = 2
INVARIANTS TypeOK InStepUntilLoss
PROPERTIES MovesByReports GetsBackInStep
