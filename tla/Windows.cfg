SPECIFICATION Spec
CONSTANTS
  MAX_WINDOWS = 3
  screen_w = 800
  screen_h = 600
  Shapes <- TwoShapes
  DragPositions <- EdgeDrags
INVARIANTS TypeOK FocusedIsTop WindowsConserved TitleBarAboveTaskbar
PROPERTIES ImplementsStack
