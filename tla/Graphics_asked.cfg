SPECIFICATION Spec
CONSTANTS
  Word = 64
  Byte = 8
  BACKBUFFER_PIXELS = 6
  Modes <- MCModes
  FALLBACK <- MCFallback
  FONT_WIDTH = 2
  FONT_HEIGHT = 1
  Glyph <- MCGlyph
  Coordinates <- MCCoordinates
  Lengths <- MCLengths
  Colors <- MCColors
  Texts <- MCTexts
  ICON_WIDTH = 3
  Names <- MCNames
  Ends <- MCEnds
  MaxCalls = 1
PROPERTIES LabelsAndGradientsAsAsked
CHECK_DEADLOCK FALSE
