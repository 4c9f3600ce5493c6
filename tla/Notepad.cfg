SPECIFICATION Spec
CONSTANTS
  BUFFER_SIZE = 7
  INITIAL_LEN = 3
  WELCOME_LEN = 2
  Keys <- MCKeys
  Word = 4096
  width = 40
  height = 84
  Corners <- MCCorners
INVARIANTS TypeOK DrawnIsSaved TextStaysInTextArea PageIsShown
