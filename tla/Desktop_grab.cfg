SPECIFICATION Spec
CONSTANTS
  MAX_WINDOWS = 2
  screen_w = 800
  screen_h = 600
  Xs <- IconAndTitle
  Ys <- TitleAndNotepad
  Presses = 4
  Keys <- NoKeys
  KeyCapacity = 0
  BUFFER_SIZE = 4
  INITIAL_LEN = 1
  WELCOME_LEN = 1
  MAX_FILES = 2
  MAX_FILENAME_LEN = 3
  MAX_FILE_SIZE = 3
PROPERTIES DragsGrabbedWindow
