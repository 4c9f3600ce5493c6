SPECIFICATION FairSpec
CONSTANTS
  MAX_WINDOWS = 2
  screen_w = 800
  screen_h = 600
  Xs <- IconColumn
  Ys <- NotepadRow
  Presses = 2
  Keys <- TextKeys
  KeyCapacity = 2
  BUFFER_SIZE = 4
  INITIAL_LEN = 1
  WELCOME_LEN = 1
  MAX_FILES = 2
  MAX_FILENAME_LEN = 3
  MAX_FILE_SIZE = 3
INVARIANTS DocumentsDistinct
PROPERTIES SavedDocumentsKept TakesEveryKey
