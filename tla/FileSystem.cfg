SPECIFICATION Spec
CONSTANTS
  MAX_FILES = 3
  MAX_FILENAME_LEN = 3
  MAX_FILE_SIZE = 2
  Names <- MCNames
  Contents <- MCContents
INVARIANTS TypeOK CountMatchesSlots
PROPERTIES ImplementsDirectory
