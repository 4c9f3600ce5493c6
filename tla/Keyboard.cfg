SPECIFICATION FairSpec
CONSTANTS
  KEY_BUFFER_SIZE = 3
  Keys <- TypingKeys
  scancode_to_ascii <- scancode_to_ascii_table
  scancode_to_ascii_shift <- scancode_to_ascii_shift_table
INVARIANTS TypeOK KeyAfterHasKey NoStuckModifier
PROPERTIES ImplementsQueue ImplementsFairQueue DropsOnlyWhenFull CaseFollowsModifiers
