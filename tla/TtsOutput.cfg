CONSTANTS
  Lines <- MCShort
  Other = Other
  Outputs = {"tts_files", "voices"}
  MaxFds = 6
  Types = {0}
  Suffixes = {"pcm"}
  Word = 100000
SPECIFICATION Spec
CHECK_DEADLOCK FALSE
INVARIANT FilesInOutput
