CONSTANTS
  Lines <- MCLines
  Other = Other
  Outputs = {"tts_files", "voices"}
  MaxFds = 6
  Types = {0, 1, 6}
  Suffixes = {"pcm", "mp3"}
  Word = 100000
SPECIFICATION Spec
CHECK_DEADLOCK FALSE
INVARIANTS
  TypeOK
  AskedInOrder
  OtherAudioOnlyUnheard
  LeakBounded
  HeaderDescribesAudio
  CompleteWithoutTrouble
