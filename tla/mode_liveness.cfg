SPECIFICATION FairSpec
CONSTANTS
  Books = {b1}
  NoBook = NoBook
  Devs = {lo}
  Flaky = {}
  Commands <- LivenessCommands
  SleepTimeout = 2
  FindTimeout = 2
  BaselineTimeout = 1
  FrameStale = 1
  MaxLag = 1
  Word = 64
PROPERTIES FindEnds BootEnds Wakes
