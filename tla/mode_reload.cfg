SPECIFICATION Spec
CONSTANTS
  Books = {b1}
  NoBook = NoBook
  Devs = {up, lo}
  Flaky = {lo}
  Commands <- ReloadCommands
  SleepTimeout = 1
  FindTimeout = 1
  BaselineTimeout = 0
  FrameStale = 0
  MaxLag = 0
  Word = 64
INVARIANTS AwakeScans AddSessionOK
PROPERTIES SearchKeepsOrigin FaultLatched StoppedIsQuiet 
