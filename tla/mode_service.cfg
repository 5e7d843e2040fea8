SPECIFICATION Spec
CONSTANTS
  Books = {b1}
  NoBook = NoBook
  Devs = {up, lo}
  Flaky = {lo}
  Commands <- ServiceCommands
  SleepTimeout = 2
  FindTimeout = 2
  BaselineTimeout = 1
  FrameStale = 1
  MaxLag = 1
  Word = 64
INVARIANTS Consistent PresentCoversPerson NoReaderLost
PROPERTIES TimeoutsInOrder
