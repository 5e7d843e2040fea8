SPECIFICATION FairSpec
CONSTANTS
  Boards = {left, right}
  Flaky = {left}
  Slots = {s1}
  Dead = Dead
  Deaf = Deaf
  StableScans = 2
  RetryAfter = 1
  ScanEvery = 1
INVARIANT PictureFollows
PROPERTIES Debounced SettlesAgain
