SPECIFICATION FairSpec
CONSTANTS
  Books = {b1}
  None = None
  FindTimeout = 1
  CloseAfter = 1
  MaxOrders = 3
  MaxCrashes = 1
PROPERTIES LastCommandWins TakenIsShown PageCloses
