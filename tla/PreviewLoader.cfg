CONSTANTS
  o1 = o1
  o2 = o2
  o3 = o3
  p1 = p1
  p2 = p2
  Owners = {o1, o2, o3}
  Paths = {p1}
  NoPath = NoPath
  Capacity = 2
  MaxRequests = 2
  MaxJunk = 1
  MaxChanges = 3
SPECIFICATION FairLoaderSpec
CHECK_DEADLOCK FALSE
INVARIANTS PreviewMatchesSelection WaitingIsNotInVain
PROPERTY EveryRequestIsAnswered
