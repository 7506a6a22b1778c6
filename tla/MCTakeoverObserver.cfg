CONSTANTS
  MaxDescribes = 2
  MaxMutates = 2
  MaxOthers = 2
SPECIFICATION FairSpec
PROPERTIES
  OwnWritesAreSeen
  PublishedInOrder
  WritesAreFollowedUp
CHECK_DEADLOCK FALSE
