SPECIFICATION FairSpec
CONSTANTS
  MaxTs = 1
PROPERTIES
  ResultIsOffered
CHECK_DEADLOCK FALSE
