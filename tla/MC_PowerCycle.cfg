CONSTANTS
  NONE = NONE
  GOOGLE = GOOGLE
  AMANZON = AMANZON
  UNKNOWN = UNKNOWN
  Capacity = 2
  QuickCap = 5
SPECIFICATION FairSpec
INVARIANTS WipeIsEarned WipeIsResumed LayoutFollowsMesh NeverDeaf
PROPERTIES UsesNvCell WipeEnds
