SPECIFICATION FairSpec
CONSTANTS
  Uris <- MCUris
  First = "p1"
  NULL = NULL
  Layouts <- MCLayouts
  Replies = {"proxied", "error"}
  Faults = {"broken", "memory"}
  Names <- MCNames
INVARIANTS
  DriveTypeOK
  ListingExact
  NamesResolve
  EveryFileFound
  CrashesExplained
  SafeOnceMounted
  EveryEntryFreed
PROPERTY
  ListingEnds
