SPECIFICATION Spec
CONSTANTS
  StaticSize = 6
  MaxLogLen = 10
  MaxSize = 12
  ShortReads = FALSE
INVARIANTS
  TypeOK
  UnconsumedResident
  FullyConsumedIsTruthful
  GrowthOnlyForLongEvents
  EndAnnouncedAtEnd
PROPERTY
  PromiseSpec
