CONSTANTS
  NoLink = NoLink
  SfSize <- MCSfSize
  AsnPeriod = 12
SPECIFICATION Spec
INVARIANTS
  NextLinkIsEarliest
  NextLinkFollowsPriority
  BackupServesFailover
