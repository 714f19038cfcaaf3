CONSTANTS
  NoLink = NoLink
  LinkIds <- MCLinkIds
  AsnPeriod = 4
  InitSlotframes <- MCInitSlotframes
  InitSize <- MCInitSize
  InitLinks <- MCInitLinks
  Calls <- MCLiveCalls
SPECIFICATION Spec
PROPERTY
  LockEventuallyGranted
