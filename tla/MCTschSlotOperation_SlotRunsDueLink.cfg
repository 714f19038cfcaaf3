CONSTANTS
  NoLink = NoLink
  LinkIds <- MCLinkIds
  AsnPeriod = 4
  InitSlotframes <- MCInitSlotframes
  InitSize <- MCInitSize
  InitLinks <- MCInitLinks
  Calls <- MCCalls
SPECIFICATION Spec
INVARIANT SlotRunsDueLink
