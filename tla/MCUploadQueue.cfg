\* One photo of the library and one with a file; few events.
SPECIFICATION FairSpec
CONSTANTS
  Items = {l, f}
  Filed = {f}
  NoItem = NoItem
  Budgets <- FewEvents
INVARIANTS
  TypeOK
  NothingLost
  UploadingIsHeld
PROPERTIES
  DrainEnds
