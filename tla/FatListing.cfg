SPECIFICATION ListingSpec
CONSTANTS
  NameLength = 2
  ExtLength = 1
  MaxComponent = 5
  Capital <- MCCapital
  Slots = 3
  Ring = 2
  Caller = {c1, c2}
  Letter <- MCLetter
  Path <- MCPath
  Count = {1, 4}
  Deleted = "x"
INVARIANTS
  ListedOpens
  NamesApart
SYMMETRY Callers
CHECK_DEADLOCK FALSE
