CONSTANTS
  Addr = {a, b, c}
  MaxPaths = 3
  LenDiff = 1
  MaxSeqno = 3
  MaxHops = 2
SPECIFICATION Spec
SYMMETRY Symmetry
CONSTRAINT SeqnoBound
INVARIANTS TypeOK PathsDisjoint UpHasPath HopsWithinAdvertised
PROPERTIES SeqnoMonotone AdvertisedFinal
