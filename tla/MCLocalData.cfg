SPECIFICATION LocalSpec
CONSTANTS
  Calls = {c1, c2}
  Dids = {d1}
  Images = {i1, i2}
  Large = {i1}
  Size <- UnitSize
  Budget = 2
  Chats = {m1, m2}
  MaxEntries = 1
  Faulty = TRUE
  Overlapping = TRUE
SYMMETRY Symmetry
INVARIANTS
  CacheFits
  NoUpdateLost
  ClearedIsGone
