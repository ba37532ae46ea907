SPECIFICATION MCSpec
CONSTANTS
  Claim = {c1, c2}
  Reader = {r1, r2}
  NoClaim = NoClaim
  Supply = 0
  MaxSupply = 1
  Limit = 1
  MaxTime = 1
  Skew = 0
  Margin = 0
  Tx = {t1, t2, t3}
  Carts = {1}
  Revision = 2
  Catalog = 3
  Products = {4}
  Variants = {5, 6}
  Orders = {7}
  Vouchers = {8, 9}
  MaxRow = 9
  NoRequest = NoRequest
SYMMETRY Symm
INVARIANTS CountedSomewhere NoOversell SortedNeverStuck OnlyKnownCircles
PROPERTY LiveFigureCountsAll
