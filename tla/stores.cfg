SPECIFICATION Spec
CONSTANTS
  top = top
  suit = suit
  Variants = {top, suit}
  Skus = {x, y}
  Shops = {a, b}
  Combos = {suit}
  ComponentOf <- MadeOfTop
  Figures = {0, 1}
  Syncs = {f}
  Nothing = Nothing
  MaxReads = 3
  MaxEpochs = 3
  Shoppers = {w1, w2}
  Carts = {a1, a2}
  Buckets = {"client"}
  ChainOf <- OneBucket
  AttemptWindow <- TwoInstants
  MaxAttemptsOf <- TwoAttempts
  DayLength = 2
  MaxOrders = 1
  NoRow = NoRow
  NoWindow = NoWindow
  Unplaced = Unplaced
  LastTick = 2
  sale = sale
  red = red
  Campaigns = {sale, gift}
  Products = {dress}
  Goods = {red}
  Unlisted = Unlisted
  Missing = Missing
  Never = Never
  Windows <- TwoWindows
  LastMoment = 3
  MaxRevision = 2
  Fetches = {g1, g2}
  NoFeed = NoFeed
  CacheTime = 2
  BackoffTime = 1
SYMMETRY Symm
INVARIANTS StoresTypesOK RowsOfActiveShop RowsNamedAsSold NewestStockKept CycleFollowsStock AttemptsBound CeilingHolds OneDiscount FeedShowsPrices
CHECK_DEADLOCK FALSE
