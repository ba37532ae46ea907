SPECIFICATION Spec
CONSTANTS
  a = a  b = b  o1 = o1  k1 = k1  k2 = k2
  Campaign = {k1, k2}
  Cart = {a, b}
  Order = {o1}
  Staying = {}
  SlotOf <- OwnSlots
  CartOf <- FirstCart
  Worth <- Amounts
  UseCaps = {2}
  BudgetCaps = {1, 3}
  StartUses <- UsesAtFirst
  StartBudget <- BudgetAtFirst
  TTL = 2
  NoAsk = NoAsk
  MaxTime = 2
  MaxEdits = 1
SYMMETRY Symm
INVARIANTS LedgerMatchesRows UseCapHolds BudgetHolds OneQuotePerCart AcceptedCarriesDeclared
PROPERTIES NobodyElseTakesIt NoRollingExpiry
