SPECIFICATION BusySpec
CONSTANTS
  a = a  b = b  o1 = o1  k1 = k1  k2 = k2
  Campaign = {k1}
  Cart = {a, b}
  Order = {}
  Staying = {b}
  SlotOf <- OwnSlots
  CartOf <- FirstCart
  Worth <- Amounts
  UseCaps = {1}
  BudgetCaps = {3}
  StartUses <- UsesAtFirst
  StartBudget <- BudgetAtFirst
  TTL = 2
  NoAsk = NoAsk
  MaxTime = 2
  MaxEdits = 0
PROPERTY AbandonedGivesWay
