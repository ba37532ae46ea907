------------------------------ MODULE MCVoucher -------------------------------
(***************************************************************************)
(* VoucherLedger for TLC.  Slots, carts of orders and amounts are fixed    *)
(* here; a discount shrinks when the cart or the campaign is edited, so    *)
(* that the budget admits a second one only then.                          *)
(***************************************************************************)
EXTENDS VoucherLedger, TLC

CONSTANTS a, b, o1, k1, k2

OwnSlots == [k \in Campaign |-> k]
FirstCart == [o \in Order |-> a]
Amounts == [k \in Campaign |-> [r \in 0..MaxEdits |-> [p \in 0..MaxEdits |-> 2 - ((r + p) % 2)]]]

UsesAtFirst == [k \in Campaign |-> Max(UseCaps)]
BudgetAtFirst == [k \in Campaign |-> Max(BudgetCaps)]

Symm == Permutations(Campaign)

=============================================================================
