----------------------------- MODULE MCCheckout -----------------------------
(***************************************************************************)
(* CheckoutProtocol with its invariants, for TLC.  Orders, lines, requests *)
(* and reconciliations are interchangeable: no property names one, and no  *)
(* expression chooses among them.                                          *)
(***************************************************************************)
EXTENDS CheckoutInvariant, TLC

Symm == Permutations(Order) \cup Permutations(Variant)
          \cup Permutations(Worker) \cup Permutations(Reconciler)

=============================================================================
