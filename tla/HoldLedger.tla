----------------------------- MODULE HoldLedger -----------------------------
(***************************************************************************)
(* What the capacity ledger promises, told without requests, crashes or    *)
(* searches (ADR 0014 sections 4, 8 and 10).  Each line of an order is a   *)
(* claim on units; `remote` says whether Pancake has the order.  A claim   *)
(* counts while it is held, is committed only when the Pancake order       *)
(* exists, and is given back only when it does not; an order of which any  *)
(* claim was given back never comes to exist.                              *)
(***************************************************************************)

CONSTANTS Order, Variant

VARIABLES claim,   \* claim[o][v]: the claim of order o on line v
          remote   \* remote[o]: Pancake has order o

vars == <<claim, remote>>

ClaimState == {"none", "held", "committed", "released"}

\* Claims and remote orders keep their types.
TypeOK == /\ claim \in [Order -> [Variant -> ClaimState]]
          /\ remote \in [Order -> BOOLEAN]

Init == /\ claim = [o \in Order |-> [v \in Variant |-> "none"]]
        /\ remote = [o \in Order |-> FALSE]

\* All lines of one attempt are claimed at once, or none.
Reserve(o) ==
  /\ ~remote[o]
  /\ \A v \in Variant : claim[o][v] = "none" /\ claim'[o][v] \in {"none", "held"}
  /\ \E v \in Variant : claim'[o][v] = "held"
  /\ remote'[o] = remote[o]

\* The Pancake order comes to exist, with all its claims still counting.
Land(o) ==
  /\ ~remote[o]
  /\ \E v \in Variant : claim[o][v] = "held"
  /\ \A v \in Variant : claim[o][v] \in {"none", "held"}
  /\ claim'[o] = claim[o]
  /\ remote'[o]

Settle(o, to) ==
  /\ \A v \in Variant : \/ claim'[o][v] = claim[o][v]
                        \/ claim[o][v] = "held" /\ claim'[o][v] = to
  /\ remote'[o] = remote[o]

Commit(o) == remote[o] /\ Settle(o, "committed")
Release(o) == ~remote[o] /\ Settle(o, "released")

Next ==
  /\ claim' \in [Order -> [Variant -> ClaimState]]
  /\ remote' \in [Order -> BOOLEAN]
  /\ \A o \in Order : Reserve(o) \/ Land(o) \/ Commit(o) \/ Release(o)

Spec == Init /\ [][Next]_vars

\* The promise: no unit of an existing order was given back, and none is
\* committed for an order that does not exist.
Accounted ==
  \A o \in Order, v \in Variant :
    /\ remote[o] => claim[o][v] # "released"
    /\ ~remote[o] => claim[o][v] # "committed"

=============================================================================
