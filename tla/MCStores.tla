------------------------------ MODULE MCStores ------------------------------
(***************************************************************************)
(* Stores that concurrent writers meet on, for TLC: the mirror of the two  *)
(* stock feeds, the rows of the rate limits, and the promotion campaigns,  *)
(* with or without the feed that is made of them.  They share no state, so *)
(* a behaviour is one of a single store, chosen at the start, while the    *)
(* others stand still.                                                     *)
(***************************************************************************)
EXTENDS MirrorFeeds, CheckoutLimits, MerchantFeed, TLC

CONSTANTS top, suit, sale, red

(* A variant, and one that may be a combo made of it.                      *)
MadeOfTop == [c \in Combos |-> top]

(* One bucket, that every attempt consumes: two attempts in two instants.  *)
OneBucket == [c \in Carts |-> <<"client">>]
TwoInstants == [b \in Buckets |-> 2]
TwoAttempts == [b \in Buckets |-> 2]

(* A campaign that is open at both ends, and one of a single moment.       *)
TwoWindows == {<<0, End>>, <<2, 3>>}

(* The feed is fetched while one campaign of one variant comes and goes;   *)
(* two, with any targets and windows, meet in the behaviours without it.   *)
OneSale ==
  \A c \in Campaigns : Exists(c) => c = sale /\ campaign[c].set.targets = {red} /\ campaign[c].set.from = 2

(* Nothing tells the SKUs, the shops, the requests or the fetches apart.   *)
Symm == Permutations(Skus) \cup Permutations(Shops) \cup Permutations(Shoppers) \cup Permutations(Fetches)

VARIABLE which

vars == <<which, mirrorVars, limitVars, promotionVars, feedVars>>

Init ==
  /\ which \in {"mirror", "limits", "promotions", "feed"}
  /\ MirrorInit /\ LimitsInit /\ PromotionsInit /\ FeedInit
  /\ which # "promotions" => product \in [Goods -> Products]

Next ==
  \/ which = "mirror" /\ MirrorNext /\ UNCHANGED <<which, limitVars, promotionVars, feedVars>>
  \/ which = "limits" /\ LimitsNext /\ UNCHANGED <<which, mirrorVars, promotionVars, feedVars>>
  \/ which = "promotions" /\ PromotionsNext /\ UNCHANGED <<which, mirrorVars, limitVars, feedVars>>
  \/ which = "feed" /\ FeedNext /\ OneSale' /\ UNCHANGED <<which, mirrorVars, limitVars>>

Spec == Init /\ [][Next]_vars

-----------------------------------------------------------------------------
(* The values the rows of the mirror, of the limits and of the campaigns,  *)
(* the cached feed and the reads and requests under way may take.          *)
StoresTypesOK == MirrorTypeOK /\ LimitsTypeOK /\ PromotionsTypeOK /\ FeedTypeOK

=============================================================================
