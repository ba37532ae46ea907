------------------------------ MODULE Promotions ------------------------------
(***************************************************************************)
(* Promotion campaigns: drafts, publication, edits and ends, and the       *)
(* revision that stands for the prices in force.                           *)
(*                                                                         *)
(*   promotion-activation-service.ts   the transactions                    *)
(*   promotion-activation.ts           what may be published               *)
(*   promotion-campaign-lifecycle.ts   the status of a campaign            *)
(*   promotion-pricing.ts              which campaigns run, and until when *)
(*   catalog-mirror-repository.ts      variants change products            *)
(*                                                                         *)
(* Every transaction begins by locking the one revision row, so each is a  *)
(* step; the `now` it judges by was read before it waited for that lock.   *)
(* A refusal changes nothing and is no step: among them are the activation *)
(* switch, the freeze of a list-price rollback, names, discounts out of    *)
(* range and base prices.  Of a discount only its window and its targets   *)
(* matter here.  `moved` exists for a property only.                       *)
(***************************************************************************)
EXTENDS Integers, FiniteSets

CONSTANTS Campaigns, Products,
          Goods,         \* variants
          Unlisted,      \* the product of a variant the mirror does not have
          Missing,       \* a campaign that does not exist
          Never,         \* enabledAt or disabledAt is null
          Windows,       \* <<startsAt, endsAt>>; open ends are 0 and End
          LastMoment,    \* bound: the clock stops here
          MaxRevision    \* bound: effective mutations

Moment == 1..LastMoment
End == LastMoment + 1

ASSUME PromotionsAssumption ==
  /\ LastMoment \in Nat \ {0} /\ MaxRevision \in Nat
  /\ Windows \subseteq (0..LastMoment) \X (1..End)
  /\ Products \cap Goods = {} /\ Unlisted \notin Products
  /\ Never \notin Moment

VARIABLES moment, revision,
          campaign,   \* the PromotionCampaign row and its targets
          product,    \* product[v]: the product variant v belongs to
          moved       \* moved[c]: variants that changed products since c was validated

promotionVars == <<moment, revision, campaign, product, moved>>

Scope == SUBSET (Products \cup Goods)
Settings == [from : 0..LastMoment, to : 0..End, targets : Scope]
Campaign == [set : Settings, on : BOOLEAN, enabled : Moment \cup {Never}, disabled : Moment \cup {Never}]

PromotionsTypeOK ==
  /\ moment \in Moment /\ revision \in 0..MaxRevision
  /\ campaign \in [Campaigns -> Campaign \cup {Missing}]
  /\ product \in [Goods -> Products \cup {Unlisted}]
  /\ moved \in [Campaigns -> SUBSET Goods]

PromotionsInit ==
  /\ moment = 1 /\ revision = 0
  /\ campaign = [c \in Campaigns |-> Missing]
  /\ product \in [Goods -> Products \cup {Unlisted}]
  /\ moved = [c \in Campaigns |-> {}]

-----------------------------------------------------------------------------
(* The lifecycle is derived, never stored (deriveCampaignLifecycle).       *)

Exists(c) == campaign[c] # Missing

Status(k, now) ==
  CASE ~k.on /\ k.enabled = Never -> "DRAFT"
    [] ~k.on /\ k.enabled # Never -> "DISABLED"
    [] k.on /\ now < k.set.from -> "SCHEDULED"
    [] k.on /\ now >= k.set.from /\ now >= k.set.to -> "ENDED"
    [] k.on /\ now >= k.set.from /\ now < k.set.to -> "ACTIVE"

(* The enabled interval and the window, both half-open and up to now, have *)
(* met.                                                                    *)
EverActive(k, now) ==
  /\ k.enabled # Never
  /\ k.enabled < k.set.to /\ k.enabled < now
  /\ k.set.from < (IF k.on THEN now ELSE k.disabled)

Covered(targets) == {v \in Goods : v \in targets \/ product[v] \in targets}

Overlap(s, t) == s.from < t.to /\ t.from < s.to

(* A bug: target rows are compared, not the variants behind them.          *)
RivalsByRows(c, set) ==
  {d \in Campaigns \ {c} : /\ Exists(d) /\ campaign[d].on
                           /\ Overlap(campaign[d].set, set)
                           /\ campaign[d].set.targets \cap set.targets # {}}

(* findOverlappingCampaigns.                                               *)
Rivals(c, set) ==
  {d \in Campaigns \ {c} : /\ Exists(d) /\ campaign[d].on
                           /\ Overlap(campaign[d].set, set)
                           /\ Covered(campaign[d].set.targets) \cap Covered(set.targets) # {}}

(* validateEffectiveState: the candidate is judged under the locks of the  *)
(* products and variants it covers.                                        *)
Valid(c, set, now) ==
  /\ set.from < set.to /\ now < set.to
  /\ \A v \in set.targets \cap Goods : product[v] \notin set.targets
  /\ Covered(set.targets) # {}
  /\ Rivals(c, set) = {}

Advance == revision < MaxRevision /\ revision' = revision + 1

-----------------------------------------------------------------------------
(* Drafts.                                                                 *)

Draft(set) == [set |-> set, on |-> FALSE, enabled |-> Never, disabled |-> Never]

(* A target has one row at most and is of the mirror; a window may be      *)
(* anything at rest.                                                       *)
Sketches ==
  {[from |-> w[1], to |-> w[2], targets |-> t] :
     w \in Windows, t \in {t \in Scope : \A v \in t \cap Goods : product[v] # Unlisted}}

CreateDraft(c) ==
  /\ campaign[c] = Missing
  /\ \E set \in Sketches : campaign' = [campaign EXCEPT ![c] = Draft(set)]
  /\ UNCHANGED <<moment, revision, product, moved>>

(* Not effective, so the revision stays.                                   *)
EditDraft(c) ==
  /\ Exists(c)
  /\ \E now \in 1..moment : Status(campaign[c], now) = "DRAFT"
  /\ \E set \in Sketches : campaign' = [campaign EXCEPT ![c] = Draft(set)]
  /\ UNCHANGED <<moment, revision, product, moved>>

(* Whatever the source is, the copy is a draft.                            *)
Copy(c, d) ==
  /\ Exists(c) /\ campaign[d] = Missing
  /\ campaign' = [campaign EXCEPT ![d] = Draft(campaign[c].set)]
  /\ UNCHANGED <<moment, revision, product, moved>>

-----------------------------------------------------------------------------
(* Effective mutations.                                                    *)

(* A draft, or a campaign switched off before it ever ran.                 *)
Publish(c) ==
  \E now \in 1..moment :
    /\ Exists(c)
    /\ \/ Status(campaign[c], now) = "DRAFT"
       \/ Status(campaign[c], now) = "DISABLED" /\ ~EverActive(campaign[c], now)
    /\ Valid(c, campaign[c].set, now)
    /\ campaign' = [campaign EXCEPT ![c].on = TRUE, ![c].enabled = now, ![c].disabled = Never]
    /\ moved' = [moved EXCEPT ![c] = {}]
    /\ Advance
    /\ UNCHANGED <<moment, product>>

Disable(c) ==
  \E now \in 1..moment :
    /\ Exists(c) /\ campaign[c].on
    /\ campaign' = [campaign EXCEPT ![c].on = FALSE, ![c].disabled = now]
    /\ Advance
    /\ UNCHANGED <<moment, product, moved>>

EndEarly(c) ==
  \E now \in 1..moment :
    /\ Exists(c) /\ Status(campaign[c], now) = "ACTIVE"
    /\ campaign' = [campaign EXCEPT ![c].set.to = now]
    /\ Advance
    /\ UNCHANGED <<moment, product, moved>>

(* Only before it begins, and judged like a publication.                   *)
EditScheduled(c) ==
  \E now \in 1..moment, set \in Sketches :
    /\ Exists(c) /\ Status(campaign[c], now) = "SCHEDULED"
    /\ Valid(c, set, now)
    /\ campaign' = [campaign EXCEPT ![c].set = set]
    /\ moved' = [moved EXCEPT ![c] = {}]
    /\ Advance
    /\ UNCHANGED <<moment, product>>

(* Gift campaigns, consents and the freeze of a list-price rollback        *)
(* advance the same revision.                                              *)
OtherMutation ==
  /\ Advance
  /\ UNCHANGED <<moment, campaign, product, moved>>

-----------------------------------------------------------------------------
(* The catalogue and the clock.                                            *)

(* syncSnapshot creates a variant, or finds it under another product.      *)
Reassign(v) ==
  /\ \E p \in Products \ {product[v]} : product' = [product EXCEPT ![v] = p]
  /\ moved' = [c \in Campaigns |-> moved[c] \cup {v}]
  /\ UNCHANGED <<moment, revision, campaign>>

TimeGoesOn ==
  /\ moment < LastMoment
  /\ moment' = moment + 1
  /\ UNCHANGED <<revision, campaign, product, moved>>

PromotionsNext ==
  \/ \E c \in Campaigns :
       \/ CreateDraft(c) \/ EditDraft(c) \/ Publish(c) \/ Disable(c) \/ EndEarly(c) \/ EditScheduled(c)
       \/ \E d \in Campaigns : Copy(c, d)
  \/ OtherMutation
  \/ \E v \in Goods : Reassign(v)
  \/ TimeGoesOn

PromotionsSpec == PromotionsInit /\ [][PromotionsNext]_promotionVars

-----------------------------------------------------------------------------
(* Campaigns never stack: no variant is in two published campaigns with    *)
(* overlapping windows, whatever was published, edited, ended and switched *)
(* off, unless the variant changed products after both were validated,     *)
(* which the revision does not follow (validateEffectiveState,             *)
(* findOverlappingCampaigns).                                              *)
OneDiscount ==
  \A c, d \in {k \in Campaigns : Exists(k) /\ campaign[k].on} :
    c # d /\ Overlap(campaign[c].set, campaign[d].set) =>
      Covered(campaign[c].set.targets) \cap Covered(campaign[d].set.targets) \subseteq moved[c] \cap moved[d]

=============================================================================
