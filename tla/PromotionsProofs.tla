--------------------------- MODULE PromotionsProofs ---------------------------
(***************************************************************************)
(* Proofs about promotions and the feed that is made of them: the types of *)
(* the rows, that published campaigns never stack, and that a body of the  *)
(* feed shows prices that were in force while it was asked for.            *)
(***************************************************************************)
EXTENDS MerchantFeed, WellFoundedInduction, TLAPS

(* Both settings share the variants v, within meeting windows.             *)
Stack(s, t, v) == Overlap(s, t) /\ v \in Covered(s.targets) \cap Covered(t.targets)

LEMMA SettingsType ==
  ASSUME PromotionsAssumption, NEW set \in Sketches
  PROVE  set \in Settings
BY DEF PromotionsAssumption, Sketches, Settings, Moment, End, Scope

LEMMA DraftType ==
  ASSUME NEW set \in Settings
  PROVE  Draft(set) \in Campaign
BY DEF Draft, Campaign

(* Sharing variants within meeting windows is symmetric.                   *)
LEMMA StackSymmetric ==
  ASSUME NEW s, NEW t, NEW v, Stack(s, t, v)
  PROVE  Stack(t, s, v)
BY DEF Stack, Overlap

(* What validateEffectiveState rules out: a published rival.               *)
LEMMA ValidMeansNoRival ==
  ASSUME NEW c \in Campaigns, NEW set, NEW now, Valid(c, set, now),
         NEW d \in Campaigns, d # c, Exists(d), campaign[d].on, NEW v
  PROVE  ~Stack(set, campaign[d].set, v)
<1> SUFFICES ASSUME Stack(set, campaign[d].set, v) PROVE FALSE
  OBVIOUS
<1>1. Overlap(campaign[d].set, set)
  BY DEF Stack, Overlap
<1>2. Covered(campaign[d].set.targets) \cap Covered(set.targets) # {}
  BY DEF Stack
<1>3. d \in Rivals(c, set)
  BY <1>1, <1>2 DEF Rivals
<1> QED BY <1>3 DEF Valid

(* The property, variant by variant.                                       *)
Apart ==
  \A c, d \in Campaigns, v \in Goods :
    /\ c # d /\ Exists(c) /\ Exists(d) /\ campaign[c].on /\ campaign[d].on
    /\ Stack(campaign[c].set, campaign[d].set, v)
    => v \in moved[c] /\ v \in moved[d]

LEMMA ApartIsOneDiscount == Apart <=> OneDiscount
<1>1. ASSUME Apart PROVE OneDiscount
  BY <1>1 DEF Apart, OneDiscount, Stack, Covered
<1>2. ASSUME OneDiscount PROVE Apart
  BY <1>2 DEF Apart, OneDiscount, Stack, Covered
<1> QED BY <1>1, <1>2

-----------------------------------------------------------------------------
LEMMA TypeInit == PromotionsAssumption /\ PromotionsInit => PromotionsTypeOK
BY DEF PromotionsAssumption, PromotionsInit, PromotionsTypeOK, Moment

(* Each row that a step writes has its type.                               *)
LEMMA TypeStep ==
  ASSUME PromotionsAssumption, PromotionsTypeOK, [PromotionsNext]_promotionVars
  PROVE  PromotionsTypeOK'
<1>0. /\ 1..moment \subseteq Moment /\ 1..moment \subseteq 0..End
      /\ LastMoment \in Nat \ {0} /\ MaxRevision \in Nat
  BY DEF PromotionsAssumption, PromotionsTypeOK, Moment, End
<1>1. ASSUME NEW c \in Campaigns, CreateDraft(c) \/ EditDraft(c) PROVE PromotionsTypeOK'
  <2>1. PICK set \in Sketches : campaign' = [campaign EXCEPT ![c] = Draft(set)]
    BY <1>1 DEF CreateDraft, EditDraft
  <2>2. Draft(set) \in Campaign
    BY SettingsType, DraftType
  <2> QED BY <1>1, <2>1, <2>2 DEF PromotionsTypeOK, CreateDraft, EditDraft
<1>2. ASSUME NEW c \in Campaigns, NEW d \in Campaigns, Copy(c, d) PROVE PromotionsTypeOK'
  <2>1. campaign[c] \in Campaign
    BY <1>2 DEF Copy, Exists, PromotionsTypeOK
  <2>2. Draft(campaign[c].set) \in Campaign
    BY <2>1, DraftType DEF Campaign
  <2> QED BY <1>2, <2>2 DEF PromotionsTypeOK, Copy
<1>3. ASSUME NEW c \in Campaigns, Publish(c) PROVE PromotionsTypeOK'
  <2>1. campaign[c] \in Campaign
    BY <1>3 DEF Publish, Exists, PromotionsTypeOK
  <2>2. PICK now \in 1..moment :
          campaign' = [campaign EXCEPT ![c].on = TRUE, ![c].enabled = now, ![c].disabled = Never]
    BY <1>3 DEF Publish
  <2>3. campaign'[c] \in Campaign
    BY <1>0, <2>1, <2>2 DEF Campaign, PromotionsTypeOK
  <2>4. campaign' \in [Campaigns -> Campaign \cup {Missing}]
    BY <2>2, <2>3 DEF PromotionsTypeOK
  <2> QED BY <1>0, <1>3, <2>4 DEF PromotionsTypeOK, Publish, Advance
<1>4. ASSUME NEW c \in Campaigns, Disable(c) PROVE PromotionsTypeOK'
  <2>1. campaign[c] \in Campaign
    BY <1>4 DEF Disable, Exists, PromotionsTypeOK
  <2>2. PICK now \in 1..moment : campaign' = [campaign EXCEPT ![c].on = FALSE, ![c].disabled = now]
    BY <1>4 DEF Disable
  <2>3. campaign'[c] \in Campaign
    BY <1>0, <2>1, <2>2 DEF Campaign, PromotionsTypeOK
  <2>4. campaign' \in [Campaigns -> Campaign \cup {Missing}]
    BY <2>2, <2>3 DEF PromotionsTypeOK
  <2>5. revision < MaxRevision /\ revision' = revision + 1 /\ UNCHANGED <<moment, product, moved>>
    BY <1>4 DEF Disable, Advance
  <2> QED BY <1>0, <2>4, <2>5 DEF PromotionsTypeOK
<1>5. ASSUME NEW c \in Campaigns, EndEarly(c) PROVE PromotionsTypeOK'
  <2>1. campaign[c] \in Campaign
    BY <1>5 DEF EndEarly, Exists, PromotionsTypeOK
  <2>2. PICK now \in 1..moment : campaign' = [campaign EXCEPT ![c].set.to = now]
    BY <1>5 DEF EndEarly
  <2>3. campaign'[c] \in Campaign
    BY <1>0, <2>1, <2>2 DEF Campaign, Settings, PromotionsTypeOK
  <2>4. campaign' \in [Campaigns -> Campaign \cup {Missing}]
    BY <2>2, <2>3 DEF PromotionsTypeOK
  <2> QED BY <1>0, <1>5, <2>4 DEF PromotionsTypeOK, EndEarly, Advance
<1>6. ASSUME NEW c \in Campaigns, EditScheduled(c) PROVE PromotionsTypeOK'
  <2>1. campaign[c] \in Campaign
    BY <1>6 DEF EditScheduled, Exists, PromotionsTypeOK
  <2>2. PICK set \in Sketches : campaign' = [campaign EXCEPT ![c].set = set]
    BY <1>6 DEF EditScheduled
  <2>3. set \in Settings
    BY SettingsType
  <2>4. campaign'[c] \in Campaign
    BY <2>1, <2>2, <2>3 DEF Campaign, PromotionsTypeOK
  <2>5. campaign' \in [Campaigns -> Campaign \cup {Missing}]
    BY <2>2, <2>4 DEF PromotionsTypeOK
  <2> QED BY <1>0, <1>6, <2>5 DEF PromotionsTypeOK, EditScheduled, Advance
<1>7. ASSUME OtherMutation PROVE PromotionsTypeOK'
  BY <1>0, <1>7 DEF PromotionsTypeOK, OtherMutation, Advance
<1>8. ASSUME NEW v \in Goods, Reassign(v) PROVE PromotionsTypeOK'
  BY <1>8 DEF PromotionsTypeOK, Reassign
<1>9. ASSUME TimeGoesOn PROVE PromotionsTypeOK'
  BY <1>0, <1>9 DEF PromotionsTypeOK, TimeGoesOn, Moment
<1>10. ASSUME UNCHANGED promotionVars PROVE PromotionsTypeOK'
  BY <1>10 DEF PromotionsTypeOK, promotionVars
<1> QED BY <1>1, <1>2, <1>3, <1>4, <1>5, <1>6, <1>7, <1>8, <1>9, <1>10 DEF PromotionsNext

-----------------------------------------------------------------------------
(* A step that publishes nothing, and widens no published window, keeps    *)
(* them apart: whatever stacks afterwards stacked before.                  *)
LEMMA ShrinkKeepsApart ==
  ASSUME PromotionsTypeOK, PromotionsTypeOK', Apart, UNCHANGED <<product, moved>>,
         \A d \in Campaigns : Exists(d)' /\ campaign'[d].on =>
           /\ Exists(d) /\ campaign[d].on
           /\ campaign'[d].set.from = campaign[d].set.from
           /\ campaign'[d].set.to <= campaign[d].set.to
           /\ campaign'[d].set.targets = campaign[d].set.targets
  PROVE  Apart'
<1> SUFFICES ASSUME NEW c \in Campaigns, NEW d \in Campaigns, NEW v \in Goods,
                    c # d, Exists(c)', Exists(d)', campaign'[c].on, campaign'[d].on,
                    Stack(campaign[c].set, campaign[d].set, v)'
             PROVE  v \in moved[c] /\ v \in moved[d]
  BY DEF Apart
<1>1. /\ campaign[c] \in Campaign /\ campaign'[c] \in Campaign
      /\ campaign[d] \in Campaign /\ campaign'[d] \in Campaign
  BY DEF PromotionsTypeOK, Exists
<1>2. Overlap(campaign[c].set, campaign[d].set)
  <2>1. Overlap(campaign[c].set, campaign[d].set)'
    BY DEF Stack
  <2>2. /\ campaign[c].set \in Settings /\ campaign'[c].set \in Settings
        /\ campaign[d].set \in Settings /\ campaign'[d].set \in Settings
    BY <1>1 DEF Campaign
  <2> QED BY <2>1, <2>2 DEF Overlap, Settings, Moment
<1>3. v \in Covered(campaign[c].set.targets) \cap Covered(campaign[d].set.targets)
  BY DEF Stack, Covered
<1>4. Stack(campaign[c].set, campaign[d].set, v)
  BY <1>2, <1>3 DEF Stack
<1> QED BY <1>4 DEF Apart

(* A step that publishes c, or edits it while it is published, found no    *)
(* rival of what c becomes.                                                *)
LEMMA ValidKeepsApart ==
  ASSUME Apart, NEW c \in Campaigns, NEW set, NEW now, Valid(c, set, now),
         campaign'[c].set = set, moved' = [moved EXCEPT ![c] = {}], UNCHANGED product,
         \A d \in Campaigns \ {c} : campaign'[d] = campaign[d],
         PromotionsTypeOK
  PROVE  Apart'
<1> SUFFICES ASSUME NEW a \in Campaigns, NEW b \in Campaigns, NEW v \in Goods,
                    a # b, Exists(a)', Exists(b)', campaign'[a].on, campaign'[b].on,
                    Stack(campaign[a].set, campaign[b].set, v)'
             PROVE  v \in moved'[a] /\ v \in moved'[b]
  BY DEF Apart
<1>1. CASE a = c
  <2>1. b # c /\ campaign'[b] = campaign[b] /\ Exists(b) /\ campaign[b].on
    BY <1>1 DEF Exists
  <2>2. Stack(set, campaign[b].set, v)
    BY <1>1, <2>1 DEF Stack, Covered, Overlap
  <2> QED BY <2>1, <2>2, ValidMeansNoRival
<1>2. CASE b = c
  <2>1. a # c /\ campaign'[a] = campaign[a] /\ Exists(a) /\ campaign[a].on
    BY <1>2 DEF Exists
  <2>2. Stack(campaign[a].set, set, v)
    BY <1>2, <2>1 DEF Stack, Covered, Overlap
  <2> QED BY <2>1, <2>2, StackSymmetric, ValidMeansNoRival
<1>3. CASE a # c /\ b # c
  <2>1. /\ campaign'[a] = campaign[a] /\ campaign'[b] = campaign[b]
        /\ Exists(a) /\ Exists(b) /\ campaign[a].on /\ campaign[b].on
    BY <1>3 DEF Exists
  <2>2. Stack(campaign[a].set, campaign[b].set, v)
    BY <2>1 DEF Stack, Covered, Overlap
  <2>3. v \in moved[a] /\ v \in moved[b]
    BY <2>1, <2>2 DEF Apart
  <2> QED BY <1>3, <2>3 DEF PromotionsTypeOK
<1> QED BY <1>1, <1>2, <1>3

LEMMA ApartStep ==
  ASSUME PromotionsAssumption, PromotionsTypeOK, PromotionsTypeOK', Apart, [PromotionsNext]_promotionVars
  PROVE  Apart'
<1>1. ASSUME NEW c \in Campaigns, CreateDraft(c) \/ EditDraft(c) PROVE Apart'
  <2>1. PICK set \in Sketches : campaign' = [campaign EXCEPT ![c] = Draft(set)]
    BY <1>1 DEF CreateDraft, EditDraft
  <2>2. ~campaign'[c].on /\ \A d \in Campaigns \ {c} : campaign'[d] = campaign[d]
    BY <2>1 DEF PromotionsTypeOK, Draft
  <2>3. UNCHANGED <<product, moved>>
    BY <1>1 DEF CreateDraft, EditDraft
  <2>4. \A d \in Campaigns : Exists(d)' /\ campaign'[d].on =>
          d # c /\ campaign'[d] = campaign[d] /\ Exists(d) /\ campaign[d] \in Campaign
    BY <2>2 DEF Exists, PromotionsTypeOK
  <2> QED BY <2>3, <2>4, ShrinkKeepsApart DEF Campaign, Settings, Moment
<1>2. ASSUME NEW c \in Campaigns, NEW d \in Campaigns, Copy(c, d) PROVE Apart'
  <2>1. ~campaign'[d].on /\ \A a \in Campaigns \ {d} : campaign'[a] = campaign[a]
    BY <1>2 DEF Copy, PromotionsTypeOK, Draft
  <2>2. \A a \in Campaigns : Exists(a)' /\ campaign'[a].on =>
          a # d /\ campaign'[a] = campaign[a] /\ Exists(a) /\ campaign[a] \in Campaign
    BY <2>1 DEF Exists, PromotionsTypeOK
  <2>3. UNCHANGED <<product, moved>>
    BY <1>2 DEF Copy
  <2> QED BY <2>2, <2>3, ShrinkKeepsApart DEF Campaign, Settings, Moment
<1>3. ASSUME NEW c \in Campaigns, Publish(c) PROVE Apart'
  <2>1. PICK now \in 1..moment :
          /\ Exists(c) /\ Valid(c, campaign[c].set, now)
          /\ campaign' = [campaign EXCEPT ![c].on = TRUE, ![c].enabled = now, ![c].disabled = Never]
    BY <1>3 DEF Publish
  <2>2. campaign[c] \in Campaign
    BY <2>1 DEF Exists, PromotionsTypeOK
  <2>3. campaign'[c].set = campaign[c].set /\ \A d \in Campaigns \ {c} : campaign'[d] = campaign[d]
    BY <2>1, <2>2 DEF PromotionsTypeOK, Campaign
  <2>4. moved' = [moved EXCEPT ![c] = {}] /\ UNCHANGED product
    BY <1>3 DEF Publish
  <2> QED BY <2>1, <2>3, <2>4, ValidKeepsApart
<1>4. ASSUME NEW c \in Campaigns, Disable(c) PROVE Apart'
  <2>1. PICK now \in 1..moment : campaign' = [campaign EXCEPT ![c].on = FALSE, ![c].disabled = now]
    BY <1>4 DEF Disable
  <2>2. campaign[c] \in Campaign
    BY <1>4 DEF Disable, Exists, PromotionsTypeOK
  <2>3. ~campaign'[c].on /\ \A d \in Campaigns \ {c} : campaign'[d] = campaign[d]
    BY <2>1, <2>2 DEF PromotionsTypeOK, Campaign
  <2>4. \A d \in Campaigns : Exists(d)' /\ campaign'[d].on =>
          d # c /\ campaign'[d] = campaign[d] /\ Exists(d) /\ campaign[d] \in Campaign
    BY <2>3 DEF Exists, PromotionsTypeOK
  <2>5. UNCHANGED <<product, moved>>
    BY <1>4 DEF Disable
  <2> QED BY <2>4, <2>5, ShrinkKeepsApart DEF Campaign, Settings, Moment
<1>5. ASSUME NEW c \in Campaigns, EndEarly(c) PROVE Apart'
  <2>1. PICK now \in 1..moment :
          /\ Exists(c) /\ Status(campaign[c], now) = "ACTIVE"
          /\ campaign' = [campaign EXCEPT ![c].set.to = now]
    BY <1>5 DEF EndEarly
  <2>2. campaign[c] \in Campaign
    BY <2>1 DEF Exists, PromotionsTypeOK
  <2>3. campaign[c].on /\ now < campaign[c].set.to
    BY <2>1, <2>2 DEF Status, Campaign, Settings, Moment, PromotionsTypeOK
  <2>4. /\ campaign'[c].set.from = campaign[c].set.from /\ campaign'[c].set.to = now
        /\ campaign'[c].set.targets = campaign[c].set.targets
    BY <2>1, <2>2 DEF PromotionsTypeOK, Campaign, Settings
  <2>5. \A d \in Campaigns : d # c => campaign'[d] = campaign[d]
    BY <2>1 DEF PromotionsTypeOK
  <2>6. \A d \in Campaigns : Exists(d)' => Exists(d)
    BY <2>1, <2>5 DEF Exists
  <2>7. UNCHANGED <<product, moved>>
    BY <1>5 DEF EndEarly
  <2>8. now <= campaign[c].set.to
    BY <2>2, <2>3 DEF Campaign, Settings, PromotionsTypeOK, Moment
  <2>9. \A d \in Campaigns : Exists(d) => campaign[d].set.to <= campaign[d].set.to
    BY DEF Exists, PromotionsTypeOK, Campaign, Settings
  <2> QED BY <2>1, <2>3, <2>4, <2>5, <2>6, <2>7, <2>8, <2>9, ShrinkKeepsApart
<1>6. ASSUME NEW c \in Campaigns, EditScheduled(c) PROVE Apart'
  <2>1. PICK now \in 1..moment, set \in Sketches :
          /\ Exists(c) /\ Valid(c, set, now)
          /\ campaign' = [campaign EXCEPT ![c].set = set]
    BY <1>6 DEF EditScheduled
  <2>2. campaign[c] \in Campaign
    BY <2>1 DEF Exists, PromotionsTypeOK
  <2>3. campaign'[c].set = set /\ \A d \in Campaigns \ {c} : campaign'[d] = campaign[d]
    BY <2>1, <2>2 DEF PromotionsTypeOK, Campaign
  <2>4. moved' = [moved EXCEPT ![c] = {}] /\ UNCHANGED product
    BY <1>6 DEF EditScheduled
  <2> QED BY <2>1, <2>3, <2>4, ValidKeepsApart
<1>7. ASSUME OtherMutation \/ TimeGoesOn \/ UNCHANGED promotionVars PROVE Apart'
  BY <1>7 DEF OtherMutation, TimeGoesOn, promotionVars, Apart, Stack, Overlap, Covered, Exists
<1>8. ASSUME NEW g \in Goods, Reassign(g) PROVE Apart'
  <2>1. /\ \A v \in Goods \ {g} : product'[v] = product[v]
        /\ \A c \in Campaigns : moved'[c] = moved[c] \cup {g}
        /\ campaign' = campaign
    BY <1>8 DEF Reassign, PromotionsTypeOK
  <2> SUFFICES ASSUME NEW c \in Campaigns, NEW d \in Campaigns, NEW v \in Goods,
                      c # d, Exists(c)', Exists(d)', campaign'[c].on, campaign'[d].on,
                      Stack(campaign[c].set, campaign[d].set, v)', v # g
               PROVE  v \in moved[c] /\ v \in moved[d]
    BY <2>1 DEF Apart
  <2>2. Stack(campaign[c].set, campaign[d].set, v)
    BY <2>1 DEF Stack, Covered, Overlap
  <2> QED BY <2>1, <2>2 DEF Apart, Exists
<1> QED BY <1>1, <1>2, <1>3, <1>4, <1>5, <1>6, <1>7, <1>8 DEF PromotionsNext

-----------------------------------------------------------------------------
(* Published campaigns never stack, whatever the number of campaigns,      *)
(* variants and windows: every publication and edit is judged against all  *)
(* the others under one lock, and nothing else widens a published campaign *)
(* (validateEffectiveState, findOverlappingCampaigns).                     *)
THEOREM CampaignsNeverStack ==
  ASSUME PromotionsAssumption
  PROVE  PromotionsSpec => []OneDiscount
<1>1. PromotionsInit => PromotionsTypeOK /\ Apart
  <2>1. PromotionsInit => Apart
    BY DEF PromotionsInit, Apart, Exists
  <2> QED BY <2>1, TypeInit
<1>2. PromotionsTypeOK /\ Apart /\ [PromotionsNext]_promotionVars => (PromotionsTypeOK /\ Apart)'
  BY TypeStep, ApartStep
<1>3. PromotionsTypeOK /\ Apart => OneDiscount
  BY ApartIsOneDiscount
<1> QED BY <1>1, <1>2, <1>3, PTL DEF PromotionsSpec

-----------------------------------------------------------------------------
(* The feed (MerchantFeed): its types.                                     *)

Asked == [pc : {"idle", "asking", "deciding", "joined", "waiting", "woken", "answered"},
          revision : 0..MaxRevision, shows : SUBSET Campaigns, seen : SUBSET SUBSET Campaigns]

FeedTyped == PromotionsTypeOK /\ FeedTypeOK

LEMMA LeastAhead ==
  ASSUME NEW S \in SUBSET Nat, S # {}
  PROVE  \E n \in S : \A m \in S : n <= m
<1> DEFINE R == OpToRel(<, Nat)
<1>1. IsWellFoundedOn(R, Nat)
  BY NatLessThanWellFounded
<1> HIDE DEF R
<1>2. PICK n \in S : \A m \in S : <<m, n>> \notin R
  BY <1>1, WFMin
<1>3. \A m \in S : ~(m < n)
  BY <1>2 DEF R, OpToRel
<1> QED BY <1>3

(* The times of the transitions that lie ahead, and the first of them.     *)
LEMMA TransitionAhead ==
  ASSUME PromotionsAssumption, NEW book \in [Campaigns -> Campaign \cup {Missing}], NEW at \in Moment
  PROVE  /\ NextTransition(book, at) \in Moment \cup {End}
         /\ \A c \in On(book) :
              /\ book[c].set.from > at => NextTransition(book, at) <= book[c].set.from
              /\ book[c].set.to > at => NextTransition(book, at) <= book[c].set.to
<1> DEFINE ahead == {n \in UNION {{book[c].set.from, book[c].set.to} : c \in On(book)} : n > at}
           first == NextTransition(book, at)
<1>0. LastMoment \in Nat \ {0} /\ Moment = 1..LastMoment /\ End = LastMoment + 1
  BY DEF PromotionsAssumption, Moment, End
<1>1. \A c \in On(book) : book[c].set.from \in 0..LastMoment /\ book[c].set.to \in 0..End
  BY DEF On, Campaign, Settings
<1>2. \A n \in ahead : n \in Moment \cup {End} /\ n \in Nat
  <2> SUFFICES ASSUME NEW c \in On(book), NEW n \in {book[c].set.from, book[c].set.to}, n > at
               PROVE  n \in Moment \cup {End} /\ n \in Nat
    OBVIOUS
  <2> QED BY <1>0, <1>1
<1>3. CASE ahead = {}
  <2>1. first = End
    BY <1>3 DEF NextTransition
  <2>2. \A c \in On(book) : ~(book[c].set.from > at) /\ ~(book[c].set.to > at)
    BY <1>3
  <2> QED BY <2>1, <2>2
<1>4. CASE ahead # {}
  <2>1. first = CHOOSE n \in ahead : \A k \in ahead : n <= k
    BY <1>4 DEF NextTransition
  <2>2. \A c \in On(book) :
          /\ book[c].set.from > at => book[c].set.from \in ahead
          /\ book[c].set.to > at => book[c].set.to \in ahead
    OBVIOUS
  <2> HIDE DEF ahead, first
  <2>3. \E n \in ahead : \A k \in ahead : n <= k
    <3>1. ahead \in SUBSET Nat
      BY <1>2
    <3> QED BY <1>4, <3>1, LeastAhead
  <2>4. first \in ahead /\ \A k \in ahead : first <= k
    BY <2>1, <2>3
  <2>5. first \in Moment \cup {End}
    BY <1>2, <2>4
  <2>6. NextTransition(book, at) = first
    BY DEF first
  <2> QED BY <2>2, <2>4, <2>5, <2>6
<1> QED BY <1>3, <1>4

(* Between two transitions the same campaigns run.                         *)
LEMMA SameTill ==
  ASSUME PromotionsAssumption, NEW book \in [Campaigns -> Campaign \cup {Missing}], NEW at \in Moment,
         NEW m \in Moment, at <= m, m < NextTransition(book, at)
  PROVE  Running(book, m) = Running(book, at)
<1> DEFINE first == NextTransition(book, at)
<1>0. LastMoment \in Nat \ {0} /\ Moment = 1..LastMoment /\ End = LastMoment + 1
  BY DEF PromotionsAssumption, Moment, End
<1>1. /\ first \in Moment \cup {End}
      /\ \A c \in On(book) :
           /\ book[c].set.from > at => first <= book[c].set.from
           /\ book[c].set.to > at => first <= book[c].set.to
  BY TransitionAhead
<1>2. \A c \in On(book) : book[c].set.from \in 0..LastMoment /\ book[c].set.to \in 0..End
  BY DEF On, Campaign, Settings
<1>3. m < first
  OBVIOUS
<1> HIDE DEF first
<1>4. \A c \in On(book) : /\ book[c].set.from <= m <=> book[c].set.from <= at
                          /\ m < book[c].set.to <=> at < book[c].set.to
  BY <1>0, <1>1, <1>2, <1>3
<1> QED BY <1>4 DEF Running

LEMMA RunningType == \A book, m : Running(book, m) \in SUBSET Campaigns
BY DEF Running, On

LEMMA NotAskingType == PromotionsAssumption => NotAsking \in Asked /\ NotAsking.pc = "idle"
BY DEF PromotionsAssumption, NotAsking, Asked

LEMMA FetchMoves ==
  ASSUME FeedTyped, NEW w \in Fetches, NEW q, q \in Asked, fetch' = [fetch EXCEPT ![w] = q]
  PROVE  /\ fetch' \in [Fetches -> Asked] /\ fetch'[w] = q
         /\ \A v \in Fetches \ {w} : fetch'[v] = fetch[v]
<1>1. fetch \in [Fetches -> Asked]
  BY DEF FeedTyped, FeedTypeOK, Asked
<1> QED BY <1>1

(* What a fetch of its own does to its record.                             *)
LEMMA OwnStep ==
  ASSUME PromotionsAssumption, FeedTyped, NEW w \in Fetches,
         Get(w) \/ ReadRevision(w) \/ RevisionFails(w) \/ BackedOff(w) \/ Hit(w) \/ Sent(w)
  PROVE  \E q \in Asked :
           /\ fetch' = [fetch EXCEPT ![w] = q]
           /\ \/ q.pc = "idle" /\ q = NotAsking
              \/ q.pc = "asking" /\ q.seen = {Running(campaign, moment)} /\ q.revision = 0
              \/ q.pc = "deciding" /\ fetch[w].pc = "asking" /\ q.seen = fetch[w].seen /\ q.revision = revision
              \/ /\ q.pc = "answered" /\ fetch[w].pc = "deciding" /\ q.seen = fetch[w].seen
                 /\ q.revision = fetch[w].revision /\ Fresh(w) /\ q.shows = cache.shows
<1>0. fetch[w] \in Asked /\ revision \in 0..MaxRevision /\ cache \in Body \cup {NoFeed} /\ 0 \in 0..MaxRevision
  BY DEF FeedTyped, FeedTypeOK, PromotionsTypeOK, Asked, PromotionsAssumption
<1>1. CASE RevisionFails(w) \/ BackedOff(w) \/ Sent(w)
  BY <1>1, NotAskingType DEF RevisionFails, BackedOff, Sent, LetGo
<1>2. CASE Get(w)
  <2> DEFINE q == [NotAsking EXCEPT !.pc = "asking", !.seen = {Running(campaign, moment)}]
  <2>1. fetch' = [fetch EXCEPT ![w] = q]
    BY <1>2 DEF Get
  <2>2. q \in Asked /\ q.pc = "asking" /\ q.seen = {Running(campaign, moment)} /\ q.revision = 0
    <3>1. {Running(campaign, moment)} \in SUBSET SUBSET Campaigns
      BY RunningType
    <3> QED BY <1>0, <3>1 DEF NotAsking, Asked
  <2> HIDE DEF q
  <2> QED BY <2>1, <2>2
<1>3. CASE ReadRevision(w)
  <2> DEFINE q == [fetch[w] EXCEPT !.pc = "deciding", !.revision = revision]
  <2>1. fetch' = [fetch EXCEPT ![w] = q] /\ fetch[w].pc = "asking"
    BY <1>3 DEF ReadRevision, Doing
  <2>2. q \in Asked /\ q.pc = "deciding" /\ q.seen = fetch[w].seen /\ q.revision = revision
    BY <1>0 DEF Asked
  <2> HIDE DEF q
  <2> QED BY <2>1, <2>2
<1>4. CASE Hit(w)
  <2> DEFINE q == [fetch[w] EXCEPT !.pc = "answered", !.shows = cache.shows]
  <2>1. fetch' = [fetch EXCEPT ![w] = q] /\ fetch[w].pc = "deciding" /\ Fresh(w)
    BY <1>4 DEF Hit, Doing
  <2>2. cache.shows \in SUBSET Campaigns
    BY <1>0, <2>1 DEF Fresh, Body
  <2>3. /\ q \in Asked /\ q.pc = "answered" /\ q.seen = fetch[w].seen
        /\ q.revision = fetch[w].revision /\ q.shows = cache.shows
    BY <1>0, <2>2 DEF Asked
  <2> HIDE DEF q
  <2> QED BY <2>1, <2>3
<1> QED BY <1>1, <1>2, <1>3, <1>4

(* Asking for a generation.                                                *)
LEMMA GenerateStep ==
  ASSUME PromotionsAssumption, FeedAssumption, FeedTyped, NEW w \in Fetches, Generate(w)
  PROVE  /\ fetch[w].pc \in {"deciding", "woken"}
         /\ cache' \in {cache, NoFeed}
         /\ flight' \in Flight
         /\ \/ flight # NoFeed /\ flight' = flight
            \/ /\ flight = NoFeed /\ flight'.pc = "reading" /\ flight'.at = moment
               /\ flight'.revision = fetch[w].revision
         /\ \E q \in Asked :
              /\ fetch' = [fetch EXCEPT ![w] = q]
              /\ q.seen = fetch[w].seen /\ q.revision = fetch[w].revision
              /\ (q.pc = "joined" /\ flight'.revision = fetch[w].revision) \/ q.pc = "waiting"
<1>0. /\ fetch[w] \in Asked /\ fetch[w].revision \in 0..MaxRevision /\ moment \in Moment
      /\ flight \in Flight \cup {NoFeed} /\ End \in Moment \cup {End}
  BY DEF FeedTyped, FeedTypeOK, PromotionsTypeOK, Asked
<1>1. Generation(fetch[w].revision) \in Flight
  BY <1>0 DEF Generation, Flight
<1>2. /\ fetch[w].pc \in {"deciding", "woken"}
      /\ flight' = IF flight = NoFeed THEN Generation(fetch[w].revision) ELSE flight
      /\ fetch' = [fetch EXCEPT ![w].pc = IF flight'.revision = fetch[w].revision THEN "joined" ELSE "waiting"]
  BY DEF Generate
<1>3. cache' \in {cache, NoFeed}
  BY DEF Generate
<1>4. /\ flight' \in Flight
      /\ \/ flight # NoFeed /\ flight' = flight
         \/ /\ flight = NoFeed /\ flight'.pc = "reading" /\ flight'.at = moment
            /\ flight'.revision = fetch[w].revision
  BY <1>0, <1>1, <1>2 DEF Generation
<1> DEFINE q == [fetch[w] EXCEPT !.pc = IF flight'.revision = fetch[w].revision THEN "joined" ELSE "waiting"]
<1>5. fetch' = [fetch EXCEPT ![w] = q]
  BY <1>2
<1>6. /\ q \in Asked /\ q.seen = fetch[w].seen /\ q.revision = fetch[w].revision
      /\ (q.pc = "joined" /\ flight'.revision = fetch[w].revision) \/ q.pc = "waiting"
  BY <1>0 DEF Asked
<1> HIDE DEF q
<1> QED BY <1>2, <1>3, <1>4, <1>5, <1>6

(* The end of a generation, for everyone.                                  *)
LEMMA EndsStep ==
  ASSUME PromotionsAssumption, FeedTyped, NEW result, Ends(result),
         result = NoFeed \/ result.shows \in SUBSET Campaigns
  PROVE  /\ flight' = NoFeed /\ fetch' \in [Fetches -> Asked]
         /\ \A w \in Fetches :
              \/ fetch[w].pc = "joined" /\ fetch'[w] = NotAsking
              \/ /\ fetch[w].pc = "joined" /\ result # NoFeed /\ fetch'[w].pc = "answered"
                 /\ fetch'[w].shows = result.shows /\ fetch'[w].seen = fetch[w].seen
                 /\ fetch'[w].revision = fetch[w].revision
              \/ /\ fetch[w].pc = "waiting" /\ fetch'[w].pc = "woken" /\ fetch'[w].seen = fetch[w].seen
                 /\ fetch'[w].revision = fetch[w].revision
              \/ fetch[w].pc \notin {"joined", "waiting"} /\ fetch'[w] = fetch[w]
<1> DEFINE new(w) == CASE Doing(w, "joined") /\ result = NoFeed -> NotAsking
                       [] Doing(w, "joined") /\ result # NoFeed -> [fetch[w] EXCEPT !.pc = "answered", !.shows = result.shows]
                       [] Doing(w, "waiting") -> [fetch[w] EXCEPT !.pc = "woken"]
                       [] OTHER -> fetch[w]
           Fact(w, q) ==
              \/ fetch[w].pc = "joined" /\ q = NotAsking
              \/ /\ fetch[w].pc = "joined" /\ result # NoFeed /\ q.pc = "answered"
                 /\ q.shows = result.shows /\ q.seen = fetch[w].seen
                 /\ q.revision = fetch[w].revision
              \/ /\ fetch[w].pc = "waiting" /\ q.pc = "woken" /\ q.seen = fetch[w].seen
                 /\ q.revision = fetch[w].revision
              \/ fetch[w].pc \notin {"joined", "waiting"} /\ q = fetch[w]
<1>1. fetch' = [w \in Fetches |-> new(w)] /\ flight' = NoFeed
  BY DEF Ends
<1>2. ASSUME NEW w \in Fetches PROVE new(w) \in Asked /\ Fact(w, new(w))
  <2>0. fetch[w] \in Asked
    BY DEF FeedTyped, FeedTypeOK, Asked
  <2>1. CASE Doing(w, "joined") /\ result = NoFeed
    <3>1. new(w) = NotAsking
      BY <2>1 DEF Doing
    <3> QED BY <2>1, <3>1, NotAskingType DEF Doing
  <2>2. CASE Doing(w, "joined") /\ result # NoFeed
    <3>1. new(w) = [fetch[w] EXCEPT !.pc = "answered", !.shows = result.shows]
      BY <2>2 DEF Doing
    <3>2. result.shows \in SUBSET Campaigns
      BY <2>2
    <3> HIDE DEF new
    <3> QED BY <2>0, <2>2, <3>1, <3>2 DEF Doing, Asked
  <2>3. CASE Doing(w, "waiting")
    <3>1. new(w) = [fetch[w] EXCEPT !.pc = "woken"]
      BY <2>3 DEF Doing
    <3> HIDE DEF new
    <3> QED BY <2>0, <2>3, <3>1 DEF Doing, Asked
  <2>4. CASE ~Doing(w, "joined") /\ ~Doing(w, "waiting")
    <3>1. new(w) = fetch[w]
      BY <2>4
    <3> HIDE DEF new
    <3> QED BY <2>0, <2>4, <3>1 DEF Doing
  <2> QED BY <2>1, <2>2, <2>3, <2>4
<1> HIDE DEF new
<1>3. \A w \in Fetches : fetch'[w] = new(w)
  BY <1>1
<1>4. \A w \in Fetches : Fact(w, fetch'[w])
  BY <1>2, <1>3
<1>5. fetch' \in [Fetches -> Asked]
  BY <1>1, <1>2
<1> QED BY <1>1, <1>4, <1>5

(* Prices that everyone who asks has seen.                                 *)
LEMMA WitnessedStep ==
  ASSUME FeedTyped, NEW book, NEW now, fetch' = Witnessed(fetch, book, now)
  PROVE  /\ fetch' \in [Fetches -> Asked]
         /\ \A w \in Fetches :
              /\ fetch'[w].pc = fetch[w].pc /\ fetch'[w].revision = fetch[w].revision
              /\ fetch'[w].shows = fetch[w].shows /\ fetch[w].seen \subseteq fetch'[w].seen
              /\ fetch'[w].pc # "idle" => Running(book, now) \in fetch'[w].seen
<1> DEFINE new(w) == IF fetch[w].pc = "idle" THEN fetch[w]
                     ELSE [fetch[w] EXCEPT !.seen = @ \cup {Running(book, now)}]
<1>1. fetch' = [w \in Fetches |-> new(w)]
  BY DEF Witnessed
<1>2. ASSUME NEW w \in Fetches
      PROVE  /\ new(w) \in Asked /\ new(w).pc = fetch[w].pc /\ new(w).revision = fetch[w].revision
             /\ new(w).shows = fetch[w].shows /\ fetch[w].seen \subseteq new(w).seen
             /\ new(w).pc # "idle" => Running(book, now) \in new(w).seen
  <2>1. fetch[w] \in Asked /\ Running(book, now) \in SUBSET Campaigns
    BY RunningType DEF FeedTyped, FeedTypeOK, Asked
  <2> QED BY <2>1 DEF Asked
<1> HIDE DEF new
<1>3. \A w \in Fetches : fetch'[w] = new(w)
  BY <1>1
<1> QED BY <1>1, <1>2, <1>3

LEMMA FeedTypedInit == PromotionsAssumption /\ FeedSpecInit => FeedTyped
<1> SUFFICES ASSUME PromotionsAssumption, FeedSpecInit PROVE FeedTyped
  OBVIOUS
<1>1. PromotionsTypeOK
  BY TypeInit DEF FeedSpecInit
<1>2. NotAsking \in Asked
  BY NotAskingType
<1>3. cache = NoFeed /\ refusing = 0 /\ flight = NoFeed /\ fetch = [w \in Fetches |-> NotAsking]
  BY DEF FeedSpecInit, FeedInit
<1>4. fetch \in [Fetches -> Asked]
  BY <1>2, <1>3
<1> QED BY <1>1, <1>3, <1>4 DEF FeedTyped, FeedTypeOK, Asked

(* A generation reads the campaigns, and later the revision again.         *)
LEMMA FlightSteps ==
  ASSUME PromotionsAssumption, FeedTyped
  PROVE  /\ ReadCampaigns =>
              /\ flight \in Flight /\ flight' \in Flight /\ flight.pc = "reading" /\ flight'.pc = "read"
              /\ flight'.shows = Running(campaign, flight.at) /\ flight'.next = NextTransition(campaign, flight.at)
              /\ flight'.revision = flight.revision /\ flight'.at = flight.at
         /\ ReadAgain =>
              /\ flight \in Flight /\ flight' \in Flight /\ flight.pc = "read" /\ flight'.pc = "checked"
              /\ flight'.shows = flight.shows /\ flight'.next = flight.next
              /\ flight'.revision = flight.revision /\ flight'.at = flight.at
              /\ flight'.same = (revision = flight.revision)
<1>0. flight \in Flight \cup {NoFeed} /\ campaign \in [Campaigns -> Campaign \cup {Missing}]
  BY DEF FeedTyped, FeedTypeOK, PromotionsTypeOK
<1>1. ASSUME ReadCampaigns PROVE
        /\ flight \in Flight /\ flight' \in Flight /\ flight.pc = "reading" /\ flight'.pc = "read"
        /\ flight'.shows = Running(campaign, flight.at) /\ flight'.next = NextTransition(campaign, flight.at)
        /\ flight'.revision = flight.revision /\ flight'.at = flight.at
  <2>1. flight \in Flight /\ flight.pc = "reading" /\ flight.at \in Moment
    BY <1>0, <1>1 DEF ReadCampaigns, Generating, Flight
  <2>2. NextTransition(campaign, flight.at) \in Moment \cup {End} /\ Running(campaign, flight.at) \in SUBSET Campaigns
    BY <1>0, <2>1, TransitionAhead, RunningType
  <2>3. flight' = [flight EXCEPT !.pc = "read", !.shows = Running(campaign, flight.at),
                                 !.next = NextTransition(campaign, flight.at)]
    BY <1>1 DEF ReadCampaigns
  <2> QED BY <2>1, <2>2, <2>3 DEF Flight
<1>2. ASSUME ReadAgain PROVE
        /\ flight \in Flight /\ flight' \in Flight /\ flight.pc = "read" /\ flight'.pc = "checked"
        /\ flight'.shows = flight.shows /\ flight'.next = flight.next
        /\ flight'.revision = flight.revision /\ flight'.at = flight.at
        /\ flight'.same = (revision = flight.revision)
  <2>1. flight \in Flight /\ flight.pc = "read"
    BY <1>0, <1>2 DEF ReadAgain, Generating
  <2>2. flight' = [flight EXCEPT !.pc = "checked", !.same = (revision = flight.revision)]
    BY <1>2 DEF ReadAgain
  <2> QED BY <2>1, <2>2 DEF Flight
<1> QED BY <1>1, <1>2

(* The body that is cached.                                                *)
LEMMA CachedBody ==
  ASSUME PromotionsAssumption, FeedAssumption, FeedTyped, GenerationEnds
  PROVE  /\ flight \in Flight /\ flight.pc = "checked" /\ flight.same /\ moment < flight.next
         /\ cache' \in Body /\ cache'.shows = flight.shows /\ cache'.revision = flight.revision
         /\ cache'.until <= flight.next /\ Ends(cache') /\ UNCHANGED promotionVars
<1>1. flight \in Flight /\ flight.pc = "checked" /\ flight.same /\ moment < flight.next
  BY DEF GenerationEnds, Generating, Coherent, FeedTyped, FeedTypeOK
<1>2. moment + CacheTime \in Nat /\ flight.next \in Nat
  BY <1>1 DEF FeedAssumption, FeedTyped, PromotionsTypeOK, PromotionsAssumption, Moment, End, Flight
<1>3. Lesser(moment + CacheTime, flight.next) \in Nat /\ Lesser(moment + CacheTime, flight.next) <= flight.next
  BY <1>2 DEF Lesser
<1>4. cache' = [shows |-> flight.shows, revision |-> flight.revision, until |-> Lesser(moment + CacheTime, flight.next)]
  BY DEF GenerationEnds
<1>5. Ends(cache') /\ UNCHANGED promotionVars
  BY DEF GenerationEnds
<1> QED BY <1>1, <1>3, <1>4, <1>5 DEF Body, Flight

LEMMA FeedTypedStep ==
  ASSUME PromotionsAssumption, FeedAssumption, FeedTyped, [FeedNext]_<<promotionVars, feedVars>>
  PROVE  FeedTyped'
<1>0. /\ PromotionsTypeOK /\ cache \in Body \cup {NoFeed} /\ refusing \in Nat
      /\ flight \in Flight \cup {NoFeed} /\ fetch \in [Fetches -> Asked]
      /\ moment + BackoffTime \in Nat
  BY DEF FeedTyped, FeedTypeOK, Asked, PromotionsTypeOK, PromotionsAssumption, Moment, FeedAssumption
<1>1. ASSUME UNCHANGED promotionVars, cache' \in Body \cup {NoFeed}, refusing' \in Nat,
             flight' \in Flight \cup {NoFeed}, fetch' \in [Fetches -> Asked]
      PROVE  FeedTyped'
  <2>1. PromotionsTypeOK'
    BY <1>0, <1>1, TypeStep
  <2> QED BY <1>1, <2>1 DEF FeedTyped, FeedTypeOK, Asked
<1>2. ASSUME NEW w \in Fetches,
             Get(w) \/ ReadRevision(w) \/ RevisionFails(w) \/ BackedOff(w) \/ Hit(w) \/ Sent(w)
      PROVE  FeedTyped'
  <2>1. fetch' \in [Fetches -> Asked]
    BY <1>2, OwnStep, FetchMoves
  <2>2. UNCHANGED <<promotionVars, cache, flight>> /\ refusing' \in {refusing, moment + BackoffTime}
    BY <1>2 DEF Get, ReadRevision, RevisionFails, BackedOff, Hit, Sent
  <2> QED BY <1>0, <1>1, <2>1, <2>2
<1>3. ASSUME NEW w \in Fetches, Generate(w) PROVE FeedTyped'
  <2>1. fetch' \in [Fetches -> Asked] /\ flight' \in Flight /\ cache' \in {cache, NoFeed}
    BY <1>3, GenerateStep, FetchMoves
  <2>2. UNCHANGED <<promotionVars, refusing>>
    BY <1>3 DEF Generate
  <2> QED BY <1>0, <1>1, <2>1, <2>2
<1>4. ASSUME ReadCampaigns \/ ReadAgain PROVE FeedTyped'
  <2>1. UNCHANGED <<promotionVars, cache, refusing, fetch>>
    BY <1>4 DEF ReadCampaigns, ReadAgain
  <2>2. flight' \in Flight
    BY <1>4, FlightSteps
  <2> QED BY <1>0, <1>1, <2>1, <2>2
<1>5. ASSUME GenerationEnds PROVE FeedTyped'
  <2>1. cache' \in Body /\ Ends(cache') /\ UNCHANGED promotionVars /\ cache'.shows \in SUBSET Campaigns
    BY <1>5, CachedBody DEF Body
  <2>2. flight' = NoFeed /\ fetch' \in [Fetches -> Asked]
    BY <2>1, EndsStep
  <2>3. refusing' = 0
    BY <1>5 DEF GenerationEnds
  <2> QED BY <1>1, <2>1, <2>2, <2>3
<1>6. ASSUME GenerationStale \/ GenerationFails PROVE FeedTyped'
  <2>1. /\ Ends(NoFeed) /\ UNCHANGED <<promotionVars, cache>>
        /\ refusing' \in {refusing, moment + BackoffTime}
    BY <1>6 DEF GenerationStale, GenerationFails
  <2>2. flight' = NoFeed /\ fetch' \in [Fetches -> Asked]
    BY <2>1, EndsStep
  <2> QED BY <1>0, <1>1, <2>1, <2>2
<1>7. ASSUME PromotionsNext, fetch' = Witnessed(fetch, campaign', moment'), UNCHANGED <<cache, refusing, flight>>
      PROVE  FeedTyped'
  <2>1. fetch' \in [Fetches -> Asked]
    BY <1>7, WitnessedStep
  <2>2. PromotionsTypeOK'
    BY <1>0, <1>7, TypeStep
  <2> QED BY <1>0, <1>7, <2>1, <2>2 DEF FeedTyped, FeedTypeOK, Asked
<1>8. ASSUME UNCHANGED <<promotionVars, feedVars>> PROVE FeedTyped'
  BY <1>0, <1>1, <1>8 DEF feedVars
<1> QED BY <1>2, <1>3, <1>4, <1>5, <1>6, <1>7, <1>8 DEF FeedNext, Feed

-----------------------------------------------------------------------------
(* The prices that belong to a revision.                                   *)

(* While the revision stands, the running campaigns change with the time   *)
(* only: what is not published does not run, and what is published is      *)
(* edited under the next revision.                                         *)
LEMMA RevisionMeansPrices ==
  ASSUME PromotionsAssumption, PromotionsTypeOK, PromotionsNext
  PROVE  /\ moment' \in {moment, moment + 1} /\ moment' \in Moment
         /\ \/ revision' = revision + 1
            \/ /\ revision' = revision
               /\ \A now : Running(campaign', now) = Running(campaign, now)
               /\ \A now : NextTransition(campaign', now) = NextTransition(campaign, now)
<1>1. ASSUME On(campaign') = On(campaign), \A c \in On(campaign) : campaign'[c].set = campaign[c].set
      PROVE  /\ \A now : Running(campaign', now) = Running(campaign, now)
             /\ \A now : NextTransition(campaign', now) = NextTransition(campaign, now)
  <2>1. \A now : Running(campaign', now) = Running(campaign, now)
    BY <1>1 DEF Running
  <2> DEFINE times(book) == {{book[c].set.from, book[c].set.to} : c \in On(book)}
  <2>2. times(campaign') = times(campaign)
    BY <1>1
  <2>3. \A now : NextTransition(campaign', now) = NextTransition(campaign, now)
    <3> DEFINE first(all, now) == LET ahead == {n \in all : n > now}
                                  IN  IF ahead = {} THEN End ELSE CHOOSE n \in ahead : \A k \in ahead : n <= k
    <3>1. UNION times(campaign') = UNION times(campaign)
      BY <2>2
    <3>2. \A now : NextTransition(campaign', now) = first(UNION times(campaign'), now)
      BY DEF NextTransition
    <3>3. \A now : NextTransition(campaign, now) = first(UNION times(campaign), now)
      BY DEF NextTransition
    <3> HIDE DEF first, times
    <3> QED BY <3>1, <3>2, <3>3
  <2> QED BY <2>1, <2>3
<1>2. ASSUME UNCHANGED moment, revision' = revision,
             On(campaign') = On(campaign), \A c \in On(campaign) : campaign'[c].set = campaign[c].set
      PROVE  /\ moment' \in {moment, moment + 1} /\ moment' \in Moment /\ revision' = revision
             /\ \A now : Running(campaign', now) = Running(campaign, now)
             /\ \A now : NextTransition(campaign', now) = NextTransition(campaign, now)
  BY <1>1, <1>2 DEF PromotionsTypeOK
<1>3. ASSUME NEW c \in Campaigns, NEW set, campaign[c] = Missing \/ ~campaign[c].on,
             campaign' = [campaign EXCEPT ![c] = Draft(set)]
      PROVE  On(campaign') = On(campaign) /\ \A d \in On(campaign) : campaign'[d].set = campaign[d].set
  <2>1. campaign'[c] = Draft(set) /\ ~Draft(set).on /\ \A d \in Campaigns \ {c} : campaign'[d] = campaign[d]
    BY <1>3 DEF Draft, PromotionsTypeOK
  <2> QED BY <1>3, <2>1 DEF On
<1>4. ASSUME NEW c \in Campaigns, CreateDraft(c) \/ EditDraft(c)
      PROVE  /\ UNCHANGED <<moment, revision>> /\ On(campaign') = On(campaign)
             /\ \A d \in On(campaign) : campaign'[d].set = campaign[d].set
  <2>1. UNCHANGED <<moment, revision>>
    BY <1>4 DEF CreateDraft, EditDraft
  <2>2. PICK set \in Sketches : campaign' = [campaign EXCEPT ![c] = Draft(set)]
    BY <1>4 DEF CreateDraft, EditDraft
  <2>3. campaign[c] = Missing \/ ~campaign[c].on
    <3>1. CASE CreateDraft(c)
      BY <3>1 DEF CreateDraft
    <3>2. CASE EditDraft(c)
      <4>1. PICK now \in 1..moment : Status(campaign[c], now) = "DRAFT"
        BY <3>2 DEF EditDraft
      <4>2. campaign[c] \in Campaign
        BY <3>2 DEF EditDraft, Exists, PromotionsTypeOK
      <4>3. campaign[c].on \in BOOLEAN /\ campaign[c].set.from \in Int /\ campaign[c].set.to \in Int /\ now \in Int
        BY <4>2 DEF Campaign, Settings
      <4> QED BY <4>1, <4>3 DEF Status
    <3> QED BY <1>4, <3>1, <3>2
  <2> QED BY <1>3, <2>1, <2>2, <2>3
<1>5. ASSUME NEW c \in Campaigns, NEW d \in Campaigns, Copy(c, d)
      PROVE  /\ UNCHANGED <<moment, revision>> /\ On(campaign') = On(campaign)
             /\ \A e \in On(campaign) : campaign'[e].set = campaign[e].set
  <2>1. UNCHANGED <<moment, revision>> /\ campaign[d] = Missing /\ campaign' = [campaign EXCEPT ![d] = Draft(campaign[c].set)]
    BY <1>5 DEF Copy
  <2> QED BY <1>3, <2>1
<1>6. ASSUME NEW c \in Campaigns, Publish(c) \/ Disable(c) \/ EndEarly(c) \/ EditScheduled(c)
      PROVE  UNCHANGED moment /\ revision' = revision + 1
  BY <1>6 DEF Publish, Disable, EndEarly, EditScheduled, Advance
<1>7. ASSUME OtherMutation PROVE UNCHANGED moment /\ revision' = revision + 1
  BY <1>7 DEF OtherMutation, Advance
<1>8. ASSUME NEW v \in Goods, Reassign(v) PROVE UNCHANGED <<moment, revision, campaign>>
  BY <1>8 DEF Reassign
<1>9. ASSUME TimeGoesOn PROVE moment' = moment + 1 /\ moment' \in Moment /\ UNCHANGED <<revision, campaign>>
  BY <1>9 DEF TimeGoesOn, PromotionsTypeOK, Moment, PromotionsAssumption
<1>10. moment \in Moment
  BY DEF PromotionsTypeOK
<1> QED BY <1>2, <1>4, <1>5, <1>6, <1>7, <1>8, <1>9, <1>10 DEF PromotionsNext

-----------------------------------------------------------------------------
(* What a fetch has seen.                                                  *)

(* The fetches that go by a revision they have read.                       *)
Knows(w) == fetch[w].pc \in {"deciding", "joined", "waiting", "woken"}

(* What the generation will show, until when, and whether it may.          *)
FlightShows == IF flight.pc = "reading" THEN Running(campaign, flight.at) ELSE flight.shows
FlightUntil == IF flight.pc = "reading" THEN NextTransition(campaign, flight.at) ELSE flight.next
FlightHolds == IF flight.pc = "checked" THEN flight.same ELSE revision = flight.revision

Witness == \A w \in Fetches : ~Doing(w, "idle") => Running(campaign, moment) \in fetch[w].seen

Behind ==
  /\ \A w \in Fetches : fetch[w].revision <= revision
  /\ cache # NoFeed => cache.revision <= revision
  /\ flight # NoFeed => flight.revision <= revision /\ flight.at <= moment

Joined == \A w \in Fetches :
  Doing(w, "joined") => flight # NoFeed /\ flight.revision = fetch[w].revision

(* A body belongs to its revision: as long as that is in force the same    *)
(* campaigns run, until the body ends; and whoever has read that revision  *)
(* before the body ends has seen them run.                                 *)
Belongs(shows, rev, from, until) ==
  /\ revision = rev => \A m \in Moment : from <= m /\ m < until => Running(campaign, m) = shows
  /\ moment < until => \A w \in Fetches : Knows(w) /\ fetch[w].revision = rev => shows \in fetch[w].seen

FlightInv == flight # NoFeed /\ FlightHolds =>
  Belongs(FlightShows, flight.revision, flight.at, FlightUntil)

CacheInv == cache # NoFeed => Belongs(cache.shows, cache.revision, moment, cache.until)

SeenInv == Witness /\ Behind /\ Joined /\ FlightInv /\ CacheInv /\ FeedShowsPrices

(* A body belongs to its revision still when a fetch has gone on.          *)
LEMMA StillBelongs ==
  ASSUME NEW shows, NEW rev, NEW from, NEW until, Belongs(shows, rev, from, until),
         UNCHANGED <<moment, revision, campaign>>, moment \in Moment,
         from <= moment,
         \A w \in Fetches : Knows(w)' =>
           \/ /\ Knows(w) /\ fetch'[w].revision = fetch[w].revision
              /\ fetch[w].seen \subseteq fetch'[w].seen
           \/ fetch'[w].revision = revision /\ Running(campaign, moment) \in fetch'[w].seen
  PROVE  Belongs(shows, rev, from, until)'
<1>1. \A m : Running(campaign', m) = Running(campaign, m)
  OBVIOUS
<1>2. ASSUME moment < until, NEW w \in Fetches, Knows(w)', fetch'[w].revision = rev
      PROVE  shows \in fetch'[w].seen
  <2>1. CASE Knows(w) /\ fetch'[w].revision = fetch[w].revision /\ fetch[w].seen \subseteq fetch'[w].seen
    BY <1>2, <2>1 DEF Belongs
  <2>2. CASE fetch'[w].revision = revision /\ Running(campaign, moment) \in fetch'[w].seen
    <3>1. Running(campaign, moment) = shows
      BY <1>2, <2>2 DEF Belongs
    <3> QED BY <2>2, <3>1
  <2> QED BY <1>2, <2>1, <2>2
<1> QED BY <1>1, <1>2 DEF Belongs

LEMMA OwnSeen ==
  ASSUME PromotionsAssumption, FeedTyped, SeenInv, NEW w \in Fetches,
         Get(w) \/ ReadRevision(w) \/ RevisionFails(w) \/ BackedOff(w) \/ Hit(w) \/ Sent(w)
  PROVE  SeenInv'
<1>0. /\ UNCHANGED <<moment, revision, campaign, cache, flight>> /\ moment \in Moment
      /\ moment <= moment /\ revision \in Nat
  <2>1. UNCHANGED <<moment, revision, campaign, cache, flight>>
    BY DEF Get, ReadRevision, RevisionFails, BackedOff, Hit, Sent, promotionVars
  <2>2. moment \in Moment /\ moment <= moment
    BY DEF FeedTyped, PromotionsTypeOK, Moment
  <2> QED BY <2>1, <2>2 DEF FeedTyped, PromotionsTypeOK
<1>1. PICK q \in Asked :
        /\ fetch' = [fetch EXCEPT ![w] = q]
        /\ \/ q.pc = "idle" /\ q = NotAsking
           \/ q.pc = "asking" /\ q.seen = {Running(campaign, moment)} /\ q.revision = 0
           \/ q.pc = "deciding" /\ fetch[w].pc = "asking" /\ q.seen = fetch[w].seen /\ q.revision = revision
           \/ /\ q.pc = "answered" /\ fetch[w].pc = "deciding" /\ q.seen = fetch[w].seen
              /\ q.revision = fetch[w].revision /\ Fresh(w) /\ q.shows = cache.shows
  BY OwnStep
<1>2. fetch'[w] = q /\ \A v \in Fetches \ {w} : fetch'[v] = fetch[v]
  BY <1>1, FetchMoves
<1>3. NotAsking.revision = 0
  BY DEF NotAsking
<1>4. \A v \in Fetches : fetch[v].pc # "idle" => Running(campaign, moment) \in fetch[v].seen
  BY DEF SeenInv, Witness, Doing
<1>5. \A v \in Fetches : fetch[v].pc = "idle" => fetch[v].revision <= revision
  BY DEF SeenInv, Behind
<1>6. Witness'
  <2>1. q.pc # "idle" => Running(campaign, moment) \in q.seen
    BY <1>1, <1>4
  <2> QED BY <1>0, <1>2, <1>4, <2>1 DEF Witness, Doing
<1>7. Behind'
  <2>1. q.revision <= revision
    BY <1>0, <1>1, <1>3 DEF SeenInv, Behind
  <2> QED BY <1>0, <1>2, <2>1 DEF SeenInv, Behind
<1>8. Joined'
  BY <1>0, <1>1, <1>2 DEF SeenInv, Joined, Doing
<1>9. \A v \in Fetches : Knows(v)' =>
        \/ /\ Knows(v) /\ fetch'[v].revision = fetch[v].revision
           /\ fetch[v].seen \subseteq fetch'[v].seen
        \/ fetch'[v].revision = revision /\ Running(campaign, moment) \in fetch'[v].seen
  BY <1>1, <1>2, <1>4 DEF Knows
<1>10. FlightInv'
  <2> SUFFICES ASSUME flight # NoFeed, FlightHolds
               PROVE  Belongs(FlightShows, flight.revision, flight.at, FlightUntil)'
    BY <1>0 DEF FlightInv, FlightHolds
  <2>1. Belongs(FlightShows, flight.revision, flight.at, FlightUntil) /\ flight.at <= moment
    BY DEF SeenInv, FlightInv, Behind
  <2>2. FlightShows' = FlightShows /\ FlightUntil' = FlightUntil
    BY <1>0 DEF FlightShows, FlightUntil
  <2>3. PICK shows, rev, from, until :
          shows = FlightShows /\ rev = flight.revision /\ from = flight.at /\ until = FlightUntil
    OBVIOUS
  <2>4. Belongs(shows, rev, from, until)'
    BY <1>0, <1>9, <2>1, <2>3, StillBelongs
  <2> QED BY <1>0, <2>2, <2>3, <2>4
<1>11. CacheInv'
  <2> SUFFICES ASSUME cache # NoFeed
               PROVE  Belongs(cache.shows, cache.revision, moment, cache.until)'
    BY <1>0 DEF CacheInv
  <2>1. Belongs(cache.shows, cache.revision, moment, cache.until)
    BY DEF SeenInv, CacheInv
  <2> QED BY <1>0, <1>9, <2>1, StillBelongs
<1>12. FeedShowsPrices'
  <2>1. q.pc = "answered" => q.shows \in q.seen
    <3>1. CASE q.pc = "answered"
      <4>1. Knows(w) /\ cache # NoFeed /\ moment < cache.until /\ cache.revision = fetch[w].revision
        BY <1>1, <3>1 DEF Knows, Fresh
      <4>2. cache.shows \in fetch[w].seen
        BY <4>1 DEF SeenInv, CacheInv, Belongs
      <4> QED BY <1>1, <3>1, <4>2
    <3> QED BY <3>1
  <2> QED BY <1>2, <2>1 DEF SeenInv, FeedShowsPrices, Doing
<1> QED BY <1>6, <1>7, <1>8, <1>10, <1>11, <1>12 DEF SeenInv

LEMMA GenerateSeen ==
  ASSUME PromotionsAssumption, FeedAssumption, FeedTyped, SeenInv, NEW w \in Fetches, Generate(w)
  PROVE  SeenInv'
<1>0. /\ UNCHANGED <<moment, revision, campaign>> /\ moment \in Moment /\ moment <= moment
      /\ campaign \in [Campaigns -> Campaign \cup {Missing}]
  <2>1. UNCHANGED <<moment, revision, campaign>>
    BY DEF Generate, promotionVars
  <2>2. moment \in Moment /\ moment <= moment
    BY DEF FeedTyped, PromotionsTypeOK, Moment
  <2> QED BY <2>1, <2>2 DEF FeedTyped, PromotionsTypeOK
<1>1. /\ fetch[w].pc \in {"deciding", "woken"} /\ cache' \in {cache, NoFeed} /\ flight' \in Flight
      /\ \/ flight # NoFeed /\ flight' = flight
         \/ /\ flight = NoFeed /\ flight'.pc = "reading" /\ flight'.at = moment
            /\ flight'.revision = fetch[w].revision
  BY GenerateStep
<1>2. PICK q \in Asked :
        /\ fetch' = [fetch EXCEPT ![w] = q]
        /\ q.seen = fetch[w].seen /\ q.revision = fetch[w].revision
        /\ (q.pc = "joined" /\ flight'.revision = fetch[w].revision) \/ q.pc = "waiting"
  BY GenerateStep
<1>3. fetch'[w] = q /\ \A v \in Fetches \ {w} : fetch'[v] = fetch[v]
  BY <1>2, FetchMoves
<1>4. \A v \in Fetches : fetch[v].pc # "idle" => Running(campaign, moment) \in fetch[v].seen
  BY DEF SeenInv, Witness, Doing
<1>5. flight' # NoFeed
  BY <1>1 DEF FeedAssumption
<1>6. \A v \in Fetches : fetch'[v].revision = fetch[v].revision /\ fetch'[v].seen = fetch[v].seen
  BY <1>2, <1>3
<1>7. \A v \in Fetches : Knows(v)' => Knows(v)
  BY <1>1, <1>3 DEF Knows
<1>8. Witness'
  BY <1>0, <1>1, <1>3, <1>4, <1>6 DEF Witness, Doing
<1>9. Behind'
  BY <1>0, <1>1, <1>6 DEF SeenInv, Behind
<1>10. Joined'
  BY <1>1, <1>2, <1>3, <1>5 DEF SeenInv, Joined, Doing
<1>11. FeedShowsPrices'
  BY <1>2, <1>3 DEF SeenInv, FeedShowsPrices, Doing
<1>12. \A v \in Fetches : Knows(v)' =>
         \/ /\ Knows(v) /\ fetch'[v].revision = fetch[v].revision
            /\ fetch[v].seen \subseteq fetch'[v].seen
         \/ fetch'[v].revision = revision /\ Running(campaign, moment) \in fetch'[v].seen
  BY <1>6, <1>7
<1>13. CacheInv'
  <2> SUFFICES ASSUME cache # NoFeed, cache' = cache
               PROVE  Belongs(cache.shows, cache.revision, moment, cache.until)'
    BY <1>1 DEF CacheInv
  <2>1. Belongs(cache.shows, cache.revision, moment, cache.until)
    BY DEF SeenInv, CacheInv
  <2> QED BY <1>0, <1>12, <2>1, StillBelongs
<1>14. CASE flight # NoFeed /\ flight' = flight
  <2> SUFFICES ASSUME FlightHolds
               PROVE  Belongs(FlightShows, flight.revision, flight.at, FlightUntil)'
    BY <1>0, <1>8, <1>9, <1>10, <1>11, <1>13, <1>14 DEF SeenInv, FlightInv, FlightHolds
  <2>1. Belongs(FlightShows, flight.revision, flight.at, FlightUntil) /\ flight.at <= moment
    BY <1>14 DEF SeenInv, FlightInv, Behind
  <2>2. FlightShows' = FlightShows /\ FlightUntil' = FlightUntil
    BY <1>0, <1>14 DEF FlightShows, FlightUntil
  <2>3. PICK shows, rev, from, until :
          shows = FlightShows /\ rev = flight.revision /\ from = flight.at /\ until = FlightUntil
    OBVIOUS
  <2>4. Belongs(shows, rev, from, until)'
    BY <1>0, <1>12, <2>1, <2>3, StillBelongs
  <2> QED BY <1>14, <2>2, <2>3, <2>4
<1>15. CASE flight = NoFeed /\ flight'.pc = "reading" /\ flight'.at = moment /\ flight'.revision = fetch[w].revision
  <2>1. FlightShows' = Running(campaign, moment) /\ FlightUntil' = NextTransition(campaign, moment)
    BY <1>0, <1>15 DEF FlightShows, FlightUntil
  <2>2. \A m \in Moment : moment <= m /\ m < NextTransition(campaign, moment) =>
          Running(campaign, m) = Running(campaign, moment)
    BY <1>0, SameTill
  <2>3. \A v \in Fetches : Knows(v)' => Running(campaign, moment) \in fetch'[v].seen
    BY <1>4, <1>6, <1>7 DEF Knows
  <2>4. \A m : Running(campaign', m) = Running(campaign, m)
    BY <1>0
  <2>5. Belongs(FlightShows, flight.revision, flight.at, FlightUntil)'
    BY <1>0, <1>15, <2>1, <2>2, <2>3, <2>4 DEF Belongs
  <2> QED BY <1>8, <1>9, <1>10, <1>11, <1>13, <2>5 DEF SeenInv, FlightInv
<1> QED BY <1>1, <1>14, <1>15

(* The steps of the generation change neither what it will show nor until  *)
(* when nor, while the revision stands, whether it may.                    *)
LEMMA FlightSeen ==
  ASSUME PromotionsAssumption, FeedAssumption, FeedTyped, SeenInv, ReadCampaigns \/ ReadAgain
  PROVE  SeenInv'
<1>1. UNCHANGED <<moment, revision, campaign, cache, fetch>>
  BY DEF ReadCampaigns, ReadAgain, promotionVars
<1>2. /\ flight # NoFeed /\ flight'.revision = flight.revision /\ flight'.at = flight.at
      /\ FlightHolds' = FlightHolds
  BY <1>1, FlightSteps DEF FlightHolds, ReadCampaigns, ReadAgain, Generating
<1>3. FlightShows' = FlightShows /\ FlightUntil' = FlightUntil
  BY <1>1, FlightSteps DEF FlightShows, FlightUntil
<1>4. /\ Witness' /\ FeedShowsPrices' /\ Behind'
  BY <1>1, <1>2 DEF SeenInv, Witness, FeedShowsPrices, Behind, Doing
<1>5. Joined'
  <2>1. flight' # NoFeed
    BY FlightSteps DEF FeedAssumption
  <2> QED BY <1>1, <1>2, <2>1 DEF SeenInv, Joined, Doing
<1>6. CacheInv'
  BY <1>1 DEF SeenInv, CacheInv, Belongs, Knows
<1>7. FlightInv'
  <2>1. FlightHolds => Belongs(FlightShows, flight.revision, flight.at, FlightUntil)
    BY <1>2 DEF SeenInv, FlightInv
  <2>2. \A shows, rev, from, until : Belongs(shows, rev, from, until) => Belongs(shows, rev, from, until)'
    BY <1>1 DEF Belongs, Knows
  <2> QED BY <1>2, <1>3, <2>1, <2>2 DEF FlightInv
<1> QED BY <1>4, <1>5, <1>6, <1>7 DEF SeenInv

(* A generation ends: what it made answers those who joined, and stays.    *)
LEMMA EndsSeen ==
  ASSUME PromotionsAssumption, FeedAssumption, FeedTyped, SeenInv,
         GenerationEnds \/ GenerationStale \/ GenerationFails
  PROVE  SeenInv'
<1>0. UNCHANGED <<moment, revision, campaign>> /\ moment \in Moment /\ moment <= moment
  <2>1. UNCHANGED <<moment, revision, campaign>>
    BY DEF GenerationEnds, GenerationStale, GenerationFails, promotionVars
  <2>2. moment \in Moment /\ moment <= moment
    BY DEF FeedTyped, PromotionsTypeOK, Moment
  <2> QED BY <2>1, <2>2
<1>1. PICK result : /\ Ends(result) /\ (result = NoFeed \/ result.shows \in SUBSET Campaigns)
                    /\ \/ result = NoFeed /\ cache' = cache
                       \/ GenerationEnds /\ result = cache'
  <2>1. CASE GenerationEnds
    <3>1. Ends(cache') /\ cache'.shows \in SUBSET Campaigns
      BY <2>1, CachedBody DEF Body
    <3> QED BY <2>1, <3>1
  <2>2. CASE GenerationStale \/ GenerationFails
    BY <2>2 DEF GenerationStale, GenerationFails
  <2> QED BY <2>1, <2>2
<1>2. flight' = NoFeed
  BY <1>1, EndsStep
<1>3. \A w \in Fetches :
        \/ fetch[w].pc = "joined" /\ fetch'[w] = NotAsking
        \/ /\ fetch[w].pc = "joined" /\ result # NoFeed /\ fetch'[w].pc = "answered"
           /\ fetch'[w].shows = result.shows /\ fetch'[w].seen = fetch[w].seen
           /\ fetch'[w].revision = fetch[w].revision
        \/ /\ fetch[w].pc = "waiting" /\ fetch'[w].pc = "woken" /\ fetch'[w].seen = fetch[w].seen
           /\ fetch'[w].revision = fetch[w].revision
        \/ fetch[w].pc \notin {"joined", "waiting"} /\ fetch'[w] = fetch[w]
  BY <1>1, EndsStep
<1>4. NotAsking.pc = "idle" /\ NotAsking.revision = 0 /\ revision \in Nat /\ 0 <= revision
  BY DEF NotAsking, FeedTyped, PromotionsTypeOK
<1>5. \A w \in Fetches : Knows(w)' => /\ Knows(w) /\ fetch'[w].revision = fetch[w].revision
                                      /\ fetch'[w].seen = fetch[w].seen
  BY <1>3, <1>4 DEF Knows
<1>6. Witness'
  BY <1>0, <1>3, <1>4 DEF SeenInv, Witness, Doing
<1>7. Joined' /\ FlightInv'
  BY <1>2, <1>3, <1>4 DEF Joined, FlightInv, Doing
<1>8. \A w \in Fetches : fetch'[w].revision <= revision
  <2>1. \A w \in Fetches : fetch[w].revision <= revision
    BY DEF SeenInv, Behind
  <2> QED BY <1>3, <1>4, <2>1
<1>9. CASE result = NoFeed /\ cache' = cache
  <2>1. Behind'
    BY <1>0, <1>2, <1>8, <1>9 DEF SeenInv, Behind
  <2>2. FeedShowsPrices'
    BY <1>3, <1>4, <1>9 DEF SeenInv, FeedShowsPrices, Doing
  <2>3. CacheInv'
    <3>1. \A shows, rev, from, until : Belongs(shows, rev, from, until) => Belongs(shows, rev, from, until)'
      BY <1>0, <1>5 DEF Belongs
    <3> QED BY <1>0, <1>9, <3>1 DEF SeenInv, CacheInv
  <2> QED BY <1>6, <1>7, <2>1, <2>2, <2>3 DEF SeenInv
<1>10. CASE GenerationEnds /\ result = cache'
  <2>1. /\ flight \in Flight /\ flight.pc = "checked" /\ flight.same /\ moment < flight.next
        /\ cache' \in Body /\ cache'.shows = flight.shows /\ cache'.revision = flight.revision
        /\ cache'.until <= flight.next
    BY <1>10, CachedBody
  <2>2. flight # NoFeed /\ cache' # NoFeed
    BY <2>1 DEF FeedAssumption
  <2>3. Belongs(flight.shows, flight.revision, flight.at, flight.next) /\ flight.at <= moment
    BY <2>1, <2>2 DEF SeenInv, FlightInv, FlightHolds, FlightShows, FlightUntil, Behind
  <2>4. Behind'
    BY <1>0, <1>2, <1>8, <2>1, <2>2 DEF SeenInv, Behind
  <2>5. FeedShowsPrices'
    <3>1. \A w \in Fetches : fetch[w].pc = "joined" => flight.shows \in fetch[w].seen
      BY <2>1, <2>3 DEF SeenInv, Joined, Doing, Belongs, Knows
    <3> QED BY <1>3, <1>4, <1>10, <2>1, <3>1 DEF SeenInv, FeedShowsPrices, Doing
  <2>6. CacheInv'
    <3>1. /\ cache'.until \in Int /\ flight.next \in Int /\ flight.at \in Int /\ moment \in Int
          /\ \A m \in Moment : m \in Int
      BY <1>0, <2>1 DEF Body, Flight, Moment, End, PromotionsAssumption
    <3>2. revision = flight.revision => \A m \in Moment : moment <= m /\ m < cache'.until => Running(campaign, m) = flight.shows
      BY <2>1, <2>3, <3>1 DEF Belongs
    <3>3. \A w \in Fetches : Knows(w) /\ fetch[w].revision = flight.revision => flight.shows \in fetch[w].seen
      BY <2>1, <2>3 DEF Belongs
    <3>4. \A m : Running(campaign', m) = Running(campaign, m)
      BY <1>0
    <3>5. Belongs(cache.shows, cache.revision, moment, cache.until)'
      BY <1>0, <1>5, <2>1, <3>2, <3>3, <3>4 DEF Belongs
    <3> QED BY <3>5 DEF CacheInv
  <2> QED BY <1>6, <1>7, <2>4, <2>5, <2>6 DEF SeenInv
<1> QED BY <1>1, <1>9, <1>10

(* The shop goes on.  A campaign that becomes public, or stops being so,   *)
(* takes the revision past every one that was read; the time alone leaves  *)
(* what belongs to the revision as it is.                                  *)
LEMMA ShopSeen ==
  ASSUME PromotionsAssumption, FeedTyped, SeenInv, PromotionsNext,
         fetch' = Witnessed(fetch, campaign', moment'), UNCHANGED <<cache, refusing, flight>>
  PROVE  SeenInv'
<1>1. \A w \in Fetches :
        /\ fetch'[w].pc = fetch[w].pc /\ fetch'[w].revision = fetch[w].revision
        /\ fetch'[w].shows = fetch[w].shows /\ fetch[w].seen \subseteq fetch'[w].seen
        /\ fetch[w].pc # "idle" => Running(campaign', moment') \in fetch'[w].seen
  BY WitnessedStep
<1>2. /\ moment' \in {moment, moment + 1} /\ moment' \in Moment
      /\ \/ revision' = revision + 1
         \/ /\ revision' = revision
            /\ \A now : Running(campaign', now) = Running(campaign, now)
            /\ \A now : NextTransition(campaign', now) = NextTransition(campaign, now)
  BY RevisionMeansPrices DEF FeedTyped
<1>3. /\ moment \in Int /\ moment' \in Int /\ moment <= moment' /\ (\A m \in Moment : m \in Int)
      /\ revision \in Int /\ revision' \in Int /\ revision <= revision'
  BY <1>2 DEF FeedTyped, PromotionsTypeOK, Moment
<1>4. /\ \A w \in Fetches : fetch[w].revision \in Int
      /\ cache # NoFeed => cache.revision \in Int /\ cache.until \in Int
      /\ flight # NoFeed => flight.revision \in Int /\ flight.at \in Int
  <2>1. \A w \in Fetches : fetch[w].revision \in Int
    BY DEF FeedTyped, FeedTypeOK
  <2>2. cache # NoFeed => cache.revision \in Int /\ cache.until \in Int
    BY DEF FeedTyped, FeedTypeOK, Body
  <2>3. flight # NoFeed => flight.revision \in Int /\ flight.at \in Int
    BY DEF FeedTyped, FeedTypeOK, Flight, Moment
  <2> QED BY <2>1, <2>2, <2>3
<1>5. \A w \in Fetches : Knows(w)' <=> Knows(w)
  BY <1>1 DEF Knows
<1>6. Witness'
  BY <1>1 DEF Witness, Doing
<1>7. Behind'
  <2>1. \A w \in Fetches : fetch'[w].revision <= revision'
    BY <1>1, <1>3, <1>4 DEF SeenInv, Behind
  <2>2. cache # NoFeed => cache.revision <= revision'
    BY <1>3, <1>4 DEF SeenInv, Behind
  <2>3. flight # NoFeed => flight.revision <= revision' /\ flight.at <= moment'
    BY <1>3, <1>4 DEF SeenInv, Behind
  <2> QED BY <2>1, <2>2, <2>3 DEF Behind
<1>8. Joined'
  BY <1>1 DEF SeenInv, Joined, Doing
<1>9. FeedShowsPrices'
  BY <1>1 DEF SeenInv, FeedShowsPrices, Doing
<1>10. ASSUME NEW shows, NEW rev \in Int, NEW from, NEW until \in Int,
              Belongs(shows, rev, from, until), rev <= revision
       PROVE  Belongs(shows, rev, from, until)'
  <2>1. revision' = rev => \A m \in Moment : from <= m /\ m < until => Running(campaign', m) = shows
    BY <1>2, <1>3, <1>10 DEF Belongs
  <2>2. moment' < until => \A w \in Fetches : Knows(w)' /\ fetch'[w].revision = rev => shows \in fetch'[w].seen
    BY <1>1, <1>3, <1>5, <1>10 DEF Belongs
  <2> QED BY <2>1, <2>2 DEF Belongs
<1>11. CacheInv'
  <2> SUFFICES ASSUME cache # NoFeed
               PROVE  Belongs(cache.shows, cache.revision, moment, cache.until)'
    BY DEF CacheInv
  <2>1. PICK shows, rev, from, until :
          shows = cache.shows /\ rev = cache.revision /\ from = moment /\ until = cache.until
    OBVIOUS
  <2>2. Belongs(shows, rev, from, until) /\ rev \in Int /\ until \in Int /\ rev <= revision
    BY <1>4, <2>1 DEF SeenInv, CacheInv, Behind
  <2>3. Belongs(shows, rev, from, until)'
    BY <1>10, <2>2
  <2>4. Belongs(shows, rev, moment, until)'
    BY <1>3, <2>1, <2>3 DEF Belongs
  <2> QED BY <2>1, <2>4
<1>12. FlightInv'
  <2> SUFFICES ASSUME flight # NoFeed, FlightHolds'
               PROVE  Belongs(FlightShows, flight.revision, flight.at, FlightUntil)'
    BY DEF FlightInv
  <2>1. flight.revision <= revision /\ flight.revision \in Int /\ flight.at \in Int
    BY <1>4 DEF SeenInv, Behind
  <2>2. /\ FlightHolds
        /\ flight.pc = "reading" => revision' = revision
    BY <1>2, <1>3, <2>1 DEF FlightHolds
  <2>3. FlightShows' = FlightShows /\ FlightUntil' = FlightUntil
    BY <1>2, <1>3, <2>2 DEF FlightShows, FlightUntil
  <2>4. FlightUntil \in Int
    <3>1. flight \in Flight /\ moment \in Moment /\ campaign \in [Campaigns -> Campaign \cup {Missing}]
      BY DEF FeedTyped, FeedTypeOK, PromotionsTypeOK
    <3>2. CASE flight.pc = "reading"
      <4>1. NextTransition(campaign, flight.at) \in Moment \cup {End}
        BY <3>1, TransitionAhead DEF Flight
      <4> QED BY <1>3, <3>2, <4>1 DEF FlightUntil, End, PromotionsAssumption
    <3>3. CASE flight.pc # "reading"
      <4>1. flight.next \in Moment \cup {End}
        BY <3>1 DEF Flight
      <4> QED BY <1>3, <3>3, <4>1 DEF FlightUntil, End, PromotionsAssumption
    <3> QED BY <3>2, <3>3
  <2>5. PICK shows, rev, from, until :
          shows = FlightShows /\ rev = flight.revision /\ from = flight.at /\ until = FlightUntil
    OBVIOUS
  <2>6. Belongs(shows, rev, from, until) /\ rev \in Int /\ until \in Int /\ rev <= revision
    BY <2>1, <2>2, <2>4, <2>5 DEF SeenInv, FlightInv
  <2>7. Belongs(shows, rev, from, until)'
    BY <1>10, <2>6
  <2> QED BY <2>3, <2>5, <2>7
<1> QED BY <1>6, <1>7, <1>8, <1>9, <1>11, <1>12 DEF SeenInv

LEMMA SeenInit ==
  ASSUME FeedSpecInit
  PROVE  SeenInv
<1>1. cache = NoFeed /\ flight = NoFeed /\ revision = 0 /\ \A w \in Fetches : fetch[w].pc = "idle" /\ fetch[w].revision = 0
  BY DEF FeedSpecInit, FeedInit, PromotionsInit, NotAsking
<1> QED BY <1>1 DEF SeenInv, Witness, Behind, Joined, FlightInv, CacheInv, FeedShowsPrices, Doing

LEMMA SeenStep ==
  ASSUME PromotionsAssumption, FeedAssumption, FeedTyped, SeenInv, [FeedNext]_<<promotionVars, feedVars>>
  PROVE  SeenInv'
<1>1. ASSUME NEW w \in Fetches,
             Get(w) \/ ReadRevision(w) \/ RevisionFails(w) \/ BackedOff(w) \/ Hit(w) \/ Sent(w)
      PROVE  SeenInv'
  BY <1>1, OwnSeen
<1>2. ASSUME NEW w \in Fetches, Generate(w) PROVE SeenInv'
  BY <1>2, GenerateSeen
<1>3. ASSUME ReadCampaigns \/ ReadAgain PROVE SeenInv'
  BY <1>3, FlightSeen
<1>4. ASSUME GenerationEnds \/ GenerationStale \/ GenerationFails PROVE SeenInv'
  BY <1>4, EndsSeen
<1>5. ASSUME PromotionsNext, fetch' = Witnessed(fetch, campaign', moment'), UNCHANGED <<cache, refusing, flight>>
      PROVE  SeenInv'
  BY <1>5, ShopSeen
<1>6. ASSUME UNCHANGED <<promotionVars, feedVars>> PROVE SeenInv'
  BY <1>6 DEF promotionVars, feedVars, SeenInv, Witness, Behind, Joined, FlightInv, FlightHolds, FlightShows,
              FlightUntil, CacheInv, FeedShowsPrices, Doing, Belongs, Knows
<1> QED BY <1>1, <1>2, <1>3, <1>4, <1>5, <1>6 DEF FeedNext, Feed

(* The feed keeps to its types, with any number of fetches: what is cached *)
(* or in flight is a body or a generation (createMerchantFeedCoordinator). *)
THEOREM FeedKeepsTypes ==
  ASSUME PromotionsAssumption, FeedAssumption
  PROVE  FeedSpec => [](PromotionsTypeOK /\ FeedTypeOK)
<1>1. FeedSpecInit => FeedTyped
  BY FeedTypedInit
<1>2. FeedTyped /\ [FeedNext]_<<promotionVars, feedVars>> => FeedTyped'
  BY FeedTypedStep
<1>3. FeedTyped => PromotionsTypeOK /\ FeedTypeOK
  BY DEF FeedTyped
<1> QED BY <1>1, <1>2, <1>3, PTL DEF FeedSpec

(* Whatever is answered, from the cache, joined or generated, shows        *)
(* campaigns that ran at some moment since it was asked for: a body is     *)
(* kept for the revision and the stretch of time it was read in            *)
(* (createMerchantFeedCoordinator, advanceRevision).                       *)
THEOREM AnswersShowPrices ==
  ASSUME PromotionsAssumption, FeedAssumption
  PROVE  FeedSpec => []FeedShowsPrices
<1>1. FeedSpecInit => FeedTyped /\ SeenInv
  BY FeedTypedInit, SeenInit
<1>2. FeedTyped /\ SeenInv /\ [FeedNext]_<<promotionVars, feedVars>> => (FeedTyped /\ SeenInv)'
  BY FeedTypedStep, SeenStep
<1>3. FeedTyped /\ SeenInv => FeedShowsPrices
  BY DEF SeenInv
<1> QED BY <1>1, <1>2, <1>3, PTL DEF FeedSpec

=============================================================================
