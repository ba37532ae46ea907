----------------------------- MODULE MerchantFeed -----------------------------
(***************************************************************************)
(* The product feed that Google and Facebook fetch: generated at most once *)
(* at a time, cached for the prices in force, and refused for a while      *)
(* after a failure.                                                        *)
(*                                                                         *)
(*   merchant-feed-coordinator.ts   cache, back-off, single flight         *)
(*   merchant-feed-service.ts       one coordinator of a process           *)
(*   merchant-offer-repository.ts   the prices a body is made of           *)
(*                                                                         *)
(* Fetches run on one event loop: what happens between two awaits is a     *)
(* step.  A body is kept as the set of campaigns it shows as running.  The *)
(* catalogue's own facts, which no revision follows, are left out.  `seen` *)
(* of a fetch, the sets that have been true since it began, exists for the *)
(* property only.                                                          *)
(***************************************************************************)
EXTENDS Promotions

CONSTANTS Fetches,     \* requests for the feed under way at once
          NoFeed,      \* nothing cached, or no generation in flight
          CacheTime,   \* MERCHANT_FEED_CACHE_TTL_SECONDS
          BackoffTime  \* MERCHANT_FEED_FAILURE_BACKOFF_SECONDS

Body == [shows : SUBSET Campaigns, revision : 0..MaxRevision, until : Nat]
Flight == [pc : {"reading", "read", "checked"}, revision : 0..MaxRevision, at : Moment,
           shows : SUBSET Campaigns, next : Moment \cup {End}, same : BOOLEAN]

ASSUME FeedAssumption == /\ {CacheTime, BackoffTime} \subseteq Nat \ {0}
                         /\ NoFeed \notin Body \cup Flight

VARIABLES cache,     \* successCache
          refusing,  \* until when the failureSentinel holds
          flight,    \* the generation in flight
          fetch      \* fetch[w]: one get

feedVars == <<cache, refusing, flight, fetch>>

NotAsking == [pc |-> "idle", revision |-> 0, shows |-> {}, seen |-> {}]

FeedTypeOK ==
  /\ cache \in Body \cup {NoFeed}
  /\ refusing \in Nat
  /\ flight \in Flight \cup {NoFeed}
  /\ fetch \in [Fetches -> [pc : {"idle", "asking", "deciding", "joined", "waiting", "woken", "answered"},
                            revision : 0..MaxRevision, shows : SUBSET Campaigns, seen : SUBSET SUBSET Campaigns]]

FeedInit ==
  /\ cache = NoFeed /\ refusing = 0 /\ flight = NoFeed
  /\ fetch = [w \in Fetches |-> NotAsking]

-----------------------------------------------------------------------------
(* isActiveAt and findNextTransition, over the published campaigns.        *)
On(book) == {c \in Campaigns : book[c] # Missing /\ book[c].on}
Running(book, now) == {c \in On(book) : book[c].set.from <= now /\ now < book[c].set.to}

NextTransition(book, now) ==
  LET ahead == {n \in UNION {{book[c].set.from, book[c].set.to} : c \in On(book)} : n > now}
  IN  IF ahead = {} THEN End ELSE CHOOSE n \in ahead : \A k \in ahead : n <= k

(* Whoever is asking has now seen these prices too.                        *)
Witnessed(all, book, now) ==
  [w \in Fetches |-> IF all[w].pc = "idle" THEN all[w] ELSE [all[w] EXCEPT !.seen = @ \cup {Running(book, now)}]]

BackingOff == moment < refusing

-----------------------------------------------------------------------------
(* get.                                                                    *)

Doing(w, place) == fetch[w].pc = place
LetGo(w) == fetch' = [fetch EXCEPT ![w] = NotAsking]

Get(w) ==
  /\ Doing(w, "idle") /\ ~BackingOff
  /\ fetch' = [fetch EXCEPT ![w] = [NotAsking EXCEPT !.pc = "asking", !.seen = {Running(campaign, moment)}]]
  /\ UNCHANGED <<promotionVars, cache, refusing, flight>>

ReadRevision(w) ==
  /\ Doing(w, "asking")
  /\ fetch' = [fetch EXCEPT ![w].pc = "deciding", ![w].revision = revision]
  /\ UNCHANGED <<promotionVars, cache, refusing, flight>>

(* A failure anywhere refuses further fetches for a while.                 *)
RevisionFails(w) ==
  /\ Doing(w, "asking")
  /\ refusing' = moment + BackoffTime
  /\ LetGo(w)
  /\ UNCHANGED <<promotionVars, cache, flight>>

(* A failure was noted while the revision was read.                        *)
BackedOff(w) ==
  /\ fetch[w].pc \in {"deciding", "woken"} /\ BackingOff
  /\ LetGo(w)
  /\ UNCHANGED <<promotionVars, cache, refusing, flight>>

Fresh(w) == cache # NoFeed /\ moment < cache.until /\ cache.revision = fetch[w].revision

Hit(w) ==
  /\ Doing(w, "deciding") /\ ~BackingOff /\ Fresh(w)
  /\ fetch' = [fetch EXCEPT ![w].pc = "answered", ![w].shows = cache.shows]
  /\ UNCHANGED <<promotionVars, cache, refusing, flight>>

(* The generation's own clock is read when it starts.                      *)
Generation(r) == [pc |-> "reading", revision |-> r, at |-> moment, shows |-> {}, next |-> End, same |-> FALSE]

(* Nothing cached fits: join the generation of this revision, wait for     *)
(* that of another one to end, or start.                                   *)
Generate(w) ==
  /\ fetch[w].pc \in {"deciding", "woken"} /\ ~BackingOff
  /\ Doing(w, "deciding") => ~Fresh(w)
  /\ cache' = IF Doing(w, "deciding") THEN NoFeed ELSE cache
  /\ flight' = IF flight = NoFeed THEN Generation(fetch[w].revision) ELSE flight
  /\ fetch' = [fetch EXCEPT ![w].pc = IF flight'.revision = fetch[w].revision THEN "joined" ELSE "waiting"]
  /\ UNCHANGED <<promotionVars, refusing>>

-----------------------------------------------------------------------------
(* startGeneration.                                                        *)

Generating(place) == flight # NoFeed /\ flight.pc = place

(* One query reads every published campaign and its targets.               *)
ReadCampaigns ==
  /\ Generating("reading")
  /\ flight' = [flight EXCEPT !.pc = "read", !.shows = Running(campaign, flight.at),
                              !.next = NextTransition(campaign, flight.at)]
  /\ UNCHANGED <<promotionVars, cache, refusing, fetch>>

ReadAgain ==
  /\ Generating("read")
  /\ flight' = [flight EXCEPT !.pc = "checked", !.same = (revision = flight.revision)]
  /\ UNCHANGED <<promotionVars, cache, refusing, fetch>>

(* Those who joined get its result; those who waited look again.           *)
Ends(result) ==
  /\ flight' = NoFeed
  /\ fetch' = [w \in Fetches |->
       CASE Doing(w, "joined") /\ result = NoFeed -> NotAsking
         [] Doing(w, "joined") /\ result # NoFeed -> [fetch[w] EXCEPT !.pc = "answered", !.shows = result.shows]
         [] Doing(w, "waiting") -> [fetch[w] EXCEPT !.pc = "woken"]
         [] OTHER -> fetch[w]]

(* A bug: a transition that passed during the generation is not noticed.   *)
CoherentByRevision == flight.same

Coherent == flight.same /\ moment < flight.next

Lesser(m, n) == IF m < n THEN m ELSE n

GenerationEnds ==
  /\ Generating("checked") /\ Coherent
  /\ cache' = [shows |-> flight.shows, revision |-> flight.revision, until |-> Lesser(moment + CacheTime, flight.next)]
  /\ refusing' = 0
  /\ Ends(cache')
  /\ UNCHANGED promotionVars

(* The prices changed underneath: to be asked again, without a back-off.   *)
GenerationStale ==
  /\ Generating("checked") /\ ~Coherent
  /\ Ends(NoFeed)
  /\ UNCHANGED <<promotionVars, cache, refusing>>

GenerationFails ==
  /\ flight # NoFeed /\ flight.pc # "checked"
  /\ refusing' = moment + BackoffTime
  /\ Ends(NoFeed)
  /\ UNCHANGED <<promotionVars, cache>>

(* The answer goes out.                                                    *)
Sent(w) ==
  /\ Doing(w, "answered")
  /\ LetGo(w)
  /\ UNCHANGED <<promotionVars, cache, refusing, flight>>

-----------------------------------------------------------------------------
Feed ==
  \/ \E w \in Fetches : \/ Get(w) \/ ReadRevision(w) \/ RevisionFails(w) \/ BackedOff(w)
                        \/ Hit(w) \/ Generate(w) \/ Sent(w)
  \/ ReadCampaigns \/ ReadAgain \/ GenerationEnds \/ GenerationStale \/ GenerationFails

FeedSpecInit == PromotionsInit /\ FeedInit

FeedNext ==
  \/ Feed
  \/ PromotionsNext /\ fetch' = Witnessed(fetch, campaign', moment') /\ UNCHANGED <<cache, refusing, flight>>

FeedSpec == FeedSpecInit /\ [][FeedNext]_<<promotionVars, feedVars>>

-----------------------------------------------------------------------------
(* A body that is answered, generated, joined or cached, shows the         *)
(* campaigns that were running at some moment since it was asked for,      *)
(* whatever was published, edited, ended or begun meanwhile                *)
(* (createMerchantFeedCoordinator, advanceRevision).                       *)
FeedShowsPrices ==
  \A w \in Fetches : Doing(w, "answered") => fetch[w].shows \in fetch[w].seen

=============================================================================
