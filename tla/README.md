# TLA+ models of the Reedri back end

Reedri is a ride-hailing server: one NestJS process over PostgreSQL (Prisma),
Redis (BullMQ and a cache) and Socket.IO. This directory models the parts of it
that carry its correctness, checks them with TLC and proves the main safety
properties with TLAPS. Paths below are relative to the repository's `src/`.

## The system

| Part | State | Operations | Modelled |
|---|---|---|---|
| Ride requests (`ride-requests.service.ts`) | `ride_requests` | create, cancel | `Negotiation` |
| Offers (`offers.service.ts`) | `ride_offers` and their expiry jobs | submitOffer, acceptOffer, expireIfStillPending, expireAllPendingOffersForDriver, the scheduling of jobs | `Negotiation` |
| Trips (`trips.service.ts`) | `trips` | start, complete | `Negotiation` |
| Expiry worker (`offer-expiry.processor.ts`) | the BullMQ queue `offer-expiry` | process, with retries, stalls and restarts | `ExpiryQueue`, `Negotiation` |
| Tables (`prisma/schema.prisma`) | rows and unique constraints | the statements and transactions of the services | `RideStore`, `DriverApplication`, `Presence`, `Sessions`, `Ratings` |
| Driver presence (`drivers.service.ts`) | `isOnline`, location, identity cache | setOnlineStatus, goOffline, updateLocation | `Presence`; the disconnect job in `Negotiation` |
| Realtime gateway (`realtime.gateway.ts`) | sockets, rooms, `activeTripRiderByDriver`, map subscriptions, rate limiters | event handlers, message handlers, connect, disconnect | `Presence`; the map of active trips in `Negotiation` |
| Driver application (`driver-application.service.ts`) | `driver_applications`, `driver_profiles` | start, three steps, optional documents, review | `DriverApplication` |
| Documents and storage (`driver-documents.service.ts`, `local-disk-storage.service.ts`) | `driver_documents`, files | upload | `DriverApplication` |
| Sessions and passwords (`auth.service.ts`, `token-cleanup.service.ts`) | users, refresh tokens, reset codes | register, login, refresh, logout, forgot and reset password, clean-up | `Sessions` |
| Ratings (`ratings.service.ts`, `users.service.ts`) | ratings, `users.rating` | rateTrip, recalculateRating | `Ratings`, over `RideStore` |
| Matching (`matching.service.ts`) | none; reads `driver_profiles` | findNearbyDrivers, whom a new request is broadcast to | `Presence` |
| Users (`users.service.ts`), rate limiter (`ws-rate-limiter.ts`), cache (`cache.service.ts`) | active profile; hit times; cached identities | setActiveProfile; consume, clear; getOrSet | `Presence`, `WsRateLimiter` |
| Geometry, DTOs, filters, health | none of their own | reads and formatting | no: nothing changes state |

How the parts interact. A handler (HTTP call or socket message) is an async
function; it reads rows, checks them, and writes by id after further awaits. No
handler takes a lock and no update repeats its check in its `where`, so what
protects the data is the unique constraints and the order of the statements in a
transaction. `submitOffer` adds a delayed job per offer, `acceptOffer` removes
jobs, `goOffline` adds one per driver; the worker calls back into
`OffersService`. Services emit domain events, which the gateway handles
synchronously.

What is hard: handlers overlapping at every await; jobs racing handlers; the
database and the queue written by separate calls, with failures or a restart in
between; job ids that are reused while finished jobs stay in the queue; uploads
that replace each other's files; tokens, codes and averages that one request reads
and another replaces. `PROJECT.json` lists each hazard at its line.

## Modules

- **`RideStore`**: the tables of a ride and each transaction as one action.
- **`ExpiryQueue`**: what each BullMQ operation does to one job (a library,
  modelled from its use here). It fixes what the code leaves at defaults:
  finished jobs are kept, so an `add` with their id does nothing; a job held by
  the worker cannot be removed; one stall is forgiven. `MaxAttempts` is
  `JOB_RETRY_OPTIONS.attempts`.
- **`Negotiation`**: the handlers, the worker and the gateway's map over both.
  One action per await: `SubmitRead`, `SubmitUpsert`, `SubmitUnschedule` and
  `SubmitSchedule` are `submitOffer`, and so on; `call[c]` holds what the handler
  has read. `Abort` is a rejected promise at any await, `Crash` a restart (the
  calls and the map are lost, tables and queue stay), `ProcessFail` a job handler
  that throws, `StalledCheck` BullMQ finding a job whose worker is gone.
- **`RideLifecycle`**: the abstract specification. A rider opens a request,
  drivers bid, one bid becomes the deal, the ride is started and completed or
  cancelled, each in one step and without jobs or failures.
- **`DriverApplication`**: the application, the uploads and the review, again one
  action per await. `issued` records the storage keys drawn, since `randomUUID`
  does not repeat.
- **`WsRateLimiter`**: `consume` as operators on one user's timestamps. Its filter is
  the recursive function `After`, which the proofs unfold.
- **`Presence`**: sockets, limiters and map subscriptions of the gateway, online
  status and location, the identity lookup through the cache, the switch of mode,
  and the broadcast of a new ride request to the drivers online near it. Every call
  of the drivers' service goes through the same steps, `CacheGet`, `CacheFind`, `CacheSet`,
  `Write`, `Emit`; its `kind` says which of the services' functions it is. `passed`,
  `cleared`, `pins` and `failed` (and `had` of a call) are history: what each limiter let
  through, when a user's limiters were cleared, what maps show. No guard of the code
  reads them. `Messages` bounds which of the four limited messages clients send,
  `MaxReturns` how often a user connects after a connection was closed (`None`: any
  number). The token check and the join of `handleConnection` are one step. `Approve`
  is the approval of `DriverApplication`; what `goOffline` does after its event is
  `OfflineSchedule` of `Negotiation`.
- **`Sessions`**: `AuthService` and the nightly removal of expired tokens. A request
  is in `call[c]`, at the await it waits for; the transactions of `forgotPassword` and
  `resetPassword` are two steps each, since at READ COMMITTED an `updateMany` touches
  the rows its statement saw and appears at the commit. `family`, `opened`, `late`,
  `forked`, `crossed`, `spent` and `overlapped` are history: which login a token comes
  from, with which password, and which requests collided.
- **`Ratings`**: `rateTrip` and `recalculateRating`, beside every transaction that
  `RideStore` has, in any order its services could commit them (`Ride`). A score
  matters only through averages, so `users.rating` is the set of rows averaged.
- **`MCNegotiation`**, **`MCDriverApplication`**, **`MCPresence`**, **`MCSessions`**,
  **`MCRatings`**: symmetry sets for TLC, and the views of `sessions` and `presence`.
- **`RideStore_proofs`**, **`Negotiation_proofs`**, **`DriverApplication_proofs`**,
  **`Presence_proofs`**, **`Sessions_proofs`**, **`Ratings_proofs`**: a module's
  theorems. **`Lifecycle_proofs`** continues `Negotiation_proofs` for calls kept apart,
  with the refinement; **`Limits_proofs`** continues `Presence_proofs` for the limiters.

Definitions under a comment that says "Mutant" are faulty
variants of the definition that follows; each property is known to fail when its
variant takes the definition's place.

`Negotiation`, `DriverApplication` and `Presence` have a constant `Exclusive`. `FALSE` is the program: calls
overlap at every await. With `TRUE`, calls (and jobs) on one ride request, on one
application or of one user (disconnections excepted: nobody can delay those) wait
for each other; those runs say what the code guarantees to
callers that do not race, and they are the contract a lock would restore. `Sessions`
and `Ratings` always overlap freely; their properties except by name what a collision
left behind.

What is abstracted. Coordinates, fares' values, names, messages and DTOs; read-only
endpoints; the guards (JWT, role, and outside `Presence` the active profile), which
only refuse calls, so leaving them out admits more behaviours; distances (a viewport
is the set of places within its radius, of a map or of a pickup); the limit of 50
drivers that a request is sent to; the content of notifications; hashes (equal when
what was hashed is) and access tokens, which are not stored. The four limiters share
one limit and window. A refused call changes nothing and has no action.

What is assumed. Each Prisma call and, outside `Sessions`, each `$transaction([...])`
is atomic: the row locks are held to the commit, and the one outcome that differs from a serial
order, a deadlock victim, is `Abort`. A `findUnique` with `include` is one read.
`getJob` followed by `remove` is one step. BullMQ runs one job at a time
(`concurrency` is not set). The expiry of a dead worker's lock and the check that
finds it are one step. A user and their driver profile have one name. `Abort` of every
request is a restart in `Sessions` and `Ratings`, which keep nothing in memory. Random
tokens and keys do not repeat, and a guessed code is not modelled.

## Runs

| Run | Instance | What it shows |
|---|---|---|
| `race` | 2 drivers, 1 request, 2 overlapping calls, aborts and crashes | An offer is ACCEPTED only on the trip it led to (`AcceptedOfferHasTrip`); request and trip status drift apart in one way only, a request cancelled over a live trip (`RequestTracksTrip`); trips are between the right parties (`TripBetweenParties`); positions go only to a rider of the driver (`RelayToOwnRider`); the worker keeps its job (`WorkerHoldsActiveJob`); what handlers rely on stays true (`ReadsStayTrue`); a deal is final (`DealIsFinal`) |
| `exclusive` | 2 drivers, 2 fares, 1 request, all failures, calls kept apart | `NoOfferOutlivesRequest`, `TripMirrorsRequest`, `DealHonoursOffer`, types, and the refinement `ImplementsLifecycle` |
| `timers` | 1 driver who comes and goes, 2 requests, no failures, fair | `PendingOfferHasTimer`, `ImplementsLifecycle` for two requests at once, and the liveness property `PendingOfferResolves` |
| `app_race` | 2 applicants, 1 plate, 3 keys, 2 overlapping calls, failing uploads and aborts | `DocumentHasFile`, `ReviewedIsComplete` |
| `app_alone` | 1 applicant, 2 plates, 3 document types, 4 keys, calls kept apart | `ProfileMeansVerified`, `StampsMatchStatus`, `NoOrphanFile`; what is reviewed stays what was submitted until it is rejected and restarted (`ReviewedIsFixed`) |
| `presence` | 1 user who drives, rides and watches, 2 sockets, 2 places, 2 calls, aborts and crashes, the user's requests one at a time | `LookupNotStale`, `SubscriberIsConnected`, `RiderModeIsOffline`, `RideNotToOwner`, `PinIsCurrent`, types |
| `limits` | 1 user, 2 sockets that are closed one by one, the two limiters of offers, limit 2, window 2, clock to 2 | a window holds at most the limit's worth of messages let through, and as much again for each socket of the user closed in it (`WithinLimit`); nobody is refused before the limit (`RefusesAtLimit`) |
| `sessions` | 1 user, 2 passwords, 2 tokens, 2 codes, 2 overlapping requests, any of which may fail | live sessions are of the current password (`SessionsMatchPassword`), one token of a login is alive (`OneLivePerLogin`), one code is valid (`OneValidCode`) and serves once (`OneTimeCode`), an ended session stays ended (`EndedStaysEnded`); types, with every row, and every request past its checks, of a registered user |
| `ratings` | 2 users, one of them a driver, 2 trips, 2 overlapping requests, any of which may fail | the stored rating knows every rating received (`RatingIsAverage`); ratings are between the parties of a trip, once each (`RatedBetweenParties`); types |
| `v_accept` | 1 driver, 2 calls | violated: an acceptance commits after the offer expired with its cancelled request |
| `v_offline` | 1 driver, 1 call | violated: a second disconnection schedules nothing, the id of the finished job being taken |
| `v_relay` | 1 driver, 1 call | violated: cancelling a matched ride leaves the driver's entry in the map |

Bounds. Two drivers, two calls and the worker are three actors on one request:
enough for every pairwise race and for a third party between a read and its
write. One fare in `race` (the theorems below cover any number), two in
`exclusive`, where a renewed bid at another fare must be the one that is matched.
Two attempts per job reach both outcomes of a failure. Two requests in `timers`
are what a driver-wide job and the one map entry per driver need. `Leavers` bounds
which drivers come and go; where it is empty a ride may end with nothing left to
do, so those runs do not check deadlock. Three keys in `app_race` allow a licence
for each applicant and a replacement; its step 3 has no file of its own and
`app_alone` covers those. When the bound `Keys` is used up the next save fails.
In `presence` one user is driver and rider at once, so every push, lookup and
disconnection meets itself; nothing but a push to a map and the broadcast of a request
crosses users, and every property is proved for any number. The clock
stands still there and runs in `limits`, where nothing else bears on the properties.
Three instants and windows of two put messages inside one window, astride two and in
windows apart. Two sockets, closed one by one and not opened again (`MaxReturns` is 0),
are what it takes to clear the limiters of a client that stays. Two of the four limiters
are enough to mix one up with another. The view of `presence` leaves out the history of
the limiters, which grows with every reconnection and which nothing there reads.

`sessions` has one account, since no statement of `AuthService` touches two. Two tokens
are a login and its refresh, or two logins; two codes are a code and its replacement;
two requests are every pairwise collision. The proofs cover any number of each. Its
view leaves out the history of dead tokens and the time of used codes, which no guard
and no property reads. In `ratings` both users are riders and one is also a driver, so
that a trip with oneself and a user rated in both roles occur; two trips are what two
ratings of one user by one other need.

Fairness (`timers` only). Weak fairness of a handler that has begun and of the
worker: promises settle. Weak fairness of a delay and of the stalled check: time
passes. Strong fairness of taking a waiting job: the worker polls, and with
`Exclusive` the calls of a driver may keep interrupting. Nothing is assumed of
users, and no failure occurs in that run: a failed schedule, an exhausted job or
a crash between the two databases does lose a timer.

## Proofs

Every invariant and action property that a passing run checks, and the refinement, is a theorem
for every value of the constants: any number of users, drivers, requests, calls, keys,
attempts, any limit and window. Unless the lists below say otherwise a theorem holds
with `Exclusive` either way and any set of failures. Where one is marked "under
`Exclusive`", overlapping calls do break the property, and the section on the
documentation says how; where it is marked "without failures", a call or restart that
fails between two stores does. The inductive invariants were model-checked on the
instances of the runs before they were proved.

`Negotiation_proofs`. The invariant `Inv` is the type invariant, the three table
invariants, `RelayToOwnRider`, `WorkerHoldsActiveJob` and `ReadsStayTrue`. The
last is what makes the others inductive: an action that writes by id can only be
judged by what its handler still knows. `RideStore_proofs` proves the table part
once, over `StoreStep`, the disjunction of the transactions with the little they
require: the tables keep their types, rows are never removed and their owners
never change (`StoreGrows`), and the invariants are kept. `NextIsStoreStep` shows
that each step is one of these or leaves the tables alone; from `StoreGrows` the
knowledge of every handler lasts (`KnowledgeLasts`).

- `TypeCorrect`, `OneAcceptedOffer`, `StatusesTrack`, `PartiesOfTrip`,
  `RelaysToOwnRider`, `HandlersKnow`, `WorkerKeepsJob`: the invariants of `race` and the types.
- `FinalDeal`: the action property `DealIsFinal`, from `StoreGrows`.

`Lifecycle_proofs`. `ExclusiveInv` adds to `Inv` what keeping calls apart gives: at most
one call or job is about a request (`CallsApart`, `WorkerApart`), so what it has read is
still what the tables hold (`ReadsAreFresh`, `WorkerReadIsFresh`). Hence every step is an
`OrderlyStep` (`NextIsOrderly`): it leaves the tables alone, or is a transaction on rows in
the statuses its handler checked. Such steps keep request, offers and trip of a ride in
agreement (`OneStory`, `StoryGoesOn`), and each is a step of `RideLifecycle` or a stutter
(`OrderlyStepImplements`); queue, map, failures and restarts are stutters.

- `OffersEndWithRequest`, `StatusesAgree`, `DealsHonourOffers`: `NoOfferOutlivesRequest`,
  `TripMirrorsRequest` and `DealHonoursOffer`, under `Exclusive`.
- `ImplementsRideLifecycle`: the refinement `ImplementsLifecycle`, under `Exclusive`.
- `PendingOffersHaveTimers`: `PendingOfferHasTimer`, under `Exclusive` and without
  failures. `TimerInv` follows the jobs: an active job is the worker's, a finished one
  left no offer pending behind it, and a call about to add a job finds its id free.

`DriverApplication_proofs`. The invariant adds to the properties what each handler
has checked (`HandlersKnow`) and who holds which key: a saved key is nobody
else's until its row is written (`SavedKeys`); a found key, if some document's, is
that of the document about to be replaced, and no document's afterwards
(`FoundKeys`); each key is one document's (`DocumentKeys`). From these, deleting a
found key never takes a file that a row names.

- `ApplicationTypes`, `DocumentsHaveFiles`, `OnlyCompleteReviewed`.
- `DriversAreVerified`, `StampsAgree`: `ProfileMeansVerified` and `StampsMatchStatus`,
  under `Exclusive`. `AloneInv` says that calls on one application are apart and that the
  status (`StatusIsFresh`) and the document's key (`DocumentIsFresh`) which a call has
  read are still those of the row.
- `SubmissionsAreFixed`: `ReviewedIsFixed`, under `Exclusive`: a step writes only while the
  status it read is still that of the row, and an optional upload, which asks for no
  status, holds a type that is not required (`HandlersKnow`).
- `FilesAccountedFor`: `NoOrphanFile`, under `Exclusive` and without failures, from the
  same invariant: the key an upload replaces is the one it read and goes on to delete.

`Presence_proofs`. The invariant says what each call is about (`CallsBusy`) and what
its lookup knows (`CallsKnow`): a profile is never taken away, so whoever had one at
the beginning is told so by the table, and a cached identity is true (`CacheTrue`).
`Modes` adds, for requests that do not overlap, that a status request runs in driver
mode and that nothing puts a user online beside a switch; a switch whose lookup finds
no profile leaves nobody online because the lookup is not stale.

- `SubscribersConnected`, `LookupsFresh`: with calls overlapping freely.
- `RidersOffline`, and from it `RidesNotToOwner` (a request is made in rider mode, and
  beside it no switch runs): under `Exclusive`.
- `PinsCurrent`: `PinIsCurrent`, under `Exclusive`. `Maps` adds that a report about to
  be pushed carries the stored place (`ReportIsFresh`), and excepts from the property
  only the time between a write and its push (`MapCurrent`).

`Limits_proofs`. `LimitersCount` relates a limiter's timestamps to all that it let
through (`Keeps`): since the last clear they are the last of those, in order, and
everything dropped is out of the window. What came before the last clear is paid for by
the clears: in a window still open there are at most `Limit` such messages for each clear
in it (`Accounted`). So an open window holds at most `Limit` times one more than its
clears, and one that is over no longer changes (`Bounded`). What `After` computes for
every sequence needs an induction; it is done with the least index at which a claim would
fail, by `WFMin` of the library.

- `LimitsHold`, `RefusalsAtLimit`, `PresenceTypes`: `WithinLimit`, `RefusesAtLimit`, `TypeOK`.

`Sessions_proofs`. `Basic` is the types with what a request in flight is about (`Busy`)
and that a token with a row or a family was issued. Each property has an invariant of
its own over the requests that could break it:

- `PasswordInv`, for `SessionsMatchPassword`: a request about to issue a token holds the
  current password unless a reset overlapped it, and a reset about to commit has seen
  every live token of its user that is not `late`. Theorem `SessionsCurrent`.
- `FamilyInv`, for `OneLivePerLogin`: a request about to issue a refreshed token is alone
  in its family, and two about to revoke hold the same token only in a forked one.
  Theorem `RotationHolds`.
- `CodeInv` and `SpentInv`: an open `forgotPassword` that no other overlaps has seen every
  unused code of its user; a spent code is used, and no request holds it. Theorems
  `CodesSingle` and `CodesOneTime`.
- `EndedStep`: whoever issues a token of a family has it in hand and its row was there
  when it was revoked (`Renewing`), so a family with no live token and no such request
  is not revived. Theorem `SessionsStayEnded`.

`Ratings_proofs`. `StepIsStoreStep` puts every step into `RideStore_proofs`' `StoreStep`,
whose `StoreGrows` says that a trip keeps its parties; so what `rateTrip` decided before
the insert is still true at it (`RatingsBetweenParties`). `AverageInv` says which calls
know of which others: two that recalculate one user at once are both `overlapped`, and a
call that is not has read every rating received so far (`AverageHolds`).

Assumptions: `StoreAssumption`, `QueueAssumption`, `NegotiationAssumption`,
`ApplicationAssumption`, `LimiterAssumption`, `PresenceAssumption` and
`SessionsAssumption`, on the constants only (null is no value, at least one attempt, no
document type both required and optional).

Only model-checked: the liveness property `PendingOfferResolves` (fairness is out of the
prover's reach), and the three violations, which are counterexamples.

## Where the code and its documentation differ

Three disagreements are `violation` runs and findings in `PROJECT.json`: an acceptance
that overtakes a cancellation, a job id that is still taken, and a map entry that a
cancellation leaves. Two more are stated in passing runs, by properties that say what is
left of the documented claim:

- The limiters are keyed by user, and `handleDisconnect` clears them when any socket of
  the user closes (`realtime.gateway.ts:113`). A user with two sockets sends the limit's
  worth on one, closes the other, and sends as much again on the first, in one window.
  The comment at `realtime.gateway.ts:82` says "Per-user-per-event limits", and the
  repository's `README.md:96` "Per-connection rate limits"; neither a user nor a
  connection is held to them. `WithinLimit` counts the closings for that reason: with
  `Limit` alone on its right-hand side TLC finds the sequence above.
- `submitVehicle` requires the documents and nothing of step 1, so an application goes to
  review, and is approved, without personal information; the comment at
  `driver-application.service.ts:160` says "All three steps are in". `ReviewedIsComplete`
  asks for the documents and the plate only.

The first of the three comes from one pattern, a check made on what was read
and an update by id. `ImplementsLifecycle` holds once calls on a request do not
overlap, so conditional updates (`updateMany` with the status in `where`) would be
enough for the tables.

What the same pattern and others like it allow elsewhere, each the reason why some
property is stated as it is:

- An expiry job that read an offer as PENDING writes EXPIRED over the acceptance that
  came in between (`offers.service.ts:181`; the comment at 168 says it leaves such an
  offer alone): `AcceptedOfferHasTrip` does not say that a trip's offer stays ACCEPTED.
- A late `start` restarts a cancelled trip, a late `cancel` cancels a completed ride, a
  late bid stays PENDING on a closed request: `RequestTracksTrip` is all that `race` can
  claim of the statuses.
- A second review replaces the first, and a step that overlaps the submission for review
  changes what is reviewed: `ProfileMeansVerified` and `ReviewedIsFixed` hold of calls
  kept apart.
- An offer renewed while the worker holds its old job is left without a timer; a status
  request that overlaps a switch to rider mode leaves a rider online, and may offer them
  their own ride; overlapping location reports may be pushed in the wrong order:
  `PendingOfferHasTimer`, `RiderModeIsOffline`, `RideNotToOwner` and `PinIsCurrent` hold
  only of calls kept apart. A location report of an offline driver puts a pin on the map.
- Two refreshes of one token at once fork a login; a login or refresh in flight during a
  reset leaves a session of the old password; two codes asked for at once are both
  valid; one code used twice at once sets two passwords; a logout while a refresh of the
  same token is under way does not end the session, since the refresh revokes by id and
  issues the next token. These are the exceptions in `OneLivePerLogin`,
  `SessionsMatchPassword`, `OneValidCode`, `OneTimeCode` and `EndedStaysEnded`, which
  counts such a refresh as alive.
- A recalculation that fails, or is overtaken by another, leaves the rating behind until
  the next one: the retry is refused, since the rating is there. This is `behind`.

Met in passing, and not about the models: `findNearbyDriverLocations` selects
`vehicle_make` and `vehicle_model` of `driver_profiles`, columns that the schema has on
`driver_applications`.

## Not modelled, and the plan

1. Proofs: all that the prover can state of the present properties is proved. What is
   left is to tell which single conditional updates are enough for the theorems under
   `Exclusive`, in place of keeping whole calls apart.
2. Left out: reading endpoints (`findOneForUser`, `getStatus`, `listForReview`,
   `findNearbyDriverLocations`, `me`, downloads), which change nothing and whose answers
   are what the tables hold; notifications that only emit; `haversine.ts` (floating
   point); SMS, health checks, validation, response envelopes, configuration, seed data
   and module wiring, which have no state or run once.
