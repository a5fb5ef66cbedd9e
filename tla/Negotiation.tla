---------------------------- MODULE Negotiation ----------------------------
(***************************************************************************)
(* The life of a ride request, from RideRequestsService.create to            *)
(* TripsService.complete: the riders' and drivers' calls, the expiry timers  *)
(* of the offers, the job worker, and the gateway's map of active trips.     *)
(*                                                                           *)
(* The server is one Node process.  A handler runs without interruption up   *)
(* to an await, so every action below is one awaited call together with the  *)
(* code up to the next one; between two actions of a handler any other       *)
(* handler may run.  What a handler read is kept in its record of `call'.    *)
(* A call that is refused (not found, forbidden, wrong status) changes       *)
(* nothing: it is a stuttering step and has no action.                       *)
(*                                                                           *)
(* The code takes no lock: Exclusive = FALSE is the program.  Exclusive =    *)
(* TRUE is the program with its handlers kept apart, so that nothing else    *)
(* works on a ride request while a handler or an expiry job does; it says    *)
(* what the code guarantees to callers that do not race.                     *)
(***************************************************************************)
EXTENDS RideStore, ExpiryQueue

CONSTANTS
  Calls,      \* bound on the handlers in flight at once
  Leavers,    \* bound on the drivers who come online and go offline
  Exclusive,  \* BOOLEAN: handlers of one ride request do not overlap
  Faults      \* the failures that may happen: "abort", "crash", "jobfail"

ASSUME NegotiationAssumption ==
  /\ Leavers \subseteq Drivers
  /\ Exclusive \in BOOLEAN
  /\ Faults \subseteq {"abort", "crash", "jobfail"}

VARIABLES
  isOnline,   \* [Drivers -> BOOLEAN]: DriverProfile.isOnline
  job,        \* [JobIds -> Job]: the offer-expiry queue, in Redis
  worker,     \* the OfferExpiryProcessor: its step and the job it holds
  call,       \* [Calls -> Call]: the handlers in flight and what they have read
  activeTripRiderByDriver   \* [Drivers -> Users \cup {None}]: the gateway's map

process == <<isOnline, job, worker, call, activeTripRiderByDriver>>
vars == <<store, process>>

----------------------------------------------------------------------------
(* <<r, d>> is the job offer-<id> of the offer of d on r;                    *)
(* <<None, d>> is the job driver-disconnect-<d>.                            *)
JobIds == (Requests \cup {None}) \X Drivers
OfferJob(r, d) == <<r, d>>
DisconnectJob(d) == <<None, d>>

(* The ride requests a job works on. *)
Footprint(j) == IF j[1] = None THEN Requests ELSE {j[1]}

CallStep == {"idle", "submitUpsert", "submitUnschedule", "submitSchedule",
             "acceptOthers", "acceptTx", "acceptUnschedule", "cancelTx",
             "startTx", "completeTx", "completeEmit", "offlineSchedule"}

Call == [pc: CallStep, r: Requests \cup {None}, d: Drivers \cup {None},
         u: Users \cup {None}, fare: Fares \cup {None}, sawTrip: BOOLEAN,
         unschedule: SUBSET Drivers]

IdleCall == [pc |-> "idle", r |-> None, d |-> None, u |-> None, fare |-> None,
             sawTrip |-> FALSE, unschedule |-> {}]

IdleWorker == [pc |-> "idle", job |-> <<None, None>>]

Worker == {IdleWorker} \cup [pc: {"read", "update", "finish"}, job: JobIds]

(* Each module keeps one type invariant: every variable is of its type. *)
TypeOK ==
  /\ StoreTypeOK
  /\ isOnline \in [Drivers -> BOOLEAN]
  /\ job \in [JobIds -> Job]
  /\ worker \in Worker
  /\ call \in [Calls -> Call]
  /\ activeTripRiderByDriver \in [Drivers -> Users \cup {None}]

Init ==
  /\ StoreInit
  /\ isOnline = [d \in Drivers |-> FALSE]
  /\ job = [j \in JobIds |-> AbsentJob]
  /\ worker = IdleWorker
  /\ call = [c \in Calls |-> IdleCall]
  /\ activeTripRiderByDriver = [d \in Drivers |-> None]

----------------------------------------------------------------------------
(* The ride requests that handlers and the worker are busy with. *)
Busy ==
  {call[c].r : c \in {e \in Calls : call[e].pc # "idle"}}
    \cup (IF worker.pc = "idle" THEN {} ELSE Footprint(worker.job))

MayTouch(rs) == Exclusive => rs \cap Busy = {}

(* Handler c, not in flight, runs up to its next await at step pc. *)
Begin(c, pc, fields) ==
  /\ call[c].pc = "idle"
  /\ call' = [call EXCEPT ![c] = [fields EXCEPT !.pc = pc]]

GoTo(c, pc) == call' = [call EXCEPT ![c].pc = pc]
Return(c)   == call' = [call EXCEPT ![c] = IdleCall]

(* The gateway's event handlers.  EventEmitter2 runs them inside emit, so each *)
(* is part of the step that emits.  The others only send to sockets.           *)
HandleOfferAcceptedSwapped(d, u) ==   \* mutant: keyed by the rider
  activeTripRiderByDriver' =
    [e \in Drivers |-> IF e = u THEN d ELSE activeTripRiderByDriver[e]]

HandleOfferAccepted(d, u) ==
  activeTripRiderByDriver' = [activeTripRiderByDriver EXCEPT ![d] = u]

HandleTripCompleted(d) ==   \* whichever trip the entry was for
  activeTripRiderByDriver' = [activeTripRiderByDriver EXCEPT ![d] = None]

HandleRideRequestCancelled ==   \* notifies the parties; the entry stays
  UNCHANGED activeTripRiderByDriver

----------------------------------------------------------------------------
(* RideRequestsService.create.  The search for nearby drivers and the event   *)
(* that follow the insert change no state of this module.                     *)
Create(r, u) ==
  /\ MayTouch({r})
  /\ InsertRideRequest(r, u)
  /\ UNCHANGED process

(* OffersService.submitOffer: the profile and the request are read ... *)
SubmitRead(c, r, d, fare) ==
  /\ MayTouch({r})
  /\ rideRequest[r].status = "PENDING"
  /\ Begin(c, "submitUpsert", [IdleCall EXCEPT !.r = r, !.d = d, !.fare = fare])
  /\ UNCHANGED <<store, isOnline, job, worker, activeTripRiderByDriver>>

(* ... the offer is written ... *)
SubmitUpsert(c) ==
  /\ call[c].pc = "submitUpsert"
  /\ UpsertRideOffer(call[c].r, call[c].d, call[c].fare)
  /\ GoTo(c, "submitUnschedule")
  /\ UNCHANGED <<isOnline, job, worker, activeTripRiderByDriver>>

(* Mutant: the old job is left in the queue. *)
SubmitKeepsOldJob(c) ==
  /\ call[c].pc = "submitUnschedule"
  /\ GoTo(c, "submitSchedule")
  /\ UNCHANGED <<store, isOnline, job, worker, activeTripRiderByDriver>>

(* Mutant: the old job is removed from under the worker that holds it. *)
SubmitForcesRemoval(c) ==
  /\ call[c].pc = "submitUnschedule"
  /\ job' = [job EXCEPT ![OfferJob(call[c].r, call[c].d)] = AbsentJob]
  /\ GoTo(c, "submitSchedule")
  /\ UNCHANGED <<store, isOnline, worker, activeTripRiderByDriver>>

(* ... scheduleExpiry removes the timer of an earlier submission ... *)
SubmitUnschedule(c) ==
  /\ call[c].pc = "submitUnschedule"
  /\ job' = [job EXCEPT ![OfferJob(call[c].r, call[c].d)] = Removed(@)]
  /\ GoTo(c, "submitSchedule")
  /\ UNCHANGED <<store, isOnline, worker, activeTripRiderByDriver>>

(* ... and adds the new one. *)
SubmitSchedule(c) ==
  /\ call[c].pc = "submitSchedule"
  /\ job' = [job EXCEPT ![OfferJob(call[c].r, call[c].d)] = Added(@)]
  /\ Return(c)
  /\ UNCHANGED <<store, isOnline, worker, activeTripRiderByDriver>>

(* OffersService.acceptOffer: the offer is read with its request; the caller  *)
(* must own the request, and both must be pending ...                         *)
AcceptRead(c, r, d, u) ==
  /\ MayTouch({r})
  /\ rideRequest[r].riderId = u
  /\ rideRequest[r].status = "PENDING"
  /\ rideOffer[r][d].status = "PENDING"
  /\ Begin(c, "acceptOthers",
           [IdleCall EXCEPT !.r = r, !.d = d, !.u = u, !.fare = rideOffer[r][d].offeredFare])
  /\ UNCHANGED <<store, isOnline, job, worker, activeTripRiderByDriver>>

(* ... then the other pending offers, whose timers will be removed too ... *)
AcceptOthers(c) ==
  /\ call[c].pc = "acceptOthers"
  /\ LET others == {e \in Drivers \ {call[c].d} :
                      rideOffer[call[c].r][e].status = "PENDING"}
     IN call' = [call EXCEPT ![c].pc = "acceptTx", ![c].unschedule = {call[c].d} \cup others]
  /\ UNCHANGED <<store, isOnline, job, worker, activeTripRiderByDriver>>

(* ... the transaction commits ... *)
AcceptCommit(c) ==
  /\ call[c].pc = "acceptTx"
  /\ AcceptTransaction(call[c].r, call[c].d, call[c].u, call[c].fare)
  /\ GoTo(c, "acceptUnschedule")
  /\ UNCHANGED <<isOnline, job, worker, activeTripRiderByDriver>>

(* Mutant: the error is swallowed and the handler goes on. *)
AcceptRollbackIgnored(c) ==
  /\ call[c].pc = "acceptTx"
  /\ HasTrip(call[c].r)
  /\ GoTo(c, "acceptUnschedule")
  /\ UNCHANGED <<store, isOnline, job, worker, activeTripRiderByDriver>>

(* ... or is rolled back by the unique rideRequestId of trips, and the call   *)
(* throws ...                                                                 *)
AcceptRollback(c) ==
  /\ call[c].pc = "acceptTx"
  /\ HasTrip(call[c].r)
  /\ Return(c)
  /\ UNCHANGED <<store, isOnline, job, worker, activeTripRiderByDriver>>

(* ... the timers are removed, in any order (Promise.all) ... *)
AcceptUnschedule(c, d) ==
  /\ call[c].pc = "acceptUnschedule"
  /\ d \in call[c].unschedule
  /\ job' = [job EXCEPT ![OfferJob(call[c].r, d)] = Removed(@)]
  /\ call' = [call EXCEPT ![c].unschedule = @ \ {d}]
  /\ UNCHANGED <<store, isOnline, worker, activeTripRiderByDriver>>

(* ... and the event is emitted. *)
AcceptEmit(c) ==
  /\ call[c].pc = "acceptUnschedule"
  /\ call[c].unschedule = {}
  /\ HandleOfferAccepted(call[c].d, call[c].u)
  /\ Return(c)
  /\ UNCHANGED <<store, isOnline, job, worker>>

----------------------------------------------------------------------------
(* assertCanCancel: the rider of the request or the driver of its trip. *)
CanCancel(r, u) == rideRequest[r].riderId = u \/ (HasTrip(r) /\ trip[r].driverId = u)

(* Mutant: the status of the request is not checked. *)
CancelReadAnyStatus(c, r, u) ==
  /\ MayTouch({r})
  /\ CanCancel(r, u)
  /\ Begin(c, "cancelTx", [IdleCall EXCEPT !.r = r, !.sawTrip = HasTrip(r)])
  /\ UNCHANGED <<store, isOnline, job, worker, activeTripRiderByDriver>>

(* RideRequestsService.cancel: the request is read with its trip ... *)
CancelRead(c, r, u) ==
  /\ MayTouch({r})
  /\ CanCancel(r, u)
  /\ rideRequest[r].status \in {"PENDING", "MATCHED"}
  /\ Begin(c, "cancelTx", [IdleCall EXCEPT !.r = r, !.sawTrip = HasTrip(r)])
  /\ UNCHANGED <<store, isOnline, job, worker, activeTripRiderByDriver>>

(* ... and cancelled.  The timers of its offers keep running.                 *)
CancelCommit(c) ==
  /\ call[c].pc = "cancelTx"
  /\ CancelTransaction(call[c].r, call[c].sawTrip)
  /\ HandleRideRequestCancelled
  /\ Return(c)
  /\ UNCHANGED <<isOnline, job, worker>>

(* findOwnedByDriver: the trip exists and is this driver's. *)
FindOwnedByDriver(r, d) == HasTrip(r) /\ trip[r].driverId = d

(* Mutant: the status of the trip is not checked. *)
StartReadAnyStatus(c, r, d) ==
  /\ MayTouch({r})
  /\ FindOwnedByDriver(r, d)
  /\ Begin(c, "startTx", [IdleCall EXCEPT !.r = r])
  /\ UNCHANGED <<store, isOnline, job, worker, activeTripRiderByDriver>>

(* TripsService.start: the trip's own driver, and status MATCHED ... *)
StartRead(c, r, d) ==
  /\ MayTouch({r})
  /\ FindOwnedByDriver(r, d)
  /\ trip[r].status = "MATCHED"
  /\ Begin(c, "startTx", [IdleCall EXCEPT !.r = r])
  /\ UNCHANGED <<store, isOnline, job, worker, activeTripRiderByDriver>>

StartCommit(c) ==
  /\ call[c].pc = "startTx"
  /\ StartTransaction(call[c].r)
  /\ Return(c)
  /\ UNCHANGED <<isOnline, job, worker, activeTripRiderByDriver>>

(* TripsService.complete: the trip's own driver, and status STARTED ... *)
CompleteRead(c, r, d) ==
  /\ MayTouch({r})
  /\ FindOwnedByDriver(r, d)
  /\ trip[r].status = "STARTED"
  /\ Begin(c, "completeTx", [IdleCall EXCEPT !.r = r])
  /\ UNCHANGED <<store, isOnline, job, worker, activeTripRiderByDriver>>

(* ... the transaction returns the updated trip ... *)
CompleteCommit(c) ==
  /\ call[c].pc = "completeTx"
  /\ CompleteTransaction(call[c].r)
  /\ call' = [call EXCEPT ![c].pc = "completeEmit", ![c].d = trip[call[c].r].driverId]
  /\ UNCHANGED <<isOnline, job, worker, activeTripRiderByDriver>>

(* ... and the event is emitted. *)
CompleteEmit(c) ==
  /\ call[c].pc = "completeEmit"
  /\ HandleTripCompleted(call[c].d)
  /\ Return(c)
  /\ UNCHANGED <<store, isOnline, job, worker>>

----------------------------------------------------------------------------
(* DriversService.setOnlineStatus. *)
SetOnlineStatus(d, online) ==
  /\ isOnline' = [isOnline EXCEPT ![d] = online]
  /\ UNCHANGED <<store, job, worker, call, activeTripRiderByDriver>>

(* DriversService.goOffline, called when the driver's last socket closes and  *)
(* when the driver switches to rider mode: the profile is updated ...         *)
GoOffline(c, d) ==
  /\ Begin(c, "offlineSchedule", [IdleCall EXCEPT !.d = d])
  /\ isOnline' = [isOnline EXCEPT ![d] = FALSE]
  /\ UNCHANGED <<store, job, worker, activeTripRiderByDriver>>

(* ... and scheduleDriverOfferExpiry adds the grace-period job. *)
OfflineSchedule(c) ==
  /\ call[c].pc = "offlineSchedule"
  /\ job' = [job EXCEPT ![DisconnectJob(call[c].d)] = Added(@)]
  /\ Return(c)
  /\ UNCHANGED <<store, isOnline, worker, activeTripRiderByDriver>>

----------------------------------------------------------------------------
(* A delay, OFFER_EXPIRY_SECONDS or a retry's backoff, is over. *)
DelayElapses(j) ==
  /\ job[j].state = "delayed"
  /\ job' = [job EXCEPT ![j] = Due(@)]
  /\ UNCHANGED <<store, isOnline, worker, call, activeTripRiderByDriver>>

(* The worker takes a job and calls OfferExpiryProcessor.process. *)
Take(j) ==
  /\ worker.pc = "idle"
  /\ job[j].state = "waiting"
  /\ MayTouch(Footprint(j))
  /\ job' = [job EXCEPT ![j] = Taken(@)]
  /\ worker' = [pc |-> "read", job |-> j]
  /\ UNCHANGED <<store, isOnline, call, activeTripRiderByDriver>>

(* What the two job handlers check before they write: expireIfStillPending    *)
(* that the offer is pending, expireAllPendingOffersForDriver that the driver *)
(* is offline.                                                                *)
OfferStillPending(r, d) == rideOffer[r][d].status = "PENDING"
DriverStillOffline(d)   == ~ isOnline[d]

StillDue(j) == IF j[1] = None THEN DriverStillOffline(j[2]) ELSE OfferStillPending(j[1], j[2])

ProcessRead ==
  /\ worker.pc = "read"
  /\ worker' = [worker EXCEPT !.pc = IF StillDue(worker.job) THEN "update" ELSE "finish"]
  /\ UNCHANGED <<store, isOnline, job, call, activeTripRiderByDriver>>

ProcessUpdate ==
  /\ worker.pc = "update"
  /\ IF worker.job[1] = None
       THEN ExpireDriverOffers(worker.job[2])
       ELSE ExpireOffer(worker.job[1], worker.job[2])
  /\ worker' = [worker EXCEPT !.pc = "finish"]
  /\ UNCHANGED <<isOnline, job, call, activeTripRiderByDriver>>

(* Mutant: the promise of process never settles. *)
ProcessNeverSettles ==
  /\ worker.pc = "finish"
  /\ UNCHANGED vars

(* process returned: the job is completed and kept. *)
ProcessFinish ==
  /\ worker.pc = "finish"
  /\ job' = [job EXCEPT ![worker.job] = CompletedJob(@)]
  /\ worker' = IdleWorker
  /\ UNCHANGED <<store, isOnline, call, activeTripRiderByDriver>>

----------------------------------------------------------------------------
(* Failures. *)

(* An awaited call of handler c rejects (the database or Redis is not         *)
(* reachable, a deadlock victim, an answer lost after the commit): the        *)
(* handler throws, what it has already written stays.                         *)
Abort(c) ==
  /\ "abort" \in Faults
  /\ call[c].pc # "idle"
  /\ Return(c)
  /\ UNCHANGED <<store, isOnline, job, worker, activeTripRiderByDriver>>

(* The job handler throws at one of its awaits. *)
ProcessFail ==
  /\ "jobfail" \in Faults
  /\ worker.pc # "idle"
  /\ job' = [job EXCEPT ![worker.job] = FailedAttempt(@)]
  /\ worker' = IdleWorker
  /\ UNCHANGED <<store, isOnline, call, activeTripRiderByDriver>>

(* The process dies and is restarted: handlers in flight and the in-memory    *)
(* map are lost, the database and the queue are not.                          *)
Crash ==
  /\ "crash" \in Faults
  /\ call' = [c \in Calls |-> IdleCall]
  /\ worker' = IdleWorker
  /\ activeTripRiderByDriver' = [d \in Drivers |-> None]
  /\ UNCHANGED <<store, isOnline, job>>

(* BullMQ finds an active job that no live worker holds. *)
StalledCheck(j) ==
  /\ job[j].state = "active"
  /\ worker.pc = "idle" \/ worker.job # j
  /\ job' = [job EXCEPT ![j] = Stalled(@)]
  /\ UNCHANGED <<store, isOnline, worker, call, activeTripRiderByDriver>>

----------------------------------------------------------------------------
(* The routes of TripsController that change a trip. *)
TripRoutes(c) ==
  \E r \in Requests, d \in Drivers : StartRead(c, r, d) \/ CompleteRead(c, r, d)

HandlerBegins(c) ==
  \/ \E r \in Requests, d \in Drivers :
       \/ \E fare \in Fares : SubmitRead(c, r, d, fare)
       \/ \E u \in Users : AcceptRead(c, r, d, u)
  \/ TripRoutes(c)
  \/ \E r \in Requests, u \in Users : CancelRead(c, r, u)
  \/ \E d \in Leavers : GoOffline(c, d)

HandlerContinues(c) ==
  \/ SubmitUpsert(c) \/ SubmitUnschedule(c) \/ SubmitSchedule(c)
  \/ AcceptOthers(c) \/ AcceptCommit(c) \/ AcceptRollback(c)
  \/ \E d \in Drivers : AcceptUnschedule(c, d)
  \/ AcceptEmit(c)
  \/ CancelCommit(c)
  \/ StartCommit(c)
  \/ CompleteCommit(c) \/ CompleteEmit(c)
  \/ OfflineSchedule(c)

WorkerContinues == ProcessRead \/ ProcessUpdate \/ ProcessFinish

Next ==
  \/ \E r \in Requests, u \in Users : Create(r, u)
  \/ \E c \in Calls : HandlerBegins(c) \/ HandlerContinues(c) \/ Abort(c)
  \/ \E d \in Leavers, online \in BOOLEAN : SetOnlineStatus(d, online)
  \/ \E j \in JobIds : DelayElapses(j) \/ Take(j) \/ StalledCheck(j)
  \/ WorkerContinues \/ ProcessFail \/ Crash

Spec == Init /\ [][Next]_vars

(* What the scheduling of the code justifies: an awaited answer arrives, a    *)
(* delay ends, and a waiting job is eventually taken (strongly fair: in       *)
(* exclusive mode the handlers of its request may keep interrupting).         *)
Fairness ==
  /\ \A c \in Calls : WF_vars(HandlerContinues(c))
  /\ \A j \in JobIds : WF_vars(DelayElapses(j)) /\ SF_vars(Take(j)) /\ WF_vars(StalledCheck(j))
  /\ WF_vars(WorkerContinues)

FairSpec == Spec /\ Fairness

----------------------------------------------------------------------------
(* What holds of every interleaving, with every failure.                      *)

(* Positions of a driver are relayed only to a rider whom that driver has or   *)
(* had a trip with.                                                            *)
RelayToOwnRider ==
  \A d \in Drivers :
    activeTripRiderByDriver[d] # None =>
      \E r \in Requests : trip[r].driverId = d /\ trip[r].riderId = activeTripRiderByDriver[d]

(* What a handler read and still relies on when it writes, several awaits      *)
(* later, is still so: rows and their owners do not go away, and a trip once   *)
(* seen is there.  The statuses a handler read are not in this list: they do   *)
(* change under it.                                                            *)
Knows(h) ==
  /\ h.pc \in {"submitUpsert", "submitUnschedule", "submitSchedule"} =>
       h.r \in Requests /\ h.d \in Drivers
  /\ h.pc \in {"acceptOthers", "acceptTx", "acceptUnschedule"} =>
       /\ h.r \in Requests /\ h.d \in Drivers /\ h.u \in Users
       /\ rideRequest[h.r].status # "ABSENT" /\ rideRequest[h.r].riderId = h.u
       /\ rideOffer[h.r][h.d].status # "ABSENT"
  /\ h.pc = "acceptUnschedule" =>
       HasTrip(h.r) /\ trip[h.r].driverId = h.d /\ trip[h.r].riderId = h.u
  /\ h.pc = "cancelTx" =>
       /\ h.r \in Requests
       /\ rideRequest[h.r].status # "ABSENT"
       /\ h.sawTrip => HasTrip(h.r)
  /\ h.pc \in {"startTx", "completeTx"} => h.r \in Requests /\ HasTrip(h.r)
  /\ h.pc \in {"completeEmit", "offlineSchedule"} => h.d \in Drivers

ReadsStayTrue == \A c \in Calls : Knows(call[c])

(* The job the worker runs stays its own: no cancelScheduledExpiry, renewed    *)
(* offer or restart takes it away or hands it out again before it is done.     *)
WorkerHoldsActiveJob ==
  worker.pc # "idle" => job[worker.job].state = "active"

(* Once made, a deal is final: no later call changes the driver, the rider or  *)
(* the fare of a trip, or removes it.                                          *)
DealIsFinal ==
  [][\A r \in Requests : HasTrip(r) =>
       /\ trip'[r].status # "ABSENT"
       /\ trip'[r].driverId = trip[r].driverId
       /\ trip'[r].riderId = trip[r].riderId
       /\ trip'[r].agreedFare = trip[r].agreedFare]_vars

----------------------------------------------------------------------------
(* What holds when the handlers of a request do not overlap (Exclusive), and   *)
(* what races break otherwise.                                                 *)

(* submitOffer refuses a request that "is no longer accepting offers": no      *)
(* offer is pending on a request that is not.                                  *)
NoOfferOutlivesRequest ==
  \A r \in Requests, d \in Drivers :
    rideOffer[r][d].status = "PENDING" => rideRequest[r].status = "PENDING"

(* The status of a request with a trip is the one the trip's status implies. *)
TripMirrorsRequest ==
  \A r \in Requests :
    HasTrip(r) => rideRequest[r].status = RequestStatusOf(trip[r].status)

(* The driver of a trip has the accepted offer, and its fare is the agreed one. *)
DealHonoursOffer ==
  \A r \in Requests :
    HasTrip(r) => /\ trip[r].driverId \in Drivers
                  /\ rideOffer[r][trip[r].driverId] =
                       [status |-> "ACCEPTED", offeredFare |-> trip[r].agreedFare]

Submitting(r, d) ==
  \E c \in Calls : /\ call[c].r = r /\ call[c].d = d
                   /\ call[c].pc \in {"submitUpsert", "submitUnschedule", "submitSchedule"}

Live == {"delayed", "waiting", "active"}

(* An offer the rider can still accept has an expiry job that has still to     *)
(* run, unless the call that submits it is about to add one.                   *)
PendingOfferHasTimer ==
  \A r \in Requests, d \in Drivers :
    rideRequest[r].status = "PENDING" /\ rideOffer[r][d].status = "PENDING" =>
      job[OfferJob(r, d)].state \in Live \/ Submitting(r, d)

(* No offer stays pending for ever, unless its driver keeps renewing it. *)
PendingOfferResolves ==
  \A r \in Requests, d \in Drivers :
    []<>(rideOffer[r][d].status # "PENDING") \/ []<>Submitting(r, d)

(* The refinement: a request's phase, its standing bids and its deal. *)
PhaseOf(status) ==
  CASE status = "ABSENT"      -> "none"
    [] status = "PENDING"     -> "open"
    [] status = "MATCHED"     -> "matched"
    [] status = "IN_PROGRESS" -> "started"
    [] status = "COMPLETED"   -> "completed"
    [] status = "CANCELLED"   -> "cancelled"

BidOf(offer) == IF offer.status = "PENDING" THEN offer.offeredFare ELSE None

DealOf(t) ==
  IF t.status = "ABSENT" THEN None
  ELSE [driver |-> t.driverId, rider |-> t.riderId, fare |-> t.agreedFare]

Lifecycle == INSTANCE RideLifecycle WITH
  phase <- [r \in Requests |-> PhaseOf(rideRequest[r].status)],
  owner <- [r \in Requests |-> rideRequest[r].riderId],
  bid   <- [r \in Requests |-> [d \in Drivers |-> BidOf(rideOffer[r][d])]],
  deal  <- [r \in Requests |-> DealOf(trip[r])]

(* Without overlap, handlers, timers, jobs and failures together do nothing    *)
(* but the steps of RideLifecycle.                                             *)
ImplementsLifecycle == Lifecycle!Spec

----------------------------------------------------------------------------
(* What comments, tests and the README say of the program.                     *)

(* offers.service.spec: acceptOffer "throws BadRequestException when the offer *)
(* is no longer pending".                                                      *)
AcceptsOnlyPending ==
  [][\A r \in Requests, d \in Drivers :
       rideOffer'[r][d].status = "ACCEPTED" =>
         rideOffer[r][d].status \in {"PENDING", "ACCEPTED"}]_vars

(* DriversService.goOffline "gives their pending offers a grace period": when  *)
(* it returns, the job that ends the grace period has still to run.            *)
OfflineSchedulesExpiry ==
  [][\A c \in Calls : OfflineSchedule(c) =>
       job'[DisconnectJob(call[c].d)].state \in Live]_vars

(* The gateway's map is of "the driver's current active trip": an entry's trip *)
(* is neither cancelled nor, once its event is handled, completed.             *)
RelayOnlyForActiveTrip ==
  \A d \in Drivers :
    activeTripRiderByDriver[d] # None =>
      \/ \E r \in Requests : /\ trip[r].driverId = d
                             /\ trip[r].riderId = activeTripRiderByDriver[d]
                             /\ trip[r].status \in {"MATCHED", "STARTED"}
      \/ \E c \in Calls : call[c].pc = "completeEmit" /\ call[c].d = d

============================================================================
