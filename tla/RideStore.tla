----------------------------- MODULE RideStore -----------------------------
(***************************************************************************)
(* The three tables a ride lives in (ride_requests, ride_offers, trips in   *)
(* prisma/schema.prisma) and the statements and transactions the services   *)
(* run on them.  A Prisma call is one atomic step, and so is a              *)
(* $transaction([...]): its statements take row locks that are held to the  *)
(* commit, so two of them either serialise or one is the deadlock victim.   *)
(*                                                                          *)
(* A row that does not exist yet has the status "ABSENT".  Rows are never   *)
(* deleted.  A ride request's id stands for the row; an offer is named by   *)
(* its unique key (rideRequestId, driverId) and a trip by its unique key    *)
(* rideRequestId.  A DriverProfile and its User are the same value.         *)
(***************************************************************************)

CONSTANTS
  Users,      \* accounts: each may ride
  Drivers,    \* the accounts that have a DriverProfile
  Requests,   \* ride request ids
  Fares,      \* fares a driver may offer
  None        \* null

ASSUME StoreAssumption ==
  /\ Drivers \subseteq Users
  /\ None \notin Users /\ None \notin Requests /\ None \notin Fares

VARIABLES
  rideRequest,  \* [Requests -> RideRequest]
  rideOffer,    \* [Requests -> [Drivers -> RideOffer]]
  trip          \* [Requests -> Trip]

store == <<rideRequest, rideOffer, trip>>

----------------------------------------------------------------------------
(* Rows.  REJECTED is a status of offers in the schema that the code never      *)
(* writes.                                                                      *)

RideRequestStatus == {"PENDING", "MATCHED", "IN_PROGRESS", "COMPLETED", "CANCELLED"}
OfferStatus       == {"PENDING", "ACCEPTED", "EXPIRED"}
TripStatus        == {"MATCHED", "STARTED", "COMPLETED", "CANCELLED"}

RideRequest == [status: {"ABSENT"} \cup RideRequestStatus, riderId: Users \cup {None}]
RideOffer   == [status: {"ABSENT"} \cup OfferStatus, offeredFare: Fares \cup {None}]
Trip        == [status: {"ABSENT"} \cup TripStatus, driverId: Drivers \cup {None},
                riderId: Users \cup {None}, agreedFare: Fares \cup {None}]

NoRequest == [status |-> "ABSENT", riderId |-> None]
NoOffer   == [status |-> "ABSENT", offeredFare |-> None]
NoTrip    == [status |-> "ABSENT", driverId |-> None, riderId |-> None, agreedFare |-> None]

StoreTypeOK ==
  /\ rideRequest \in [Requests -> RideRequest]
  /\ rideOffer \in [Requests -> [Drivers -> RideOffer]]
  /\ trip \in [Requests -> Trip]

StoreInit ==
  /\ rideRequest = [r \in Requests |-> NoRequest]
  /\ rideOffer = [r \in Requests |-> [d \in Drivers |-> NoOffer]]
  /\ trip = [r \in Requests |-> NoTrip]

HasTrip(r) == trip[r].status # "ABSENT"

----------------------------------------------------------------------------
(* updateMany where status = PENDING, set EXPIRED: an offer that is pending  *)
(* lapses, any other is left alone.                                         *)
Lapsed(offer) ==
  IF offer.status = "PENDING" THEN [offer EXCEPT !.status = "EXPIRED"] ELSE offer

(* rideRequest.create *)
InsertRideRequest(r, u) ==
  /\ rideRequest[r].status = "ABSENT"
  /\ rideRequest' = [rideRequest EXCEPT ![r] = [status |-> "PENDING", riderId |-> u]]
  /\ UNCHANGED <<rideOffer, trip>>

(* rideOffer.upsert on (rideRequestId, driverId): whatever the row's status  *)
(* was, it is PENDING afterwards.                                           *)
UpsertRideOffer(r, d, fare) ==
  /\ rideOffer' = [rideOffer EXCEPT ![r][d] = [status |-> "PENDING", offeredFare |-> fare]]
  /\ UNCHANGED <<rideRequest, trip>>

(* Mutants of the next definition: a failed trip.create that does not undo   *)
(* the updates before it; a trip whose rider is its driver; an               *)
(* updateMany that does not exclude the offer just accepted.                 *)
AcceptWithoutRollback(r, d, u, fare) ==
  /\ rideOffer' = [rideOffer EXCEPT ![r][d].status = "ACCEPTED"]
  /\ rideRequest' = [rideRequest EXCEPT ![r].status = "MATCHED"]
  /\ trip' = IF HasTrip(r) THEN trip
             ELSE [trip EXCEPT ![r] = [status |-> "MATCHED", driverId |-> d,
                                       riderId |-> u, agreedFare |-> fare]]

AcceptForDriver(r, d, u, fare) ==
  /\ ~ HasTrip(r)
  /\ rideOffer' = [rideOffer EXCEPT ![r][d].status = "ACCEPTED"]
  /\ rideRequest' = [rideRequest EXCEPT ![r].status = "MATCHED"]
  /\ trip' = [trip EXCEPT ![r] = [status |-> "MATCHED", driverId |-> d,
                                  riderId |-> d, agreedFare |-> fare]]

AcceptExpiresAll(r, d, u, fare) ==
  /\ ~ HasTrip(r)
  /\ rideOffer' = [rideOffer EXCEPT ![r] = [e \in Drivers |-> Lapsed(rideOffer[r][e])]]
  /\ rideRequest' = [rideRequest EXCEPT ![r].status = "MATCHED"]
  /\ trip' = [trip EXCEPT ![r] = [status |-> "MATCHED", driverId |-> d,
                                  riderId |-> u, agreedFare |-> fare]]

(* acceptOffer's transaction.  trip.create is its last statement and fails   *)
(* on the unique rideRequestId when the request already has a trip, which    *)
(* undoes the others: the transaction is enabled only without a trip.        *)
AcceptTransaction(r, d, u, fare) ==
  /\ ~ HasTrip(r)
  /\ rideOffer' = [rideOffer EXCEPT ![r] =
       [e \in Drivers |-> IF e = d THEN [rideOffer[r][d] EXCEPT !.status = "ACCEPTED"]
                                   ELSE Lapsed(rideOffer[r][e])]]
  /\ rideRequest' = [rideRequest EXCEPT ![r].status = "MATCHED"]
  /\ trip' = [trip EXCEPT ![r] = [status |-> "MATCHED", driverId |-> d,
                                  riderId |-> u, agreedFare |-> fare]]

(* Mutants: the updateMany of the offers is forgotten; the fare is cleared. *)
CancelClearsFare(r, sawTrip) ==
  /\ rideRequest' = [rideRequest EXCEPT ![r].status = "CANCELLED"]
  /\ rideOffer' = [rideOffer EXCEPT ![r] = [d \in Drivers |-> Lapsed(rideOffer[r][d])]]
  /\ trip' = IF sawTrip THEN [trip EXCEPT ![r].status = "CANCELLED", ![r].agreedFare = None]
                        ELSE trip

CancelLeavesOffers(r, sawTrip) ==
  /\ rideRequest' = [rideRequest EXCEPT ![r].status = "CANCELLED"]
  /\ trip' = IF sawTrip THEN [trip EXCEPT ![r].status = "CANCELLED"] ELSE trip
  /\ UNCHANGED rideOffer

(* RideRequestsService.cancel's transaction.  Whether it also cancels the    *)
(* trip was decided when the request was read.                              *)
CancelTransaction(r, sawTrip) ==
  /\ rideRequest' = [rideRequest EXCEPT ![r].status = "CANCELLED"]
  /\ rideOffer' = [rideOffer EXCEPT ![r] = [d \in Drivers |-> Lapsed(rideOffer[r][d])]]
  /\ trip' = IF sawTrip THEN [trip EXCEPT ![r].status = "CANCELLED"] ELSE trip

(* Mutant: the request is not updated with the trip. *)
StartTripOnly(r) ==
  /\ trip' = [trip EXCEPT ![r].status = "STARTED"]
  /\ UNCHANGED <<rideRequest, rideOffer>>

(* TripsService.start's transaction. *)
StartTransaction(r) ==
  /\ trip' = [trip EXCEPT ![r].status = "STARTED"]
  /\ rideRequest' = [rideRequest EXCEPT ![r].status = "IN_PROGRESS"]
  /\ UNCHANGED rideOffer

(* Mutant: the request is not updated with the trip. *)
CompleteTripOnly(r) ==
  /\ trip' = [trip EXCEPT ![r].status = "COMPLETED"]
  /\ UNCHANGED <<rideRequest, rideOffer>>

(* TripsService.complete's transaction. *)
CompleteTransaction(r) ==
  /\ trip' = [trip EXCEPT ![r].status = "COMPLETED"]
  /\ rideRequest' = [rideRequest EXCEPT ![r].status = "COMPLETED"]
  /\ UNCHANGED rideOffer

(* expireIfStillPending's update: by id alone, not by status. *)
ExpireOffer(r, d) ==
  /\ rideOffer' = [rideOffer EXCEPT ![r][d].status = "EXPIRED"]
  /\ UNCHANGED <<rideRequest, trip>>

(* expireAllPendingOffersForDriver's updateMany, over every request. *)
ExpireDriverOffers(d) ==
  /\ rideOffer' = [r \in Requests |-> [rideOffer[r] EXCEPT ![d] = Lapsed(rideOffer[r][d])]]
  /\ UNCHANGED <<rideRequest, trip>>

----------------------------------------------------------------------------
(* Invariants of the tables, whatever the order of the transactions.         *)

(* An offer is ACCEPTED only on the request whose trip its driver drives, so   *)
(* at most one offer of a request is ever accepted, however many acceptOffer   *)
(* calls raced: the unique rideRequestId of trips decides.                     *)
AcceptedOfferHasTrip ==
  \A r \in Requests, d \in Drivers :
    rideOffer[r][d].status = "ACCEPTED" => trip[r].driverId = d

(* The request status that goes with each trip status in the transactions. *)
RequestStatusOf(tripStatus) ==
  CASE tripStatus = "MATCHED"   -> "MATCHED"
    [] tripStatus = "STARTED"   -> "IN_PROGRESS"
    [] tripStatus = "COMPLETED" -> "COMPLETED"
    [] tripStatus = "CANCELLED" -> "CANCELLED"

(* The two status columns drift apart in one way only: a request can be        *)
(* CANCELLED under a trip that goes on (cancel read it before the trip was     *)
(* there).  A request without a trip has not left the negotiation.             *)
RequestTracksTrip ==
  \A r \in Requests :
    IF HasTrip(r)
      THEN rideRequest[r].status \in {"CANCELLED", RequestStatusOf(trip[r].status)}
      ELSE rideRequest[r].status \in {"ABSENT", "PENDING", "CANCELLED"}

(* A trip is between the rider who opened the request and a driver who made    *)
(* an offer on it, although acceptOffer checked both several awaits earlier.   *)
TripBetweenParties ==
  \A r \in Requests :
    HasTrip(r) =>
      /\ trip[r].riderId = rideRequest[r].riderId
      /\ trip[r].driverId \in Drivers
      /\ rideOffer[r][trip[r].driverId].status # "ABSENT"

============================================================================
