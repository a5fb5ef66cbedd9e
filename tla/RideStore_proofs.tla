-------------------------- MODULE RideStore_proofs --------------------------
(***************************************************************************)
(* The statements and transactions of RideStore keep the tables well typed   *)
(* and keep the invariants of the tables, provided each is run only when the *)
(* rows it names exist: StoreStep.  No status is assumed beyond that, since  *)
(* a status read earlier may have changed.                                   *)
(***************************************************************************)
EXTENDS RideStore, TLAPS

StoreStep ==
  \/ UNCHANGED store
  \/ \E r \in Requests, u \in Users : InsertRideRequest(r, u)
  \/ \E r \in Requests, d \in Drivers, fare \in Fares \cup {None} : UpsertRideOffer(r, d, fare)
  \/ \E r \in Requests, d \in Drivers, u \in Users, fare \in Fares \cup {None} :
       /\ rideRequest[r].status # "ABSENT" /\ rideRequest[r].riderId = u
       /\ rideOffer[r][d].status # "ABSENT"
       /\ AcceptTransaction(r, d, u, fare)
  \/ \E r \in Requests, sawTrip \in BOOLEAN :
       /\ rideRequest[r].status # "ABSENT"
       /\ sawTrip => HasTrip(r)
       /\ CancelTransaction(r, sawTrip)
  \/ \E r \in Requests : HasTrip(r) /\ StartTransaction(r)
  \/ \E r \in Requests : HasTrip(r) /\ CompleteTransaction(r)
  \/ \E r \in Requests, d \in Drivers : ExpireOffer(r, d)
  \/ \E d \in Drivers : ExpireDriverOffers(d)

(* A trip that does not exist has no driver. *)
AbsentTripIsNull == \A r \in Requests : ~ HasTrip(r) => trip[r].driverId = None

StoreInv ==
  /\ StoreTypeOK
  /\ AbsentTripIsNull
  /\ AcceptedOfferHasTrip
  /\ RequestTracksTrip
  /\ TripBetweenParties

(* What no step undoes: a row once there, its owner, the terms of a trip. *)
StoreGrows ==
  /\ \A r \in Requests : rideRequest[r].status # "ABSENT" =>
       rideRequest'[r].status # "ABSENT" /\ rideRequest'[r].riderId = rideRequest[r].riderId
  /\ \A r \in Requests, d \in Drivers :
       rideOffer[r][d].status # "ABSENT" => rideOffer'[r][d].status # "ABSENT"
  /\ \A r \in Requests : HasTrip(r) =>
       /\ trip'[r].status # "ABSENT"
       /\ trip'[r].driverId = trip[r].driverId
       /\ trip'[r].riderId = trip[r].riderId
       /\ trip'[r].agreedFare = trip[r].agreedFare

----------------------------------------------------------------------------
(* An offer that lapses is an offer, and so is one whose status is set. *)
LEMMA OfferTypes ==
  ASSUME StoreTypeOK, NEW r \in Requests, NEW d \in Drivers
  PROVE  /\ rideOffer[r][d] \in RideOffer
         /\ Lapsed(rideOffer[r][d]) \in RideOffer
         /\ Lapsed(rideOffer[r][d]).status # "PENDING"
         /\ Lapsed(rideOffer[r][d]).status = "ABSENT" <=> rideOffer[r][d].status = "ABSENT"
         /\ Lapsed(rideOffer[r][d]).status = "ACCEPTED" <=> rideOffer[r][d].status = "ACCEPTED"
         /\ \A status \in OfferStatus :
              [rideOffer[r][d] EXCEPT !.status = status] \in RideOffer
<1>1. rideOffer[r][d] \in RideOffer
  BY DEF StoreTypeOK
<1> QED BY <1>1 DEF RideOffer, OfferStatus, Lapsed

(* Rows of the two other tables. *)
LEMMA RowTypes ==
  ASSUME StoreTypeOK, NEW r \in Requests
  PROVE  /\ rideRequest[r] \in RideRequest
         /\ trip[r] \in Trip
         /\ \A status \in RideRequestStatus :
              [rideRequest[r] EXCEPT !.status = status] \in RideRequest
         /\ \A status \in TripStatus : [trip[r] EXCEPT !.status = status] \in Trip
<1>1. rideRequest[r] \in RideRequest /\ trip[r] \in Trip
  BY DEF StoreTypeOK
<1> QED BY <1>1 DEF RideRequest, Trip

(* The tables are empty at first. *)
LEMMA StoreInitially == StoreInit => StoreInv
<1> SUFFICES ASSUME StoreInit PROVE StoreInv
  OBVIOUS
<1>1. StoreTypeOK
  BY DEF StoreInit, StoreTypeOK, NoRequest, NoOffer, NoTrip, RideRequest, RideOffer, Trip
<1>2. AbsentTripIsNull /\ RequestTracksTrip /\ TripBetweenParties
  BY DEF StoreInit, NoRequest, NoTrip, HasTrip, AbsentTripIsNull, RequestTracksTrip,
     TripBetweenParties
<1>3. AcceptedOfferHasTrip
  BY DEF StoreInit, NoOffer, AcceptedOfferHasTrip
<1> QED BY <1>1, <1>2, <1>3 DEF StoreInv

----------------------------------------------------------------------------
(* Each statement and transaction keeps the tables well typed. *)
LEMMA StoreTypes == StoreTypeOK /\ StoreStep => StoreTypeOK'
<1> SUFFICES ASSUME StoreTypeOK, StoreStep PROVE StoreTypeOK'
  OBVIOUS
<1>1. CASE UNCHANGED store
  BY <1>1 DEF store, StoreTypeOK
<1>2. ASSUME NEW r \in Requests, NEW u \in Users, InsertRideRequest(r, u)
      PROVE  StoreTypeOK'
  <2>1. [status |-> "PENDING", riderId |-> u] \in RideRequest
    BY DEF RideRequest, RideRequestStatus
  <2> QED BY <1>2, <2>1 DEF InsertRideRequest, StoreTypeOK
<1>3. ASSUME NEW r \in Requests, NEW d \in Drivers, NEW fare \in Fares \cup {None},
             UpsertRideOffer(r, d, fare)
      PROVE  StoreTypeOK'
  <2>1. [status |-> "PENDING", offeredFare |-> fare] \in RideOffer
    BY DEF RideOffer, OfferStatus
  <2> QED BY <1>3, <2>1 DEF UpsertRideOffer, StoreTypeOK
<1>4. ASSUME NEW r \in Requests, NEW d \in Drivers, NEW u \in Users,
             NEW fare \in Fares \cup {None}, AcceptTransaction(r, d, u, fare)
      PROVE  StoreTypeOK'
  <2>1. [status |-> "MATCHED", driverId |-> d, riderId |-> u, agreedFare |-> fare] \in Trip
    BY DEF Trip, TripStatus
  <2>2. trip' \in [Requests -> Trip]
    BY <1>4, <2>1 DEF AcceptTransaction, StoreTypeOK
  <2>3. rideRequest' \in [Requests -> RideRequest]
    BY <1>4, RowTypes DEF AcceptTransaction, StoreTypeOK, RideRequestStatus
  <2>4. rideOffer' \in [Requests -> [Drivers -> RideOffer]]
    BY <1>4, OfferTypes DEF AcceptTransaction, StoreTypeOK, OfferStatus
  <2> QED BY <2>2, <2>3, <2>4 DEF StoreTypeOK
<1>5. ASSUME NEW r \in Requests, NEW sawTrip \in BOOLEAN, CancelTransaction(r, sawTrip)
      PROVE  StoreTypeOK'
  <2>1. trip' \in [Requests -> Trip]
    BY <1>5, RowTypes DEF CancelTransaction, StoreTypeOK, TripStatus
  <2>2. rideRequest' \in [Requests -> RideRequest]
    BY <1>5, RowTypes DEF CancelTransaction, StoreTypeOK, RideRequestStatus
  <2>3. rideOffer' \in [Requests -> [Drivers -> RideOffer]]
    BY <1>5, OfferTypes DEF CancelTransaction, StoreTypeOK
  <2> QED BY <2>1, <2>2, <2>3 DEF StoreTypeOK
<1>6. ASSUME NEW r \in Requests, StartTransaction(r) \/ CompleteTransaction(r)
      PROVE  StoreTypeOK'
  <2>1. trip' \in [Requests -> Trip]
    BY <1>6, RowTypes DEF StartTransaction, CompleteTransaction, StoreTypeOK, TripStatus
  <2>2. rideRequest' \in [Requests -> RideRequest]
    BY <1>6, RowTypes DEF StartTransaction, CompleteTransaction, StoreTypeOK, RideRequestStatus
  <2> QED BY <1>6, <2>1, <2>2 DEF StartTransaction, CompleteTransaction, StoreTypeOK
<1>7. ASSUME NEW r \in Requests, NEW d \in Drivers, ExpireOffer(r, d)
      PROVE  StoreTypeOK'
  BY <1>7, OfferTypes DEF ExpireOffer, StoreTypeOK, OfferStatus
<1>8. ASSUME NEW d \in Drivers, ExpireDriverOffers(d)
      PROVE  StoreTypeOK'
  BY <1>8, OfferTypes DEF ExpireDriverOffers, StoreTypeOK
<1> QED BY <1>1, <1>2, <1>3, <1>4, <1>5, <1>6, <1>7, <1>8 DEF StoreStep

(* No step removes a row, changes its owner or the terms of a trip. *)
LEMMA StoreOnlyGrows == StoreTypeOK /\ StoreStep => StoreGrows
<1> SUFFICES ASSUME StoreTypeOK, StoreStep PROVE StoreGrows
  OBVIOUS
<1>1. ASSUME NEW r \in Requests, rideRequest[r].status # "ABSENT"
      PROVE  rideRequest'[r].status # "ABSENT" /\ rideRequest'[r].riderId = rideRequest[r].riderId
  <2>1. CASE \E s \in Requests, u \in Users : InsertRideRequest(s, u)
    BY <1>1, <2>1 DEF InsertRideRequest, StoreTypeOK
  <2>2. CASE \E s \in Requests, status \in RideRequestStatus :
               rideRequest' = [rideRequest EXCEPT ![s].status = status]
    BY <1>1, <2>2 DEF StoreTypeOK, RideRequest, RideRequestStatus
  <2>3. CASE UNCHANGED rideRequest
    BY <1>1, <2>3
  <2> QED BY <2>1, <2>2, <2>3
          DEF StoreStep, store, RideRequestStatus, UpsertRideOffer, AcceptTransaction,
              CancelTransaction, StartTransaction, CompleteTransaction, ExpireOffer,
              ExpireDriverOffers
<1>2. ASSUME NEW r \in Requests, NEW d \in Drivers, rideOffer[r][d].status # "ABSENT"
      PROVE  rideOffer'[r][d].status # "ABSENT"
  <2>1. CASE \E s \in Requests, e \in Drivers, fare \in Fares \cup {None} :
               UpsertRideOffer(s, e, fare)
    BY <1>2, <2>1 DEF UpsertRideOffer, StoreTypeOK
  <2>2. CASE \E s \in Requests, e \in Drivers, u \in Users, fare \in Fares \cup {None} :
               AcceptTransaction(s, e, u, fare)
    BY <1>2, <2>2, OfferTypes DEF AcceptTransaction, StoreTypeOK, RideOffer
  <2>3. CASE \E s \in Requests, sawTrip \in BOOLEAN : CancelTransaction(s, sawTrip)
    BY <1>2, <2>3, OfferTypes DEF CancelTransaction, StoreTypeOK
  <2>4. CASE \E s \in Requests, e \in Drivers : ExpireOffer(s, e)
    BY <1>2, <2>4, OfferTypes DEF ExpireOffer, StoreTypeOK, RideOffer
  <2>5. CASE \E e \in Drivers : ExpireDriverOffers(e)
    BY <1>2, <2>5, OfferTypes DEF ExpireDriverOffers, StoreTypeOK
  <2>6. CASE UNCHANGED rideOffer
    BY <1>2, <2>6
  <2> QED BY <2>1, <2>2, <2>3, <2>4, <2>5, <2>6
          DEF StoreStep, store, InsertRideRequest, StartTransaction, CompleteTransaction
<1>3. ASSUME NEW r \in Requests, HasTrip(r)
      PROVE  /\ trip'[r].status # "ABSENT"
             /\ trip'[r].driverId = trip[r].driverId
             /\ trip'[r].riderId = trip[r].riderId
             /\ trip'[r].agreedFare = trip[r].agreedFare
  <2>1. CASE \E s \in Requests, d \in Drivers, u \in Users, fare \in Fares \cup {None} :
               AcceptTransaction(s, d, u, fare)
    BY <1>3, <2>1 DEF AcceptTransaction, HasTrip, StoreTypeOK
  <2>2. CASE \E s \in Requests, status \in TripStatus :
               trip' = [trip EXCEPT ![s].status = status]
    BY <1>3, <2>2 DEF HasTrip, StoreTypeOK, Trip, TripStatus
  <2>3. CASE UNCHANGED trip
    BY <1>3, <2>3 DEF HasTrip
  <2> QED BY <2>1, <2>2, <2>3
          DEF StoreStep, store, TripStatus, InsertRideRequest, UpsertRideOffer, CancelTransaction,
              StartTransaction, CompleteTransaction, ExpireOffer, ExpireDriverOffers
<1> QED BY <1>1, <1>2, <1>3 DEF StoreGrows

(* The terms of a trip that is there do not change; one that was not there    *)
(* comes from an accepted offer; the other statements leave trips alone but   *)
(* for the status.                                                            *)
LEMMA StorePreserves == StoreInv /\ StoreStep => StoreInv'
<1> SUFFICES ASSUME StoreInv, StoreStep PROVE StoreInv'
  OBVIOUS
<1>0. StoreTypeOK' /\ StoreGrows
  BY StoreTypes, StoreOnlyGrows DEF StoreInv
<1>1. CASE UNCHANGED store
  BY <1>1 DEF store, StoreInv, StoreTypeOK, AbsentTripIsNull, HasTrip, AcceptedOfferHasTrip,
     RequestTracksTrip, TripBetweenParties
<1>2. ASSUME NEW r \in Requests, NEW u \in Users, InsertRideRequest(r, u)
      PROVE  StoreInv'
  <2>1. ~ HasTrip(r)
    <3>1. trip[r].status \in {"ABSENT", "MATCHED", "STARTED", "COMPLETED", "CANCELLED"}
      BY DEF StoreInv, StoreTypeOK, Trip, TripStatus
    <3> QED BY <1>2, <3>1 DEF InsertRideRequest, StoreInv, RequestTracksTrip, RequestStatusOf, HasTrip
  <2>2. RequestTracksTrip'
    BY <1>2, <2>1 DEF InsertRideRequest, StoreInv, StoreTypeOK, RequestTracksTrip, HasTrip
  <2>3. TripBetweenParties'
    BY <1>2, <2>1 DEF InsertRideRequest, StoreInv, StoreTypeOK, TripBetweenParties, HasTrip
  <2> QED BY <1>0, <1>2, <2>2, <2>3 DEF InsertRideRequest, StoreInv, AbsentTripIsNull, HasTrip,
          AcceptedOfferHasTrip
<1>3. CASE UNCHANGED <<rideRequest, trip>>
  <2>1. AcceptedOfferHasTrip'
    <3> SUFFICES ASSUME NEW r \in Requests, NEW d \in Drivers, rideOffer'[r][d].status = "ACCEPTED"
                 PROVE  rideOffer[r][d].status = "ACCEPTED"
      BY <1>3 DEF StoreInv, AcceptedOfferHasTrip
    <3>1. CASE UNCHANGED rideOffer
      BY <3>1
    <3>2. CASE \E s \in Requests, e \in Drivers, fare \in Fares \cup {None} :
                 UpsertRideOffer(s, e, fare)
      BY <3>2 DEF UpsertRideOffer, StoreInv, StoreTypeOK
    <3>3. CASE \E s \in Requests, e \in Drivers : ExpireOffer(s, e)
      BY <3>3, OfferTypes DEF ExpireOffer, StoreInv, StoreTypeOK, RideOffer
    <3>4. CASE \E e \in Drivers : ExpireDriverOffers(e)
      BY <3>4, OfferTypes DEF ExpireDriverOffers, StoreInv, StoreTypeOK
    <3>5. CASE \E s \in Requests, sawTrip \in BOOLEAN : CancelTransaction(s, sawTrip)
      BY <3>5, OfferTypes DEF CancelTransaction, StoreInv, StoreTypeOK
    <3>6. CASE \E s \in Requests, e \in Drivers, u \in Users, fare \in Fares \cup {None} :
                 AcceptTransaction(s, e, u, fare)
      BY <1>3, <3>6 DEF AcceptTransaction, StoreInv, StoreTypeOK, HasTrip
    <3> QED BY <3>1, <3>2, <3>3, <3>4, <3>5, <3>6
            DEF StoreStep, store, InsertRideRequest, StartTransaction, CompleteTransaction
  <2> QED BY <1>0, <1>3, <2>1 DEF StoreInv, StoreGrows, AbsentTripIsNull, HasTrip,
          RequestTracksTrip, TripBetweenParties
<1>4. ASSUME NEW r \in Requests, NEW d \in Drivers, NEW u \in Users,
             NEW fare \in Fares \cup {None},
             rideRequest[r].riderId = u, rideOffer[r][d].status # "ABSENT",
             AcceptTransaction(r, d, u, fare)
      PROVE  StoreInv'
  <2>1. /\ trip' = [trip EXCEPT ![r] = [status |-> "MATCHED", driverId |-> d,
                                        riderId |-> u, agreedFare |-> fare]]
        /\ trip'[r].status = "MATCHED" /\ trip'[r].driverId = d /\ trip'[r].riderId = u
        /\ rideRequest'[r].status = "MATCHED" /\ rideRequest'[r].riderId = u
        /\ \A s \in Requests \ {r} : trip'[s] = trip[s] /\ rideRequest'[s] = rideRequest[s]
                                    /\ rideOffer'[s] = rideOffer[s]
    BY <1>4 DEF AcceptTransaction, StoreInv, StoreTypeOK, RideRequest
  <2>2. \A e \in Drivers \ {d} : rideOffer'[r][e].status # "ACCEPTED"
    <3> SUFFICES ASSUME NEW e \in Drivers \ {d} PROVE rideOffer'[r][e].status # "ACCEPTED"
      OBVIOUS
    <3>1. rideOffer'[r][e] = Lapsed(rideOffer[r][e])
      BY <1>4 DEF AcceptTransaction, StoreInv, StoreTypeOK
    <3>2. rideOffer[r][e].status # "ACCEPTED"
      BY <1>4, StoreAssumption DEF AcceptTransaction, StoreInv, AcceptedOfferHasTrip, AbsentTripIsNull
    <3> QED BY <3>1, <3>2, OfferTypes DEF StoreInv
  <2>3. AcceptedOfferHasTrip'
    BY <2>1, <2>2 DEF StoreInv, AcceptedOfferHasTrip
  <2>4. AbsentTripIsNull' /\ RequestTracksTrip'
    <3>1. RequestStatusOf("MATCHED") = "MATCHED"
      BY DEF RequestStatusOf
    <3> QED BY <2>1, <3>1 DEF StoreInv, AbsentTripIsNull, RequestTracksTrip, HasTrip
  <2>5. TripBetweenParties'
    BY <1>0, <1>4, <2>1 DEF StoreInv, StoreGrows, TripBetweenParties, HasTrip
  <2> QED BY <1>0, <2>3, <2>4, <2>5 DEF StoreInv
<1>5. ASSUME NEW r \in Requests, NEW sawTrip \in BOOLEAN, sawTrip => HasTrip(r),
             rideRequest[r].status # "ABSENT",
             CancelTransaction(r, sawTrip)
      PROVE  StoreInv'
  <2>1. /\ rideRequest'[r].status = "CANCELLED" /\ rideRequest'[r].riderId = rideRequest[r].riderId
        /\ trip'[r].driverId = trip[r].driverId /\ trip'[r].riderId = trip[r].riderId
        /\ trip'[r].status = trip[r].status \/ (HasTrip(r) /\ trip'[r].status = "CANCELLED")
        /\ \A s \in Requests \ {r} : trip'[s] = trip[s] /\ rideRequest'[s] = rideRequest[s]
    BY <1>5 DEF CancelTransaction, StoreInv, StoreTypeOK, RideRequest, Trip
  <2>2. \A s \in Requests, d \in Drivers :
          rideOffer'[s][d].status = "ACCEPTED" => rideOffer[s][d].status = "ACCEPTED"
    BY <1>5, OfferTypes DEF CancelTransaction, StoreInv, StoreTypeOK
  <2>3. AcceptedOfferHasTrip'
    BY <2>1, <2>2 DEF StoreInv, AcceptedOfferHasTrip
  <2>4. AbsentTripIsNull' /\ RequestTracksTrip'
    BY <2>1 DEF StoreInv, AbsentTripIsNull, RequestTracksTrip, HasTrip
  <2>5. TripBetweenParties'
    BY <1>0, <2>1 DEF StoreInv, StoreGrows, TripBetweenParties, HasTrip
  <2> QED BY <1>0, <2>3, <2>4, <2>5 DEF StoreInv
<1>6. ASSUME NEW r \in Requests, HasTrip(r), StartTransaction(r) \/ CompleteTransaction(r)
      PROVE  StoreInv'
  <2>1. /\ rideRequest'[r].status = RequestStatusOf(trip'[r].status)
        /\ trip'[r].status # "ABSENT"
        /\ rideRequest'[r].riderId = rideRequest[r].riderId
        /\ trip'[r].driverId = trip[r].driverId /\ trip'[r].riderId = trip[r].riderId
        /\ \A s \in Requests \ {r} : trip'[s] = trip[s] /\ rideRequest'[s] = rideRequest[s]
        /\ rideOffer' = rideOffer
    BY <1>6 DEF StartTransaction, CompleteTransaction, RequestStatusOf, StoreInv, StoreTypeOK,
       RideRequest, Trip
  <2>2. AcceptedOfferHasTrip'
    BY <2>1 DEF StoreInv, AcceptedOfferHasTrip
  <2>3. AbsentTripIsNull' /\ RequestTracksTrip'
    BY <2>1 DEF StoreInv, AbsentTripIsNull, RequestTracksTrip, HasTrip
  <2>4. TripBetweenParties'
    BY <1>6, <2>1 DEF StoreInv, TripBetweenParties, HasTrip
  <2> QED BY <1>0, <2>2, <2>3, <2>4 DEF StoreInv
<1> QED BY <1>1, <1>2, <1>3, <1>4, <1>5, <1>6
        DEF StoreStep, UpsertRideOffer, ExpireOffer, ExpireDriverOffers

=============================================================================
