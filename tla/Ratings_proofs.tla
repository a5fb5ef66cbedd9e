--------------------------- MODULE Ratings_proofs ---------------------------
(***************************************************************************)
(* Ratings for any number of users, trips and concurrent requests.  Every    *)
(* step of Ratings is a step of the tables (StoreStep), after which the      *)
(* parties of a trip never change; and of the calls that recalculate one     *)
(* user's rating, either there is one only or all of them know of another.   *)
(***************************************************************************)
EXTENDS Ratings, RideStore_proofs

(* A call past its read is about a trip that exists, and its parties. *)
CallBusy(k) ==
  k.pc # "idle" =>
    /\ k.tripId \in Requests /\ k.fromUserId \in Users /\ k.toUserId \in Users
    /\ HasTrip(k.tripId)
    /\ k.fromUserId \in Parties(k.tripId)
    /\ k.toUserId = Counterpart(k.tripId, k.fromUserId)

CallsBusy == \A c \in Calls : CallBusy(call[c])

RatingsHold ==
  \A x \in ratings :
    /\ HasTrip(x.tripId)
    /\ x.fromUserId \in Parties(x.tripId)
    /\ x.toUserId = Counterpart(x.tripId, x.fromUserId)

(* Two recalculations of a user know of each other ... *)
OverlapsKnown ==
  \A c, d \in Calls, u \in Users :
    c # d /\ Recalculating(c, u) /\ Recalculating(d, u) => c \in overlapped

(* ... and one that met no other has read every rating there is. *)
AveragesCurrent ==
  \A c \in Calls :
    call[c].pc = "update" /\ c \notin overlapped => call[c].avg = Received(call[c].toUserId)

(* A request that exists has a rider. *)
RidersKnown == \A r \in Requests : rideRequest[r].status # "ABSENT" => rideRequest[r].riderId \in Users

Basic == StoreInv /\ RidersKnown /\ TypeOK /\ CallsBusy /\ RatingsHold

AverageInv == OverlapsKnown /\ AveragesCurrent /\ RatingIsAverage

IInv == Basic /\ AverageInv

----------------------------------------------------------------------------
(* Every action but Ride leaves the tables alone, and Ride is a StoreStep. *)
LEMMA StepIsStoreStep == Basic /\ [Next]_vars => StoreStep
<1> SUFFICES ASSUME Basic, [Next]_vars PROVE StoreStep
  OBVIOUS
<1>1. ASSUME NEW r \in Requests, Ride(r) PROVE StoreStep
  <2>1. CASE \E u \in Users : InsertRideRequest(r, u)
    BY <2>1 DEF StoreStep
  <2>2. CASE \E d \in Drivers, fare \in Fares : UpsertRideOffer(r, d, fare)
    BY <2>2 DEF StoreStep
  <2>3. CASE /\ rideRequest[r].status # "ABSENT"
             /\ \E sawTrip \in {FALSE, HasTrip(r)} : CancelTransaction(r, sawTrip)
    <3>1. HasTrip(r) \in BOOLEAN
      BY DEF HasTrip
    <3> QED
      BY <2>3, <3>1 DEF StoreStep
  <2>4. ASSUME NEW d \in Drivers, NEW u \in Users, rideRequest[r].status # "ABSENT",
               rideOffer[r][d].status # "ABSENT", rideRequest[r].riderId = u,
               AcceptTransaction(r, d, u, rideOffer[r][d].offeredFare)
        PROVE  StoreStep
    <3>1. rideOffer[r][d] \in RideOffer
      BY DEF Basic, StoreInv, StoreTypeOK
    <3>2. rideOffer[r][d].offeredFare \in Fares \cup {None}
      BY <3>1 DEF RideOffer
    <3> QED
      BY <2>4, <3>2 DEF StoreStep
  <2>5. CASE \E d \in Drivers : ExpireOffer(r, d) \/ ExpireDriverOffers(d)
    BY <2>5 DEF StoreStep
  <2>6. CASE HasTrip(r) /\ StartTransaction(r)
    BY <2>6 DEF StoreStep
  <2>7. CASE trip[r].status \notin {"ABSENT", "MATCHED"} /\ CompleteTransaction(r)
    BY <2>7 DEF StoreStep, HasTrip
  <2> QED
    BY <1>1, <2>1, <2>2, <2>3, <2>4, <2>5, <2>6, <2>7 DEF Ride
<1>2. ASSUME NEW c \in Calls, Rate(c) PROVE StoreStep
  BY <1>2 DEF Rate, RateTrip, CreateRating, Aggregate, UpdateRating, Abort, StoreStep
<1>3. CASE UNCHANGED vars
  BY <1>3 DEF vars, StoreStep
<1> QED
  BY <1>1, <1>2, <1>3 DEF Next

(* The parties of a trip stay, so what was said of them stays true. *)
LEMMA PartiesStay ==
  ASSUME StoreGrows, NEW r \in Requests, HasTrip(r)
  PROVE  /\ HasTrip(r)'
         /\ Parties(r)' = Parties(r)
         /\ \A u : Counterpart(r, u)' = Counterpart(r, u)
  BY DEF StoreGrows, HasTrip, Parties, Counterpart

LEMMA IdleIs ==
  /\ IdleCall \in Call /\ IdleCall.pc = "idle"
  BY DEF IdleCall, Call

LEMMA TripHasRequest ==
  ASSUME StoreInv, NEW r \in Requests, HasTrip(r)
  PROVE  rideRequest[r].status # "ABSENT"
<1>1. trip[r] \in Trip
  BY DEF StoreInv, StoreTypeOK
<1>2. trip[r].status \in TripStatus
  BY <1>1 DEF Trip, HasTrip
<1>3. rideRequest[r].status \in {"CANCELLED", RequestStatusOf(trip[r].status)}
  BY DEF StoreInv, RequestTracksTrip
<1> QED
  BY <1>2, <1>3 DEF RequestStatusOf, TripStatus

(* The rider of a row is set by the insert and by nothing else. *)
LEMMA RidersKept ==
  ASSUME StoreInv, RidersKnown, StoreStep
  PROVE  RidersKnown'
<1> SUFFICES ASSUME NEW r \in Requests, rideRequest'[r].status # "ABSENT"
             PROVE  rideRequest'[r].riderId \in Users
  BY DEF RidersKnown
<1>1. rideRequest \in [Requests -> RideRequest]
  BY DEF StoreInv, StoreTypeOK
<1>2. rideRequest[r].status # "ABSENT" => rideRequest[r].riderId \in Users
  BY DEF RidersKnown
<1>3. CASE \E s \in Requests, u \in Users : InsertRideRequest(s, u)
  BY <1>1, <1>2, <1>3 DEF InsertRideRequest
<1>4. CASE \E s \in Requests, status \in RideRequestStatus :
             /\ rideRequest[s].status # "ABSENT"
             /\ rideRequest' = [rideRequest EXCEPT ![s].status = status]
  BY <1>1, <1>2, <1>4 DEF RideRequest
<1>5. CASE UNCHANGED rideRequest
  BY <1>2, <1>5
<1> QED
  BY <1>3, <1>4, <1>5, TripHasRequest
  DEF StoreStep, store, RideRequestStatus, UpsertRideOffer, AcceptTransaction,
      CancelTransaction, StartTransaction, CompleteTransaction, ExpireOffer, ExpireDriverOffers

(* The party rated by a party of a trip is a user. *)
LEMMA CounterpartIsUser ==
  ASSUME StoreInv, RidersKnown, NEW r \in Requests, HasTrip(r)
  PROVE  /\ Parties(r) \subseteq Users
         /\ \A u : Counterpart(r, u) \in Users
<1>1. trip[r].riderId = rideRequest[r].riderId /\ trip[r].driverId \in Drivers
  BY DEF StoreInv, TripBetweenParties
<1>2. rideRequest[r].status # "ABSENT"
  BY TripHasRequest
<1>3. trip[r].riderId \in Users /\ trip[r].driverId \in Users
  BY <1>1, <1>2, StoreAssumption DEF RidersKnown
<1> QED
  BY <1>3 DEF Parties, Counterpart

----------------------------------------------------------------------------
LEMMA BasicInitially == Init => Basic
<1> SUFFICES ASSUME Init PROVE Basic
  OBVIOUS
<1>1. StoreInv
  BY StoreInitially DEF Init
<1>2. RidersKnown
  BY DEF Init, StoreInit, NoRequest, RidersKnown
<1>3. TypeOK
  BY <1>1, IdleIs DEF Init, TypeOK, StoreInv
<1>4. CallsBusy /\ RatingsHold
  BY IdleIs DEF Init, CallsBusy, CallBusy, RatingsHold
<1> QED
  BY <1>1, <1>2, <1>3, <1>4 DEF Basic

(* A call that is idle, or as it was, is still about the parties of its trip. *)
LEMMA BusyStays ==
  ASSUME StoreGrows, NEW k, CallBusy(k)
  PROVE  CallBusy(k)'
  BY PartiesStay DEF CallBusy

LEMMA RatingsStay ==
  ASSUME StoreGrows, TypeOK, RatingsHold, ratings' = ratings
  PROVE  RatingsHold'
<1> SUFFICES ASSUME NEW x \in ratings
             PROVE  /\ HasTrip(x.tripId)'
                    /\ x.fromUserId \in Parties(x.tripId)'
                    /\ x.toUserId = Counterpart(x.tripId, x.fromUserId)'
  BY DEF RatingsHold
<1>1. x.tripId \in Requests
  BY DEF TypeOK, Rating
<1> QED
  BY <1>1, PartiesStay DEF RatingsHold

LEMMA BasicPreserved == Basic /\ [Next]_vars => Basic'
<1> SUFFICES ASSUME Basic, [Next]_vars PROVE Basic'
  OBVIOUS
<1>0. StoreInv' /\ StoreGrows /\ RidersKnown' /\ StoreTypeOK'
  <2>1. StoreStep
    BY StepIsStoreStep
  <2> QED
    BY <2>1, StorePreserves, StoreOnlyGrows, RidersKept DEF Basic, StoreInv
<1>1. ASSUME UNCHANGED <<ratings, userRating, call, overlapped, behind>> PROVE Basic'
  <2>1. TypeOK'
    BY <1>0, <1>1 DEF Basic, TypeOK
  <2>2. CallsBusy'
    BY <1>0, <1>1, BusyStays DEF Basic, CallsBusy
  <2> QED
    BY <1>0, <1>1, <2>1, <2>2, RatingsStay DEF Basic
<1>2. ASSUME NEW c \in Calls, NEW r \in Requests, NEW u \in Users, RateTrip(c, r, u)
      PROVE  Basic'
  <2> DEFINE k == [IdleCall EXCEPT !.pc = "create", !.tripId = r, !.fromUserId = u,
                                   !.toUserId = Counterpart(r, u)]
  <2>1. HasTrip(r) /\ u \in Parties(r) /\ UNCHANGED <<trip, ratings>>
    BY <1>2 DEF RateTrip, HasTrip, store
  <2>2. Counterpart(r, u) \in Users
    BY <2>1, CounterpartIsUser DEF Basic
  <2>3. k \in Call /\ CallBusy(k)
    BY <2>1, <2>2 DEF CallBusy, Call, IdleCall
  <2>4. call' = [call EXCEPT ![c] = k]
    BY <1>2 DEF RateTrip
  <2> HIDE DEF k
  <2>5. TypeOK'
    BY <1>0, <1>2, <2>3, <2>4 DEF Basic, TypeOK, RateTrip
  <2>6. CallsBusy'
    BY <1>0, <2>3, <2>4, BusyStays DEF Basic, CallsBusy, TypeOK
  <2> QED
    BY <1>0, <2>1, <2>5, <2>6, RatingsStay DEF Basic
<1>3. ASSUME NEW c \in Calls, CreateRating(c) PROVE Basic'
  <2> DEFINE x == Row(call[c])
  <2>1. CallBusy(call[c]) /\ call[c].pc = "create" /\ call[c] \in Call
    BY <1>3 DEF CreateRating, Basic, CallsBusy, TypeOK
  <2>2. /\ x \in Rating /\ HasTrip(x.tripId) /\ x.fromUserId \in Parties(x.tripId)
        /\ x.toUserId = Counterpart(x.tripId, x.fromUserId)
    BY <2>1 DEF CallBusy, Row, Rating
  <2>3. ratings' = ratings \cup {x} /\ UNCHANGED <<userRating, behind, trip>>
    BY <1>3 DEF CreateRating, store
  <2>4. call' = [call EXCEPT ![c] = IdleCall] \/ call' = [call EXCEPT ![c].pc = "aggregate"]
    BY <1>3 DEF CreateRating, Return
  <2>5. [call[c] EXCEPT !.pc = "aggregate"] \in Call /\ CallBusy([call[c] EXCEPT !.pc = "aggregate"])
    BY <2>1 DEF Call, CallBusy
  <2>6. overlapped' \subseteq Calls
    BY <1>3 DEF CreateRating, Return, Basic, TypeOK
  <2> HIDE DEF x
  <2>7. TypeOK'
    BY <1>0, <2>2, <2>3, <2>4, <2>5, <2>6, IdleIs DEF Basic, TypeOK
  <2>8. CallsBusy'
    <3> SUFFICES ASSUME NEW d \in Calls PROVE CallBusy(call[d])'
      BY DEF CallsBusy
    <3>1. PICK k : k = call'[d]
      OBVIOUS
    <3>2. CallBusy(k)
      <4>1. CASE d # c
        BY <2>4, <3>1, <4>1 DEF Basic, CallsBusy, TypeOK
      <4>2. CASE d = c
        BY <2>4, <2>5, <3>1, <4>2, IdleIs DEF Basic, TypeOK, CallBusy
      <4> QED
        BY <4>1, <4>2
    <3>3. CallBusy(k)'
      BY <1>0, <3>2, BusyStays
    <3> QED
      BY <3>1, <3>3
  <2>9. RatingsHold'
    <3> SUFFICES ASSUME NEW y \in ratings'
                 PROVE  /\ HasTrip(y.tripId)'
                        /\ y.fromUserId \in Parties(y.tripId)'
                        /\ y.toUserId = Counterpart(y.tripId, y.fromUserId)'
      BY DEF RatingsHold
    <3>1. /\ HasTrip(y.tripId) /\ y.fromUserId \in Parties(y.tripId)
          /\ y.toUserId = Counterpart(y.tripId, y.fromUserId)
      BY <2>2, <2>3 DEF Basic, RatingsHold
    <3> QED
      BY <2>3, <3>1 DEF HasTrip, Parties, Counterpart
  <2> QED
    BY <1>0, <2>7, <2>8, <2>9 DEF Basic
<1>4. ASSUME NEW c \in Calls, Aggregate(c) PROVE Basic'
  <2> DEFINE k == [call[c] EXCEPT !.pc = "update", !.avg = Received(call[c].toUserId)]
  <2>1. CallBusy(call[c]) /\ call[c].pc = "aggregate" /\ call[c] \in Call
    BY <1>4 DEF Aggregate, Basic, CallsBusy, TypeOK
  <2>2. Received(call[c].toUserId) \in SUBSET Rating
    BY DEF Received, Basic, TypeOK
  <2>3. k \in Call /\ CallBusy(k)
    BY <2>1, <2>2 DEF Call, CallBusy
  <2>4. call' = [call EXCEPT ![c] = k] /\ ratings' = ratings
    BY <1>4 DEF Aggregate
  <2> HIDE DEF k
  <2>5. TypeOK'
    BY <1>0, <1>4, <2>3, <2>4 DEF Basic, TypeOK, Aggregate
  <2>6. CallsBusy'
    BY <1>0, <2>3, <2>4, BusyStays DEF Basic, CallsBusy, TypeOK
  <2> QED
    BY <1>0, <2>4, <2>5, <2>6, RatingsStay DEF Basic
<1>5. ASSUME NEW c \in Calls, UpdateRating(c) \/ Abort(c) PROVE Basic'
  <2>1. call' = [call EXCEPT ![c] = IdleCall] /\ ratings' = ratings /\ overlapped' \subseteq Calls
    BY <1>5 DEF UpdateRating, Abort, Return, Basic, TypeOK
  <2>2. userRating' \in [Users -> SUBSET Rating] /\ behind' \subseteq Users
    <3>1. CASE Abort(c)
      BY <3>1 DEF Abort, Basic, TypeOK
    <3>2. CASE UpdateRating(c)
      <4>1. call[c] \in Call /\ call[c].toUserId \in Users
        BY <3>2 DEF UpdateRating, Basic, CallsBusy, CallBusy, TypeOK
      <4>2. call[c].avg \in SUBSET Rating
        BY <4>1 DEF Call
      <4> QED
        BY <3>2, <4>1, <4>2 DEF UpdateRating, Basic, TypeOK
    <3> QED
      BY <1>5, <3>1, <3>2
  <2>3. TypeOK'
    BY <1>0, <2>1, <2>2, IdleIs DEF Basic, TypeOK
  <2>4. CallBusy(IdleCall)
    BY IdleIs DEF CallBusy
  <2>5. CallsBusy'
    BY <1>0, <2>1, <2>4, BusyStays DEF Basic, CallsBusy, TypeOK
  <2> QED
    BY <1>0, <2>1, <2>3, <2>5, RatingsStay DEF Basic
<1>6. CASE UNCHANGED vars
  BY <1>1, <1>6 DEF vars
<1> QED
  BY <1>1, <1>2, <1>3, <1>4, <1>5, <1>6 DEF Next, Ride, Rate

----------------------------------------------------------------------------
LEMMA AverageInitially == Init => AverageInv
  BY IdleIs DEF Init, AverageInv, OverlapsKnown, AveragesCurrent, RatingIsAverage,
                Recalculating, Received

(* When c ends and nothing else changes, the other calls know what they knew. *)
LEMMA CallEnds ==
  ASSUME Basic, OverlapsKnown, AveragesCurrent, NEW c \in Calls, Return(c), ratings' = ratings
  PROVE  /\ OverlapsKnown' /\ AveragesCurrent'
         /\ \A d \in Calls, u \in Users :
               Recalculating(d, u)' <=> d # c /\ Recalculating(d, u)
         /\ \A u \in Users : Received(u)' = Received(u)
<1>1. \A d \in Calls : call'[d] = IF d = c THEN IdleCall ELSE call[d]
  BY DEF Basic, TypeOK, Return
<1>2. \A d \in Calls, u \in Users : Recalculating(d, u)' <=> d # c /\ Recalculating(d, u)
  BY <1>1, IdleIs DEF Recalculating
<1>3. \A u : Received(u)' = Received(u)
  BY DEF Received
<1>4. OverlapsKnown'
  BY <1>2 DEF OverlapsKnown, Return
<1>5. AveragesCurrent'
  BY <1>1, <1>3, IdleIs DEF AveragesCurrent, Return
<1> QED
  BY <1>2, <1>3, <1>4, <1>5

LEMMA AveragePreserved == Basic /\ AverageInv /\ [Next]_vars => AverageInv'
<1> SUFFICES ASSUME Basic, AverageInv, [Next]_vars PROVE AverageInv'
  OBVIOUS
<1> USE DEF AverageInv
<1>1. ASSUME UNCHANGED <<ratings, userRating, call, overlapped, behind>> PROVE AverageInv'
  BY <1>1 DEF OverlapsKnown, AveragesCurrent, RatingIsAverage, Recalculating, Received
<1>2. ASSUME NEW c \in Calls, NEW r \in Requests, NEW u \in Users, RateTrip(c, r, u)
      PROVE  AverageInv'
  <2>1. /\ \A d \in Calls \ {c} : call'[d] = call[d]
        /\ call'[c].pc = "create" /\ call[c] = IdleCall
        /\ UNCHANGED <<ratings, userRating, overlapped, behind>>
    BY <1>2 DEF RateTrip, Basic, TypeOK, IdleCall
  <2>2. \A d \in Calls, v \in Users : Recalculating(d, v)' <=> Recalculating(d, v)
    BY <2>1, IdleIs DEF Recalculating
  <2>3. \A v : Received(v)' = Received(v)
    BY <2>1 DEF Received
  <2>4. OverlapsKnown' /\ RatingIsAverage'
    BY <2>1, <2>2, <2>3 DEF OverlapsKnown, RatingIsAverage
  <2>5. AveragesCurrent'
    BY <2>1, <2>3 DEF AveragesCurrent
  <2> QED
    BY <2>4, <2>5
<1>3. ASSUME NEW c \in Calls, CreateRating(c) PROVE AverageInv'
  <2> DEFINE x == Row(call[c])
  <2>0. call[c].pc = "create" /\ x.toUserId = call[c].toUserId /\ x.toUserId \in Users
    BY <1>3 DEF CreateRating, Row, Basic, CallsBusy, CallBusy
  <2>1. CASE x \in ratings
    <3>1. Return(c) /\ ratings' = ratings /\ UNCHANGED <<userRating, behind>>
      BY <1>3, <2>1 DEF CreateRating
    <3>2. \A u \in Users : ~ Recalculating(c, u)
      BY <2>0 DEF Recalculating
    <3>3. OverlapsKnown' /\ AveragesCurrent'
      BY <3>1, CallEnds
    <3>4. RatingIsAverage'
      BY <3>1, <3>2, CallEnds DEF RatingIsAverage
    <3> QED
      BY <3>3, <3>4
  <2>2. CASE x \notin ratings
    <3> DEFINE v == x.toUserId
               busy == {d \in Calls \ {c} : Recalculating(d, v)}
    <3>1. /\ ratings' = ratings \cup {x} /\ UNCHANGED <<userRating, behind>>
          /\ call' = [call EXCEPT ![c].pc = "aggregate"]
          /\ overlapped' = IF busy = {} THEN overlapped ELSE overlapped \cup busy \cup {c}
      BY <1>3, <2>2 DEF CreateRating
    <3> HIDE DEF x
    <3>2. /\ \A d \in Calls \ {c} : call'[d] = call[d]
          /\ call'[c].pc = "aggregate" /\ call'[c].toUserId = v
      BY <2>0, <3>1 DEF Basic, TypeOK, Call
    <3>3. \A d \in Calls, u \in Users :
             Recalculating(d, u)' <=> Recalculating(d, u) \/ (d = c /\ u = v)
      BY <2>0, <3>2 DEF Recalculating
    <3>4. \A u : u # v => Received(u)' = Received(u)
      BY <3>1 DEF Received
    <3>5. OverlapsKnown'
      <4> SUFFICES ASSUME NEW d \in Calls, NEW e \in Calls, NEW u \in Users, d # e,
                          Recalculating(d, u)', Recalculating(e, u)'
                   PROVE  d \in overlapped'
        BY DEF OverlapsKnown
      <4>1. CASE Recalculating(d, u) /\ Recalculating(e, u)
        BY <3>1, <4>1 DEF OverlapsKnown
      <4>2. CASE u = v /\ d = c /\ Recalculating(e, u)
        BY <3>1, <4>2
      <4>3. CASE u = v /\ e = c /\ Recalculating(d, u)
        BY <3>1, <4>3
      <4> QED
        BY <3>3, <4>1, <4>2, <4>3
    <3>6. AveragesCurrent'
      <4> SUFFICES ASSUME NEW d \in Calls, call'[d].pc = "update", d \notin overlapped'
                   PROVE  call'[d].avg = Received(call[d].toUserId)'
        BY DEF AveragesCurrent
      <4>1. d # c /\ call'[d] = call[d] /\ d \notin overlapped
        BY <3>1, <3>2
      <4>2. call[d].toUserId # v
        BY <2>0, <3>1, <4>1 DEF Recalculating
      <4>3. call[d].avg = Received(call[d].toUserId)
        BY <4>1 DEF AveragesCurrent
      <4>4. Received(call[d].toUserId)' = {y \in ratings' : y.toUserId = call[d].toUserId}
        BY <4>1 DEF Received
      <4> QED
        BY <3>1, <4>1, <4>2, <4>3, <4>4 DEF Received
    <3>7. RatingIsAverage'
      BY <2>0, <3>1, <3>3, <3>4 DEF RatingIsAverage
    <3> QED
      BY <3>5, <3>6, <3>7
  <2> QED
    BY <2>1, <2>2
<1>4. ASSUME NEW c \in Calls, Aggregate(c) PROVE AverageInv'
  <2>1. /\ \A d \in Calls \ {c} : call'[d] = call[d]
        /\ call'[c].pc = "update" /\ call[c].pc = "aggregate"
        /\ call'[c].toUserId = call[c].toUserId
        /\ call'[c].avg = Received(call[c].toUserId)
        /\ UNCHANGED <<ratings, userRating, overlapped, behind>>
    BY <1>4 DEF Aggregate, Basic, TypeOK, Call
  <2>2. \A d \in Calls, v \in Users : Recalculating(d, v)' <=> Recalculating(d, v)
    BY <2>1 DEF Recalculating
  <2>3. \A v : Received(v)' = Received(v)
    BY <2>1 DEF Received
  <2>4. OverlapsKnown' /\ RatingIsAverage'
    BY <2>1, <2>2, <2>3 DEF OverlapsKnown, RatingIsAverage
  <2>5. AveragesCurrent'
    BY <2>1 DEF AveragesCurrent, Received
  <2> QED
    BY <2>4, <2>5
<1>5. ASSUME NEW c \in Calls, UpdateRating(c) PROVE AverageInv'
  <2> DEFINE v == call[c].toUserId
  <2>1. /\ Return(c) /\ ratings' = ratings /\ call[c].pc = "update"
        /\ userRating' = [userRating EXCEPT ![v] = call[c].avg]
        /\ behind' = IF c \in overlapped THEN behind \cup {v} ELSE behind \ {v}
    BY <1>5 DEF UpdateRating
  <2>2. v \in Users /\ Recalculating(c, v)
    BY <2>1 DEF Basic, CallsBusy, CallBusy, Recalculating
  <2>3. OverlapsKnown' /\ AveragesCurrent'
    BY <2>1, CallEnds
  <2>4. RatingIsAverage'
    <3> SUFFICES ASSUME NEW u \in Users, u \notin behind',
                        \A d \in Calls : ~ Recalculating(d, u)'
                 PROVE  userRating'[u] = Received(u)'
      BY DEF RatingIsAverage
    <3>1. Received(u)' = Received(u) /\ \A d \in Calls : d # c => ~ Recalculating(d, u)
      BY <2>1, CallEnds
    <3>2. CASE u = v
      BY <2>1, <2>2, <3>1, <3>2 DEF AveragesCurrent, Basic, TypeOK
    <3>3. CASE u # v
      <4>1. ~ Recalculating(c, u)
        BY <3>3 DEF Recalculating
      <4> QED
        BY <2>1, <3>1, <3>3, <4>1 DEF RatingIsAverage, Basic, TypeOK
    <3> QED
      BY <3>2, <3>3
  <2> QED
    BY <2>3, <2>4
<1>6. ASSUME NEW c \in Calls, Abort(c) PROVE AverageInv'
  <2>1. /\ Return(c) /\ UNCHANGED <<ratings, userRating>>
        /\ behind' = behind \cup {u \in Users : Recalculating(c, u)}
    BY <1>6 DEF Abort
  <2>2. OverlapsKnown' /\ AveragesCurrent'
    BY <2>1, CallEnds
  <2>3. RatingIsAverage'
    BY <2>1, CallEnds DEF RatingIsAverage
  <2> QED
    BY <2>2, <2>3
<1>7. CASE UNCHANGED vars
  BY <1>1, <1>7 DEF vars
<1> QED
  BY <1>1, <1>2, <1>3, <1>4, <1>5, <1>6, <1>7 DEF Next, Ride, Rate

LEMMA Inductive == Spec => []IInv
<1>1. Init => IInv
  BY BasicInitially, AverageInitially DEF IInv
<1>2. IInv /\ [Next]_vars => IInv'
  BY BasicPreserved, AveragePreserved DEF IInv
<1> QED
  BY <1>1, <1>2, PTL DEF Spec

----------------------------------------------------------------------------
(* Types: every row, average and call in flight (RatingsService.rateTrip)      *)
(* stays within its type, whatever the transactions of the other services do. *)
THEOREM TypeCorrect == Spec => []TypeOK
<1>1. IInv => TypeOK
  BY DEF IInv, Basic
<1> QED
  BY <1>1, Inductive, PTL

(* recalculateRating: for any number of concurrent rateTrip calls and         *)
(* failures, a stored rating misses none of the ratings received unless the   *)
(* last recalculation failed or overlapped with another of the same user.     *)
THEOREM AverageHolds == Spec => []RatingIsAverage
<1>1. IInv => RatingIsAverage
  BY DEF IInv, AverageInv
<1> QED
  BY <1>1, Inductive, PTL

(* rateTrip: whatever the trip's transactions do between its read and its     *)
(* insert, ratings are between the two parties, one by each and of each.      *)
THEOREM RatingsBetweenParties == Spec => []RatedBetweenParties
<1>1. IInv => RatedBetweenParties
  <2> SUFFICES ASSUME IInv PROVE RatedBetweenParties
    OBVIOUS
  <2>1. \A x \in ratings : HasTrip(x.tripId) /\ {x.fromUserId, x.toUserId} = Parties(x.tripId)
    BY DEF IInv, Basic, RatingsHold, Parties, Counterpart
  <2>2. ASSUME NEW x \in ratings, NEW y \in ratings, x.tripId = y.tripId, x # y
        PROVE  x.fromUserId # y.fromUserId /\ x.toUserId # y.toUserId
    <3>1. x.fromUserId = y.fromUserId => x = y
      BY <2>2 DEF IInv, Basic, RatingsHold, TypeOK, Rating
    <3>2. x.toUserId = y.toUserId => x.fromUserId = y.fromUserId
      BY <2>2 DEF IInv, Basic, RatingsHold, Parties, Counterpart
    <3> QED
      BY <2>2, <3>1, <3>2
  <2> QED
    BY <2>1, <2>2 DEF RatedBetweenParties
<1> QED
  BY <1>1, Inductive, PTL
============================================================================
