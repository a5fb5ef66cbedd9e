------------------------------ MODULE Ratings ------------------------------
(***************************************************************************)
(* Ratings of completed trips (RatingsService.rateTrip) and the average that *)
(* is kept in the row of the user who was rated                              *)
(* (UsersService.recalculateRating), over the tables of RideStore.           *)
(*                                                                           *)
(* A score matters to the program through averages only, so a row has no     *)
(* score here and User.rating is the set of rows whose scores were averaged: *)
(* {} is the default 5.0, and equal sets have equal averages.                *)
(*                                                                           *)
(* An action is one awaited call with the code up to the next one.  Refused  *)
(* requests are stuttering steps.                                            *)
(***************************************************************************)
EXTENDS RideStore

CONSTANT Calls   \* bound on the requests in flight at once

VARIABLES
  ratings,      \* SUBSET Rating
  userRating,   \* [Users -> SUBSET Rating]: User.rating
  call,         \* [Calls -> Call]: the rateTrip requests in flight
  \* What the properties speak of and the code does not keep:
  overlapped,   \* SUBSET Calls: a rating of the same user was created by
                \* another call between this one's create and its update
  behind        \* SUBSET Users: the last recalculation failed or overlapped

vars == <<store, ratings, userRating, call, overlapped, behind>>

(* @@unique([tripId, fromUserId, toUserId]); a trip is named by its request. *)
Rating == [tripId: Requests, fromUserId: Users, toUserId: Users]

Call ==
  [pc: {"idle", "create", "aggregate", "update"}, tripId: Requests \cup {None},
   fromUserId: Users \cup {None}, toUserId: Users \cup {None}, avg: SUBSET Rating]

IdleCall ==
  [pc |-> "idle", tripId |-> None, fromUserId |-> None, toUserId |-> None, avg |-> {}]

TypeOK ==
  /\ StoreTypeOK
  /\ ratings \subseteq Rating
  /\ userRating \in [Users -> SUBSET Rating]
  /\ call \in [Calls -> Call]
  /\ overlapped \subseteq Calls
  /\ behind \subseteq Users

Init ==
  /\ StoreInit
  /\ ratings = {}
  /\ userRating = [u \in Users |-> {}]
  /\ call = [c \in Calls |-> IdleCall]
  /\ overlapped = {} /\ behind = {}

----------------------------------------------------------------------------
Parties(r) == {trip[r].riderId, trip[r].driverId}

(* The other party of a trip; of a trip with oneself, oneself. *)
Counterpart(r, u) == IF u = trip[r].riderId THEN trip[r].driverId ELSE trip[r].riderId

Received(u) == {x \in ratings : x.toUserId = u}

(* A call of whose rating the average of u may not know yet. *)
Recalculating(c, u) == call[c].pc \in {"aggregate", "update"} /\ call[c].toUserId = u

Row(k) == [tripId |-> k.tripId, fromUserId |-> k.fromUserId, toUserId |-> k.toUserId]

Return(c) ==
  /\ call' = [call EXCEPT ![c] = IdleCall]
  /\ overlapped' = overlapped \ {c}

(* Mutants of RateTrip: any trip may be rated; anyone may rate its rider. *)
RateTripUnchecked(c, r, u) ==
  /\ call[c] = IdleCall
  /\ call' = [call EXCEPT ![c] = [IdleCall EXCEPT
        !.pc = "create", !.tripId = r, !.fromUserId = u, !.toUserId = Counterpart(r, u)]]
  /\ UNCHANGED <<store, ratings, userRating, overlapped, behind>>

RateTripByAnyone(c, r, u) ==
  /\ call[c] = IdleCall
  /\ trip[r].status = "COMPLETED"
  /\ call' = [call EXCEPT ![c] = [IdleCall EXCEPT
        !.pc = "create", !.tripId = r, !.fromUserId = u, !.toUserId = Counterpart(r, u)]]
  /\ UNCHANGED <<store, ratings, userRating, overlapped, behind>>

(* rateTrip reads the trip and decides who is rated. *)
RateTrip(c, r, u) ==
  /\ call[c] = IdleCall
  /\ trip[r].status = "COMPLETED"
  /\ u \in Parties(r)
  /\ call' = [call EXCEPT ![c] = [IdleCall EXCEPT
        !.pc = "create", !.tripId = r, !.fromUserId = u, !.toUserId = Counterpart(r, u)]]
  /\ UNCHANGED <<store, ratings, userRating, overlapped, behind>>

(* rating.create; a row that is there already is the conflict "You have       *)
(* already rated this trip", which ends the request.                          *)
CreateRating(c) ==
  LET x    == Row(call[c])
      busy == {d \in Calls \ {c} : Recalculating(d, x.toUserId)} IN
  /\ call[c].pc = "create"
  /\ ratings' = ratings \cup {x}
  /\ IF x \in ratings
     THEN Return(c)
     ELSE /\ call' = [call EXCEPT ![c].pc = "aggregate"]
          /\ overlapped' = IF busy = {} THEN overlapped ELSE overlapped \cup busy \cup {c}
  /\ UNCHANGED <<store, userRating, behind>>

(* Mutant of Aggregate: the ratings given are averaged, not those received. *)
AggregateGiven(c) ==
  /\ call[c].pc = "aggregate"
  /\ call' = [call EXCEPT ![c].pc = "update",
                          ![c].avg = {x \in ratings : x.fromUserId = call[c].toUserId}]
  /\ UNCHANGED <<store, ratings, userRating, overlapped, behind>>

(* recalculateRating: rating.aggregate ... *)
Aggregate(c) ==
  /\ call[c].pc = "aggregate"
  /\ call' = [call EXCEPT ![c].pc = "update", ![c].avg = Received(call[c].toUserId)]
  /\ UNCHANGED <<store, ratings, userRating, overlapped, behind>>

(* ... and user.update with what it said. *)
UpdateRating(c) ==
  LET u == call[c].toUserId IN
  /\ call[c].pc = "update"
  /\ userRating' = [userRating EXCEPT ![u] = call[c].avg]
  /\ behind' = IF c \in overlapped THEN behind \cup {u} ELSE behind \ {u}
  /\ Return(c)
  /\ UNCHANGED <<store, ratings>>

(* An awaited call fails, perhaps after it took effect: the request ends.  A  *)
(* restart of the process ends them all.                                      *)
Abort(c) ==
  /\ call[c] # IdleCall
  /\ behind' = behind \cup {u \in Users : Recalculating(c, u)}
  /\ Return(c)
  /\ UNCHANGED <<store, ratings, userRating>>

----------------------------------------------------------------------------
(* The transactions of the other services.  They check statuses that they     *)
(* read earlier, so a transaction may meet any status that came of the one    *)
(* its service read.                                                          *)
Ride(r) ==
  /\ \/ \E u \in Users : InsertRideRequest(r, u)
     \/ /\ rideRequest[r].status # "ABSENT"
        /\ \/ \E d \in Drivers, fare \in Fares : UpsertRideOffer(r, d, fare)
           \/ \E d \in Drivers, u \in Users :
                /\ rideOffer[r][d].status # "ABSENT"
                /\ rideRequest[r].riderId = u
                /\ AcceptTransaction(r, d, u, rideOffer[r][d].offeredFare)
           \/ \E sawTrip \in {FALSE, HasTrip(r)} : CancelTransaction(r, sawTrip)
     \/ \E d \in Drivers :
          (rideOffer[r][d].status # "ABSENT" /\ ExpireOffer(r, d)) \/ ExpireDriverOffers(d)
     \/ HasTrip(r) /\ StartTransaction(r)
     \/ trip[r].status \notin {"ABSENT", "MATCHED"} /\ CompleteTransaction(r)
  /\ UNCHANGED <<ratings, userRating, call, overlapped, behind>>

Rate(c) ==
  \/ \E r \in Requests, u \in Users : RateTrip(c, r, u)
  \/ CreateRating(c) \/ Aggregate(c) \/ UpdateRating(c) \/ Abort(c)

Next == (\E r \in Requests : Ride(r)) \/ (\E c \in Calls : Rate(c))

Spec == Init /\ [][Next]_vars

----------------------------------------------------------------------------
(* A user's rating is the average of all ratings they received                *)
(* (recalculateRating), once no rateTrip about them is between its create and *)
(* its update; unless the last one failed there, or overlapped with another   *)
(* one about the same user, whose update may have come first.                 *)
RatingIsAverage ==
  \A u \in Users :
     u \notin behind /\ (\A c \in Calls : ~ Recalculating(c, u)) => userRating[u] = Received(u)

(* Ratings are between the two parties of a trip, although rateTrip decided   *)
(* who they are before the insert, and each party is rated at most once per   *)
(* trip, and rates once: the unique key alone would allow more.               *)
RatedBetweenParties ==
  /\ \A x \in ratings : HasTrip(x.tripId) /\ {x.fromUserId, x.toUserId} = Parties(x.tripId)
  /\ \A x, y \in ratings :
        x.tripId = y.tripId /\ x # y => x.fromUserId # y.fromUserId /\ x.toUserId # y.toUserId

============================================================================
