-------------------------- MODULE Lifecycle_proofs --------------------------
(***************************************************************************)
(* What Negotiation guarantees to callers that do not race, proved for every *)
(* set of users, drivers, requests, fares and calls: with the handlers of a  *)
(* ride request kept apart (Exclusive), what a handler read is still so when *)
(* it writes, the three tables tell one story, and the program implements    *)
(* RideLifecycle, whatever fails.  Every theorem here assumes Exclusive.     *)
(***************************************************************************)
EXTENDS Negotiation_proofs

----------------------------------------------------------------------------
(* The invariant. *)

(* At most one handler works on a ride request, and none on a request of the  *)
(* worker's job.                                                              *)
CallsApart ==
  \A c, e \in Calls :
    /\ call[c].pc # "idle" /\ call[e].pc # "idle"
    /\ call[c].r = call[e].r /\ call[c].r \in Requests
    => c = e

WorkerApart ==
  \A c \in Calls :
    worker.pc # "idle" /\ call[c].pc # "idle" => call[c].r \notin Footprint(worker.job)

(* The statuses that handler h read and will act upon, in the given tables. *)
Fresh(h, requests, offers, trips) ==
  /\ h.pc = "submitUpsert" => requests[h.r].status = "PENDING" /\ h.fare \in Fares
  /\ h.pc \in {"acceptOthers", "acceptTx"} =>
       /\ requests[h.r].status = "PENDING"
       /\ offers[h.r][h.d] = [status |-> "PENDING", offeredFare |-> h.fare]
  /\ h.pc = "cancelTx" =>
       /\ requests[h.r].status \in {"PENDING", "MATCHED"}
       /\ h.sawTrip <=> trips[h.r].status # "ABSENT"
  /\ h.pc = "startTx" => trips[h.r].status = "MATCHED"
  /\ h.pc = "completeTx" => trips[h.r].status = "STARTED"

ReadsAreFresh == \A c \in Calls : Fresh(call[c], rideRequest, rideOffer, trip)

(* The offer that the worker found pending still is. *)
WorkerReadIsFresh ==
  worker.pc = "update" /\ worker.job[1] \in Requests =>
    rideOffer[worker.job[1]][worker.job[2]].status = "PENDING"

(* A pending offer names a fare. *)
PendingOfferIsPriced ==
  \A r \in Requests, d \in Drivers :
    rideOffer[r][d].status = "PENDING" => rideOffer[r][d].offeredFare \in Fares

OneStory ==
  /\ NoOfferOutlivesRequest
  /\ TripMirrorsRequest
  /\ DealHonoursOffer
  /\ PendingOfferIsPriced

ExclusiveInv ==
  /\ Inv
  /\ CallsApart
  /\ WorkerApart
  /\ ReadsAreFresh
  /\ WorkerReadIsFresh
  /\ OneStory

(* Without failures, besides: only the worker's job is active; a job that is  *)
(* done has left no pending offer behind; the timer that submitOffer is about *)
(* to add is not in the queue already.                                        *)
ActiveJobIsHeld ==
  \A j \in JobIds : job[j].state = "active" => worker.pc # "idle" /\ worker.job = j

DoneJobLeavesNoOffer ==
  worker.pc = "finish" /\ worker.job[1] \in Requests =>
    rideOffer[worker.job[1]][worker.job[2]].status # "PENDING"

SlotIsFree ==
  \A c \in Calls :
    call[c].pc = "submitSchedule" => job[OfferJob(call[c].r, call[c].d)].state = "absent"

TimerInv ==
  /\ ActiveJobIsHeld
  /\ DoneJobLeavesNoOffer
  /\ SlotIsFree
  /\ PendingOfferHasTimer

----------------------------------------------------------------------------
(* What the program does to the tables when its reads are fresh: each         *)
(* statement or transaction runs on rows in the statuses its handler checked. *)
OrderlyStep ==
  \/ UNCHANGED store
  \/ \E r \in Requests, u \in Users : InsertRideRequest(r, u)
  \/ \E r \in Requests, d \in Drivers, fare \in Fares :
       rideRequest[r].status = "PENDING" /\ UpsertRideOffer(r, d, fare)
  \/ \E r \in Requests, d \in Drivers, u \in Users, fare \in Fares \cup {None} :
       /\ rideRequest[r].status = "PENDING" /\ rideRequest[r].riderId = u
       /\ rideOffer[r][d] = [status |-> "PENDING", offeredFare |-> fare]
       /\ AcceptTransaction(r, d, u, fare)
  \/ \E r \in Requests, sawTrip \in BOOLEAN :
       /\ rideRequest[r].status \in {"PENDING", "MATCHED"}
       /\ sawTrip <=> HasTrip(r)
       /\ CancelTransaction(r, sawTrip)
  \/ \E r \in Requests : trip[r].status = "MATCHED" /\ StartTransaction(r)
  \/ \E r \in Requests : trip[r].status = "STARTED" /\ CompleteTransaction(r)
  \/ \E r \in Requests, d \in Drivers :
       rideOffer[r][d].status = "PENDING" /\ ExpireOffer(r, d)
  \/ \E d \in Drivers : ExpireDriverOffers(d)

(* Every step of the program is such a step. *)
LEMMA NextIsOrderly == ExclusiveInv /\ [Next]_vars => OrderlyStep
<1> SUFFICES ASSUME ExclusiveInv, [Next]_vars PROVE OrderlyStep
  OBVIOUS
<1>0. TypeOK /\ ReadsStayTrue /\ ReadsAreFresh /\ WorkerReadIsFresh
  BY DEF ExclusiveInv, Inv
<1>1. CASE UNCHANGED store
  BY <1>1 DEF OrderlyStep
<1>2. ASSUME NEW r \in Requests, NEW u \in Users, Create(r, u) PROVE OrderlyStep
  BY <1>2 DEF Create, OrderlyStep
<1>3. ASSUME NEW c \in Calls, HandlerContinues(c) PROVE OrderlyStep
  <2>0. /\ call[c].d \in Drivers \cup {None} /\ call[c].fare \in Fares \cup {None}
        /\ call[c].sawTrip \in BOOLEAN
        /\ Knows(call[c]) /\ Fresh(call[c], rideRequest, rideOffer, trip)
    BY <1>0 DEF TypeOK, Call, ReadsStayTrue, ReadsAreFresh
  <2>1. CASE SubmitUpsert(c)
    BY <2>0, <2>1 DEF SubmitUpsert, Knows, Fresh, OrderlyStep
  <2>2. CASE AcceptCommit(c)
    BY <2>0, <2>2 DEF AcceptCommit, Knows, Fresh, OrderlyStep
  <2>3. CASE CancelCommit(c)
    BY <2>0, <2>3 DEF CancelCommit, Knows, Fresh, HasTrip, OrderlyStep
  <2>4. CASE StartCommit(c)
    BY <2>0, <2>4 DEF StartCommit, Knows, Fresh, OrderlyStep
  <2>5. CASE CompleteCommit(c)
    BY <2>0, <2>5 DEF CompleteCommit, Knows, Fresh, OrderlyStep
  <2> QED BY <1>1, <1>3, <2>1, <2>2, <2>3, <2>4, <2>5
          DEF HandlerContinues, SubmitUnschedule, SubmitSchedule, AcceptOthers, AcceptRollback,
              AcceptUnschedule, AcceptEmit, CompleteEmit, OfflineSchedule
<1>4. CASE ProcessUpdate
  <2>1. worker.job \in JobIds
    BY <1>0, <1>4 DEF ProcessUpdate, TypeOK, Worker, IdleWorker
  <2>2. worker.job[2] \in Drivers /\ (worker.job[1] # None => worker.job[1] \in Requests)
    BY <2>1 DEF JobIds
  <2> QED BY <1>0, <1>4, <2>2 DEF ProcessUpdate, WorkerReadIsFresh, OrderlyStep
<1>5. ASSUME NEW c \in Calls, HandlerBegins(c) \/ Abort(c) PROVE UNCHANGED store
  BY <1>5 DEF HandlerBegins, TripRoutes, SubmitRead, AcceptRead, StartRead, CompleteRead, CancelRead,
     GoOffline, Abort
<1>6. ASSUME NEW j \in JobIds, DelayElapses(j) \/ Take(j) \/ StalledCheck(j)
      PROVE  UNCHANGED store
  BY <1>6 DEF DelayElapses, Take, StalledCheck
<1>7. CASE \/ \E d \in Leavers, online \in BOOLEAN : SetOnlineStatus(d, online)
           \/ ProcessRead \/ ProcessFinish \/ ProcessFail \/ Crash \/ UNCHANGED vars
  BY <1>1, <1>7 DEF SetOnlineStatus, ProcessRead, ProcessFinish, ProcessFail, Crash, vars
<1> QED BY <1>1, <1>2, <1>3, <1>4, <1>5, <1>6, <1>7 DEF Next, WorkerContinues

(* What the statuses say of each other. *)
LEMMA Statuses ==
  ASSUME StoreInv, OneStory, NEW r \in Requests
  PROVE  /\ rideRequest[r].status \in {"ABSENT", "PENDING"} => ~ HasTrip(r)
         /\ trip[r].status = "MATCHED" => rideRequest[r].status = "MATCHED"
         /\ trip[r].status = "STARTED" => rideRequest[r].status = "IN_PROGRESS"
         /\ rideRequest[r].status = "MATCHED" => trip[r].status = "MATCHED"
         /\ trip[r].status \in {"ABSENT", "MATCHED", "STARTED", "COMPLETED", "CANCELLED"}
         /\ rideRequest[r].status # "PENDING" =>
              \A d \in Drivers : rideOffer[r][d].status # "PENDING"
<1>1. trip[r].status \in {"ABSENT", "MATCHED", "STARTED", "COMPLETED", "CANCELLED"}
  BY DEF StoreInv, StoreTypeOK, Trip, TripStatus
<1>2. HasTrip(r) => rideRequest[r].status = RequestStatusOf(trip[r].status)
  BY DEF OneStory, TripMirrorsRequest
<1>3. ~ HasTrip(r) => rideRequest[r].status \in {"ABSENT", "PENDING", "CANCELLED"}
  BY DEF StoreInv, RequestTracksTrip
<1>4. rideRequest[r].status # "PENDING" => \A d \in Drivers : rideOffer[r][d].status # "PENDING"
  BY DEF OneStory, NoOfferOutlivesRequest
<1> QED BY <1>1, <1>2, <1>3, <1>4 DEF RequestStatusOf, HasTrip

(* The rows of ride request s: its own, its offers, its trip. *)
SameRows(s) ==
  rideRequest'[s] = rideRequest[s] /\ rideOffer'[s] = rideOffer[s] /\ trip'[s] = trip[s]

(* The tables keep telling one story: by request, a step that leaves the rows *)
(* of s alone leaves its story alone ...                                      *)
StoryOf(s) ==
  /\ \A d \in Drivers : rideOffer[s][d].status = "PENDING" =>
       rideRequest[s].status = "PENDING" /\ rideOffer[s][d].offeredFare \in Fares
  /\ HasTrip(s) =>
       /\ rideRequest[s].status = RequestStatusOf(trip[s].status)
       /\ trip[s].driverId \in Drivers
       /\ rideOffer[s][trip[s].driverId] =
            [status |-> "ACCEPTED", offeredFare |-> trip[s].agreedFare]

LEMMA StoryByRequest == OneStory <=> \A s \in Requests : StoryOf(s)
  BY DEF OneStory, StoryOf, NoOfferOutlivesRequest, TripMirrorsRequest, DealHonoursOffer,
     PendingOfferIsPriced

LEMMA SameStory ==
  ASSUME NEW s \in Requests, StoryOf(s), SameRows(s)
  PROVE  StoryOf(s)'
  BY DEF StoryOf, SameRows, HasTrip

(* ... and each transaction writes the next line of it. *)
LEMMA StoryGoesOn == StoreInv /\ OneStory /\ OrderlyStep => OneStory'
<1> SUFFICES ASSUME StoreInv, OneStory, OrderlyStep PROVE \A s \in Requests : StoryOf(s)'
  BY DEF OneStory, StoryOf, NoOfferOutlivesRequest, TripMirrorsRequest, DealHonoursOffer,
     PendingOfferIsPriced, HasTrip
<1>0. /\ \A s \in Requests : StoryOf(s)
      /\ StoreTypeOK
  BY StoryByRequest DEF StoreInv
<1>1. CASE UNCHANGED store
  BY <1>0, <1>1, SameStory DEF store, SameRows
<1>2. ASSUME NEW r \in Requests, NEW u \in Users, InsertRideRequest(r, u)
      PROVE  \A s \in Requests : StoryOf(s)'
  <2>1. \A s \in Requests \ {r} : SameRows(s)
    BY <1>0, <1>2 DEF InsertRideRequest, StoreTypeOK, SameRows
  <2>2. /\ rideRequest'[r].status = "PENDING" /\ rideOffer' = rideOffer /\ trip' = trip
        /\ rideRequest[r].status = "ABSENT"
    BY <1>0, <1>2 DEF InsertRideRequest, StoreTypeOK
  <2>3. StoryOf(r)'
    BY <1>0, <2>2, Statuses DEF StoryOf, HasTrip
  <2> QED BY <1>0, <2>1, <2>3, SameStory
<1>3. ASSUME NEW r \in Requests, NEW d \in Drivers, NEW fare \in Fares,
             rideRequest[r].status = "PENDING", UpsertRideOffer(r, d, fare)
      PROVE  \A s \in Requests : StoryOf(s)'
  <2>1. \A s \in Requests \ {r} : SameRows(s)
    BY <1>0, <1>3 DEF UpsertRideOffer, StoreTypeOK, SameRows
  <2>2. /\ rideRequest' = rideRequest /\ trip' = trip /\ ~ HasTrip(r)
        /\ rideOffer'[r][d].offeredFare = fare
        /\ \A e \in Drivers \ {d} : rideOffer'[r][e] = rideOffer[r][e]
    BY <1>0, <1>3, Statuses DEF UpsertRideOffer, StoreTypeOK
  <2>3. StoryOf(r)'
    BY <1>0, <1>3, <2>2 DEF StoryOf, HasTrip
  <2> QED BY <1>0, <2>1, <2>3, SameStory
<1>4. ASSUME NEW r \in Requests, NEW d \in Drivers, NEW u \in Users, NEW fare \in Fares \cup {None},
             rideOffer[r][d] = [status |-> "PENDING", offeredFare |-> fare],
             AcceptTransaction(r, d, u, fare)
      PROVE  \A s \in Requests : StoryOf(s)'
  <2>1. \A s \in Requests \ {r} : SameRows(s)
    BY <1>0, <1>4 DEF AcceptTransaction, StoreTypeOK, SameRows
  <2>2. /\ rideRequest'[r].status = "MATCHED"
        /\ trip'[r] = [status |-> "MATCHED", driverId |-> d, riderId |-> u, agreedFare |-> fare]
        /\ rideOffer'[r][d] = [status |-> "ACCEPTED", offeredFare |-> fare]
        /\ \A e \in Drivers \ {d} : rideOffer'[r][e] = Lapsed(rideOffer[r][e])
    BY <1>0, <1>4 DEF AcceptTransaction, StoreTypeOK, RideRequest
  <2>3. \A e \in Drivers : rideOffer'[r][e].status # "PENDING"
    BY <1>0, <2>2, OfferTypes
  <2>4. StoryOf(r)'
    BY <2>2, <2>3 DEF StoryOf, RequestStatusOf
  <2> QED BY <1>0, <2>1, <2>4, SameStory
<1>5. ASSUME NEW r \in Requests, NEW sawTrip \in BOOLEAN, sawTrip <=> HasTrip(r),
             CancelTransaction(r, sawTrip)
      PROVE  \A s \in Requests : StoryOf(s)'
  <2>1. \A s \in Requests \ {r} : SameRows(s)
    BY <1>0, <1>5 DEF CancelTransaction, StoreTypeOK, SameRows
  <2>2. /\ rideRequest'[r].status = "CANCELLED"
        /\ HasTrip(r) => /\ trip'[r].status = "CANCELLED"
                         /\ trip'[r].driverId = trip[r].driverId
                         /\ trip'[r].agreedFare = trip[r].agreedFare
        /\ ~ HasTrip(r) => trip'[r] = trip[r]
        /\ \A e \in Drivers : rideOffer'[r][e] = Lapsed(rideOffer[r][e])
    BY <1>0, <1>5 DEF CancelTransaction, StoreTypeOK, RideRequest, Trip
  <2>3. \A e \in Drivers : rideOffer'[r][e].status # "PENDING"
    BY <1>0, <2>2, OfferTypes
  <2>4. \A e \in Drivers : rideOffer[r][e].status = "ACCEPTED" => rideOffer'[r][e] = rideOffer[r][e]
    BY <2>2 DEF Lapsed
  <2>5. StoryOf(r)'
    <3>1. CASE HasTrip(r)
      BY <1>0, <2>2, <2>3, <2>4, <3>1 DEF StoryOf, RequestStatusOf, HasTrip
    <3>2. CASE ~ HasTrip(r)
      BY <1>0, <2>2, <2>3, <3>2 DEF StoryOf, HasTrip
    <3> QED BY <3>1, <3>2
  <2> QED BY <1>0, <2>1, <2>5, SameStory
<1>6. ASSUME NEW r \in Requests, trip[r].status \in {"MATCHED", "STARTED"},
             StartTransaction(r) \/ CompleteTransaction(r)
      PROVE  \A s \in Requests : StoryOf(s)'
  <2>1. \A s \in Requests \ {r} : SameRows(s)
    BY <1>0, <1>6 DEF StartTransaction, CompleteTransaction, StoreTypeOK, SameRows
  <2>2. /\ rideRequest'[r].status = RequestStatusOf(trip'[r].status)
        /\ trip'[r].driverId = trip[r].driverId /\ trip'[r].agreedFare = trip[r].agreedFare
        /\ rideOffer' = rideOffer
    BY <1>0, <1>6 DEF StartTransaction, CompleteTransaction, RequestStatusOf, StoreTypeOK,
       RideRequest, Trip
  <2>3. HasTrip(r) /\ \A d \in Drivers : rideOffer[r][d].status # "PENDING"
    BY <1>6, Statuses DEF HasTrip
  <2>4. StoryOf(r)'
    BY <1>0, <2>2, <2>3 DEF StoryOf
  <2> QED BY <1>0, <2>1, <2>4, SameStory
<1>7. ASSUME UNCHANGED <<rideRequest, trip>>,
             \A s \in Requests, d \in Drivers :
               \/ rideOffer'[s][d] = rideOffer[s][d]
               \/ rideOffer'[s][d].status # "PENDING" /\ rideOffer[s][d].status = "PENDING"
      PROVE  \A s \in Requests : StoryOf(s)'
  <2> SUFFICES ASSUME NEW s \in Requests PROVE StoryOf(s)'
    OBVIOUS
  <2>1. HasTrip(s) => rideOffer'[s][trip[s].driverId] = rideOffer[s][trip[s].driverId]
    <3> SUFFICES ASSUME HasTrip(s)
                 PROVE  rideOffer'[s][trip[s].driverId] = rideOffer[s][trip[s].driverId]
      OBVIOUS
    <3>1. /\ trip[s].driverId \in Drivers
          /\ rideOffer[s][trip[s].driverId] =
               [status |-> "ACCEPTED", offeredFare |-> trip[s].agreedFare]
      BY <1>0 DEF StoryOf
    <3>2. rideOffer[s][trip[s].driverId].status = "ACCEPTED"
      BY <3>1
    <3> QED BY <1>7, <3>1, <3>2
  <2> QED BY <1>0, <1>7, <2>1 DEF StoryOf, HasTrip
<1>8. ASSUME NEW r \in Requests, NEW d \in Drivers, rideOffer[r][d].status = "PENDING",
             ExpireOffer(r, d)
      PROVE  \A s \in Requests : StoryOf(s)'
  <2>1. \A s \in Requests, e \in Drivers :
          \/ rideOffer'[s][e] = rideOffer[s][e]
          \/ rideOffer'[s][e].status # "PENDING" /\ rideOffer[s][e].status = "PENDING"
    BY <1>0, <1>8, OfferTypes DEF ExpireOffer, StoreTypeOK, RideOffer
  <2> QED BY <1>7, <1>8, <2>1 DEF ExpireOffer
<1>9. ASSUME NEW d \in Drivers, ExpireDriverOffers(d)
      PROVE  \A s \in Requests : StoryOf(s)'
  <2>1. \A s \in Requests, e \in Drivers :
          rideOffer'[s][e] \in {rideOffer[s][e], Lapsed(rideOffer[s][e])}
    BY <1>0, <1>9 DEF ExpireDriverOffers, StoreTypeOK
  <2>2. \A s \in Requests, e \in Drivers :
          \/ rideOffer'[s][e] = rideOffer[s][e]
          \/ rideOffer'[s][e].status # "PENDING" /\ rideOffer[s][e].status = "PENDING"
    <3> SUFFICES ASSUME NEW s \in Requests, NEW e \in Drivers,
                        rideOffer'[s][e] # rideOffer[s][e]
                 PROVE  rideOffer'[s][e].status # "PENDING" /\ rideOffer[s][e].status = "PENDING"
      OBVIOUS
    <3>1. rideOffer'[s][e] = Lapsed(rideOffer[s][e])
      BY <2>1
    <3> QED BY <1>0, <3>1, OfferTypes DEF Lapsed
  <2> QED BY <1>7, <1>9, <2>2 DEF ExpireDriverOffers
<1> QED BY <1>1, <1>2, <1>3, <1>4, <1>5, <1>6, <1>8, <1>9 DEF OrderlyStep

----------------------------------------------------------------------------
(* Who writes what.  The rows of a request change only by its creation, by a  *)
(* handler of that request at a step of its own, or by the worker on a job    *)
(* of that request.                                                           *)
LEMMA WhoWrites ==
  ASSUME Inv, [Next]_vars, NEW s \in Requests
  PROVE  \/ SameRows(s)
         \/ \E u \in Users : Create(s, u)
         \/ \E c \in Calls : call[c].pc # "idle" /\ call'[c].pc # call[c].pc /\ call[c].r = s
         \/ ProcessUpdate /\ worker.pc # "idle" /\ s \in Footprint(worker.job)
<1>0. TypeOK /\ StoreTypeOK /\ ReadsStayTrue /\ call \in [Calls -> Call]
  BY DEF Inv, TypeOK
<1>1. CASE UNCHANGED store
  BY <1>1 DEF store, SameRows
<1>2. ASSUME NEW r \in Requests, NEW u \in Users, Create(r, u), r # s PROVE SameRows(s)
  BY <1>0, <1>2 DEF Create, InsertRideRequest, StoreTypeOK, SameRows
<1>3. ASSUME NEW c \in Calls, HandlerContinues(c), ~ UNCHANGED store
      PROVE  SameRows(s) \/ (call[c].pc # "idle" /\ call'[c].pc # call[c].pc /\ call[c].r = s)
  <2>0. Knows(call[c]) /\ call[c] \in Call
    BY <1>0 DEF ReadsStayTrue
  <2>1. /\ \/ SubmitUpsert(c) \/ AcceptCommit(c) \/ CancelCommit(c)
           \/ StartCommit(c) \/ CompleteCommit(c)
        /\ call[c].r \in Requests
    BY <1>3, <2>0 DEF HandlerContinues, SubmitUnschedule, SubmitSchedule, AcceptOthers, AcceptRollback,
       AcceptUnschedule, AcceptEmit, CompleteEmit, OfflineSchedule, SubmitUpsert, AcceptCommit,
       CancelCommit, StartCommit, CompleteCommit, Knows
  <2>2. call[c].pc # "idle" /\ call'[c].pc # call[c].pc
    BY <1>0, <2>1 DEF SubmitUpsert, AcceptCommit, CancelCommit, StartCommit, CompleteCommit, GoTo, Return,
       IdleCall, Call
  <2>3. call[c].r # s => SameRows(s)
    <3> SUFFICES ASSUME call[c].r # s PROVE SameRows(s)
      OBVIOUS
    <3>1. CASE SubmitUpsert(c)
      BY <1>0, <2>1, <3>1 DEF SubmitUpsert, UpsertRideOffer, StoreTypeOK, SameRows
    <3>2. CASE AcceptCommit(c)
      BY <1>0, <2>1, <3>2 DEF AcceptCommit, AcceptTransaction, StoreTypeOK, SameRows
    <3>3. CASE CancelCommit(c)
      BY <1>0, <2>1, <3>3 DEF CancelCommit, CancelTransaction, StoreTypeOK, SameRows
    <3>4. CASE StartCommit(c)
      BY <1>0, <2>1, <3>4 DEF StartCommit, StartTransaction, StoreTypeOK, SameRows
    <3>5. CASE CompleteCommit(c)
      BY <1>0, <2>1, <3>5 DEF CompleteCommit, CompleteTransaction, StoreTypeOK, SameRows
    <3> QED BY <2>1, <3>1, <3>2, <3>3, <3>4, <3>5
  <2> QED BY <2>2, <2>3
<1>4. ASSUME ProcessUpdate
      PROVE  SameRows(s) \/ (worker.pc # "idle" /\ s \in Footprint(worker.job))
  <2>1. worker.pc = "update" /\ worker.job \in JobIds
    BY <1>0, <1>4 DEF ProcessUpdate, TypeOK, Worker, IdleWorker
  <2>2. CASE worker.job[1] = None
    BY <2>1, <2>2 DEF Footprint
  <2>3. CASE worker.job[1] # None
    <3>1. worker.job[1] \in Requests /\ worker.job[2] \in Drivers
      BY <2>1, <2>3 DEF JobIds
    <3>2. worker.job[1] # s => SameRows(s)
      BY <1>0, <1>4, <2>3, <3>1 DEF ProcessUpdate, ExpireOffer, StoreTypeOK, SameRows
    <3> QED BY <2>1, <2>3, <3>2 DEF Footprint
  <2> QED BY <2>2, <2>3
<1>5. ASSUME NEW c \in Calls, HandlerBegins(c) \/ Abort(c) PROVE UNCHANGED store
  BY <1>5 DEF HandlerBegins, TripRoutes, SubmitRead, AcceptRead, StartRead, CompleteRead, CancelRead,
     GoOffline, Abort
<1>6. ASSUME NEW j \in JobIds, DelayElapses(j) \/ Take(j) \/ StalledCheck(j)
      PROVE  UNCHANGED store
  BY <1>6 DEF DelayElapses, Take, StalledCheck
<1>7. CASE \/ \E d \in Leavers, online \in BOOLEAN : SetOnlineStatus(d, online)
           \/ ProcessRead \/ ProcessFinish \/ ProcessFail \/ Crash \/ UNCHANGED vars
  BY <1>1, <1>7 DEF SetOnlineStatus, ProcessRead, ProcessFinish, ProcessFail, Crash, vars
<1> QED BY <1>1, <1>2, <1>3, <1>4, <1>5, <1>6, <1>7 DEF Next, WorkerContinues

(* Kept apart, nobody writes the rows of a request while a handler that does   *)
(* not move, or the worker that does not move, is busy with it.                *)
LEMMA NobodyElseWrites ==
  ASSUME Exclusive, Inv, CallsApart, WorkerApart, [Next]_vars
  PROVE  /\ \A c \in Calls : /\ call[c].pc # "idle" /\ call[c].r \in Requests
                             /\ call'[c].pc = call[c].pc
                             => SameRows(call[c].r)
         /\ \A s \in Requests : /\ worker.pc # "idle" /\ s \in Footprint(worker.job)
                                /\ ~ ProcessUpdate
                                => SameRows(s)
<1>1. ASSUME NEW s \in Requests, NEW u \in Users, Create(s, u)
      PROVE  /\ \A c \in Calls : call[c].pc # "idle" => call[c].r # s
             /\ worker.pc = "idle" \/ s \notin Footprint(worker.job)
  BY <1>1 DEF Create, MayTouch, Busy
<1>2. ASSUME NEW c \in Calls, call[c].pc # "idle", call[c].r \in Requests, call'[c].pc = call[c].pc
      PROVE  SameRows(call[c].r)
  <2>1. ~ \E u \in Users : Create(call[c].r, u)
    BY <1>1, <1>2
  <2>2. ~ \E e \in Calls : call[e].pc # "idle" /\ call'[e].pc # call[e].pc /\ call[e].r = call[c].r
    BY <1>2 DEF CallsApart
  <2>3. ~ (worker.pc # "idle" /\ call[c].r \in Footprint(worker.job))
    BY <1>2 DEF WorkerApart
  <2> QED BY <1>2, <2>1, <2>2, <2>3, WhoWrites
<1>3. ASSUME NEW s \in Requests, worker.pc # "idle", s \in Footprint(worker.job), ~ ProcessUpdate
      PROVE  SameRows(s)
  <2>1. ~ \E u \in Users : Create(s, u)
    BY <1>1, <1>3
  <2>2. ~ \E e \in Calls : call[e].pc # "idle" /\ call[e].r = s
    BY <1>3 DEF WorkerApart
  <2> QED BY <1>3, <2>1, <2>2, WhoWrites
<1> QED BY <1>2, <1>3

(* How the handlers in flight change: all are lost in a crash; or one moves, on *)
(* the request it is at, or begins at a request nobody works on, or ends.       *)
LEMMA CallMoves ==
  ASSUME Inv, [Next]_vars
  PROVE  \/ UNCHANGED call
         \/ \A c \in Calls : call'[c].pc = "idle"
         \/ /\ UNCHANGED worker
            /\ \E c \in Calls :
                 /\ \A e \in Calls \ {c} : call'[e] = call[e]
                 /\ \/ call'[c].pc = "idle"
                    \/ call[c].pc # "idle" /\ call'[c].r = call[c].r
                    \/ call[c].pc = "idle" /\ call'[c].r = None
                    \/ /\ call[c].pc = "idle"
                       /\ call'[c].r \in Requests /\ MayTouch({call'[c].r})
<1>0. call \in [Calls -> Call]
  BY DEF Inv, TypeOK
<1>1. ASSUME NEW c \in Calls, HandlerBegins(c)
      PROVE  /\ UNCHANGED worker
             /\ \A e \in Calls \ {c} : call'[e] = call[e]
             /\ call[c].pc = "idle"
             /\ call'[c].r = None \/ (call'[c].r \in Requests /\ MayTouch({call'[c].r}))
  <2>2. ASSUME NEW r \in Requests, NEW d \in Drivers, NEW fare \in Fares, SubmitRead(c, r, d, fare)
        PROVE  /\ UNCHANGED worker
               /\ \A e \in Calls \ {c} : call'[e] = call[e]
               /\ call[c].pc = "idle" /\ call'[c].r = r /\ MayTouch({r})
    BY <1>0, <2>2 DEF SubmitRead, Begin, IdleCall
  <2>3. ASSUME NEW r \in Requests, NEW d \in Drivers, NEW u \in Users, AcceptRead(c, r, d, u)
        PROVE  /\ UNCHANGED worker
               /\ \A e \in Calls \ {c} : call'[e] = call[e]
               /\ call[c].pc = "idle" /\ call'[c].r = r /\ MayTouch({r})
    BY <1>0, <2>3 DEF AcceptRead, Begin, IdleCall
  <2>4. ASSUME NEW r \in Requests, NEW u \in Users, CancelRead(c, r, u)
        PROVE  /\ UNCHANGED worker
               /\ \A e \in Calls \ {c} : call'[e] = call[e]
               /\ call[c].pc = "idle" /\ call'[c].r = r /\ MayTouch({r})
    BY <1>0, <2>4 DEF CancelRead, Begin, IdleCall
  <2>5. ASSUME NEW r \in Requests, NEW d \in Drivers, StartRead(c, r, d) \/ CompleteRead(c, r, d)
        PROVE  /\ UNCHANGED worker
               /\ \A e \in Calls \ {c} : call'[e] = call[e]
               /\ call[c].pc = "idle" /\ call'[c].r = r /\ MayTouch({r})
    BY <1>0, <2>5 DEF StartRead, CompleteRead, Begin, IdleCall
  <2>6. ASSUME NEW d \in Leavers, GoOffline(c, d)
        PROVE  /\ UNCHANGED worker
               /\ \A e \in Calls \ {c} : call'[e] = call[e]
               /\ call[c].pc = "idle" /\ call'[c].r = None
    BY <1>0, <2>6 DEF GoOffline, Begin, IdleCall
  <2> QED BY <1>1, <2>2, <2>3, <2>4, <2>5, <2>6 DEF HandlerBegins, TripRoutes
<1>2. ASSUME NEW c \in Calls, HandlerContinues(c) \/ Abort(c)
      PROVE  /\ UNCHANGED worker
             /\ \A e \in Calls \ {c} : call'[e] = call[e]
             /\ call'[c].pc = "idle" \/ (call[c].pc # "idle" /\ call'[c].r = call[c].r)
  <2>0. call[c] \in Call
    BY <1>0
  <2>1. UNCHANGED worker
    BY <1>2 DEF Abort, HandlerContinues, SubmitUpsert, SubmitUnschedule, SubmitSchedule,
       AcceptOthers, AcceptCommit, AcceptRollback, AcceptUnschedule, AcceptEmit, CancelCommit,
       StartCommit, CompleteCommit, CompleteEmit, OfflineSchedule
  <2>2. CASE Return(c)
    BY <1>0, <2>1, <2>2 DEF Return, IdleCall
  <2>3. CASE call[c].pc # "idle" /\ \E pc : GoTo(c, pc)
    BY <1>0, <2>0, <2>1, <2>3 DEF GoTo, Call
  <2>4. CASE AcceptOthers(c)
    BY <1>0, <2>0, <2>1, <2>4 DEF AcceptOthers, Call
  <2>5. CASE \E d \in Drivers : AcceptUnschedule(c, d)
    BY <1>0, <2>0, <2>1, <2>5 DEF AcceptUnschedule, Call
  <2>6. CASE CompleteCommit(c)
    BY <1>0, <2>0, <2>1, <2>6 DEF CompleteCommit, Call
  <2> QED BY <1>2, <2>2, <2>3, <2>4, <2>5, <2>6
          DEF Abort, HandlerContinues, SubmitUpsert, SubmitUnschedule, SubmitSchedule, AcceptCommit,
              AcceptRollback, AcceptEmit, CancelCommit, StartCommit, CompleteEmit, OfflineSchedule
<1>3. CASE Crash
  BY <1>3 DEF Crash, IdleCall
<1> QED BY <1>1, <1>2, <1>3
        DEF Next, WorkerContinues, vars, process, Create, SetOnlineStatus, DelayElapses, Take,
            StalledCheck, ProcessRead, ProcessUpdate, ProcessFinish, ProcessFail

(* How the worker changes: it goes on with its job, ends it, or takes one that *)
(* nobody works on.                                                            *)
LEMMA WorkerMoves ==
  ASSUME Inv, [Next]_vars
  PROVE  \/ UNCHANGED worker
         \/ worker'.pc = "idle"
         \/ UNCHANGED call /\ worker.pc # "idle" /\ worker'.job = worker.job
         \/ UNCHANGED call /\ \E j \in JobIds : worker'.job = j /\ MayTouch(Footprint(j))
<1>0. worker \in Worker
  BY DEF Inv, TypeOK
<1>1. ASSUME NEW c \in Calls, HandlerBegins(c) \/ HandlerContinues(c) \/ Abort(c)
      PROVE  UNCHANGED worker
  BY <1>1 DEF HandlerBegins, TripRoutes, SubmitRead, AcceptRead, StartRead, CompleteRead, CancelRead,
     GoOffline, Abort, HandlerContinues, SubmitUpsert, SubmitUnschedule, SubmitSchedule,
     AcceptOthers, AcceptCommit, AcceptRollback, AcceptUnschedule, AcceptEmit, CancelCommit,
     StartCommit, CompleteCommit, CompleteEmit, OfflineSchedule
<1>2. CASE ProcessRead \/ ProcessUpdate
  BY <1>0, <1>2 DEF ProcessRead, ProcessUpdate, Worker, IdleWorker
<1>3. CASE ProcessFinish \/ ProcessFail \/ Crash
  BY <1>3 DEF ProcessFinish, ProcessFail, Crash, IdleWorker
<1>4. ASSUME NEW j \in JobIds, Take(j)
      PROVE  UNCHANGED call /\ worker'.job = j /\ MayTouch(Footprint(j))
  BY <1>4 DEF Take
<1> QED BY <1>1, <1>2, <1>3, <1>4
        DEF Next, WorkerContinues, vars, process, Create, SetOnlineStatus, DelayElapses, StalledCheck

(* Handlers and worker stay apart. *)
LEMMA ApartPreserved ==
  ASSUME Exclusive, Inv, CallsApart, WorkerApart, [Next]_vars
  PROVE  CallsApart' /\ WorkerApart'
<1>0. /\ call \in [Calls -> Call] /\ worker \in Worker
      /\ \A j : None \notin Footprint(j)
  BY StoreAssumption DEF Inv, TypeOK, Footprint
<1>1. \A r \in Requests : MayTouch({r}) =>
        /\ \A c \in Calls : call[c].pc # "idle" => call[c].r # r
        /\ worker.pc = "idle" \/ r \notin Footprint(worker.job)
  BY DEF MayTouch, Busy
<1>2. \A j \in JobIds : MayTouch(Footprint(j)) =>
        \A c \in Calls : call[c].pc # "idle" => call[c].r \notin Footprint(j)
  BY DEF MayTouch, Busy
<1>3. CallsApart'
  <2> SUFFICES ASSUME NEW c \in Calls, NEW e \in Calls, c # e,
                      call'[c].pc # "idle", call'[e].pc # "idle",
                      call'[c].r = call'[e].r, call'[c].r \in Requests
               PROVE  FALSE
    BY DEF CallsApart
  <2> QED BY <1>1, CallMoves, StoreAssumption DEF CallsApart
<1>4. WorkerApart'
  <2> SUFFICES ASSUME NEW c \in Calls, worker'.pc # "idle", call'[c].pc # "idle",
                      call'[c].r \in Footprint(worker'.job)
               PROVE  FALSE
    BY DEF WorkerApart, Footprint
  <2>1. CASE UNCHANGED worker
    <3>1. worker.pc # "idle" /\ Footprint(worker'.job) = Footprint(worker.job)
      BY <2>1
    <3> QED BY <1>0, <1>1, <2>1, <3>1, CallMoves DEF WorkerApart
  <2>2. CASE UNCHANGED call /\ worker.pc # "idle" /\ worker'.job = worker.job
    BY <2>2 DEF WorkerApart
  <2>3. CASE UNCHANGED call /\ \E j \in JobIds : worker'.job = j /\ MayTouch(Footprint(j))
    BY <1>2, <2>3
  <2> QED BY <2>1, <2>2, <2>3, WorkerMoves
<1> QED BY <1>3, <1>4

----------------------------------------------------------------------------
(* Reads stay fresh. *)

(* What a handler read of rows that have not changed is still so. *)
LEMMA FreshLasts ==
  ASSUME NEW h, Fresh(h, rideRequest, rideOffer, trip), SameRows(h.r)
  PROVE  Fresh(h, rideRequest', rideOffer', trip')
  BY DEF Fresh, SameRows

(* The steps at which a handler is about to act upon what it read. *)
ActsOnRead == {"submitUpsert", "acceptOthers", "acceptTx", "cancelTx", "startTx", "completeTx"}

LEMMA FreshPreserved ==
  ASSUME Exclusive, ExclusiveInv, [Next]_vars
  PROVE  ReadsAreFresh'
<1> SUFFICES ASSUME NEW c \in Calls PROVE Fresh(call'[c], rideRequest', rideOffer', trip')
  BY DEF ReadsAreFresh
<1>0. /\ call \in [Calls -> Call] /\ call[c] \in Call
      /\ Knows(call[c]) /\ Fresh(call[c], rideRequest, rideOffer, trip)
      /\ StoreTypeOK /\ Inv /\ CallsApart /\ WorkerApart
  BY DEF ExclusiveInv, Inv, TypeOK, ReadsStayTrue, ReadsAreFresh
<1>1. CASE call'[c].pc \notin ActsOnRead
  BY <1>1 DEF Fresh, ActsOnRead
<1>2. CASE call'[c] = call[c] /\ call[c].pc \in ActsOnRead
  <2>1. call[c].pc # "idle" /\ call[c].r \in Requests
    BY <1>0, <1>2 DEF ActsOnRead, Knows
  <2>2. SameRows(call[c].r)
    BY <1>0, <1>2, <2>1, NobodyElseWrites
  <2> QED BY <1>0, <1>2, <2>2, FreshLasts
<1>3. CASE HandlerBegins(c)
  <2>1. ASSUME NEW r \in Requests, NEW d \in Drivers, NEW fare \in Fares, SubmitRead(c, r, d, fare)
        PROVE  Fresh(call'[c], rideRequest', rideOffer', trip')
    <3>1. /\ call'[c].pc = "submitUpsert" /\ call'[c].r = r /\ call'[c].fare = fare
          /\ rideRequest' = rideRequest /\ rideRequest[r].status = "PENDING"
      BY <1>0, <2>1 DEF SubmitRead, Begin, IdleCall, store
    <3> QED BY <3>1 DEF Fresh
  <2>2. ASSUME NEW r \in Requests, NEW d \in Drivers, NEW u \in Users, AcceptRead(c, r, d, u)
        PROVE  Fresh(call'[c], rideRequest', rideOffer', trip')
    <3>1. /\ call'[c].pc = "acceptOthers" /\ call'[c].r = r /\ call'[c].d = d
          /\ call'[c].fare = rideOffer[r][d].offeredFare
          /\ rideRequest' = rideRequest /\ rideOffer' = rideOffer
          /\ rideRequest[r].status = "PENDING" /\ rideOffer[r][d].status = "PENDING"
      BY <1>0, <2>2 DEF AcceptRead, Begin, IdleCall, store
    <3>2. rideOffer[r][d] = [status |-> "PENDING", offeredFare |-> rideOffer[r][d].offeredFare]
      BY <1>0, <3>1, OfferTypes DEF RideOffer
    <3> QED BY <3>1, <3>2 DEF Fresh
  <2>3. ASSUME NEW r \in Requests, NEW u \in Users, CancelRead(c, r, u)
        PROVE  Fresh(call'[c], rideRequest', rideOffer', trip')
    <3>1. /\ call'[c].pc = "cancelTx" /\ call'[c].r = r /\ call'[c].sawTrip = HasTrip(r)
          /\ rideRequest' = rideRequest /\ trip' = trip
          /\ rideRequest[r].status \in {"PENDING", "MATCHED"}
      BY <1>0, <2>3 DEF CancelRead, Begin, IdleCall, store
    <3> QED BY <3>1 DEF Fresh, HasTrip
  <2>4. ASSUME NEW r \in Requests, NEW d \in Drivers, StartRead(c, r, d)
        PROVE  Fresh(call'[c], rideRequest', rideOffer', trip')
    <3>1. call'[c].pc = "startTx" /\ call'[c].r = r /\ trip' = trip /\ trip[r].status = "MATCHED"
      BY <1>0, <2>4 DEF StartRead, Begin, IdleCall, store
    <3> QED BY <3>1 DEF Fresh
  <2>5. ASSUME NEW r \in Requests, NEW d \in Drivers, CompleteRead(c, r, d)
        PROVE  Fresh(call'[c], rideRequest', rideOffer', trip')
    <3>1. call'[c].pc = "completeTx" /\ call'[c].r = r /\ trip' = trip /\ trip[r].status = "STARTED"
      BY <1>0, <2>5 DEF CompleteRead, Begin, IdleCall, store
    <3> QED BY <3>1 DEF Fresh
  <2>6. ASSUME NEW d \in Leavers, GoOffline(c, d)
        PROVE  call'[c].pc = "offlineSchedule"
    BY <1>0, <2>6 DEF GoOffline, Begin, IdleCall
  <2> QED BY <1>1, <1>3, <2>1, <2>2, <2>3, <2>4, <2>5, <2>6
          DEF HandlerBegins, TripRoutes, ActsOnRead
<1>4. CASE HandlerContinues(c) \/ Abort(c)
  <2>1. CASE AcceptOthers(c)
    <3>1. /\ call[c].pc = "acceptOthers" /\ call'[c].pc = "acceptTx"
          /\ call'[c].r = call[c].r /\ call'[c].d = call[c].d /\ call'[c].fare = call[c].fare
          /\ rideRequest' = rideRequest /\ rideOffer' = rideOffer
      BY <1>0, <2>1 DEF AcceptOthers, Call, store
    <3> QED BY <1>0, <3>1 DEF Fresh
  <2>2. CASE ~ AcceptOthers(c)
    <3>1. call'[c].pc \notin ActsOnRead
      BY <1>0, <1>4, <2>2
         DEF HandlerContinues, SubmitUpsert, SubmitUnschedule, SubmitSchedule, AcceptCommit,
             AcceptRollback, AcceptUnschedule, AcceptEmit, CancelCommit, StartCommit,
             CompleteCommit, CompleteEmit, OfflineSchedule, Abort, GoTo, Return, IdleCall, Call,
             ActsOnRead
    <3> QED BY <1>1, <3>1
  <2> QED BY <2>1, <2>2
<1>5. CASE Crash
  BY <1>1, <1>5 DEF Crash, IdleCall, ActsOnRead
<1>6. ASSUME NEW e \in Calls \ {c}, HandlerBegins(e) \/ HandlerContinues(e) \/ Abort(e)
      PROVE  call'[c] = call[c]
  BY <1>0, <1>6 DEF HandlerBegins, TripRoutes, SubmitRead, AcceptRead, StartRead, CompleteRead,
     CancelRead, GoOffline, Begin, Abort, HandlerContinues, SubmitUpsert, SubmitUnschedule,
     SubmitSchedule, AcceptOthers, AcceptCommit, AcceptRollback, AcceptUnschedule, AcceptEmit,
     CancelCommit, StartCommit, CompleteCommit, CompleteEmit, OfflineSchedule, GoTo, Return
<1> QED BY <1>1, <1>2, <1>3, <1>4, <1>5, <1>6
        DEF Next, WorkerContinues, vars, process, Create, SetOnlineStatus, DelayElapses, Take,
            StalledCheck, ProcessRead, ProcessUpdate, ProcessFinish, ProcessFail

(* An offer found pending by the worker is left alone until the worker acts. *)
LEMMA WorkerFreshPreserved ==
  ASSUME Exclusive, ExclusiveInv, [Next]_vars
  PROVE  WorkerReadIsFresh'
<1> SUFFICES ASSUME worker'.pc = "update", worker'.job[1] \in Requests
             PROVE  rideOffer'[worker'.job[1]][worker'.job[2]].status = "PENDING"
  BY DEF WorkerReadIsFresh
<1>0. worker \in Worker /\ Inv /\ CallsApart /\ WorkerApart /\ WorkerReadIsFresh
  BY DEF ExclusiveInv, Inv, TypeOK
<1>1. CASE UNCHANGED worker
  <2>1. ~ ProcessUpdate
    BY <1>0, <1>1 DEF ProcessUpdate, Worker, IdleWorker
  <2>2. worker.job[1] \in Footprint(worker.job)
    BY <1>1, StoreAssumption DEF Footprint
  <2>3. SameRows(worker.job[1])
    BY <1>0, <1>1, <2>1, <2>2, NobodyElseWrites
  <2> QED BY <1>0, <1>1, <2>3 DEF WorkerReadIsFresh, SameRows
<1>2. CASE ProcessRead
  <2>1. worker.pc = "read" /\ worker'.job = worker.job /\ StillDue(worker.job)
        /\ rideOffer' = rideOffer
    BY <1>0, <1>2 DEF ProcessRead, Worker, IdleWorker, store
  <2> QED BY <2>1, StoreAssumption DEF StillDue, OfferStillPending
<1>3. CASE ProcessUpdate \/ ProcessFinish \/ ProcessFail \/ Crash \/ \E j \in JobIds : Take(j)
  BY <1>0, <1>3 DEF ProcessUpdate, ProcessFinish, ProcessFail, Crash, Take, IdleWorker, Worker
<1>4. ASSUME NEW c \in Calls, HandlerBegins(c) \/ HandlerContinues(c) \/ Abort(c)
      PROVE  UNCHANGED worker
  BY <1>4 DEF HandlerBegins, TripRoutes, SubmitRead, AcceptRead, StartRead, CompleteRead, CancelRead,
     GoOffline, Abort, HandlerContinues, SubmitUpsert, SubmitUnschedule, SubmitSchedule,
     AcceptOthers, AcceptCommit, AcceptRollback, AcceptUnschedule, AcceptEmit, CancelCommit,
     StartCommit, CompleteCommit, CompleteEmit, OfflineSchedule
<1> QED BY <1>1, <1>2, <1>3, <1>4
        DEF Next, WorkerContinues, vars, process, Create, SetOnlineStatus, DelayElapses, StalledCheck

----------------------------------------------------------------------------
(* The invariant holds at first, and every step keeps it. *)
LEMMA ExclusiveInitially == Init => ExclusiveInv
<1> SUFFICES ASSUME Init PROVE ExclusiveInv
  OBVIOUS
<1>1. Inv
  BY InvInitially
<1>2. CallsApart /\ WorkerApart /\ ReadsAreFresh /\ WorkerReadIsFresh
  BY DEF Init, IdleCall, IdleWorker, CallsApart, WorkerApart, ReadsAreFresh, Fresh, WorkerReadIsFresh
<1>3. OneStory
  BY DEF Init, StoreInit, NoRequest, NoOffer, NoTrip, OneStory, NoOfferOutlivesRequest,
     TripMirrorsRequest, DealHonoursOffer, PendingOfferIsPriced, HasTrip
<1> QED BY <1>1, <1>2, <1>3 DEF ExclusiveInv

LEMMA ExclusivePreserved == Exclusive /\ ExclusiveInv /\ [Next]_vars => ExclusiveInv'
<1> SUFFICES ASSUME Exclusive, ExclusiveInv, [Next]_vars PROVE ExclusiveInv'
  OBVIOUS
<1>1. Inv'
  BY InvPreserved DEF ExclusiveInv
<1>2. CallsApart' /\ WorkerApart'
  BY ApartPreserved DEF ExclusiveInv
<1>3. ReadsAreFresh' /\ WorkerReadIsFresh'
  BY FreshPreserved, WorkerFreshPreserved
<1>4. OneStory'
  BY NextIsOrderly, StoryGoesOn DEF ExclusiveInv, Inv
<1> QED BY <1>1, <1>2, <1>3, <1>4 DEF ExclusiveInv

LEMMA ExclusiveInvariance == ASSUME Exclusive PROVE Spec => []ExclusiveInv
<1>1. ExclusiveInv /\ [Next]_vars => ExclusiveInv'
  BY ExclusivePreserved
<1> QED BY <1>1, ExclusiveInitially, PTL DEF Spec

(* Handlers kept apart, no offer is pending on a request that is no longer     *)
(* accepting offers.                                                           *)
THEOREM OffersEndWithRequest == ASSUME Exclusive PROVE Spec => []NoOfferOutlivesRequest
<1>1. ExclusiveInv => NoOfferOutlivesRequest
  BY DEF ExclusiveInv, OneStory
<1> QED BY <1>1, ExclusiveInvariance, PTL

(* Handlers kept apart, the statuses of a request and of its trip agree. *)
THEOREM StatusesAgree == ASSUME Exclusive PROVE Spec => []TripMirrorsRequest
<1>1. ExclusiveInv => TripMirrorsRequest
  BY DEF ExclusiveInv, OneStory
<1> QED BY <1>1, ExclusiveInvariance, PTL

(* Handlers kept apart, a trip is on the terms of the offer its driver made    *)
(* and the rider accepted.                                                     *)
THEOREM DealsHonourOffers == ASSUME Exclusive PROVE Spec => []DealHonoursOffer
<1>1. ExclusiveInv => DealHonoursOffer
  BY DEF ExclusiveInv, OneStory
<1> QED BY <1>1, ExclusiveInvariance, PTL

----------------------------------------------------------------------------
(* The refinement of RideLifecycle: every step of the program is one of its    *)
(* steps, or changes nothing that it speaks of.                                *)

(* The mapped variables, row by row. *)
LEMMA MappedRows ==
  ASSUME StoreInv, OneStory, NEW r \in Requests
  PROVE  /\ rideRequest[r].status = "ABSENT" <=> PhaseOf(rideRequest[r].status) = "none"
         /\ rideRequest[r].status = "PENDING" <=> PhaseOf(rideRequest[r].status) = "open"
         /\ rideRequest[r].status = "MATCHED" <=> PhaseOf(rideRequest[r].status) = "matched"
         /\ rideRequest[r].status = "IN_PROGRESS" <=> PhaseOf(rideRequest[r].status) = "started"
         /\ \A d \in Drivers :
              /\ rideOffer[r][d].status = "PENDING" =>
                   /\ BidOf(rideOffer[r][d]) = rideOffer[r][d].offeredFare
                   /\ BidOf(rideOffer[r][d]) # None
              /\ BidOf(Lapsed(rideOffer[r][d])) = None
<1>1. rideRequest[r].status \in {"ABSENT", "PENDING", "MATCHED", "IN_PROGRESS", "COMPLETED", "CANCELLED"}
  BY DEF StoreInv, StoreTypeOK, RideRequest, RideRequestStatus
<1>2. ASSUME NEW d \in Drivers
      PROVE  /\ rideOffer[r][d].status = "PENDING" =>
                  /\ BidOf(rideOffer[r][d]) = rideOffer[r][d].offeredFare
                  /\ BidOf(rideOffer[r][d]) # None
             /\ BidOf(Lapsed(rideOffer[r][d])) = None
  BY OfferTypes, StoreAssumption DEF StoreInv, OneStory, PendingOfferIsPriced, BidOf
<1>3. /\ rideRequest[r].status = "ABSENT" <=> PhaseOf(rideRequest[r].status) = "none"
      /\ rideRequest[r].status = "PENDING" <=> PhaseOf(rideRequest[r].status) = "open"
      /\ rideRequest[r].status = "MATCHED" <=> PhaseOf(rideRequest[r].status) = "matched"
      /\ rideRequest[r].status = "IN_PROGRESS" <=> PhaseOf(rideRequest[r].status) = "started"
  BY <1>1 DEF PhaseOf
<1> QED BY <1>2, <1>3

(* The tables start as the lifecycle does. *)
LEMMA LifecycleInit == Init => Lifecycle!Init
<1> SUFFICES ASSUME Init PROVE Lifecycle!Init
  OBVIOUS
<1>1. /\ \A r \in Requests : /\ rideRequest[r] = NoRequest /\ trip[r] = NoTrip
                             /\ \A d \in Drivers : rideOffer[r][d] = NoOffer
  BY DEF Init, StoreInit
<1>2. /\ PhaseOf(NoRequest.status) = "none" /\ NoRequest.riderId = None
      /\ BidOf(NoOffer) = None /\ DealOf(NoTrip) = None
  BY DEF NoRequest, NoOffer, NoTrip, PhaseOf, BidOf, DealOf
<1> QED BY <1>1, <1>2 DEF Lifecycle!Init, Lifecycle!NoBids

(* A step that leaves the tables alone is a stuttering step. *)
LEMMA LifecycleStutters == UNCHANGED store => UNCHANGED Lifecycle!lifecycle
  BY DEF store, Lifecycle!lifecycle

(* create opens the request. *)
LEMMA LifecycleOpens ==
  ASSUME StoreInv, OneStory, NEW r \in Requests, NEW u \in Users, InsertRideRequest(r, u)
  PROVE  Lifecycle!Open(r, u)
<1>1. /\ rideRequest'[r] = [status |-> "PENDING", riderId |-> u]
      /\ \A s \in Requests \ {r} : rideRequest'[s] = rideRequest[s]
      /\ rideOffer' = rideOffer /\ trip' = trip
      /\ PhaseOf(rideRequest[r].status) = "none"
  BY MappedRows DEF InsertRideRequest, StoreInv, StoreTypeOK
<1>2. PhaseOf(rideRequest'[r].status) = "open" /\ rideRequest'[r].riderId = u
  BY <1>1 DEF PhaseOf
<1> QED BY <1>1, <1>2 DEF Lifecycle!Open, Lifecycle!Move

(* submitOffer, on a request it found open, bids. *)
LEMMA LifecycleBids ==
  ASSUME StoreInv, OneStory, NEW r \in Requests, NEW d \in Drivers, NEW fare \in Fares,
         rideRequest[r].status = "PENDING", UpsertRideOffer(r, d, fare)
  PROVE  Lifecycle!Bid(r, d, fare)
<1>1. /\ rideOffer'[r][d] = [status |-> "PENDING", offeredFare |-> fare]
      /\ \A s \in Requests, e \in Drivers :
           s # r \/ e # d => rideOffer'[s][e] = rideOffer[s][e]
      /\ rideRequest' = rideRequest /\ trip' = trip
      /\ PhaseOf(rideRequest[r].status) = "open"
  BY MappedRows DEF UpsertRideOffer, StoreInv, StoreTypeOK
<1>2. BidOf(rideOffer'[r][d]) = fare
  BY <1>1 DEF BidOf
<1>3. \A s \in Requests \ {r} :
        [e \in Drivers |-> BidOf(rideOffer'[s][e])] = [e \in Drivers |-> BidOf(rideOffer[s][e])]
  BY <1>1
<1>4. [e \in Drivers |-> BidOf(rideOffer'[r][e])] =
        [[e \in Drivers |-> BidOf(rideOffer[r][e])] EXCEPT ![d] = fare]
  BY <1>1, <1>2
<1>5. [s \in Requests |-> [e \in Drivers |-> BidOf(rideOffer'[s][e])]] =
        [[s \in Requests |-> [e \in Drivers |-> BidOf(rideOffer[s][e])]] EXCEPT ![r][d] = fare]
  BY <1>3, <1>4
<1> QED BY <1>1, <1>5 DEF Lifecycle!Bid

(* acceptOffer makes the standing bid the deal, on its terms. *)
LEMMA LifecycleMatches ==
  ASSUME StoreInv, OneStory, NEW r \in Requests, NEW d \in Drivers, NEW u \in Users,
         NEW fare \in Fares \cup {None},
         rideRequest[r].status = "PENDING", rideRequest[r].riderId = u,
         rideOffer[r][d] = [status |-> "PENDING", offeredFare |-> fare],
         AcceptTransaction(r, d, u, fare)
  PROVE  Lifecycle!Match(r, d)
<1>1. /\ trip'[r] = [status |-> "MATCHED", driverId |-> d, riderId |-> u, agreedFare |-> fare]
      /\ rideRequest'[r].status = "MATCHED" /\ rideRequest'[r].riderId = u
      /\ rideOffer'[r][d].status = "ACCEPTED"
      /\ \A e \in Drivers \ {d} : rideOffer'[r][e] = Lapsed(rideOffer[r][e])
      /\ \A s \in Requests \ {r} : SameRows(s)
  BY DEF AcceptTransaction, StoreInv, StoreTypeOK, RideRequest, SameRows
<1>2. /\ PhaseOf(rideRequest[r].status) = "open"
      /\ BidOf(rideOffer[r][d]) = fare /\ BidOf(rideOffer[r][d]) # None
  BY MappedRows
<1>3. /\ PhaseOf(rideRequest'[r].status) = "matched"
      /\ DealOf(trip'[r]) = [driver |-> d, rider |-> u, fare |-> fare]
      /\ \A e \in Drivers : BidOf(rideOffer'[r][e]) = None
  <2>1. PhaseOf(rideRequest'[r].status) = "matched"
    BY <1>1 DEF PhaseOf
  <2>2. DealOf(trip'[r]) = [driver |-> d, rider |-> u, fare |-> fare]
    BY <1>1 DEF DealOf
  <2>3. BidOf(rideOffer'[r][d]) = None
    BY <1>1 DEF BidOf
  <2>4. \A e \in Drivers \ {d} : BidOf(rideOffer'[r][e]) = None
    BY <1>1, MappedRows
  <2> QED BY <2>1, <2>2, <2>3, <2>4
<1> QED BY <1>1, <1>2, <1>3 DEF Lifecycle!Match, Lifecycle!Move, Lifecycle!NoBids, SameRows

(* cancel cancels; the deal, if there is one, stays on record. *)
LEMMA LifecycleCancels ==
  ASSUME StoreInv, OneStory, NEW r \in Requests, NEW sawTrip \in BOOLEAN,
         rideRequest[r].status \in {"PENDING", "MATCHED"}, sawTrip <=> HasTrip(r),
         CancelTransaction(r, sawTrip)
  PROVE  Lifecycle!Cancel(r)
<1>1. /\ rideRequest'[r].status = "CANCELLED" /\ rideRequest'[r].riderId = rideRequest[r].riderId
      /\ \A e \in Drivers : rideOffer'[r][e] = Lapsed(rideOffer[r][e])
      /\ \A s \in Requests \ {r} : SameRows(s)
  BY DEF CancelTransaction, StoreInv, StoreTypeOK, RideRequest, SameRows
<1>2. DealOf(trip'[r]) = DealOf(trip[r])
  <2>1. CASE HasTrip(r)
    <3>1. /\ trip'[r].status = "CANCELLED" /\ trip'[r].driverId = trip[r].driverId
          /\ trip'[r].riderId = trip[r].riderId /\ trip'[r].agreedFare = trip[r].agreedFare
      BY <2>1 DEF CancelTransaction, StoreInv, StoreTypeOK, Trip
    <3> QED BY <2>1, <3>1 DEF DealOf, HasTrip
  <2>2. CASE ~ HasTrip(r)
    BY <2>2 DEF CancelTransaction
  <2> QED BY <2>1, <2>2
<1>3. /\ PhaseOf(rideRequest[r].status) \in {"open", "matched"}
      /\ \A e \in Drivers : BidOf(rideOffer'[r][e]) = None
  BY <1>1, MappedRows
<1>4. PhaseOf(rideRequest'[r].status) = "cancelled"
  BY <1>1 DEF PhaseOf
<1> QED BY <1>1, <1>2, <1>3, <1>4 DEF Lifecycle!Cancel, Lifecycle!Move, Lifecycle!NoBids, SameRows

(* start and complete take the ride on; its deal stays. *)
LEMMA LifecycleRides ==
  ASSUME StoreInv, OneStory, NEW r \in Requests
  PROVE  /\ trip[r].status = "MATCHED" /\ StartTransaction(r) => Lifecycle!Start(r)
         /\ trip[r].status = "STARTED" /\ CompleteTransaction(r) => Lifecycle!Complete(r)
<1>1. ASSUME trip[r].status \in {"MATCHED", "STARTED"},
             StartTransaction(r) \/ CompleteTransaction(r)
      PROVE  /\ \A s \in Requests \ {r} : SameRows(s)
             /\ rideOffer' = rideOffer /\ rideRequest'[r].riderId = rideRequest[r].riderId
             /\ DealOf(trip'[r]) = DealOf(trip[r])
  <2>1. /\ \A s \in Requests \ {r} : SameRows(s)
        /\ rideOffer' = rideOffer /\ rideRequest'[r].riderId = rideRequest[r].riderId
        /\ trip'[r].status # "ABSENT" /\ trip'[r].driverId = trip[r].driverId
        /\ trip'[r].riderId = trip[r].riderId /\ trip'[r].agreedFare = trip[r].agreedFare
    BY <1>1 DEF StartTransaction, CompleteTransaction, StoreInv, StoreTypeOK, RideRequest, Trip,
       SameRows
  <2> QED BY <1>1, <2>1 DEF DealOf
<1>2. ASSUME trip[r].status = "MATCHED", StartTransaction(r) PROVE Lifecycle!Start(r)
  <2>1. PhaseOf(rideRequest[r].status) = "matched"
    BY <1>2, Statuses, MappedRows
  <2>2. rideRequest'[r].status = "IN_PROGRESS"
    BY <1>2 DEF StartTransaction, StoreInv, StoreTypeOK, RideRequest
  <2>3. PhaseOf(rideRequest'[r].status) = "started"
    BY <2>2 DEF PhaseOf
  <2> QED BY <1>1, <1>2, <2>1, <2>3 DEF Lifecycle!Start, Lifecycle!Move, SameRows
<1>3. ASSUME trip[r].status = "STARTED", CompleteTransaction(r) PROVE Lifecycle!Complete(r)
  <2>1. PhaseOf(rideRequest[r].status) = "started"
    BY <1>3, Statuses, MappedRows
  <2>2. rideRequest'[r].status = "COMPLETED"
    BY <1>3 DEF CompleteTransaction, StoreInv, StoreTypeOK, RideRequest
  <2>3. PhaseOf(rideRequest'[r].status) = "completed"
    BY <2>2 DEF PhaseOf
  <2> QED BY <1>1, <1>3, <2>1, <2>3 DEF Lifecycle!Complete, Lifecycle!Move, SameRows
<1> QED BY <1>2, <1>3

(* An expiry job lets bids lapse: the one of its offer, or all of the driver   *)
(* who stayed away.                                                            *)
LEMMA LifecycleLapses ==
  ASSUME StoreInv, OneStory, NEW d \in Drivers
  PROVE  /\ \A r \in Requests : ExpireOffer(r, d) => Lifecycle!Lapse({r}, d)
         /\ ExpireDriverOffers(d) => Lifecycle!Lapse(Requests, d)
<1>1. ASSUME NEW r \in Requests, ExpireOffer(r, d) PROVE Lifecycle!Lapse({r}, d)
  <2>1. /\ rideOffer'[r][d].status = "EXPIRED"
        /\ \A s \in Requests, e \in Drivers :
             s # r \/ e # d => rideOffer'[s][e] = rideOffer[s][e]
        /\ rideRequest' = rideRequest /\ trip' = trip
    BY <1>1 DEF ExpireOffer, StoreInv, StoreTypeOK, RideOffer
  <2>2. BidOf(rideOffer'[r][d]) = None
    BY <2>1 DEF BidOf
  <2> QED BY <2>1, <2>2 DEF Lifecycle!Lapse
<1>2. ASSUME ExpireDriverOffers(d) PROVE Lifecycle!Lapse(Requests, d)
  <2>1. /\ \A s \in Requests : rideOffer'[s][d] = Lapsed(rideOffer[s][d])
        /\ \A s \in Requests, e \in Drivers : e # d => rideOffer'[s][e] = rideOffer[s][e]
        /\ rideRequest' = rideRequest /\ trip' = trip
    BY <1>2 DEF ExpireDriverOffers, StoreInv, StoreTypeOK
  <2>2. \A s \in Requests : BidOf(rideOffer'[s][d]) = None
    BY <2>1, MappedRows
  <2> QED BY <2>1, <2>2 DEF Lifecycle!Lapse
<1> QED BY <1>1, <1>2

(* An orderly step of the tables is a step of the lifecycle. *)
LEMMA OrderlyStepImplements ==
  StoreInv /\ OneStory /\ OrderlyStep => [Lifecycle!Next]_(Lifecycle!lifecycle)
<1> SUFFICES ASSUME StoreInv, OneStory, OrderlyStep
             PROVE  Lifecycle!Next \/ UNCHANGED Lifecycle!lifecycle
  OBVIOUS
<1>1. CASE UNCHANGED store
  BY <1>1, LifecycleStutters
<1>2. ASSUME NEW r \in Requests, NEW u \in Users, InsertRideRequest(r, u) PROVE Lifecycle!Next
  BY <1>2, LifecycleOpens DEF Lifecycle!Next
<1>3. ASSUME NEW r \in Requests, NEW d \in Drivers, NEW fare \in Fares,
             rideRequest[r].status = "PENDING", UpsertRideOffer(r, d, fare)
      PROVE  Lifecycle!Next
  BY <1>3, LifecycleBids DEF Lifecycle!Next
<1>4. ASSUME NEW r \in Requests, NEW d \in Drivers, NEW u \in Users, NEW fare \in Fares \cup {None},
             rideRequest[r].status = "PENDING", rideRequest[r].riderId = u,
             rideOffer[r][d] = [status |-> "PENDING", offeredFare |-> fare],
             AcceptTransaction(r, d, u, fare)
      PROVE  Lifecycle!Next
  BY <1>4, LifecycleMatches DEF Lifecycle!Next
<1>5. ASSUME NEW r \in Requests, NEW sawTrip \in BOOLEAN,
             rideRequest[r].status \in {"PENDING", "MATCHED"}, sawTrip <=> HasTrip(r),
             CancelTransaction(r, sawTrip)
      PROVE  Lifecycle!Next
  BY <1>5, LifecycleCancels DEF Lifecycle!Next
<1>6. ASSUME NEW r \in Requests,
             \/ trip[r].status = "MATCHED" /\ StartTransaction(r)
             \/ trip[r].status = "STARTED" /\ CompleteTransaction(r)
      PROVE  Lifecycle!Next
  BY <1>6, LifecycleRides DEF Lifecycle!Next
<1>7. ASSUME NEW r \in Requests, NEW d \in Drivers, ExpireOffer(r, d) PROVE Lifecycle!Next
  BY <1>7, LifecycleLapses DEF Lifecycle!Next
<1>8. ASSUME NEW d \in Drivers, ExpireDriverOffers(d) PROVE Lifecycle!Next
  BY <1>8, LifecycleLapses DEF Lifecycle!Next
<1> QED BY <1>1, <1>2, <1>3, <1>4, <1>5, <1>6, <1>7, <1>8 DEF OrderlyStep

(* Handlers kept apart, the program implements RideLifecycle: whatever the     *)
(* handlers, timers, jobs and failures do, a ride request is opened, bid for,  *)
(* matched, cancelled, started and completed as the lifecycle says.            *)
THEOREM ImplementsRideLifecycle == ASSUME Exclusive PROVE Spec => ImplementsLifecycle
<1>1. Init => Lifecycle!Init
  BY LifecycleInit
<1>2. ExclusiveInv /\ [Next]_vars => [Lifecycle!Next]_(Lifecycle!lifecycle)
  BY NextIsOrderly, OrderlyStepImplements DEF ExclusiveInv, Inv
<1> QED BY <1>1, <1>2, ExclusiveInvariance, PTL DEF Spec, ImplementsLifecycle, Lifecycle!Spec

----------------------------------------------------------------------------
(* The timers, without failures. *)

(* What a step may do to the queue when nothing fails and only the worker's    *)
(* job is active: no job stalls, fails or is lost with a handler.              *)
QueueStep ==
  \/ UNCHANGED job
  \/ \E c \in Calls :
       /\ call[c].pc = "submitUnschedule" /\ call'[c] = [call[c] EXCEPT !.pc = "submitSchedule"]
       /\ job' = [job EXCEPT ![OfferJob(call[c].r, call[c].d)] = Removed(@)]
       /\ UNCHANGED worker
  \/ \E c \in Calls :
       /\ call[c].pc = "submitSchedule" /\ call'[c] = IdleCall
       /\ job' = [job EXCEPT ![OfferJob(call[c].r, call[c].d)] = Added(@)]
       /\ UNCHANGED worker
  \/ \E c \in Calls, d \in Drivers :
       /\ call[c].pc = "acceptUnschedule" /\ call'[c].pc = "acceptUnschedule"
       /\ job' = [job EXCEPT ![OfferJob(call[c].r, d)] = Removed(@)]
       /\ UNCHANGED worker
  \/ \E d \in Drivers :
       job' = [job EXCEPT ![DisconnectJob(d)] = Added(@)] /\ UNCHANGED worker
  \/ \E j \in JobIds : /\ job[j].state = "delayed"
                       /\ job' = [job EXCEPT ![j] = Due(@)] /\ UNCHANGED worker
  \/ \E j \in JobIds : /\ worker.pc = "idle" /\ worker' = [pc |-> "read", job |-> j]
                       /\ job[j].state = "waiting"
                       /\ job' = [job EXCEPT ![j] = Taken(@)]
  \/ /\ worker.pc = "finish" /\ worker' = IdleWorker
     /\ job' = [job EXCEPT ![worker.job] = CompletedJob(@)]

LEMMA NextIsQueueStep ==
  ASSUME Faults = {}, Inv, ActiveJobIsHeld, [Next]_vars
  PROVE  QueueStep
<1>0. call \in [Calls -> Call] /\ ReadsStayTrue
  BY DEF Inv, TypeOK
<1>1. ASSUME NEW c \in Calls, HandlerBegins(c) PROVE UNCHANGED job
  BY <1>1 DEF HandlerBegins, TripRoutes, SubmitRead, AcceptRead, StartRead, CompleteRead, CancelRead,
     GoOffline
<1>2. ASSUME NEW c \in Calls, HandlerContinues(c) PROVE QueueStep
  <2>1. CASE SubmitUnschedule(c)
    BY <1>0, <2>1 DEF SubmitUnschedule, GoTo, QueueStep
  <2>2. CASE SubmitSchedule(c)
    BY <1>0, <2>2 DEF SubmitSchedule, Return, QueueStep
  <2>3. ASSUME NEW d \in Drivers, AcceptUnschedule(c, d) PROVE QueueStep
    <3>1. call[c] \in Call /\ call'[c].pc = call[c].pc
      BY <1>0, <2>3 DEF AcceptUnschedule, Call
    <3> QED BY <2>3, <3>1 DEF AcceptUnschedule, QueueStep
  <2>4. CASE OfflineSchedule(c)
    <3>1. call[c].d \in Drivers
      BY <1>0, <2>4 DEF OfflineSchedule, ReadsStayTrue, Knows
    <3> QED BY <2>4, <3>1 DEF OfflineSchedule, QueueStep
  <2> QED BY <1>2, <2>1, <2>2, <2>3, <2>4
          DEF HandlerContinues, SubmitUpsert, AcceptOthers, AcceptCommit, AcceptRollback, AcceptEmit,
              CancelCommit, StartCommit, CompleteCommit, CompleteEmit, QueueStep
<1>3. ASSUME NEW j \in JobIds, DelayElapses(j) \/ Take(j) PROVE QueueStep
  BY <1>3 DEF DelayElapses, Take, QueueStep
<1>4. ASSUME NEW j \in JobIds PROVE ~ StalledCheck(j)
  BY DEF StalledCheck, ActiveJobIsHeld
<1>5. CASE ProcessRead \/ ProcessUpdate \/ ProcessFinish
  BY <1>5 DEF ProcessRead, ProcessUpdate, ProcessFinish, QueueStep
<1>6. ~ ProcessFail /\ ~ Crash /\ \A c \in Calls : ~ Abort(c)
  BY DEF ProcessFail, Crash, Abort
<1> QED BY <1>1, <1>2, <1>3, <1>4, <1>5, <1>6
        DEF Next, WorkerContinues, vars, process, Create, SetOnlineStatus, QueueStep

(* A job is made active only by being taken. *)
LEMMA HeldPreserved ==
  ASSUME Faults = {}, Inv, ActiveJobIsHeld, [Next]_vars
  PROVE  ActiveJobIsHeld'
<1>0. job \in [JobIds -> Job] /\ worker \in Worker /\ QueueStep
  BY NextIsQueueStep DEF Inv, TypeOK
<1>1. ASSUME NEW j \in Job
      PROVE  /\ Added(j).state = "active" => j.state = "active"
             /\ Removed(j).state = "active" => j.state = "active"
             /\ Due(j).state = "waiting" /\ CompletedJob(j).state = "completed"
  BY DEF Added, Removed, Due, CompletedJob, AbsentJob, DelayedJob, Job
<1>2. ASSUME NEW k, UNCHANGED worker,
             job' = [job EXCEPT ![k] = Added(@)] \/ job' = [job EXCEPT ![k] = Removed(@)]
             \/ job' = [job EXCEPT ![k] = Due(@)]
      PROVE  ActiveJobIsHeld'
  <2>1. \A j \in JobIds : job'[j].state = "active" => job[j].state = "active"
    BY <1>0, <1>1, <1>2
  <2> QED BY <1>2, <2>1 DEF ActiveJobIsHeld
<1>3. CASE UNCHANGED job
  <2>1. UNCHANGED worker \/ (worker.pc # "idle" /\ worker'.pc # "idle" /\ worker'.job = worker.job)
    <3>1. ASSUME NEW c \in Calls, HandlerBegins(c) \/ HandlerContinues(c)
          PROVE  UNCHANGED worker
      BY <3>1 DEF HandlerBegins, TripRoutes, SubmitRead, AcceptRead, StartRead, CompleteRead,
         CancelRead, GoOffline, HandlerContinues, SubmitUpsert, SubmitUnschedule, SubmitSchedule,
         AcceptOthers, AcceptCommit, AcceptRollback, AcceptUnschedule, AcceptEmit, CancelCommit,
         StartCommit, CompleteCommit, CompleteEmit, OfflineSchedule
    <3>2. CASE ProcessRead \/ ProcessUpdate
      BY <1>0, <3>2 DEF ProcessRead, ProcessUpdate, Worker, IdleWorker
    <3>3. ~ ProcessFinish
      <4> SUFFICES ASSUME ProcessFinish PROVE FALSE
        OBVIOUS
      <4>1. /\ worker.job \in JobIds /\ job[worker.job].state = "active"
        BY <1>0 DEF ProcessFinish, Worker, IdleWorker, Inv, WorkerHoldsActiveJob
      <4>2. job'[worker.job].state = "completed"
        BY <1>0, <1>1, <4>1 DEF ProcessFinish
      <4> QED BY <1>3, <4>1, <4>2
    <3>4. ASSUME NEW j \in JobIds, Take(j) PROVE FALSE
      BY <1>0, <1>3, <3>4 DEF Take, Taken, Job
    <3>5. ~ ProcessFail /\ ~ Crash /\ \A c \in Calls : ~ Abort(c)
      BY DEF ProcessFail, Crash, Abort
    <3> QED BY <3>1, <3>2, <3>3, <3>4, <3>5
            DEF Next, WorkerContinues, vars, process, Create, SetOnlineStatus, DelayElapses,
                StalledCheck
  <2> QED BY <1>3, <2>1 DEF ActiveJobIsHeld
<1>4. ASSUME NEW k \in JobIds, worker.pc = "idle", worker' = [pc |-> "read", job |-> k],
             job' = [job EXCEPT ![k] = Taken(@)]
      PROVE  ActiveJobIsHeld'
  BY <1>0, <1>4 DEF ActiveJobIsHeld
<1>5. ASSUME worker.pc = "finish", job' = [job EXCEPT ![worker.job] = CompletedJob(@)]
      PROVE  ActiveJobIsHeld'
  <2>1. worker.job \in JobIds
    BY <1>0, <1>5 DEF Worker, IdleWorker
  <2>2. \A j \in JobIds : job'[j].state # "active"
    BY <1>0, <1>1, <1>5, <2>1 DEF ActiveJobIsHeld
  <2> QED BY <2>2 DEF ActiveJobIsHeld
<1> QED BY <1>0, <1>2, <1>3, <1>4, <1>5 DEF QueueStep

(* When the worker is done with an offer's job, the offer is not pending, and  *)
(* stays so until the job is completed.                                        *)
LEMMA DonePreserved ==
  ASSUME Exclusive, ExclusiveInv, DoneJobLeavesNoOffer, [Next]_vars
  PROVE  DoneJobLeavesNoOffer'
<1> SUFFICES ASSUME worker'.pc = "finish", worker'.job[1] \in Requests
             PROVE  rideOffer'[worker'.job[1]][worker'.job[2]].status # "PENDING"
  BY DEF DoneJobLeavesNoOffer
<1>0. worker \in Worker /\ Inv /\ CallsApart /\ WorkerApart /\ StoreTypeOK
  BY DEF ExclusiveInv, Inv, TypeOK
<1>1. CASE UNCHANGED worker
  <2>1. ~ ProcessUpdate
    BY <1>0, <1>1 DEF ProcessUpdate, Worker, IdleWorker
  <2>2. worker.job[1] \in Footprint(worker.job)
    BY <1>1, StoreAssumption DEF Footprint
  <2>3. SameRows(worker.job[1])
    BY <1>0, <1>1, <2>1, <2>2, NobodyElseWrites
  <2> QED BY <1>1, <2>3 DEF DoneJobLeavesNoOffer, SameRows
<1>2. CASE ProcessRead
  <2>1. worker.pc = "read" /\ worker'.job = worker.job /\ ~ StillDue(worker.job)
        /\ rideOffer' = rideOffer
    BY <1>0, <1>2 DEF ProcessRead, Worker, IdleWorker, store
  <2> QED BY <2>1, StoreAssumption DEF StillDue, OfferStillPending
<1>3. CASE ProcessUpdate
  <2>1. worker'.job = worker.job /\ worker.job \in JobIds
    BY <1>0, <1>3 DEF ProcessUpdate, Worker, IdleWorker
  <2>2. worker.job[1] # None /\ worker.job[2] \in Drivers
    BY <2>1, StoreAssumption DEF JobIds
  <2> QED BY <1>0, <1>3, <2>1, <2>2 DEF ProcessUpdate, ExpireOffer, StoreTypeOK, RideOffer
<1>4. CASE ProcessFinish \/ ProcessFail \/ Crash \/ \E j \in JobIds : Take(j)
  BY <1>4 DEF ProcessFinish, ProcessFail, Crash, Take, IdleWorker
<1>5. ASSUME NEW c \in Calls, HandlerBegins(c) \/ HandlerContinues(c) \/ Abort(c)
      PROVE  UNCHANGED worker
  BY <1>5 DEF HandlerBegins, TripRoutes, SubmitRead, AcceptRead, StartRead, CompleteRead, CancelRead,
     GoOffline, Abort, HandlerContinues, SubmitUpsert, SubmitUnschedule, SubmitSchedule,
     AcceptOthers, AcceptCommit, AcceptRollback, AcceptUnschedule, AcceptEmit, CancelCommit,
     StartCommit, CompleteCommit, CompleteEmit, OfflineSchedule
<1> QED BY <1>1, <1>2, <1>3, <1>4, <1>5
        DEF Next, WorkerContinues, vars, process, Create, SetOnlineStatus, DelayElapses, StalledCheck

(* The job ids of offers: one for each request and driver, and none of them a  *)
(* driver's own.                                                               *)
LEMMA DistinctJobs ==
  ASSUME NEW r \in Requests, NEW d \in Drivers
  PROVE  /\ OfferJob(r, d) \in JobIds
         /\ OfferJob(r, d)[1] = r /\ OfferJob(r, d)[2] = d
         /\ \A s, e : OfferJob(s, e) = OfferJob(r, d) => s = r /\ e = d
         /\ \A e : DisconnectJob(e) # OfferJob(r, d)
         /\ r \in Footprint(OfferJob(r, d))
  BY StoreAssumption DEF OfferJob, DisconnectJob, JobIds, Footprint

(* The old timer is gone when the new one is added: the worker cannot be       *)
(* holding it, and nobody else submits the same offer.                         *)
LEMMA SlotPreserved ==
  ASSUME Exclusive, Faults = {}, ExclusiveInv, ActiveJobIsHeld, SlotIsFree, [Next]_vars
  PROVE  SlotIsFree'
<1>0. /\ job \in [JobIds -> Job] /\ call \in [Calls -> Call] /\ worker \in Worker
      /\ QueueStep /\ ReadsStayTrue /\ Inv
  BY NextIsQueueStep DEF ExclusiveInv, Inv, TypeOK
<1> SUFFICES ASSUME NEW c \in Calls, call'[c].pc = "submitSchedule"
             PROVE  job'[OfferJob(call'[c].r, call'[c].d)].state = "absent"
  BY DEF SlotIsFree, OfferJob
<1>1. \/ call'[c] = call[c]
      \/ /\ call[c].pc = "submitUnschedule" /\ call'[c] = [call[c] EXCEPT !.pc = "submitSchedule"]
         /\ job' = [job EXCEPT ![OfferJob(call[c].r, call[c].d)] = Removed(@)]
  <2>1. ASSUME HandlerBegins(c) PROVE FALSE
    BY <1>0, <2>1 DEF HandlerBegins, TripRoutes, SubmitRead, AcceptRead, StartRead, CompleteRead,
       CancelRead, GoOffline, Begin, IdleCall
  <2>2. ASSUME HandlerContinues(c) PROVE SubmitUnschedule(c)
    BY <1>0, <2>2 DEF HandlerContinues, SubmitUpsert, SubmitSchedule, AcceptOthers, AcceptCommit,
       AcceptRollback, AcceptUnschedule, AcceptEmit, CancelCommit, StartCommit, CompleteCommit,
       CompleteEmit, OfflineSchedule, GoTo, Return, IdleCall, Call
  <2>3. CASE SubmitUnschedule(c)
    BY <1>0, <2>3 DEF SubmitUnschedule, GoTo
  <2>4. ~ ProcessFail /\ ~ Crash /\ \A e \in Calls : ~ Abort(e)
    BY DEF ProcessFail, Crash, Abort
  <2>5. ASSUME NEW e \in Calls \ {c}, HandlerBegins(e) \/ HandlerContinues(e)
        PROVE  call'[c] = call[c]
    BY <1>0, <2>5 DEF HandlerBegins, TripRoutes, SubmitRead, AcceptRead, StartRead, CompleteRead,
       CancelRead, GoOffline, Begin, HandlerContinues, SubmitUpsert, SubmitUnschedule,
       SubmitSchedule, AcceptOthers, AcceptCommit, AcceptRollback, AcceptUnschedule, AcceptEmit,
       CancelCommit, StartCommit, CompleteCommit, CompleteEmit, OfflineSchedule, GoTo, Return
  <2> QED BY <2>1, <2>2, <2>3, <2>4, <2>5
          DEF Next, WorkerContinues, vars, process, Create, SetOnlineStatus, DelayElapses, Take,
              StalledCheck, ProcessRead, ProcessUpdate, ProcessFinish
<1>2. /\ call[c].pc \in {"submitUnschedule", "submitSchedule"}
      /\ call'[c].r = call[c].r /\ call'[c].d = call[c].d
      /\ call[c].r \in Requests /\ call[c].d \in Drivers
  <2>1. call[c] \in Call /\ Knows(call[c])
    BY <1>0 DEF ReadsStayTrue
  <2>2. /\ call[c].pc \in {"submitUnschedule", "submitSchedule"}
        /\ call'[c].r = call[c].r /\ call'[c].d = call[c].d
    BY <1>1, <2>1 DEF Call
  <2> QED BY <2>1, <2>2 DEF Knows
<1> DEFINE k == OfferJob(call[c].r, call[c].d)
<1>3. k \in JobIds /\ job[k] \in Job
  BY <1>0, <1>2, DistinctJobs
<1>4. job[k].state # "active"
  <2>1. ~ (worker.pc # "idle" /\ worker.job = k)
    BY <1>2, DistinctJobs DEF ExclusiveInv, WorkerApart
  <2> QED BY <1>3, <2>1 DEF ActiveJobIsHeld
<1>5. CASE job' = [job EXCEPT ![OfferJob(call[c].r, call[c].d)] = Removed(@)]
  <2>1. job'[k] = Removed(job[k])
    BY <1>0, <1>3, <1>5
  <2>2. job'[k] = AbsentJob
    BY <1>4, <2>1 DEF Removed
  <2> QED BY <1>2, <2>2 DEF AbsentJob
<1>6. CASE call'[c] = call[c]
  <2>1. job[k].state = "absent" /\ call[c].pc = "submitSchedule"
    BY <1>6 DEF SlotIsFree
  <2>2. SUFFICES job'[k].state = "absent"
    BY <1>2
  <2> HIDE DEF k
  <2>3. ASSUME NEW j, job' = [job EXCEPT ![j] = Removed(@)] PROVE job'[k].state = "absent"
    BY <1>0, <1>3, <2>1, <2>3 DEF Removed, AbsentJob
  <2>4. ASSUME NEW j, j # k,
               \/ job' = [job EXCEPT ![j] = Added(@)] \/ job' = [job EXCEPT ![j] = Due(@)]
               \/ job' = [job EXCEPT ![j] = Taken(@)] \/ job' = [job EXCEPT ![j] = CompletedJob(@)]
        PROVE  job'[k].state = "absent"
    BY <1>0, <1>3, <2>1, <2>4
  <2>5. ASSUME NEW e \in Calls, call[e].pc = "submitSchedule", call'[e] = IdleCall
        PROVE  OfferJob(call[e].r, call[e].d) # k
    <3>1. e # c
      BY <1>6, <2>1, <2>5 DEF IdleCall
    <3>2. call[e].r # call[c].r
      BY <1>2, <2>1, <2>5, <3>1 DEF ExclusiveInv, CallsApart
    <3> QED BY <1>2, <3>2, DistinctJobs DEF k
  <2>6. \A d : DisconnectJob(d) # k
    BY <1>2, DistinctJobs DEF k
  <2>7. worker.pc = "finish" => worker.job # k
    BY <1>0, <2>1 DEF Inv, WorkerHoldsActiveJob
  <2>8. CASE UNCHANGED job
    BY <2>1, <2>8
  <2> QED BY <1>0, <2>1, <2>3, <2>4, <2>5, <2>6, <2>7, <2>8 DEF QueueStep
<1> QED BY <1>1, <1>5, <1>6

(* An offer that can be accepted after a step could be before, unless the step *)
(* submits it.                                                                 *)
LEMMA AcceptableBefore ==
  ASSUME ExclusiveInv, [Next]_vars, NEW r \in Requests, NEW d \in Drivers,
         rideRequest'[r].status = "PENDING", rideOffer'[r][d].status = "PENDING"
  PROVE  \/ rideRequest[r].status = "PENDING" /\ rideOffer[r][d].status = "PENDING"
         \/ \E c \in Calls : SubmitUpsert(c) /\ call[c].r = r /\ call[c].d = d
<1>0. StoreTypeOK /\ StoreInv /\ OneStory /\ call \in [Calls -> Call] /\ ReadsStayTrue /\ worker \in Worker
  BY DEF ExclusiveInv, Inv, TypeOK
<1>1. CASE UNCHANGED store
  BY <1>1 DEF store
<1>2. ASSUME NEW s \in Requests, NEW u \in Users, Create(s, u)
      PROVE  rideRequest[r].status = "PENDING" /\ rideOffer[r][d].status = "PENDING"
  BY <1>0, <1>2 DEF Create, InsertRideRequest, StoreTypeOK, OneStory, NoOfferOutlivesRequest
<1>3. ASSUME NEW c \in Calls, SubmitUpsert(c)
      PROVE  \/ rideRequest[r].status = "PENDING" /\ rideOffer[r][d].status = "PENDING"
             \/ call[c].r = r /\ call[c].d = d
  <2>1. call[c].r \in Requests /\ call[c].d \in Drivers
    BY <1>0, <1>3 DEF SubmitUpsert, ReadsStayTrue, Knows
  <2> QED BY <1>0, <1>3, <2>1 DEF SubmitUpsert, UpsertRideOffer, StoreTypeOK
<1>4. ASSUME NEW c \in Calls,
             AcceptCommit(c) \/ CancelCommit(c) \/ StartCommit(c) \/ CompleteCommit(c)
      PROVE  rideRequest[r].status = "PENDING" /\ rideOffer[r][d].status = "PENDING"
  <2>1. call[c].r \in Requests
    BY <1>0, <1>4 DEF AcceptCommit, CancelCommit, StartCommit, CompleteCommit, ReadsStayTrue, Knows
  <2>2. /\ rideRequest'[call[c].r].status # "PENDING"
        /\ \A s \in Requests \ {call[c].r} : SameRows(s)
    <3>1. CASE AcceptCommit(c)
      BY <1>0, <2>1, <3>1 DEF AcceptCommit, AcceptTransaction, StoreTypeOK, RideRequest, SameRows
    <3>2. CASE CancelCommit(c)
      BY <1>0, <2>1, <3>2 DEF CancelCommit, CancelTransaction, StoreTypeOK, RideRequest, SameRows
    <3>3. CASE StartCommit(c)
      BY <1>0, <2>1, <3>3 DEF StartCommit, StartTransaction, StoreTypeOK, RideRequest, SameRows
    <3>4. CASE CompleteCommit(c)
      BY <1>0, <2>1, <3>4 DEF CompleteCommit, CompleteTransaction, StoreTypeOK, RideRequest, SameRows
    <3> QED BY <1>4, <3>1, <3>2, <3>3, <3>4
  <2> QED BY <2>2 DEF SameRows
<1>5. CASE ProcessUpdate
  <2>1. worker.job \in JobIds /\ worker.job[2] \in Drivers
        /\ (worker.job[1] # None => worker.job[1] \in Requests)
    BY <1>0, <1>5 DEF ProcessUpdate, Worker, IdleWorker, JobIds
  <2>2. CASE worker.job[1] = None
    <3>1. /\ rideRequest' = rideRequest
          /\ rideOffer'[r][d] \in {rideOffer[r][d], Lapsed(rideOffer[r][d])}
      BY <1>0, <1>5, <2>1, <2>2 DEF ProcessUpdate, ExpireDriverOffers, StoreTypeOK
    <3> QED BY <1>0, <3>1, OfferTypes
  <2>3. CASE worker.job[1] # None
    <3>1. /\ rideRequest' = rideRequest
          /\ rideOffer'[r][d] = rideOffer[r][d] \/ rideOffer'[r][d].status = "EXPIRED"
      BY <1>0, <1>5, <2>1, <2>3 DEF ProcessUpdate, ExpireOffer, StoreTypeOK, RideOffer
    <3> QED BY <3>1
  <2> QED BY <2>2, <2>3
<1>6. ASSUME NEW c \in Calls, HandlerBegins(c) \/ Abort(c) PROVE UNCHANGED store
  BY <1>6 DEF HandlerBegins, TripRoutes, SubmitRead, AcceptRead, StartRead, CompleteRead, CancelRead,
     GoOffline, Abort
<1>7. ASSUME NEW c \in Calls, HandlerContinues(c)
      PROVE  \/ UNCHANGED store \/ SubmitUpsert(c)
             \/ AcceptCommit(c) \/ CancelCommit(c) \/ StartCommit(c) \/ CompleteCommit(c)
  BY <1>7 DEF HandlerContinues, SubmitUnschedule, SubmitSchedule, AcceptOthers, AcceptRollback,
     AcceptUnschedule, AcceptEmit, CompleteEmit, OfflineSchedule
<1>8. ASSUME NEW j \in JobIds, DelayElapses(j) \/ Take(j) \/ StalledCheck(j)
      PROVE  UNCHANGED store
  BY <1>8 DEF DelayElapses, Take, StalledCheck
<1>9. CASE \/ \E e \in Leavers, online \in BOOLEAN : SetOnlineStatus(e, online)
           \/ ProcessRead \/ ProcessFinish \/ ProcessFail \/ Crash \/ UNCHANGED vars
  BY <1>1, <1>9 DEF SetOnlineStatus, ProcessRead, ProcessFinish, ProcessFail, Crash, vars
<1> QED BY <1>1, <1>2, <1>3, <1>4, <1>5, <1>6, <1>7, <1>8, <1>9 DEF Next, WorkerContinues

(* A submission goes on until it has added the timer. *)
LEMMA SubmissionGoesOn ==
  ASSUME Faults = {}, Inv, ActiveJobIsHeld, SlotIsFree, [Next]_vars,
         NEW r \in Requests, NEW d \in Drivers, Submitting(r, d)
  PROVE  Submitting(r, d)' \/ job'[OfferJob(r, d)].state \in Live
<1>0. /\ job \in [JobIds -> Job] /\ call \in [Calls -> Call] /\ OfferJob(r, d) \in JobIds
  BY DistinctJobs DEF Inv, TypeOK
<1>1. PICK c \in Calls : /\ call[c].r = r /\ call[c].d = d
                         /\ call[c].pc \in {"submitUpsert", "submitUnschedule", "submitSchedule"}
  BY DEF Submitting
<1>2. CASE call'[c] = call[c]
  BY <1>1, <1>2 DEF Submitting
<1>3. CASE HandlerContinues(c)
  <2>1. CASE SubmitUpsert(c) \/ SubmitUnschedule(c)
    <3>1. /\ call'[c].r = r /\ call'[c].d = d
          /\ call'[c].pc \in {"submitUnschedule", "submitSchedule"}
      BY <1>0, <1>1, <2>1 DEF SubmitUpsert, SubmitUnschedule, GoTo, Call
    <3> QED BY <3>1 DEF Submitting
  <2>2. CASE SubmitSchedule(c)
    <3>1. job[OfferJob(r, d)].state = "absent"
      BY <1>1, <2>2 DEF SubmitSchedule, SlotIsFree
    <3>2. job'[OfferJob(r, d)] = DelayedJob
      BY <1>0, <1>1, <2>2, <3>1 DEF SubmitSchedule, Added
    <3> QED BY <3>2 DEF DelayedJob, Live
  <2> QED BY <1>1, <1>3, <2>1, <2>2
          DEF HandlerContinues, AcceptOthers, AcceptCommit, AcceptRollback, AcceptUnschedule,
              AcceptEmit, CancelCommit, StartCommit, CompleteCommit, CompleteEmit, OfflineSchedule
<1>4. ~ HandlerBegins(c)
  BY <1>1 DEF HandlerBegins, TripRoutes, SubmitRead, AcceptRead, StartRead, CompleteRead, CancelRead,
     GoOffline, Begin
<1>5. ~ ProcessFail /\ ~ Crash /\ \A e \in Calls : ~ Abort(e)
  BY DEF ProcessFail, Crash, Abort
<1>6. ASSUME NEW e \in Calls \ {c}, HandlerBegins(e) \/ HandlerContinues(e)
      PROVE  call'[c] = call[c]
  BY <1>0, <1>6 DEF HandlerBegins, TripRoutes, SubmitRead, AcceptRead, StartRead, CompleteRead,
     CancelRead, GoOffline, Begin, HandlerContinues, SubmitUpsert, SubmitUnschedule,
     SubmitSchedule, AcceptOthers, AcceptCommit, AcceptRollback, AcceptUnschedule, AcceptEmit,
     CancelCommit, StartCommit, CompleteCommit, CompleteEmit, OfflineSchedule, GoTo, Return
<1> QED BY <1>2, <1>3, <1>4, <1>5, <1>6
        DEF Next, WorkerContinues, vars, process, Create, SetOnlineStatus, DelayElapses, Take,
            StalledCheck, ProcessRead, ProcessUpdate, ProcessFinish

(* The timer of an offer that stays acceptable stays in the queue: it is       *)
(* removed only by a submission or once the request has a trip, and completed  *)
(* only when the offer is no longer pending.                                   *)
LEMMA TimerPreserved ==
  ASSUME Exclusive, Faults = {}, ExclusiveInv, TimerInv, [Next]_vars
  PROVE  PendingOfferHasTimer'
<1>0. /\ job \in [JobIds -> Job] /\ call \in [Calls -> Call] /\ worker \in Worker
      /\ Inv /\ ReadsStayTrue /\ StoreInv /\ OneStory /\ QueueStep
      /\ ActiveJobIsHeld /\ SlotIsFree /\ DoneJobLeavesNoOffer /\ PendingOfferHasTimer
  BY NextIsQueueStep DEF ExclusiveInv, Inv, TypeOK, TimerInv
<1> SUFFICES ASSUME NEW r \in Requests, NEW d \in Drivers,
                    rideRequest'[r].status = "PENDING", rideOffer'[r][d].status = "PENDING",
                    ~ Submitting(r, d)
             PROVE  job'[OfferJob(r, d)].state \in Live
  BY <1>0, SubmissionGoesOn DEF PendingOfferHasTimer, Submitting, OfferJob
<1> DEFINE k == OfferJob(r, d)
<1>1. /\ rideRequest[r].status = "PENDING" /\ rideOffer[r][d].status = "PENDING"
      /\ k \in JobIds /\ job[k] \in Job /\ job[k].state \in Live
  <2>1. ~ \E c \in Calls : SubmitUpsert(c) /\ call[c].r = r /\ call[c].d = d
    BY DEF SubmitUpsert, Submitting
  <2>2. rideRequest[r].status = "PENDING" /\ rideOffer[r][d].status = "PENDING"
    BY <2>1, AcceptableBefore
  <2> QED BY <1>0, <2>2, DistinctJobs DEF PendingOfferHasTimer
<1>2. ASSUME UNCHANGED job PROVE job'[k].state \in Live
  BY <1>1, <1>2
<1>3. ASSUME NEW j, job' = [job EXCEPT ![j] = Added(@)] PROVE job'[k].state \in Live
  BY <1>0, <1>1, <1>3 DEF Added, Live
<1>4. ASSUME NEW j, j # k,
             job' = [job EXCEPT ![j] = Removed(@)] \/ job' = [job EXCEPT ![j] = CompletedJob(@)]
      PROVE  job'[k].state \in Live
  BY <1>0, <1>1, <1>4
<1>5. ASSUME NEW j \in JobIds,
             job' = [job EXCEPT ![j] = Due(@)] \/ job' = [job EXCEPT ![j] = Taken(@)]
      PROVE  job'[k].state \in Live
  BY <1>0, <1>1, <1>5 DEF Due, Taken, Live, Job
<1>6. ASSUME NEW c \in Calls, call[c].pc = "submitUnschedule"
      PROVE  OfferJob(call[c].r, call[c].d) # k
  BY <1>6, DistinctJobs DEF Submitting
<1>7. ASSUME NEW c \in Calls, NEW e \in Drivers, call[c].pc = "acceptUnschedule"
      PROVE  OfferJob(call[c].r, e) # k
  <2>1. call[c].r \in Requests /\ HasTrip(call[c].r)
    BY <1>0, <1>7 DEF ReadsStayTrue, Knows
  <2>2. call[c].r # r
    BY <1>0, <1>1, <2>1, Statuses
  <2> QED BY <2>2, DistinctJobs
<1>8. worker.pc = "finish" => worker.job # k
  BY <1>0, <1>1, DistinctJobs DEF DoneJobLeavesNoOffer
<1> HIDE DEF k
<1>9. job'[k].state \in Live
  BY <1>0, <1>2, <1>3, <1>4, <1>5, <1>6, <1>7, <1>8 DEF QueueStep
<1> QED BY <1>9 DEF k

LEMMA TimerInitially == Init => TimerInv
  BY DEF Init, StoreInit, NoOffer, AbsentJob, IdleCall, IdleWorker, TimerInv, ActiveJobIsHeld,
     DoneJobLeavesNoOffer, SlotIsFree, PendingOfferHasTimer

(* Handlers kept apart and nothing failing, an offer the rider can still       *)
(* accept has an expiry job that has still to run, unless the call that        *)
(* submits it is about to add one: no renewal or late job loses the timer.     *)
THEOREM PendingOffersHaveTimers ==
  ASSUME Exclusive, Faults = {} PROVE Spec => []PendingOfferHasTimer
<1>1. Init => ExclusiveInv /\ TimerInv
  BY ExclusiveInitially, TimerInitially
<1>2. ExclusiveInv /\ TimerInv /\ [Next]_vars => ExclusiveInv' /\ TimerInv'
  <2> SUFFICES ASSUME ExclusiveInv, TimerInv, [Next]_vars PROVE ExclusiveInv' /\ TimerInv'
    OBVIOUS
  <2>1. Inv /\ ActiveJobIsHeld /\ DoneJobLeavesNoOffer /\ SlotIsFree
    BY DEF ExclusiveInv, TimerInv
  <2> QED BY <2>1, ExclusivePreserved, HeldPreserved, DonePreserved, SlotPreserved, TimerPreserved
          DEF TimerInv
<1>3. TimerInv => PendingOfferHasTimer
  BY DEF TimerInv
<1> QED BY <1>1, <1>2, <1>3, PTL DEF Spec

=============================================================================
