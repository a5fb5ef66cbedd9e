------------------------- MODULE Negotiation_proofs -------------------------
(***************************************************************************)
(* What TLC checks of Negotiation on small instances, proved for every set   *)
(* of users, drivers, requests, fares and concurrent calls, every number of  *)
(* attempts and every set of faults, and for overlapping handlers            *)
(* (Exclusive = FALSE) as well as for handlers kept apart.                   *)
(***************************************************************************)
EXTENDS Negotiation, RideStore_proofs

(* The inductive invariant.  The invariants of the tables rest on what the    *)
(* handlers in flight still know (ReadsStayTrue), and so does the gateway's   *)
(* map; the queue's types rest on the worker holding its job.                 *)
Inv ==
  /\ TypeOK
  /\ StoreInv
  /\ ReadsStayTrue
  /\ RelayToOwnRider
  /\ WorkerHoldsActiveJob

----------------------------------------------------------------------------
(* Each operation of the queue takes a job to a job. *)
LEMMA QueueTypes ==
  ASSUME NEW j \in Job
  PROVE  /\ Added(j) \in Job
         /\ Removed(j) \in Job
         /\ j.state = "delayed" => Due(j) \in Job
         /\ j.state = "waiting" => Taken(j) \in Job
         /\ j.state = "active" => /\ CompletedJob(j) \in Job
                                  /\ FailedAttempt(j) \in Job
                                  /\ Stalled(j) \in Job
<1> USE QueueAssumption DEF Job, JobState
<1>1. AbsentJob \in Job /\ DelayedJob \in Job
  BY DEF AbsentJob, DelayedJob
<1>2. Added(j) \in Job /\ Removed(j) \in Job
  BY <1>1 DEF Added, Removed
<1>3. j.state = "delayed" => Due(j) \in Job
  BY DEF Due
<1>4. j.state = "waiting" => Taken(j) \in Job
  BY DEF Taken
<1>5. j.state = "active" => CompletedJob(j) \in Job
  BY DEF CompletedJob
<1>6. ASSUME j.state = "active" PROVE FailedAttempt(j) \in Job
  <2>1. j.attempts \in Nat /\ j.attempts + 1 \in 0..MaxAttempts
    BY <1>6
  <2>2. j.attempts + 1 = MaxAttempts => ~ (j.attempts + 1 < MaxAttempts)
    BY <2>1
  <2>3. FailedAttempt(j) \in [state: JobState, attempts: 0..MaxAttempts, stalled: BOOLEAN]
    BY <2>1 DEF FailedAttempt
  <2>4. /\ FailedAttempt(j).attempts = j.attempts + 1
        /\ ~ (j.attempts + 1 < MaxAttempts) => FailedAttempt(j).state = "failed"
    BY DEF FailedAttempt
  <2> QED BY <2>2, <2>3, <2>4
<1>7. j.state = "active" => Stalled(j) \in Job
  BY DEF Stalled
<1> QED BY <1>2, <1>3, <1>4, <1>5, <1>6, <1>7

(* Every step of the program does to the tables what StoreStep allows: the    *)
(* rows a handler names still exist when it writes.                           *)
LEMMA NextIsStoreStep == TypeOK /\ ReadsStayTrue /\ [Next]_vars => StoreStep
<1> SUFFICES ASSUME TypeOK, ReadsStayTrue, [Next]_vars PROVE StoreStep
  OBVIOUS
<1>1. CASE UNCHANGED store
  BY <1>1 DEF StoreStep
<1>2. ASSUME NEW r \in Requests, NEW u \in Users, Create(r, u) PROVE StoreStep
  BY <1>2 DEF Create, StoreStep
<1>3. ASSUME NEW c \in Calls, HandlerContinues(c) PROVE StoreStep
  <2>0. /\ call[c].d \in Drivers \cup {None} /\ call[c].fare \in Fares \cup {None}
        /\ call[c].sawTrip \in BOOLEAN
    BY DEF TypeOK, Call
  <2>1. CASE SubmitUpsert(c)
    BY <2>0, <2>1 DEF SubmitUpsert, ReadsStayTrue, Knows, StoreStep
  <2>2. CASE AcceptCommit(c)
    BY <2>0, <2>2 DEF AcceptCommit, ReadsStayTrue, Knows, StoreStep
  <2>3. CASE CancelCommit(c)
    BY <2>0, <2>3 DEF CancelCommit, ReadsStayTrue, Knows, StoreStep
  <2>4. CASE StartCommit(c)
    BY <2>4 DEF StartCommit, ReadsStayTrue, Knows, StoreStep
  <2>5. CASE CompleteCommit(c)
    BY <2>5 DEF CompleteCommit, ReadsStayTrue, Knows, StoreStep
  <2> QED BY <1>1, <1>3, <2>1, <2>2, <2>3, <2>4, <2>5
          DEF HandlerContinues, SubmitUnschedule, SubmitSchedule, AcceptOthers, AcceptRollback,
              AcceptUnschedule, AcceptEmit, CompleteEmit, OfflineSchedule
<1>4. CASE ProcessUpdate
  <2>1. worker.job \in JobIds
    BY <1>4 DEF ProcessUpdate, TypeOK, Worker, IdleWorker
  <2>2. worker.job[2] \in Drivers /\ (worker.job[1] # None => worker.job[1] \in Requests)
    BY <2>1 DEF JobIds
  <2> QED BY <1>4, <2>2 DEF ProcessUpdate, StoreStep
<1>5. ASSUME NEW c \in Calls, HandlerBegins(c) \/ Abort(c) PROVE UNCHANGED store
  BY <1>5 DEF HandlerBegins, TripRoutes, SubmitRead, AcceptRead, StartRead, CompleteRead, CancelRead,
     GoOffline, Abort
<1>6. ASSUME NEW j \in JobIds, DelayElapses(j) \/ Take(j) \/ StalledCheck(j)
      PROVE  UNCHANGED store
  BY <1>6 DEF DelayElapses, Take, StalledCheck
<1>7. CASE \/ \E d \in Leavers, online \in BOOLEAN : SetOnlineStatus(d, online)
           \/ ProcessRead \/ ProcessFinish \/ ProcessFail \/ Crash \/ UNCHANGED vars
  BY <1>1, <1>7 DEF SetOnlineStatus, ProcessRead, ProcessFinish, ProcessFail, Crash, vars
<1> QED BY <1>1, <1>2, <1>3, <1>4, <1>5, <1>6, <1>7 DEF Next, WorkerContinues

----------------------------------------------------------------------------
(* The types of the process's own variables. *)

(* A handler's record stays one. *)
LEMMA CallTypes == TypeOK /\ ReadsStayTrue /\ [Next]_vars => call' \in [Calls -> Call]
<1> SUFFICES ASSUME TypeOK, ReadsStayTrue, [Next]_vars PROVE call' \in [Calls -> Call]
  OBVIOUS
<1>0. call \in [Calls -> Call] /\ IdleCall \in Call
  BY DEF TypeOK, IdleCall, Call, CallStep
<1>1. CASE UNCHANGED call
  BY <1>0, <1>1
<1>2. ASSUME NEW c \in Calls, HandlerBegins(c) PROVE call' \in [Calls -> Call]
  <2>1. ASSUME NEW pc \in CallStep, NEW f \in Call, Begin(c, pc, f)
        PROVE  call' \in [Calls -> Call]
    <3>1. [f EXCEPT !.pc = pc] \in Call
      BY DEF Call
    <3> QED BY <1>0, <2>1, <3>1 DEF Begin
  <2>2. ASSUME NEW r \in Requests, NEW d \in Drivers, NEW fare \in Fares, SubmitRead(c, r, d, fare)
        PROVE  call' \in [Calls -> Call]
    <3>1. [IdleCall EXCEPT !.r = r, !.d = d, !.fare = fare] \in Call
      BY DEF Call, CallStep, IdleCall
    <3> QED BY <2>1, <2>2, <3>1 DEF SubmitRead, CallStep
  <2>3. ASSUME NEW r \in Requests, NEW d \in Drivers, NEW u \in Users, AcceptRead(c, r, d, u)
        PROVE  call' \in [Calls -> Call]
    <3>1. rideOffer[r][d].offeredFare \in Fares \cup {None}
      BY OfferTypes DEF TypeOK, RideOffer
    <3>2. [IdleCall EXCEPT !.r = r, !.d = d, !.u = u, !.fare = rideOffer[r][d].offeredFare] \in Call
      BY <3>1 DEF Call, CallStep, IdleCall
    <3> QED BY <2>1, <2>3, <3>2 DEF AcceptRead, CallStep
  <2>4. ASSUME NEW r \in Requests, NEW u \in Users, CancelRead(c, r, u)
        PROVE  call' \in [Calls -> Call]
    <3>1. [IdleCall EXCEPT !.r = r, !.sawTrip = HasTrip(r)] \in Call
      BY DEF Call, CallStep, IdleCall, HasTrip
    <3> QED BY <2>1, <2>4, <3>1 DEF CancelRead, CallStep
  <2>5. ASSUME NEW r \in Requests, NEW d \in Drivers, StartRead(c, r, d) \/ CompleteRead(c, r, d)
        PROVE  call' \in [Calls -> Call]
    <3>1. [IdleCall EXCEPT !.r = r] \in Call
      BY DEF Call, CallStep, IdleCall
    <3> QED BY <2>1, <2>5, <3>1 DEF StartRead, CompleteRead, CallStep
  <2>6. ASSUME NEW d \in Leavers, GoOffline(c, d)
        PROVE  call' \in [Calls -> Call]
    <3>1. [IdleCall EXCEPT !.d = d] \in Call
      BY NegotiationAssumption DEF Call, CallStep, IdleCall
    <3> QED BY <2>1, <2>6, <3>1 DEF GoOffline, CallStep
  <2> QED BY <1>2, <2>2, <2>3, <2>4, <2>5, <2>6 DEF HandlerBegins, TripRoutes
<1>3. ASSUME NEW c \in Calls, HandlerContinues(c) PROVE call' \in [Calls -> Call]
  <2>0. call[c] \in Call
    BY <1>0
  <2>1. CASE Return(c)
    BY <1>0, <2>1 DEF Return
  <2>2. ASSUME NEW pc \in CallStep, GoTo(c, pc) PROVE call' \in [Calls -> Call]
    <3>1. [call[c] EXCEPT !.pc = pc] \in Call
      BY <2>0 DEF Call
    <3> QED BY <1>0, <2>2, <3>1 DEF GoTo
  <2>3. CASE AcceptOthers(c)
    <3>1. PICK ds \in SUBSET Drivers :
            call' = [call EXCEPT ![c].pc = "acceptTx", ![c].unschedule = ds]
      BY <2>3 DEF AcceptOthers, ReadsStayTrue, Knows
    <3>2. [call[c] EXCEPT !.pc = "acceptTx", !.unschedule = ds] \in Call
      BY <2>0 DEF Call, CallStep
    <3> QED BY <1>0, <3>1, <3>2
  <2>4. ASSUME NEW d \in Drivers, AcceptUnschedule(c, d) PROVE call' \in [Calls -> Call]
    <3>1. [call[c] EXCEPT !.unschedule = @ \ {d}] \in Call
      BY <2>0 DEF Call
    <3> QED BY <1>0, <2>4, <3>1 DEF AcceptUnschedule
  <2>5. CASE CompleteCommit(c)
    <3>1. trip[call[c].r].driverId \in Drivers \cup {None}
      BY <2>5, RowTypes DEF CompleteCommit, ReadsStayTrue, Knows, TypeOK, Trip
    <3>2. [call[c] EXCEPT !.pc = "completeEmit", !.d = trip[call[c].r].driverId] \in Call
      BY <2>0, <3>1 DEF Call, CallStep
    <3> QED BY <1>0, <2>5, <3>2 DEF CompleteCommit
  <2> QED BY <1>3, <2>1, <2>2, <2>3, <2>4, <2>5
          DEF HandlerContinues, SubmitUpsert, SubmitUnschedule, SubmitSchedule, AcceptCommit,
              AcceptRollback, AcceptEmit, CancelCommit, StartCommit, CompleteEmit,
              OfflineSchedule, CallStep
<1>4. ASSUME NEW c \in Calls, Abort(c) PROVE call' \in [Calls -> Call]
  BY <1>0, <1>4 DEF Abort, Return
<1>5. CASE Crash
  BY <1>0, <1>5 DEF Crash
<1> QED BY <1>1, <1>2, <1>3, <1>4, <1>5
        DEF Next, WorkerContinues, vars, process, Create, SetOnlineStatus, DelayElapses, Take,
            StalledCheck, ProcessRead, ProcessUpdate, ProcessFinish, ProcessFail

(* Jobs stay jobs, and the worker's job stays active while it is held. *)
LEMMA JobTypes ==
  TypeOK /\ WorkerHoldsActiveJob /\ [Next]_vars =>
    job' \in [JobIds -> Job] /\ worker' \in Worker /\ WorkerHoldsActiveJob'
<1> SUFFICES ASSUME TypeOK, WorkerHoldsActiveJob, [Next]_vars
             PROVE  job' \in [JobIds -> Job] /\ worker' \in Worker /\ WorkerHoldsActiveJob'
  OBVIOUS
<1>0. /\ job \in [JobIds -> Job] /\ worker \in Worker
      /\ worker.pc # "idle" => worker \in [pc: {"read", "update", "finish"}, job: JobIds]
  BY DEF TypeOK, Worker, IdleWorker
<1>1. CASE UNCHANGED <<job, worker>>
  BY <1>0, <1>1 DEF WorkerHoldsActiveJob
<1>2. ASSUME NEW j, worker' = worker,
             job' = [job EXCEPT ![j] = Added(@)] \/ job' = [job EXCEPT ![j] = Removed(@)]
      PROVE  job' \in [JobIds -> Job] /\ worker' \in Worker /\ WorkerHoldsActiveJob'
  <2>1. job' \in [JobIds -> Job]
    BY <1>0, <1>2, QueueTypes
  <2>2. \A k \in JobIds : job[k].state = "active" => job'[k].state = "active"
    BY <1>0, <1>2 DEF Added, Removed, Job
  <2> QED BY <1>0, <1>2, <2>1, <2>2 DEF WorkerHoldsActiveJob
<1>3. ASSUME NEW j \in JobIds, DelayElapses(j)
      PROVE  job' \in [JobIds -> Job] /\ worker' \in Worker /\ WorkerHoldsActiveJob'
  BY <1>0, <1>3, QueueTypes DEF DelayElapses, Due, WorkerHoldsActiveJob
<1>4. ASSUME NEW j \in JobIds, Take(j)
      PROVE  job' \in [JobIds -> Job] /\ worker' \in Worker /\ WorkerHoldsActiveJob'
  <2>1. job' = [job EXCEPT ![j] = Taken(job[j])] /\ job[j] \in Job /\ Taken(job[j]) \in Job
    BY <1>0, <1>4, QueueTypes DEF Take
  <2>2. Taken(job[j]).state = "active"
    BY <2>1 DEF Taken, Job
  <2>3. worker' = [pc |-> "read", job |-> j] /\ worker' \in Worker
    BY <1>4 DEF Take, Worker
  <2> QED BY <1>0, <2>1, <2>2, <2>3 DEF WorkerHoldsActiveJob
<1>5. ASSUME NEW j \in JobIds, StalledCheck(j)
      PROVE  job' \in [JobIds -> Job] /\ worker' \in Worker /\ WorkerHoldsActiveJob'
  BY <1>0, <1>5, QueueTypes DEF StalledCheck, WorkerHoldsActiveJob
<1>6. CASE ProcessRead \/ ProcessUpdate
  <2>1. job' = job
    BY <1>6 DEF ProcessRead, ProcessUpdate
  <2>2. worker' \in Worker /\ worker'.job = worker.job /\ worker.pc # "idle"
    BY <1>0, <1>6 DEF ProcessRead, ProcessUpdate, Worker
  <2> QED BY <1>0, <2>1, <2>2 DEF WorkerHoldsActiveJob
<1>7. CASE ProcessFinish \/ ProcessFail
  <2>1. worker' = IdleWorker /\ IdleWorker \in Worker /\ IdleWorker.pc = "idle"
    BY <1>7 DEF ProcessFinish, ProcessFail, Worker, IdleWorker
  <2>2. worker.job \in JobIds /\ job[worker.job].state = "active" /\ job[worker.job] \in Job
    BY <1>0, <1>7 DEF ProcessFinish, ProcessFail, WorkerHoldsActiveJob
  <2>3. CompletedJob(job[worker.job]) \in Job /\ FailedAttempt(job[worker.job]) \in Job
    BY <2>2, QueueTypes
  <2>4. job' \in [JobIds -> Job]
    BY <1>0, <1>7, <2>3 DEF ProcessFinish, ProcessFail
  <2> QED BY <2>1, <2>4 DEF WorkerHoldsActiveJob
<1>8. CASE Crash
  BY <1>0, <1>8 DEF Crash, Worker, IdleWorker, WorkerHoldsActiveJob
<1>9. ASSUME NEW c \in Calls, HandlerBegins(c) \/ HandlerContinues(c) \/ Abort(c)
      PROVE  \/ UNCHANGED <<job, worker>>
             \/ \E j : /\ worker' = worker
                      /\ \/ job' = [job EXCEPT ![j] = Added(@)]
                         \/ job' = [job EXCEPT ![j] = Removed(@)]
  BY <1>9 DEF HandlerBegins, TripRoutes, SubmitRead, AcceptRead, StartRead, CompleteRead, CancelRead,
     GoOffline, Abort, HandlerContinues, SubmitUpsert, SubmitUnschedule, SubmitSchedule,
     AcceptOthers, AcceptCommit, AcceptRollback, AcceptUnschedule, AcceptEmit, CancelCommit,
     StartCommit, CompleteCommit, CompleteEmit, OfflineSchedule
<1> QED BY <1>1, <1>2, <1>3, <1>4, <1>5, <1>6, <1>7, <1>8, <1>9
        DEF Next, WorkerContinues, vars, process, Create, SetOnlineStatus

----------------------------------------------------------------------------
(* What a handler knows, it still knows after a step of the tables. *)
LEMMA KnowledgeLasts ==
  ASSUME StoreGrows, NEW h, Knows(h)
  PROVE  Knows(h)'
  BY DEF StoreGrows, Knows, HasTrip

(* Whatever the step, every handler in flight still knows what it relies on. *)
LEMMA ReadsPreserved == Inv /\ [Next]_vars => ReadsStayTrue'
<1> SUFFICES ASSUME Inv, [Next]_vars, NEW c \in Calls PROVE Knows(call[c])'
  BY DEF ReadsStayTrue
<1>0. StoreGrows /\ StoreStep
  BY NextIsStoreStep, StoreOnlyGrows DEF Inv, StoreInv
<1>1. call \in [Calls -> Call] /\ call[c] \in Call /\ Knows(call[c])
  BY DEF Inv, TypeOK, ReadsStayTrue
<1>2. CASE call'[c] = call[c]
  BY <1>0, <1>1, <1>2, KnowledgeLasts DEF Knows, HasTrip
<1>3. CASE call'[c] = IdleCall
  BY <1>3 DEF Knows, IdleCall
<1>4. CASE HandlerBegins(c)
  <2>1. ASSUME NEW r \in Requests, NEW d \in Drivers, NEW fare \in Fares, SubmitRead(c, r, d, fare)
        PROVE  Knows(call[c])'
    BY <1>1, <2>1 DEF SubmitRead, Begin, Knows, IdleCall
  <2>2. ASSUME NEW r \in Requests, NEW d \in Drivers, NEW u \in Users, AcceptRead(c, r, d, u)
        PROVE  Knows(call[c])'
    <3>1. /\ call'[c].pc = "acceptOthers" /\ call'[c].r = r /\ call'[c].d = d /\ call'[c].u = u
          /\ rideRequest' = rideRequest /\ rideOffer' = rideOffer
      BY <1>1, <2>2 DEF AcceptRead, Begin, IdleCall, store
    <3> QED BY <2>2, <3>1 DEF AcceptRead, Knows
  <2>3. ASSUME NEW r \in Requests, NEW u \in Users, CancelRead(c, r, u)
        PROVE  Knows(call[c])'
    <3>1. /\ call'[c].pc = "cancelTx" /\ call'[c].r = r /\ call'[c].sawTrip = HasTrip(r)
          /\ rideRequest' = rideRequest /\ trip' = trip
      BY <1>1, <2>3 DEF CancelRead, Begin, IdleCall, store
    <3> QED BY <2>3, <3>1 DEF CancelRead, Knows, HasTrip
  <2>4. ASSUME NEW r \in Requests, NEW d \in Drivers, StartRead(c, r, d) \/ CompleteRead(c, r, d)
        PROVE  Knows(call[c])'
    <3>1. /\ call'[c].pc \in {"startTx", "completeTx"} /\ call'[c].r = r
          /\ trip' = trip /\ HasTrip(r)
      BY <1>1, <2>4 DEF StartRead, CompleteRead, FindOwnedByDriver, Begin, IdleCall, store
    <3> QED BY <3>1 DEF Knows, HasTrip
  <2>5. ASSUME NEW d \in Leavers, GoOffline(c, d)
        PROVE  Knows(call[c])'
    BY <1>1, <2>5, NegotiationAssumption DEF GoOffline, Begin, Knows, IdleCall
  <2> QED BY <1>4, <2>1, <2>2, <2>3, <2>4, <2>5 DEF HandlerBegins, TripRoutes
<1>5. CASE HandlerContinues(c)
  <2>1. CASE \E pc \in {"submitUnschedule", "submitSchedule"} :
               GoTo(c, pc) /\ call[c].pc \in {"submitUpsert", "submitUnschedule"}
    BY <1>1, <2>1 DEF GoTo, Call, Knows
  <2>2. CASE AcceptOthers(c)
    <3>1. /\ call'[c].pc = "acceptTx" /\ call[c].pc = "acceptOthers"
          /\ call'[c].r = call[c].r /\ call'[c].d = call[c].d /\ call'[c].u = call[c].u
      BY <1>1, <2>2 DEF AcceptOthers, Call
    <3> QED BY <1>0, <1>1, <3>1 DEF Knows, StoreGrows
  <2>3. CASE AcceptCommit(c)
    <3>1. /\ call'[c].pc = "acceptUnschedule" /\ call[c].pc = "acceptTx"
          /\ call'[c].r = call[c].r /\ call'[c].d = call[c].d /\ call'[c].u = call[c].u
      BY <1>1, <2>3 DEF AcceptCommit, GoTo, Call
    <3>2. call[c].r \in Requests
      BY <1>1, <3>1 DEF Knows
    <3>3. trip'[call[c].r] = [status |-> "MATCHED", driverId |-> call[c].d,
                              riderId |-> call[c].u, agreedFare |-> call[c].fare]
      BY <2>3, <3>2 DEF AcceptCommit, AcceptTransaction, Inv, StoreInv, StoreTypeOK
    <3> QED BY <1>0, <1>1, <3>1, <3>3 DEF Knows, StoreGrows, HasTrip
  <2>4. ASSUME NEW d \in Drivers, AcceptUnschedule(c, d) PROVE Knows(call[c])'
    <3>1. /\ call'[c].pc = "acceptUnschedule" /\ call[c].pc = "acceptUnschedule"
          /\ call'[c].r = call[c].r /\ call'[c].d = call[c].d /\ call'[c].u = call[c].u
      BY <1>1, <2>4 DEF AcceptUnschedule, Call
    <3> QED BY <1>0, <1>1, <3>1 DEF Knows, StoreGrows, HasTrip
  <2>5. CASE CompleteCommit(c)
    <3>1. /\ call[c].pc = "completeTx"
          /\ call'[c].pc = "completeEmit" /\ call'[c].d = trip[call[c].r].driverId
      BY <1>1, <2>5 DEF CompleteCommit, Call
    <3>2. trip[call[c].r].driverId \in Drivers
      BY <1>1, <3>1 DEF Knows, Inv, StoreInv, TripBetweenParties
    <3> QED BY <3>1, <3>2 DEF Knows
  <2>6. CASE Return(c)
    BY <1>1, <1>3, <2>6 DEF Return
  <2> QED BY <1>5, <2>1, <2>2, <2>3, <2>4, <2>5, <2>6
          DEF HandlerContinues, SubmitUpsert, SubmitUnschedule, SubmitSchedule, AcceptRollback,
              AcceptEmit, CancelCommit, StartCommit, CompleteEmit, OfflineSchedule
<1>6. CASE Abort(c) \/ Crash
  BY <1>1, <1>3, <1>6 DEF Abort, Return, Crash
<1>7. ASSUME NEW e \in Calls \ {c}, HandlerBegins(e) \/ HandlerContinues(e) \/ Abort(e)
      PROVE  call'[c] = call[c]
  BY <1>1, <1>7 DEF HandlerBegins, TripRoutes, SubmitRead, AcceptRead, StartRead, CompleteRead, CancelRead,
     GoOffline, Begin, Abort, HandlerContinues, SubmitUpsert, SubmitUnschedule, SubmitSchedule,
     AcceptOthers, AcceptCommit, AcceptRollback, AcceptUnschedule, AcceptEmit, CancelCommit,
     StartCommit, CompleteCommit, CompleteEmit, OfflineSchedule, GoTo, Return
<1> QED BY <1>2, <1>4, <1>5, <1>6, <1>7
        DEF Next, WorkerContinues, vars, process, Create, SetOnlineStatus, DelayElapses, Take,
            StalledCheck, ProcessRead, ProcessUpdate, ProcessFinish, ProcessFail

(* The map gains an entry only for a trip, and trips stay. *)
LEMMA RelayPreserved ==
  Inv /\ [Next]_vars =>
    /\ isOnline' \in [Drivers -> BOOLEAN]
    /\ activeTripRiderByDriver' \in [Drivers -> Users \cup {None}]
    /\ RelayToOwnRider'
<1> SUFFICES ASSUME Inv, [Next]_vars
             PROVE  /\ isOnline' \in [Drivers -> BOOLEAN]
                    /\ activeTripRiderByDriver' \in [Drivers -> Users \cup {None}]
                    /\ RelayToOwnRider'
  OBVIOUS
<1>0. StoreGrows /\ isOnline \in [Drivers -> BOOLEAN]
      /\ activeTripRiderByDriver \in [Drivers -> Users \cup {None}]
  BY NextIsStoreStep, StoreOnlyGrows DEF Inv, StoreInv, TypeOK
<1>1. \A r \in Requests, d \in Drivers, u \in Users :
        trip[r].driverId = d /\ trip[r].riderId = u =>
          trip'[r].driverId = d /\ trip'[r].riderId = u
  <2>1. \A r \in Requests, d \in Drivers : trip[r].driverId = d => HasTrip(r)
    BY StoreAssumption DEF Inv, StoreInv, AbsentTripIsNull
  <2> QED BY <1>0, <2>1 DEF StoreGrows
<1>2. ASSUME NEW c \in Calls, AcceptEmit(c)
      PROVE  /\ isOnline' \in [Drivers -> BOOLEAN]
             /\ activeTripRiderByDriver' \in [Drivers -> Users \cup {None}]
             /\ RelayToOwnRider'
  <2>1. /\ call[c].d \in Drivers /\ call[c].u \in Users /\ call[c].r \in Requests
        /\ trip[call[c].r].driverId = call[c].d /\ trip[call[c].r].riderId = call[c].u
    BY <1>2 DEF AcceptEmit, Inv, ReadsStayTrue, Knows
  <2> QED BY <1>0, <1>1, <1>2, <2>1 DEF AcceptEmit, HandleOfferAccepted, Inv, RelayToOwnRider
<1>3. ASSUME UNCHANGED isOnline \/ \E d \in Leavers, b \in BOOLEAN :
                                     isOnline' = [isOnline EXCEPT ![d] = b],
             \/ UNCHANGED activeTripRiderByDriver
             \/ \E d : activeTripRiderByDriver' = [activeTripRiderByDriver EXCEPT ![d] = None]
             \/ activeTripRiderByDriver' = [d \in Drivers |-> None]
      PROVE  /\ isOnline' \in [Drivers -> BOOLEAN]
             /\ activeTripRiderByDriver' \in [Drivers -> Users \cup {None}]
             /\ RelayToOwnRider'
  <2>1. isOnline' \in [Drivers -> BOOLEAN]
    BY <1>0, <1>3
  <2>2. activeTripRiderByDriver' \in [Drivers -> Users \cup {None}]
    BY <1>0, <1>3
  <2>3. \A d \in Drivers : \/ activeTripRiderByDriver'[d] = activeTripRiderByDriver[d]
                          \/ activeTripRiderByDriver'[d] = None
    BY <1>0, <1>3
  <2> QED BY <1>0, <1>1, <2>1, <2>2, <2>3 DEF Inv, RelayToOwnRider
<1>4. ASSUME NEW c \in Calls, HandlerBegins(c) \/ HandlerContinues(c) \/ Abort(c), ~ AcceptEmit(c)
      PROVE  /\ \/ UNCHANGED isOnline
                \/ \E d \in Leavers, b \in BOOLEAN : isOnline' = [isOnline EXCEPT ![d] = b]
             /\ \/ UNCHANGED activeTripRiderByDriver
                \/ \E d : activeTripRiderByDriver' = [activeTripRiderByDriver EXCEPT ![d] = None]
  BY <1>4 DEF HandlerBegins, TripRoutes, SubmitRead, AcceptRead, StartRead, CompleteRead, CancelRead,
     GoOffline, Abort, HandlerContinues, SubmitUpsert, SubmitUnschedule, SubmitSchedule,
     AcceptOthers, AcceptCommit, AcceptRollback, AcceptUnschedule, CancelCommit,
     StartCommit, CompleteCommit, CompleteEmit, OfflineSchedule, HandleTripCompleted,
     HandleRideRequestCancelled
<1> QED BY <1>2, <1>3, <1>4
        DEF Next, WorkerContinues, vars, process, Create, SetOnlineStatus, DelayElapses, Take,
            StalledCheck, ProcessRead, ProcessUpdate, ProcessFinish, ProcessFail, Crash

----------------------------------------------------------------------------
(* The invariant holds at first, when nothing is in flight ... *)
LEMMA InvInitially == Init => Inv
<1> SUFFICES ASSUME Init PROVE Inv
  OBVIOUS
<1>1. StoreInv
  BY StoreInitially DEF Init
<1>2. job \in [JobIds -> Job]
  BY QueueAssumption DEF Init, AbsentJob, Job, JobState
<1>3. call \in [Calls -> Call] /\ ReadsStayTrue
  BY DEF Init, IdleCall, Call, CallStep, ReadsStayTrue, Knows
<1>4. worker \in Worker /\ WorkerHoldsActiveJob
  BY DEF Init, Worker, IdleWorker, WorkerHoldsActiveJob
<1>5. /\ isOnline \in [Drivers -> BOOLEAN] /\ RelayToOwnRider
      /\ activeTripRiderByDriver \in [Drivers -> Users \cup {None}]
  BY DEF Init, RelayToOwnRider
<1> QED BY <1>1, <1>2, <1>3, <1>4, <1>5 DEF Inv, TypeOK, StoreInv

(* ... every step of the program keeps it ... *)
LEMMA InvPreserved == Inv /\ [Next]_vars => Inv'
<1> SUFFICES ASSUME Inv, [Next]_vars PROVE Inv'
  OBVIOUS
<1>1. StoreInv'
  BY NextIsStoreStep, StorePreserves DEF Inv
<1>2. call' \in [Calls -> Call]
  BY CallTypes DEF Inv
<1>3. job' \in [JobIds -> Job] /\ worker' \in Worker /\ WorkerHoldsActiveJob'
  BY JobTypes DEF Inv
<1>4. ReadsStayTrue'
  BY ReadsPreserved
<1>5. /\ isOnline' \in [Drivers -> BOOLEAN]
      /\ activeTripRiderByDriver' \in [Drivers -> Users \cup {None}]
      /\ RelayToOwnRider'
  BY RelayPreserved
<1> QED BY <1>1, <1>2, <1>3, <1>4, <1>5 DEF Inv, TypeOK, StoreInv

(* ... and so it holds always. *)
LEMMA Invariance == Spec => []Inv
<1> QED BY InvInitially, InvPreserved, PTL DEF Spec

(* Every variable keeps its type; in particular a job whose attempts are used  *)
(* up has failed and is not retried again.                                     *)
THEOREM TypeCorrect == Spec => []TypeOK
<1>1. Inv => TypeOK
  BY DEF Inv
<1> QED BY <1>1, Invariance, PTL

(* However many acceptOffer calls race, at most one offer of a request is      *)
(* accepted, and its driver is the driver of the trip.                         *)
THEOREM OneAcceptedOffer == Spec => []AcceptedOfferHasTrip
<1>1. Inv => AcceptedOfferHasTrip
  BY DEF Inv, StoreInv
<1> QED BY <1>1, Invariance, PTL

(* The statuses of a request and of its trip differ only by a cancellation. *)
THEOREM StatusesTrack == Spec => []RequestTracksTrip
<1>1. Inv => RequestTracksTrip
  BY DEF Inv, StoreInv
<1> QED BY <1>1, Invariance, PTL

(* A trip is between the rider of its request and a driver who bid for it. *)
THEOREM PartiesOfTrip == Spec => []TripBetweenParties
<1>1. Inv => TripBetweenParties
  BY DEF Inv, StoreInv
<1> QED BY <1>1, Invariance, PTL

(* The gateway relays the positions of a driver only to a rider of a trip of   *)
(* theirs.                                                                     *)
THEOREM RelaysToOwnRider == Spec => []RelayToOwnRider
<1>1. Inv => RelayToOwnRider
  BY DEF Inv
<1> QED BY <1>1, Invariance, PTL

(* What a handler read and relies on still holds when it writes. *)
THEOREM HandlersKnow == Spec => []ReadsStayTrue
<1>1. Inv => ReadsStayTrue
  BY DEF Inv
<1> QED BY <1>1, Invariance, PTL

(* The worker's job is taken from it by nobody. *)
THEOREM WorkerKeepsJob == Spec => []WorkerHoldsActiveJob
<1>1. Inv => WorkerHoldsActiveJob
  BY DEF Inv
<1> QED BY <1>1, Invariance, PTL

(* The driver, the rider and the fare of a trip never change. *)
THEOREM FinalDeal == Spec => DealIsFinal
<1>1. Inv /\ [Next]_vars => StoreGrows
  BY NextIsStoreStep, StoreOnlyGrows DEF Inv, StoreInv
<1>2. Inv /\ [Next]_vars =>
        [\A r \in Requests : HasTrip(r) =>
           /\ trip'[r].status # "ABSENT"
           /\ trip'[r].driverId = trip[r].driverId
           /\ trip'[r].riderId = trip[r].riderId
           /\ trip'[r].agreedFare = trip[r].agreedFare]_vars
  BY <1>1 DEF StoreGrows
<1> QED BY <1>2, Invariance, PTL DEF Spec, DealIsFinal

=============================================================================
