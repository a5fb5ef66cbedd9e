--------------------------- MODULE Presence_proofs ---------------------------
(***************************************************************************)
(* Proofs about Presence.                                                    *)
(***************************************************************************)
EXTENDS Presence, TLAPS

(* What a handler in flight is about. *)
Busy(k) ==
  /\ k.user \in Users
  /\ k.kind \in Kinds
  /\ k.pc # "idle"
  /\ k.pc = "mode" <=> k.kind = "drive"
  /\ k.pc \in {"match", "notify"} <=> k.kind = "ride"
  /\ k.kind = "location" => k.arg \in Places
  /\ k.kind = "status" => k.arg \in BOOLEAN
  /\ k.kind \in {"leave", "switch"} => k.arg = FALSE

CallsBusy == \A c \in Calls : call[c] = IdleCall \/ Busy(call[c])

(* What a lookup has learnt: a profile is never taken away. *)
Knows(k, P) ==
  /\ k.had => k.user \in P
  /\ k.found => k.user \in P
  /\ k.pc \in {"set", "write"} /\ k.had => k.found
  /\ k.pc = "emit" => k.found

CallsKnow == \A c \in Calls : Knows(call[c], profile)

CacheTrue == \A u \in Users : cached[u] = "identity" => u \in profile

RowsExist == \A u \in Users : isOnline[u] \/ place[u] # None => u \in profile

CallsOK == call \in [Calls -> Call] /\ CallsBusy /\ CallsKnow

Inv ==
  /\ StateTypes /\ CallsBusy /\ CallsKnow /\ CacheTrue /\ RowsExist
  /\ SubscriberIsConnected

----------------------------------------------------------------------------
LEMMA BeganBusy ==
  ASSUME NEW kind \in Kinds \ {"drive", "ride"}, NEW u \in Users, NEW arg,
         kind = "location" => arg \in Places,
         kind = "status" => arg \in BOOLEAN,
         kind \in {"leave", "switch"} => arg = FALSE
  PROVE  /\ Began(kind, u, arg) \in Call
         /\ Busy(Began(kind, u, arg))
         /\ Knows(Began(kind, u, arg), profile)
<1>1. arg \in Places \cup BOOLEAN \cup {None}
  BY DEF Kinds
<1>2. (u \in profile) \in BOOLEAN
  OBVIOUS
<1> DEFINE b == u \in profile
<1>3. /\ Began(kind, u, arg).pc = "get" /\ Began(kind, u, arg).kind = kind
      /\ Began(kind, u, arg).user = u /\ Began(kind, u, arg).arg = arg
      /\ Began(kind, u, arg).found = FALSE
  BY DEF Began, IdleCall
<1>4. Began(kind, u, arg).had = b
  BY DEF Began, IdleCall
<1>5. Began(kind, u, arg) \in Call
  BY <1>1, <1>2 DEF Began, IdleCall, Call
<1>6. Busy(Began(kind, u, arg))
  BY <1>3 DEF Busy, Kinds
<1>7. Knows(Began(kind, u, arg), profile)
  BY <1>3, <1>4, Zenon DEF Knows
<1> QED
  BY <1>5, <1>6, <1>7

LEMMA IdleKnows == IdleCall \in Call /\ \A P : Knows(IdleCall, P)
BY DEF IdleCall, Call, Knows

LEMMA IdleIs ==
  IdleCall.pc = "idle" /\ IdleCall.kind = None /\ IdleCall.user = None
BY DEF IdleCall

LEMMA InitInv == Init => Inv
<1> SUFFICES ASSUME Init PROVE Inv
  OBVIOUS
<1>1. StateTypes
  BY IdleKnows, PresenceAssumption DEF Init, StateTypes
<1>2. CallsBusy /\ CallsKnow
  BY IdleKnows DEF Init, CallsBusy, CallsKnow
<1>3. CacheTrue /\ RowsExist /\ SubscriberIsConnected
  BY DEF Init, CacheTrue, RowsExist, SubscriberIsConnected
<1> QED
  BY <1>1, <1>2, <1>3 DEF Inv

----------------------------------------------------------------------------
(* A step that leaves the handlers alone, or replaces one of them, keeps what *)
(* is known of all, since profiles are only added.                            *)
LEMMA CallsKept ==
  ASSUME CallsOK, profile \subseteq profile',
         \/ UNCHANGED call
         \/ \E c \in Calls, k \in Call :
               /\ call' = [call EXCEPT ![c] = k]
               /\ k = IdleCall \/ Busy(k)
               /\ Knows(k, profile)
  PROVE  CallsOK'
<1>1. \A k : Knows(k, profile) => Knows(k, profile')
  BY DEF Knows
<1>2. CASE UNCHANGED call
  BY <1>1, <1>2 DEF CallsOK, CallsBusy, CallsKnow
<1>3. CASE ~ UNCHANGED call
  <2>1. PICK c \in Calls, k \in Call :
               /\ call' = [call EXCEPT ![c] = k]
               /\ k = IdleCall \/ Busy(k)
               /\ Knows(k, profile)
    BY <1>3
  <2>2. call' \in [Calls -> Call]
    BY <2>1 DEF CallsOK
  <2>3. \A d \in Calls : call'[d] = IF d = c THEN k ELSE call[d]
    BY <2>1 DEF CallsOK
  <2>4. CallsBusy'
    BY <2>1, <2>3 DEF CallsOK, CallsBusy
  <2>5. CallsKnow'
    BY <1>1, <2>1, <2>3 DEF CallsOK, CallsKnow
  <2> QED
    BY <2>2, <2>4, <2>5 DEF CallsOK
<1> QED
  BY <1>2, <1>3

(* The part of the state that a step must keep besides the handlers. *)
Rest ==
  /\ StateTypes /\ CacheTrue /\ RowsExist /\ SubscriberIsConnected

LEMMA InvParts == Inv <=> CallsOK /\ Rest
BY DEF Inv, CallsOK, Rest, StateTypes

(* A handler begins or ends. *)
LEMMA BeginKeeps ==
  ASSUME CallsOK, UNCHANGED profile,
         NEW c \in Calls, NEW kind \in Kinds \ {"drive", "ride"}, NEW u \in Users, NEW arg,
         kind = "location" => arg \in Places,
         kind = "status" => arg \in BOOLEAN,
         kind \in {"leave", "switch"} => arg = FALSE,
         Begin(c, kind, u, arg)
  PROVE  CallsOK'
<1> DEFINE k == Began(kind, u, arg)
<1>1. k \in Call /\ Busy(k) /\ Knows(k, profile)
  BY BeganBusy
<1>2. call' = [call EXCEPT ![c] = k]
  BY DEF Begin
<1> HIDE DEF k
<1> QED
  BY <1>1, <1>2, CallsKept

LEMMA ReturnKeeps ==
  ASSUME CallsOK, UNCHANGED profile, NEW c \in Calls, Return(c)
  PROVE  CallsOK'
BY IdleKnows, CallsKept DEF Return

(* A handler goes on: only pc, found and row of its record change. *)
LEMMA GoOnKeeps ==
  ASSUME CallsOK, UNCHANGED profile, NEW c \in Calls, call[c] # IdleCall,
         NEW pc \in {"find", "set", "write", "emit"},
         call[c].pc \notin {"mode", "match", "notify"},
         NEW found \in BOOLEAN, NEW row \in Places \cup {None},
         found => call[c].user \in profile,
         pc \in {"set", "write"} /\ call[c].had => found,
         pc = "emit" => found,
         call' = [call EXCEPT ![c] = [call[c] EXCEPT !.pc = pc, !.found = found, !.row = row]]
  PROVE  CallsOK'
<1> DEFINE k == [call[c] EXCEPT !.pc = pc, !.found = found, !.row = row]
<1>1. call[c] \in Call /\ Busy(call[c]) /\ Knows(call[c], profile)
  BY DEF CallsOK, CallsBusy, CallsKnow
<1>2. k \in Call
  BY <1>1 DEF Call
<1>3. /\ k.pc = pc /\ k.found = found /\ k.user = call[c].user /\ k.kind = call[c].kind
      /\ k.arg = call[c].arg /\ k.had = call[c].had
  BY <1>1 DEF Call
<1> HIDE DEF k
<1>4. Busy(k)
  BY <1>1, <1>3 DEF Busy
<1>5. Knows(k, profile)
  BY <1>1, <1>3, Zenon DEF Knows
<1> QED
  BY <1>2, <1>4, <1>5, CallsKept DEF k

(* No step takes from a handler what it knows. *)
LEMMA StepCalls == ASSUME Inv, Next PROVE CallsOK'
<1> USE InvParts
<1>0. CallsOK
  OBVIOUS
<1>1. ASSUME NEW s \in Sockets, Message(s) PROVE CallsOK'
  <2>0. socketUser[s] # None => socketUser[s] \in Users
    BY DEF Rest, StateTypes
  <2>1. ASSUME NEW u \in Users, HandleConnection(s, u) PROVE CallsOK'
    BY <2>1, <1>0, CallsKept DEF HandleConnection, tables
  <2>2. CASE HandleDisconnect(s)
    <3>1. UNCHANGED profile
      BY <2>2 DEF HandleDisconnect, tables
    <3>2. CASE UNCHANGED call
      BY <3>1, <3>2, <1>0, CallsKept
    <3>3. CASE \E c \in Calls : Begin(c, "leave", socketUser[s], FALSE)
      BY <2>0, <2>2, <3>1, <3>3, <1>0, BeginKeeps DEF HandleDisconnect, Kinds
    <3> QED
      BY <2>2, <3>2, <3>3 DEF HandleDisconnect
  <2>3. ASSUME NEW v \in Viewports, OnTrackSubscribe(s, v) PROVE CallsOK'
    BY <2>3, <1>0, CallsKept DEF OnTrackSubscribe, tables
  <2>4. CASE OnTrackUnsubscribe(s)
    BY <2>4, <1>0, CallsKept DEF OnTrackUnsubscribe, tables
  <2>5. ASSUME NEW c \in Calls, NEW p \in Places, OnLocationUpdate(c, s, p) PROVE CallsOK'
    <3>1. UNCHANGED profile
      BY <2>5 DEF OnLocationUpdate, tables
    <3>2. CASE UNCHANGED call
      BY <3>1, <3>2, <1>0, CallsKept
    <3>3. CASE Begin(c, "location", socketUser[s], p)
      BY <2>0, <2>5, <3>1, <3>3, <1>0, BeginKeeps DEF OnLocationUpdate, Kinds
    <3> QED
      BY <2>5, <3>2, <3>3 DEF OnLocationUpdate
  <2>6. CASE OnOfferSubmit(s) \/ OnOfferAccept(s)
    BY <2>6, <1>0, CallsKept DEF OnOfferSubmit, OnOfferAccept, tables
  <2> QED
    BY <1>1, <2>1, <2>2, <2>3, <2>4, <2>5, <2>6 DEF Message
<1>2. ASSUME NEW c \in Calls, NEW u \in Users, Request(c, u) PROVE CallsOK'
  <2>1. ASSUME NEW online \in BOOLEAN, UpdateStatus(c, u, online) PROVE CallsOK'
    BY <2>1, <1>0, BeginKeeps DEF UpdateStatus, tables, Kinds
  <2>2. ASSUME NEW p \in Places, UpdateLocation(c, u, p) PROVE CallsOK'
    BY <2>2, <1>0, BeginKeeps DEF UpdateLocation, tables, Kinds
  <2>3. CASE SwitchToDriver(c, u)
    <3> DEFINE k == [Began("drive", u, None) EXCEPT !.pc = "mode"]
    <3>0. (u \in profile) \in BOOLEAN
      OBVIOUS
    <3>1. k \in Call
      BY <3>0 DEF Began, IdleCall, Call, Kinds
    <3>2. k.user = u /\ k.found = FALSE /\ k.pc = "mode" /\ k.kind = "drive"
      BY DEF Began, IdleCall
    <3>3. UNCHANGED profile /\ u \in profile /\ call' = [call EXCEPT ![c] = k]
      BY <2>3 DEF SwitchToDriver, tables
    <3> HIDE DEF k
    <3>4. Knows(k, profile) /\ Busy(k)
      BY <3>2, <3>3 DEF Knows, Busy, Kinds
    <3> QED
      BY <3>1, <3>3, <3>4, <1>0, CallsKept
  <2>4. CASE SwitchToRider(c, u)
    BY <2>4, <1>0, BeginKeeps DEF SwitchToRider, Kinds
  <2>5. CASE CreateRide(c, u)
    <3> DEFINE b == u \in profile
               k == [Began("ride", u, None) EXCEPT !.pc = "match"]
    <3>0. (u \in profile) \in BOOLEAN
      OBVIOUS
    <3>1. k \in Call
      BY <3>0 DEF Began, IdleCall, Call, Kinds
    <3>2. k.user = u /\ k.found = FALSE /\ k.pc = "match" /\ k.kind = "ride"
      BY DEF Began, IdleCall
    <3>3. k.had = b
      BY DEF Began, IdleCall
    <3>4. UNCHANGED profile /\ call' = [call EXCEPT ![c] = k]
      BY <2>5 DEF CreateRide, tables
    <3> HIDE DEF k
    <3>5. Busy(k)
      BY <3>2 DEF Busy, Kinds
    <3>6. Knows(k, profile)
      BY <3>2, <3>3, Zenon DEF Knows
    <3> QED
      BY <3>1, <3>4, <3>5, <3>6, <1>0, CallsKept
  <2> QED
    BY <1>2, <2>1, <2>2, <2>3, <2>4, <2>5 DEF Request
<1>3. ASSUME NEW c \in Calls, Continue(c) PROVE CallsOK'
  <2>0. call[c] \in Call /\ Knows(call[c], profile) /\ (call[c] # IdleCall => Busy(call[c]))
    BY <1>0 DEF CallsOK, CallsBusy, CallsKnow
  <2>1. CASE CacheGet(c)
    <3> DEFINE hit == cached[call[c].user] = "identity"
    <3>1. /\ UNCHANGED profile /\ call[c] # IdleCall /\ call[c].pc \notin {"mode", "match", "notify"}
      BY <2>1, IdleIs DEF CacheGet, tables
    <3>2. hit \in BOOLEAN /\ (hit => call[c].user \in profile)
      BY <2>0, <3>1 DEF Busy, Rest, CacheTrue
    <3>3. call' = [call EXCEPT ![c] = [call[c] EXCEPT
                     !.pc = IF hit THEN "write" ELSE "find", !.found = hit, !.row = call[c].row]]
      BY <2>0, <2>1, <1>0 DEF CacheGet, CallsOK, Call
    <3> HIDE DEF hit
    <3> QED
      BY <2>0, <3>1, <3>2, <3>3, <1>0, GoOnKeeps DEF Call
  <2>2. CASE CacheFind(c)
    <3> DEFINE found == call[c].user \in profile
    <3>1. /\ UNCHANGED profile /\ call[c] # IdleCall /\ call[c].pc \notin {"mode", "match", "notify"}
      BY <2>2, IdleIs DEF CacheFind, tables
    <3>2. found \in BOOLEAN /\ (call[c].had => found)
      BY <2>0 DEF Knows
    <3>3. call' = [call EXCEPT ![c] = [call[c] EXCEPT
                     !.pc = "set", !.found = found, !.row = call[c].row]]
      BY <2>0, <2>2, <1>0 DEF CacheFind, CallsOK, Call
    <3>4. found => call[c].user \in profile
      OBVIOUS
    <3> HIDE DEF found
    <3> QED
      BY <2>0, <3>1, <3>2, <3>3, <3>4, <1>0, GoOnKeeps DEF Call
  <2>3. CASE CacheSet(c)
    <3>1. /\ UNCHANGED profile /\ call[c] # IdleCall /\ call[c].pc = "set"
      BY <2>3, IdleIs DEF CacheSet, tables
    <3>2. call' = [call EXCEPT ![c] = [call[c] EXCEPT
                     !.pc = "write", !.found = call[c].found, !.row = call[c].row]]
      BY <2>0, <2>3, <1>0 DEF CacheSet, CallsOK, Call
    <3> QED
      BY <2>0, <3>1, <3>2, <1>0, GoOnKeeps DEF Call, Knows
  <2>4. CASE NotFound(c)
    BY <2>4, <1>0, ReturnKeeps DEF NotFound, tables
  <2>5. CASE WriteMode(c)
    BY <2>5, <1>0, ReturnKeeps DEF WriteMode
  <2>6. CASE Write(c)
    <3>1. /\ UNCHANGED profile /\ call[c] # IdleCall /\ call[c].pc = "write" /\ call[c].found
      BY <2>6, IdleIs DEF Write, tables
    <3>2. place'[call[c].user] \in Places \cup {None}
      BY <2>0, <2>6, <3>1 DEF Write, Rest, StateTypes, Busy
    <3>3. call' = [call EXCEPT ![c] = [call[c] EXCEPT
                     !.pc = "emit", !.found = call[c].found, !.row = place'[call[c].user]]]
      BY <2>0, <2>6, <1>0 DEF Write, CallsOK, Call
    <3> QED
      BY <2>0, <3>1, <3>2, <3>3, <1>0, GoOnKeeps DEF Call, Knows
  <2>7. CASE Emit(c)
    BY <2>7, <1>0, ReturnKeeps DEF Emit, tables
  <2>8. CASE Abort(c)
    BY <2>8, <1>0, ReturnKeeps DEF Abort, tables
  <2>9. ASSUME NEW v \in Viewports, Match(c, v) PROVE CallsOK'
    <3> DEFINE k == [call[c] EXCEPT !.pc = "notify", !.targets = FindNearbyDrivers(v)]
    <3>1. /\ UNCHANGED profile /\ call[c] # IdleCall /\ call[c].pc = "match"
      BY <2>9, IdleIs DEF Match, tables
    <3>2. call' = [call EXCEPT ![c] = k]
      BY <2>0, <2>9, <1>0 DEF Match, CallsOK, Call
    <3>3. FindNearbyDrivers(v) \in SUBSET Users
      BY DEF FindNearbyDrivers
    <3>4. k \in Call
      BY <2>0, <3>3 DEF Call
    <3>5. /\ k.pc = "notify" /\ k.found = call[c].found /\ k.user = call[c].user
          /\ k.kind = call[c].kind /\ k.arg = call[c].arg /\ k.had = call[c].had
      BY <2>0 DEF Call
    <3> HIDE DEF k
    <3>6. Busy(k)
      BY <2>0, <3>1, <3>5 DEF Busy
    <3>7. Knows(k, profile)
      BY <2>0, <3>5, Zenon DEF Knows
    <3> QED
      BY <3>1, <3>2, <3>4, <3>6, <3>7, <1>0, CallsKept
  <2>10. CASE HandleRideRequestCreated(c)
    BY <2>10, <1>0, ReturnKeeps DEF HandleRideRequestCreated, tables
  <2> QED
    BY <1>3, <2>1, <2>2, <2>3, <2>4, <2>5, <2>6, <2>7, <2>8, <2>9, <2>10 DEF Continue
<1>4. ASSUME NEW u \in Users, Approve(u) \/ CacheExpires(u) PROVE CallsOK'
  BY <1>4, <1>0, CallsKept DEF Approve, CacheExpires, tables
<1>5. CASE Tick
  BY <1>5, <1>0, CallsKept DEF Tick, tables
<1>6. CASE Crash
  <2>1. call' = [c \in Calls |-> IdleCall]
    BY <1>6 DEF Crash
  <2> QED
    BY <2>1, IdleKnows DEF CallsOK, CallsBusy, CallsKnow
<1> QED
  BY <1>1, <1>2, <1>3, <1>4, <1>5, <1>6 DEF Next

(* A failure is recorded of a user's location report or switch. *)
LEMMA FailedTypes ==
  ASSUME Inv, NEW C \in SUBSET Calls
  PROVE  FailedWith(C) \subseteq {"location", "switch"} \X Users
<1>1. ASSUME NEW c \in C, HalfDone(call[c])
      PROVE  <<call[c].kind, call[c].user>> \in {"location", "switch"} \X Users
  <2>1. call[c] # IdleCall
    BY <1>1, IdleIs, PresenceAssumption DEF HalfDone, Kinds
  <2> QED
    BY <1>1, <2>1 DEF HalfDone, Inv, CallsBusy, Busy
<1> QED
  BY <1>1 DEF FailedWith, Inv, StateTypes

(* The rest of the invariant, step by step. *)
LEMMA StepRest == ASSUME Inv, Next, CallsOK' PROVE Rest'
<1> USE PresenceAssumption
<1>0. Rest /\ CallsOK /\ call' \in [Calls -> Call]
  BY InvParts DEF CallsOK
<1>1. ASSUME NEW s \in Sockets, Message(s) PROVE Rest'
  <2>0. socketUser[s] # None => socketUser[s] \in Users
    BY <1>0 DEF Rest, StateTypes
  <2>1. ASSUME NEW u \in Users, HandleConnection(s, u) PROVE Rest'
    <3>1. StateTypes' /\ CacheTrue' /\ RowsExist'
      BY <2>1, <1>0 DEF HandleConnection, tables, Rest, StateTypes, CacheTrue, RowsExist
    <3>2. SubscriberIsConnected'
      BY <2>1, <1>0 DEF HandleConnection, Rest, StateTypes, SubscriberIsConnected, Connected
    <3> QED
      BY <3>1, <3>2 DEF Rest
  <2>2. CASE HandleDisconnect(s)
    <3>1. StateTypes' /\ CacheTrue' /\ RowsExist'
      BY <2>0, <2>2, <1>0
         DEF HandleDisconnect, Track, tables, Rest, StateTypes, CacheTrue, RowsExist
    <3>2. SubscriberIsConnected'
      BY <2>0, <2>2, <1>0
         DEF HandleDisconnect, Track, Rest, StateTypes, SubscriberIsConnected, Connected
    <3> QED
      BY <3>1, <3>2 DEF Rest
  <2>3. ASSUME NEW v \in Viewports, OnTrackSubscribe(s, v) PROVE Rest'
    <3>1. StateTypes' /\ CacheTrue' /\ RowsExist'
      BY <2>0, <2>3, <1>0
         DEF OnTrackSubscribe, Track, tables, Rest, StateTypes, CacheTrue, RowsExist
    <3>2. SubscriberIsConnected'
      BY <2>0, <2>3, <1>0
         DEF OnTrackSubscribe, Track, Rest, StateTypes, SubscriberIsConnected, Connected
    <3> QED
      BY <3>1, <3>2 DEF Rest
  <2>4. CASE OnTrackUnsubscribe(s)
    <3>1. StateTypes' /\ CacheTrue' /\ RowsExist'
      BY <2>0, <2>4, <1>0
         DEF OnTrackUnsubscribe, Track, tables, Rest, StateTypes, CacheTrue, RowsExist
    <3>2. SubscriberIsConnected'
      BY <2>0, <2>4, <1>0
         DEF OnTrackUnsubscribe, Track, Rest, StateTypes, SubscriberIsConnected, Connected
    <3> QED
      BY <3>1, <3>2 DEF Rest
  <2>5. ASSUME NEW c \in Calls, NEW p \in Places, OnLocationUpdate(c, s, p) PROVE Rest'
    BY <2>5, <1>0 DEF OnLocationUpdate, tables, Rest, StateTypes, CacheTrue, RowsExist,
       SubscriberIsConnected, Connected
  <2>6. CASE OnOfferSubmit(s) \/ OnOfferAccept(s)
    BY <2>6, <1>0 DEF OnOfferSubmit, OnOfferAccept, tables, Rest, StateTypes, CacheTrue,
       RowsExist, SubscriberIsConnected, Connected
  <2> QED
    BY <1>1, <2>1, <2>2, <2>3, <2>4, <2>5, <2>6 DEF Message
<1>2. ASSUME NEW c \in Calls, NEW u \in Users, Request(c, u) PROVE Rest'
  <2>1. UNCHANGED <<gateway, now, profile, isOnline, place, cached, pins, failed>>
    BY <1>2 DEF Request, UpdateStatus, UpdateLocation, SwitchToDriver, SwitchToRider,
       CreateRide, tables
  <2>2. activeProfile' \in [Users -> {"RIDER", "DRIVER"}]
    BY <1>2, <1>0 DEF Request, UpdateStatus, UpdateLocation, SwitchToDriver, SwitchToRider,
       CreateRide, tables, Rest, StateTypes
  <2> QED
    BY <2>1, <2>2, <1>0 DEF gateway, Rest, StateTypes, CacheTrue, RowsExist,
       SubscriberIsConnected, Connected
<1>3. ASSUME NEW c \in Calls, Continue(c) PROVE Rest'
  <2>0. /\ call[c] \in Call /\ Knows(call[c], profile)
        /\ call[c].pc # "idle" => Busy(call[c])
    BY <1>0, IdleIs DEF CallsOK, CallsBusy, CallsKnow
  <2>1. CASE CacheGet(c) \/ CacheFind(c) \/ NotFound(c)
    BY <2>1, <1>0 DEF CacheGet, CacheFind, NotFound, gateway, tables, Rest, StateTypes,
       CacheTrue, RowsExist, SubscriberIsConnected, Connected
  <2>2. CASE CacheSet(c)
    <3>1. call[c].user \in Users /\ (call[c].found => call[c].user \in profile)
      BY <2>0, <2>2 DEF CacheSet, Busy, Knows
    <3>2. /\ cached' = [cached EXCEPT ![call[c].user] =
                           IF call[c].found THEN "identity" ELSE "null"]
          /\ UNCHANGED <<gateway, now, tables, pins, failed>>
      BY <2>2 DEF CacheSet
    <3>3. cached' \in [Users -> {"absent", "null", "identity"}] /\ CacheTrue'
      BY <3>1, <3>2, <1>0 DEF tables, Rest, StateTypes, CacheTrue
    <3> QED
      BY <3>2, <3>3, <1>0 DEF gateway, tables, Rest, StateTypes, RowsExist,
         SubscriberIsConnected, Connected
  <2>3. CASE WriteMode(c)
    BY <2>0, <2>3, <1>0 DEF WriteMode, Busy, gateway, Rest, StateTypes, CacheTrue, RowsExist,
       SubscriberIsConnected, Connected
  <2>4. CASE Write(c)
    <3>1. /\ call[c].user \in profile /\ call[c].user \in Users
          /\ IF call[c].kind = "location" THEN call[c].arg \in Places
                                          ELSE call[c].arg \in BOOLEAN
      BY <2>0, <2>4 DEF Write, Busy, Knows, Kinds
    <3>2. /\ isOnline' \in [Users -> BOOLEAN] /\ place' \in [Users -> Places \cup {None}]
          /\ RowsExist'
      BY <3>1, <2>4, <1>0 DEF Write, Rest, StateTypes, RowsExist
    <3> QED
      BY <2>4, <3>2, <1>0 DEF Write, gateway, Rest, StateTypes, CacheTrue,
         SubscriberIsConnected, Connected
  <2>5. CASE Emit(c)
    <3>1. call[c].user \in Users /\ (call[c].kind = "location" => call[c].arg \in Places)
      BY <2>0, <2>5 DEF Emit, Busy
    <3>2. pins' \in [Users -> SUBSET (Users \X Places)]
      BY <3>1, <2>5, <1>0 DEF Emit, HandleDriverLocationUpdated,
         HandleDriverOnlineStatusChanged, PinsOf, Rest, StateTypes
    <3>3. failed' \subseteq {"location", "switch"} \X Users
      BY <2>5, <1>0 DEF Emit, Rest, StateTypes
    <3> QED
      BY <2>5, <3>2, <3>3, <1>0 DEF Emit, gateway, tables, Rest, StateTypes, CacheTrue,
         RowsExist, SubscriberIsConnected, Connected
  <2>6. CASE Abort(c)
    <3>1. failed' \subseteq {"location", "switch"} \X Users
      BY <2>6, FailedTypes DEF Abort
    <3> QED
      BY <2>6, <3>1, <1>0 DEF Abort, gateway, tables, Rest, StateTypes, CacheTrue,
         RowsExist, SubscriberIsConnected, Connected
  <2>7. CASE (\E v \in Viewports : Match(c, v)) \/ HandleRideRequestCreated(c)
    BY <2>7, <1>0 DEF Match, HandleRideRequestCreated, gateway, tables, Rest, StateTypes,
       CacheTrue, RowsExist, SubscriberIsConnected, Connected
  <2> QED
    BY <1>3, <2>1, <2>2, <2>3, <2>4, <2>5, <2>6, <2>7 DEF Continue
<1>4. ASSUME NEW u \in Users, Approve(u) \/ CacheExpires(u) PROVE Rest'
  BY <1>4, <1>0 DEF Approve, CacheExpires, gateway, tables, Rest, StateTypes, CacheTrue,
     RowsExist, SubscriberIsConnected, Connected
<1>5. CASE Tick
  BY <1>5, <1>0 DEF Tick, gateway, tables, Rest, StateTypes, CacheTrue, RowsExist,
     SubscriberIsConnected, Connected
<1>6. CASE Crash
  <2>1. failed' \subseteq {"location", "switch"} \X Users
    BY <1>6, FailedTypes DEF Crash
  <2> QED
    BY <1>6, <2>1, <1>0 DEF Crash, tables, Rest, StateTypes, CacheTrue, RowsExist,
       SubscriberIsConnected, Connected
<1> QED
  BY <1>1, <1>2, <1>3, <1>4, <1>5, <1>6 DEF Next

LEMMA StepInv == Inv /\ [Next]_vars => Inv'
<1> SUFFICES ASSUME Inv, [Next]_vars PROVE Inv'
  OBVIOUS
<1>1. CASE Next
  <2>1. CallsOK'
    BY <1>1, StepCalls
  <2>2. Rest'
    BY <1>1, <2>1, StepRest
  <2> QED
    BY <2>1, <2>2 DEF Inv, CallsOK, Rest, StateTypes
<1>2. CASE UNCHANGED vars
  BY <1>2 DEF vars, gateway, tables, Inv, StateTypes, CallsBusy, CallsKnow, CacheTrue,
     RowsExist, SubscriberIsConnected, Connected
<1> QED
  BY <1>1, <1>2

(* Types, and everything the handlers and the cache are known to hold. *)
THEOREM PresenceInvariant == Spec => []Inv
<1> QED
  BY InitInv, StepInv, PTL DEF Spec

(* Map subscriptions are of connected users, for any number of users and     *)
(* sockets that open and close in any order, and across restarts.            *)
THEOREM SubscribersConnected == Spec => []SubscriberIsConnected
<1>1. Inv => SubscriberIsConnected
  BY DEF Inv
<1> QED
  BY <1>1, PresenceInvariant, PTL

(* No cached null hides a profile from a call that began after it was made,  *)
(* however many lookups store what they read in whatever order.              *)
THEOREM LookupsFresh == Spec => []LookupNotStale
<1>1. Inv => LookupNotStale
  BY DEF Inv, CallsKnow, Knows, LookupNotStale
<1> QED
  BY <1>1, PresenceInvariant, PTL

----------------------------------------------------------------------------
(* Requests that a user sends one at a time: a status request runs in driver  *)
(* mode, and while a switch to rider mode is under way nothing puts the user  *)
(* online.  A switch whose lookup finds nothing had no row to write.  A ride   *)
(* request runs in rider mode, so its query does not find its own user.       *)
Alone ==
  \A c, d \in Calls :
     /\ call[c].user = call[d].user /\ call[c].user # None
     /\ call[c].kind # "leave" /\ call[d].kind # "leave"
     => c = d

RequestOK(k) ==
  /\ k.kind = "status" => activeProfile[k.user] = "DRIVER"
  /\ k.kind = "switch" /\ (~ k.had \/ k.pc = "emit") => ~ isOnline[k.user]
  /\ k.kind = "ride" => activeProfile[k.user] = "RIDER"
  /\ k.pc = "notify" /\ k.user \in k.targets => <<"switch", k.user>> \in failed

RequestsOK == \A c \in Calls : RequestOK(call[c])

Modes == Alone /\ RequestsOK /\ RiderModeIsOffline

LEMMA InitModes == Init => Modes
<1> SUFFICES ASSUME Init PROVE Modes
  OBVIOUS
<1> QED
  BY IdleIs, PresenceAssumption
     DEF Init, Modes, Alone, RequestsOK, RequestOK, RiderModeIsOffline, Kinds

(* A handler begins; the mode is left alone or set to RIDER by a switch. *)
LEMMA BeginModes ==
  ASSUME Inv, Modes, NEW c \in Calls, NEW u \in Users, NEW k,
         k.user = u, k.kind \in Kinds, k.pc \notin {"emit", "notify"}, u \in profile => k.had,
         call[c] = IdleCall, call' = [call EXCEPT ![c] = k],
         k.kind = "leave" \/ \A d \in Calls : call[d].user = u => call[d].kind = "leave",
         k.kind = "status" => activeProfile[u] = "DRIVER",
         k.kind = "ride" => activeProfile[u] = "RIDER",
         \/ activeProfile' = activeProfile
         \/ k.kind = "switch" /\ activeProfile' = [activeProfile EXCEPT ![u] = "RIDER"],
         isOnline' = isOnline, failed' = failed
  PROVE  Modes'
<1> DEFINE kind == k.kind
<1>1. \A d \in Calls : call'[d] = IF d = c THEN k ELSE call[d]
  BY DEF Inv, StateTypes
<1>2. \A w \in Users : activeProfile'[w] = activeProfile[w] \/ (w = u /\ kind = "switch")
  BY DEF Inv, StateTypes
<1>3. \A d \in Calls : d # c /\ call[d].user = u /\ kind # "leave" => call[d].kind = "leave"
  OBVIOUS
<1>4. Alone'
  BY <1>1, <1>3 DEF Modes, Alone
<1>5. \A d \in Calls : call[d] = IdleCall \/ call[d].user \in Users
  BY DEF Inv, CallsBusy, Busy
<1>6. RequestsOK'
  <2> SUFFICES ASSUME NEW d \in Calls PROVE RequestOK(call[d])'
    BY DEF RequestsOK
  <2>1. CASE d = c
    BY <1>1, <1>2, <2>1 DEF RequestOK, Inv, RowsExist
  <2>2. CASE d # c
    BY <1>1, <1>2, <1>3, <1>5, <2>2, IdleIs, PresenceAssumption
       DEF RequestOK, Modes, RequestsOK, Kinds
  <2> QED
    BY <2>1, <2>2
<1>7. RiderModeIsOffline'
  <2> SUFFICES ASSUME NEW w \in Users, activeProfile'[w] = "RIDER", isOnline[w]
               PROVE  SwitchInFlight(w)' \/ <<"switch", w>> \in failed
    BY DEF RiderModeIsOffline
  <2>1. CASE w = u /\ kind = "switch"
    BY <1>1, <2>1 DEF SwitchInFlight
  <2>2. CASE activeProfile[w] = "RIDER"
    BY <1>1, <2>2, IdleIs, PresenceAssumption
       DEF SwitchInFlight, Modes, RiderModeIsOffline, Kinds
  <2> QED
    BY <1>2, <2>1, <2>2
<1> QED
  BY <1>4, <1>6, <1>7 DEF Modes

(* The lookup goes on. *)
LEMMA GoOnModes ==
  ASSUME Inv, Modes, NEW c \in Calls, NEW k,
         k.user = call[c].user, k.kind = call[c].kind, k.had = call[c].had, k.pc # "emit",
         call[c].pc # "emit",
         k.pc = "notify" /\ k.user \in k.targets => <<"switch", k.user>> \in failed,
         call' = [call EXCEPT ![c] = k],
         UNCHANGED <<isOnline, failed, activeProfile>>
  PROVE  Modes'
<1>1. \A d \in Calls : call'[d] = IF d = c THEN k ELSE call[d]
  BY DEF Inv, StateTypes
<1>2. Alone'
  BY <1>1 DEF Modes, Alone
<1>3. RequestsOK'
  BY <1>1 DEF Modes, RequestsOK, RequestOK
<1>4. RiderModeIsOffline'
  BY <1>1 DEF Modes, RiderModeIsOffline, SwitchInFlight
<1> QED
  BY <1>2, <1>3, <1>4 DEF Modes

(* A handler ends: if it was a switch, its user is offline or it failed. *)
LEMMA ReturnModes ==
  ASSUME Inv, Modes, NEW c \in Calls, Return(c),
         UNCHANGED isOnline,
         \A w \in Users : \/ activeProfile'[w] = activeProfile[w]
                          \/ /\ w = call[c].user /\ call[c].kind = "drive"
                             /\ activeProfile'[w] = "DRIVER",
         \A w \in Users : \/ <<"switch", w>> \in failed => <<"switch", w>> \in failed'
                          \/ /\ w = call[c].user /\ call[c].kind = "switch"
                             /\ ~ isOnline[w],
         \/ call[c].kind # "switch"
         \/ ~ isOnline[call[c].user]
         \/ <<"switch", call[c].user>> \in failed'
  PROVE  Modes'
<1>1. \A d \in Calls : call'[d] = IF d = c THEN IdleCall ELSE call[d]
  BY DEF Return, Inv, StateTypes
<1>2. Alone'
  BY <1>1, IdleIs DEF Modes, Alone
<1>3. \A d \in Calls : call[d] = IdleCall \/ call[d].user \in Users
  BY DEF Inv, CallsBusy, Busy
<1>4. RequestsOK'
  <2> SUFFICES ASSUME NEW d \in Calls PROVE RequestOK(call[d])'
    BY DEF RequestsOK
  <2>1. CASE call'[d] = IdleCall
    BY <2>1, IdleIs, PresenceAssumption DEF RequestOK, Kinds
  <2>2. CASE d # c /\ call[d] # IdleCall
    <3>1. call'[d] = call[d] /\ call[d].user \in Users /\ RequestOK(call[d])
      BY <1>1, <1>3, <2>2 DEF Modes, RequestsOK
    <3>2. call[d].user = call[c].user /\ call[d].kind # "leave" => call[c].kind = "leave"
      BY <2>2, <3>1, PresenceAssumption DEF Modes, Alone
    <3>3. call[d].pc = "notify" => call[d].kind = "ride"
      BY <2>2 DEF Inv, CallsBusy, Busy
    <3> QED
      BY <3>1, <3>2, <3>3 DEF RequestOK
  <2> QED
    BY <1>1, <2>1, <2>2
<1>5. RiderModeIsOffline'
  <2> SUFFICES ASSUME NEW w \in Users, activeProfile'[w] = "RIDER", isOnline[w]
               PROVE  SwitchInFlight(w)' \/ <<"switch", w>> \in failed'
    BY DEF RiderModeIsOffline
  <2>1. activeProfile[w] = "RIDER"
    OBVIOUS
  <2>2. SwitchInFlight(w) \/ <<"switch", w>> \in failed
    BY <2>1 DEF Modes, RiderModeIsOffline
  <2> QED
    BY <1>1, <2>2 DEF SwitchInFlight
<1> QED
  BY <1>2, <1>4, <1>5 DEF Modes

(* ... as the handlers do that start with the lookup. *)
LEMMA BeganModes ==
  ASSUME Inv, Modes, NEW c \in Calls, NEW u \in Users, NEW kind \in Kinds, NEW arg,
         Begin(c, kind, u, arg),
         kind = "leave" \/ \A d \in Calls : call[d].user = u => call[d].kind = "leave",
         kind = "status" => activeProfile[u] = "DRIVER", kind # "ride",
         \/ activeProfile' = activeProfile
         \/ kind = "switch" /\ activeProfile' = [activeProfile EXCEPT ![u] = "RIDER"],
         isOnline' = isOnline, failed' = failed
  PROVE  Modes'
<1> DEFINE k == Began(kind, u, arg)
<1>1. k.user = u /\ k.kind = kind /\ k.pc = "get" /\ (u \in profile => k.had)
  BY DEF Began, IdleCall
<1>2. call[c] = IdleCall /\ call' = [call EXCEPT ![c] = k]
  BY DEF Begin
<1> HIDE DEF k
<1> QED
  BY <1>1, <1>2, BeginModes

(* The update of a row: only a status request in driver mode puts a user      *)
(* online, and none runs beside a switch.                                     *)
LEMMA WriteModes == ASSUME Inv, Modes, NEW c \in Calls, Write(c) PROVE Modes'
<1> DEFINE u == call[c].user
<1>0. /\ call[c] \in Call /\ call[c].pc = "write" /\ call[c].found
      /\ Busy(call[c]) /\ u # None
  BY IdleIs, PresenceAssumption DEF Inv, StateTypes, CallsBusy, Busy, Write
<1>1. /\ \A d \in Calls : d # c => call'[d] = call[d]
      /\ call'[c].user = u /\ call'[c].kind = call[c].kind /\ call'[c].had = call[c].had
      /\ call'[c].pc = "emit"
  BY <1>0 DEF Write, Inv, StateTypes, Call
<1>2. /\ UNCHANGED <<activeProfile, failed>>
      /\ \A w \in Users \ {u} : isOnline'[w] = isOnline[w]
      /\ call[c].kind = "location" => isOnline' = isOnline
      /\ call[c].kind # "location" => isOnline'[u] = call[c].arg
  BY <1>0 DEF Write, Inv, StateTypes, Busy
<1>3. Alone'
  BY <1>1 DEF Modes, Alone
<1>4. \A d \in Calls : d # c /\ call[d].user = u /\ call[c].kind # "leave" => call[d].kind = "leave"
  BY <1>0 DEF Modes, Alone
<1>5. \A d \in Calls : call[d] = IdleCall \/ call[d].user \in Users
  BY DEF Inv, CallsBusy, Busy
<1>6. RequestsOK'
  <2> SUFFICES ASSUME NEW d \in Calls PROVE RequestOK(call[d])'
    BY DEF RequestsOK
  <2>1. CASE d = c
    BY <1>0, <1>1, <1>2, <2>1 DEF RequestOK, Modes, RequestsOK, Busy
  <2>2. CASE d # c
    BY <1>0, <1>1, <1>2, <1>4, <1>5, <2>2, IdleIs, PresenceAssumption
       DEF RequestOK, Modes, RequestsOK, Busy, Kinds
  <2> QED
    BY <2>1, <2>2
<1>7. RiderModeIsOffline'
  <2> SUFFICES ASSUME NEW w \in Users, activeProfile[w] = "RIDER", isOnline'[w]
               PROVE  SwitchInFlight(w)' \/ <<"switch", w>> \in failed
    BY <1>2 DEF RiderModeIsOffline
  <2>1. isOnline[w] /\ ~ (w = u /\ call[c].kind = "switch")
    BY <1>0, <1>2 DEF Busy, Kinds, Modes, RequestsOK, RequestOK
  <2> QED
    BY <1>1, <2>1 DEF Modes, RiderModeIsOffline, SwitchInFlight
<1> QED
  BY <1>3, <1>6, <1>7 DEF Modes

LEMMA StepModes == ASSUME Exclusive, Inv, Modes, Next PROVE Modes'
<1> USE PresenceAssumption
<1>0. UNCHANGED <<call, isOnline, activeProfile, failed>> => Modes'
  BY DEF Modes, Alone, RequestsOK, RequestOK, RiderModeIsOffline, SwitchInFlight
<1>1. ASSUME NEW s \in Sockets, Message(s) PROVE Modes'
  <2>0. socketUser[s] # None => socketUser[s] \in Users
    BY DEF Inv, StateTypes
  <2>1. UNCHANGED <<isOnline, activeProfile, failed>>
    BY <1>1 DEF Message, HandleConnection, HandleDisconnect, OnTrackSubscribe,
       OnTrackUnsubscribe, OnLocationUpdate, OnOfferSubmit, OnOfferAccept, tables
  <2>2. CASE UNCHANGED call
    BY <1>0, <2>1, <2>2
  <2>3. ASSUME NEW c \in Calls, Begin(c, "leave", socketUser[s], FALSE), socketUser[s] # None
        PROVE  Modes'
    BY <2>0, <2>1, <2>3, BeganModes DEF Kinds
  <2>4. ASSUME NEW c \in Calls, NEW p \in Places, socketUser[s] # None,
               MaySend(socketUser[s]), Begin(c, "location", socketUser[s], p)
        PROVE  Modes'
    BY <2>0, <2>1, <2>4, BeganModes DEF Kinds, MaySend
  <2> QED
    BY <1>1, <2>2, <2>3, <2>4 DEF Message, HandleConnection, HandleDisconnect,
       OnTrackSubscribe, OnTrackUnsubscribe, OnLocationUpdate, OnOfferSubmit, OnOfferAccept
<1>2. ASSUME NEW c \in Calls, NEW u \in Users, Request(c, u) PROVE Modes'
  <2>1. ASSUME NEW online \in BOOLEAN, UpdateStatus(c, u, online) PROVE Modes'
    BY <2>1, BeganModes DEF UpdateStatus, CanActivate, MaySend, tables, Kinds
  <2>2. ASSUME NEW p \in Places, UpdateLocation(c, u, p) PROVE Modes'
    BY <2>2, BeganModes DEF UpdateLocation, MaySend, tables, Kinds
  <2>3. CASE SwitchToDriver(c, u)
    <3> DEFINE k == [Began("drive", u, None) EXCEPT !.pc = "mode"]
    <3>1. k.user = u /\ k.kind = "drive" /\ k.pc = "mode" /\ (k.had <=> u \in profile)
      BY DEF Began, IdleCall
    <3>2. /\ \A d \in Calls : call[d].user = u => call[d].kind = "leave"
          /\ call[c] = IdleCall /\ call' = [call EXCEPT ![c] = k]
          /\ isOnline' = isOnline /\ activeProfile' = activeProfile /\ failed' = failed
      BY <2>3 DEF SwitchToDriver, MaySend, tables
    <3>3. /\ k.kind \in Kinds /\ k.kind \notin {"status", "ride"}
          /\ k.pc \notin {"emit", "notify"} /\ (u \in profile => k.had)
      BY <3>1 DEF Kinds
    <3> HIDE DEF k
    <3> QED
      BY <3>1, <3>2, <3>3, BeginModes
  <2>4. CASE SwitchToRider(c, u)
    BY <2>4, BeganModes DEF SwitchToRider, MaySend, Kinds
  <2>5. CASE CreateRide(c, u)
    <3> DEFINE k == [Began("ride", u, None) EXCEPT !.pc = "match"]
    <3>1. k.user = u /\ k.kind = "ride" /\ k.pc = "match" /\ (k.had <=> u \in profile)
      BY DEF Began, IdleCall
    <3>2. /\ \A d \in Calls : call[d].user = u => call[d].kind = "leave"
          /\ call[c] = IdleCall /\ call' = [call EXCEPT ![c] = k]
          /\ isOnline' = isOnline /\ activeProfile' = activeProfile /\ failed' = failed
          /\ activeProfile[u] = "RIDER"
      BY <2>5 DEF CreateRide, MaySend, tables
    <3>3. /\ k.kind \in Kinds /\ k.kind # "status"
          /\ k.pc \notin {"emit", "notify"} /\ (u \in profile => k.had)
      BY <3>1 DEF Kinds
    <3> HIDE DEF k
    <3> QED
      BY <3>1, <3>2, <3>3, BeginModes
  <2> QED
    BY <1>2, <2>1, <2>2, <2>3, <2>4, <2>5 DEF Request
<1>3. ASSUME NEW c \in Calls, Continue(c) PROVE Modes'
  <2>0. call[c] \in Call /\ (call[c].pc # "idle" => Busy(call[c])) /\ Knows(call[c], profile)
    BY IdleIs DEF Inv, StateTypes, CallsBusy, CallsKnow
  <2>1. CASE CacheGet(c) \/ CacheFind(c) \/ CacheSet(c)
    <3>1. call' = [call EXCEPT ![c] = call'[c]]
      BY <2>1 DEF CacheGet, CacheFind, CacheSet, Inv, StateTypes
    <3>2. /\ call'[c].user = call[c].user /\ call'[c].kind = call[c].kind
          /\ call'[c].had = call[c].had /\ call'[c].pc \notin {"emit", "notify"}
          /\ call[c].pc # "emit"
      BY <2>0, <2>1 DEF CacheGet, CacheFind, CacheSet, Inv, StateTypes, Call
    <3>3. UNCHANGED <<isOnline, activeProfile, failed>>
      BY <2>1 DEF CacheGet, CacheFind, CacheSet, tables
    <3> QED
      BY <3>1, <3>2, <3>3, GoOnModes
  <2>2. CASE NotFound(c)
    <3>1. call[c].kind = "switch" => ~ isOnline[call[c].user]
      BY <2>0, <2>2 DEF NotFound, Knows, Modes, RequestsOK, RequestOK
    <3> QED
      BY <2>2, <3>1, ReturnModes DEF NotFound, tables
  <2>3. CASE WriteMode(c)
    <3>1. call[c].kind = "drive" /\ call[c].user \in Users
      BY <2>0, <2>3 DEF WriteMode, Busy
    <3>2. \A w \in Users : \/ activeProfile'[w] = activeProfile[w]
                           \/ w = call[c].user /\ activeProfile'[w] = "DRIVER"
      BY <2>3, <3>1 DEF WriteMode, Inv, StateTypes
    <3> QED
      BY <2>3, <3>1, <3>2, ReturnModes DEF WriteMode
  <2>4. CASE Write(c)
    BY <2>4, WriteModes
  <2>5. CASE Emit(c)
    <3>1. call[c].kind = "switch" => ~ isOnline[call[c].user]
      BY <2>5 DEF Emit, Modes, RequestsOK, RequestOK
    <3>2. /\ Return(c) /\ UNCHANGED <<isOnline, activeProfile>>
          /\ failed' = failed \ {<<call[c].kind, call[c].user>>}
      BY <2>5 DEF Emit, tables
    <3>3. \A w \in Users : \/ <<"switch", w>> \in failed => <<"switch", w>> \in failed'
                           \/ w = call[c].user /\ call[c].kind = "switch" /\ ~ isOnline[w]
      BY <3>1, <3>2
    <3> QED
      BY <3>1, <3>2, <3>3, ReturnModes
  <2>6. CASE Abort(c)
    <3>1. /\ Return(c) /\ UNCHANGED <<isOnline, activeProfile>>
          /\ failed' = FailedWith({c})
      BY <2>6 DEF Abort, tables
    <3>2. \/ call[c].kind # "switch" \/ ~ isOnline[call[c].user]
          \/ <<"switch", call[c].user>> \in failed'
      BY <3>1 DEF FailedWith, HalfDone, Modes, RequestsOK, RequestOK
    <3> QED
      BY <3>1, <3>2, ReturnModes DEF FailedWith
  <2>7. ASSUME NEW v \in Viewports, Match(c, v) PROVE Modes'
    <3> DEFINE k == [call[c] EXCEPT !.pc = "notify", !.targets = FindNearbyDrivers(v)]
    <3>0. call' = [call EXCEPT ![c] = k]
      BY <2>0, <2>7 DEF Match, Inv, StateTypes, Call
    <3>1. /\ UNCHANGED <<isOnline, activeProfile, failed>>
          /\ call[c].pc = "match" /\ call[c].kind = "ride" /\ call[c].user \in Users
      BY <2>0, <2>7 DEF Match, Busy, tables
    <3>2. /\ k.pc = "notify" /\ k.user = call[c].user /\ k.kind = call[c].kind
          /\ k.had = call[c].had /\ k.targets = FindNearbyDrivers(v)
      BY <2>0 DEF Call
    <3>3. activeProfile[call[c].user] = "RIDER" /\ ~ SwitchInFlight(call[c].user)
      BY <3>1 DEF Modes, RequestsOK, RequestOK, Alone, SwitchInFlight
    <3>4. k.user \in k.targets => <<"switch", k.user>> \in failed
      BY <3>1, <3>2, <3>3 DEF FindNearbyDrivers, Modes, RiderModeIsOffline
    <3> HIDE DEF k
    <3> QED
      BY <3>0, <3>1, <3>2, <3>4, GoOnModes
  <2>8. CASE HandleRideRequestCreated(c)
    BY <2>0, <2>8, ReturnModes DEF HandleRideRequestCreated, Busy, tables
  <2> QED
    BY <1>3, <2>1, <2>2, <2>3, <2>4, <2>5, <2>6, <2>7, <2>8 DEF Continue
<1>4. ASSUME NEW u \in Users, Approve(u) \/ CacheExpires(u) PROVE Modes'
  BY <1>0, <1>4 DEF Approve, CacheExpires, tables
<1>5. CASE Tick
  BY <1>0, <1>5 DEF Tick, tables
<1>6. CASE Crash
  <2>1. \A c \in Calls : call'[c] = IdleCall
    BY <1>6 DEF Crash
  <2>2. UNCHANGED <<isOnline, activeProfile>> /\ failed' = FailedWith(Calls)
    BY <1>6 DEF Crash, tables
  <2>3. Alone' /\ RequestsOK'
    BY <2>1, IdleIs DEF Alone, RequestsOK, RequestOK, Kinds
  <2>4. RiderModeIsOffline'
    BY <2>2 DEF FailedWith, HalfDone, Modes, RiderModeIsOffline, SwitchInFlight
  <2> QED
    BY <2>3, <2>4 DEF Modes
<1> QED
  BY <1>1, <1>2, <1>3, <1>4, <1>5, <1>6 DEF Next

(* What a user's requests, one at a time, keep of modes and statuses. *)
LEMMA ModesHold == ASSUME Exclusive PROVE Spec => []Modes
<1>1. Inv /\ Modes /\ [Next]_vars => Modes'
  <2> SUFFICES ASSUME Inv, Modes, [Next]_vars PROVE Modes'
    OBVIOUS
  <2>1. CASE UNCHANGED vars
    BY <2>1 DEF vars, tables, Modes, Alone, RequestsOK, RequestOK, RiderModeIsOffline,
       SwitchInFlight
  <2> QED
    BY <2>1, StepModes
<1> QED
  BY <1>1, InitModes, PresenceInvariant, PTL DEF Spec

(* A user in rider mode is out of the matching pool, unless a switch is still *)
(* under way or failed after it wrote the mode, for any number of users,      *)
(* disconnections, failures and restarts, when a user's requests do not       *)
(* overlap.                                                                   *)
THEOREM RidersOffline ==
  ASSUME Exclusive
  PROVE  Spec => []RiderModeIsOffline
<1>1. Modes => RiderModeIsOffline
  BY DEF Modes
<1> QED
  BY <1>1, ModesHold, PTL

(* No ride request is broadcast to the rider who made it, unless a switch of   *)
(* theirs failed halfway, for any number of users and drivers and any pickup,  *)
(* when a user's requests do not overlap.                                     *)
THEOREM RidesNotToOwner ==
  ASSUME Exclusive
  PROVE  Spec => []RideNotToOwner
<1>1. Modes => RideNotToOwner
  BY DEF Modes, RequestsOK, RequestOK, RideNotToOwner
<1> QED
  BY <1>1, ModesHold, PTL

----------------------------------------------------------------------------
(* The riders' maps: a place that was stored and not pushed is that of a       *)
(* report about to be pushed, and no other report of the driver runs beside    *)
(* it, so what it pushes is the stored place.                                  *)

Reports(k, d) == k.user = d /\ k.kind = "location" /\ k.pc = "emit"

Reporting(d) == \E c \in Calls : Reports(call[c], d)

ReportIsFresh ==
  \A c \in Calls, d \in Users : Reports(call[c], d) => place[d] = call[c].arg

MapCurrent ==
  \A r, d \in Users :
     r \in Watchers(place[d]) /\ ~ Reporting(d) /\ <<"location", d>> \notin failed
       => \A x \in PinsOf(r, d) : x[2] = place[d]

Maps == ReportIsFresh /\ MapCurrent

(* A step that stores no place and begins no push, and that removes pins or a  *)
(* subscription if anything; a push that it ends has failed.                   *)
LEMMA MapsKept ==
  ASSUME Inv, Maps, place' = place,
         \A c \in Calls, d \in Users : Reports(call'[c], d) => call'[c] = call[c],
         \A c \in Calls, d \in Users :
            Reports(call[c], d) => call'[c] = call[c] \/ <<"location", d>> \in failed',
         \A d \in Users : <<"location", d>> \in failed => <<"location", d>> \in failed',
         \A r \in Users : \/ pins'[r] = {}
                          \/ pins'[r] \subseteq pins[r] /\ tracking'[r] = tracking[r]
  PROVE  Maps'
<1>1. ReportIsFresh'
  BY DEF Maps, ReportIsFresh
<1>2. MapCurrent'
  <2> SUFFICES ASSUME NEW r \in Users, NEW d \in Users,
                      tracking'[r] # None, place[d] \in tracking'[r],
                      ~ Reporting(d)', <<"location", d>> \notin failed',
                      NEW x \in pins'[r], x[1] = d
               PROVE  x[2] = place[d]
    BY DEF MapCurrent, Watchers, PinsOf
  <2>1. x \in pins[r] /\ tracking'[r] = tracking[r]
    OBVIOUS
  <2>2. ~ Reporting(d) /\ <<"location", d>> \notin failed
    BY DEF Reporting
  <2> QED
    BY <2>1, <2>2 DEF Maps, MapCurrent, Watchers, PinsOf
<1> QED
  BY <1>1, <1>2 DEF Maps

(* ... as does one that leaves the map and the rows alone and moves a handler  *)
(* that is neither before nor after a push.                                    *)
LEMMA MapsUntouched ==
  ASSUME Inv, Maps, UNCHANGED <<place, pins, tracking, failed>>,
         \/ UNCHANGED call
         \/ \E c \in Calls : /\ \A e \in Calls \ {c} : call'[e] = call[e]
                             /\ \A d \in Users : ~ Reports(call[c], d) /\ ~ Reports(call'[c], d)
  PROVE  Maps'
<1>1. /\ \A c \in Calls, d \in Users : Reports(call'[c], d) => call'[c] = call[c]
      /\ \A c \in Calls, d \in Users : Reports(call[c], d) => call'[c] = call[c]
  OBVIOUS
<1> QED
  BY <1>1, MapsKept

LEMMA IdleNoReport == \A d : ~ Reports(IdleCall, d)
BY IdleIs DEF Reports

LEMMA BeginNoReport ==
  ASSUME Inv, NEW c \in Calls, NEW kind, NEW u, NEW arg, Begin(c, kind, u, arg)
  PROVE  /\ \A e \in Calls \ {c} : call'[e] = call[e]
         /\ \A d \in Users : ~ Reports(call[c], d) /\ ~ Reports(call'[c], d)
<1>1. Began(kind, u, arg).pc = "get"
  BY DEF Began, IdleCall
<1>2. call[c] = IdleCall /\ call'[c] = Began(kind, u, arg) /\ \A e \in Calls \ {c} : call'[e] = call[e]
  BY DEF Begin, Inv, StateTypes
<1> QED
  BY <1>1, <1>2, IdleNoReport DEF Reports

LEMMA WriteMaps == ASSUME Inv, Alone, Maps, NEW c \in Calls, Write(c) PROVE Maps'
<1> DEFINE u == call[c].user
<1>0. /\ call[c] \in Call /\ call[c].pc = "write" /\ Busy(call[c]) /\ u \in Users /\ u # None
  BY IdleIs, PresenceAssumption DEF Inv, StateTypes, CallsBusy, Busy, Write
<1>1. /\ \A d \in Calls \ {c} : call'[d] = call[d]
      /\ call'[c].user = u /\ call'[c].kind = call[c].kind /\ call'[c].arg = call[c].arg
      /\ call'[c].pc = "emit"
  BY <1>0 DEF Write, Inv, StateTypes, Call
<1>2. UNCHANGED <<pins, tracking, failed>>
  BY DEF Write, gateway
<1>3. CASE call[c].kind # "location"
  <2>1. place' = place
    BY <1>3 DEF Write
  <2>2. \A d \in Users : ~ Reports(call[c], d) /\ ~ Reports(call'[c], d)
    BY <1>1, <1>3 DEF Reports
  <2> QED
    BY <1>1, <1>2, <2>1, <2>2, MapsUntouched
<1>4. CASE call[c].kind = "location"
  <2>1. place'[u] = call[c].arg /\ \A d \in Users \ {u} : place'[d] = place[d]
    BY <1>0, <1>4 DEF Write, Inv, StateTypes
  <2>2. Reports(call'[c], u) /\ \A d \in Users : Reports(call'[c], d) => d = u
    BY <1>1, <1>4 DEF Reports
  <2>3. \A e \in Calls \ {c} : ~ Reports(call[e], u)
    BY <1>0, <1>4 DEF Alone, Reports
  <2>4. ReportIsFresh'
    <3> SUFFICES ASSUME NEW e \in Calls, NEW d \in Users, Reports(call'[e], d)
                 PROVE  place'[d] = call'[e].arg
      BY DEF ReportIsFresh, Reports
    <3>1. CASE e = c
      BY <1>1, <2>1, <2>2, <3>1
    <3>2. CASE e # c
      BY <1>1, <2>1, <2>3, <3>2 DEF Maps, ReportIsFresh
    <3> QED
      BY <3>1, <3>2
  <2>5. MapCurrent'
    <3> SUFFICES ASSUME NEW r \in Users, NEW d \in Users,
                        tracking[r] # None, place'[d] \in tracking[r],
                        ~ Reporting(d)', <<"location", d>> \notin failed,
                        NEW x \in pins[r], x[1] = d
                 PROVE  x[2] = place'[d]
      BY <1>2 DEF MapCurrent, Watchers, PinsOf
    <3>1. d # u
      BY <2>2 DEF Reporting, Reports
    <3>2. ~ Reporting(d)
      <4> SUFFICES ASSUME NEW e \in Calls, Reports(call[e], d) PROVE FALSE
        BY DEF Reporting
      <4>1. e # c
        BY <1>0 DEF Reports
      <4> QED
        BY <1>1, <4>1 DEF Reporting, Reports
    <3> QED
      BY <2>1, <3>1, <3>2 DEF Maps, MapCurrent, Watchers, PinsOf
  <2> QED
    BY <2>4, <2>5 DEF Maps
<1> QED
  BY <1>3, <1>4

LEMMA EmitMaps == ASSUME Inv, Maps, NEW c \in Calls, Emit(c) PROVE Maps'
<1> DEFINE k == call[c]
<1>0. k \in Call /\ k.pc = "emit" /\ Busy(k) /\ k.user \in Users
  BY IdleIs DEF Inv, StateTypes, CallsBusy, Busy, Emit
<1>1. /\ \A e \in Calls \ {c} : call'[e] = call[e]
      /\ \A d \in Users : ~ Reports(call'[c], d)
  BY IdleNoReport DEF Emit, Return, Inv, StateTypes
<1>2. UNCHANGED <<place, tracking>> /\ failed' = failed \ {<<k.kind, k.user>>}
  BY DEF Emit, gateway, tables
<1>3. CASE k.kind # "location"
  <2>1. \A r \in Users : pins'[r] \subseteq pins[r]
    BY <1>3 DEF Emit, HandleDriverOnlineStatusChanged
  <2>2. \A d \in Users : ~ Reports(call[c], d)
    BY <1>3 DEF Reports
  <2>3. \A d \in Users : <<"location", d>> \in failed => <<"location", d>> \in failed'
    BY <1>2, <1>3
  <2> QED
    BY <1>1, <1>2, <2>1, <2>2, <2>3, MapsKept
<1>4. CASE k.kind = "location"
  <2>1. pins' = [r \in Users |-> IF r \in Watchers(k.arg)
                                 THEN (pins[r] \ PinsOf(r, k.user)) \cup {<<k.user, k.arg>>}
                                 ELSE pins[r]]
    BY <1>4 DEF Emit, HandleDriverLocationUpdated
  <2>2. place[k.user] = k.arg
    BY <1>0, <1>4 DEF Maps, ReportIsFresh, Reports
  <2>3. ReportIsFresh'
    BY <1>1, <1>2 DEF Maps, ReportIsFresh, Reports
  <2>4. MapCurrent'
    <3> SUFFICES ASSUME NEW r \in Users, NEW d \in Users,
                        r \in Watchers(place[d]),
                        ~ Reporting(d)', <<"location", d>> \notin failed',
                        NEW x \in pins'[r], x[1] = d
                 PROVE  x[2] = place[d]
      BY <1>2 DEF MapCurrent, Watchers, PinsOf
    <3>1. CASE d = k.user
      <4>1. pins'[r] = (pins[r] \ PinsOf(r, k.user)) \cup {<<k.user, k.arg>>}
        BY <2>1, <2>2, <3>1
      <4>2. x = <<k.user, k.arg>>
        BY <3>1, <4>1 DEF PinsOf
      <4> QED
        BY <2>2, <3>1, <4>2
    <3>2. CASE d # k.user
      <4>1. x \in pins[r]
        BY <2>1, <3>2
      <4>2. <<"location", d>> \notin failed
        BY <1>2, <3>2
      <4>3. ~ Reporting(d)
        BY <1>1, <3>2 DEF Reporting, Reports
      <4> QED
        BY <4>1, <4>2, <4>3 DEF Maps, MapCurrent, PinsOf
    <3> QED
      BY <3>1, <3>2
  <2> QED
    BY <2>3, <2>4 DEF Maps
<1> QED
  BY <1>3, <1>4

LEMMA TrackMaps ==
  ASSUME Inv, Maps, NEW u \in Users, NEW v, Track(u, v), UNCHANGED <<place, failed>>,
         \/ UNCHANGED call
         \/ \E c \in Calls : /\ \A e \in Calls \ {c} : call'[e] = call[e]
                             /\ \A d \in Users : ~ Reports(call[c], d) /\ ~ Reports(call'[c], d)
  PROVE  Maps'
<1>1. \A r \in Users : \/ pins'[r] = {}
                       \/ pins'[r] \subseteq pins[r] /\ tracking'[r] = tracking[r]
  BY DEF Track, Inv, StateTypes
<1>2. /\ \A c \in Calls, d \in Users : Reports(call'[c], d) => call'[c] = call[c]
      /\ \A c \in Calls, d \in Users : Reports(call[c], d) => call'[c] = call[c]
  OBVIOUS
<1> QED
  BY <1>1, <1>2, MapsKept

LEMMA StepMaps == ASSUME Inv, Alone, Maps, Next PROVE Maps'
<1>1. ASSUME NEW s \in Sockets, Message(s) PROVE Maps'
  <2>0. socketUser[s] # None => socketUser[s] \in Users
    BY DEF Inv, StateTypes
  <2>1. CASE HandleDisconnect(s)
    <3>1. /\ socketUser[s] \in Users /\ Track(socketUser[s], None) /\ UNCHANGED <<place, failed>>
      BY <2>0, <2>1 DEF HandleDisconnect, tables
    <3> QED
      BY <2>1, <3>1, BeginNoReport, TrackMaps DEF HandleDisconnect
  <2>2. ASSUME NEW v \in Viewports, OnTrackSubscribe(s, v) PROVE Maps'
    <3>1. socketUser[s] \in Users /\ UNCHANGED <<place, failed, call>>
      BY <2>0, <2>2 DEF OnTrackSubscribe, tables
    <3>2. CASE Track(socketUser[s], v)
      BY <3>1, <3>2, TrackMaps
    <3>3. CASE UNCHANGED <<tracking, pins>>
      BY <3>1, <3>3, MapsUntouched
    <3> QED
      BY <2>2, <3>2, <3>3 DEF OnTrackSubscribe
  <2>3. CASE OnTrackUnsubscribe(s)
    BY <2>0, <2>3, TrackMaps DEF OnTrackUnsubscribe, tables
  <2>4. ASSUME NEW c \in Calls, NEW p \in Places, OnLocationUpdate(c, s, p) PROVE Maps'
    <3>1. UNCHANGED <<place, pins, tracking, failed>>
      BY <2>4 DEF OnLocationUpdate, tables
    <3>2. UNCHANGED call \/ Begin(c, "location", socketUser[s], p)
      BY <2>4 DEF OnLocationUpdate
    <3> QED
      BY <3>1, <3>2, BeginNoReport, MapsUntouched
  <2>5. CASE (\E u \in Users : HandleConnection(s, u)) \/ OnOfferSubmit(s) \/ OnOfferAccept(s)
    BY <2>5, MapsUntouched DEF HandleConnection, OnOfferSubmit, OnOfferAccept, tables
  <2> QED
    BY <1>1, <2>1, <2>2, <2>3, <2>4, <2>5 DEF Message
<1>2. ASSUME NEW c \in Calls, NEW u \in Users, Request(c, u) PROVE Maps'
  <2>1. UNCHANGED <<place, pins, tracking, failed>>
    BY <1>2 DEF Request, gateway, tables, UpdateStatus, UpdateLocation, SwitchToDriver,
       SwitchToRider, CreateRide
  <2>2. CASE \E kind, arg : Begin(c, kind, u, arg)
    BY <2>1, <2>2, BeginNoReport, MapsUntouched
  <2>3. ASSUME NEW kind, NEW pc \in {"mode", "match"}, call[c] = IdleCall,
               call' = [call EXCEPT ![c] = [Began(kind, u, None) EXCEPT !.pc = pc]]
        PROVE  Maps'
    <3> DEFINE k == [Began(kind, u, None) EXCEPT !.pc = pc]
    <3>1. k.pc = pc
      BY DEF Began, IdleCall
    <3>2. call'[c] = k /\ \A e \in Calls \ {c} : call'[e] = call[e]
      BY <2>3 DEF Inv, StateTypes
    <3> HIDE DEF k
    <3>3. \A d \in Users : ~ Reports(call[c], d) /\ ~ Reports(call'[c], d)
      BY <2>3, <3>1, <3>2, IdleNoReport DEF Reports
    <3> QED
      BY <2>1, <3>2, <3>3, MapsUntouched
  <2> QED
    BY <1>2, <2>2, <2>3 DEF Request, UpdateStatus, UpdateLocation, SwitchToDriver,
       SwitchToRider, CreateRide
<1>3. ASSUME NEW c \in Calls, Continue(c) PROVE Maps'
  <2>0. call[c] \in Call /\ call \in [Calls -> Call]
    BY DEF Inv, StateTypes
  <2>1. CASE CacheGet(c) \/ CacheFind(c) \/ CacheSet(c) \/ \E v \in Viewports : Match(c, v)
    <3>1. UNCHANGED <<place, pins, tracking, failed>>
      BY <2>1 DEF CacheGet, CacheFind, CacheSet, Match, gateway, tables
    <3>2. /\ \A e \in Calls \ {c} : call'[e] = call[e]
          /\ call[c].pc # "emit" /\ call'[c].pc # "emit"
      BY <2>0, <2>1 DEF CacheGet, CacheFind, CacheSet, Match, Call
    <3> QED
      BY <3>1, <3>2, MapsUntouched DEF Reports
  <2>2. CASE NotFound(c) \/ WriteMode(c) \/ HandleRideRequestCreated(c)
    <3>1. UNCHANGED <<place, pins, tracking, failed>> /\ call[c].pc # "emit" /\ Return(c)
      BY <2>2 DEF NotFound, WriteMode, HandleRideRequestCreated, gateway, tables
    <3>2. call'[c] = IdleCall /\ \A e \in Calls \ {c} : call'[e] = call[e]
      BY <2>0, <3>1 DEF Return
    <3> QED
      BY <3>1, <3>2, IdleNoReport, MapsUntouched DEF Reports
  <2>3. CASE Write(c)
    BY <2>3, WriteMaps
  <2>4. CASE Emit(c)
    BY <2>4, EmitMaps
  <2>5. CASE Abort(c)
    <3>1. UNCHANGED <<place, pins, tracking>> /\ failed' = FailedWith({c}) /\ Return(c)
      BY <2>5 DEF Abort, gateway, tables
    <3>2. call'[c] = IdleCall /\ \A e \in Calls \ {c} : call'[e] = call[e]
      BY <2>0, <3>1 DEF Return
    <3>3. \A d \in Users : /\ <<"location", d>> \in failed => <<"location", d>> \in failed'
                           /\ Reports(call[c], d) => <<"location", d>> \in failed'
      BY <3>1 DEF FailedWith, HalfDone, Reports
    <3> QED
      BY <3>1, <3>2, <3>3, IdleNoReport, MapsKept
  <2> QED
    BY <1>3, <2>1, <2>2, <2>3, <2>4, <2>5 DEF Continue
<1>4. CASE (\E u \in Users : Approve(u) \/ CacheExpires(u)) \/ Tick
  BY <1>4, MapsUntouched DEF Approve, CacheExpires, Tick, gateway, tables
<1>5. CASE Crash
  <2>1. \A c \in Calls : call'[c] = IdleCall
    BY <1>5 DEF Crash
  <2>2. \A r \in Users : pins'[r] = {}
    BY <1>5 DEF Crash
  <2> QED
    BY <2>1, <2>2, IdleNoReport DEF Maps, ReportIsFresh, MapCurrent, PinsOf
<1> QED
  BY <1>1, <1>2, <1>3, <1>4, <1>5 DEF Next

(* While no report of a driver is under way or has failed, the driver's pin on *)
(* the map of a rider who watches their place is at that place, for any number *)
(* of riders, drivers, viewports, disconnections and restarts, when a user's   *)
(* requests do not overlap.                                                    *)
THEOREM PinsCurrent ==
  ASSUME Exclusive
  PROVE  Spec => []PinIsCurrent
<1>1. Init => Maps
  BY IdleNoReport DEF Init, Maps, ReportIsFresh, MapCurrent, PinsOf
<1>2. Inv /\ Modes /\ Maps /\ [Next]_vars => Maps'
  <2>1. ASSUME Maps, UNCHANGED vars PROVE Maps'
    BY <2>1 DEF vars, gateway, tables, Maps, ReportIsFresh, MapCurrent, Reporting, Reports,
       Watchers, PinsOf
  <2> QED
    BY <2>1, StepMaps DEF Modes
<1>3. Maps => PinIsCurrent
  BY DEF Maps, MapCurrent, Reporting, Reports, PinIsCurrent, ReportInFlight
<1> QED
  BY <1>1, <1>2, <1>3, PresenceInvariant, ModesHold, PTL DEF Spec

=============================================================================
