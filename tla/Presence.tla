------------------------------ MODULE Presence ------------------------------
(***************************************************************************)
(* Who is connected, in which mode, online and where: the gateway's sockets, *)
(* rate limiters and map subscriptions (RealtimeGateway), the driver's       *)
(* status and location (DriversService) with the cached identity lookup      *)
(* (CacheService), the switch of mode (UsersService.setActiveProfile), and    *)
(* the broadcast of a new ride request (MatchingService).                     *)
(*                                                                           *)
(* An action is one awaited call with the code up to the next one; refused   *)
(* calls are stuttering steps.  A place is a value; a viewport is the set of *)
(* places within a radius, of a rider's map or of a pickup.                  *)
(*                                                                           *)
(* Exclusive = FALSE is the program; with Exclusive = TRUE a user's client   *)
(* sends a request once the last one has ended.  A disconnection is no       *)
(* request: its handler overlaps with anything in both.                      *)
(***************************************************************************)
EXTENDS WsRateLimiter, FiniteSets

CONSTANTS
  Users, Sockets,
  Places,       \* locations of drivers
  Viewports,    \* sets of places that a rider may watch or be picked up in
  Calls,        \* bound on the handlers in flight at once
  MaxTime,      \* bound on the clock
  Messages,     \* the limited messages that clients send, of Limiters
  MaxReturns,   \* bound on the connections a user opens after one was closed;
                \* None: no bound
  Exclusive,    \* BOOLEAN: a user's requests do not overlap
  Faults,       \* the failures that may happen: "abort", "crash"
  None          \* null, or a key that is absent

(* setOnlineStatus, updateLocation, and goOffline after a disconnection or    *)
(* after a switch to rider mode; setActiveProfile(DRIVER); and the create of   *)
(* RideRequestsService.                                                       *)
Kinds == {"status", "location", "leave", "switch", "drive", "ride"}

(* locationUpdateLimiter, trackSubscribeLimiter, offerSubmitLimiter and        *)
(* offerAcceptLimiter, all with one Limit and Window here.                     *)
Limiters == {"location", "subscribe", "submit", "accept"}

ASSUME PresenceAssumption ==
  /\ None \notin Users /\ None \notin Places /\ None \notin Viewports /\ None \notin Kinds
  /\ Viewports \subseteq SUBSET Places
  /\ MaxTime \in Nat
  /\ Messages \subseteq Limiters
  /\ MaxReturns \in Nat \cup {None}
  /\ Exclusive \in BOOLEAN
  /\ Faults \subseteq {"abort", "crash"}

VARIABLES
  socketUser,     \* [Sockets -> Users \cup {None}]: socket.data.userId
  tracking,       \* [Users -> Viewports \cup {None}]: riderTrackSubscriptions
  hits,           \* [Limiters -> [Users -> Seq(0..MaxTime)]]
  now,            \* Date.now()
  profile,        \* SUBSET Users: who has a DriverProfile
  isOnline,       \* [Users -> BOOLEAN]
  place,          \* [Users -> Places \cup {None}]: currentLat, currentLng
  activeProfile,  \* [Users -> {"RIDER", "DRIVER"}]
  cached,         \* [Users -> {"absent", "null", "identity"}], in Redis
  call,           \* [Calls -> Call]: the handlers in flight
  \* What the properties speak of and the code does not keep:
  passed,         \* [Limiters -> [Users -> Seq(0..MaxTime)]]: when
                  \* messages were let through, whatever was cleared since
  cleared,        \* [Users -> Seq(0..MaxTime)]: when the user's limiters lost
                  \* their timestamps
  pins,           \* [Users -> SUBSET (Users \X Places)]: the drivers pushed to
                  \* a rider's map since the last subscription
  failed          \* SUBSET ({"location", "switch"} \X Users): who had such a
                  \* call fail halfway and none succeed since

limits  == <<hits, passed, cleared>>
gateway == <<socketUser, tracking, limits>>
tables  == <<profile, isOnline, place, activeProfile>>
vars    == <<gateway, now, tables, cached, call, pins, failed>>

Call ==
  [pc      : {"idle", "get", "find", "set", "write", "emit", "mode", "match", "notify"},
   kind    : Kinds \cup {None},
   user    : Users \cup {None},
   arg     : Places \cup BOOLEAN \cup {None},
   found   : BOOLEAN,              \* findIdentityByUserId returned a profile
   had     : BOOLEAN,              \* there was one when the call began
   row     : Places \cup {None},   \* the place in the updated row
   targets : SUBSET Users]         \* nearbyDriverUserIds

IdleCall ==
  [pc |-> "idle", kind |-> None, user |-> None, arg |-> None,
   found |-> FALSE, had |-> FALSE, row |-> None, targets |-> {}]

(* At most Limit timestamps are kept, none from the future. *)
LimiterTypes ==
  \A l \in Limiters, u \in Users :
     hits[l][u] \in Seq(0..now) /\ Len(hits[l][u]) =< Limit

StateTypes ==
  /\ socketUser \in [Sockets -> Users \cup {None}]
  /\ tracking \in [Users -> Viewports \cup {None}]
  /\ now \in 0..MaxTime
  /\ profile \subseteq Users
  /\ isOnline \in [Users -> BOOLEAN]
  /\ place \in [Users -> Places \cup {None}]
  /\ activeProfile \in [Users -> {"RIDER", "DRIVER"}]
  /\ cached \in [Users -> {"absent", "null", "identity"}]
  /\ call \in [Calls -> Call]
  /\ pins \in [Users -> SUBSET (Users \X Places)]
  /\ failed \subseteq {"location", "switch"} \X Users

(* The types, and that only rows that exist are online or somewhere. *)
TypeOK ==
  /\ StateTypes
  /\ LimiterTypes
  /\ \A u \in Users : isOnline[u] \/ place[u] # None => u \in profile

Init ==
  /\ socketUser = [s \in Sockets |-> None]
  /\ tracking = [u \in Users |-> None]
  /\ hits = [l \in Limiters |-> [u \in Users |-> <<>>]]
  /\ now = 0
  /\ profile = {}
  /\ isOnline = [u \in Users |-> FALSE]
  /\ place = [u \in Users |-> None]
  /\ activeProfile = [u \in Users |-> "RIDER"]
  /\ cached = [u \in Users |-> "absent"]
  /\ call = [c \in Calls |-> IdleCall]
  /\ passed = hits
  /\ cleared = [u \in Users |-> <<>>]
  /\ pins = [u \in Users |-> {}]
  /\ failed = {}

----------------------------------------------------------------------------
(* The user of a socket has another one in their room. *)
StillConnectedElsewhere(s) == \E t \in Sockets \ {s} : socketUser[t] = socketUser[s]

(* A user's requests other than the one about to begin. *)
MaySend(u) ==
  Exclusive => \A c \in Calls : call[c].user = u => call[c].kind = "leave"

(* A call begins at the lookup of the driver's identity. *)
Began(kind, u, arg) ==
  [IdleCall EXCEPT !.pc = "get", !.kind = kind, !.user = u, !.arg = arg,
                   !.had = u \in profile]

Begin(c, kind, u, arg) ==
  /\ call[c] = IdleCall
  /\ call' = [call EXCEPT ![c] = Began(kind, u, arg)]

Return(c) == call' = [call EXCEPT ![c] = IdleCall]

(* WsRateLimiter.consume for one user of one limiter. *)
Consume(l, u) ==
  /\ hits' = [hits EXCEPT ![l][u] = Consumed(@, now)]
  /\ passed' = IF Allows(hits[l][u], now)
               THEN [passed EXCEPT ![l][u] = Append(@, now)] ELSE passed
  /\ UNCHANGED cleared

(* WsRateLimiter.clear of every limiter, for all of the user's sockets. *)
Clear(u) ==
  /\ hits' = [l \in Limiters |-> [hits[l] EXCEPT ![u] = <<>>]]
  /\ cleared' = [cleared EXCEPT ![u] = Append(@, now)]
  /\ UNCHANGED passed

(* The map subscription of a user is set or, with None, deleted. *)
Track(u, v) ==
  /\ tracking' = [tracking EXCEPT ![u] = v]
  /\ pins' = [pins EXCEPT ![u] = {}]

----------------------------------------------------------------------------
(* handleConnection with a valid token; another one changes nothing.  The     *)
(* verification of the token and the join of the room are one step.           *)
HandleConnection(s, u) ==
  /\ socketUser[s] = None
  /\ MaxReturns # None => Len(cleared[u]) =< MaxReturns
  /\ socketUser' = [socketUser EXCEPT ![s] = u]
  /\ UNCHANGED <<tracking, limits, now, tables, cached, call, pins, failed>>

(* Mutant of HandleDisconnect: the subscription is kept. *)
HandleDisconnectKeepsTracking(s) ==
  /\ socketUser[s] # None
  /\ socketUser' = [socketUser EXCEPT ![s] = None]
  /\ Clear(socketUser[s])
  /\ IF StillConnectedElsewhere(s)
     THEN UNCHANGED call
     ELSE \E c \in Calls : Begin(c, "leave", socketUser[s], FALSE)
  /\ UNCHANGED <<tracking, now, tables, cached, pins, failed>>

(* handleDisconnect: the limiters and the subscription of the user go, and if *)
(* no other socket is in the user's room goOffline begins.                    *)
HandleDisconnect(s) ==
  /\ socketUser[s] # None
  /\ socketUser' = [socketUser EXCEPT ![s] = None]
  /\ Clear(socketUser[s])
  /\ Track(socketUser[s], None)
  /\ IF StillConnectedElsewhere(s)
     THEN UNCHANGED call
     ELSE \E c \in Calls : Begin(c, "leave", socketUser[s], FALSE)
  /\ UNCHANGED <<now, tables, cached, failed>>

(* onTrackSubscribe; over the limit only the limiter changes. *)
OnTrackSubscribe(s, v) ==
  LET u == socketUser[s] IN
  /\ "subscribe" \in Messages
  /\ u # None
  /\ Consume("subscribe", u)
  /\ IF Allows(hits["subscribe"][u], now) THEN Track(u, v) ELSE UNCHANGED <<tracking, pins>>
  /\ UNCHANGED <<socketUser, now, tables, cached, call, failed>>

OnTrackUnsubscribe(s) ==
  /\ socketUser[s] # None
  /\ Track(socketUser[s], None)
  /\ UNCHANGED <<socketUser, limits, now, tables, cached, call, failed>>

(* onLocationUpdate, up to updateLocation; no mode is required. *)
OnLocationUpdate(c, s, p) ==
  LET u == socketUser[s] IN
  /\ "location" \in Messages
  /\ u # None
  /\ MaySend(u)
  /\ Consume("location", u)
  /\ IF Allows(hits["location"][u], now) THEN Begin(c, "location", u, p) ELSE UNCHANGED call
  /\ UNCHANGED <<socketUser, tracking, now, tables, cached, pins, failed>>

(* onOfferSubmit and onOfferAccept, up to submitOffer and acceptOffer, which   *)
(* are Negotiation's: here a message is counted, let through or refused.       *)
OnOfferSubmit(s) ==
  /\ "submit" \in Messages
  /\ socketUser[s] # None
  /\ Consume("submit", socketUser[s])
  /\ UNCHANGED <<socketUser, tracking, now, tables, cached, call, pins, failed>>

OnOfferAccept(s) ==
  /\ "accept" \in Messages
  /\ socketUser[s] # None
  /\ Consume("accept", socketUser[s])
  /\ UNCHANGED <<socketUser, tracking, now, tables, cached, call, pins, failed>>

----------------------------------------------------------------------------
(* ActiveProfileGuard for the routes of DriversController. *)
CanActivate(u) == activeProfile[u] = "DRIVER" /\ u \in profile

(* PATCH /driver/status and PATCH /driver/location, past the guard. *)
UpdateStatus(c, u, online) ==
  /\ CanActivate(u) /\ MaySend(u)
  /\ Begin(c, "status", u, online)
  /\ UNCHANGED <<gateway, now, tables, cached, pins, failed>>

UpdateLocation(c, u, p) ==
  /\ CanActivate(u) /\ MaySend(u)
  /\ Begin(c, "location", u, p)
  /\ UNCHANGED <<gateway, now, tables, cached, pins, failed>>

(* setActiveProfile(DRIVER) reads the profile ... *)
SwitchToDriver(c, u) ==
  /\ MaySend(u)
  /\ call[c] = IdleCall
  /\ u \in profile
  /\ call' = [call EXCEPT ![c] = [Began("drive", u, None) EXCEPT !.pc = "mode"]]
  /\ UNCHANGED <<gateway, now, tables, cached, pins, failed>>

(* ... and writes the mode. *)
WriteMode(c) ==
  /\ call[c].pc = "mode"
  /\ activeProfile' = [activeProfile EXCEPT ![call[c].user] = "DRIVER"]
  /\ Return(c)
  /\ UNCHANGED <<gateway, now, profile, isOnline, place, cached, pins, failed>>

(* Mutant of SwitchToRider: the driver is left in the matching pool. *)
SwitchToRiderStaysOnline(c, u) ==
  /\ MaySend(u)
  /\ call[c] = IdleCall
  /\ activeProfile' = [activeProfile EXCEPT ![u] = "RIDER"]
  /\ UNCHANGED <<gateway, now, profile, isOnline, place, cached, call, pins, failed>>

(* setActiveProfile(RIDER) writes the mode; then goOffline begins. *)
SwitchToRider(c, u) ==
  /\ MaySend(u)
  /\ Begin(c, "switch", u, FALSE)
  /\ activeProfile' = [activeProfile EXCEPT ![u] = "RIDER"]
  /\ UNCHANGED <<gateway, now, profile, isOnline, place, cached, pins, failed>>

----------------------------------------------------------------------------
(* Mutant of FindNearbyDrivers: offline drivers are matched too. *)
FindNearbyDriversOffline(v) == {d \in Users : place[d] \in v}

(* The drivers online within the radius of a pickup, fewer than 50. *)
FindNearbyDrivers(v) == {d \in Users : isOnline[d] /\ place[d] \in v}

(* POST /ride-requests, which needs rider mode, and the row's create, whose    *)
(* effect is Create of Negotiation ...                                        *)
CreateRide(c, u) ==
  /\ activeProfile[u] = "RIDER" /\ MaySend(u)
  /\ call[c] = IdleCall
  /\ call' = [call EXCEPT ![c] = [Began("ride", u, None) EXCEPT !.pc = "match"]]
  /\ UNCHANGED <<gateway, now, tables, cached, pins, failed>>

(* ... the drivers near the pickup are read ... *)
Match(c, v) ==
  /\ call[c].pc = "match"
  /\ call' = [call EXCEPT ![c].pc = "notify", ![c].targets = FindNearbyDrivers(v)]
  /\ UNCHANGED <<gateway, now, tables, cached, pins, failed>>

(* ... and handleRideRequestCreated sends them ride:request:new. *)
HandleRideRequestCreated(c) ==
  /\ call[c].pc = "notify"
  /\ Return(c)
  /\ UNCHANGED <<gateway, now, tables, cached, pins, failed>>

----------------------------------------------------------------------------
(* findIdentityByUserId through getOrSet: the key is read; a stored null is a *)
(* miss like an absent key ...                                                *)
(* Mutant of CacheGet: a stored null is an answer. *)
CacheGetTrustsNull(c) ==
  /\ call[c].pc = "get"
  /\ call' = [call EXCEPT ![c].found = cached[call[c].user] = "identity",
                          ![c].pc = IF cached[call[c].user] = "absent" THEN "find" ELSE "write"]
  /\ UNCHANGED <<gateway, now, tables, cached, pins, failed>>

CacheGet(c) ==
  LET hit == cached[call[c].user] = "identity" IN
  /\ call[c].pc = "get"
  /\ call' = [call EXCEPT ![c].found = hit, ![c].pc = IF hit THEN "write" ELSE "find"]
  /\ UNCHANGED <<gateway, now, tables, cached, pins, failed>>

(* ... the table is read ... *)
CacheFind(c) ==
  /\ call[c].pc = "find"
  /\ call' = [call EXCEPT ![c].found = call[c].user \in profile, ![c].pc = "set"]
  /\ UNCHANGED <<gateway, now, tables, cached, pins, failed>>

(* ... and what it said is stored, null included. *)
CacheSet(c) ==
  /\ call[c].pc = "set"
  /\ cached' = [cached EXCEPT ![call[c].user] = IF call[c].found THEN "identity" ELSE "null"]
  /\ call' = [call EXCEPT ![c].pc = "write"]
  /\ UNCHANGED <<gateway, now, tables, pins, failed>>

(* Without a profile the call ends: goOffline returns, the others throw. *)
NotFound(c) ==
  /\ call[c].pc = "write" /\ ~ call[c].found
  /\ Return(c)
  /\ UNCHANGED <<gateway, now, tables, cached, pins, failed>>

(* The update of the row, whose place the event will carry. *)
Write(c) ==
  LET u == call[c].user IN
  /\ call[c].pc = "write" /\ call[c].found
  /\ IF call[c].kind = "location"
     THEN place' = [place EXCEPT ![u] = call[c].arg] /\ UNCHANGED isOnline
     ELSE isOnline' = [isOnline EXCEPT ![u] = call[c].arg] /\ UNCHANGED place
  /\ call' = [call EXCEPT ![c].pc = "emit", ![c].row = place'[u]]
  /\ UNCHANGED <<gateway, now, profile, activeProfile, cached, pins, failed>>

----------------------------------------------------------------------------
(* The riders whose viewport holds a place. *)
Watchers(p) == {r \in Users : tracking[r] # None /\ p \in tracking[r]}

PinsOf(r, d) == {x \in pins[r] : x[1] = d}

(* Mutant of HandleDriverLocationUpdated: a driver already shown is not moved. *)
PushedOnce(d, p) ==
  pins' = [r \in Users |->
             IF r \in Watchers(p) /\ PinsOf(r, d) = {} THEN pins[r] \cup {<<d, p>>} ELSE pins[r]]

(* handleDriverLocationUpdated pushes driver:location to those riders, whose  *)
(* map moves the driver's pin ...                                             *)
HandleDriverLocationUpdated(d, p) ==
  pins' = [r \in Users |->
             IF r \in Watchers(p) THEN (pins[r] \ PinsOf(r, d)) \cup {<<d, p>>} ELSE pins[r]]

(* ... and handleDriverOnlineStatusChanged driver:offline, which removes it;  *)
(* coming online, or a driver who has no place yet, pushes nothing.           *)
HandleDriverOnlineStatusChanged(d, online, p) ==
  pins' = [r \in Users |->
             IF ~ online /\ r \in Watchers(p) THEN pins[r] \ PinsOf(r, d) ELSE pins[r]]

(* The event is emitted and handled once the update's promise has settled.    *)
(* What follows in goOffline is OfflineSchedule of Negotiation.               *)
Emit(c) ==
  LET k == call[c] IN
  /\ k.pc = "emit"
  /\ IF k.kind = "location" THEN HandleDriverLocationUpdated(k.user, k.arg)
                            ELSE HandleDriverOnlineStatusChanged(k.user, k.arg, k.row)
  /\ failed' = failed \ {<<k.kind, k.user>>}
  /\ Return(c)
  /\ UNCHANGED <<gateway, now, tables, cached>>

(* A place was stored and not pushed, or a mode without the status. *)
HalfDone(k) ==
  \/ k.kind = "location" /\ k.pc = "emit"
  \/ k.kind = "switch" /\ k.pc # "emit"

FailedWith(C) ==
  failed \cup {<<call[c].kind, call[c].user>> : c \in {d \in C : HalfDone(call[d])}}

(* An awaited call fails, perhaps after it took effect: the handler ends. *)
Abort(c) ==
  /\ "abort" \in Faults
  /\ call[c] # IdleCall
  /\ failed' = FailedWith({c})
  /\ Return(c)
  /\ UNCHANGED <<gateway, now, tables, cached, pins>>

(* The process restarts: what it kept in memory is lost. *)
Crash ==
  /\ "crash" \in Faults
  /\ socketUser' = [s \in Sockets |-> None]
  /\ tracking' = [u \in Users |-> None]
  /\ hits' = [l \in Limiters |-> [u \in Users |-> <<>>]]
  /\ cleared' = [u \in Users |-> Append(cleared[u], now)]
  /\ call' = [c \in Calls |-> IdleCall]
  /\ pins' = [u \in Users |-> {}]
  /\ failed' = FailedWith(Calls)
  /\ UNCHANGED <<passed, now, tables, cached>>

----------------------------------------------------------------------------
(* An approved application creates the profile (DriverApplication). *)
Approve(u) ==
  /\ u \notin profile
  /\ profile' = profile \cup {u}
  /\ UNCHANGED <<gateway, now, isOnline, place, activeProfile, cached, call, pins, failed>>

(* Redis drops a key at the end of its time to live. *)
CacheExpires(u) ==
  /\ cached[u] # "absent"
  /\ cached' = [cached EXCEPT ![u] = "absent"]
  /\ UNCHANGED <<gateway, now, tables, call, pins, failed>>

Tick ==
  /\ now < MaxTime
  /\ now' = now + 1
  /\ UNCHANGED <<gateway, tables, cached, call, pins, failed>>

Message(s) ==
  \/ \E u \in Users : HandleConnection(s, u)
  \/ HandleDisconnect(s)
  \/ \E v \in Viewports : OnTrackSubscribe(s, v)
  \/ OnTrackUnsubscribe(s)
  \/ \E c \in Calls, p \in Places : OnLocationUpdate(c, s, p)
  \/ OnOfferSubmit(s)
  \/ OnOfferAccept(s)

Request(c, u) ==
  \/ \E online \in BOOLEAN : UpdateStatus(c, u, online)
  \/ \E p \in Places : UpdateLocation(c, u, p)
  \/ SwitchToDriver(c, u)
  \/ SwitchToRider(c, u)
  \/ CreateRide(c, u)

Continue(c) ==
  \/ CacheGet(c) \/ CacheFind(c) \/ CacheSet(c) \/ NotFound(c)
  \/ WriteMode(c) \/ Write(c) \/ Emit(c) \/ Abort(c)
  \/ (\E v \in Viewports : Match(c, v)) \/ HandleRideRequestCreated(c)

Next ==
  \/ \E s \in Sockets : Message(s)
  \/ \E c \in Calls, u \in Users : Request(c, u)
  \/ \E c \in Calls : Continue(c)
  \/ \E u \in Users : Approve(u) \/ CacheExpires(u)
  \/ Tick \/ Crash

Spec == Init /\ [][Next]_vars

----------------------------------------------------------------------------
(* findIdentityByUserId never answers "no profile" to a call that began when  *)
(* there was one, whatever null or identity other calls stored in between:    *)
(* "this cache holds nothing that can go stale" (drivers.service.ts).         *)
LookupNotStale ==
  \A c \in Calls : call[c].pc = "write" /\ call[c].had => call[c].found

Connected(u) == \E s \in Sockets : socketUser[s] = u

(* The map subscriptions are of connected users only, however many sockets a  *)
(* user opens and closes: events are not computed for riders who left.        *)
SubscriberIsConnected == \A u \in Users : tracking[u] # None => Connected(u)

(* The moments of ts in the window of the limiter's length that begins at start. *)
InWindow(ts, start) == {i \in DOMAIN ts : ts[i] \in start..(start + Window - 1)}

(* What is left of the "Per-user-per-event limits" (RealtimeGateway) when     *)
(* closing any socket of a user, or a restart, drops the timestamps of all of *)
(* them (WsRateLimiter.consume, clear): a window has at most Limit messages   *)
(* of the user that were let through, and as many again for each time that    *)
(* this happened in it. Without the second term it does not hold.             *)
WithinLimit ==
  \A l \in Limiters, u \in Users, start \in 0..now :
     Cardinality(InWindow(passed[l][u], start))
       =< Limit * (1 + Cardinality(InWindow(cleared[u], start)))

(* A caller is refused only when over the limit (the comment of consume):     *)
(* whoever would be refused now did get Limit messages through in the window  *)
(* that ends now. Refused messages do not count, so a user who keeps trying   *)
(* is not shut out for longer.                                                *)
RefusesAtLimit ==
  \A l \in Limiters, u \in Users :
     ~ Allows(hits[l][u], now) =>
        Cardinality({i \in DOMAIN passed[l][u] : passed[l][u][i] > now - Window}) >= Limit

(* Leaving driver mode drops the driver out of the matching pool: a user in   *)
(* rider mode is online only while setActiveProfile still has goOffline to    *)
(* do, or because goOffline failed after the mode was written.                *)
SwitchInFlight(u) ==
  \E c \in Calls : call[c].user = u /\ call[c].kind = "switch" /\ call[c].pc # "emit"

RiderModeIsOffline ==
  \A u \in Users :
     activeProfile[u] = "RIDER" /\ isOnline[u] =>
        SwitchInFlight(u) \/ <<"switch", u>> \in failed

(* A rider's request is not broadcast to themselves as a driver, to bid on     *)
(* their own ride (no check of submitOffer would refuse it), whatever         *)
(* switches, reports and disconnections came before; a switch that failed     *)
(* after it wrote the mode may have left them in the pool.                    *)
RideNotToOwner ==
  \A c \in Calls :
     call[c].pc = "notify" /\ call[c].user \in call[c].targets
        => <<"switch", call[c].user>> \in failed

(* "Both paths keep the map current" (updateLocation): while a driver whose   *)
(* stored place is in the viewport of a rider has no report under way, a pin  *)
(* of theirs on the rider's map is at that place.  A report that failed may   *)
(* have been stored and not pushed.                                           *)
ReportInFlight(d) ==
  \E c \in Calls : call[c].user = d /\ call[c].kind = "location"

PinIsCurrent ==
  \A r, d \in Users :
     /\ r \in Watchers(place[d])
     /\ ~ ReportInFlight(d)
     /\ <<"location", d>> \notin failed
     => \A x \in PinsOf(r, d) : x[2] = place[d]

============================================================================
