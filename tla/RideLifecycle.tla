--------------------------- MODULE RideLifecycle ---------------------------
(***************************************************************************)
(* What the negotiation promises, with each operation a single step: a       *)
(* rider opens a request, drivers bid for it, one bid becomes the deal, and  *)
(* the ride is started and completed unless it is cancelled first.  There    *)
(* are no handlers, timers, jobs or failures here.                           *)
(***************************************************************************)
CONSTANTS Users, Drivers, Requests, Fares, None

VARIABLES
  phase,   \* [Requests -> Phase]
  owner,   \* [Requests -> Users \cup {None}]: who opened it
  bid,     \* [Requests -> [Drivers -> Fares \cup {None}]]: the standing bids
  deal     \* [Requests -> Deal \cup {None}]

lifecycle == <<phase, owner, bid, deal>>

Phase == {"none", "open", "matched", "started", "completed", "cancelled"}
Deal  == [driver: Drivers, rider: Users, fare: Fares]

NoBids == [d \in Drivers |-> None]

Init ==
  /\ phase = [r \in Requests |-> "none"]
  /\ owner = [r \in Requests |-> None]
  /\ bid = [r \in Requests |-> NoBids]
  /\ deal = [r \in Requests |-> None]

Move(r, from, to) ==
  /\ phase[r] \in from
  /\ phase' = [phase EXCEPT ![r] = to]

Open(r, u) ==
  /\ Move(r, {"none"}, "open")
  /\ owner' = [owner EXCEPT ![r] = u]
  /\ UNCHANGED <<bid, deal>>

(* A driver bids, or changes a standing bid. *)
Bid(r, d, fare) ==
  /\ phase[r] = "open"
  /\ bid' = [bid EXCEPT ![r][d] = fare]
  /\ UNCHANGED <<phase, owner, deal>>

(* A set of bids lapses: one that timed out, or all of a driver who left. *)
Lapse(rs, d) ==
  /\ bid' = [r \in Requests |-> IF r \in rs THEN [bid[r] EXCEPT ![d] = None] ELSE bid[r]]
  /\ UNCHANGED <<phase, owner, deal>>

(* The standing bid of d becomes the deal, on its terms; no bid stands any    *)
(* longer.                                                                    *)
Match(r, d) ==
  /\ bid[r][d] # None
  /\ Move(r, {"open"}, "matched")
  /\ deal' = [deal EXCEPT ![r] = [driver |-> d, rider |-> owner[r], fare |-> bid[r][d]]]
  /\ bid' = [bid EXCEPT ![r] = NoBids]
  /\ UNCHANGED owner

Cancel(r) ==
  /\ Move(r, {"open", "matched"}, "cancelled")
  /\ bid' = [bid EXCEPT ![r] = NoBids]
  /\ UNCHANGED <<owner, deal>>

Start(r) ==
  /\ Move(r, {"matched"}, "started")
  /\ UNCHANGED <<owner, bid, deal>>

Complete(r) ==
  /\ Move(r, {"started"}, "completed")
  /\ UNCHANGED <<owner, bid, deal>>

Next ==
  \/ \E r \in Requests :
       \/ \E u \in Users : Open(r, u)
       \/ \E d \in Drivers : Match(r, d) \/ (\E fare \in Fares : Bid(r, d, fare))
       \/ Cancel(r) \/ Start(r) \/ Complete(r)
  \/ \E rs \in SUBSET Requests, d \in Drivers : Lapse(rs, d)

Spec == Init /\ [][Next]_lifecycle

============================================================================
