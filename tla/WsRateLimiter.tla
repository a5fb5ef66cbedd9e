--------------------------- MODULE WsRateLimiter ---------------------------
(***************************************************************************)
(* WsRateLimiter, the sliding-window limiter of the gateway's messages, as   *)
(* operators on the timestamps it keeps for one user.                        *)
(***************************************************************************)
EXTENDS Integers, Sequences

CONSTANTS
  Limit,    \* messages allowed per window
  Window    \* windowMs

ASSUME LimiterAssumption == Limit \in Nat /\ Window \in Nat

(* timestamps.filter((t) => t > windowStart), a recursive function that the   *)
(* proofs can unfold where SelectSeq cannot be.                               *)
After(timestamps, windowStart) ==
  LET kept[i \in 0..Len(timestamps)] ==
        IF i = 0 THEN <<>>
        ELSE IF timestamps[i] > windowStart THEN Append(kept[i - 1], timestamps[i])
        ELSE kept[i - 1]
  IN  kept[Len(timestamps)]

(* Mutant of Recent: a timestamp is dropped one tick early. *)
RecentEarly(timestamps, now) == After(timestamps, now - Window + 1)

(* The timestamps that still count at time now. *)
Recent(timestamps, now) == After(timestamps, now - Window)

(* Mutant of Allows: one message too many. *)
AllowsOneMore(timestamps, now) == Len(Recent(timestamps, now)) =< Limit

(* What consume answers ... *)
Allows(timestamps, now) == Len(Recent(timestamps, now)) < Limit

(* Mutant of Consumed: a refused message counts too. *)
ConsumedAlways(timestamps, now) == Append(Recent(timestamps, now), now)

(* ... and what it stores: the message is recorded only when it is allowed. *)
Consumed(timestamps, now) ==
  IF Allows(timestamps, now) THEN Append(Recent(timestamps, now), now)
                             ELSE Recent(timestamps, now)

============================================================================
