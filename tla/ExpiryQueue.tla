---------------------------- MODULE ExpiryQueue ----------------------------
(***************************************************************************)
(* The BullMQ queue "offer-expiry" as the services use it: what each queue  *)
(* operation does to one job.  BullMQ is a library; the code in src/ sets   *)
(* the job ids, the delay, the attempts and the backoff, and leaves every   *)
(* other option at its default (finished jobs are kept, one job at a time,  *)
(* one stall tolerated).                                                    *)
(*                                                                          *)
(*   absent --add--> delayed --due--> waiting --take--> active              *)
(*   active --done--> completed                                             *)
(*   active --fail--> delayed (backoff) or failed (no attempt left)         *)
(*   active --stall--> waiting (first time) or failed                       *)
(***************************************************************************)
EXTENDS Naturals

CONSTANT MaxAttempts   \* attempts of a job before it is failed for good

ASSUME QueueAssumption == MaxAttempts \in Nat \ {0}

JobState == {"absent", "delayed", "waiting", "active", "completed", "failed"}

(* A job whose attempts are used up has failed. *)
Job == {j \in [state: JobState, attempts: 0..MaxAttempts, stalled: BOOLEAN] :
          j.attempts = MaxAttempts => j.state = "failed"}

AbsentJob  == [state |-> "absent", attempts |-> 0, stalled |-> FALSE]
DelayedJob == [state |-> "delayed", attempts |-> 0, stalled |-> FALSE]

(* Queue.add with a jobId: a job of that id, in any state, finished or not,  *)
(* makes the call a no-op.                                                  *)
Added(j) == IF j.state = "absent" THEN DelayedJob ELSE j

(* job.remove(): a job that a worker holds is locked and stays; the error is *)
(* swallowed by the caller.  Every other job goes, finished ones too.        *)
Removed(j) == IF j.state = "active" THEN j ELSE AbsentJob

Due(j)       == [j EXCEPT !.state = "waiting"]
Taken(j)     == [j EXCEPT !.state = "active"]
CompletedJob(j) == [j EXCEPT !.state = "completed"]

(* Mutant: one retry too many. *)
FailedAttemptOneMore(j) ==
  [j EXCEPT !.attempts = @ + 1,
            !.state = IF j.attempts <= MaxAttempts THEN "delayed" ELSE "failed"]

(* The handler threw: retried after the backoff while attempts are left. *)
FailedAttempt(j) ==
  [j EXCEPT !.attempts = @ + 1,
            !.state = IF j.attempts + 1 < MaxAttempts THEN "delayed" ELSE "failed"]

(* The worker died with the job: one stall is forgiven, the second is not. *)
Stalled(j) ==
  [j EXCEPT !.stalled = TRUE, !.state = IF j.stalled THEN "failed" ELSE "waiting"]

============================================================================
