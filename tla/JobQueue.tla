------------------------------- MODULE JobQueue -------------------------------
(***************************************************************************)
(* The BullMQ queue "email-send" as pure operators on a map from job ids to *)
(* entries: what email.queue.ts and the worker of email.worker.ts use of    *)
(* it.  Each operator is one Lua script of the library, hence atomic.       *)
(*                                                                          *)
(* A job id is <<e, n>>: the idempotency key of email e for n = 0, and that *)
(* key with the suffix -dn for n > 0.  "delayed" and "waiting" are one      *)
(* state, pending: a pending job may start once its due hour has come.  The *)
(* retry backoff (5s, 10s, ...) is shorter than an hour and is not timed.   *)
(***************************************************************************)
EXTENDS Naturals

CONSTANTS
  Emails,
  Workers,         \* slots: WORKER_CONCURRENCY of them in every worker process
  NoWorker,
  MaxDeferrals,    \* bound: the highest -dN suffix
  MaxJobAttempts,  \* MAX_JOB_ATTEMPTS: the library's own attempts per job
  MaxStalls        \* the library's maxStalledCount

ASSUME QueueConfig ==
  /\ Emails # {}
  /\ NoWorker \notin Workers
  /\ MaxDeferrals \in Nat
  /\ MaxJobAttempts \in Nat \ {0}
  /\ MaxStalls \in Nat

JobIds == Emails \X (0..MaxDeferrals)
SomeJob == CHOOSE id \in JobIds : TRUE

JobStates == {"none", "pending", "active", "completed", "failed"}

Entry ==
  [state : JobStates,
   deferrals : 0..MaxDeferrals,      \* the payload's deferral counter
   tries : Nat,                      \* attemptsMade
   stalls : Nat,                     \* stalledCounter
   due : Nat,                        \* the hour the delay ends in
   holder : Workers \cup {NoWorker}] \* whose lock token the entry carries

NoEntry ==
  [state |-> "none", deferrals |-> 0, tries |-> 0, stalls |-> 0, due |-> 0,
   holder |-> NoWorker]

Fresh(deferrals, due) ==
  [NoEntry EXCEPT !.state = "pending", !.deferrals = deferrals, !.due = due]

\* addEmailJob: an id that is taken, in whatever state, makes this a no-op.
AddEmailJob(q, id, deferrals, due) ==
  IF q[id].state = "none" THEN [q EXCEPT ![id] = Fresh(deferrals, due)] ELSE q

StartJob(q, id, w) == [q EXCEPT ![id].state = "active", ![id].holder = w]

HoldsLock(q, id, w) == q[id].state = "active" /\ q[id].holder = w

\* The processor returned. Without the lock the library rejects the move.
MoveToCompleted(q, id, w) ==
  IF HoldsLock(q, id, w)
  THEN [q EXCEPT ![id].state = "completed", ![id].holder = NoWorker]
  ELSE q

\* The processor threw: back to delayed, or to the failed set once the
\* attempts are used up.
MoveToFailed(q, id, w) ==
  IF HoldsLock(q, id, w)
  THEN [q EXCEPT ![id] =
          [q[id] EXCEPT !.state = IF q[id].tries + 1 < MaxJobAttempts
                                  THEN "pending" ELSE "failed",
                        !.tries = q[id].tries + 1,
                        !.holder = NoWorker]]
  ELSE q

\* The stalled check found the lock expired: the job is redelivered, or failed
\* once it has stalled more than MaxStalls times.
MoveStalledToWait(q, id) ==
  [q EXCEPT ![id] =
     [q[id] EXCEPT !.state = IF q[id].stalls + 1 > MaxStalls
                             THEN "failed" ELSE "pending",
                   !.stalls = q[id].stalls + 1,
                   !.holder = NoWorker]]
===============================================================================
