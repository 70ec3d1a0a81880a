----------------------------- MODULE EmailWorker ------------------------------
(***************************************************************************)
(* The send path: queue/email.worker.ts (processEmailJob, createEmailWorker *)
(* and maybeCompleteCampaign) over the EmailJob and Campaign rows in        *)
(* Postgres, the BullMQ queue and the hourly counters in Redis.             *)
(*                                                                          *)
(* A worker is one concurrency slot of one worker process.  Every await of  *)
(* the processor is a point where other slots, processes and failures may   *)
(* intervene, so each database statement, Redis script and SMTP exchange is *)
(* one action, and pc says which comes next:                                *)
(*                                                                          *)
(*   idle -> load -> admit -> claim -> send -> sent -> count -> complete    *)
(*                     |        |        |\-> retry -> throw                *)
(*                     |        |        \--> fail -> count                 *)
(*                     |        \-> refund -> done                          *)
(*                     \-> deferAdd -> deferSave -> done                    *)
(*                                                                          *)
(* done and throw hand the outcome to the library. This module is the       *)
(* system with RECONCILE_ON_BOOT=false: a restarted process starts to       *)
(* consume at once.                                                         *)
(***************************************************************************)
EXTENDS RateWindow, JobQueue

CONSTANTS
  Processes,       \* worker processes
  procOf,          \* the process of each slot
  Campaigns,
  campaignOf,      \* EmailJob.campaignId
  senderOf,        \* EmailJob.senderId, persisted when the row is created
  MaxAttempts,     \* EmailJob.maxAttempts
  Skew,            \* bound: how many hours early a delayed job may fire
  MishapBound,     \* bound: how often each kind of mishap happens
  MaxMishaps       \* bound: how many mishaps happen in all

Mishaps == {"crash", "liveStall", "dbError", "lostAck"}

ASSUME WorkerConfig ==
  /\ procOf \in [Workers -> Processes]
  /\ campaignOf \in [Emails -> Campaigns]
  /\ senderOf \in [Emails -> Senders]
  /\ MaxAttempts \in Nat \ {0}
  /\ Skew \in Nat
  /\ MishapBound \in [Mishaps -> Nat]
  /\ MaxMishaps \in Nat

VARIABLES
  hour,         \* the UTC hour of the clock all processes read
  used,         \* the Redis counters of the rate limiter
  status,       \* EmailJob.status
  attempts,     \* EmailJob.attempts
  child,        \* EmailJob.bullJobId: n of its -dn suffix, 0 for the bare key
  scheduledAt,  \* EmailJob.scheduledAt, as an hour
  lockedAt,     \* EmailJob.lockedAt: null, or on which side of the threshold
  campaign,     \* Campaign.status
  queue,        \* the BullMQ entries
  up,           \* which processes run
  pc, cur, mem, \* per slot: next step, job being processed, locals
  accepted,     \* history: messages for this email that SMTP accepted
  refused,      \* history: SMTP refused this email permanently
  mishaps       \* how often each kind of mishap has happened

rowVars == <<status, attempts, child, scheduledAt, lockedAt>>
slotVars == <<pc, cur, mem>>
history == <<accepted, refused>>
env == <<hour, up, mishaps>>
vars == <<env, used, rowVars, campaign, queue, slotVars, history>>

Statuses == {"SCHEDULED", "QUEUED", "PROCESSING", "SENT", "FAILED", "CANCELLED"}
Claimable == {"SCHEDULED", "QUEUED"}
NonTerminal == {"SCHEDULED", "QUEUED", "PROCESSING"}

Labels == {"idle", "load", "admit", "deferAdd", "deferSave", "claim", "refund",
           "send", "sent", "retry", "fail", "count", "complete", "done", "throw"}

Memory ==
  [deferrals : 0..MaxDeferrals,  \* job.data.deferrals ?? 0
   attempts : Nat,               \* row.attempts as it was loaded
   bucket : Hours,               \* the hour captured by tryConsume or refund
   due : Nat]                    \* newScheduledAt

NoMemory == [deferrals |-> 0, attempts |-> 0, bucket |-> 0, due |-> 0]

TypeOK ==
  /\ hour \in Hours
  /\ used \in Counters
  /\ status \in [Emails -> Statuses]
  /\ attempts \in [Emails -> Nat]
  /\ child \in [Emails -> 0..MaxDeferrals]
  /\ scheduledAt \in [Emails -> Nat]
  /\ lockedAt \in [Emails -> {"null", "fresh", "stale"}]
  /\ campaign \in [Campaigns -> {"SCHEDULED", "COMPLETED", "CANCELLED"}]
  /\ queue \in [JobIds -> Entry]
  /\ up \in [Processes -> BOOLEAN]
  /\ pc \in [Workers -> Labels]
  /\ cur \in [Workers -> JobIds]
  /\ mem \in [Workers -> Memory]
  /\ accepted \in [Emails -> Nat]
  /\ refused \in [Emails -> BOOLEAN]
  /\ mishaps \in [Mishaps -> Nat]

\* The rows as createCampaign's transaction leaves them, all due in the first
\* hour, and idle workers.
Committed ==
  /\ hour = 0
  /\ used = NoneUsed
  /\ status = [e \in Emails |-> "SCHEDULED"]
  /\ attempts = [e \in Emails |-> 0]
  /\ child = [e \in Emails |-> 0]
  /\ scheduledAt = [e \in Emails |-> 0]
  /\ lockedAt = [e \in Emails |-> "null"]
  /\ campaign = [c \in Campaigns |-> "SCHEDULED"]
  /\ up = [p \in Processes |-> TRUE]
  /\ pc = [w \in Workers |-> "idle"]
  /\ cur = [w \in Workers |-> SomeJob]
  /\ mem = [w \in Workers |-> NoMemory]
  /\ accepted = [e \in Emails |-> 0]
  /\ refused = [e \in Emails |-> FALSE]
  /\ mishaps = [m \in Mishaps |-> 0]

\* ... and every row has been enqueued.
Init ==
  /\ Committed
  /\ queue = [id \in JobIds |-> IF id[2] = 0 THEN Fresh(0, 0) ELSE NoEntry]

Email(w) == cur[w][1]
Sender(w) == senderOf[Email(w)]

At(w, l) == pc[w] = l
Goto(w, l) == pc' = [pc EXCEPT ![w] = l]

Suffer(m) ==
  /\ mishaps[m] < MishapBound[m]
  /\ mishaps["crash"] + mishaps["liveStall"] + mishaps["dbError"] + mishaps["lostAck"]
       < MaxMishaps
  /\ mishaps' = [mishaps EXCEPT ![m] = @ + 1]

-------------------------------------------------------------------------------
\* The library hands a due job to an idle slot.
TakeJob(w, id) ==
  /\ At(w, "idle") /\ up[procOf[w]]
  /\ queue[id].state = "pending"
  /\ hour + Skew >= queue[id].due
  /\ queue' = StartJob(queue, id, w)
  /\ cur' = [cur EXCEPT ![w] = id]
  /\ mem' = [mem EXCEPT ![w].deferrals = queue[id].deferrals]
  /\ Goto(w, "load")
  /\ UNCHANGED <<env, used, rowVars, campaign, history>>

\* 1. findUnique, then tryConsume is called and captures the hour.
Load(w) ==
  /\ At(w, "load")
  /\ mem' = [mem EXCEPT ![w].attempts = attempts[Email(w)], ![w].bucket = hour]
  /\ Goto(w, "admit")
  /\ UNCHANGED <<env, used, rowVars, campaign, queue, cur, history>>

\* 2. rlConsume admits the job.
Admit(w) ==
  /\ At(w, "admit")
  /\ HasRoom(used, Sender(w), mem[w].bucket)
  /\ used' = Consume(used, Sender(w), mem[w].bucket)
  /\ Goto(w, "claim")
  /\ UNCHANGED <<env, rowVars, campaign, queue, cur, mem, history>>

\* 2. rlConsume rejects it. The delay was computed for the captured hour, so it
\* may end in the current hour if that has begun meanwhile.
Blocked(w) ==
  /\ At(w, "admit")
  /\ ~HasRoom(used, Sender(w), mem[w].bucket)
  /\ \E due \in {hour, hour + 1} :
       /\ due > mem[w].bucket
       /\ mem' = [mem EXCEPT ![w].due = due]
  /\ Goto(w, "deferAdd")
  /\ UNCHANGED <<env, used, rowVars, campaign, queue, cur, history>>

\* Fault: the child takes the parent's own id.
AddChildReusingId(w) ==
  /\ At(w, "deferAdd")
  /\ queue' = AddEmailJob(queue, cur[w], mem[w].deferrals, mem[w].due)
  /\ Goto(w, "deferSave")
  /\ UNCHANGED <<env, used, rowVars, campaign, cur, mem, history>>

\* The child job is added under the next deferral number.
AddChild(w) ==
  LET n == mem[w].deferrals + 1 IN
  /\ At(w, "deferAdd")
  /\ n <= MaxDeferrals
  /\ queue' = AddEmailJob(queue, <<Email(w), n>>, n, mem[w].due)
  /\ Goto(w, "deferSave")
  /\ UNCHANGED <<env, used, rowVars, campaign, cur, mem, history>>

\* Fault: the deferral writes the status as well.
SaveDeferralRescheduling(w) ==
  /\ At(w, "deferSave")
  /\ scheduledAt' = [scheduledAt EXCEPT ![Email(w)] = mem[w].due]
  /\ child' = [child EXCEPT ![Email(w)] = mem[w].deferrals + 1]
  /\ status' = [status EXCEPT ![Email(w)] = "SCHEDULED"]
  /\ Goto(w, "done")
  /\ UNCHANGED <<env, used, attempts, lockedAt, campaign, queue, cur, mem, history>>

\* The row records the new time and the child's id; its status stays.
SaveDeferral(w) ==
  /\ At(w, "deferSave")
  /\ scheduledAt' = [scheduledAt EXCEPT ![Email(w)] = mem[w].due]
  /\ child' = [child EXCEPT ![Email(w)] = mem[w].deferrals + 1]
  /\ Goto(w, "done")
  /\ UNCHANGED <<env, used, status, attempts, lockedAt, campaign, queue, cur, mem,
                 history>>

\* Fault: the claim checks only that the row is not finished.
ClaimUnfinished(w) ==
  LET e == Email(w) IN
  /\ At(w, "claim")
  /\ status[e] \in NonTerminal
  /\ status' = [status EXCEPT ![e] = "PROCESSING"]
  /\ lockedAt' = [lockedAt EXCEPT ![e] = "fresh"]
  /\ attempts' = [attempts EXCEPT ![e] = @ + 1]
  /\ Goto(w, "send")
  /\ UNCHANGED <<env, used, child, scheduledAt, campaign, queue, cur, mem, history>>

\* Fault: the claim goes by id only.
ClaimById(w) ==
  LET e == Email(w) IN
  /\ At(w, "claim")
  /\ status' = [status EXCEPT ![e] = "PROCESSING"]
  /\ lockedAt' = [lockedAt EXCEPT ![e] = "fresh"]
  /\ attempts' = [attempts EXCEPT ![e] = @ + 1]
  /\ Goto(w, "send")
  /\ UNCHANGED <<env, used, child, scheduledAt, campaign, queue, cur, mem, history>>

\* 3. The conditional update found the row claimable.
Claim(w) ==
  LET e == Email(w) IN
  /\ At(w, "claim")
  /\ status[e] \in Claimable
  /\ status' = [status EXCEPT ![e] = "PROCESSING"]
  /\ lockedAt' = [lockedAt EXCEPT ![e] = "fresh"]
  /\ attempts' = [attempts EXCEPT ![e] = @ + 1]
  /\ Goto(w, "send")
  /\ UNCHANGED <<env, used, child, scheduledAt, campaign, queue, cur, mem, history>>

\* 3. It did not: refund is called and captures the hour.
ClaimLost(w) ==
  /\ At(w, "claim")
  /\ status[Email(w)] \notin Claimable
  /\ mem' = [mem EXCEPT ![w].bucket = hour]
  /\ Goto(w, "refund")
  /\ UNCHANGED <<env, used, rowVars, campaign, queue, cur, history>>

RunRefund(w) ==
  /\ At(w, "refund")
  /\ used' = Refund(used, Sender(w), mem[w].bucket)
  /\ Goto(w, "done")
  /\ UNCHANGED <<env, rowVars, campaign, queue, cur, mem, history>>

\* 4. SMTP accepts the message and the answer arrives.
SendAccepted(w) ==
  /\ At(w, "send")
  /\ accepted' = [accepted EXCEPT ![Email(w)] = @ + 1]
  /\ Goto(w, "sent")
  /\ UNCHANGED <<env, used, rowVars, campaign, queue, cur, mem, refused>>

\* Fault: the last attempt is retried as well.
AfterTransientOffByOne(w) ==
  IF mem[w].attempts + 1 <= MaxAttempts THEN "retry" ELSE "fail"

\* Fault: the deferrals count as attempts.
AfterTransientDeferred(w) ==
  IF mem[w].attempts + mem[w].deferrals + 1 < MaxAttempts THEN "retry" ELSE "fail"

\* attemptNo < row.maxAttempts, with attemptNo from the row as it was loaded.
AfterTransient(w) ==
  IF mem[w].attempts + 1 < MaxAttempts THEN "retry" ELSE "fail"

\* 4. A retryable error.
SendTransient(w) ==
  /\ At(w, "send")
  /\ Goto(w, AfterTransient(w))
  /\ UNCHANGED <<env, used, rowVars, campaign, queue, cur, mem, history>>

\* 4. The server accepted, the connection died before its answer: ECONNRESET
\* and ETIMEDOUT are retryable.
SendAckLost(w) ==
  /\ At(w, "send")
  /\ Suffer("lostAck")
  /\ accepted' = [accepted EXCEPT ![Email(w)] = @ + 1]
  /\ Goto(w, AfterTransient(w))
  /\ UNCHANGED <<hour, up, used, rowVars, campaign, queue, cur, mem, refused>>

\* 4. A permanent error: EAUTH, EENVELOPE or a 5xx reply.
SendRefused(w) ==
  /\ At(w, "send")
  /\ refused' = [refused EXCEPT ![Email(w)] = TRUE]
  /\ Goto(w, "fail")
  /\ UNCHANGED <<env, used, rowVars, campaign, queue, cur, mem, accepted>>

\* 5. to 7. write the result by id, whatever the row says by then.
WriteResult(w, here, result, next) ==
  /\ At(w, here)
  /\ status' = [status EXCEPT ![Email(w)] = result]
  /\ Goto(w, next)
  /\ UNCHANGED <<env, used, attempts, child, scheduledAt, lockedAt, campaign, queue,
                 cur, mem, history>>

WriteSent(w) == WriteResult(w, "sent", "SENT", "count")

\* Fault: the processor returns instead of throwing.
WriteRetryReturning(w) == WriteResult(w, "retry", "SCHEDULED", "done")

\* Fault: the row is left in PROCESSING.
WriteRetryKeeping(w) == WriteResult(w, "retry", "PROCESSING", "throw")

WriteRetry(w) == WriteResult(w, "retry", "SCHEDULED", "throw")

\* Fault: only a success checks whether the campaign is complete.
WriteFailedSilently(w) == WriteResult(w, "fail", "FAILED", "done")

WriteFailed(w) == WriteResult(w, "fail", "FAILED", "count")

\* Fault: rows that a worker is sending do not count as remaining.
RemainingUnclaimed(c) ==
  {e \in Emails : campaignOf[e] = c /\ status[e] \in Claimable}

Remaining(c) ==
  {e \in Emails : campaignOf[e] = c /\ status[e] \in NonTerminal}

\* maybeCompleteCampaign: the count ...
CountRemaining(w) ==
  /\ At(w, "count")
  /\ Goto(w, IF Remaining(campaignOf[Email(w)]) = {} THEN "complete" ELSE "done")
  /\ UNCHANGED <<env, used, rowVars, campaign, queue, cur, mem, history>>

\* Fault: the update is not conditional.
CompleteAnyCampaign(w) ==
  /\ At(w, "complete")
  /\ campaign' = [campaign EXCEPT ![campaignOf[Email(w)]] = "COMPLETED"]
  /\ Goto(w, "done")
  /\ UNCHANGED <<env, used, rowVars, queue, cur, mem, history>>

\* ... and the conditional update. RUNNING is accepted there too, but no
\* statement writes it.
CompleteCampaign(w) ==
  LET c == campaignOf[Email(w)] IN
  /\ At(w, "complete")
  /\ campaign' = [campaign EXCEPT ![c] = IF @ = "SCHEDULED" THEN "COMPLETED" ELSE @]
  /\ Goto(w, "done")
  /\ UNCHANGED <<env, used, rowVars, queue, cur, mem, history>>

Release(w) ==
  /\ cur' = [cur EXCEPT ![w] = SomeJob]
  /\ mem' = [mem EXCEPT ![w] = NoMemory]
  /\ Goto(w, "idle")

\* The processor returned.
FinishJob(w) ==
  /\ At(w, "done")
  /\ queue' = MoveToCompleted(queue, cur[w], w)
  /\ Release(w)
  /\ UNCHANGED <<env, used, rowVars, campaign, history>>

\* The processor threw.
ThrowJob(w) ==
  /\ At(w, "throw")
  /\ queue' = MoveToFailed(queue, cur[w], w)
  /\ Release(w)
  /\ UNCHANGED <<env, used, rowVars, campaign, history>>

-------------------------------------------------------------------------------
\* A statement is rejected by Postgres: the processor throws where it stands.
\* admit and refund read the sender's limit first. Redis commands wait for the
\* connection instead (maxRetriesPerRequest: null) and sendEmail never throws.
UsesDatabase == {"load", "admit", "deferSave", "claim", "refund", "sent", "retry",
                 "fail", "count", "complete"}

DbError(w) ==
  /\ pc[w] \in UsesDatabase
  /\ Suffer("dbError")
  /\ Goto(w, "throw")
  /\ UNCHANGED <<hour, up, used, rowVars, campaign, queue, cur, mem, history>>

\* Some slot still runs the processor for this job.
BeingProcessed(id) == \E w \in Workers : HoldsLock(queue, id, w) /\ pc[w] # "idle"
                                         /\ cur[w] = id

\* The lock of a job expires and a running process's stalled check finds it:
\* the holder's process died, or ...
Stall(id) ==
  /\ queue[id].state = "active"
  /\ ~BeingProcessed(id)
  /\ \E p \in Processes : up[p]
  /\ queue' = MoveStalledToWait(queue, id)
  /\ UNCHANGED <<env, used, rowVars, campaign, slotVars, history>>

\* ... its event loop was blocked for longer than LOCK_DURATION_MS and it
\* carries on without the lock.
LiveStall(id) ==
  /\ BeingProcessed(id)
  /\ Suffer("liveStall")
  /\ queue' = MoveStalledToWait(queue, id)
  /\ UNCHANGED <<hour, up, used, rowVars, campaign, slotVars, history>>

\* A process dies between two of its steps: power, OOM, or the forced exit of
\* a shutdown that takes longer than FORCE_EXIT_MS.
Crash(p) ==
  /\ up[p]
  /\ Suffer("crash")
  /\ up' = [up EXCEPT ![p] = FALSE]
  /\ pc' = [w \in Workers |-> IF procOf[w] = p THEN "idle" ELSE pc[w]]
  /\ cur' = [w \in Workers |-> IF procOf[w] = p THEN SomeJob ELSE cur[w]]
  /\ mem' = [w \in Workers |-> IF procOf[w] = p THEN NoMemory ELSE mem[w]]
  /\ UNCHANGED <<hour, used, rowVars, campaign, queue, history>>

Restart(p) ==
  /\ ~up[p]
  /\ up' = [up EXCEPT ![p] = TRUE]
  /\ UNCHANGED <<hour, mishaps, used, rowVars, campaign, queue, slotVars, history>>

Tick ==
  /\ hour < MaxHour
  /\ hour' = hour + 1
  /\ UNCHANGED <<up, mishaps, used, rowVars, campaign, queue, slotVars, history>>

-------------------------------------------------------------------------------
\* The processor's own next step.
Step(w) ==
  \/ Load(w) \/ Admit(w) \/ Blocked(w) \/ AddChild(w) \/ SaveDeferral(w)
  \/ Claim(w) \/ ClaimLost(w) \/ RunRefund(w)
  \/ SendAccepted(w) \/ SendTransient(w) \/ SendAckLost(w) \/ SendRefused(w)
  \/ WriteSent(w) \/ WriteRetry(w) \/ WriteFailed(w)
  \/ CountRemaining(w) \/ CompleteCampaign(w) \/ FinishJob(w) \/ ThrowJob(w)

Next ==
  \/ \E w \in Workers : Step(w) \/ DbError(w)
  \/ \E w \in Workers, id \in JobIds : TakeJob(w, id)
  \/ \E id \in JobIds : Stall(id) \/ LiveStall(id)
  \/ \E p \in Processes : Crash(p) \/ Restart(p)
  \/ Tick

Spec == Init /\ [][Next]_vars

\* Node runs every ready continuation, a live worker polls the queue and runs
\* its stalled check on a timer, and the clock advances. That a process crashes
\* or is started again is never assumed.
Fairness ==
  /\ \A w \in Workers : WF_vars(Step(w))
  /\ \A id \in JobIds : WF_vars(\E w \in Workers : TakeJob(w, id))
  /\ \A id \in JobIds : WF_vars(Stall(id))
  /\ WF_vars(Tick)

FairSpec == Spec /\ Fairness
-------------------------------------------------------------------------------
\* The slot holds the claim: it has set PROCESSING and not yet written a result.
HoldsClaim(w) == pc[w] \in {"send", "sent", "retry", "fail"}

\* Two slots never send the same email at the same time, whatever crashes, is
\* redelivered or is enqueued twice: "exactly one sees count === 1"
\* (email.worker.ts:160).
ClaimExclusive ==
  \A w1, w2 \in Workers :
    HoldsClaim(w1) /\ HoldsClaim(w2) /\ Email(w1) = Email(w2) => w1 = w2

\* SMTP accepts an email once, however often the job is redelivered; only an
\* answer that is lost on its way back can make it more.
NoDuplicate == \A e \in Emails : accepted[e] <= 1 + mishaps["lostAck"]

QueuedAgain(e) == \E n \in 0..MaxDeferrals : queue[<<e, n>>].state \in {"pending", "active"}

\* A row that waits to be sent has a queue entry that will run: no interleaving
\* of deferrals, retries and lost answers drops an email.
NoneStranded ==
  (\A m \in Mishaps \ {"lostAck"} : mishaps[m] = 0)
    => \A e \in Emails : status[e] \in Claimable => QueuedAgain(e)

\* Without a crash or a rejected statement, every PROCESSING row is being sent.
ProcessingIsOwned ==
  (mishaps["dbError"] = 0 /\ mishaps["crash"] = 0)
    => \A e \in Emails : status[e] = "PROCESSING" =>
         \E w \in Workers : HoldsClaim(w) /\ Email(w) = e

\* An email fails only when SMTP refused it for good or every attempt was used:
\* being rate limited never costs an attempt (email.worker.ts:88).
FailedForCause ==
  \A e \in Emails :
    status[e] = "FAILED" => refused[e] \/ attempts[e] >= MaxAttempts

\* While each email has one queue entry, it is tried at most maxAttempts times.
AttemptsBounded ==
  (\A m \in Mishaps \ {"lostAck"} : mishaps[m] = 0)
    => \A e \in Emails : attempts[e] <= MaxAttempts

\* The row's verdict is what SMTP did: SENT was accepted, and FAILED was not
\* unless an answer was lost.
VerdictIsTrue ==
  \A e \in Emails :
    /\ status[e] = "SENT" => accepted[e] > 0
    /\ status[e] = "FAILED" => accepted[e] <= mishaps["lostAck"]

\* A completed campaign has nothing left to send, although the count and the
\* update of maybeCompleteCampaign are two statements (email.worker.ts:48).
CompletedIsSettled ==
  \A c \in Campaigns : campaign[c] = "COMPLETED" => Remaining(c) = {}

\* No step takes an email back from SENT or FAILED, although results are
\* written by id without looking at the status (email.worker.ts:210, :234, :257).
VerdictIsFinal ==
  [][\A e \in Emails : status[e] \in {"SENT", "FAILED"} => status'[e] = status[e]]_vars

PhaseOf(st) ==
  CASE st \in Claimable -> "waiting"
    [] st = "PROCESSING" -> "sending"
    [] st = "SENT" -> "sent"
    [] OTHER -> "failed"

Delivery == INSTANCE EmailDelivery WITH
  phase <- [e \in Emails |-> PhaseOf(status[e])],
  tries <- attempts,
  delivered <- [e \in Emails |-> accepted[e] > 0],
  closed <- [c \in Campaigns |-> campaign[c] = "COMPLETED"]

\* The send path keeps the promise of EmailDelivery: rows, claims, redelivered
\* jobs, crashed processes and rejected statements included, as long as no
\* answer of SMTP is lost.
DeliverySpec == Delivery!Spec

\* The bound of the model shows: a job has been deferred past the last hour.
ClockRanOut == \E id \in JobIds : queue[id].state = "pending" /\ queue[id].due > MaxHour

\* Every email gets its verdict, through any number of rejected admissions and
\* retries, unless the model's hours run out first.
EventuallySettled ==
  \A e \in Emails : <>(status[e] \in {"SENT", "FAILED"} \/ ClockRanOut)

\* Every campaign is completed, whichever slot settles its last email and
\* although failures count as well (email.worker.ts:44).
EventuallyCompleted ==
  \A c \in Campaigns : <>(campaign[c] = "COMPLETED" \/ ClockRanOut)
===============================================================================
