------------------------------ MODULE Scheduler -------------------------------
(***************************************************************************)
(* The whole backend: the API process creates and cancels a campaign        *)
(* (services/campaign.service.ts) while worker processes boot, repair and   *)
(* send (Recovery).  A behaviour begins where the transaction of            *)
(* createCampaign has committed the rows; their entries are added after it, *)
(* one by one:                                                              *)
(*                                                                          *)
(*   create:  readBack -> enqueue ... enqueue -> answered                   *)
(*   cancel:  off -> commit -> remove ... remove -> off | failed            *)
(*                                                                          *)
(* Both run in the API process and end with it.                             *)
(***************************************************************************)
EXTENDS Recovery

CONSTANTS
  MaxCancels,    \* bound: requests to cancel a campaign
  MaxApiCrashes  \* bound: how often the API process dies

ASSUME SchedulerConfig == MaxCancels \in Nat /\ MaxApiCrashes \in Nat

VARIABLES
  create,      \* createCampaign: position, rows still to be enqueued
  cancel,      \* cancelCampaign: position, campaign, entries still to be removed
  cancels,     \* requests to cancel so far
  apiCrashes   \* deaths of the API process so far

apiVars == <<create, cancel, cancels, apiCrashes>>
sysVars == <<recVars, apiVars>>

CreateState ==
  [at : {"readBack", "enqueue", "answered", "dead"},
   rows : SUBSET [email : Emails, scheduledAt : Nat]]

CancelState ==
  [at : {"off", "commit", "remove", "failed"},
   of : Campaigns,
   rows : SUBSET [email : Emails, child : 0..MaxDeferrals],
   ids : SUBSET JobIds]    \* of the row in hand

NoCancel ==
  [at |-> "off", of |-> CHOOSE c \in Campaigns : TRUE, rows |-> {}, ids |-> {}]

SysTypeOK ==
  /\ RecTypeOK
  /\ create \in CreateState
  /\ cancel \in CancelState
  /\ cancels \in Nat /\ apiCrashes \in Nat

\* Committed, but nothing enqueued yet.
SysInit ==
  /\ Committed
  /\ queue = [id \in JobIds |-> NoEntry]
  /\ NoPassYet
  /\ create = [at |-> "readBack", rows |-> {}]
  /\ cancel = NoCancel
  /\ cancels = 0 /\ apiCrashes = 0

-------------------------------------------------------------------------------
\* createCampaign reads the ids of its rows back.
ReadBack ==
  /\ create.at = "readBack"
  /\ create' = [at |-> "enqueue",
                rows |-> {[email |-> e, scheduledAt |-> scheduledAt[e]] : e \in Emails}]
  /\ UNCHANGED <<recVars, cancel, cancels, apiCrashes>>

NextRow ==
  CHOOSE r \in create.rows :
    \A q \in create.rows : position[r.email] <= position[q.email]

EnqueueThen(rest) ==
  /\ create.at = "enqueue"
  /\ queue' = AddEmailJob(queue, <<NextRow.email, 0>>, 0, Later(NextRow.scheduledAt, hour))
  /\ create' = [at |-> IF rest = {} THEN "answered" ELSE "enqueue", rows |-> rest]
  /\ UNCHANGED <<env, used, rowVars, campaign, slotVars, history, recoveryVars, cancel,
                 cancels, apiCrashes>>

\* Fault: the loop stops before the last row.
EnqueueAllButLast ==
  LET rest == create.rows \ {NextRow} IN
  EnqueueThen(IF Cardinality(rest) <= 1 THEN {} ELSE rest)

\* One row after the other, in sequence.
Enqueue == EnqueueThen(create.rows \ {NextRow})

\* cancelCampaign reads the rows that are not finished ...
CancelRead(c) ==
  LET pending == {e \in Emails : campaignOf[e] = c /\ status[e] \in NonTerminal} IN
  /\ cancel.at \in {"off", "failed"}
  /\ cancels < MaxCancels
  /\ cancels' = cancels + 1
  /\ cancel' = [at |-> "commit", of |-> c, ids |-> {},
                rows |-> {[email |-> e, child |-> child[e]] : e \in pending}]
  /\ UNCHANGED <<recVars, create, apiCrashes>>

\* ... sets them and the campaign to CANCELLED in one transaction ...
CancelCommit ==
  LET c == cancel.of IN
  /\ cancel.at = "commit"
  /\ status' = [e \in Emails |->
       IF campaignOf[e] = c /\ status[e] \in NonTerminal THEN "CANCELLED" ELSE status[e]]
  /\ campaign' = [campaign EXCEPT ![c] = "CANCELLED"]
  /\ cancel' = [cancel EXCEPT !.at = "remove"]
  /\ UNCHANGED <<env, used, attempts, child, scheduledAt, lockedAt, queue, slotVars,
                 history, recoveryVars, create, cancels, apiCrashes>>

\* ... and removes the entries of each, under its bullJobId and its key.
CancelRow ==
  /\ cancel.at = "remove" /\ cancel.ids = {}
  /\ \/ \E r \in cancel.rows :
          cancel' = [cancel EXCEPT !.rows = @ \ {r},
                                   !.ids = {<<r.email, r.child>>, <<r.email, 0>>}]
     \/ cancel.rows = {} /\ cancel' = NoCancel
  /\ UNCHANGED <<recVars, create, cancels, apiCrashes>>

NextId == CHOOSE id \in cancel.ids : \A j \in cancel.ids : j[2] <= id[2]

\* removeEmailJob: the entry is gone, or there was none.
RemoveEntry ==
  /\ cancel.at = "remove" /\ cancel.ids # {}
  /\ ~BeingProcessed(NextId)
  /\ queue' = [queue EXCEPT ![NextId] = NoEntry]
  /\ cancel' = [cancel EXCEPT !.ids = @ \ {NextId}]
  /\ UNCHANGED <<env, used, rowVars, campaign, slotVars, history, recoveryVars, create,
                 cancels, apiCrashes>>

\* removeEmailJob: the library refuses to remove a locked entry, and the request
\* ends in an error. The lock of a dead process may not have expired yet.
RemoveThrows ==
  /\ cancel.at = "remove" /\ cancel.ids # {}
  /\ queue[NextId].state = "active"
  /\ cancel' = [NoCancel EXCEPT !.at = "failed"]
  /\ UNCHANGED <<recVars, create, cancels, apiCrashes>>

\* The API process dies, and whatever it was doing with it. A request that one of
\* its statements rejects ends in the same place.
ApiCrash ==
  /\ apiCrashes < MaxApiCrashes
  /\ create.at # "answered" \/ cancel.at \in {"commit", "remove"}
  /\ apiCrashes' = apiCrashes + 1
  /\ create' = IF create.at = "answered" THEN create ELSE [at |-> "dead", rows |-> {}]
  /\ cancel' = IF cancel.at \in {"commit", "remove"} THEN NoCancel ELSE cancel
  /\ UNCHANGED <<recVars, cancels>>

-------------------------------------------------------------------------------
ApiStep ==
  \/ ReadBack \/ Enqueue \/ CancelCommit \/ CancelRow \/ RemoveEntry \/ RemoveThrows

SysNext ==
  \/ RecNext /\ UNCHANGED apiVars
  \/ ApiStep
  \/ \E c \in Campaigns : CancelRead(c)
  \/ ApiCrash

SysSpec == SysInit /\ [][SysNext]_sysVars
-------------------------------------------------------------------------------
\* A cancelled campaign is never reported as completed, whichever slot settles
\* its last row while it is being cancelled (email.worker.ts:58).
CancelledForGood ==
  [][\A c \in Campaigns : campaign[c] = "CANCELLED" => campaign'[c] = "CANCELLED"]_sysVars

\* No slot is sending the email and no pass has it on its list of abandoned rows.
AtRest(e) == ~SomeSlotSends(e) /\ \A p \in Processes : e \notin boot[p].stuck

\* Once a cancelled email is at rest it is closed: no deferral, redelivery, repair
\* or late write brings it back, lists it or sends it again. Before that its slot
\* or the pass may write it by id (email.worker.ts:231, reconciliation.service.ts:170).
CancelledStays ==
  [][\A e \in Emails :
       status[e] = "CANCELLED" /\ AtRest(e)
         => /\ status'[e] = "CANCELLED" /\ AtRest(e)'
            /\ accepted'[e] = accepted[e]]_sysVars

\* An email that no slot had claimed when its campaign was cancelled is never
\* claimed: whoever read the row or holds its entry, no statement takes it out of
\* CANCELLED (campaign.service.ts:322).
UntriedIsNeverTried ==
  [][\A e \in Emails :
       campaign[campaignOf[e]] = "CANCELLED" /\ attempts[e] = 0
         => status'[e] = "CANCELLED" /\ attempts'[e] = 0]_sysVars

\* Every entry the row has had is under its key: it was never rate limited.
NeverDeferred(e) ==
  child[e] = 0 /\ \A n \in 1..MaxDeferrals : queue[<<e, n>>].state = "none"

\* While the workers are in service and the campaign has been answered as
\* scheduled, every row that waits and was never rate limited has an entry,
\* however the API and the workers died and booted meanwhile, as long as no entry
\* stalls more often than the library allows. Cancelling and a loss of Redis take
\* entries away; a rejected statement costs a job an attempt, and a lost lock may
\* end one that is still being retried.
ScheduledIsQueued ==
  (/\ create.at = "answered" /\ \A p \in Processes : up[p]
   /\ cancels = 0 /\ events["redisLoss"] = 0
   /\ mishaps["dbError"] = 0 /\ mishaps["liveStall"] = 0 /\ mishaps["crash"] <= MaxStalls)
    => \A e \in Emails : status[e] \in Claimable /\ NeverDeferred(e) => QueuedAgain(e)

\* campaign.service.ts:322, of a cancelled email: "the processor's claim guard
\* rejects a CANCELLED row, so the queue entry is inert either way".
CancelledIsInert ==
  [][\A e \in Emails :
       campaign[campaignOf[e]] = "CANCELLED" /\ status'[e] = "PROCESSING"
         => status[e] = "PROCESSING"]_sysVars

===============================================================================
