# Email scheduler: a TLA+ model, its checks and its proofs

The repository schedules bulk email. A user posts a campaign (a subject, a body,
a start time, a spacing and a list of recipients); the API stores one row per
recipient in Postgres and one delayed job per row in a BullMQ queue in Redis;
worker processes take the jobs when they are due, respect an hourly cap per SMTP
account, claim the row, send the message, and write the verdict. A restarted
worker first repairs the queue from the database.

What makes the program hard is that its state is split between three stores (the
rows, the queue entries, the hourly counters) that no transaction spans, and that
several slots of several processes work on it while any of them may be rate
limited, lose its lock, have a statement rejected or die. In front of it stands a
dashboard whose every answer may come late, wrong or never.

## 1. Inventory

Paths are relative to `src/backend/src` unless they start with `frontend/`
(`src/frontend/src`).

| Component | State it keeps | Operations | Model |
|---|---|---|---|
| Hourly rate limiter, `services/rateLimit.service.ts` | Redis counters `rl:<scope>:<hour>`; their mirror, the `RateLimitWindow` table | `tryConsume`, `refund`, `peek`, the un-awaited mirror writes | `RateWindow`, `RateLimiter` |
| Email worker, `queue/email.worker.ts` | the locals of the processor in each slot | `processEmailJob`, `maybeCompleteCampaign`, `createEmailWorker` | `EmailWorker`, `EmailDelivery` |
| Job queue, `queue/email.queue.ts`, `queue/connection.ts` | BullMQ entries in Redis | `addEmailJob`, `removeEmailJob`, the library's start, completion, retry, lock and stalled check | `JobQueue`; the removal in `Scheduler` |
| Boot reconciliation, `services/reconciliation.service.ts` | none of its own: a snapshot of a page of rows | `reclaimStuckProcessing`, `findPendingJobId`, `scanAndRequeue`, `reconcileOnBoot` | `Recovery` |
| Campaign service, `services/campaign.service.ts` | `Campaign` and `EmailJob` rows | `createCampaign`, `cancelCampaign`, lists | creation up to its commit in `Intake`, from there on and cancellation in `Scheduler`, the dedupe in `Recipients` |
| Worker process and shutdown, `worker.ts`, `lib/shutdown.ts` | the running processes, the forced-exit timer | boot, drain, teardown, forced exit | `ProcessLife`, `Service`; what a boot repairs and a death leaves behind in `Recovery` and `EmailWorker` |
| SMTP sending, `services/email.service.ts`, `services/smtp.service.ts` | a transport per sender | `sendEmail`, `classifySendError`, `verifyAll`, the pool | partly: one exchange with four outcomes in `EmailWorker`, `verifyAll` as a stage of the boot in `ProcessLife` |
| Senders, `services/sender.service.ts` | a 60 s cache of the active senders | `getActiveSenders`, `pickSenderForCampaign` | `Intake` |
| Email list and statistics, `services/emailJob.service.ts` | none | two reads per page | partly: `EmailList` |
| Recipient upload, `routes/upload.routes.ts` | none | classification of the rows of a file | `Recipients` |
| HTML sanitiser, `lib/sanitize-html.ts` | a stack of open elements, the depth inside a removed one | `sanitizeHtml`, `isHtmlEmpty` | `Sanitiser`; the frontend's file of the same name is another algorithm, over the browser's DOM, and is not modelled |
| HTTP layer, `index.ts`, `routes/`, `middleware/`, `schemas/`, `services/auth.service.ts` | none between requests | validation, authentication, error envelope, drain | partly: `requireAuth` in `SignIn`, the recipients' schema in `Recipients`, the drain of the server in `ProcessLife` |
| Configuration, logging, clients, `config/`, `lib/` | read once at start | | the CONSTANTS |
| Frontend data hooks, `frontend/hooks`, `frontend/lib/api-client.ts`, the views | last answer, query key, newest request | effects, aborts, late answers, debounce, paging | `Fetching`, `EmailViews`, `Dashboard` |
| Frontend compose form, `frontend/components/compose` | the recipients, the upload, the submit guard | add, paste, upload, remove, submit | partly: `ComposeForm` |
| Frontend sign-in, `frontend/lib/auth.ts`, `frontend/proxy.ts` | the session cookie with the API's token in it | exchange, guards, expiry | `SignIn` |
| Frontend presentation | none | | partly: what `EmailList` shows, in `EmailViews` |
| Demonstration scripts, seed | none | | not modelled |

Who touches what:

- The browser keeps a session cookie that carries the API's token. Every mounted
  hook asks the API for its key and may be answered after it has asked for
  something else; the compose form posts a campaign and may lose the answer.
- The API's handlers share one cached list of senders: who finds it expired reads
  the table and stores the result when it arrives. A campaign's rows are assigned
  to senders one by one while the cache may expire under them.
- The API process writes rows in a transaction, and only after its commit adds
  the entries, one by one. Cancelling sets the rows and the campaign to
  CANCELLED in a transaction, and only then removes entries.
- A worker slot receives an entry from the library and holds a lock on it that
  the library renews; it reads the row, asks the limiter, claims the row with one
  conditional UPDATE, talks to SMTP, and writes the result by id. A rate-limited
  slot adds a child entry `<key>-d<n>` and returns.
- The library redelivers an entry whose lock expired, whether its process died
  or was only blocked, and retries an entry whose processor threw.
- The limiter's Redis scripts are atomic; its Postgres mirror is written by
  statements nobody waits for.
- A booting worker reads the rows and adds the entries it finds missing, while
  other worker processes already consume.
- A process that is told to stop waits for its jobs, or for its connections, for
  at most ten seconds, and then closes what they use.

### What is hard here

Interleavings of slots between any two awaits; redelivered and doubled entries;
crashes between the answer of SMTP and the write of the verdict; rejected
statements between two writes; an answer that is lost although the message was
accepted or the campaign committed; clocks that pass an hour between two reads;
ids of finished jobs that make an add a no-op; answers to questions that are no
longer asked; a session that resolves, or dies, under the pages; state that was
rendered before the last change; a cache that changes under a loop; a drain that
ends by itself or by force. `PROJECT.json` lists each of them under `hazards` at
the line where it bites, with the properties that would catch it.

### What makes each component correct

- Limiter: a counter never passes its limit, sender and global counters agree,
  a slot is neither lost nor invented, the mirror never under-reports, and the
  sends of an hour exceed the cap by no more than what an hour boundary or a
  flush explains.
- Worker: two slots never send one email at once; an email is accepted by SMTP
  once; FAILED has a cause; a verdict is true and final; a row that waits has an
  entry that will run; a campaign is COMPLETED only when nothing is left, and is
  completed in the end; every email gets its verdict.
- Reconciliation: after the pass every claimable row has an entry; the pass
  never creates a second sender for a row that is being sent; a recovered email
  is sent once more at the most.
- Campaign: an answered campaign has an entry for every row, and a crash during
  creation leaves nothing that a boot does not repair; an email that no slot had
  claimed when it was cancelled is never sent; a cancelled campaign stays cancelled.
- Senders: of the senders that were active all along none gets more of a
  campaign than another by more than one, plus one for each change of the list.
- Sanitiser: what is stored is balanced and made of allowed elements, a second
  pass changes nothing, and no text is lost outside the removed and the raw-text
  elements.
- Recipients: none vanishes between the form and the rows, none is respelt, none
  is sent to twice.
- Hooks and views: a newer answer is never replaced by an older one, an empty
  page means that there is nothing, and every question is settled.
- Compose form: one form makes one campaign unless its user was told of a
  failure.
- Processes: an orderly stop closes nothing that is in use, and ends.

## 2. Modules

Three groups share no variables: the limiter by itself; the queue and its workers
(`EmailWorker`, extended by `Recovery`, extended by `Scheduler`), over the
limiter's scripts; and the two ends, `Service` for the life of the two processes
and the intake of campaigns, `Dashboard` for the browser.

| Module | Models | How |
|---|---|---|
| `RateWindow` | the two Lua scripts and `resolveScopes` | operators on a map of counters; shared by the next and `EmailWorker` |
| `RateLimiter` | `tryConsume`, `refund`, mirror | a caller is one concurrent use of the limiter; each captured clock, script and mirror write is an action |
| `JobQueue` | the BullMQ entries | one operator per Lua script of the library that the code relies on |
| `EmailWorker` | `processEmailJob`, `maybeCompleteCampaign`, the library's handling of their outcome | one action per database statement, script or SMTP exchange; `pc` is the next one |
| `EmailDelivery` | the promise about one email | four actions and Close; implemented by `EmailWorker` |
| `Recovery` | `reconcileOnBoot` run by each starting process | extends `EmailWorker`; a boot is a sequence of reads and writes between the slots' steps |
| `Scheduler` | `createCampaign` after its commit, `cancelCampaign`, `removeEmailJob`, the death of the API process | extends `Recovery`: the whole backend around one queue |
| `Sanitiser` | the server's `sanitizeHtml`, `isHtmlEmpty` | functions on sequences of tokens, with the reference definitions they are held against |
| `Intake` | `createCampaign` up to its commit, `getActiveSenders`, `pickSenderForCampaign` | a handler per request; every await is a point where others intervene |
| `ProcessLife` | `main` of both processes, `registerShutdownHandlers` | a stage per process and the forced-exit timer |
| `Service` | the two processes with what they hold | composes `Intake` and `ProcessLife` |
| `Recipients` | parsing a file, committing tokens, merging, the schema's test, `dedupeRecipients` | functions on sequences of addresses |
| `EmailList` | `listEmailJobs` | a page is two reads of a moving list |
| `SignIn` | the exchange, the cookie and its token, `requireAuth`, the guards of the pages, `useSession` | a cookie is none, live or stale: its token has died |
| `Fetching` | the effect that the three hooks share, over `request` | numbered requests, cleanup, parsed answers that still run |
| `EmailViews` | `EmailView`, `SearchBar`, `EmailList.tsx`, the counts | query keys over `Fetching`, answers of `EmailList` |
| `ComposeForm` | `ComposeForm`, `RecipientInput`, `UploadListButton`, the server's side of a post | state and what was rendered last are two variables |
| `Dashboard` | one tab | composes `SignIn`, `EmailViews` and `ComposeForm` |
| `MCRateLimiter`, `MCEmailWorker`, `MCRecovery`, `MCScheduler`, `MCDashboard`, `MCService` | nothing | the constants of the runs |
| `Lists` | `Array.prototype.filter` | one operator; under `Sanitiser` and `Recipients` |
| `RateLimiterProofs`, `EmailWorkerProofs`, `RecoveryProofs`, `SchedulerProofs`, `DashboardProofs`, `ServiceProofs` | nothing | theorems about the module of that name, the last two also about the modules it composes |
| `ListTheorems`, `SanitiserProofs` | nothing | lemmas about lists and loops, and about `sanitizeHtml` |

State and code in `EmailWorker`: `status`, `attempts`, `child`, `scheduledAt`,
`lockedAt` are columns of `EmailJob` (`child` is the number at the end of
`bullJobId`, 0 for the bare key); `campaign` is `Campaign.status`; `queue` maps
job ids to entries; `used` holds the Redis counters; `pc`, `cur`, `mem` are the
position, the job and the locals of the processor in each slot; `up` says which
processes run. `accepted` and `refused` are history: what SMTP really did, which
no variable of the program knows. `mishaps` counts failures, so that a property
can say under which of them it holds. Time is the UTC hour, the grain of the
limiter; delays shorter than an hour (jitter, backoff, spacing) are not timed, so
the model allows every order of starts that they allow. The `removeOnComplete`
reaping after a day is outside the hours the model runs for.

In `Recovery` a booting process has its pass in `boot[p]`: the position `at`, the
list `stuck` of `reclaimStuckProcessing`, the rows `todo` of the page, the number
`n` of the candidate id under examination, and the `cursor`. `up[p]` becomes true
only when the pass is over, as in `worker.ts`. `lockedAt` keeps one bit of the
time of the claim: whether `STUCK_JOB_THRESHOLD_MS` have passed since. What
surrounds the pass is chosen by constants: `Overlap` lets two processes
boot at the same time, `Hasty` lets a process boot before the locks of dead sends
are stale, and `EventBound` says how many sends outlast the threshold, how often
Redis loses its data, and how often a process is stopped in good order, at most
`MaxEvents` of them together. `FindStuck`
and `Reclaim` are two actions because they are two statements, and the second
goes by id alone; so do `ReadPage`, `Probe`, `RemoveOrphan` and `Requeue`.

In `Scheduler` a behaviour begins where the transaction of `createCampaign` has
committed: before that nothing exists outside the transaction, so a failure
leaves no trace. `create` and `cancel` are the locals of the two requests, which
die with the API process (`ApiCrash`). Entries are added one by one in sequence,
and removed one by one, `bullJobId` before the bare key. The removal of an entry
that a live worker has locked throws, as the library does; an entry whose
process died may be locked or not.

In `Intake` a request that passed `requireAuth` and its schema is `checking` that
a sender exists, `sanitising`, then `picking` a sender for row after row inside its
transaction, until it has `committed`. `cache` is the module variable of
`sender.service.ts` and `reading` the answer of a query a handler is waiting for:
two handlers may both miss, and the slower one stores an older list over a newer
one. `last`, `common` and `turns` are history for `FairSpread`. A refusal of the
body, an empty list of senders and a rejected statement all free the slot: the
transaction leaves nothing. What the enqueueing after the commit adds is the
subject of `Scheduler`; here it is the answer.

In `Sanitiser` an attribute is a name; characters, entities and URL schemes are left
out. A text is opaque but for what it means right after a `<` that begins no tag:
`tokenize` emits such a `<` as a text of its own (`Lt`, `sanitize-html.ts:203-209`), and a
text like `x>` (`TagTail`) makes a tag of it once the two stand side by side in the
output. `Pieces` is the array `out`, `Joined` the `out.join('')` that may do that. A
text that begins a tag and lacks its own `>`, an end tag or a comment that comes
about in the same way is not followed further: one kind of tag is enough to
refute what they would. A `Gap` stands for what `tokenize` skips inside a raw-text
element, so that texts can be counted in the body as it was posted. `GoesAway` is the
regular expression of `isHtmlEmpty`, which takes a `<` of the text for a tag, too.

In `ProcessLife` the worker passes `verifying`, `reconciling` and `starting` before
it is `up`, because it takes jobs from `starting` on while a signal still kills it;
the API is `up` at once. `Service` hands each process what its drain waits for:
jobs in flight, or connections. A handler whose client has hung up is no
connection and runs on.

In `Fetching` a request is `open` until its answer has been parsed (`landed`);
the cleanup of an effect removes open ones only. `latest` is
`latestRequest.current`, and `held` what a hook renders, with the key it answers,
so `Loading` compares keys as the hooks do. `Dashboard` runs effects where React
would: after a navigation, a change of key, and a change of the bound api, which
changes with the session. The session is read when a document is loaded and when the
user comes back to the window (`WindowFocused`); a read may fail, which looks like no
session while the cookie lives, and what the page then sends carries no token. In `ComposeForm` `chips` and `inFlight` are the state
and the ref, `seen` and `seenBusy` what was rendered last; only callbacks of
answers separate them. `doubtful` is history: submissions whose failure was
reported although no refusal had arrived. A form that is mounted anew is another
form.

Operators named as faults (`HasRoomOffByOne`, `ClaimUnfinished`, ...) are no part
of the system: each is the code with one plausible mistake, kept beside the
original to show that the property it breaks can be broken.

## 3. Runs

Deadlock is checked in `service`, where a process that is down can always be
started. Elsewhere the system may stop: when every email has its verdict and the
clock has reached the last hour of the model, or when the user has nothing more to
do.

| Run | Question | Instance and bounds |
|---|---|---|
| `limiter` | are limits, slots, scopes and mirror kept under concurrency, and what can an hour boundary, a flush and a rejected mirror write cost? | 2 callers, 2 senders, strategy both, 2 hours, 3 calls, one flush or one rejected write |
| `worker_clean` | with deferrals, retries and lost answers, is every row queued, owned and tried within bounds, and does everything end? | 2 emails, 2 slots, 3 hours with two sends each, one lost answer, fairness |
| `worker_mishap` | what survives any one failure at any step, and is `EmailDelivery` implemented? | 2 emails, 2 processes, one crash, lost lock or rejected statement; the two processes are interchangeable (`SYMMETRY`; no liveness is checked here) |
| `recovery_live` | does every email get its verdict after any one mishap, unless one of the named causes leaves it behind? | 1 process with 2 slots, 1 email with up to two deferrals, one crash (of the worker or of its pass), lost lock, rejected statement or lost answer, one loss of Redis or one stop, restarts at any time, fairness; about 400 000 states |
| `system_pair` | are creation, cancellation, a boot pass and a sending process harmless to each other, and what can a cancelled email still meet? | 1 email, 2 processes, two sends an hour, one mishap of any kind, one loss of Redis or one stop, one cancellation; boots at any time but one after the other |
| `system_create` | is a campaign queued once it has been answered, repaired if it has not, and does the pass miss no row? | 1 process, 2 emails, pages of one row, one death of the API, one crash or rejected statement, one loss of Redis, one stop |
| `dashboard` | with answers late, lost and refused, does every page show the truth, and does every form make one campaign of what it showed? | 1 tab, 2 emails, pages of one row, 4 addresses of which two are one, 4 acts of the user, the network and the expiries together; about 770 000 states |
| `service` | is what is stored clean, are senders used evenly, and does a stop close nothing in use and end? | 2 requests at a time, 3 senders, 4 recipients, every body of up to 4 tokens of 18 (bare `<` and `title` among them), 2 jobs, 2 stops, deaths, failures, hang-ups, expiries or changes of senders; about 600 000 states |
| `limiter_flush` | does the limit survive a flush? | no: nothing reads the mirror back |
| `recovery_dropped` | is a deferred email never dropped? | no: a row queued again under a `-dN` id restarts the counter |
| `recovery_page` | does paging see every row? | no: not when another process claims the cursor row |
| `system_inert` | is a cancelled email's entry inert? | no: a retry under way revives it |

Why these bounds are enough to be interesting: two slots in two processes are the
smallest system with a race, and one crash leaves the other process to recover; a
cap below the number of sends makes every run defer, and three hours make an email
defer twice (`recovery_live` has one email, two hours with two sends each, and two slots: a
redelivered parent and its child must be able to run side by side); two attempts reach both the retry and the exhausted branch; one stall
is the library's limit. Pages of one row make two emails use the cursor; a booting
process beside a sending one is the smallest race of the pass. One email is enough
for properties of one row and one campaign, which is what pays for the
cancellation, the loss of Redis and the stop in `system_pair`. `system_create` and
`system_pair` stay within one hour and a cap of two sends: a second worker that
should not send is not held back by the cap, and a third call is deferred. Such a
deferral writes the row and adds the child, but the child does not become due,
since what happens to a requeued row that is deferred again is the subject of
`recovery_dropped`.

Four acts are enough for a search typed while the first page is still on its way,
a page turned meanwhile and an answer that fails; or for a recipient, a click on
Send, a lost answer and a second click; or for a file, keys and clicks before and
after it is parsed. Two spellings of one
address, one address that only the schema rejects and a typo are the cases that the
four tests of an address tell apart. In `service` a body other than the plain one
is taken in when nothing else is going on, since `sanitizeHtml` never pauses and
looks at nothing else; four tokens are enough for two mis-nested elements, for
a removed element with text, its own tag and an end tag inside, and for a `<`, what
is left out after it, and a text that makes a tag of it. Four rows over
three senders wrap the round-robin, and two events let the list change under a
campaign.

What the proofs of section 5 establish holds for all values.

## 4. Fairness

`FairSpec` assumes: every enabled step of a processor is taken (Node runs every
ready continuation and every awaited call of a live connection returns); every
due entry is taken by some slot (a live worker polls the queue); every expired
lock is found (the library's stalled check runs on a timer); the clock advances.
It does not assume that a crashed process is started again or that SMTP ever
accepts. `RecFairSpec`, for `recovery_live`, adds that a process that is down is
started again (by its operator: the code has no supervisor of its own), that
its pass goes on, and that the threshold passes. Nothing makes a process that runs
boot again, whatever it has left behind, so `RecoveredInTheEnd` names what may stay
behind and why (`LeftWaiting`, `LeftProcessing`; section 6 tells the stories). A row may
wait without an entry that will run only after a loss of Redis, after a crash if a
deferral has made a second entry, after a lost lock, or after a rejected statement that
used up an entry's tries. A row may stay in PROCESSING only after a crash or a rejected
statement, and only if no pass looks for abandoned rows once its lock is stale: a
process that is back within the threshold finds the row of its own dead send too
young, and no later pass is scheduled. Liveness is conditional on the hours of the model not running out
(`ClockRanOut`): a job deferred past the last hour stays pending.

`dashboard` assumes that the session is read once on every document load
(`SessionResolves`; it may be read in vain) and that every request of a hook is answered or
fails in the end (`Answering`: `fetch` always settles, and so does the callback). It
does not assume that the user does anything, that a debounce fires or that a
submission is answered. `service` assumes one thing: a started timer runs out
(`TimesOut`). Neither SMTP, a client, the database nor a handler is assumed to let
go, which is what makes `StopsInTheEnd` a statement about the forced exit.

## 5. Proofs

All theorems are checked by TLAPS. Every invariant and every safety action
property of the passing runs has one, and it holds for every value of the constants
under the named assumptions of the modules (`RateConfig`, `QueueConfig`,
`WorkerConfig`, `IntakeConfig`, `SanitiserConfig` and so on), which only say what the
constants are: that the sets of emails and senders are finite, that `SenderOrder` (the
`orderBy` of `getActiveSenders`) names every sender once, that no allowed element is a
raw-text one (true of the sets in `sanitize-html.ts`), that a posted body is a sequence of
tokens. Where a theorem needs more, it says so, and this section says why.

### The limiter: `RateLimiterProofs`

| Theorem | Property |
|---|---|
| `LimiterTypes` | `TypeOK` |
| `CapRespected` | `CountWithinLimit` |
| `EverySlotAccounted` | `SlotsAccounted` |
| `OvershootExplained` | `OvershootIsBounded` |
| `MirrorNeverShort` | `MirrorCoversUsage` |
| `GlobalCountIsSum` | `GlobalIsSum` |

`CountWithinLimit` is inductive as it stands together with the types: `Consume` is
guarded by `HasRoom` on the same counters, which is what making check and increment
one script buys. For the accounts, what is counted are the callers that hold a
slot and the decrements still on their way, by the cardinality of a set each; a
step moves one caller in or out of the set, and the library's facts about finite
sets do the rest. `Accounts` says it of all hours at once, with strays and flushes
as the two ways in which a bucket may be short, and from it and `CountWithinLimit`
follows the bound on an hour's sends. `GlobalIsSum` adds up the senders' counters
by a recursion over sets of senders; that such a sum exists, and that changing one
counter changes it by that much, is proved by induction over finite sets
(`SumExists` and the lemmas after it). A script then moves one sender's counter and the
global one together.

### One queue and its workers: `EmailWorkerProofs`

| Theorem | Property |
|---|---|
| `WorkerTypes` | `TypeOK` |
| `OneSenderAtATime` | `ClaimExclusive` |
| `SentOnce` | `NoDuplicate` |
| `TrueVerdicts` | `VerdictIsTrue`, `FailedForCause` |
| `CompletionIsTrue` | `CompletedIsSettled` |
| `FinalVerdicts` | `VerdictIsFinal` |
| `WorkerDelivers` | `DeliverySpec`, where no answer of SMTP is lost |
| `NoEmailStranded` | `NoneStranded`, for `MaxAttempts <= MaxJobAttempts` |
| `TriesBounded` | `AttemptsBounded`, for `MaxAttempts <= MaxJobAttempts` |
| `EveryClaimOwned` | `ProcessingIsOwned` |

The argument for the first seven is one inductive invariant, `IInv`. `ClaimExclusive`
alone is not inductive: a claim by a second slot must be impossible while the first
one holds it. `OwnsRow` supplies that, saying that the row of a slot past its claim
reads PROCESSING; it is kept because a result is written only by the slot that holds
the claim. From it follow the rest: `DeliveryKept` relates what SMTP has accepted
to where the holder of the claim stands, `AttemptsKept` and `CountKept` relate
the locals to the row, and `CompletedIsSettled` needs that a terminal row never
becomes claimable again. Most steps change neither rows nor claims and are dealt
with at once (`Quiet`); the claim, the answers of SMTP, the writes of results and
the completion have a lemma each.

`NoEmailStranded` and `TriesBounded` come from an invariant about three kinds of state
at once, `CalmInv`, which holds while nothing fails but answers of SMTP: an
active entry is held by exactly the slot that works on it (`EntryOk`); what a slot's
position says about its row, its attempt number and its entry's tries (`SlotOk`);
and a row without a verdict has a live entry, which is the last one of its email
(`RowOk`, `LastOf`). The last part is the reason why a deferral loses nothing: the
child's id is the next number after the entry that makes it, so it is free. The
assumption is real, see section 6.

### The backend around the queue: `RecoveryProofs`, `SchedulerProofs`

`IInv` is no invariant here: a booting process takes a PROCESSING row back by id, so
`OwnsRow` fails, and a cancellation turns a row that is being sent into CANCELLED.

| Theorem | Property | For |
|---|---|---|
| `SystemTypes` | `SysTypeOK` | everything |
| `CancelledEmailsStay` | `CancelledStays` | everything |
| `UntriedEmailsStayUntried` | `UntriedIsNeverTried` | everything |
| `CancelledCampaignsStay` | `CancelledForGood` | everything |
| `OneSenderInBackend` | `ClaimExclusive` | `Prudent` |
| `ExtraSendsPaid` | `ExtraSendsBounded` | `Prudent` |
| `CompletionInBackend` | `CompletedIsSettled` | `Prudent` |
| `VerdictsInBackend` | `VerdictIsFinal` | `Prudent` |
| `PassRequeues` | `BootRequeues` | `OneProcess`, `NobodyCancels` |
| `PagingSkipsNothing` | `NoRowSkipped` | `OneProcess`, `NobodyCancels` |
| `WaitingIsQueued` | `ScheduledIsQueued` | `OneProcess`, `NobodyCancels`, `MaxAttempts <= MaxJobAttempts` |

`Prudent` says that no two processes boot at the same time and that no send outlasts
the threshold after which its lock is called stale. Without it the properties are
false, as section 6 says: it is what the operator must see to, since the code does
not. Under it `RecInv` is inductive. In place of `OwnsRow` it has `HolderKeepsRow` (the
row of a slot past its claim reads PROCESSING or CANCELLED), `StaleIsUnsent` (nobody
sends a row whose lock is stale) and `ListedIsUnsent` (nor one on the list of a booting
process); the last two are what makes a reclaim by id harmless between the read of the
list and the write. `SendsPaid` gives every send beyond the first a mishap that pays for
it, and needs to count a slot that has sent but not yet written SENT. `CancelledTogether`
lets a revived CANCELLED row belong to a campaign that will not complete, which is
what keeps `CompletedIsSettled`. The proof of `Recovery`'s steps is in `RecoveryProofs`,
and `SchedulerProofs` adds the steps of the API and the cancellation.

Of a cancelled email two things hold under no condition. `CancelledStays` speaks of one
that no slot is sending and no pass has on its list: then it is closed, which includes
that it is not listed or sent again later. `UntriedIsNeverTried` needs no such proviso
for an email with no attempt: every writer by id presupposes a claim, a claim
counts an attempt, and the claim looks at the status (`UntriedRows`). Neither says
anything of an email that is being sent while it is cancelled; `system_inert` shows what
happens to that one.

`PassInv` is about one pass of the only process: the row the cursor stands on still
matches the query, so that the `skip: 1` of the next page skips it and nothing else
(`CursorOnRow`); after the last page no row that waits lies beyond the cursor
(`NothingBeyond`); the id under which the row in hand will be added is free or will run
(`CandidateOk`); and every waiting row up to the cursor is queued or in hand
(`Repaired`). Nothing else writes rows then, and the API only adds entries; that is why
one process is assumed, and `recovery_page` shows that a second one breaks it (so
`NoRowSkipped` is a theorem for one process and refuted for two; `system_create` checks
the paging of one process as part of `BootRequeues`). A
cancellation can take away the cursor row as well.

`ScheduledIsQueued` speaks of rows that were never deferred. It is kept by `QueueInv`,
again about slots, entries and rows together: a slot's position says whether its row's
entry still has attempts, an entry's tries and stalls are paid for by the row's attempts
and by deaths, and a row that waits has its bare entry. A row that has been deferred is
left out because for it the statement is false, not only when a boot pass intervenes
(section 6). While nothing fails, deferred rows are covered by `NoneStranded`.

### The browser: `DashboardProofs`

| Theorem | Property |
|---|---|
| `NewestAnswerWins` | `NeverOlder` |
| `EmptyListIsEmpty` | `EmptyMeansNone` |
| `OneCampaignUnlessInDoubt` | `OneCampaignPerForm` |
| `WhatIsShownIsSent` | `ShownIsSent` |
| `NoRecipientVanishes` | `NothingVanishes` |

`NeverOlder`: the numbers of a hook's requests are its own and none exceeds `latest`; a
callback that writes is that of the newest request, so nothing held is newer. Every
action of `Dashboard` is shown to be one of three steps of the hooks: effects that
ran, a request that moved on, or nothing.

`EmptyMeansNone`: on the pages that have no list there is neither an answer nor a request
of one (`NoList`), so a list is built up from nothing whenever a view is opened. While
nothing has moved since, each request and each answer agrees with the rows as they are
(`ReadsNow`, `HoldsNow`), in the two reads of a page separately, and the user can only
have turned to a page that the total of such an answer allows (`PageHasRows`).

`OneCampaignPerForm`: while the guard of the form on screen is open, everything that
form has sent is in doubt (`GuardHolds`): it opens only when the one submission that
was not has been refused, and then that one has made no campaign (`Undecided`), or has
been reported lost, and then it is in doubt as well.

`ShownIsSent`: every list a form holds, has rendered or has posted is `Told`: it names
each address once and has one spelling of each key. Typing, pasting and uploading keep
that by induction over the tokens, whatever they contain, and `Dedupe` and the filters of
valid addresses return a `Told` list as it is. `NothingVanishes` follows from the same
lemmas: a commit or a merge only appends to what has been rendered.

### The two processes and the intake: `ServiceProofs`, `SanitiserProofs`

| Theorem | Property |
|---|---|
| `NothingTornDownInUse` | `DrainedBeforeTeardown` |
| `SendersShareEvenly` | `FairSpread` |
| `StoredIsClean` | `CleanMeansClean` |
| `TextIsNotLost` | `TextKept` |

`DrainedBeforeTeardown`: a process enters `closing` with nothing to wait for, and
afterwards no step of any handler connects a client and no job starts; the handlers
that are still running go on without one.

`FairSpread`: the shares alone are not inductive, since at equal shares either sender may
be next. `Even` adds whose turn comes first: `Wait` is the number of rows until a sender's
turn, and only one whose turn comes later may be ahead by one. A row for the sender with
no wait left keeps that, and a changed list, which shuffles all waits, costs the one
that `turns` counts. That the lists in the cache and in the handlers are sequences of
distinct senders is part of the invariant, since `reading` may be stored much later.

`StoredIsClean` and `TextIsNotLost` are facts about `sanitizeHtml` for markup of any
length. The state machine adds only that a body in a handler is a sequence of tokens
(`IsMarkup`, in `IntakeInv`). A loop of the code is a run of states, one per token, and
`RunEnds` says that the loop's result is the last one, so that each fact is an invariant
of the loop:

- `TokenizeAgain`: in what the tokenizer returns a raw-text element stands directly before
  its end tag or at the end (`RawClosed`), and tokenizing such a sequence changes nothing.
- `Rescans`, for `CleanMeansClean`: at every token, scanning the output written so far gives
  that output again and leaves the emitted part of the stack open, and so does reading
  it as brackets. Closing the stack at the end then leaves nothing open, for the first
  pass and the second alike. What is not emitted is forgotten: hence the filter `Keep`.
  It is a fact about `Pieces`; without a seam between them the joined output is the same
  sequence, and with one it is not, which is the proviso `Joins`.
- `Within`, for `TextKept`: the scan is inside the dropped element that began at `i` exactly
  if the counts of its own tags have not come out even since, and then `dropDepth` is
  that count. So a text is written when it is outside, and stays written. Positions
  are those of the body as posted: the tokenizer keeps them, with a `Gap` for what it
  skips in a raw-text element.

### Induction

The provers cannot take an operator as a parameter, so the induction theorems of
the library cannot be used as they are. `ListTheorems` states induction over sets instead
(`SetInduction`, `BoundedInduction`: a set that has 0 and, with each number, the next one,
is all of them), and the existence of the intermediate values of a fold (`FoldExists`).
What a recursive function over a list computes is then proved by one set that holds the
lengths for which the claim is true. `Keep` is written as a fold because the definition of
`SelectSeq` is built into the prover and cannot be opened.

### Only model-checked

Liveness (`EventuallySettled`, `EventuallyCompleted`, `RecoveredInTheEnd`, `AllSettle`,
`StopsInTheEnd`): fairness and ENABLED are out of the prover's reach. The theorems with a
condition leave to the runs what lies beyond it: `system_pair` has cancellations beside a
boot pass, and no theorem speaks of a pass during one.

## 6. What the runs say about the comments

Four statements of the repository are refuted by a run; `findings` in
`PROJECT.json` quotes each.

- The hourly limit does not survive a Redis flush: the mirror is only written.
- A deferred email can be dropped: the boot pass queues a row again under its
  `-dN` id with a payload that has no counter, and the next deferral computes that
  same id. One crash, one quick restart and one orderly restart are enough. There is
  a second way, found while proving `ScheduledIsQueued`, in which the boot pass queues nothing: a process dies between adding the child and saving the
  deferral, and comes back. The entry, redelivered, and its child then both work on
  the row. One of them claims it and puts it back for a retry, the other loses the
  claim and completes; if the other is the child, the retry may be rate limited, and
  its add of the child is a no-op, since a job of that id has finished. The row waits, and nothing will run it before the next boot.
- The boot pass can miss a row: the cursor row no longer matches when another
  process has claimed it, and `skip: 1` then drops its successor.
- A retry under way writes SCHEDULED by id over CANCELLED, and the email is sent.

The provisos of the properties that hold mark further limits of the design.

Limiter and worker:

- `SlotsAccounted` and `GlobalIsSum` except refunds that cross an hour boundary,
  which empty a bucket their slot was not taken from, and `OvershootIsBounded` says
  what that costs. `MirrorCoversUsage` allows the mirror to miss what stray refunds
  and rejected writes took from it.
- A row allows three attempts (`campaign.service.ts:190`), but how often its job
  runs is `MAX_JOB_ATTEMPTS`, which may be any positive number. Below three, a row
  put back "so the next attempt's claim can succeed" (`email.worker.ts:232`) has no
  next attempt: hence the assumption of `NoEmailStranded`.
- Completion is attempted once, after a verdict. If its count or update is
  rejected, the retried job loses its claim and returns before it, and nothing else
  completes the campaign: hence `EventuallyCompleted` where no statement is rejected.

Recovery and campaigns:

- A process restarted within the threshold leaves the row of its dead send in
  PROCESSING until a later boot.
- `RecoveredInTheEnd` holds with these rows left behind until a later boot: the one of
  the second story above, which needs two slots; one whose lock was lost while it was
  sent, when its two runs end in the other order; and one whose entry used up its tries
  on rejected statements while the row still allows more.
- `ExtraSendsBounded` counts a rejected write of SENT beside a crash, because the
  row looks abandoned in either case.
- `CancelledStays` excepts a row that a slot is sending, because results are written
  by id (`email.worker.ts:231`), and a row that a booting process has on its list,
  because the reclaim goes by id (`reconciliation.service.ts:170`).
- `system_pair` is run with `Overlap` and `SlowSends` off: with two processes
  booting together, or a send that outlasts the threshold, the reclaim by id takes
  back a verdict or makes a second sender. Inside these limits the pass makes no
  second sender and takes back no verdict.
- A cancellation ends in an error after its commit when an entry is being processed
  (`campaign.service.ts:327`), and the entries after it are not removed.

Intake and processes:

- `sanitizeHtml` is not idempotent, contrary to its comment (`sanitize-html.ts:398-399`)
  and to `src/README.md:753`, in two cases that `CleanMeansClean` excepts. An allowed
  element closed in its start tag (`<b/>`) is emitted open, and the next pass closes
  it. And a bare `<` is kept as text "inert" (`sanitize-html.ts:204`) only while
  nothing meets it: in `a <<x>b>` the unknown element between `<` and `b>` is left out,
  and the output holds an element that the scan has not seen, which need not be an
  allowed one. The two exceptions are necessary: without either the run fails.
- "Any other tag is dropped, text kept" (`sanitize-html.ts:47`) does not hold of `title`:
  it is a raw-text element (line 102) and not one to be removed with its contents (lines
  66-69), and its text is lost. Hence `RawContents` in `TextKept`.
- A body of nothing but `<br>` counts as empty, although the comment on
  `isHtmlEmpty` says that a `<br>` is not; so does one whose only text follows a bare
  `<`, like `<b>< hello</b>`, since the text up to the next `>` goes as if it were a tag.
- The sender cache is never invalidated, so `FairSpread` counts the changes of the
  list. `GET /api/system/limits` uses the same cache; what it can do to it,
  a request for a campaign that is refused does too.
- The forced exit ends a job that takes longer than ten seconds, although a send may
  take thirty: `DrainedBeforeTeardown` is about the orderly stop only. A signal
  between the creation of the worker and the registration of its handlers kills what
  is in flight. Handlers whose client has hung up may outlive the drain.

Dashboard:

- `OneCampaignPerForm` excepts a form whose user was told of a failure that was
  none: an answer lost on its way makes a second click a second campaign, although
  `src/README.md:463-464` says of a double-submitted form that it is a no-op: the
  unique keys of the rows belong to one campaign.
- A success answer leads to `/scheduled` even if the user has gone on to a new form,
  whose draft is lost (`ComposeForm.tsx:200`).
- `NothingVanishes` excepts an edit made before the last merge was rendered: it
  works on the list on screen and replaces the newer one.
- `EMAIL_RE` accepts addresses that the schema rejects, and one of them makes the
  whole campaign a 400.
- `EmptyMeansNone` excepts a list that has shrunk while the view was open: a page
  beyond its end shows the empty state.
- A read of the session that fails leaves the page without a token until the window
  gets the focus again.
- The cookie is renewed by every read and outlives the seven days of the token in
  it; every request is then refused while the pages stay open to it.

## 7. What is not modelled

- The error codes that `classifySendError` knows: a table; its four outcomes are
  what `EmailWorker` chooses from. The transport pool beyond `verifyAll`: its
  `invalidate` and `isAuthError` have no callers, so it is a map that only grows.
- `invalidateSenderCache` and `useEmailDetail`, which nothing calls.
- Reaping of finished jobs (a day, a week), backoff, spacing and jitter: times
  shorter than an hour, or longer than the hours of the model.
- The counts of the sidebar, the order of the rows, the detail of an email: read-only
  data that no property here tells apart.
- Field validation other than the recipients', the error envelope, request ids and
  logging: one request, one response, no state.
- How characters become tokens, entities and URLs in the sanitiser, and how a file is
  split into candidates; the frontend's sanitiser, which walks the browser's own
  DOM and whose behaviour is that of the browser's parser.
- The rich-text editor, the popover and the layout of the frontend; the OAuth
  protocol, which NextAuth runs; the demonstration scripts and the seed.

What would come next: an abstract specification of a campaign that `Scheduler`
implements, a statement about deferred rows that survives crashes (which would have to
say what the finished `-dN` jobs are good for), and a run with more crashes than the
library's limit of stalls.
