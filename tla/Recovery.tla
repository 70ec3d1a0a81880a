------------------------------- MODULE Recovery -------------------------------
(***************************************************************************)
(* Boot reconciliation, services/reconciliation.service.ts, run by worker.ts *)
(* before a process consumes: it takes abandoned PROCESSING rows back to     *)
(* SCHEDULED and adds the queue entries that the rows lack.  Every await of  *)
(* the pass is a point where slots of other processes, other passes and      *)
(* failures may intervene.  In EmailWorker up[p] says that p consumes; the   *)
(* pass comes before that:                                                   *)
(*                                                                           *)
(*   off -> find -> reclaim -> page -> probe <-> remove -> add -> repaired   *)
(*                              \___________________________/       |        *)
(*                                                          up[p], off       *)
(*                                                                           *)
(* The two columns the pass leaves to the clock: lockedAt, the time of the   *)
(* claim, is fresh until STUCK_JOB_THRESHOLD_MS have passed and stale        *)
(* afterwards.                                                               *)
(***************************************************************************)
EXTENDS EmailWorker, FiniteSets

CONSTANTS
  position,     \* the place of a row in the order (campaignId, sequence)
  PageSize,     \* PAGE_SIZE
  Overlap,      \* environment: processes may boot at the same time
  Hasty,        \* environment: a process may boot before dead locks are stale
  EventBound,   \* bound: how often each event happens
  MaxEvents     \* bound: how many events happen in all

\* A send takes longer than STUCK_JOB_THRESHOLD_MS, Redis loses its data, a
\* process is shut down in good order.
Events == {"slowSend", "redisLoss", "shutdown"}

ASSUME RecoveryConfig ==
  /\ IsFiniteSet(Emails)
  /\ position \in [Emails -> Nat \ {0}]
  /\ \A e, f \in Emails : position[e] = position[f] => e = f
  /\ PageSize \in Nat \ {0}
  /\ Overlap \in BOOLEAN /\ Hasty \in BOOLEAN
  /\ EventBound \in [Events -> Nat]
  /\ MaxEvents \in Nat

VARIABLES
  boot,    \* per process: the locals of its pass
  events   \* how often each event has happened

recoveryVars == <<boot, events>>
recVars == <<vars, recoveryVars>>

BootLabels == {"off", "find", "reclaim", "page", "probe", "remove", "add", "repaired"}

RowSnapshot == [email : Emails, child : 0..MaxDeferrals, scheduledAt : Nat]

BootState ==
  [at : BootLabels,
   stuck : SUBSET Emails,        \* rows found abandoned
   todo : SUBSET RowSnapshot,    \* rows of the page not yet handled
   n : 0..MaxDeferrals,          \* candidate id under examination
   cursor : Nat,                 \* place of the last row of the last page
   more : BOOLEAN,               \* the page was full
   since : Nat]                  \* losses of Redis when the pass began

NoBoot ==
  [at |-> "off", stuck |-> {}, todo |-> {}, n |-> 0, cursor |-> 0, more |-> FALSE,
   since |-> 0]

RecTypeOK ==
  /\ TypeOK
  /\ boot \in [Processes -> BootState]
  /\ events \in [Events -> Nat]

NoPassYet ==
  /\ boot = [p \in Processes |-> NoBoot]
  /\ events = [x \in Events |-> 0]

RecInit == Init /\ NoPassYet

Happens(x) ==
  /\ events[x] < EventBound[x]
  /\ events["slowSend"] + events["redisLoss"] + events["shutdown"] < MaxEvents
  /\ events' = [events EXCEPT ![x] = @ + 1]

Booting(p, l) == boot[p].at = l
NotBooting(p) == Booting(p, "off")

SomeSlotSends(e) == \E w \in Workers : HoldsClaim(w) /\ Email(w) = e

\* A row in PROCESSING that no slot will write a result for.
Abandoned(e) == status[e] = "PROCESSING" /\ ~SomeSlotSends(e)

-------------------------------------------------------------------------------
\* The process is started.
StartBoot(p) ==
  /\ ~up[p] /\ NotBooting(p)
  /\ Overlap \/ \A q \in Processes : NotBooting(q)
  /\ Hasty \/ \A e \in Emails : Abandoned(e) => lockedAt[e] = "stale"
  /\ boot' = [boot EXCEPT ![p] = [NoBoot EXCEPT !.at = "find", !.since = events["redisLoss"]]]
  /\ UNCHANGED <<vars, events>>

\* Fault: every PROCESSING row counts as abandoned.
FindStuckAny(p) ==
  LET stuck == {e \in Emails : status[e] = "PROCESSING"} IN
  /\ Booting(p, "find")
  /\ boot' = [boot EXCEPT ![p].at = IF stuck = {} THEN "page" ELSE "reclaim",
                          ![p].stuck = stuck]
  /\ UNCHANGED <<vars, events>>

\* Fault: the comparison with the threshold is the wrong way round.
FindStuckYoung(p) ==
  LET stuck == {e \in Emails : status[e] = "PROCESSING" /\ lockedAt[e] = "fresh"} IN
  /\ Booting(p, "find")
  /\ boot' = [boot EXCEPT ![p].at = IF stuck = {} THEN "page" ELSE "reclaim",
                          ![p].stuck = stuck]
  /\ UNCHANGED <<vars, events>>

\* Step 1: the rows whose lock is older than the threshold ...
FindStuck(p) ==
  LET stuck == {e \in Emails : status[e] = "PROCESSING" /\ lockedAt[e] = "stale"} IN
  /\ Booting(p, "find")
  /\ boot' = [boot EXCEPT ![p].at = IF stuck = {} THEN "page" ELSE "reclaim",
                          ![p].stuck = stuck]
  /\ UNCHANGED <<vars, events>>

\* ... go back to SCHEDULED, by id and whatever they are by now. attempts stays.
Reclaim(p) ==
  LET stuck == boot[p].stuck IN
  /\ Booting(p, "reclaim")
  /\ status' = [e \in Emails |-> IF e \in stuck THEN "SCHEDULED" ELSE status[e]]
  /\ lockedAt' = [e \in Emails |-> IF e \in stuck THEN "null" ELSE lockedAt[e]]
  /\ boot' = [boot EXCEPT ![p].at = "page", ![p].stuck = {}]
  /\ UNCHANGED <<env, used, attempts, child, scheduledAt, campaign, queue, slotVars,
                 history, events>>

Least(rows) ==
  CHOOSE e \in rows : \A f \in rows : position[e] <= position[f]

\* The rows of the query "cursor: the last row, skip: 1" in their order: it
\* starts at the place of that row and leaves out the first row it finds.
RowsFrom(cursor) ==
  LET rows == {e \in Emails : status[e] \in Claimable /\ position[e] >= cursor} IN
  IF cursor = 0 \/ rows = {} THEN rows ELSE rows \ {Least(rows)}

PageOf(rows) ==
  {e \in rows : Cardinality({f \in rows : position[f] < position[e]}) < PageSize}

AfterRow(todo, more) ==
  IF todo # {} THEN "probe" ELSE IF more THEN "page" ELSE "repaired"

\* Step 2: the next page of claimable rows; those of a cancelled campaign are
\* passed over.
ReadPage(p) ==
  LET page == PageOf(RowsFrom(boot[p].cursor))
      full == Cardinality(page) = PageSize
      rows == {e \in page : campaign[campaignOf[e]] # "CANCELLED"}
      todo == {[email |-> e, child |-> child[e], scheduledAt |-> scheduledAt[e]] :
                 e \in rows} IN
  /\ Booting(p, "page")
  /\ boot' = [boot EXCEPT ![p] =
       IF page = {} THEN [@ EXCEPT !.at = "repaired"]
       ELSE [@ EXCEPT !.at = AfterRow(todo, full), !.todo = todo, !.n = 0,
                      !.more = full,
                      !.cursor = position[CHOOSE e \in page :
                        \A f \in page : position[f] <= position[e]]]]
  /\ UNCHANGED <<vars, events>>

\* The row of the page that is being handled.
Row(p) ==
  CHOOSE r \in boot[p].todo :
    \A q \in boot[p].todo : position[r.email] <= position[q.email]

Candidate(p) == <<Row(p).email, boot[p].n>>

RowDone(p) ==
  LET todo == boot[p].todo \ {Row(p)} IN
  boot' = [boot EXCEPT ![p].at = AfterRow(todo, boot[p].more), ![p].todo = todo, ![p].n = 0]

\* On to the next id the row could be queued under, or to the add.
NextCandidate(p) ==
  boot' = IF boot[p].n < Row(p).child
          THEN [boot EXCEPT ![p].at = "probe", ![p].n = @ + 1]
          ELSE [boot EXCEPT ![p].at = "add"]

\* findPendingJobId: the entry will still run, the row is passed over.
SkipQueued(p) ==
  /\ Booting(p, "probe")
  /\ queue[Candidate(p)].state \in {"pending", "active"}
  /\ RowDone(p)
  /\ UNCHANGED <<vars, events>>

\* findPendingJobId: no entry under this id, or one that has finished.
Probe(p) ==
  /\ Booting(p, "probe")
  /\ \/ /\ queue[Candidate(p)].state = "none"
        /\ NextCandidate(p)
     \/ /\ queue[Candidate(p)].state \in {"completed", "failed"}
        /\ boot' = [boot EXCEPT ![p].at = "remove"]
  /\ UNCHANGED <<vars, events>>

\* Fault: the finished entry keeps its id.
RemoveNothing(p) ==
  /\ Booting(p, "remove")
  /\ NextCandidate(p)
  /\ UNCHANGED <<vars, events>>

\* The finished entry is removed; that a locked one cannot be is swallowed.
RemoveOrphan(p) ==
  /\ Booting(p, "remove")
  /\ queue' = IF queue[Candidate(p)].state = "active" THEN queue
              ELSE [queue EXCEPT ![Candidate(p)] = NoEntry]
  /\ NextCandidate(p)
  /\ UNCHANGED <<env, used, rowVars, campaign, slotVars, history, events>>

Later(h1, h2) == IF h1 >= h2 THEN h1 ELSE h2

\* Step 3: the row is queued again under its bullJobId, due at its own time or
\* at once.  The payload of the new entry carries no deferral counter.
Requeue(p) ==
  LET r == Row(p) IN
  /\ Booting(p, "add")
  /\ queue' = AddEmailJob(queue, <<r.email, r.child>>, 0, Later(r.scheduledAt, hour))
  /\ RowDone(p)
  /\ UNCHANGED <<env, used, rowVars, campaign, slotVars, history, events>>

\* The pass is over and the worker is created.
Serve(p) ==
  /\ Booting(p, "repaired")
  /\ Restart(p)
  /\ boot' = [boot EXCEPT ![p] = NoBoot]
  /\ UNCHANGED events

\* The process dies during its pass, or a rejected statement makes it refuse to
\* start.
BootDies(p) ==
  /\ ~NotBooting(p)
  /\ \/ Suffer("crash")
     \/ Booting(p, "find") /\ Suffer("dbError")
     \/ Booting(p, "reclaim") /\ Suffer("dbError")
     \/ Booting(p, "page") /\ Suffer("dbError")
  /\ boot' = [boot EXCEPT ![p] = NoBoot]
  /\ UNCHANGED <<hour, up, used, rowVars, campaign, queue, slotVars, history,
                 events>>

\* An orderly shutdown: the drain is over, every slot has returned its job.
Stop(p) ==
  /\ up[p]
  /\ \A w \in Workers : procOf[w] = p => At(w, "idle")
  /\ Happens("shutdown")
  /\ up' = [up EXCEPT ![p] = FALSE]
  /\ UNCHANGED <<hour, mishaps, used, rowVars, campaign, queue, slotVars, history,
                 boot>>

\* The threshold passes. Nothing renews lockedAt, so a send that takes this long
\* looks abandoned.
LockGoesStale(e) ==
  /\ status[e] = "PROCESSING" /\ lockedAt[e] = "fresh"
  /\ IF SomeSlotSends(e) THEN Happens("slowSend") ELSE UNCHANGED events
  /\ lockedAt' = [lockedAt EXCEPT ![e] = "stale"]
  /\ UNCHANGED <<env, used, status, attempts, child, scheduledAt, campaign, queue,
                 slotVars, history, boot>>

\* Redis loses its data: a flush, a lost volume.
LoseRedis ==
  /\ Happens("redisLoss")
  /\ queue' = [id \in JobIds |-> NoEntry]
  /\ used' = NoneUsed
  /\ UNCHANGED <<env, rowVars, campaign, slotVars, history, boot>>

-------------------------------------------------------------------------------
\* The send path, in which a crashed process comes back through its pass only.
SendPath ==
  \/ \E w \in Workers : Step(w) \/ DbError(w)
  \/ \E w \in Workers, id \in JobIds : TakeJob(w, id)
  \/ \E id \in JobIds : Stall(id) \/ LiveStall(id)
  \/ \E p \in Processes : Crash(p)
  \/ Tick

BootStep(p) ==
  \/ FindStuck(p) \/ Reclaim(p) \/ ReadPage(p) \/ SkipQueued(p) \/ Probe(p)
  \/ RemoveOrphan(p) \/ Requeue(p) \/ Serve(p)

RecNext ==
  \/ SendPath /\ UNCHANGED recoveryVars
  \/ \E p \in Processes : StartBoot(p) \/ BootStep(p) \/ BootDies(p) \/ Stop(p)
  \/ \E e \in Emails : LockGoesStale(e)
  \/ LoseRedis

RecSpec == RecInit /\ [][RecNext]_recVars

\* In addition to the fairness of the send path: a pass goes on, the threshold
\* passes, and somebody starts a process that is down.
RecFairSpec ==
  /\ RecSpec
  /\ \A w \in Workers : WF_recVars(Step(w) /\ UNCHANGED recoveryVars)
  /\ \A id \in JobIds :
       /\ WF_recVars(\E w \in Workers : TakeJob(w, id) /\ UNCHANGED recoveryVars)
       /\ WF_recVars(Stall(id) /\ UNCHANGED recoveryVars)
  /\ WF_recVars(Tick /\ UNCHANGED recoveryVars)
  /\ \A p \in Processes : WF_recVars(StartBoot(p)) /\ WF_recVars(BootStep(p))
  /\ \A e \in Emails : WF_recVars(LockGoesStale(e))
-------------------------------------------------------------------------------
\* When the pass of the only process is over, every row that waits has an entry
\* that will run, whatever crashed, failed or was lost before the pass
\* (reconciliation.service.ts:33).
BootRequeues ==
  \A p \in Processes :
    Booting(p, "repaired") /\ boot[p].since = events["redisLoss"]
      => \A e \in Emails : status[e] \in Claimable => QueuedAgain(e)

\* A crash, or a verdict that could not be written, costs at most one extra send
\* each (reconciliation.service.ts:118).
ExtraSendsBounded ==
  \A e \in Emails :
    accepted[e] <= 1 + mishaps["crash"] + mishaps["dbError"] + mishaps["lostAck"]

\* The pass ends on an empty page only when no row that waits lies beyond the
\* last row it read: paging skips nothing (reconciliation.service.ts:217).
NoRowSkipped ==
  [][\A p \in Processes :
       Booting(p, "page") /\ boot'[p].at = "repaired"
         => \A e \in Emails : status[e] \in Claimable => position[e] <= boot[p].cursor]_recVars

\* rateLimit.service.ts:64: "NOTHING IS DROPPED. A rate-limited job is always
\* re-enqueued": with every process in service, Redis intact, no statement
\* rejected and no entry at its stall limit, a row that waits has an entry.
NothingDroppedAfterBoot ==
  (/\ \A p \in Processes : up[p]
   /\ events["redisLoss"] = 0 /\ mishaps["dbError"] = 0 /\ mishaps["liveStall"] = 0
   /\ mishaps["crash"] <= MaxStalls)
    => \A e \in Emails : status[e] \in Claimable => QueuedAgain(e)

\* A row that waits without an entry that will run, for one of four causes:
\* Redis lost the entry; a deferred entry outlived a crash, and its second
\* delivery ran beside the deferral or the deferral repeats a used id; a stalled
\* lock gave the entry to two slots; a rejected statement used up its tries.
LeftWaiting(e) ==
  /\ status[e] \in Claimable /\ ~QueuedAgain(e)
  /\ \/ events["redisLoss"] > 0
     \/ mishaps["crash"] > 0 /\ \E n \in 1..MaxDeferrals : queue[<<e, n>>] # NoEntry
     \/ mishaps["liveStall"] > 0
     \/ mishaps["dbError"] > 0 /\ \E n \in 0..MaxDeferrals : queue[<<e, n>>].state = "failed"

\* A row in PROCESSING that nobody sends, because of a crash or of a verdict
\* that could not be written.
LeftProcessing(e) ==
  /\ Abandoned(e)
  /\ mishaps["crash"] > 0 \/ mishaps["dbError"] > 0

\* A pass is about to look for abandoned rows, and this is one.
LookedAt(e) ==
  Abandoned(e) /\ lockedAt[e] = "stale" /\ \E p \in Processes : Booting(p, "find")

\* With every process started again, every email gets its verdict after any
\* crash, stall, loss or rejected statement, save a row that one of the four
\* causes leaves waiting until the next pass, and one that is left in PROCESSING
\* and that no pass looks at after the threshold (reconciliation.service.ts:33).
RecoveredInTheEnd ==
  \A e \in Emails :
    \/ <>(status[e] \in {"SENT", "FAILED"} \/ ClockRanOut)
    \/ <>[]LeftWaiting(e)
    \/ <>[]LeftProcessing(e) /\ []~LookedAt(e)
===============================================================================
