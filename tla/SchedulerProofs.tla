---------------------------- MODULE SchedulerProofs ----------------------------
(***************************************************************************)
(* Proofs about Scheduler, the whole backend, for any number of emails,     *)
(* slots, processes, campaigns, hours, mishaps, events and requests.        *)
(***************************************************************************)
EXTENDS Scheduler, RecoveryProofs

-------------------------------------------------------------------------------
\* The types of the API process's locals. The loop of createCampaign has a row in
\* hand as long as it runs.
ApiTypes ==
  /\ create \in CreateState
  /\ cancel \in CancelState
  /\ cancels \in Nat /\ apiCrashes \in Nat
  /\ create.at = "enqueue" => create.rows # {}

SysTypeInv == RecTypeInv /\ ApiTypes

LEMMA NextRowTyped ==
  ASSUME ApiTypes, create.rows # {}
  PROVE  NextRow \in create.rows /\ NextRow.email \in Emails /\ NextRow.scheduledAt \in Nat
<1>1. create.rows \subseteq [email : Emails, scheduledAt : Nat]
  BY DEF ApiTypes, CreateState
<1> DEFINE T == {position[r.email] : r \in create.rows}
<1>2. T \subseteq Nat /\ T # {}
  BY <1>1, Places
<1>3. PICK x \in T : \A y \in T : x <= y
  BY <1>2, LeastNat
<1>4. \E r \in create.rows : \A q \in create.rows : position[r.email] <= position[q.email]
  BY <1>3
<1>5. NextRow \in create.rows
  BY <1>4 DEF NextRow
<1> QED BY <1>1, <1>5

LEMMA NoCancelTyped ==
  /\ NoCancel \in CancelState
  /\ [NoCancel EXCEPT !.at = "failed"] \in CancelState
<1>1. (CHOOSE c \in Campaigns : TRUE) \in Campaigns
  BY QueueConfig, WorkerConfig
<1> QED BY <1>1 DEF NoCancel, CancelState

\* The steps of the API process keep the types of its locals, ...
LEMMA ApiLocalsTyped ==
  ASSUME SysTypeInv, ApiStep \/ (\E c \in Campaigns : CancelRead(c)) \/ ApiCrash
  PROVE  ApiTypes'
<1> USE DEF SysTypeInv, ApiTypes
<1>1. CASE ReadBack
  <2>1. PICK e \in Emails : TRUE
    BY QueueConfig
  <2>2. PICK rows : rows = {[email |-> f, scheduledAt |-> scheduledAt[f]] : f \in Emails}
    OBVIOUS
  <2>3. rows \in SUBSET [email : Emails, scheduledAt : Nat] /\ rows # {}
    <3>1. \A f \in Emails : scheduledAt[f] \in Nat
      BY DEF RecTypeInv, TypeInv, TypeOK
    <3>2. [email |-> e, scheduledAt |-> scheduledAt[e]] \in rows
      BY <2>1, <2>2
    <3> QED BY <2>2, <3>1, <3>2
  <2>4. create' = [at |-> "enqueue", rows |-> rows]
    BY <1>1, <2>2 DEF ReadBack
  <2>5. create' \in CreateState /\ create'.rows # {}
    BY <2>3, <2>4 DEF CreateState
  <2> QED BY <1>1, <2>5 DEF ReadBack
<1>2. CASE Enqueue
  <2>1. PICK rest : rest = create.rows \ {NextRow}
    OBVIOUS
  <2>2. create' = [at |-> IF rest = {} THEN "answered" ELSE "enqueue", rows |-> rest]
    BY <1>2, <2>1 DEF Enqueue, EnqueueThen
  <2>3. create' \in CreateState /\ (create'.at = "enqueue" => create'.rows # {})
    BY <2>1, <2>2 DEF CreateState
  <2> QED BY <1>2, <2>3 DEF Enqueue, EnqueueThen
<1>3. CASE CancelCommit \/ RemoveEntry
  BY <1>3 DEF CancelCommit, RemoveEntry, CancelState
<1>4. CASE CancelRow
  <2>1. ASSUME NEW r \in cancel.rows PROVE {<<r.email, r.child>>, <<r.email, 0>>} \subseteq JobIds
    BY <2>1, QueueConfig DEF CancelState, JobIds
  <2>2. CASE cancel' = NoCancel
    BY <1>4, <2>2, NoCancelTyped DEF CancelRow
  <2>3. CASE cancel' # NoCancel
    <3>1. PICK r \in cancel.rows :
            cancel' = [cancel EXCEPT !.rows = @ \ {r},
                                     !.ids = {<<r.email, r.child>>, <<r.email, 0>>}]
      BY <1>4, <2>3 DEF CancelRow
    <3>2. PICK ids \in SUBSET JobIds : ids = {<<r.email, r.child>>, <<r.email, 0>>}
      BY <2>1
    <3>3. cancel' \in CancelState
      BY <3>1, <3>2 DEF CancelState
    <3> QED BY <1>4, <3>3 DEF CancelRow
  <2> QED BY <2>2, <2>3
<1>5. CASE RemoveThrows
  BY <1>5, NoCancelTyped DEF RemoveThrows
<1>6. ASSUME NEW c \in Campaigns, CancelRead(c) PROVE ApiTypes'
  <2>1. PICK rows : rows = {[email |-> e, child |-> child[e]] :
                             e \in {f \in Emails : campaignOf[f] = c /\ status[f] \in NonTerminal}}
    OBVIOUS
  <2>2. rows \in SUBSET [email : Emails, child : 0..MaxDeferrals]
    BY <2>1 DEF RecTypeInv, TypeInv, TypeOK
  <2>3. cancel' = [at |-> "commit", of |-> c, ids |-> {}, rows |-> rows]
    BY <1>6, <2>1 DEF CancelRead
  <2>4. cancel' \in CancelState
    BY <2>2, <2>3 DEF CancelState
  <2> QED BY <1>6, <2>4 DEF CancelRead
<1>7. CASE ApiCrash
  <2>1. create' \in CreateState /\ (create'.at = "enqueue" => create'.rows # {})
    BY <1>7 DEF ApiCrash, CreateState
  <2>2. cancel' \in CancelState
    BY <1>7, NoCancelTyped DEF ApiCrash
  <2> QED BY <1>7, <2>1, <2>2 DEF ApiCrash
<1> QED BY <1>1, <1>2, <1>3, <1>4, <1>5, <1>6, <1>7 DEF ApiStep

\* ... and of the rows and the queue.
LEMMA ApiRowsTyped ==
  ASSUME SysTypeInv, ApiStep \/ (\E c \in Campaigns : CancelRead(c)) \/ ApiCrash
  PROVE  RecTypeInv'
<1> USE DEF SysTypeInv
<1>1. ASSUME UNCHANGED recVars PROVE RecTypeInv'
  BY <1>1, RecTypeStep
<1>2. CASE \/ ReadBack \/ CancelRow \/ RemoveThrows \/ ApiCrash
           \/ \E c \in Campaigns : CancelRead(c)
  BY <1>1, <1>2 DEF ReadBack, CancelRow, RemoveThrows, ApiCrash, CancelRead
<1>3. ASSUME queue' \in [JobIds -> Entry],
             UNCHANGED <<env, used, rowVars, campaign, slotVars, history, recoveryVars>>
      PROVE  RecTypeInv'
  BY <1>3 DEF RecTypeInv, TypeInv, TypeOK, PassTypes, HasRow, env, rowVars, slotVars, history,
              recoveryVars
<1>4. queue \in [JobIds -> Entry]
  BY DEF RecTypeInv, TypeInv, TypeOK
<1>5. CASE Enqueue
  <2>1. NextRow.email \in Emails /\ NextRow.scheduledAt \in Nat
    BY <1>5, NextRowTyped DEF Enqueue, EnqueueThen, ApiTypes
  <2>2. hour \in Nat
    BY ConstantsTyped DEF RecTypeInv, TypeInv, TypeOK
  <2>3. <<NextRow.email, 0>> \in JobIds /\ Later(NextRow.scheduledAt, hour) \in Nat
        /\ 0 \in 0..MaxDeferrals
    BY <2>1, <2>2, QueueConfig DEF JobIds, Later
  <2>4. queue' = AddEmailJob(queue, <<NextRow.email, 0>>, 0, Later(NextRow.scheduledAt, hour))
    BY <1>5 DEF Enqueue, EnqueueThen
  <2>5. queue' \in [JobIds -> Entry]
    BY <1>4, <2>3, <2>4, AddTyped
  <2> QED BY <1>3, <1>5, <2>5 DEF Enqueue, EnqueueThen
<1>6. CASE RemoveEntry
  <2>1. queue' = [queue EXCEPT ![NextId] = NoEntry]
    BY <1>6 DEF RemoveEntry
  <2>2. queue' \in [JobIds -> Entry]
    BY <1>4, <2>1, ConstantsTyped
  <2> QED BY <1>3, <1>6, <2>2 DEF RemoveEntry
<1>7. CASE CancelCommit
  <2>1. status' \in [Emails -> Statuses]
    BY <1>7 DEF CancelCommit, RecTypeInv, TypeInv, TypeOK, Statuses
  <2>2. campaign' \in [Campaigns -> {"SCHEDULED", "COMPLETED", "CANCELLED"}]
    BY <1>7 DEF CancelCommit, RecTypeInv, TypeInv, TypeOK
  <2> QED BY <1>7, <2>1, <2>2
          DEF CancelCommit, RecTypeInv, TypeInv, TypeOK, PassTypes, HasRow, env, slotVars,
              history, recoveryVars
<1> QED BY <1>2, <1>5, <1>6, <1>7 DEF ApiStep

LEMMA SysTypeInit == SysInit => SysTypeInv
<1> SUFFICES ASSUME SysInit PROVE SysTypeInv
  OBVIOUS
<1>1. TypeInv
  <2>1. queue \in [JobIds -> Entry]
    BY ConstantsTyped DEF SysInit
  <2>2. TypeOK
    BY <2>1, ConstantsTyped, QueueConfig
       DEF SysInit, Committed, TypeOK, Statuses, Labels, Mishaps
  <2> QED BY <2>2 DEF TypeInv, SysInit, Committed
<1>2. PassTypes
  BY PassInit DEF SysInit
<1>3. ApiTypes
  <2>1. create \in CreateState /\ create.at # "enqueue"
    BY DEF SysInit, CreateState
  <2> QED BY <2>1, NoCancelTyped DEF SysInit, ApiTypes
<1> QED BY <1>1, <1>2, <1>3 DEF SysTypeInv, RecTypeInv

LEMMA SysTypeStep == SysTypeInv /\ [SysNext]_sysVars => SysTypeInv'
<1> SUFFICES ASSUME SysTypeInv, [SysNext]_sysVars PROVE SysTypeInv'
  OBVIOUS
<1> USE DEF SysTypeInv
<1>1. ASSUME [RecNext]_recVars, UNCHANGED apiVars PROVE SysTypeInv'
  BY <1>1, RecTypeStep DEF ApiTypes, apiVars
<1>2. CASE ApiStep \/ (\E c \in Campaigns : CancelRead(c)) \/ ApiCrash
  BY <1>2, ApiLocalsTyped, ApiRowsTyped
<1> QED BY <1>1, <1>2 DEF SysNext, sysVars

\* Every variable of the backend keeps its type, the locals of the API process
\* included.
THEOREM SystemTypes == SysSpec => []SysTypeOK
<1>1. SysSpec => []SysTypeInv
  BY SysTypeInit, SysTypeStep, PTL DEF SysSpec
<1>2. SysTypeInv => SysTypeOK
  BY DEF SysTypeInv, ApiTypes, SysTypeOK, RecTypeInv, TypeInv, PassTypes, RecTypeOK
<1> QED BY <1>1, <1>2, PTL

-------------------------------------------------------------------------------
(***************************************************************************)
(* The rows. Whoever writes a row's status is a slot that has claimed it, a *)
(* slot that claims it, a pass that lists it or the commit of a cancel.      *)
(***************************************************************************)
ClaimedNow(e) == \E w \in Workers : Claim(w) /\ Email(w) = e

LEMMA ClaimWrites ==
  ASSUME TypeInv, NEW e \in Emails, ClaimedNow(e)
  PROVE  status[e] \in Claimable /\ attempts'[e] = attempts[e] + 1
BY DEF ClaimedNow, Claim, TypeInv, TypeOK

LEMMA RecStatusWriters ==
  ASSUME RecTypeInv, [RecNext]_recVars, NEW e \in Emails, status'[e] # status[e]
  PROVE  \/ SomeSlotSends(e)
         \/ ClaimedNow(e)
         \/ \E p \in Processes : e \in boot[p].stuck
<1> USE DEF RecTypeInv
<1>1. ASSUME UNCHANGED status PROVE FALSE
  BY <1>1
<1>2. ASSUME [Next]_vars PROVE SomeSlotSends(e) \/ ClaimedNow(e)
  <2>1. CASE SlotsCalm
    BY <2>1 DEF SlotsCalm
  <2>2. ASSUME NEW w \in Workers, Claim(w) PROVE ClaimedNow(e)
    BY <2>2 DEF Claim, ClaimedNow, TypeInv, TypeOK
  <2>3. ASSUME NEW w \in Workers, Write(w) PROVE SomeSlotSends(e)
    BY <2>3 DEF Write, WriteSent, WriteRetry, WriteFailed, WriteResult, At, SomeSlotSends,
                HoldsClaim, TypeInv, TypeOK
  <2>4. ASSUME NEW w \in Workers, Answer(w) \/ CountRemaining(w) \/ CompleteCampaign(w)
        PROVE  FALSE
    BY <2>4 DEF Answer, SendAccepted, SendTransient, SendAckLost, SendRefused, CountRemaining,
                CompleteCampaign, rowVars
  <2> QED BY <1>2, <2>1, <2>2, <2>3, <2>4, SendCases
<1>3. CASE SendPath \/ UNCHANGED recVars
  BY <1>2, <1>3, SendPathIsNext DEF recVars
<1>4. ASSUME NEW p \in Processes, StartBoot(p) \/ BootStep(p) \/ BootDies(p) \/ Stop(p)
      PROVE  e \in boot[p].stuck
  <2>1. CASE Reclaim(p)
    BY <2>1 DEF Reclaim
  <2>2. CASE ~Reclaim(p)
    BY <1>4, <2>2 DEF StartBoot, BootStep, FindStuck, ReadPage, SkipQueued, Probe, RemoveOrphan,
                      Requeue, Serve, Restart, BootDies, Stop, vars, rowVars
  <2> QED BY <2>1, <2>2
<1>5. CASE (\E f \in Emails : LockGoesStale(f)) \/ LoseRedis
  BY <1>5 DEF LockGoesStale, LoseRedis, rowVars
<1> QED BY <1>3, <1>4, <1>5 DEF RecNext

LEMMA StatusWriters ==
  ASSUME SysTypeInv, [SysNext]_sysVars, NEW e \in Emails, status'[e] # status[e]
  PROVE  \/ SomeSlotSends(e)
         \/ ClaimedNow(e)
         \/ \E p \in Processes : e \in boot[p].stuck
         \/ status[e] \in NonTerminal /\ status'[e] = "CANCELLED"
<1>1. CASE [RecNext]_recVars
  BY <1>1, RecStatusWriters DEF SysTypeInv
<1>2. CASE CancelCommit
  BY <1>2 DEF CancelCommit
<1>3. CASE \/ ReadBack \/ Enqueue \/ CancelRow \/ RemoveEntry \/ RemoveThrows \/ ApiCrash
           \/ \E c \in Campaigns : CancelRead(c)
  BY <1>3 DEF ReadBack, Enqueue, EnqueueThen, CancelRow, RemoveEntry, RemoveThrows, ApiCrash,
              CancelRead, recVars, vars, rowVars
<1> QED BY <1>1, <1>2, <1>3 DEF SysNext, ApiStep, sysVars

\* Only a claim counts as a try.
LEMMA TriesAreClaims ==
  ASSUME SysTypeInv, [SysNext]_sysVars, NEW e \in Emails, ~ClaimedNow(e)
  PROVE  attempts'[e] = attempts[e]
<1> USE DEF SysTypeInv, RecTypeInv, rowVars
<1>1. ASSUME NEW w \in Workers, Step(w) \/ DbError(w) PROVE attempts'[e] = attempts[e]
  <2>1. CASE Claim(w)
    BY <2>1 DEF ClaimedNow, Claim, TypeInv, TypeOK
  <2>2. CASE ~Claim(w)
    BY <1>1, <2>2 DEF Step, Load, Admit, Blocked, AddChild, SaveDeferral, ClaimLost, RunRefund,
                SendAccepted, SendTransient, SendAckLost, SendRefused, WriteSent, WriteRetry,
                WriteFailed, WriteResult, CountRemaining, CompleteCampaign, FinishJob, ThrowJob,
                DbError
  <2> QED BY <2>1, <2>2
<1>2. CASE SendPath
  BY <1>1, <1>2 DEF SendPath, TakeJob, Stall, LiveStall, Crash, Tick
<1>3. ASSUME NEW p \in Processes, StartBoot(p) \/ BootStep(p) \/ BootDies(p) \/ Stop(p)
      PROVE  attempts'[e] = attempts[e]
  BY <1>3 DEF StartBoot, BootStep, FindStuck, Reclaim, ReadPage, SkipQueued, Probe, RemoveOrphan,
              Requeue, Serve, Restart, BootDies, Stop, vars
<1>4. CASE (\E f \in Emails : LockGoesStale(f)) \/ LoseRedis \/ UNCHANGED sysVars
  BY <1>4 DEF LockGoesStale, LoseRedis, sysVars, recVars, vars
<1>5. CASE ApiStep \/ ApiCrash \/ \E c \in Campaigns : CancelRead(c)
  BY <1>5 DEF ApiStep, ReadBack, Enqueue, EnqueueThen, CancelCommit, CancelRow, RemoveEntry,
              RemoveThrows, CancelRead, ApiCrash, recVars, vars
<1> QED BY <1>2, <1>3, <1>4, <1>5 DEF SysNext, RecNext

\* An email at rest stays at rest unless a slot claims it, or it is in PROCESSING
\* and a pass finds it.
LEMMA RestLasts ==
  ASSUME SysTypeInv, [SysNext]_sysVars, NEW e \in Emails, AtRest(e), ~ClaimedNow(e)
  PROVE  /\ ~SomeSlotSends(e)' /\ accepted'[e] = accepted[e]
         /\ status[e] # "PROCESSING" => AtRest(e)'
<1> USE DEF SysTypeInv, RecTypeInv
<1>1. ASSUME SlotsCalm PROVE ~SomeSlotSends(e)' /\ accepted'[e] = accepted[e]
  BY <1>1 DEF SlotsCalm, Harmless, HoldsClaim, Email, SomeSlotSends, AtRest
<1>2. ASSUME [Next]_vars PROVE ~SomeSlotSends(e)' /\ accepted'[e] = accepted[e]
  <2>1. ASSUME NEW w \in Workers, Claim(w)
        PROVE  ~SomeSlotSends(e)' /\ accepted'[e] = accepted[e]
    <3>1. /\ UNCHANGED <<cur, accepted>> /\ Email(w) # e
          /\ \A v \in Workers : v # w => pc'[v] = pc[v]
      BY <2>1 DEF Claim, ClaimedNow, Goto, TypeInv, TypeOK, history
    <3> QED BY <3>1 DEF SomeSlotSends, HoldsClaim, Email, AtRest
  <2>2. ASSUME NEW w \in Workers, Answer(w)
        PROVE  ~SomeSlotSends(e)' /\ accepted'[e] = accepted[e]
    <3>1. OnlySlot(w) /\ pc[w] = "send" /\ \A f \in Emails : f # Email(w) => accepted'[f] = accepted[f]
      BY <2>2, AnswerEffect
    <3>2. Email(w) # e
      BY <3>1 DEF AtRest, SomeSlotSends, HoldsClaim
    <3> QED BY <3>1, <3>2 DEF OnlySlot, SomeSlotSends, HoldsClaim, Email, AtRest
  <2>3. ASSUME NEW w \in Workers, Write(w)
        PROVE  ~SomeSlotSends(e)' /\ accepted'[e] = accepted[e]
    <3>1. OnlySlot(w) /\ HoldsClaim(w) /\ accepted' = accepted
      BY <2>3, WriteEffect
    <3>2. Email(w) # e
      BY <3>1 DEF AtRest, SomeSlotSends
    <3> QED BY <3>1, <3>2 DEF OnlySlot, SomeSlotSends, HoldsClaim, Email, AtRest
  <2>4. ASSUME NEW w \in Workers, CountRemaining(w) \/ CompleteCampaign(w)
        PROVE  ~SomeSlotSends(e)' /\ accepted'[e] = accepted[e]
    <3>1. /\ UNCHANGED <<cur, accepted>> /\ pc'[w] \notin {"send", "sent", "retry", "fail"}
          /\ \A v \in Workers : v # w => pc'[v] = pc[v]
      BY <2>4 DEF CountRemaining, CompleteCampaign, Goto, TypeInv, TypeOK, history
    <3> QED BY <3>1 DEF SomeSlotSends, HoldsClaim, Email, AtRest
  <2> QED BY <1>1, <1>2, <2>1, <2>2, <2>3, <2>4, SendCases
<1>3. ASSUME UNCHANGED boot, ~SomeSlotSends(e)' PROVE AtRest(e)'
  BY <1>3 DEF AtRest
<1>4. CASE SendPath /\ UNCHANGED recoveryVars
  BY <1>2, <1>3, <1>4, SendPathIsNext DEF recoveryVars
<1>5. ASSUME NEW p \in Processes, StartBoot(p) \/ BootStep(p) \/ BootDies(p) \/ Stop(p)
      PROVE  /\ ~SomeSlotSends(e)' /\ accepted'[e] = accepted[e]
             /\ status[e] # "PROCESSING" => AtRest(e)'
  <2>1. UNCHANGED <<pc, cur, accepted>>
    BY <1>5 DEF StartBoot, BootStep, FindStuck, Reclaim, ReadPage, SkipQueued, Probe, RemoveOrphan,
                Requeue, Serve, Restart, BootDies, Stop, vars, slotVars, history
  <2>2. ~SomeSlotSends(e)'
    BY <2>1 DEF SomeSlotSends, HoldsClaim, Email, AtRest
  <2>3. \A q \in Processes : e \in boot'[q].stuck => e \in boot[q].stuck \/ status[e] = "PROCESSING"
    <3>1. CASE FindStuck(p)
      BY <3>1 DEF FindStuck, PassTypes, BootState
    <3>2. CASE Reclaim(p)
      BY <3>2 DEF Reclaim, PassTypes, BootState
    <3>3. CASE ~FindStuck(p) /\ ~Reclaim(p)
      <4>1. /\ \A q \in Processes : q # p => boot'[q] = boot[q]
            /\ boot'[p].stuck \in {{}, boot[p].stuck}
        BY <1>5, <3>3, OtherPassSteps DEF BootStep
      <4> QED BY <4>1
    <3> QED BY <3>1, <3>2, <3>3
  <2> QED BY <2>1, <2>2, <2>3 DEF AtRest
<1>6. ASSUME UNCHANGED <<pc, cur, accepted, boot>>
      PROVE  /\ ~SomeSlotSends(e)' /\ accepted'[e] = accepted[e]
             /\ status[e] # "PROCESSING" => AtRest(e)'
  BY <1>6 DEF SomeSlotSends, HoldsClaim, Email, AtRest
<1>7. CASE (\E f \in Emails : LockGoesStale(f)) \/ LoseRedis \/ UNCHANGED sysVars
  BY <1>6, <1>7 DEF LockGoesStale, LoseRedis, sysVars, recVars, recoveryVars, vars, slotVars, history
<1>8. CASE ApiStep \/ ApiCrash \/ \E c \in Campaigns : CancelRead(c)
  BY <1>6, <1>8 DEF ApiStep, ReadBack, Enqueue, EnqueueThen, CancelCommit, CancelRow, RemoveEntry,
              RemoveThrows, CancelRead, ApiCrash, recVars, recoveryVars, vars, slotVars, history
<1> QED BY <1>4, <1>5, <1>7, <1>8 DEF SysNext, RecNext

\* Once no slot is sending a cancelled email and no pass has listed it, it is
\* closed for good: it stays cancelled and unlisted, and nothing claims or sends
\* it, whatever crashes, is redelivered, enqueued or repaired
\* (campaign.service.ts:322).
THEOREM CancelledEmailsStay == SysSpec => CancelledStays
<1>1. ASSUME SysTypeInv, [SysNext]_sysVars, NEW e \in Emails, status[e] = "CANCELLED", AtRest(e)
      PROVE  status'[e] = "CANCELLED" /\ AtRest(e)' /\ accepted'[e] = accepted[e]
  <2>1. ~ClaimedNow(e)
    BY <1>1, ClaimWrites DEF Claimable, SysTypeInv, RecTypeInv
  <2>2. status'[e] = status[e]
    BY <1>1, <2>1, StatusWriters DEF AtRest
  <2> QED BY <1>1, <2>1, <2>2, RestLasts
<1>2. SysTypeInv /\ [SysNext]_sysVars
        => [\A e \in Emails :
              status[e] = "CANCELLED" /\ AtRest(e)
                => /\ status'[e] = "CANCELLED" /\ AtRest(e)'
                   /\ accepted'[e] = accepted[e]]_sysVars
  BY <1>1
<1> QED BY <1>2, SysTypeInit, SysTypeStep, PTL DEF SysSpec, CancelledStays

\* Whoever writes a campaign cancels it, or completes one that was scheduled.
LEMMA CampaignWriters ==
  ASSUME SysTypeInv, [SysNext]_sysVars, NEW c \in Campaigns, campaign'[c] # campaign[c]
  PROVE  campaign'[c] = "CANCELLED" \/ campaign[c] = "SCHEDULED"
<1> USE DEF SysTypeInv, RecTypeInv
<1>1. ASSUME [Next]_vars PROVE campaign[c] = "SCHEDULED"
  <2>1. CASE SlotsCalm
    BY <2>1 DEF SlotsCalm
  <2>2. ASSUME NEW w \in Workers, CompleteCampaign(w) PROVE campaign[c] = "SCHEDULED"
    BY <2>2 DEF CompleteCampaign, TypeInv, TypeOK
  <2>3. ASSUME NEW w \in Workers, Claim(w) \/ Write(w) \/ Answer(w) \/ CountRemaining(w)
        PROVE  FALSE
    BY <2>3 DEF Claim, Write, WriteSent, WriteRetry, WriteFailed, WriteResult, Answer,
                SendAccepted, SendTransient, SendAckLost, SendRefused, CountRemaining
  <2> QED BY <1>1, <2>1, <2>2, <2>3, SendCases
<1>2. CASE SendPath \/ UNCHANGED recVars
  BY <1>1, <1>2, SendPathIsNext DEF recVars
<1>3. ASSUME NEW p \in Processes, StartBoot(p) \/ BootStep(p) \/ BootDies(p) \/ Stop(p)
      PROVE  FALSE
  BY <1>3 DEF StartBoot, BootStep, FindStuck, Reclaim, ReadPage, SkipQueued, Probe, RemoveOrphan,
              Requeue, Serve, Restart, BootDies, Stop, vars
<1>4. CASE (\E f \in Emails : LockGoesStale(f)) \/ LoseRedis
  BY <1>4 DEF LockGoesStale, LoseRedis
<1>5. CASE CancelCommit
  BY <1>5 DEF CancelCommit, TypeInv, TypeOK
<1>6. CASE \/ ReadBack \/ Enqueue \/ CancelRow \/ RemoveEntry \/ RemoveThrows \/ ApiCrash
           \/ \E d \in Campaigns : CancelRead(d)
  BY <1>6 DEF ReadBack, Enqueue, EnqueueThen, CancelRow, RemoveEntry, RemoveThrows, ApiCrash,
              CancelRead, recVars, vars
<1> QED BY <1>2, <1>3, <1>4, <1>5, <1>6 DEF SysNext, RecNext, ApiStep, sysVars

\* A cancelled campaign is never reported as completed (email.worker.ts:58).
THEOREM CancelledCampaignsStay == SysSpec => CancelledForGood
<1>1. SysTypeInv /\ [SysNext]_sysVars
        => [\A c \in Campaigns : campaign[c] = "CANCELLED" => campaign'[c] = "CANCELLED"]_sysVars
  BY CampaignWriters
<1> QED BY <1>1, SysTypeInit, SysTypeStep, PTL DEF SysSpec, CancelledForGood

\* A campaign becomes cancelled only together with its rows.
LEMMA CancelTakesRows ==
  ASSUME SysTypeInv, [SysNext]_sysVars, NEW e \in Emails,
         campaign'[campaignOf[e]] = "CANCELLED", campaign[campaignOf[e]] # "CANCELLED",
         status[e] \in Claimable \cup {"CANCELLED"}
  PROVE  status'[e] = "CANCELLED"
<1> DEFINE c == campaignOf[e]
<1> USE DEF SysTypeInv, RecTypeInv
<1>1. c \in Campaigns
  BY WorkerConfig
<1> HIDE DEF c
<1>2. ASSUME [Next]_vars PROVE campaign'[c] # "CANCELLED" \/ campaign[c] = "CANCELLED"
  <2>1. CASE SlotsCalm
    BY <2>1 DEF SlotsCalm
  <2>2. ASSUME NEW w \in Workers,
               Claim(w) \/ Write(w) \/ Answer(w) \/ CountRemaining(w) \/ CompleteCampaign(w)
        PROVE  campaign'[c] # "CANCELLED" \/ campaign[c] = "CANCELLED"
    BY <1>1, <2>2 DEF Claim, Write, WriteSent, WriteRetry, WriteFailed, WriteResult, Answer,
                SendAccepted, SendTransient, SendAckLost, SendRefused, CountRemaining,
                CompleteCampaign, TypeInv, TypeOK
  <2> QED BY <1>2, <2>1, <2>2, SendCases
<1>3. ~(SendPath \/ UNCHANGED sysVars)
  BY <1>2, SendPathIsNext DEF c, sysVars, recVars
<1>4. ASSUME NEW p \in Processes, StartBoot(p) \/ BootStep(p) \/ BootDies(p) \/ Stop(p)
      PROVE  FALSE
  BY <1>4 DEF StartBoot, BootStep, FindStuck, Reclaim, ReadPage, SkipQueued, Probe, RemoveOrphan,
              Requeue, Serve, Restart, BootDies, Stop, vars
<1>5. ~((\E f \in Emails : LockGoesStale(f)) \/ LoseRedis)
  BY DEF LockGoesStale, LoseRedis
<1>6. CASE CancelCommit
  BY <1>1, <1>6 DEF CancelCommit, TypeInv, TypeOK, Claimable, NonTerminal, c
<1>7. CASE \/ ReadBack \/ Enqueue \/ CancelRow \/ RemoveEntry \/ RemoveThrows \/ ApiCrash
           \/ \E d \in Campaigns : CancelRead(d)
  BY <1>7 DEF ReadBack, Enqueue, EnqueueThen, CancelRow, RemoveEntry, RemoveThrows, ApiCrash,
              CancelRead, recVars, vars
<1> QED BY <1>3, <1>4, <1>5, <1>6, <1>7 DEF SysNext, RecNext, ApiStep

\* A row that was never claimed waits or is cancelled, is at rest, and is
\* cancelled if its campaign is.
UntriedRows ==
  \A e \in Emails :
    attempts[e] = 0 => /\ status[e] \in Claimable \cup {"CANCELLED"}
                       /\ AtRest(e)
                       /\ campaign[campaignOf[e]] = "CANCELLED" => status[e] = "CANCELLED"

LEMMA UntriedStep ==
  ASSUME SysTypeInv, UntriedRows, [SysNext]_sysVars
  PROVE  UntriedRows'
<1> SUFFICES ASSUME NEW e \in Emails, attempts'[e] = 0
             PROVE  /\ status'[e] \in Claimable \cup {"CANCELLED"}
                    /\ AtRest(e)'
                    /\ campaign'[campaignOf[e]] = "CANCELLED" => status'[e] = "CANCELLED"
  BY DEF UntriedRows
<1>1. ~ClaimedNow(e)
  BY ClaimWrites DEF SysTypeInv, RecTypeInv, TypeInv, TypeOK
<1>2. attempts[e] = 0
  BY <1>1, TriesAreClaims
<1>3. /\ status[e] \in Claimable \cup {"CANCELLED"} /\ AtRest(e)
      /\ campaign[campaignOf[e]] = "CANCELLED" => status[e] = "CANCELLED"
  BY <1>2 DEF UntriedRows
<1>4. status'[e] = status[e] \/ status'[e] = "CANCELLED"
  BY <1>1, <1>3, StatusWriters DEF AtRest
<1>5. AtRest(e)'
  BY <1>1, <1>3, RestLasts DEF Claimable
<1>6. ASSUME campaign'[campaignOf[e]] = "CANCELLED" PROVE status'[e] = "CANCELLED"
  BY <1>3, <1>4, <1>6, CancelTakesRows
<1> QED BY <1>3, <1>4, <1>5, <1>6

LEMMA UntriedInit == SysInit => UntriedRows
BY WorkerConfig DEF SysInit, Committed, NoPassYet, NoBoot, UntriedRows, Claimable, AtRest,
                    SomeSlotSends, HoldsClaim

\* An email that no slot had claimed when its campaign was cancelled is never
\* claimed: neither a worker, a boot pass nor a request takes it out of CANCELLED
\* (campaign.service.ts:322).
THEOREM UntriedEmailsStayUntried == SysSpec => UntriedIsNeverTried
<1>1. ASSUME SysTypeInv, UntriedRows, [SysNext]_sysVars, NEW e \in Emails,
             campaign[campaignOf[e]] = "CANCELLED", attempts[e] = 0
      PROVE  status'[e] = "CANCELLED" /\ attempts'[e] = 0
  <2>1. status[e] = "CANCELLED" /\ AtRest(e)
    BY <1>1 DEF UntriedRows
  <2>2. ~ClaimedNow(e)
    BY <1>1, <2>1, ClaimWrites DEF Claimable, SysTypeInv, RecTypeInv
  <2> QED BY <1>1, <2>1, <2>2, StatusWriters, TriesAreClaims DEF AtRest
<1>2. SysTypeInv /\ UntriedRows /\ [SysNext]_sysVars
        => [\A e \in Emails :
              campaign[campaignOf[e]] = "CANCELLED" /\ attempts[e] = 0
                => status'[e] = "CANCELLED" /\ attempts'[e] = 0]_sysVars
  BY <1>1
<1>3. SysInit => SysTypeInv /\ UntriedRows
  BY SysTypeInit, UntriedInit
<1>4. SysTypeInv /\ UntriedRows /\ [SysNext]_sysVars => (SysTypeInv /\ UntriedRows)'
  BY SysTypeStep, UntriedStep
<1> QED BY <1>2, <1>3, <1>4, PTL DEF SysSpec, UntriedIsNeverTried

-------------------------------------------------------------------------------
\* The commit of a cancel takes rows that are not finished, claimed and listed
\* ones included, and their campaign with them.
LEMMA CancelKeepsRows ==
  ASSUME SysTypeInv, RowsInv, CancelCommit
  PROVE  RowsInv'
<1> USE DEF RowsInv
<1>1. PICK c \in Campaigns : c = cancel.of
  BY DEF SysTypeInv, ApiTypes, CancelState
<1>2. /\ UNCHANGED <<lockedAt, accepted, mishaps, pc, cur, boot>>
      /\ \A e \in Emails :
           \/ status'[e] = status[e]
           \/ campaignOf[e] = c /\ status[e] \in NonTerminal /\ status'[e] = "CANCELLED"
      /\ \A e \in Emails : campaignOf[e] = c => status'[e] \notin NonTerminal
      /\ campaign'[c] = "CANCELLED"
      /\ \A d \in Campaigns : d # c => campaign'[d] = campaign[d]
  BY <1>1 DEF CancelCommit, env, slotVars, history, recoveryVars, NonTerminal, SysTypeInv,
              RecTypeInv, TypeInv, TypeOK
<1>3. /\ \A v \in Workers : (HoldsClaim(v)' <=> HoldsClaim(v)) /\ Email(v)' = Email(v)
      /\ \A e : SomeSlotSends(e)' <=> SomeSlotSends(e)
  BY <1>2 DEF HoldsClaim, Email, SomeSlotSends
<1>4. \A e \in Emails : status'[e] \in NonTerminal => status[e] \in NonTerminal
  BY <1>2 DEF NonTerminal
<1>5. \A w \in Workers : Email(w) \in Emails
  BY EmailTyped DEF SysTypeInv, RecTypeInv, TypeInv
<1>6. ClaimExclusive' /\ HolderKeepsRow'
  BY <1>2, <1>3, <1>5 DEF ClaimExclusive, HolderKeepsRow
<1>7. StaleIsUnsent' /\ ListedIsUnsent'
  BY <1>2, <1>3 DEF StaleIsUnsent, ListedIsUnsent
<1>8. SendsPaid'
  <2>1. Harm' = Harm
    BY <1>2 DEF Harm
  <2>2. \A e \in Emails : status[e] = "SENT" => status'[e] = "SENT"
    BY <1>2 DEF NonTerminal
  <2> QED BY <1>2, <1>3, <2>1, <2>2 DEF SendsPaid
<1>9. CancelledTogether'
  BY <1>2, WorkerConfig DEF CancelledTogether
<1>10. CompletedIsSettled'
  BY <1>2, <1>4, FewerRemaining DEF CompletedIsSettled
<1>11. CountStands'
  <2> SUFFICES ASSUME NEW w \in Workers, pc[w] = "complete"
               PROVE  \/ Remaining(campaignOf[Email(w)])' = {}
                      \/ campaign'[campaignOf[Email(w)]] = "CANCELLED"
    BY <1>2, <1>3 DEF CountStands
  <2>1. campaignOf[Email(w)] \in Campaigns
    BY <1>5, WorkerConfig
  <2>2. Remaining(campaignOf[Email(w)]) = {} => Remaining(campaignOf[Email(w)])' = {}
    BY <1>2, <1>3, <1>4 DEF Remaining
  <2> QED BY <1>2, <2>1, <2>2 DEF CountStands
<1> QED BY <1>6, <1>7, <1>8, <1>9, <1>10, <1>11

LEMMA SysInvStep ==
  ASSUME SysTypeInv, SysTypeInv', RecInv, Prudent, [SysNext]_sysVars
  PROVE  RecInv'
<1> USE DEF SysTypeInv
<1>1. CASE [RecNext]_recVars
  BY <1>1, RecInvStep
<1>2. CASE ReadBack \/ Enqueue \/ CancelRow \/ RemoveEntry \/ RemoveThrows \/ ApiCrash
           \/ \E c \in Campaigns : CancelRead(c)
  <2>1. UNCHANGED <<status, lockedAt, accepted, campaign, mishaps, pc, cur, boot>>
    BY <1>2 DEF ReadBack, Enqueue, EnqueueThen, CancelRow, RemoveEntry, RemoveThrows, ApiCrash,
                CancelRead, recVars, recoveryVars, vars, env, rowVars, slotVars, history
  <2>2. SlotsCalm /\ ListsCalm
    BY <2>1, HarmTyped DEF SlotsCalm, ListsCalm, Harm, RecTypeInv
  <2>3. OnePass'
    BY <2>1 DEF RecInv, OnePass, NotBooting, Booting
  <2> QED BY <2>2, <2>3, CalmKeepsRows DEF RecInv, RecTypeInv
<1>3. CASE CancelCommit
  <2>1. OnePass'
    BY <1>3 DEF CancelCommit, recoveryVars, RecInv, OnePass, NotBooting, Booting
  <2> QED BY <1>3, <2>1, CancelKeepsRows DEF RecInv
<1> QED BY <1>1, <1>2, <1>3 DEF SysNext, ApiStep, sysVars

LEMMA SysInvHolds ==
  ASSUME Prudent
  PROVE  SysSpec => [](SysTypeInv /\ RecInv)
<1>1. SysInit => SysTypeInv /\ RecInv
  BY SysTypeInit, RecInvInit DEF SysInit
<1>2. SysTypeInv /\ RecInv /\ [SysNext]_sysVars => (SysTypeInv /\ RecInv)'
  BY SysTypeStep, SysInvStep
<1> QED BY <1>1, <1>2, PTL DEF SysSpec

\* Two slots never send the same email at the same time, although processes boot
\* and take back rows, and campaigns are created and cancelled meanwhile
\* (email.worker.ts:160).
THEOREM OneSenderInBackend ==
  ASSUME Prudent
  PROVE  SysSpec => []ClaimExclusive
<1>1. RecInv => ClaimExclusive
  BY DEF RecInv, RowsInv
<1> QED BY <1>1, SysInvHolds, PTL

\* An email is accepted once, and once more for every crash, rejected statement
\* and lost answer, whatever the boots take back and queue again
\* (reconciliation.service.ts:118).
THEOREM ExtraSendsPaid ==
  ASSUME Prudent
  PROVE  SysSpec => []ExtraSendsBounded
<1>1. SysTypeInv /\ RecInv => ExtraSendsBounded
  <2> SUFFICES ASSUME SysTypeInv, RecInv, NEW e \in Emails
               PROVE  accepted[e] <= 1 + mishaps["crash"] + mishaps["dbError"] + mishaps["lostAck"]
    BY DEF ExtraSendsBounded
  <2>1. /\ Harm \in Nat /\ accepted[e] \in Nat
        /\ mishaps["crash"] \in Nat /\ mishaps["dbError"] \in Nat /\ mishaps["lostAck"] \in Nat
    BY HarmTyped DEF SysTypeInv, RecTypeInv, TypeInv, TypeOK
  <2>2. accepted[e] <= 1 + Harm
    BY <2>1 DEF RecInv, RowsInv, SendsPaid
  <2> QED BY <2>1, <2>2 DEF Harm
<1> QED BY <1>1, SysInvHolds, PTL

\* A completed campaign has nothing left to send: no pass takes back a row of it
\* (email.worker.ts:48).
THEOREM CompletionInBackend ==
  ASSUME Prudent
  PROVE  SysSpec => []CompletedIsSettled
<1>1. RecInv => CompletedIsSettled
  BY DEF RecInv, RowsInv
<1> QED BY <1>1, SysInvHolds, PTL

\* No slot, no pass and no cancel takes an email back from SENT or FAILED,
\* although slots and passes write rows by id (email.worker.ts:210, :234, :257,
\* reconciliation.service.ts:124).
THEOREM VerdictsInBackend ==
  ASSUME Prudent
  PROVE  SysSpec => VerdictIsFinal
<1>1. SysTypeInv /\ RecInv /\ [SysNext]_sysVars
        => [\A e \in Emails : status[e] \in {"SENT", "FAILED"} => status'[e] = status[e]]_vars
  <2> SUFFICES ASSUME SysTypeInv, RecInv, [SysNext]_sysVars, NEW e \in Emails,
                      status[e] \in {"SENT", "FAILED"}, status'[e] # status[e]
               PROVE  FALSE
    OBVIOUS
  <2>1. ~SomeSlotSends(e)
    BY DEF RecInv, RowsInv, HolderKeepsRow, SomeSlotSends
  <2>2. \A p \in Processes : e \notin boot[p].stuck
    BY DEF RecInv, RowsInv, ListedIsUnsent
  <2>3. ~ClaimedNow(e)
    BY ClaimWrites DEF SysTypeInv, RecTypeInv, Claimable
  <2> QED BY <2>1, <2>2, <2>3, StatusWriters DEF NonTerminal
<1> QED BY <1>1, SysInvHolds, PTL DEF SysSpec, VerdictIsFinal

-------------------------------------------------------------------------------
(***************************************************************************)
(* The pass of an only process, while nobody cancels: nothing but the pass   *)
(* and createCampaign touches the queue, and nothing but the pass the rows.  *)
(* With a second process neither holds: a slot of it may claim, and take out *)
(* of the query, the very row the cursor stands on.                          *)
(***************************************************************************)
OneProcess == \A p, q \in Processes : p = q
NobodyCancels == MaxCancels = 0

\* The slots of a process that does not consume are idle, and a process that
\* makes its pass does not consume.
SlotsQuiet ==
  /\ \A w \in Workers : ~up[procOf[w]] => pc[w] = "idle"
  /\ \A p \in Processes : ~NotBooting(p) => ~up[p]

NoneCancelled == cancel.at = "off" /\ \A c \in Campaigns : campaign[c] # "CANCELLED"

LEMMA SlotsQuietStep ==
  ASSUME SysTypeInv, SlotsQuiet, [SysNext]_sysVars
  PROVE  SlotsQuiet'
<1> USE DEF SysTypeInv, RecTypeInv, PassTypes, TypeInv, TypeOK, SlotsQuiet, NotBooting, Booting
<1>1. ASSUME UNCHANGED <<up, pc, boot>> PROVE SlotsQuiet'
  BY <1>1
<1>2. CASE ApiStep \/ (\E c \in Campaigns : CancelRead(c)) \/ ApiCrash \/ UNCHANGED sysVars
  BY <1>1, <1>2 DEF ApiStep, ReadBack, Enqueue, EnqueueThen, CancelCommit, CancelRow, RemoveEntry,
                    RemoveThrows, CancelRead, ApiCrash, sysVars, recVars, recoveryVars, vars, env,
                    slotVars
<1>3. ASSUME NEW w \in Workers, Step(w) \/ DbError(w), UNCHANGED recoveryVars PROVE SlotsQuiet'
  <2>1. /\ pc[w] # "idle" /\ UNCHANGED <<up, boot>>
        /\ \A v \in Workers : v # w => pc'[v] = pc[v]
    BY <1>3 DEF Step, Load, Admit, Blocked, AddChild, SaveDeferral, Claim, ClaimLost, RunRefund,
                SendAccepted, SendTransient, SendAckLost, SendRefused, WriteSent, WriteRetry,
                WriteFailed, WriteResult, CountRemaining, CompleteCampaign, FinishJob, ThrowJob,
                Release, DbError, UsesDatabase, At, Goto, env, recoveryVars
  <2> QED BY <2>1
<1>4. ASSUME NEW w \in Workers, NEW id \in JobIds, TakeJob(w, id), UNCHANGED recoveryVars
      PROVE  SlotsQuiet'
  BY <1>4 DEF TakeJob, At, Goto, env, recoveryVars
<1>5. ASSUME NEW id \in JobIds, Stall(id) \/ LiveStall(id), UNCHANGED recoveryVars PROVE SlotsQuiet'
  BY <1>1, <1>5 DEF Stall, LiveStall, env, slotVars, recoveryVars
<1>6. ASSUME NEW p \in Processes, Crash(p), UNCHANGED recoveryVars PROVE SlotsQuiet'
  BY <1>6, WorkerConfig DEF Crash, recoveryVars
<1>7. CASE Tick /\ UNCHANGED recoveryVars
  BY <1>1, <1>7 DEF Tick, slotVars, recoveryVars
<1>8. CASE SendPath /\ UNCHANGED recoveryVars
  BY <1>3, <1>4, <1>5, <1>6, <1>7, <1>8 DEF SendPath
<1>9. CASE (\E e \in Emails : LockGoesStale(e)) \/ LoseRedis
  BY <1>1, <1>9 DEF LockGoesStale, LoseRedis, env, slotVars
<1>10. ASSUME NEW p \in Processes, StartBoot(p) PROVE SlotsQuiet'
  BY <1>10 DEF StartBoot, vars, env, slotVars
<1>11. ASSUME NEW p \in Processes,
              FindStuck(p) \/ Reclaim(p) \/ ReadPage(p) \/ SkipQueued(p) \/ Probe(p)
                \/ RemoveOrphan(p) \/ Requeue(p)
       PROVE  SlotsQuiet'
  <2>1. UNCHANGED <<up, pc>> /\ boot[p].at # "off"
    BY <1>11 DEF FindStuck, Reclaim, ReadPage, SkipQueued, Probe, RemoveOrphan, Requeue, vars, env,
                 slotVars
  <2>2. \A q \in Processes : q # p => boot'[q] = boot[q]
    BY <1>11 DEF FindStuck, Reclaim, ReadPage, SkipQueued, Probe, RemoveOrphan, Requeue, RowDone,
                 NextCandidate
  <2> QED BY <2>1, <2>2
<1>12. ASSUME NEW p \in Processes, Serve(p) \/ BootDies(p) PROVE SlotsQuiet'
  <2>1. NoBoot.at = "off"
    BY DEF NoBoot
  <2>2. /\ pc' = pc /\ boot'[p].at = "off"
        /\ \A q \in Processes : q # p => boot'[q] = boot[q] /\ up'[q] = up[q]
    BY <1>12, <2>1 DEF Serve, Restart, BootDies, slotVars
  <2>3. \A q \in Processes : ~up'[q] => ~up[q]
    BY <1>12 DEF Serve, Restart, BootDies
  <2> QED BY <2>2, <2>3, WorkerConfig
<1>13. ASSUME NEW p \in Processes, Stop(p) PROVE SlotsQuiet'
  BY <1>13 DEF Stop, At, slotVars
<1> QED BY <1>2, <1>8, <1>9, <1>10, <1>11, <1>12, <1>13 DEF SysNext, RecNext, BootStep, sysVars

LEMMA NoneCancelledStep ==
  ASSUME SysTypeInv, NoneCancelled, NobodyCancels, [SysNext]_sysVars
  PROVE  NoneCancelled'
<1>1. ~CancelRow /\ ~CancelCommit /\ ~RemoveEntry /\ ~RemoveThrows
  BY DEF NoneCancelled, CancelRow, CancelCommit, RemoveEntry, RemoveThrows
<1>2. ~\E c \in Campaigns : CancelRead(c)
  BY DEF CancelRead, NobodyCancels, SysTypeInv, ApiTypes
<1>3. cancel'.at = "off"
  BY <1>1, <1>2 DEF SysNext, ApiStep, ReadBack, Enqueue, EnqueueThen, ApiCrash, sysVars, apiVars,
                    NoneCancelled
<1>4. ASSUME [Next]_vars, NEW c \in Campaigns PROVE campaign'[c] # "CANCELLED"
  <2>1. CASE SlotsCalm
    BY <2>1 DEF SlotsCalm, NoneCancelled
  <2>2. ASSUME NEW w \in Workers,
               Claim(w) \/ Write(w) \/ Answer(w) \/ CountRemaining(w) \/ CompleteCampaign(w)
        PROVE  campaign'[c] # "CANCELLED"
    BY <2>2 DEF Claim, Write, WriteSent, WriteRetry, WriteFailed, WriteResult, Answer,
                SendAccepted, SendTransient, SendAckLost, SendRefused, CountRemaining,
                CompleteCampaign, NoneCancelled, SysTypeInv, RecTypeInv, TypeInv, TypeOK
  <2> QED BY <1>4, <2>1, <2>2, SendCases DEF SysTypeInv, RecTypeInv
<1>5. CASE SendPath \/ UNCHANGED recVars
  BY <1>3, <1>4, <1>5, SendPathIsNext DEF recVars, NoneCancelled
<1>6. CASE ~SendPath /\ ~UNCHANGED recVars
  <2>1. campaign' = campaign
    BY <1>1, <1>2, <1>6
       DEF SysNext, RecNext, ApiStep, ReadBack, Enqueue, EnqueueThen, ApiCrash, StartBoot,
           BootStep, FindStuck, Reclaim, ReadPage, SkipQueued, Probe, RemoveOrphan, Requeue, Serve,
           Restart, BootDies, Stop, LockGoesStale, LoseRedis, sysVars, recVars, vars
  <2> QED BY <1>3, <2>1 DEF NoneCancelled
<1> QED BY <1>5, <1>6

-------------------------------------------------------------------------------
\* What is true while p makes its pass. The rows up to the cursor that are not
\* in hand have an entry that will run, as long as Redis keeps its data.
AtRow == {"probe", "remove", "add"}

InHand(p, e) == \E r \in boot[p].todo : r.email = e

PlacesOk(p) ==
  /\ boot[p].since <= events["redisLoss"]
  /\ boot[p].at \notin AtRow => boot[p].todo = {}
  /\ boot[p].at \in {"find", "reclaim"} => boot[p].cursor = 0

\* What was read of the rows in hand is still true of them.
SnapshotsTrue(p) ==
  \A r \in boot[p].todo :
    /\ r = [email |-> r.email, child |-> child[r.email], scheduledAt |-> scheduledAt[r.email]]
    /\ status[r.email] \in Claimable /\ position[r.email] <= boot[p].cursor

\* The row the cursor stands on is still in the result of the query, where the
\* next page skips it.
CursorOnRow(p) ==
  boot[p].cursor = 0
    \/ \E e \in Emails : status[e] \in Claimable /\ position[e] = boot[p].cursor

NothingBeyond(p) ==
  Booting(p, "repaired") \/ (boot[p].at \in AtRow /\ ~boot[p].more)
    => \A e \in Emails : status[e] \in Claimable => position[e] <= boot[p].cursor

\* The id under which the row in hand will be added is free or will run.
CandidateOk(p) ==
  /\ boot[p].at \in {"probe", "remove"} => boot[p].n <= Row(p).child
  /\ Booting(p, "add")
       => queue[<<Row(p).email, Row(p).child>>].state \notin {"completed", "failed"}

Repaired(p) ==
  boot[p].since = events["redisLoss"] =>
    /\ Booting(p, "remove") => queue[Candidate(p)].state \in {"completed", "failed"}
    /\ \A e \in Emails :
         status[e] \in Claimable /\ position[e] <= boot[p].cursor /\ ~InHand(p, e)
           => QueuedAgain(e)

PassOk(p) ==
  PlacesOk(p) /\ SnapshotsTrue(p) /\ CursorOnRow(p) /\ NothingBeyond(p) /\ CandidateOk(p)
    /\ Repaired(p)

PassInv ==
  SlotsQuiet /\ NoneCancelled /\ \A p \in Processes : ~NotBooting(p) => PassOk(p)

\* An entry that will run after the step if it would have before.
Queues(id) == queue[id].state \in {"pending", "active"}

LEMMA KeepsQueued ==
  ASSUME NEW e, \A n \in 0..MaxDeferrals : Queues(<<e, n>>) => Queues(<<e, n>>)', QueuedAgain(e)
  PROVE  QueuedAgain(e)'
BY DEF QueuedAgain, Queues

LEMMA FirstSnapshot ==
  ASSUME NEW todo \in SUBSET RowSnapshot, todo # {}, NEW r,
         r = CHOOSE f \in todo : \A q \in todo : position[f.email] <= position[q.email]
  PROVE  r \in todo /\ r.email \in Emails /\ r.child \in 0..MaxDeferrals
<1> DEFINE T == {position[q.email] : q \in todo}
<1>1. T \subseteq Nat /\ T # {}
  BY Places DEF RowSnapshot
<1>2. PICK x \in T : \A y \in T : x <= y
  BY <1>1, LeastNat
<1>3. \E f \in todo : \A q \in todo : position[f.email] <= position[q.email]
  BY <1>2
<1>4. r \in todo
  BY <1>3
<1> QED BY <1>4 DEF RowSnapshot

\* The query leaves out the row of the cursor and none after it.
LEMMA RowsBeyond ==
  ASSUME NEW p \in Processes, PassTypes, CursorOnRow(p)
  PROVE  RowsFrom(boot[p].cursor)
           = {e \in Emails : status[e] \in Claimable /\ position[e] > boot[p].cursor}
<1>1. PICK rows : rows = {e \in Emails : status[e] \in Claimable
                                           /\ position[e] >= boot[p].cursor}
  OBVIOUS
<1>2. RowsFrom(boot[p].cursor)
        = IF boot[p].cursor = 0 \/ rows = {} THEN rows ELSE rows \ {Least(rows)}
  BY <1>1 DEF RowsFrom
<1>3. boot[p].cursor \in Nat
  BY DEF PassTypes, BootState
<1>4. CASE boot[p].cursor = 0
  BY <1>1, <1>2, <1>4, Places
<1>5. CASE boot[p].cursor # 0
  <2>1. PICK c \in Emails : status[c] \in Claimable /\ position[c] = boot[p].cursor
    BY <1>5 DEF CursorOnRow
  <2>2. c \in rows /\ rows \in SUBSET Emails
    BY <1>1, <1>3, <2>1
  <2>3. Least(rows) \in rows /\ position[Least(rows)] <= position[c]
    BY <2>2, FirstRow
  <2>4. Least(rows) = c
    BY <1>1, <1>3, <2>1, <2>3, Places
  <2>5. RowsFrom(boot[p].cursor) = rows \ {c}
    BY <1>2, <1>5, <2>2, <2>4
  <2> QED BY <1>1, <1>3, <2>1, <2>5, Places
<1> QED BY <1>4, <1>5

\* Once nothing is left to read, every row that waits lies within the cursor.
LEMMA NothingLeft ==
  ASSUME NEW p \in Processes, PassTypes, CursorOnRow(p),
         PageOf(RowsFrom(boot[p].cursor)) = {}
  PROVE  \A e \in Emails : status[e] \in Claimable => position[e] <= boot[p].cursor
<1>1. RowsFrom(boot[p].cursor) \in SUBSET Emails
  BY RowsBeyond
<1>2. RowsFrom(boot[p].cursor) = {}
  BY <1>1, PageIsPrefix
<1>3. \A e \in Emails : status[e] \in Claimable => ~(position[e] > boot[p].cursor)
  BY <1>2, RowsBeyond
<1>4. boot[p].cursor \in Nat
  BY DEF PassTypes, BootState
<1> QED BY <1>3, <1>4, Places

\* The pass starts, lists and takes back: it has read no row yet.
LEMMA EarlyPass ==
  ASSUME RecTypeInv, RecTypeInv', NEW p \in Processes,
         StartBoot(p) \/ (PassOk(p) /\ (FindStuck(p) \/ Reclaim(p)))
  PROVE  PassOk(p)'
<1> USE DEF RecTypeInv, PassTypes
<1>1. boot[p] \in BootState
  OBVIOUS
<1>2. /\ boot'[p].todo = {} /\ boot'[p].cursor = 0 /\ boot'[p].since <= events'["redisLoss"]
      /\ boot'[p].at \in {"find", "reclaim", "page"}
  <2>1. CASE StartBoot(p)
    <3>1. /\ boot'[p] = [NoBoot EXCEPT !.at = "find", !.since = events["redisLoss"]]
          /\ events' = events
      BY <2>1 DEF StartBoot
    <3>2. events["redisLoss"] \in Nat
      BY DEF Events
    <3> QED BY <3>1, <3>2 DEF NoBoot
  <2>2. CASE PassOk(p) /\ (FindStuck(p) \/ Reclaim(p))
    BY <1>1, <2>2 DEF FindStuck, Reclaim, Booting, PassOk, PlacesOk, AtRow, BootState
  <2> QED BY <2>1, <2>2
<1>3. \A e \in Emails : ~(position[e] <= boot'[p].cursor)
  BY <1>2, Places
<1> QED BY <1>2, <1>3 DEF PassOk, PlacesOk, SnapshotsTrue, CursorOnRow, NothingBeyond, CandidateOk,
                          Repaired, Booting, AtRow

LEMMA PageRead ==
  ASSUME RecTypeInv, RecTypeInv', NoneCancelled, NEW p \in Processes, PassOk(p), ReadPage(p)
  PROVE  /\ PassOk(p)'
         /\ boot'[p].at = "repaired"
              => \A e \in Emails : status[e] \in Claimable => position[e] <= boot[p].cursor
<1> USE DEF RecTypeInv, PassTypes
<1>1. /\ boot[p] \in BootState /\ boot[p].at = "page" /\ boot[p].todo = {} /\ UNCHANGED vars
      /\ UNCHANGED events
  BY DEF ReadPage, Booting, PassOk, PlacesOk, AtRow
<1>2. PICK rows : rows = RowsFrom(boot[p].cursor)
  OBVIOUS
<1>3. PICK page : page = PageOf(rows)
  OBVIOUS
<1>4. rows = {e \in Emails : status[e] \in Claimable /\ position[e] > boot[p].cursor}
  BY <1>2, RowsBeyond DEF PassOk
<1>5. /\ page \subseteq rows /\ page \subseteq Emails
      /\ Cardinality(page) # PageSize => page = rows
  BY <1>3, <1>4, PageIsPrefix
<1>6. UNCHANGED <<status, child, scheduledAt, campaign, queue>>
  BY <1>1 DEF vars, rowVars
<1>7. \A e : QueuedAgain(e)' <=> QueuedAgain(e)
  BY <1>6 DEF QueuedAgain
<1>8. CASE page = {}
  <2>1. \A e \in Emails : status[e] \in Claimable => position[e] <= boot[p].cursor
    BY <1>2, <1>3, <1>8, NothingLeft DEF PassOk
  <2>2. boot' = [boot EXCEPT ![p].at = "repaired"]
    BY <1>2, <1>3, <1>8 DEF ReadPage
  <2>3. /\ boot'[p].at = "repaired" /\ boot'[p].todo = {} /\ boot'[p].cursor = boot[p].cursor
        /\ boot'[p].since = boot[p].since
    BY <1>1, <2>2 DEF BootState
  <2> QED BY <1>1, <1>6, <1>7, <2>1, <2>3
          DEF PassOk, PlacesOk, SnapshotsTrue, CursorOnRow, NothingBeyond, CandidateOk, Repaired,
              Booting, AtRow, InHand
<1>9. CASE page # {}
  <2>1. PICK todo : todo = {[email |-> e, child |-> child[e], scheduledAt |-> scheduledAt[e]] :
                              e \in {f \in page : campaign[campaignOf[f]] # "CANCELLED"}}
    OBVIOUS
  <2>2. {f \in page : campaign[campaignOf[f]] # "CANCELLED"} = page
    BY <1>5, WorkerConfig DEF NoneCancelled
  <2>3. todo = {[email |-> e, child |-> child[e], scheduledAt |-> scheduledAt[e]] : e \in page}
    BY <2>1, <2>2
  <2>4. todo # {} /\ \A e \in page : \E r \in todo : r.email = e
    <3>1. ASSUME NEW e \in page PROVE \E r \in todo : r.email = e
      <4>1. [email |-> e, child |-> child[e], scheduledAt |-> scheduledAt[e]] \in todo
        BY <2>3
      <4> QED BY <4>1
    <3> QED BY <1>9, <3>1
  <2>5. PICK full \in BOOLEAN : full = (Cardinality(page) = PageSize)
    OBVIOUS
  <2>6. PICK last : last = CHOOSE e \in page : \A f \in page : position[f] <= position[e]
    OBVIOUS
  <2>7. last \in page /\ \A f \in page : position[f] <= position[last]
    BY <1>5, <1>9, <2>6, LastRow
  <2>8. boot' = [boot EXCEPT ![p] = [@ EXCEPT !.at = AfterRow(todo, full), !.todo = todo, !.n = 0,
                                              !.more = full, !.cursor = position[last]]]
    BY <1>2, <1>3, <1>9, <2>1, <2>5, <2>6 DEF ReadPage
  <2>9. AfterRow(todo, full) = "probe"
    BY <2>4 DEF AfterRow
  <2>10. /\ boot'[p].at = "probe" /\ boot'[p].todo = todo /\ boot'[p].n = 0
         /\ boot'[p].more = full /\ boot'[p].cursor = position[last]
         /\ boot'[p].since = boot[p].since
    BY <1>1, <2>8, <2>9 DEF BootState
  <2>11. position[last] > boot[p].cursor /\ last \in Emails /\ boot[p].cursor \in Nat
    BY <1>1, <1>4, <1>5, <2>7 DEF BootState
  <2>12. PlacesOk(p)' /\ CursorOnRow(p)'
    BY <1>1, <1>4, <1>5, <1>6, <2>7, <2>10, <2>11
       DEF PassOk, PlacesOk, CursorOnRow, AtRow
  <2>13. SnapshotsTrue(p)'
    BY <1>4, <1>5, <1>6, <2>3, <2>7, <2>10 DEF SnapshotsTrue
  <2>14. NothingBeyond(p)'
    <3> SUFFICES ASSUME ~full, NEW e \in Emails, status[e] \in Claimable
                 PROVE  position[e] <= position[last]
      BY <1>6, <2>10 DEF NothingBeyond, Booting
    <3>1. page = rows
      BY <1>5, <2>5
    <3>2. CASE position[e] > boot[p].cursor
      BY <1>4, <2>7, <3>1, <3>2
    <3>3. CASE ~(position[e] > boot[p].cursor)
      BY <2>11, <3>3, Places
    <3> QED BY <3>2, <3>3
  <2>15. CandidateOk(p)'
    <3>1. todo \in SUBSET RowSnapshot
      BY <1>5, <2>3 DEF RowSnapshot, TypeInv, TypeOK
    <3>2. PICK r : r = CHOOSE x \in todo : \A q \in todo : position[x.email] <= position[q.email]
      OBVIOUS
    <3>3. r.child \in 0..MaxDeferrals
      BY <2>4, <3>1, <3>2, FirstSnapshot
    <3>4. Row(p)' = r
      BY <2>10, <3>2 DEF Row
    <3> QED BY <2>10, <3>3, <3>4 DEF CandidateOk, Booting
  <2>16. Repaired(p)'
    <3> SUFFICES ASSUME boot[p].since = events["redisLoss"], NEW e \in Emails,
                        status[e] \in Claimable, position[e] <= position[last],
                        ~\E r \in todo : r.email = e
                 PROVE  QueuedAgain(e)
      BY <1>1, <1>6, <1>7, <2>10 DEF Repaired, Booting, InHand
    <3>1. ~(position[e] > boot[p].cursor)
      <4>1. SUFFICES ASSUME position[e] > boot[p].cursor PROVE FALSE
        OBVIOUS
      <4>2. e \in rows /\ last \in rows
        BY <1>4, <1>5, <2>7, <4>1
      <4>3. e \in page
        BY <1>3, <1>4, <2>7, <4>2, PageIsPrefix
      <4> QED BY <2>4, <4>3
    <3>2. position[e] <= boot[p].cursor
      BY <2>11, <3>1, Places
    <3> QED BY <1>1, <3>2 DEF PassOk, Repaired, InHand
  <2> QED BY <2>10, <2>12, <2>13, <2>14, <2>15, <2>16 DEF PassOk
<1> QED BY <1>8, <1>9

\* The row in hand is done: it has an entry that will run.
LEMMA RowIsDone ==
  ASSUME RecTypeInv, RecTypeInv', NEW p \in Processes, PassOk(p), boot[p].at \in AtRow,
         RowDone(p), UNCHANGED <<status, child, scheduledAt, events>>,
         \A id \in JobIds : Queues(id) => Queues(id)',
         NEW d \in Emails, d = Row(p).email, QueuedAgain(d)'
  PROVE  PassOk(p)'
<1> USE DEF RecTypeInv, PassTypes
<1>1. boot[p] \in BootState /\ boot[p].todo # {}
  BY DEF AtRow, HasRow
<1>2. PICK todo : todo = boot[p].todo \ {Row(p)}
  OBVIOUS
<1>3. PICK l : l = AfterRow(todo, boot[p].more)
  OBVIOUS
<1>4. boot' = [boot EXCEPT ![p].at = l, ![p].todo = todo, ![p].n = 0]
  BY <1>2, <1>3 DEF RowDone
<1>5. /\ boot'[p].at = l /\ boot'[p].todo = todo /\ boot'[p].n = 0
      /\ boot'[p].more = boot[p].more /\ boot'[p].cursor = boot[p].cursor
      /\ boot'[p].since = boot[p].since
  BY <1>1, <1>4 DEF BootState
<1>6. /\ l \in {"probe", "page", "repaired"}
      /\ l # "probe" => todo = {}
      /\ l = "repaired" => ~boot[p].more
      /\ l = "page" => boot[p].more
  BY <1>3 DEF AfterRow
<1>7. PlacesOk(p)' /\ CursorOnRow(p)' /\ SnapshotsTrue(p)'
  BY <1>2, <1>5, <1>6 DEF PassOk, PlacesOk, CursorOnRow, SnapshotsTrue, AtRow
<1>8. NothingBeyond(p)'
  BY <1>5, <1>6 DEF PassOk, NothingBeyond, Booting
<1>9. CandidateOk(p)'
  <2>1. CASE l = "probe"
    <3>1. todo \in SUBSET RowSnapshot /\ todo # {}
      BY <1>1, <1>2, <1>3, <2>1, AfterRowLabel DEF BootState
    <3>2. PICK r : r = CHOOSE x \in todo : \A q \in todo : position[x.email] <= position[q.email]
      OBVIOUS
    <3>3. r.child \in 0..MaxDeferrals
      BY <3>1, <3>2, FirstSnapshot
    <3>4. Row(p)' = r
      BY <1>5, <3>2 DEF Row
    <3> QED BY <1>5, <2>1, <3>3, <3>4 DEF CandidateOk, Booting
  <2>2. CASE l # "probe"
    BY <1>5, <1>6, <2>2 DEF CandidateOk, Booting
  <2> QED BY <2>1, <2>2
<1>10. Repaired(p)'
  <2> SUFFICES ASSUME boot[p].since = events["redisLoss"], NEW e \in Emails,
                      status[e] \in Claimable, position[e] <= boot[p].cursor,
                      ~\E r \in todo : r.email = e
               PROVE  QueuedAgain(e)'
    BY <1>5, <1>6 DEF Repaired, Booting, InHand
  <2>1. CASE InHand(p, e)
    <3>1. e = d
      BY <1>2, <2>1 DEF InHand
    <3> QED BY <3>1
  <2>2. CASE ~InHand(p, e)
    <3>1. QueuedAgain(e)
      BY <2>2 DEF PassOk, Repaired
    <3>2. \A n \in 0..MaxDeferrals : Queues(<<e, n>>) => Queues(<<e, n>>)'
      BY DEF JobIds
    <3> QED BY <3>1, <3>2, KeepsQueued
  <2> QED BY <2>1, <2>2
<1> QED BY <1>7, <1>8, <1>9, <1>10 DEF PassOk

LEMMA SkipKeepsPass ==
  ASSUME RecTypeInv, RecTypeInv', NEW p \in Processes, PassOk(p), SkipQueued(p)
  PROVE  PassOk(p)'
<1>1. /\ boot[p].at = "probe" /\ RowDone(p)
      /\ UNCHANGED <<status, child, scheduledAt, queue, events>>
      /\ Queues(Candidate(p))
  BY DEF SkipQueued, Booting, vars, rowVars, Queues
<1>2. boot[p].todo # {} /\ boot[p].n \in 0..MaxDeferrals
  BY <1>1 DEF RecTypeInv, PassTypes, HasRow, BootState
<1>3. PICK d \in Emails : d = Row(p).email
  BY <1>2, RowInHand DEF RecTypeInv
<1>4. QueuedAgain(d)'
  BY <1>1, <1>2, <1>3 DEF QueuedAgain, Candidate, Queues
<1>5. \A id \in JobIds : Queues(id) => Queues(id)'
  BY <1>1 DEF Queues
<1> QED BY <1>1, <1>3, <1>4, <1>5, RowIsDone DEF AtRow

LEMMA RequeueKeepsPass ==
  ASSUME RecTypeInv, RecTypeInv', NEW p \in Processes, PassOk(p), Requeue(p)
  PROVE  PassOk(p)'
<1>1. /\ boot[p].at = "add" /\ RowDone(p)
      /\ UNCHANGED <<status, child, scheduledAt, events>>
  BY DEF Requeue, Booting, rowVars
<1>2. boot[p].todo # {}
  BY <1>1 DEF RecTypeInv, PassTypes, HasRow
<1>3. PICK id : id = <<Row(p).email, Row(p).child>>
  OBVIOUS
<1>4. id \in JobIds /\ Row(p).child \in 0..MaxDeferrals
  BY <1>2, <1>3, RowInHand DEF RecTypeInv, JobIds
<1>5. queue[id].state \in {"none", "pending", "active"} /\ queue \in [JobIds -> Entry]
  BY <1>1, <1>3, <1>4 DEF PassOk, CandidateOk, Booting, RecTypeInv, TypeInv, TypeOK, Entry,
                          JobStates
<1>6. PICK due : due = Later(Row(p).scheduledAt, hour)
  OBVIOUS
<1>7. queue' = AddEmailJob(queue, id, 0, due)
  BY <1>3, <1>6 DEF Requeue
<1>8. Fresh(0, due).state = "pending"
  BY DEF Fresh, NoEntry
<1>9. Queues(id)' /\ \A j \in JobIds : Queues(j) => Queues(j)'
  BY <1>4, <1>5, <1>7, <1>8 DEF AddEmailJob, Queues
<1>10. PICK d \in Emails : d = Row(p).email
  BY <1>2, RowInHand DEF RecTypeInv
<1>11. QueuedAgain(d)'
  BY <1>3, <1>4, <1>9, <1>10 DEF QueuedAgain, Queues
<1> QED BY <1>1, <1>9, <1>10, <1>11, RowIsDone DEF AtRow

\* On to the next candidate: nothing that would run is under the last one.
LEMMA CandidateIsDone ==
  ASSUME RecTypeInv, NEW p \in Processes, PassOk(p), boot[p].at \in {"probe", "remove"},
         NextCandidate(p), UNCHANGED <<status, child, scheduledAt, events>>,
         \A id \in JobIds : id # Candidate(p) => queue'[id] = queue[id],
         queue'[Candidate(p)].state \notin {"completed", "failed"},
         boot[p].since = events["redisLoss"] /\ Queues(Candidate(p))
           => queue'[Candidate(p)] = queue[Candidate(p)]
  PROVE  PassOk(p)'
<1> USE DEF RecTypeInv, PassTypes
<1>1. boot[p] \in BootState /\ boot[p].todo # {} /\ boot[p].n \in Nat
  BY DEF HasRow, BootState
<1>2. Row(p).child \in Nat /\ boot[p].n <= Row(p).child
  BY <1>1, RowInHand DEF PassOk, CandidateOk
<1>3. /\ boot'[p].todo = boot[p].todo /\ boot'[p].more = boot[p].more
      /\ boot'[p].cursor = boot[p].cursor /\ boot'[p].since = boot[p].since
      /\ \/ boot'[p].at = "probe" /\ boot'[p].n <= Row(p).child
         \/ boot'[p].at = "add" /\ boot[p].n = Row(p).child
  BY <1>1, <1>2 DEF NextCandidate, BootState
<1>4. Row(p)' = Row(p)
  BY <1>3 DEF Row
<1>5. PlacesOk(p)' /\ CursorOnRow(p)' /\ SnapshotsTrue(p)'
  BY <1>3 DEF PassOk, PlacesOk, CursorOnRow, SnapshotsTrue, AtRow
<1>6. NothingBeyond(p)'
  BY <1>3 DEF PassOk, NothingBeyond, Booting, AtRow
<1>7. CandidateOk(p)'
  BY <1>3, <1>4 DEF CandidateOk, Booting, Candidate
<1>8. Repaired(p)'
  <2> SUFFICES ASSUME boot[p].since = events["redisLoss"], NEW e \in Emails,
                      status[e] \in Claimable, position[e] <= boot[p].cursor, ~InHand(p, e)
               PROVE  QueuedAgain(e)'
    BY <1>3 DEF Repaired, Booting, InHand
  <2>1. QueuedAgain(e)
    BY DEF PassOk, Repaired
  <2>2. \A n \in 0..MaxDeferrals : Queues(<<e, n>>) => Queues(<<e, n>>)'
    BY DEF JobIds, Queues
  <2> QED BY <2>1, <2>2, KeepsQueued
<1> QED BY <1>5, <1>6, <1>7, <1>8 DEF PassOk

LEMMA ProbeKeepsPass ==
  ASSUME RecTypeInv, NEW p \in Processes, PassOk(p), Probe(p)
  PROVE  PassOk(p)'
<1> USE DEF RecTypeInv, PassTypes
<1>1. /\ boot[p].at = "probe" /\ boot[p] \in BootState
      /\ UNCHANGED <<status, child, scheduledAt, queue, events>>
  BY DEF Probe, Booting, vars, rowVars
<1>2. CASE queue[Candidate(p)].state = "none" /\ NextCandidate(p)
  BY <1>1, <1>2, CandidateIsDone DEF Queues
<1>3. CASE queue[Candidate(p)].state \in {"completed", "failed"}
           /\ boot' = [boot EXCEPT ![p].at = "remove"]
  <2>1. /\ boot'[p].todo = boot[p].todo /\ boot'[p].more = boot[p].more
        /\ boot'[p].cursor = boot[p].cursor /\ boot'[p].since = boot[p].since
        /\ boot'[p].n = boot[p].n /\ boot'[p].at = "remove"
    BY <1>1, <1>3 DEF BootState
  <2>2. Row(p)' = Row(p)
    BY <2>1 DEF Row
  <2>3. \A e : QueuedAgain(e)' <=> QueuedAgain(e)
    BY <1>1 DEF QueuedAgain
  <2>4. PlacesOk(p)' /\ CursorOnRow(p)' /\ SnapshotsTrue(p)'
    BY <1>1, <2>1 DEF PassOk, PlacesOk, CursorOnRow, SnapshotsTrue, AtRow
  <2>5. NothingBeyond(p)' /\ CandidateOk(p)'
    BY <1>1, <2>1, <2>2 DEF PassOk, NothingBeyond, CandidateOk, Booting, AtRow
  <2>6. Repaired(p)'
    BY <1>1, <1>3, <2>1, <2>2, <2>3 DEF PassOk, Repaired, Candidate, InHand
  <2> QED BY <2>4, <2>5, <2>6 DEF PassOk
<1> QED BY <1>2, <1>3 DEF Probe

LEMMA RemoveKeepsPass ==
  ASSUME RecTypeInv, NEW p \in Processes, PassOk(p), RemoveOrphan(p)
  PROVE  PassOk(p)'
<1> USE DEF RecTypeInv, PassTypes
<1>1. /\ boot[p].at = "remove" /\ NextCandidate(p)
      /\ UNCHANGED <<status, child, scheduledAt, events>>
      /\ queue' = IF queue[Candidate(p)].state = "active" THEN queue
                  ELSE [queue EXCEPT ![Candidate(p)] = NoEntry]
  BY DEF RemoveOrphan, Booting, rowVars
<1>2. Candidate(p) \in JobIds /\ queue \in [JobIds -> Entry]
  BY <1>1, RowInHand DEF HasRow, TypeInv, TypeOK
<1>3. /\ \A id \in JobIds : id # Candidate(p) => queue'[id] = queue[id]
      /\ queue'[Candidate(p)].state \notin {"completed", "failed"}
  BY <1>1, <1>2 DEF NoEntry
<1>4. boot[p].since = events["redisLoss"] => ~Queues(Candidate(p))
  BY <1>1 DEF PassOk, Repaired, Booting, Queues
<1> QED BY <1>1, <1>3, <1>4, CandidateIsDone

\* While the only process makes its pass, nobody else touches the rows, and the
\* queue is only added to, or lost as a whole.
Untouched ==
  /\ UNCHANGED <<status, child, scheduledAt, boot>>
  /\ \/ /\ events'["redisLoss"] = events["redisLoss"]
        /\ \A id \in JobIds :
             queue'[id] = queue[id] \/ (queue[id].state = "none" /\ queue'[id].state = "pending")
     \/ /\ events'["redisLoss"] = events["redisLoss"] + 1
        /\ \A id \in JobIds : queue'[id].state = "none"

LEMMA SlotsRest ==
  ASSUME SysTypeInv, SlotsQuiet, OneProcess, NEW p \in Processes, ~NotBooting(p), SendPath
  PROVE  Tick
<1>1. \A q \in Processes : ~up[q]
  BY DEF OneProcess, SlotsQuiet
<1>2. \A w \in Workers : pc[w] = "idle"
  BY <1>1, WorkerConfig DEF SlotsQuiet
<1>3. ASSUME NEW w \in Workers, Step(w) \/ DbError(w) PROVE FALSE
  BY <1>2, <1>3 DEF Step, Load, Admit, Blocked, AddChild, SaveDeferral, Claim, ClaimLost, RunRefund,
                    SendAccepted, SendTransient, SendAckLost, SendRefused, WriteSent, WriteRetry,
                    WriteFailed, WriteResult, CountRemaining, CompleteCampaign, FinishJob, ThrowJob,
                    DbError, UsesDatabase, At
<1>4. ASSUME NEW w \in Workers, NEW id \in JobIds, TakeJob(w, id) PROVE FALSE
  BY <1>1, <1>4, WorkerConfig DEF TakeJob
<1>5. ASSUME NEW id \in JobIds, Stall(id) \/ LiveStall(id) PROVE FALSE
  BY <1>1, <1>2, <1>5 DEF Stall, LiveStall, BeingProcessed
<1>6. ASSUME NEW q \in Processes, Crash(q) PROVE FALSE
  BY <1>1, <1>6 DEF Crash
<1> QED BY <1>3, <1>4, <1>5, <1>6 DEF SendPath

LEMMA OthersLeavePass ==
  ASSUME SysTypeInv, PassInv, OneProcess, NobodyCancels, [SysNext]_sysVars,
         NEW p \in Processes, ~NotBooting(p), ~BootStep(p), ~BootDies(p)
  PROVE  Untouched
<1> USE DEF SysTypeInv, RecTypeInv, PassTypes, TypeInv, TypeOK, PassInv
<1>1. \A q \in Processes : q = p /\ ~up[q]
  BY DEF OneProcess, SlotsQuiet
<1>2. ASSUME UNCHANGED <<status, child, scheduledAt, boot, queue>>,
             events'["redisLoss"] = events["redisLoss"]
      PROVE  Untouched
  BY <1>2 DEF Untouched
<1>3. CASE (SendPath /\ UNCHANGED recoveryVars) \/ UNCHANGED sysVars
  <2>1. UNCHANGED <<status, child, scheduledAt, boot, queue, events>>
    BY <1>3, SlotsRest DEF Tick, recoveryVars, sysVars, recVars, vars, rowVars
  <2> QED BY <1>2, <2>1
<1>4. ASSUME NEW q \in Processes, StartBoot(q) \/ BootStep(q) \/ BootDies(q) \/ Stop(q)
      PROVE  FALSE
  BY <1>1, <1>4 DEF StartBoot, Stop
<1>5. ASSUME NEW e \in Emails, LockGoesStale(e) PROVE Untouched
  <2>1. UNCHANGED <<status, child, scheduledAt, boot, queue>>
    BY <1>5 DEF LockGoesStale
  <2>2. events'["redisLoss"] = events["redisLoss"]
    BY <1>5 DEF LockGoesStale, Happens, Events
  <2> QED BY <1>2, <2>1, <2>2
<1>6. CASE LoseRedis
  <2>1. UNCHANGED <<status, child, scheduledAt, boot>>
    BY <1>6 DEF LoseRedis, rowVars
  <2>2. events'["redisLoss"] = events["redisLoss"] + 1
    BY <1>6 DEF LoseRedis, Happens, Events
  <2>3. \A id \in JobIds : queue'[id].state = "none"
    BY <1>6 DEF LoseRedis, NoEntry
  <2> QED BY <2>1, <2>2, <2>3 DEF Untouched
<1>7. CASE RecNext /\ UNCHANGED apiVars
  BY <1>3, <1>4, <1>5, <1>6, <1>7 DEF RecNext
<1>8. CASE ReadBack \/ ApiCrash
  BY <1>2, <1>8 DEF ReadBack, ApiCrash, recVars, recoveryVars, vars, rowVars
<1>9. CASE Enqueue
  <2>1. UNCHANGED <<status, child, scheduledAt, boot, events>>
    BY <1>9 DEF Enqueue, EnqueueThen, rowVars, recoveryVars
  <2>2. PICK id, due : id = <<NextRow.email, 0>> /\ due = Later(NextRow.scheduledAt, hour)
    OBVIOUS
  <2>3. queue' = AddEmailJob(queue, id, 0, due)
    BY <1>9, <2>2 DEF Enqueue, EnqueueThen
  <2>4. Fresh(0, due).state = "pending"
    BY DEF Fresh, NoEntry
  <2>5. \A j \in JobIds :
          queue'[j] = queue[j] \/ (queue[j].state = "none" /\ queue'[j].state = "pending")
    BY <2>3, <2>4 DEF AddEmailJob
  <2> QED BY <2>1, <2>5 DEF Untouched
<1>10. ~CancelRow /\ ~CancelCommit /\ ~RemoveEntry /\ ~RemoveThrows
  BY DEF NoneCancelled, CancelRow, CancelCommit, RemoveEntry, RemoveThrows
<1>11. ~\E c \in Campaigns : CancelRead(c)
  BY DEF CancelRead, NobodyCancels, ApiTypes
<1> QED BY <1>3, <1>7, <1>8, <1>9, <1>10, <1>11 DEF SysNext, ApiStep

LEMMA UntouchedKeepsPass ==
  ASSUME SysTypeInv, NEW p \in Processes, ~NotBooting(p), PassOk(p), Untouched
  PROVE  PassOk(p)'
<1> USE DEF SysTypeInv, RecTypeInv, PassTypes
<1>1. /\ UNCHANGED <<status, child, scheduledAt, boot>> /\ Row(p)' = Row(p)
      /\ Candidate(p)' = Candidate(p)
  BY DEF Untouched, Row, Candidate
<1>2. boot[p].since \in Nat /\ events["redisLoss"] \in Nat
  BY DEF BootState, Events
<1>3. PlacesOk(p)'
  BY <1>1, <1>2 DEF Untouched, PassOk, PlacesOk, AtRow
<1>4. SnapshotsTrue(p)' /\ CursorOnRow(p)' /\ NothingBeyond(p)'
  BY <1>1 DEF PassOk, SnapshotsTrue, CursorOnRow, NothingBeyond, Booting, AtRow
<1>5. ASSUME boot[p].at \in AtRow
      PROVE  Candidate(p) \in JobIds /\ <<Row(p).email, Row(p).child>> \in JobIds
  BY <1>5, RowInHand DEF HasRow, AtRow, JobIds
<1>6. CandidateOk(p)'
  BY <1>1, <1>5 DEF Untouched, PassOk, CandidateOk, Booting, AtRow
<1>7. Repaired(p)'
  <2>1. CASE events'["redisLoss"] = events["redisLoss"] + 1
    BY <1>1, <1>2, <2>1 DEF PassOk, PlacesOk, Repaired
  <2>2. CASE /\ events'["redisLoss"] = events["redisLoss"]
             /\ \A id \in JobIds : \/ queue'[id] = queue[id]
                                   \/ queue[id].state = "none" /\ queue'[id].state = "pending"
    <3>1. \A e \in Emails, n \in 0..MaxDeferrals : Queues(<<e, n>>) => Queues(<<e, n>>)'
      BY <2>2 DEF JobIds, Queues
    <3>2. \A e \in Emails : QueuedAgain(e) => QueuedAgain(e)'
      BY <3>1 DEF QueuedAgain, Queues
    <3> QED BY <1>1, <1>5, <2>2, <3>2 DEF PassOk, Repaired, Booting, InHand, AtRow
  <2> QED BY <2>1, <2>2 DEF Untouched
<1> QED BY <1>3, <1>4, <1>6, <1>7 DEF PassOk

LEMMA PassInvInit == SysInit => PassInv
<1> SUFFICES ASSUME SysInit PROVE PassInv
  OBVIOUS
<1>1. \A p \in Processes : boot[p].at = "off"
  BY DEF SysInit, NoPassYet, NoBoot
<1> QED BY <1>1 DEF SysInit, Committed, NoCancel, PassInv, SlotsQuiet, NoneCancelled, NotBooting,
                   Booting

LEMMA PassInvStep ==
  ASSUME SysTypeInv, SysTypeInv', PassInv, OneProcess, NobodyCancels, [SysNext]_sysVars
  PROVE  PassInv'
<1> USE DEF SysTypeInv
<1>1. SlotsQuiet' /\ NoneCancelled'
  BY SlotsQuietStep, NoneCancelledStep DEF PassInv
<1>2. ASSUME NEW p \in Processes, ~NotBooting(p)' PROVE PassOk(p)'
  <2>1. CASE NotBooting(p)
    <3>1. StartBoot(p)
      <4>1. boot'[p] # boot[p]
        BY <1>2, <2>1 DEF NotBooting, Booting
      <4>2. ASSUME boot' = boot PROVE FALSE
        BY <4>1, <4>2
      <4>3. CASE ~RecNext
        BY <4>2, <4>3 DEF SysNext, ApiStep, ReadBack, Enqueue, EnqueueThen, CancelCommit, CancelRow,
                          RemoveEntry, RemoveThrows, CancelRead, ApiCrash, sysVars, recVars,
                          recoveryVars
      <4>4. CASE (SendPath /\ UNCHANGED recoveryVars) \/ (\E e \in Emails : LockGoesStale(e))
                 \/ LoseRedis
        BY <4>2, <4>4 DEF recoveryVars, LockGoesStale, LoseRedis
      <4>5. ASSUME NEW q \in Processes, StartBoot(q) \/ BootStep(q) \/ BootDies(q) \/ Stop(q)
            PROVE  StartBoot(p)
        <5>1. q = p
          BY DEF OneProcess
        <5> QED BY <2>1, <4>2, <4>5, <5>1
                DEF BootStep, FindStuck, Reclaim, ReadPage, SkipQueued, Probe, RemoveOrphan,
                    Requeue, Serve, BootDies, Stop, NotBooting, Booting
      <4> QED BY <4>3, <4>4, <4>5 DEF RecNext
    <3> QED BY <3>1, EarlyPass
  <2>2. CASE ~NotBooting(p) /\ ~BootStep(p) /\ ~BootDies(p)
    BY <2>2, OthersLeavePass, UntouchedKeepsPass DEF PassInv
  <2>3. CASE Serve(p) \/ BootDies(p)
    <3>1. boot'[p].at = "off"
      BY <2>3 DEF Serve, BootDies, NoBoot, RecTypeInv, PassTypes
    <3> QED BY <1>2, <3>1 DEF NotBooting, Booting
  <2>4. CASE ~NotBooting(p) /\ BootStep(p) /\ ~Serve(p)
    <3>1. PassOk(p) /\ NoneCancelled
      BY <2>4 DEF PassInv
    <3> QED BY <2>4, <3>1, EarlyPass, PageRead, SkipKeepsPass, RequeueKeepsPass, ProbeKeepsPass,
               RemoveKeepsPass DEF BootStep
  <2> QED BY <2>1, <2>2, <2>3, <2>4
<1> QED BY <1>1, <1>2 DEF PassInv

LEMMA PassInvHolds ==
  ASSUME OneProcess, NobodyCancels
  PROVE  SysSpec => [](SysTypeInv /\ PassInv)
<1>1. SysInit => SysTypeInv /\ PassInv
  BY SysTypeInit, PassInvInit
<1>2. SysTypeInv /\ PassInv /\ [SysNext]_sysVars => (SysTypeInv /\ PassInv)'
  BY SysTypeStep, PassInvStep
<1> QED BY <1>1, <1>2, PTL DEF SysSpec

\* When the pass of the only process is over, every row that waits has an entry
\* that will run, whatever died, was rejected or was lost before it, and whatever
\* createCampaign has enqueued meanwhile (reconciliation.service.ts:33).
THEOREM PassRequeues ==
  ASSUME OneProcess, NobodyCancels
  PROVE  SysSpec => []BootRequeues
<1>1. SysTypeInv /\ PassInv => BootRequeues
  <2> SUFFICES ASSUME PassInv, NEW p \in Processes, Booting(p, "repaired"),
                      boot[p].since = events["redisLoss"], NEW e \in Emails,
                      status[e] \in Claimable
               PROVE  QueuedAgain(e)
    BY DEF BootRequeues
  <2>1. PassOk(p)
    BY DEF PassInv, NotBooting, Booting
  <2>2. position[e] <= boot[p].cursor /\ boot[p].todo = {}
    BY <2>1 DEF PassOk, NothingBeyond, PlacesOk, Booting, AtRow
  <2> QED BY <2>1, <2>2 DEF PassOk, Repaired, InHand
<1> QED BY <1>1, PassInvHolds, PTL

\* Paging skips nothing: the pass of the only process ends on an empty page only
\* when no row that waits lies beyond the last one it read
\* (reconciliation.service.ts:217).
THEOREM PagingSkipsNothing ==
  ASSUME OneProcess, NobodyCancels
  PROVE  SysSpec => NoRowSkipped
<1>1. SysTypeInv /\ SysTypeInv' /\ PassInv /\ [SysNext]_sysVars
        => [\A p \in Processes :
              Booting(p, "page") /\ boot'[p].at = "repaired"
                => \A e \in Emails : status[e] \in Claimable
                     => position[e] <= boot[p].cursor]_recVars
  <2> SUFFICES ASSUME SysTypeInv, SysTypeInv', PassInv, [SysNext]_sysVars, NEW p \in Processes,
                      Booting(p, "page"), boot'[p].at = "repaired"
               PROVE  \A e \in Emails : status[e] \in Claimable
                        => position[e] <= boot[p].cursor
    OBVIOUS
  <2>1. ~NotBooting(p) /\ PassOk(p) /\ NoneCancelled
    BY DEF PassInv, NotBooting, Booting
  <2>2. CASE ~BootStep(p) /\ ~BootDies(p)
    <3>1. boot' = boot
      BY <2>1, <2>2, OthersLeavePass DEF Untouched
    <3> QED BY <3>1 DEF Booting
  <2>3. CASE BootDies(p)
    BY <2>3 DEF BootDies, NoBoot, SysTypeInv, RecTypeInv, PassTypes
  <2>4. CASE BootStep(p)
    <3>1. ReadPage(p)
      BY <2>4 DEF BootStep, FindStuck, Reclaim, SkipQueued, Probe, RemoveOrphan, Requeue, Serve,
                  Booting
    <3> QED BY <2>1, <3>1, PageRead DEF SysTypeInv
  <2> QED BY <2>2, <2>3, <2>4
<1> QED BY <1>1, PassInvHolds, PTL DEF SysSpec, NoRowSkipped

-------------------------------------------------------------------------------
(***************************************************************************)
(* The queue of an only process, while Redis keeps its data, no statement is *)
(* rejected and no lock is lost: a busy slot holds the lock of its entry, an *)
(* entry has been tried no more often than its row and has stalled no more   *)
(* often than a process has died, and a row that waits and has no other      *)
(* entry than its first finds that one in the queue, unless createCampaign   *)
(* has still to add it.                                                      *)
(***************************************************************************)
Intact == events["redisLoss"] = 0 /\ mishaps["dbError"] = 0 /\ mishaps["liveStall"] = 0

SlotKeeps(w) ==
  pc[w] # "idle" =>
    /\ HoldsLock(queue, cur[w], w)
    /\ HoldsClaim(w) \/ pc[w] = "throw" => queue[cur[w]].tries + 1 <= attempts[Email(w)]
    /\ pc[w] = "deferSave" => ~NeverDeferred(Email(w))
    /\ NeverDeferred(Email(w)) =>
         /\ pc[w] \in {"refund", "count", "complete", "done"} => status[Email(w)] \notin Claimable
         /\ pc[w] \in {"admit", "claim"} => mem[w].attempts = attempts[Email(w)]
         /\ HoldsClaim(w) => attempts[Email(w)] = mem[w].attempts + 1
         /\ pc[w] \in {"retry", "throw"} => attempts[Email(w)] < MaxAttempts

EntryKeeps(id) ==
  /\ Queues(id) => queue[id].tries <= attempts[id[1]]
  /\ queue[id].stalls <= mishaps["crash"]
  /\ queue[id].state = "active" /\ ~BeingProcessed(id) => queue[id].stalls + 1 <= mishaps["crash"]

Created(e) ==
  create.at = "answered" \/ (create.at = "enqueue" /\ \A r \in create.rows : r.email # e)

RowKeeps(e) ==
  status[e] \in Claimable /\ NeverDeferred(e) =>
    Queues(<<e, 0>>) \/ (queue[<<e, 0>>].state = "none" /\ ~Created(e))

InService == (\A p \in Processes : up[p]) /\ mishaps["crash"] <= MaxStalls

QueueKept ==
  /\ \A w \in Workers : SlotKeeps(w)
  /\ \A id \in JobIds : EntryKeeps(id)
  /\ InService => \A e \in Emails : RowKeeps(e)

QueueInv == Intact => QueueKept

\* A mishap that is counted is not forgotten.
LEMMA MishapsGrow ==
  ASSUME TypeInv, NEW m \in Mishaps, Suffer(m)
  PROVE  /\ mishaps'[m] = mishaps[m] + 1 /\ mishaps'[m] # 0
         /\ \A x \in Mishaps : x # m => mishaps'[x] = mishaps[x]
<1>1. mishaps \in [Mishaps -> Nat] /\ mishaps' = [mishaps EXCEPT ![m] = @ + 1]
  BY DEF TypeInv, TypeOK, Suffer
<1> QED BY <1>1

\* A row that was never deferred has one entry, hence at most one busy slot.
LEMMA OneSlotPerFirstEntry ==
  ASSUME TypeInv, NEW w \in Workers, pc[w] # "idle", SlotKeeps(w), NeverDeferred(Email(w))
  PROVE  /\ cur[w] = <<Email(w), 0>>
         /\ \A v \in Workers :
              pc[v] # "idle" /\ SlotKeeps(v) /\ Email(v) = Email(w) => v = w
<1>1. \A v \in Workers : cur[v] \in JobIds
  BY EmailTyped DEF TypeInv
<1>2. ASSUME NEW v \in Workers, pc[v] # "idle", SlotKeeps(v), Email(v) = Email(w)
      PROVE  cur[v] = <<Email(w), 0>> /\ queue[cur[v]].holder = v
  <2>1. PICK e \in Emails, n \in 0..MaxDeferrals : cur[v] = <<e, n>> /\ e = Email(w)
    BY <1>1, <1>2 DEF JobIds, Email
  <2>2. queue[cur[v]].state = "active" /\ queue[cur[v]].holder = v
    BY <1>2 DEF SlotKeeps, HoldsLock
  <2>3. n \notin 1..MaxDeferrals
    BY <2>1, <2>2 DEF NeverDeferred
  <2>4. n = 0
    BY <2>3, QueueConfig
  <2> QED BY <2>1, <2>2, <2>4
<1> QED BY <1>2

\* A slot that goes on without touching the queue.
SlotMoves(w) ==
  /\ pc[w] # "idle" /\ pc'[w] # "idle"
  /\ UNCHANGED <<cur, queue, up, create>>
  /\ mishaps'["crash"] = mishaps["crash"]
  /\ \A v \in Workers : v # w => pc'[v] = pc[v] /\ mem'[v] = mem[v]
  /\ \A f \in Emails : f # Email(w) =>
       status'[f] = status[f] /\ child'[f] = child[f] /\ attempts'[f] = attempts[f]
  /\ attempts'[Email(w)] >= attempts[Email(w)]
  /\ child'[Email(w)] = 0 => child[Email(w)] = 0

LEMMA MovesKeepQueue ==
  ASSUME TypeInv, TypeInv', QueueKept, NEW w \in Workers, SlotMoves(w), SlotKeeps(w)'
  PROVE  QueueKept'
<1>1. Email(w) \in Emails /\ cur \in [Workers -> JobIds] /\ \A v \in Workers : Email(v) \in Emails
  BY EmailTyped DEF TypeInv, TypeOK
<1>2. /\ \A v \in Workers : Email(v)' = Email(v) /\ (v # w => (HoldsClaim(v)' <=> HoldsClaim(v)))
      /\ \A id : HoldsLock(queue, id, w)' <=> HoldsLock(queue, id, w)
      /\ \A id \in JobIds : Queues(id)' <=> Queues(id)
  BY DEF SlotMoves, Email, HoldsClaim, HoldsLock, Queues
<1>3. \A id : BeingProcessed(id)' <=> BeingProcessed(id)
  BY DEF SlotMoves, BeingProcessed, HoldsLock
<1>8. PICK e \in Emails : e = Email(w)
  BY <1>1
<1>4. \A f \in Emails :
        /\ f # e => (NeverDeferred(f)' <=> NeverDeferred(f))
        /\ NeverDeferred(f)' => NeverDeferred(f)
  BY <1>8 DEF SlotMoves, NeverDeferred
<1>5. \A f \in Emails : attempts[f] \in Nat /\ attempts'[f] \in Nat /\ attempts[f] <= attempts'[f]
  BY <1>8 DEF SlotMoves, TypeInv, TypeOK
<1>6. \A id \in JobIds : queue[id].tries \in Nat /\ id[1] \in Emails
  BY DEF TypeInv, TypeOK, Entry, JobIds
<1>7. /\ \A f \in Emails : f # e =>
           status'[f] = status[f] /\ child'[f] = child[f] /\ attempts'[f] = attempts[f]
      /\ \A v \in Workers : v # w => pc'[v] = pc[v] /\ mem'[v] = mem[v]
      /\ UNCHANGED <<cur, queue, up, create>> /\ mishaps'["crash"] = mishaps["crash"]
      /\ pc[w] # "idle"
  BY <1>8 DEF SlotMoves
<1>9. ASSUME NEW v \in Workers, v # w PROVE SlotKeeps(v)'
  <2>1. SlotKeeps(v) /\ SlotKeeps(w)
    BY DEF QueueKept
  <2>2. CASE Email(v) # e
    BY <1>1, <1>2, <1>4, <1>7, <1>9, <2>1, <2>2 DEF SlotKeeps, HoldsLock
  <2>3. CASE Email(v) = e /\ pc[v] # "idle"
    <3>1. ~NeverDeferred(e) /\ ~NeverDeferred(e)'
      BY <1>1, <1>4, <1>7, <1>8, <1>9, <2>1, <2>3, OneSlotPerFirstEntry
    <3>2. HoldsLock(queue, cur[v], v) /\ cur[v] \in JobIds
      BY <1>1, <2>1, <2>3 DEF SlotKeeps
    <3> QED BY <1>1, <1>2, <1>5, <1>6, <1>7, <1>9, <2>1, <2>3, <3>1, <3>2 DEF SlotKeeps, HoldsLock
  <2> QED BY <1>7, <1>9, <2>2, <2>3 DEF SlotKeeps
<1>10. ASSUME NEW id \in JobIds PROVE EntryKeeps(id)'
  BY <1>2, <1>3, <1>5, <1>6, <1>7 DEF QueueKept, EntryKeeps
<1>11. ASSUME InService', NEW f \in Emails PROVE RowKeeps(f)'
  <2>1. InService
    BY <1>7, <1>11 DEF InService
  <2>2. CASE f # e
    <3>1. <<f, 0>> \in JobIds
      BY QueueConfig DEF JobIds
    <3> QED BY <1>2, <1>4, <1>7, <2>1, <2>2, <3>1 DEF QueueKept, RowKeeps, Created
  <2>3. CASE f = e /\ NeverDeferred(e)'
    <3>1. NeverDeferred(e) /\ SlotKeeps(w)
      BY <1>1, <1>4, <2>3 DEF QueueKept
    <3>2. cur[w] = <<e, 0>> /\ HoldsLock(queue, cur[w], w)
      BY <1>7, <1>8, <3>1, OneSlotPerFirstEntry DEF SlotKeeps
    <3> QED BY <1>7, <2>3, <3>2 DEF RowKeeps, Queues, HoldsLock
  <2> QED BY <2>2, <2>3 DEF RowKeeps
<1> QED BY <1>9, <1>10, <1>11 DEF QueueKept

\* The steps of a slot that leave the queue alone.
LEMMA SlotGoesOn ==
  ASSUME TypeInv, TypeInv', QueueKept, UNCHANGED recoveryVars, UNCHANGED create,
         NEW w \in Workers,
         \/ Load(w) \/ Admit(w) \/ Blocked(w) \/ SaveDeferral(w) \/ Claim(w) \/ ClaimLost(w)
         \/ RunRefund(w) \/ SendAccepted(w) \/ SendTransient(w) \/ SendAckLost(w)
         \/ SendRefused(w) \/ WriteSent(w) \/ WriteRetry(w) \/ WriteFailed(w)
         \/ CountRemaining(w) \/ CompleteCampaign(w)
  PROVE  QueueKept'
<1>1. PICK e \in Emails : e = Email(w) /\ e = cur[w][1]
  BY EmailTyped DEF TypeInv, Email
<1> USE DEF At, Goto, env, rowVars, slotVars, history
<1>0. /\ pc \in [Workers -> Labels] /\ cur \in [Workers -> JobIds] /\ mem \in [Workers -> Memory]
       /\ status \in [Emails -> Statuses] /\ attempts \in [Emails -> Nat]
       /\ child \in [Emails -> 0..MaxDeferrals] /\ queue \in [JobIds -> Entry]
  BY DEF TypeInv, TypeOK
<1>2. SlotKeeps(w) /\ EntryKeeps(cur[w]) /\ pc[w] # "idle" /\ MaxAttempts \in Nat
  BY <1>0, WorkerConfig
     DEF QueueKept, Load, Admit, Blocked, SaveDeferral, Claim, ClaimLost, RunRefund, SendAccepted,
         SendTransient, SendAckLost, SendRefused, WriteSent, WriteRetry, WriteFailed, WriteResult,
         CountRemaining, CompleteCampaign
<1>3. HoldsLock(queue, cur[w], w) /\ queue[cur[w]].tries \in Nat
      /\ queue[cur[w]].tries <= attempts[e] /\ attempts[e] \in Nat
  BY <1>1, <1>2, <1>0 DEF SlotKeeps, EntryKeeps, HoldsLock, Queues, Entry
<1>4. ASSUME cur' = cur, queue' = queue, child' = child
      PROVE  Email(w)' = e /\ (NeverDeferred(e)' <=> NeverDeferred(e))
             /\ HoldsLock(queue, cur[w], w)'
  BY <1>1, <1>3, <1>0, <1>4 DEF Email, NeverDeferred, HoldsLock
<1>5. CASE Load(w)
  <2>1. SlotMoves(w)
    BY <1>1, <1>2, <1>3, <1>0, <1>5 DEF Load, SlotMoves
  <2>2. /\ pc[w] = "load" /\ pc'[w] = "admit" /\ mem'[w].attempts = attempts[e]
        /\ cur' = cur /\ queue' = queue /\ child' = child /\ status' = status
        /\ attempts' = attempts
    BY <1>0, <1>1, <1>5 DEF Load, Memory
  <2>3. SlotKeeps(w)'
    BY <1>1, <1>2, <1>4, <2>2 DEF SlotKeeps, HoldsClaim
  <2> QED BY <2>1, <2>3, MovesKeepQueue
<1>6. CASE Admit(w)
  <2>1. SlotMoves(w)
    BY <1>1, <1>2, <1>3, <1>0, <1>6 DEF Admit, SlotMoves
  <2>2. /\ pc[w] = "admit" /\ pc'[w] = "claim" /\ mem' = mem
        /\ cur' = cur /\ queue' = queue /\ child' = child /\ status' = status
        /\ attempts' = attempts
    BY <1>0, <1>6 DEF Admit
  <2>3. SlotKeeps(w)'
    BY <1>1, <1>2, <1>4, <2>2 DEF SlotKeeps, HoldsClaim
  <2> QED BY <2>1, <2>3, MovesKeepQueue
<1>7. CASE Blocked(w)
  <2>1. SlotMoves(w)
    BY <1>1, <1>2, <1>3, <1>0, <1>7 DEF Blocked, SlotMoves
  <2>2. pc'[w] = "deferAdd" /\ cur' = cur /\ queue' = queue /\ child' = child
    BY <1>0, <1>7 DEF Blocked
  <2>3. SlotKeeps(w)'
    BY <1>4, <2>2 DEF SlotKeeps, HoldsClaim
  <2> QED BY <2>1, <2>3, MovesKeepQueue
<1>8. CASE SaveDeferral(w)
  <2>1. mem[w].deferrals \in Nat
    BY <1>0, QueueConfig DEF Memory
  <2>2. /\ child' = [child EXCEPT ![e] = mem[w].deferrals + 1] /\ pc' = [pc EXCEPT ![w] = "done"]
        /\ UNCHANGED <<cur, queue, up, mishaps, mem, status, attempts>> /\ pc[w] = "deferSave"
    BY <1>1, <1>8 DEF SaveDeferral
  <2>3. child'[e] # 0 /\ \A f \in Emails : f # e => child'[f] = child[f]
    BY <1>0, <2>1, <2>2
  <2>4. SlotMoves(w)
    BY <1>1, <1>2, <1>3, <1>0, <2>2, <2>3 DEF SlotMoves
  <2>5. Email(w)' = e /\ HoldsLock(queue, cur[w], w)' /\ ~NeverDeferred(e)'
    BY <1>1, <1>3, <2>2, <2>3 DEF Email, HoldsLock, NeverDeferred
  <2>6. SlotKeeps(w)'
    BY <1>0, <2>2, <2>5 DEF SlotKeeps, HoldsClaim
  <2> QED BY <2>4, <2>6, MovesKeepQueue
<1>9. CASE Claim(w)
  <2>1. SlotMoves(w)
    <3>1. /\ pc' = [pc EXCEPT ![w] = "send"] /\ attempts' = [attempts EXCEPT ![e] = @ + 1]
          /\ status' = [status EXCEPT ![e] = "PROCESSING"]
          /\ UNCHANGED <<cur, queue, up, mishaps, mem, child>>
      BY <1>1, <1>9 DEF Claim
    <3> QED BY <1>1, <1>2, <1>3, <1>0, <3>1 DEF SlotMoves
  <2>2. /\ pc[w] = "claim" /\ pc'[w] = "send" /\ mem' = mem
        /\ cur' = cur /\ queue' = queue /\ child' = child /\ attempts'[e] = attempts[e] + 1
    BY <1>0, <1>1, <1>9 DEF Claim
  <2>3. NeverDeferred(e) => attempts[e] = mem[w].attempts
    BY <1>1, <1>2, <2>2 DEF SlotKeeps
  <2>4. queue'[cur'[w]].tries + 1 <= attempts'[e]
    BY <1>3, <1>0, <2>2
  <2>5. SlotKeeps(w)'
    BY <1>4, <2>2, <2>3, <2>4 DEF SlotKeeps, HoldsClaim
  <2> QED BY <2>1, <2>5, MovesKeepQueue
<1>10. CASE ClaimLost(w) \/ RunRefund(w)
  <2>1. SlotMoves(w)
    BY <1>1, <1>2, <1>3, <1>0, <1>10 DEF ClaimLost, RunRefund, SlotMoves
  <2>2. /\ pc[w] \in {"claim", "refund"} /\ pc'[w] \in {"refund", "done"} /\ cur' = cur
        /\ queue' = queue /\ child' = child /\ status' = status
        /\ pc[w] = "claim" => status[e] \notin Claimable
    BY <1>0, <1>1, <1>10 DEF ClaimLost, RunRefund
  <2>3. SlotKeeps(w)'
    BY <1>1, <1>2, <1>4, <2>2 DEF SlotKeeps, HoldsClaim
  <2> QED BY <2>1, <2>3, MovesKeepQueue
<1>11. CASE SendAccepted(w) \/ SendTransient(w) \/ SendAckLost(w) \/ SendRefused(w)
  <2>1. mishaps'["crash"] = mishaps["crash"]
    BY <1>11, MishapsGrow DEF SendAccepted, SendTransient, SendAckLost, SendRefused, Mishaps
  <2>2. SlotMoves(w)
    BY <1>1, <1>2, <1>3, <1>0, <1>11, <2>1
       DEF SendAccepted, SendTransient, SendAckLost, SendRefused, SlotMoves, AfterTransient
  <2>3. /\ pc[w] = "send" /\ pc'[w] \in {"sent", "retry", "fail"} /\ cur' = cur
        /\ queue' = queue /\ child' = child /\ status' = status /\ attempts' = attempts
        /\ mem' = mem
        /\ pc'[w] = "retry" => mem[w].attempts + 1 < MaxAttempts
    BY <1>0, <1>11 DEF SendAccepted, SendTransient, SendAckLost, SendRefused, AfterTransient
  <2>4. SlotKeeps(w)'
    BY <1>1, <1>2, <1>4, <2>3 DEF SlotKeeps, HoldsClaim
  <2> QED BY <2>2, <2>4, MovesKeepQueue
<1>12. CASE WriteSent(w) \/ WriteFailed(w)
  <2>1. SlotMoves(w)
    BY <1>1, <1>2, <1>3, <1>0, <1>12 DEF WriteSent, WriteFailed, WriteResult, SlotMoves
  <2>2. /\ pc'[w] = "count" /\ cur' = cur /\ queue' = queue /\ child' = child
        /\ status'[e] \notin Claimable
    BY <1>0, <1>1, <1>12 DEF WriteSent, WriteFailed, WriteResult, Claimable
  <2>3. SlotKeeps(w)'
    BY <1>4, <2>2 DEF SlotKeeps, HoldsClaim
  <2> QED BY <2>1, <2>3, MovesKeepQueue
<1>13. CASE WriteRetry(w)
  <2>1. SlotMoves(w)
    <3>1. /\ pc' = [pc EXCEPT ![w] = "throw"] /\ status' = [status EXCEPT ![e] = "SCHEDULED"]
          /\ UNCHANGED <<cur, queue, up, mishaps, mem, child, attempts>>
      BY <1>1, <1>13 DEF WriteRetry, WriteResult
    <3> QED BY <1>1, <1>2, <1>3, <1>0, <3>1 DEF SlotMoves
  <2>2. /\ pc[w] = "retry" /\ pc'[w] = "throw" /\ cur' = cur /\ queue' = queue /\ child' = child
        /\ attempts' = attempts
    BY <1>0, <1>13 DEF WriteRetry, WriteResult
  <2>3. SlotKeeps(w)'
    BY <1>1, <1>2, <1>4, <2>2 DEF SlotKeeps, HoldsClaim
  <2> QED BY <2>1, <2>3, MovesKeepQueue
<1>14. CASE CountRemaining(w) \/ CompleteCampaign(w)
  <2>1. SlotMoves(w)
    BY <1>1, <1>2, <1>3, <1>0, <1>14 DEF CountRemaining, CompleteCampaign, SlotMoves
  <2>2. /\ pc[w] \in {"count", "complete"} /\ pc'[w] \in {"complete", "done"} /\ cur' = cur
        /\ queue' = queue /\ child' = child /\ status' = status
    BY <1>0, <1>14 DEF CountRemaining, CompleteCampaign
  <2>3. SlotKeeps(w)'
    BY <1>1, <1>2, <1>4, <2>2 DEF SlotKeeps, HoldsClaim
  <2> QED BY <2>1, <2>3, MovesKeepQueue
<1> QED BY <1>5, <1>6, <1>7, <1>8, <1>9, <1>10, <1>11, <1>12, <1>13, <1>14

\* A step that moves one entry and, of the slots, at most the one that has it.
EntryMoves(id) ==
  /\ UNCHANGED <<status, attempts, child, up>>
  /\ \A f \in Emails : f # id[1] /\ Created(f)' => Created(f)
  /\ mishaps'["crash"] = mishaps["crash"]
  /\ queue'[id].state # "none"
  /\ \A j \in JobIds : j # id => queue'[j] = queue[j]
  /\ \A j \in JobIds : j # id /\ BeingProcessed(j) => BeingProcessed(j)'
  /\ \A v \in Workers :
       SlotKeeps(v)' \/ (/\ pc'[v] = pc[v] /\ cur'[v] = cur[v] /\ mem'[v] = mem[v]
                         /\ pc[v] # "idle" => cur[v] # id)

LEMMA EntryMovesKeepQueue ==
  ASSUME TypeInv, TypeInv', QueueKept, NEW id \in JobIds, NEW e \in Emails, e = id[1],
         EntryMoves(id), EntryKeeps(id)', InService /\ InService' => RowKeeps(e)'
  PROVE  QueueKept'
<1>1. \A v \in Workers : Email(v) \in Emails /\ cur[v] \in JobIds
  BY EmailTyped DEF TypeInv
<1>2. PICK n \in 0..MaxDeferrals : id = <<e, n>>
  BY DEF JobIds
<1>3. \A f \in Emails, k \in 0..MaxDeferrals : f # e => <<f, k>> # id /\ <<f, k>> \in JobIds
  BY <1>2 DEF JobIds
<1>4. \A f \in Emails :
        /\ f # e => (NeverDeferred(f)' <=> NeverDeferred(f))
        /\ NeverDeferred(f)' => NeverDeferred(f)
  <2>1. \A f \in Emails, k \in 1..MaxDeferrals :
          <<f, k>> \in JobIds /\ (<<f, k>> = id \/ queue'[<<f, k>>] = queue[<<f, k>>])
    BY QueueConfig DEF EntryMoves, JobIds
  <2>2. \A f \in Emails, k \in 1..MaxDeferrals : f # e => <<f, k>> # id
    BY <1>2
  <2> QED BY <2>1, <2>2 DEF EntryMoves, NeverDeferred
<1>5. ASSUME NEW v \in Workers PROVE SlotKeeps(v)'
  <2>1. CASE /\ pc'[v] = pc[v] /\ cur'[v] = cur[v] /\ mem'[v] = mem[v]
             /\ pc[v] # "idle" => cur[v] # id
    <3>1. SlotKeeps(v) /\ Email(v)' = Email(v) /\ (HoldsClaim(v)' <=> HoldsClaim(v))
      BY <2>1 DEF QueueKept, Email, HoldsClaim
    <3>2. CASE pc[v] # "idle"
      <4>1. queue'[cur[v]] = queue[cur[v]] /\ UNCHANGED <<status, attempts>>
        BY <1>1, <2>1, <3>2 DEF EntryMoves
      <4>2. HoldsLock(queue, cur[v], v)' <=> HoldsLock(queue, cur[v], v)
        BY <2>1, <4>1 DEF HoldsLock
      <4> QED BY <1>1, <1>4, <2>1, <3>1, <4>1, <4>2 DEF SlotKeeps
    <3> QED BY <2>1, <3>2 DEF SlotKeeps
  <2> QED BY <2>1 DEF EntryMoves
<1>6. ASSUME NEW j \in JobIds PROVE EntryKeeps(j)'
  <2>1. CASE j # id
    <3>1. queue'[j] = queue[j] /\ UNCHANGED attempts /\ mishaps'["crash"] = mishaps["crash"]
          /\ (~BeingProcessed(j)' => ~BeingProcessed(j))
      BY <2>1 DEF EntryMoves
    <3> QED BY <3>1 DEF QueueKept, EntryKeeps, Queues
  <2> QED BY <2>1
<1>7. ASSUME InService', NEW f \in Emails PROVE RowKeeps(f)'
  <2>1. InService
    BY <1>7 DEF InService, EntryMoves
  <2>2. CASE f # e
    <3>1. queue'[<<f, 0>>] = queue[<<f, 0>>] /\ UNCHANGED status
      BY <1>3, <2>2, QueueConfig DEF EntryMoves
    <3>2. Created(f)' => Created(f)
      BY <2>2 DEF EntryMoves
    <3> QED BY <1>4, <2>1, <2>2, <3>1, <3>2 DEF QueueKept, RowKeeps, Queues
  <2> QED BY <1>7, <2>1, <2>2
<1> QED BY <1>5, <1>6, <1>7 DEF QueueKept

\* Of a never deferred row, the entry that moves is the first one.
LEMMA MovedFirst ==
  ASSUME NEW e \in Emails, NEW n \in 0..MaxDeferrals, queue'[<<e, n>>].state # "none",
         NeverDeferred(e)'
  PROVE  n = 0
<1>1. n \notin 1..MaxDeferrals
  BY DEF NeverDeferred
<1> QED BY <1>1, QueueConfig

\* A job is taken.
LEMMA TakeKeepsQueue ==
  ASSUME TypeInv, TypeInv', QueueKept, UNCHANGED create, NEW w \in Workers, NEW id \in JobIds,
         TakeJob(w, id)
  PROVE  QueueKept'
<1>1. PICK e \in Emails, n \in 0..MaxDeferrals : id = <<e, n>> /\ e = id[1]
  BY DEF JobIds
<1>2. /\ pc[w] = "idle" /\ pc'[w] = "load" /\ cur'[w] = id
      /\ \A v \in Workers : v # w => pc'[v] = pc[v] /\ cur'[v] = cur[v] /\ mem'[v] = mem[v]
  BY DEF TakeJob, At, Goto, TypeInv, TypeOK
<1>3. /\ UNCHANGED <<status, attempts, child, up, create, mishaps>>
      /\ queue[id].state = "pending"
      /\ queue' = [queue EXCEPT ![id].state = "active", ![id].holder = w]
  BY DEF TakeJob, StartJob, rowVars, env
<1>4. PICK entry : entry = [queue[id] EXCEPT !.state = "active", !.holder = w]
  OBVIOUS
<1>5. /\ queue[id] \in Entry /\ entry.state = "active" /\ entry.holder = w
      /\ entry.tries = queue[id].tries /\ entry.stalls = queue[id].stalls
  BY <1>4 DEF TypeInv, TypeOK, Entry
<1>6. queue'[id] = entry /\ \A j \in JobIds : j # id => queue'[j] = queue[j]
  BY <1>3, <1>4 DEF TypeInv, TypeOK
<1>7. \A v \in Workers : pc[v] # "idle" => v # w /\ cur[v] # id
  BY <1>2, <1>3 DEF QueueKept, SlotKeeps, HoldsLock
<1>8. SlotKeeps(w)' /\ BeingProcessed(id)'
  BY <1>2, <1>5, <1>6 DEF SlotKeeps, HoldsLock, HoldsClaim, BeingProcessed
<1>9. ASSUME NEW j \in JobIds, j # id, BeingProcessed(j) PROVE BeingProcessed(j)'
  BY <1>2, <1>6, <1>7, <1>9 DEF BeingProcessed, HoldsLock
<1>10. EntryMoves(id)
  BY <1>2, <1>3, <1>5, <1>6, <1>7, <1>8, <1>9 DEF EntryMoves, Created
<1>11. EntryKeeps(id)'
  BY <1>1, <1>3, <1>5, <1>6, <1>8 DEF QueueKept, EntryKeeps, Queues
<1>12. NeverDeferred(e)' => Queues(<<e, 0>>)'
  BY <1>1, <1>5, <1>6, MovedFirst DEF Queues
<1> QED BY <1>1, <1>10, <1>11, <1>12, EntryMovesKeepQueue DEF RowKeeps

\* An entry whose lock has expired goes back, or ends.
LEMMA StallKeepsQueue ==
  ASSUME TypeInv, TypeInv', QueueKept, UNCHANGED create, NEW id \in JobIds, Stall(id)
  PROVE  QueueKept'
<1>1. PICK e \in Emails, n \in 0..MaxDeferrals : id = <<e, n>> /\ e = id[1]
  BY DEF JobIds
<1>2. /\ UNCHANGED <<status, attempts, child, up, create, mishaps, pc, cur, mem>>
      /\ queue[id].state = "active" /\ ~BeingProcessed(id)
  BY DEF Stall, rowVars, env, slotVars
<1>3. PICK entry : entry = [queue[id] EXCEPT !.state = IF queue[id].stalls + 1 > MaxStalls
                                                     THEN "failed" ELSE "pending",
                                             !.stalls = queue[id].stalls + 1,
                                             !.holder = NoWorker]
  OBVIOUS
<1>4. /\ queue[id] \in Entry /\ entry.tries = queue[id].tries
      /\ entry.stalls = queue[id].stalls + 1 /\ entry.state \in {"failed", "pending"}
      /\ entry.state = "failed" => queue[id].stalls + 1 > MaxStalls
  BY <1>3 DEF TypeInv, TypeOK, Entry
<1>5. queue'[id] = entry /\ \A j \in JobIds : j # id => queue'[j] = queue[j]
  BY <1>3 DEF Stall, MoveStalledToWait, TypeInv, TypeOK
<1>6. \A v \in Workers : pc[v] # "idle" => cur[v] # id
  BY <1>2 DEF QueueKept, SlotKeeps, BeingProcessed
<1>7. ASSUME NEW j \in JobIds, j # id, BeingProcessed(j) PROVE BeingProcessed(j)'
  BY <1>2, <1>5, <1>7 DEF BeingProcessed, HoldsLock
<1>8. EntryMoves(id)
  BY <1>2, <1>4, <1>5, <1>6, <1>7 DEF EntryMoves, Created
<1>9. queue[id].stalls + 1 <= mishaps["crash"] /\ queue[id].tries <= attempts[e]
  BY <1>1, <1>2 DEF QueueKept, EntryKeeps, Queues
<1>10. EntryKeeps(id)'
  BY <1>1, <1>2, <1>4, <1>5, <1>9 DEF EntryKeeps
<1>11. ASSUME InService', NeverDeferred(e)' PROVE Queues(<<e, 0>>)'
  <2>1. n = 0
    BY <1>1, <1>4, <1>5, <1>11, MovedFirst
  <2>2. queue[id].stalls \in Nat /\ mishaps'["crash"] <= MaxStalls
    BY <1>4, <1>11 DEF Entry, InService
  <2>3. mishaps["crash"] \in Nat /\ MaxStalls \in Nat
    BY QueueConfig DEF TypeInv, TypeOK, Mishaps
  <2> QED BY <1>1, <1>2, <1>4, <1>5, <1>9, <2>1, <2>2, <2>3 DEF Queues
<1> QED BY <1>1, <1>8, <1>10, <1>11, EntryMovesKeepQueue DEF RowKeeps

\* The library takes the outcome of a slot that holds the lock of its entry: the
\* slot is idle again, and nothing else is.
Returns(w, id, entry) ==
  /\ pc[w] # "idle" /\ id = cur[w] /\ Release(w)
  /\ queue' = [queue EXCEPT ![id] = entry] /\ entry.state # "none"
  /\ UNCHANGED <<env, rowVars>>

LEMMA SlotReturns ==
  ASSUME TypeInv, QueueKept, UNCHANGED create, NEW w \in Workers, NEW id, NEW entry,
         Returns(w, id, entry)
  PROVE  /\ pc'[w] = "idle" /\ queue'[id] = entry /\ EntryMoves(id)
<1> USE DEF Returns
<1>1. /\ pc'[w] = "idle"
      /\ \A v \in Workers : v # w => pc'[v] = pc[v] /\ cur'[v] = cur[v] /\ mem'[v] = mem[v]
  BY DEF Release, Goto, TypeInv, TypeOK
<1>2. id \in JobIds /\ HoldsLock(queue, id, w)
  BY EmailTyped DEF TypeInv, QueueKept, SlotKeeps
<1>3. queue'[id] = entry /\ \A j \in JobIds : j # id => queue'[j] = queue[j]
  BY <1>2 DEF TypeInv, TypeOK
<1>4. \A v \in Workers : v # w /\ pc[v] # "idle" => cur[v] # id
  BY <1>2 DEF QueueKept, SlotKeeps, HoldsLock
<1>5. SlotKeeps(w)'
  BY <1>1 DEF SlotKeeps
<1>6. ASSUME NEW j \in JobIds, j # id, BeingProcessed(j) PROVE BeingProcessed(j)'
  <2>1. PICK v \in Workers : HoldsLock(queue, j, v) /\ pc[v] # "idle" /\ cur[v] = j
    BY <1>6 DEF BeingProcessed
  <2>2. v # w
    BY <1>6, <2>1
  <2> QED BY <1>1, <1>3, <1>6, <2>1, <2>2 DEF BeingProcessed, HoldsLock
<1>7. UNCHANGED <<status, attempts, child, up, create>> /\ mishaps'["crash"] = mishaps["crash"]
  BY DEF env, rowVars
<1> QED BY <1>1, <1>3, <1>4, <1>5, <1>6, <1>7 DEF EntryMoves, Created

\* A job is completed: its row does not wait any more, or was deferred.
LEMMA FinishKeepsQueue ==
  ASSUME TypeInv, TypeInv', QueueKept, UNCHANGED create, NEW w \in Workers, FinishJob(w)
  PROVE  QueueKept'
<1>1. PICK id \in JobIds, e \in Emails, n \in 0..MaxDeferrals :
        id = cur[w] /\ id = <<e, n>> /\ e = id[1] /\ e = Email(w)
  BY EmailTyped DEF TypeInv, JobIds, Email
<1>2. pc[w] = "done" /\ SlotKeeps(w) /\ HoldsLock(queue, id, w)
  BY <1>1 DEF FinishJob, At, QueueKept, SlotKeeps
<1>3. PICK entry : entry = [queue[id] EXCEPT !.state = "completed", !.holder = NoWorker]
  OBVIOUS
<1>4. entry.state = "completed" /\ entry.stalls = queue[id].stalls
  BY <1>3 DEF TypeInv, TypeOK, Entry
<1>5. Returns(w, id, entry) /\ UNCHANGED <<env, rowVars>>
  BY <1>1, <1>2, <1>3, <1>4 DEF Returns, FinishJob, MoveToCompleted
<1>6. queue'[id] = entry /\ EntryMoves(id)
  BY <1>5, SlotReturns
<1>7. EntryKeeps(id)'
  BY <1>4, <1>5, <1>6 DEF QueueKept, EntryKeeps, Queues, env
<1>8. ASSUME NeverDeferred(e)' PROVE status'[e] \notin Claimable
  <2>1. n = 0
    BY <1>1, <1>4, <1>6, <1>8, MovedFirst
  <2>2. \A k \in 1..MaxDeferrals : <<e, k>> \in JobIds /\ <<e, k>> # id
    BY <1>1, <2>1, QueueConfig DEF JobIds
  <2>3. NeverDeferred(e)
    BY <1>6, <1>8, <2>2 DEF NeverDeferred, EntryMoves
  <2> QED BY <1>1, <1>2, <1>6, <2>3 DEF SlotKeeps, EntryMoves
<1> QED BY <1>1, <1>6, <1>7, <1>8, EntryMovesKeepQueue DEF RowKeeps

\* A job has failed: the library has attempts left as long as the row has.
LEMMA ThrowKeepsQueue ==
  ASSUME TypeInv, TypeInv', QueueKept, MaxAttempts <= MaxJobAttempts, UNCHANGED create,
         NEW w \in Workers, ThrowJob(w)
  PROVE  QueueKept'
<1>1. PICK id \in JobIds, e \in Emails, n \in 0..MaxDeferrals :
        id = cur[w] /\ id = <<e, n>> /\ e = id[1] /\ e = Email(w)
  BY EmailTyped DEF TypeInv, JobIds, Email
<1>2. pc[w] = "throw" /\ SlotKeeps(w) /\ HoldsLock(queue, id, w)
  BY <1>1 DEF ThrowJob, At, QueueKept, SlotKeeps
<1>3. PICK entry : entry = [queue[id] EXCEPT !.state = IF queue[id].tries + 1 < MaxJobAttempts
                                                     THEN "pending" ELSE "failed",
                                             !.tries = queue[id].tries + 1,
                                             !.holder = NoWorker]
  OBVIOUS
<1>4. /\ entry.state \in {"pending", "failed"} /\ entry.stalls = queue[id].stalls
      /\ entry.tries = queue[id].tries + 1 /\ queue[id].tries \in Nat
      /\ queue[id].tries + 1 < MaxJobAttempts => entry.state = "pending"
  BY <1>3 DEF TypeInv, TypeOK, Entry
<1>5. Returns(w, id, entry) /\ UNCHANGED <<env, rowVars>>
  BY <1>1, <1>2, <1>3, <1>4 DEF Returns, ThrowJob, MoveToFailed
<1>6. queue'[id] = entry /\ EntryMoves(id)
  BY <1>5, SlotReturns
<1>7. queue[id].tries + 1 <= attempts[e] /\ attempts[e] \in Nat
  BY <1>1, <1>2 DEF SlotKeeps, TypeInv, TypeOK
<1>8. EntryKeeps(id)'
  BY <1>1, <1>4, <1>5, <1>6, <1>7, <1>2 DEF QueueKept, EntryKeeps, Queues, env, rowVars, HoldsLock
<1>9. ASSUME NeverDeferred(e)' PROVE Queues(<<e, 0>>)'
  <2>1. n = 0
    BY <1>1, <1>4, <1>6, <1>9, MovedFirst
  <2>2. \A k \in 1..MaxDeferrals : <<e, k>> \in JobIds /\ <<e, k>> # id
    BY <1>1, <2>1, QueueConfig DEF JobIds
  <2>3. NeverDeferred(e)
    BY <1>6, <1>9, <2>2 DEF NeverDeferred, EntryMoves
  <2>4. attempts[e] < MaxAttempts
    BY <1>1, <1>2, <2>3 DEF SlotKeeps
  <2> QED BY <1>1, <1>4, <1>6, <1>7, <2>1, <2>4, WorkerConfig, QueueConfig DEF Queues
<1> QED BY <1>1, <1>6, <1>8, <1>9, EntryMovesKeepQueue DEF RowKeeps

\* A job is deferred: whether the child is added or there already, its row has
\* another entry than its first.
LEMMA AddChildKeepsQueue ==
  ASSUME TypeInv, TypeInv', QueueKept, UNCHANGED recoveryVars, UNCHANGED create,
         NEW w \in Workers, AddChild(w)
  PROVE  QueueKept'
<1>e. PICK e \in Emails : e = Email(w)
  BY EmailTyped DEF TypeInv
<1>n. PICK n : n = mem[w].deferrals + 1
  OBVIOUS
<1>1. e = Email(w) /\ n = mem[w].deferrals + 1
  BY <1>e, <1>n
<1>2. /\ n \in 1..MaxDeferrals /\ <<e, n>> \in JobIds
      /\ mem[w].due \in Nat
  <2>1. mem[w].deferrals \in Nat /\ n <= MaxDeferrals /\ mem[w].due \in Nat
    BY <1>1, QueueConfig, EmailTyped DEF AddChild, TypeInv, Memory
  <2> QED BY <1>1, <2>1, QueueConfig DEF JobIds
<1>3. PICK id \in JobIds : id = <<e, n>> /\ id[1] = e
  BY <1>2
<1>4. /\ pc[w] = "deferAdd" /\ pc'[w] = "deferSave"
      /\ \A v \in Workers : v # w => pc'[v] = pc[v]
      /\ UNCHANGED <<cur, mem, status, attempts, child, up, create, mishaps>>
      /\ queue' = AddEmailJob(queue, id, n, mem[w].due)
  BY <1>1, <1>3 DEF AddChild, At, Goto, TypeInv, TypeOK, env, rowVars
<1>5. SlotKeeps(w) /\ HoldsLock(queue, cur[w], w) /\ cur[w] \in JobIds
  BY <1>4, EmailTyped DEF QueueKept, SlotKeeps, TypeInv
<1>6. PICK entry : entry = Fresh(n, mem[w].due)
  OBVIOUS
<1>7. entry.state = "pending" /\ entry.tries = 0 /\ entry.stalls = 0
  BY <1>6 DEF Fresh, NoEntry
<1>8. /\ queue'[id].state # "none"
      /\ \A j \in JobIds : j # id => queue'[j] = queue[j]
      /\ queue[id].state # "none" => queue' = queue
      /\ queue[id].state = "none" => queue'[id] = entry
  BY <1>4, <1>6, <1>7 DEF AddEmailJob, TypeInv, TypeOK
<1>9. ~NeverDeferred(e)'
  BY <1>2, <1>3, <1>8 DEF NeverDeferred
<1>10. SlotKeeps(w)'
  <2>1. Email(w)' = e /\ queue'[cur[w]] = queue[cur[w]] /\ cur' = cur
    BY <1>1, <1>4, <1>5, <1>8 DEF Email, HoldsLock
  <2>2. HoldsLock(queue, cur[w], w)'
    BY <1>5, <2>1 DEF HoldsLock
  <2> QED BY <1>4, <1>9, <2>1, <2>2 DEF SlotKeeps, HoldsClaim
<1>11. \A v \in Workers : pc[v] # "idle" => queue[cur[v]].state = "active"
  BY DEF QueueKept, SlotKeeps, HoldsLock
<1>12. \A j \in JobIds : BeingProcessed(j) => BeingProcessed(j)'
  <2>1. ASSUME NEW j \in JobIds, NEW v \in Workers, HoldsLock(queue, j, v), pc[v] # "idle",
               cur[v] = j
        PROVE  BeingProcessed(j)'
    BY <1>4, <1>8, <2>1 DEF BeingProcessed, HoldsLock
  <2> QED BY <2>1 DEF BeingProcessed
<1>13. CASE queue[id].state = "none"
  <2>1. EntryMoves(id)
    BY <1>4, <1>8, <1>10, <1>11, <1>12, <1>13 DEF EntryMoves, Created
  <2>2. EntryKeeps(id)'
    <3>1. attempts'[e] \in Nat /\ mishaps'["crash"] \in Nat
      BY DEF TypeInv, TypeOK, Mishaps
    <3> QED BY <1>3, <1>7, <1>8, <1>13, <3>1 DEF EntryKeeps
  <2> QED BY <1>3, <1>9, <2>1, <2>2, EntryMovesKeepQueue DEF RowKeeps
<1>14. CASE queue[id].state # "none"
  <2>1. SlotMoves(w)
    <3>1. attempts[e] \in Nat
      BY DEF TypeInv, TypeOK
    <3> QED BY <1>1, <1>4, <1>8, <1>14, <3>1 DEF SlotMoves
  <2> QED BY <1>10, <2>1, MovesKeepQueue
<1> QED BY <1>13, <1>14

-------------------------------------------------------------------------------
\* A step that leaves slots, queue and rows alone, ...
LEMMA QueueStands ==
  ASSUME TypeInv, TypeInv', QueueKept, UNCHANGED <<slotVars, queue, status, attempts, child>>,
         mishaps'["crash"] >= mishaps["crash"],
         \A e \in Emails : InService' /\ RowKeeps(e) /\ InService => RowKeeps(e)',
         InService' => InService
  PROVE  QueueKept'
<1>1. /\ UNCHANGED <<pc, cur, mem, queue, status, attempts, child>>
      /\ \A v \in Workers : Email(v)' = Email(v) /\ (HoldsClaim(v)' <=> HoldsClaim(v))
      /\ \A id : BeingProcessed(id)' <=> BeingProcessed(id)
      /\ \A f \in Emails : NeverDeferred(f)' <=> NeverDeferred(f)
  BY DEF slotVars, Email, HoldsClaim, BeingProcessed, HoldsLock, NeverDeferred
<1>2. ASSUME NEW v \in Workers PROVE SlotKeeps(v)'
  <2>1. SlotKeeps(v) /\ Email(v) \in Emails
    BY EmailTyped DEF QueueKept, TypeInv
  <2>2. HoldsLock(queue, cur[v], v)' <=> HoldsLock(queue, cur[v], v)
    BY <1>1 DEF HoldsLock
  <2> QED BY <1>1, <2>1, <2>2 DEF SlotKeeps
<1>3. /\ mishaps["crash"] \in Nat /\ mishaps'["crash"] \in Nat
      /\ \A id \in JobIds : queue[id].stalls \in Nat
  BY DEF TypeInv, TypeOK, Mishaps, Entry
<1>4. \A id \in JobIds : EntryKeeps(id)'
  BY <1>1, <1>3 DEF QueueKept, EntryKeeps, Queues
<1> QED BY <1>2, <1>4 DEF QueueKept

\* ... one that leaves createCampaign alone as well, ...
LEMMA NothingMoves ==
  ASSUME TypeInv, TypeInv', QueueKept,
         UNCHANGED <<slotVars, queue, status, attempts, child, create>>,
         mishaps'["crash"] >= mishaps["crash"], InService' => InService
  PROVE  QueueKept'
<1>1. \A e \in Emails : RowKeeps(e)' <=> RowKeeps(e)
  BY DEF RowKeeps, NeverDeferred, Queues, Created
<1> QED BY <1>1, QueueStands

\* ... and one after which the process is out of service.
LEMMA OutOfService ==
  ASSUME TypeInv, TypeInv', QueueKept, ~InService', UNCHANGED attempts,
         \A w \in Workers : pc'[w] = "idle",
         \A id \in JobIds :
           \/ queue'[id] = queue[id] /\ queue[id].stalls + 1 <= mishaps'["crash"]
           \/ queue'[id] = queue[id] /\ UNCHANGED <<slotVars, mishaps>>
           \/ queue'[id].state \in {"none", "pending"} /\ queue'[id].tries = 0
                /\ queue'[id].stalls = 0
  PROVE  QueueKept'
<1>1. \A w \in Workers : SlotKeeps(w)'
  BY DEF SlotKeeps
<1>2. ASSUME NEW id \in JobIds PROVE EntryKeeps(id)'
  <2>1. /\ id[1] \in Emails /\ attempts[id[1]] \in Nat /\ mishaps'["crash"] \in Nat
        /\ queue[id].stalls \in Nat
    BY DEF JobIds, TypeInv, TypeOK, Mishaps, Entry
  <2>2. EntryKeeps(id)
    BY DEF QueueKept
  <2>3. CASE queue'[id] = queue[id] /\ queue[id].stalls + 1 <= mishaps'["crash"]
    BY <2>1, <2>2, <2>3 DEF EntryKeeps, Queues
  <2>4. CASE queue'[id] = queue[id] /\ UNCHANGED <<slotVars, mishaps>>
    <3>1. BeingProcessed(id)' <=> BeingProcessed(id)
      BY <2>4 DEF BeingProcessed, HoldsLock, slotVars
    <3> QED BY <2>2, <2>4, <3>1 DEF EntryKeeps, Queues
  <2>5. CASE queue'[id].state \in {"none", "pending"} /\ queue'[id].tries = 0
             /\ queue'[id].stalls = 0
    BY <2>1, <2>5 DEF EntryKeeps
  <2> QED BY <2>3, <2>4, <2>5
<1> QED BY <1>1, <1>2 DEF QueueKept

\* createCampaign reads its rows back, adds the entry of one of them, or dies.
LEMMA CreateKeepsQueue ==
  ASSUME SysTypeInv, TypeInv', QueueKept, ReadBack \/ Enqueue \/ ApiCrash
  PROVE  QueueKept'
<1> USE DEF SysTypeInv, RecTypeInv, recVars, vars, env, rowVars, slotVars
<1>1. mishaps'["crash"] >= mishaps["crash"] /\ (InService' <=> InService)
  <2>1. UNCHANGED <<mishaps, up>> /\ mishaps["crash"] \in Nat
    BY DEF ReadBack, Enqueue, EnqueueThen, ApiCrash, TypeInv, TypeOK, Mishaps
  <2> QED BY <2>1 DEF InService
<1>2. CASE ReadBack \/ ApiCrash
  <2>1. UNCHANGED <<slotVars, queue, status, attempts, child>>
    BY <1>2 DEF ReadBack, ApiCrash
  <2>2. ASSUME NEW e \in Emails PROVE Created(e)' => Created(e)
    <3>1. CASE ApiCrash
      BY <3>1 DEF ApiCrash, Created
    <3>2. CASE ReadBack
      <4>1. PICK rows : rows = {[email |-> f, scheduledAt |-> scheduledAt[f]] : f \in Emails}
        OBVIOUS
      <4>2. [email |-> e, scheduledAt |-> scheduledAt[e]] \in rows
        BY <4>1
      <4>3. create' = [at |-> "enqueue", rows |-> rows]
        BY <3>2, <4>1 DEF ReadBack
      <4> QED BY <4>2, <4>3 DEF Created
    <3> QED BY <1>2, <3>1, <3>2
  <2>3. \A e \in Emails : RowKeeps(e) => RowKeeps(e)'
    BY <2>1, <2>2 DEF RowKeeps, NeverDeferred, Queues
  <2> QED BY <1>1, <2>1, <2>3, QueueStands
<1>3. CASE Enqueue
  <2>1. PICK f, at : f = NextRow.email /\ at = NextRow.scheduledAt
    OBVIOUS
  <2>2. f \in Emails /\ NextRow \in create.rows /\ create.at = "enqueue"
    BY <1>3, <2>1, NextRowTyped DEF Enqueue, EnqueueThen, ApiTypes
  <2>3. PICK id \in JobIds : id = <<f, 0>> /\ id[1] = f
    <3>1. <<f, 0>> \in JobIds /\ <<f, 0>>[1] = f
      BY <2>2, QueueConfig DEF JobIds
    <3> QED BY <3>1
  <2>4. PICK entry : entry = Fresh(0, Later(at, hour))
    OBVIOUS
  <2>5. entry.state = "pending" /\ entry.tries = 0 /\ entry.stalls = 0
    BY <2>4 DEF Fresh, NoEntry
  <2>6. /\ queue' = IF queue[id].state = "none" THEN [queue EXCEPT ![id] = entry] ELSE queue
        /\ UNCHANGED <<slotVars, status, attempts, child, mishaps, up>>
    BY <1>3, <2>1, <2>3, <2>4 DEF Enqueue, EnqueueThen, AddEmailJob
  <2>7. ASSUME NEW e \in Emails, e # f, Created(e)' PROVE Created(e)
    <3>1. PICK rest : rest = create.rows \ {NextRow}
      OBVIOUS
    <3>2. create' = [at |-> IF rest = {} THEN "answered" ELSE "enqueue", rows |-> rest]
      BY <1>3, <3>1 DEF Enqueue, EnqueueThen
    <3>3. \A r \in rest : r.email # e
      BY <2>7, <3>2 DEF Created
    <3> QED BY <2>1, <2>2, <2>7, <3>1, <3>3 DEF Created
  <2>8. CASE queue[id].state = "none"
    <3>1. queue'[id] = entry /\ \A j \in JobIds : j # id => queue'[j] = queue[j]
      BY <2>6, <2>8 DEF TypeInv, TypeOK
    <3>2. \A v \in Workers : pc[v] # "idle" => cur[v] # id
      BY <2>8 DEF QueueKept, SlotKeeps, HoldsLock
    <3>3. \A j \in JobIds : j # id /\ BeingProcessed(j) => BeingProcessed(j)'
      BY <2>6, <3>1 DEF BeingProcessed, HoldsLock
    <3>4. EntryMoves(id)
      BY <2>3, <2>5, <2>6, <2>7, <3>1, <3>2, <3>3 DEF EntryMoves
    <3>5. EntryKeeps(id)'
      <4>1. attempts'[f] \in Nat /\ mishaps'["crash"] \in Nat
        BY <2>2 DEF TypeInv, TypeOK, Mishaps
      <4> QED BY <2>3, <2>5, <3>1, <4>1 DEF EntryKeeps
    <3>6. Queues(<<f, 0>>)'
      BY <2>3, <2>5, <3>1 DEF Queues
    <3> QED BY <2>2, <2>3, <3>4, <3>5, <3>6, EntryMovesKeepQueue DEF RowKeeps
  <2>9. CASE queue[id].state # "none"
    <3>1. UNCHANGED <<slotVars, queue, status, attempts, child>>
      BY <2>6, <2>9
    <3>2. ASSUME NEW e \in Emails, RowKeeps(e) PROVE RowKeeps(e)'
      BY <2>3, <2>7, <2>9, <3>1, <3>2 DEF RowKeeps, NeverDeferred, Queues
    <3> QED BY <1>1, <3>1, <3>2, QueueStands
  <2> QED BY <2>8, <2>9
<1> QED BY <1>2, <1>3

\* The pass and the boots of an only process: until it serves, no slot is busy.
LEMMA BootKeepsQueue ==
  ASSUME SysTypeInv, TypeInv', PassInv, QueueKept, OneProcess, UNCHANGED create, Intact',
         NEW p \in Processes, StartBoot(p) \/ BootStep(p) \/ BootDies(p) \/ Stop(p)
  PROVE  QueueKept'
<1> USE DEF SysTypeInv, RecTypeInv, vars, env, rowVars, slotVars
<1>1. mishaps["crash"] \in Nat /\ events["redisLoss"] \in Nat
  BY DEF TypeInv, TypeOK, Mishaps, PassTypes, Events
<1>2. CASE StartBoot(p) \/ FindStuck(p) \/ ReadPage(p) \/ SkipQueued(p) \/ Probe(p)
  <2>1. UNCHANGED <<up, mishaps, pc, cur, mem, queue, status, attempts, child>>
    BY <1>2 DEF StartBoot, FindStuck, ReadPage, SkipQueued, Probe
  <2> QED BY <1>1, <2>1, NothingMoves DEF InService
<1>3. CASE Stop(p)
  <2>1. UNCHANGED <<mishaps, pc, cur, mem, queue, status, attempts, child>> /\ ~up'[p]
    BY <1>3 DEF Stop, TypeInv, TypeOK
  <2> QED BY <1>1, <2>1, NothingMoves DEF InService
<1>4. ASSUME ~NotBooting(p)
      PROVE  ~up[p] /\ \A w \in Workers : pc[w] = "idle"
  BY <1>4, WorkerConfig DEF PassInv, SlotsQuiet, OneProcess
<1>5. CASE BootDies(p)
  <2>1. UNCHANGED <<up, pc, cur, mem, queue, status, attempts, child>> /\ ~NotBooting(p)
    BY <1>5 DEF BootDies
  <2>2. Suffer("crash")
    <3>1. ~Suffer("dbError")
      BY MishapsGrow DEF Intact, Mishaps
    <3> QED BY <1>5, <3>1 DEF BootDies
  <2>3. mishaps'["crash"] >= mishaps["crash"]
    BY <1>1, <2>2, MishapsGrow DEF Mishaps
  <2> QED BY <1>4, <2>1, <2>3, NothingMoves DEF InService
<1>6. CASE Reclaim(p)
  <2>1. UNCHANGED <<up, mishaps, pc, cur, mem, queue, attempts>> /\ ~NotBooting(p)
    BY <1>6 DEF Reclaim, NotBooting, Booting
  <2> QED BY <1>4, <2>1, OutOfService DEF InService
<1>7. CASE RemoveOrphan(p) \/ Requeue(p)
  <2>1. UNCHANGED <<up, mishaps, pc, cur, mem, attempts>> /\ ~NotBooting(p)
    BY <1>7 DEF RemoveOrphan, Requeue, NotBooting, Booting
  <2>2. ASSUME NEW id \in JobIds
        PROVE  \/ queue'[id] = queue[id]
               \/ queue'[id].state \in {"none", "pending"} /\ queue'[id].tries = 0
                    /\ queue'[id].stalls = 0
    <3>1. CASE RemoveOrphan(p)
      <4>1. PICK c : c = Candidate(p)
        OBVIOUS
      <4>2. queue' = queue \/ queue' = [queue EXCEPT ![c] = NoEntry]
        BY <3>1, <4>1 DEF RemoveOrphan
      <4> QED BY <4>2 DEF NoEntry, TypeInv, TypeOK
    <3>2. CASE Requeue(p)
      <4>1. PICK c, due : c = <<Row(p).email, Row(p).child>>
                            /\ due = Later(Row(p).scheduledAt, hour)
        OBVIOUS
      <4>2. PICK entry : entry = Fresh(0, due)
        OBVIOUS
      <4>3. queue' = queue \/ queue' = [queue EXCEPT ![c] = entry]
        BY <3>2, <4>1, <4>2 DEF Requeue, AddEmailJob
      <4>4. entry.state = "pending" /\ entry.tries = 0 /\ entry.stalls = 0
        BY <4>2 DEF Fresh, NoEntry
      <4> QED BY <4>3, <4>4 DEF TypeInv, TypeOK
    <3> QED BY <1>7, <3>1, <3>2
  <2> QED BY <1>4, <2>1, <2>2, OutOfService DEF InService
<1>8. CASE Serve(p)
  <2>1. /\ UNCHANGED <<mishaps, pc, cur, mem, queue, status, attempts, child>>
        /\ ~NotBooting(p) /\ boot[p].at = "repaired" /\ events' = events
    BY <1>8 DEF Serve, Restart, NotBooting, Booting
  <2>2. ~InService
    BY <1>4, <2>1 DEF InService
  <2>3. PassOk(p)
    BY <2>1 DEF PassInv
  <2>4. boot[p].since = events["redisLoss"]
    <3>1. boot[p].since \in Nat /\ boot[p].since <= events["redisLoss"] /\ events["redisLoss"] = 0
      BY <2>1, <2>3 DEF PassOk, PlacesOk, PassTypes, BootState, Intact
    <3> QED BY <3>1
  <2>5. ASSUME NEW e \in Emails, status[e] \in Claimable, NeverDeferred(e)
        PROVE  Queues(<<e, 0>>)
    <3>1. QueuedAgain(e)
      BY <2>1, <2>3, <2>4, <2>5
         DEF PassOk, NothingBeyond, PlacesOk, Repaired, InHand, Booting, AtRow
    <3>2. PICK n \in 0..MaxDeferrals : Queues(<<e, n>>)
      BY <3>1 DEF QueuedAgain, Queues
    <3>3. n \notin 1..MaxDeferrals
      BY <2>5, <3>2 DEF NeverDeferred, Queues
    <3>4. n = 0
      BY <3>3, QueueConfig
    <3> QED BY <3>2, <3>4
  <2>6. /\ \A w \in Workers : SlotKeeps(w)'
        /\ \A id \in JobIds : EntryKeeps(id)'
    <3>1. \A w \in Workers : SlotKeeps(w)'
      BY <1>4, <2>1 DEF SlotKeeps
    <3>2. \A id \in JobIds : EntryKeeps(id)'
      BY <2>1 DEF QueueKept, EntryKeeps, BeingProcessed, HoldsLock, Queues
    <3> QED BY <3>1, <3>2
  <2>7. \A e \in Emails : RowKeeps(e)'
    BY <2>1, <2>5 DEF RowKeeps, NeverDeferred, Queues
  <2> QED BY <2>6, <2>7 DEF QueueKept
<1> QED BY <1>2, <1>3, <1>5, <1>6, <1>7, <1>8 DEF BootStep

LEMMA CountersMove ==
  ASSUME [SysNext]_sysVars
  PROVE  /\ mishaps' = mishaps \/ \E m \in Mishaps : Suffer(m)
         /\ events' = events \/ \E x \in Events : Happens(x)
<1> DEFINE Counted == /\ mishaps' = mishaps \/ \E m \in Mishaps : Suffer(m)
                      /\ events' = events \/ \E x \in Events : Happens(x)
<1>1. CASE UNCHANGED sysVars
  BY <1>1 DEF sysVars, recVars, recoveryVars, vars, env
<1>2. CASE ApiStep \/ ApiCrash \/ \E c \in Campaigns : CancelRead(c)
  <2>1. mishaps' = mishaps
    BY <1>2 DEF ApiStep, ReadBack, Enqueue, EnqueueThen, CancelCommit, CancelRow, RemoveEntry,
                RemoveThrows, CancelRead, ApiCrash, recVars, vars, env
  <2>2. events' = events
    BY <1>2 DEF ApiStep, ReadBack, Enqueue, EnqueueThen, CancelCommit, CancelRow, RemoveEntry,
                RemoveThrows, CancelRead, ApiCrash, recVars, recoveryVars
  <2> QED BY <2>1, <2>2
<1>3. ASSUME SendPath, UNCHANGED recoveryVars PROVE Counted
  <2>1. ASSUME NEW w \in Workers, Step(w) \/ DbError(w)
        PROVE  mishaps' = mishaps \/ \E m \in Mishaps : Suffer(m)
    BY <2>1 DEF Step, Load, Admit, Blocked, AddChild, SaveDeferral, Claim, ClaimLost, RunRefund,
                SendAccepted, SendTransient, SendAckLost, SendRefused, WriteSent, WriteRetry,
                WriteFailed, WriteResult, CountRemaining, CompleteCampaign, FinishJob, ThrowJob,
                DbError, env, Mishaps
  <2> QED BY <1>3, <2>1 DEF SendPath, TakeJob, Stall, LiveStall, Crash, Tick, env, Mishaps,
                            recoveryVars
<1>4. ASSUME NEW p \in Processes, StartBoot(p) \/ BootStep(p) \/ Stop(p) PROVE Counted
  BY <1>4 DEF StartBoot, BootStep, FindStuck, Reclaim, ReadPage, SkipQueued, Probe, RemoveOrphan,
              Requeue, Serve, Restart, Stop, vars, env, Events
<1>5. ASSUME NEW p \in Processes, BootDies(p) PROVE Counted
  BY <1>5 DEF BootDies, Mishaps
<1>6. ASSUME NEW e \in Emails, LockGoesStale(e) PROVE Counted
  BY <1>6 DEF LockGoesStale, env, Events
<1>7. CASE LoseRedis
  BY <1>7 DEF LoseRedis, env, Events
<1> QED BY <1>1, <1>2, <1>3, <1>4, <1>5, <1>6, <1>7 DEF SysNext, RecNext

LEMMA IntactBefore ==
  ASSUME SysTypeInv, [SysNext]_sysVars, Intact'
  PROVE  Intact
<1>1. TypeInv /\ events \in [Events -> Nat]
  BY DEF SysTypeInv, RecTypeInv, PassTypes
<1>2. mishaps["dbError"] = 0 /\ mishaps["liveStall"] = 0
  <2>1. ASSUME NEW m \in Mishaps, Suffer(m)
        PROVE  mishaps["dbError"] = 0 /\ mishaps["liveStall"] = 0
    BY <1>1, <2>1, MishapsGrow DEF Intact, Mishaps
  <2> QED BY <2>1, CountersMove DEF Intact
<1>3. events["redisLoss"] = 0
  <2>1. ASSUME NEW x \in Events, Happens(x) PROVE events["redisLoss"] = 0
    BY <1>1, <2>1 DEF Intact, Happens, Events
  <2> QED BY <2>1, CountersMove DEF Intact
<1> QED BY <1>2, <1>3 DEF Intact

LEMMA QueueInvStep ==
  ASSUME SysTypeInv, SysTypeInv', PassInv, QueueInv, OneProcess, NobodyCancels,
         MaxAttempts <= MaxJobAttempts, [SysNext]_sysVars
  PROVE  QueueInv'
<1> SUFFICES ASSUME Intact' PROVE QueueKept'
  BY DEF QueueInv
<1>1. TypeInv /\ TypeInv' /\ QueueKept
  BY IntactBefore DEF SysTypeInv, RecTypeInv, QueueInv
<1>2. mishaps["crash"] \in Nat
  BY <1>1 DEF TypeInv, TypeOK, Mishaps
<1>3. ASSUME UNCHANGED <<slotVars, queue, status, attempts, child, create, up, mishaps>>
      PROVE  QueueKept'
  BY <1>1, <1>2, <1>3, NothingMoves DEF InService
<1>4. ~CancelRow /\ ~CancelCommit /\ ~RemoveEntry /\ ~RemoveThrows
  BY DEF PassInv, NoneCancelled, CancelRow, CancelCommit, RemoveEntry, RemoveThrows
<1>5. ~\E c \in Campaigns : CancelRead(c)
  BY DEF CancelRead, NobodyCancels, SysTypeInv, ApiTypes
<1>6. CASE ApiStep \/ ApiCrash
  BY <1>1, <1>4, <1>6, CreateKeepsQueue DEF ApiStep
<1>7. CASE UNCHANGED sysVars
  BY <1>3, <1>7 DEF sysVars, recVars, vars, env, rowVars, apiVars
<1>8. ASSUME SendPath, UNCHANGED recoveryVars, UNCHANGED apiVars PROVE QueueKept'
  <2>1. create' = create
    BY <1>8 DEF apiVars
  <2>2. ~Suffer("dbError") /\ ~Suffer("liveStall")
    BY <1>1, MishapsGrow DEF Intact, Mishaps
  <2>3. ASSUME NEW w \in Workers, Step(w) PROVE QueueKept'
    BY <1>1, <1>8, <2>1, <2>3, SlotGoesOn, AddChildKeepsQueue, FinishKeepsQueue, ThrowKeepsQueue
       DEF Step
  <2>4. ASSUME NEW w \in Workers, DbError(w) PROVE FALSE
    BY <2>2, <2>4 DEF DbError
  <2>5. ASSUME NEW id \in JobIds, LiveStall(id) PROVE FALSE
    BY <2>2, <2>5 DEF LiveStall
  <2>6. ASSUME NEW p \in Processes, Crash(p) PROVE QueueKept'
    <3>1. /\ UNCHANGED <<attempts, queue>> /\ ~up'[p]
          /\ \A w \in Workers : pc'[w] = "idle"
          /\ mishaps'["crash"] = mishaps["crash"] + 1
      BY <1>1, <2>6, WorkerConfig, MishapsGrow
         DEF Crash, TypeInv, TypeOK, OneProcess, Mishaps, rowVars
    <3>2. \A id \in JobIds : queue[id].stalls + 1 <= mishaps'["crash"]
      <4>1. \A id \in JobIds : queue[id].stalls \in Nat /\ queue[id].stalls <= mishaps["crash"]
        BY <1>1 DEF QueueKept, EntryKeeps, TypeInv, TypeOK, Entry
      <4> QED BY <1>2, <3>1, <4>1
    <3> QED BY <1>1, <3>1, <3>2, OutOfService DEF InService
  <2>7. CASE Tick
    BY <1>3, <2>1, <2>7 DEF Tick, rowVars
  <2> QED BY <1>1, <1>8, <2>1, <2>3, <2>4, <2>5, <2>6, <2>7, TakeKeepsQueue, StallKeepsQueue
          DEF SendPath
<1>9. ASSUME NEW p \in Processes, StartBoot(p) \/ BootStep(p) \/ BootDies(p) \/ Stop(p),
             UNCHANGED apiVars
      PROVE  QueueKept'
  BY <1>1, <1>9, BootKeepsQueue DEF apiVars
<1>10. ASSUME NEW e \in Emails, LockGoesStale(e), UNCHANGED apiVars PROVE QueueKept'
  BY <1>3, <1>10 DEF LockGoesStale, env, apiVars
<1>11. ~LoseRedis
  <2>1. events \in [Events -> Nat]
    BY DEF SysTypeInv, RecTypeInv, PassTypes
  <2> QED BY <2>1 DEF LoseRedis, Happens, Events, Intact
<1> QED BY <1>4, <1>5, <1>6, <1>7, <1>8, <1>9, <1>10, <1>11 DEF SysNext, RecNext

LEMMA QueueInvInit == SysInit => QueueInv
<1> SUFFICES ASSUME SysInit PROVE QueueKept
  BY DEF QueueInv
<1>1. \A w \in Workers : SlotKeeps(w)
  BY DEF SysInit, Committed, SlotKeeps
<1>2. \A id \in JobIds : queue[id] = NoEntry
  BY DEF SysInit
<1>3. \A id \in JobIds : EntryKeeps(id)
  BY <1>2 DEF SysInit, Committed, EntryKeeps, Queues, NoEntry, Mishaps
<1>4. \A e \in Emails : RowKeeps(e)
  <2>1. \A e \in Emails : <<e, 0>> \in JobIds /\ ~Created(e)
    BY QueueConfig DEF JobIds, SysInit, Created
  <2> QED BY <1>2, <2>1 DEF RowKeeps, NoEntry
<1> QED BY <1>1, <1>3, <1>4 DEF QueueKept

\* While the only process is in service and the campaign has been answered as
\* scheduled, every row that waits and was never rate limited has an entry,
\* through any number of refused and retried sends, deaths and boots, as long as
\* the library gives an entry as many attempts as its row and more redeliveries
\* than processes have died (campaign.service.ts:215, email.queue.ts:56).
THEOREM WaitingIsQueued ==
  ASSUME OneProcess, NobodyCancels, MaxAttempts <= MaxJobAttempts
  PROVE  SysSpec => []ScheduledIsQueued
<1>1. SysInit => SysTypeInv /\ PassInv /\ QueueInv
  BY SysTypeInit, PassInvInit, QueueInvInit
<1>2. SysTypeInv /\ PassInv /\ QueueInv /\ [SysNext]_sysVars
        => (SysTypeInv /\ PassInv /\ QueueInv)'
  BY SysTypeStep, PassInvStep, QueueInvStep
<1>3. QueueInv => ScheduledIsQueued
  <2> SUFFICES ASSUME QueueKept, InService, create.at = "answered", NEW e \in Emails,
                      status[e] \in Claimable, NeverDeferred(e)
               PROVE  QueuedAgain(e)
    BY DEF QueueInv, Intact, InService, ScheduledIsQueued
  <2>1. Queues(<<e, 0>>)
    BY DEF QueueKept, RowKeeps, Created
  <2> QED BY <2>1, QueueConfig DEF QueuedAgain, Queues
<1> QED BY <1>1, <1>2, <1>3, PTL DEF SysSpec
================================================================================
