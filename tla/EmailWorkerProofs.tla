-------------------------- MODULE EmailWorkerProofs ---------------------------
(***************************************************************************)
(* Proofs about EmailWorker, for any number of emails, campaigns, slots and *)
(* processes, any limits, and any number of hours and mishaps.              *)
(***************************************************************************)
EXTENDS EmailWorker, TLAPS

\* An entry handed back with a new state and counter is an entry.
LEMMA HandBackTyped ==
  ASSUME NEW r \in Entry, NEW st \in JobStates, NEW k \in Nat
  PROVE  /\ [r EXCEPT !.state = st, !.tries = k, !.holder = NoWorker] \in Entry
         /\ [r EXCEPT !.state = st, !.stalls = k, !.holder = NoWorker] \in Entry
         /\ r.tries \in Nat /\ r.stalls \in Nat
BY DEF Entry

\* The queue operators map queues to queues.
LEMMA AddTyped ==
  ASSUME NEW q \in [JobIds -> Entry], NEW id \in JobIds,
         NEW n \in 0..MaxDeferrals, NEW due \in Nat
  PROVE  AddEmailJob(q, id, n, due) \in [JobIds -> Entry]
<1>1. Fresh(n, due) \in Entry
  BY QueueConfig DEF Fresh, NoEntry, Entry, JobStates
<1> QED BY <1>1 DEF AddEmailJob

LEMMA LockTyped ==
  ASSUME NEW q \in [JobIds -> Entry], NEW id \in JobIds, NEW w \in Workers
  PROVE  /\ StartJob(q, id, w) \in [JobIds -> Entry]
         /\ MoveToCompleted(q, id, w) \in [JobIds -> Entry]
         /\ MoveToFailed(q, id, w) \in [JobIds -> Entry]
<1>1. StartJob(q, id, w) \in [JobIds -> Entry]
  BY DEF StartJob, Entry, JobStates
<1>2. MoveToCompleted(q, id, w) \in [JobIds -> Entry]
  BY DEF MoveToCompleted, Entry, JobStates
<1>3. MoveToFailed(q, id, w) \in [JobIds -> Entry]
  <2>1. [q[id] EXCEPT !.state = IF q[id].tries + 1 < MaxJobAttempts
                                THEN "pending" ELSE "failed",
                      !.tries = q[id].tries + 1,
                      !.holder = NoWorker] \in Entry
    <3>1. (IF q[id].tries + 1 < MaxJobAttempts THEN "pending" ELSE "failed") \in JobStates
      BY DEF JobStates
    <3>2. q[id] \in Entry
      OBVIOUS
    <3>3. q[id].tries + 1 \in Nat
      BY <3>2 DEF Entry
    <3> QED BY <3>1, <3>2, <3>3, HandBackTyped
  <2> QED BY <2>1 DEF MoveToFailed
<1> QED BY <1>1, <1>2, <1>3

LEMMA StalledTyped ==
  ASSUME NEW q \in [JobIds -> Entry], NEW id \in JobIds
  PROVE  MoveStalledToWait(q, id) \in [JobIds -> Entry]
<1>1. [q[id] EXCEPT !.state = IF q[id].stalls + 1 > MaxStalls
                              THEN "failed" ELSE "pending",
                    !.stalls = q[id].stalls + 1,
                    !.holder = NoWorker] \in Entry
  <2>1. (IF q[id].stalls + 1 > MaxStalls THEN "failed" ELSE "pending") \in JobStates
    BY DEF JobStates
  <2>2. q[id] \in Entry
    OBVIOUS
  <2>3. q[id].stalls + 1 \in Nat
    BY <2>2 DEF Entry
  <2> QED BY <2>1, <2>2, <2>3, HandBackTyped
<1> QED BY <1>1 DEF MoveStalledToWait

LEMMA ConstantsTyped ==
  /\ SomeJob \in JobIds
  /\ NoMemory \in Memory
  /\ NoEntry \in Entry
  /\ 0 \in Hours
  /\ Hours \subseteq Nat
  /\ \A h \in Hours : h < MaxHour => h + 1 \in Hours
  /\ NoneUsed \in Counters
<1>1. SomeJob \in JobIds
  <2>1. 0 \in 0..MaxDeferrals
    BY QueueConfig
  <2>2. PICK e \in Emails : TRUE
    BY QueueConfig
  <2>3. <<e, 0>> \in JobIds
    BY <2>1, <2>2 DEF JobIds
  <2> QED BY <2>3 DEF SomeJob
<1>2. 0 \in Hours /\ Hours \subseteq Nat /\ \A h \in Hours : h < MaxHour => h + 1 \in Hours
  BY RateConfig DEF Hours
<1>3. NoMemory \in Memory
  BY <1>2, QueueConfig DEF NoMemory, Memory
<1>4. NoEntry \in Entry
  BY QueueConfig DEF NoEntry, Entry, JobStates
<1>5. NoneUsed \in Counters
  BY DEF NoneUsed, Counters
<1> QED BY <1>1, <1>2, <1>3, <1>4, <1>5

\* The counter operators map counters to counters.
LEMMA CountersTyped ==
  ASSUME NEW u \in Counters, NEW s \in Senders, NEW h \in Hours
  PROVE  Consume(u, s, h) \in Counters /\ Refund(u, s, h) \in Counters
BY DEF Counters, Consume, Refund

\* TypeOK needs to know that the suffix about to be saved is within the bound.
TypeInv ==
  /\ TypeOK
  /\ \A w \in Workers : pc[w] = "deferSave" => mem[w].deferrals + 1 <= MaxDeferrals

LEMMA TypeInit == Init => TypeInv
<1> SUFFICES ASSUME Init PROVE TypeInv
  OBVIOUS
<1>1. queue \in [JobIds -> Entry]
  <2>1. 0 \in 0..MaxDeferrals /\ 0 \in Nat
    BY QueueConfig
  <2>2. Fresh(0, 0) \in Entry
    BY <2>1, QueueConfig DEF Fresh, NoEntry, Entry, JobStates
  <2> QED BY <2>2, ConstantsTyped DEF Init, Committed
<1>2. TypeOK
  BY <1>1, ConstantsTyped, QueueConfig
     DEF Init, Committed, TypeOK, Statuses, Labels, Mishaps
<1> QED BY <1>2 DEF TypeInv, Init, Committed

LEMMA EmailTyped ==
  ASSUME TypeOK, NEW w \in Workers
  PROVE  /\ cur[w] \in JobIds
         /\ Email(w) \in Emails
         /\ Sender(w) \in Senders
         /\ mem[w] \in Memory
         /\ pc[w] \in Labels
BY WorkerConfig DEF TypeOK, Email, Sender, JobIds

LEMMA TypeStep == TypeInv /\ [Next]_vars => TypeInv'
<1> SUFFICES ASSUME TypeInv, [Next]_vars PROVE TypeInv'
  OBVIOUS
<1> TypeOK
  BY DEF TypeInv
<1> USE EmailTyped DEF TypeInv, TypeOK
<1>1. ASSUME NEW w \in Workers, NEW id \in JobIds, TakeJob(w, id) PROVE TypeInv'
  <2>1. queue[id].deferrals \in 0..MaxDeferrals
    BY DEF Entry
  <2>2. mem' \in [Workers -> Memory]
    BY <1>1, <2>1 DEF TakeJob, Memory
  <2>3. queue' \in [JobIds -> Entry]
    BY <1>1, LockTyped DEF TakeJob
  <2> QED BY <1>1, <2>2, <2>3 DEF TakeJob, Goto, env, rowVars, history, Labels
<1>2. ASSUME NEW w \in Workers, Load(w) PROVE TypeInv'
  <2>1. mem' \in [Workers -> Memory]
    BY <1>2 DEF Load, Memory
  <2> QED BY <1>2, <2>1 DEF Load, Goto, env, rowVars, history, Labels
<1>3. ASSUME NEW w \in Workers, Admit(w) PROVE TypeInv'
  <2>1. used' \in Counters
    BY <1>3, CountersTyped DEF Admit, Memory
  <2> QED BY <1>3, <2>1 DEF Admit, Goto, env, rowVars, history, Labels
<1>4. ASSUME NEW w \in Workers, Blocked(w) PROVE TypeInv'
  <2>1. mem' \in [Workers -> Memory]
    BY <1>4, ConstantsTyped DEF Blocked, Memory
  <2> QED BY <1>4, <2>1 DEF Blocked, Goto, env, rowVars, history, Labels
<1>5. ASSUME NEW w \in Workers, AddChild(w) PROVE TypeInv'
  <2>1. mem[w].deferrals + 1 \in 0..MaxDeferrals /\ mem[w].due \in Nat
    BY <1>5, QueueConfig DEF AddChild, Memory
  <2>2. <<Email(w), mem[w].deferrals + 1>> \in JobIds
    BY <2>1 DEF JobIds
  <2>3. queue' \in [JobIds -> Entry]
    BY <1>5, <2>1, <2>2, AddTyped DEF AddChild
  <2>4. mem[w].deferrals + 1 <= MaxDeferrals
    BY <2>1, QueueConfig
  <2> QED BY <1>5, <2>3, <2>4 DEF AddChild, Goto, env, rowVars, history, Labels
<1>6. ASSUME NEW w \in Workers, SaveDeferral(w) PROVE TypeInv'
  <2>1. mem[w].deferrals + 1 \in 0..MaxDeferrals /\ mem[w].due \in Nat
    BY <1>6, QueueConfig DEF SaveDeferral, At, Memory
  <2>2. child' \in [Emails -> 0..MaxDeferrals] /\ scheduledAt' \in [Emails -> Nat]
    BY <1>6, <2>1 DEF SaveDeferral
  <2> QED BY <1>6, <2>2 DEF SaveDeferral, Goto, env, history, Labels
<1>7. ASSUME NEW w \in Workers, Claim(w) PROVE TypeInv'
  BY <1>7 DEF Claim, Goto, env, history, Labels, Statuses
<1>8. ASSUME NEW w \in Workers, ClaimLost(w) PROVE TypeInv'
  <2>1. mem' \in [Workers -> Memory]
    BY <1>8 DEF ClaimLost, Memory
  <2> QED BY <1>8, <2>1 DEF ClaimLost, Goto, env, rowVars, history, Labels
<1>9. ASSUME NEW w \in Workers, RunRefund(w) PROVE TypeInv'
  <2>1. used' \in Counters
    BY <1>9, CountersTyped DEF RunRefund, Memory
  <2> QED BY <1>9, <2>1 DEF RunRefund, Goto, env, rowVars, history, Labels
<1>10. ASSUME NEW w \in Workers, SendAccepted(w) \/ SendRefused(w) PROVE TypeInv'
  <2>1. CASE SendAccepted(w)
    BY <2>1 DEF SendAccepted, Goto, env, rowVars, Labels
  <2>2. CASE SendRefused(w)
    <3>1. refused' \in [Emails -> BOOLEAN]
      BY <2>2 DEF SendRefused
    <3> QED BY <2>2, <3>1 DEF SendRefused, Goto, env, rowVars, Labels
  <2> QED BY <1>10, <2>1, <2>2
<1>11. ASSUME NEW w \in Workers, SendTransient(w) PROVE TypeInv'
  BY <1>11 DEF SendTransient, AfterTransient, Goto, env, rowVars, history, Labels
<1>12. ASSUME NEW w \in Workers, SendAckLost(w) PROVE TypeInv'
  BY <1>12 DEF SendAckLost, AfterTransient, Suffer, Goto, rowVars, Labels, Mishaps
<1>13. ASSUME NEW w \in Workers, WriteSent(w) \/ WriteRetry(w) \/ WriteFailed(w)
       PROVE TypeInv'
  BY <1>13 DEF WriteSent, WriteRetry, WriteFailed, WriteResult, Goto, env, history,
               Labels, Statuses
<1>14. ASSUME NEW w \in Workers, CountRemaining(w) PROVE TypeInv'
  BY <1>14 DEF CountRemaining, Goto, env, rowVars, history, Labels
<1>15. ASSUME NEW w \in Workers, CompleteCampaign(w) PROVE TypeInv'
  <2>1. campaign' \in [Campaigns -> {"SCHEDULED", "COMPLETED", "CANCELLED"}]
    BY <1>15 DEF CompleteCampaign
  <2> QED BY <1>15, <2>1 DEF CompleteCampaign, Goto, env, rowVars, history, Labels
<1>16. ASSUME NEW w \in Workers, FinishJob(w) \/ ThrowJob(w) PROVE TypeInv'
  <2>1. queue' \in [JobIds -> Entry]
    BY <1>16, LockTyped DEF FinishJob, ThrowJob
  <2> QED BY <1>16, <2>1, ConstantsTyped
          DEF FinishJob, ThrowJob, Release, Goto, env, rowVars, history, Labels
<1>17. ASSUME NEW w \in Workers, DbError(w) PROVE TypeInv'
  BY <1>17 DEF DbError, Suffer, Goto, rowVars, history, Labels, Mishaps
<1>18. ASSUME NEW id \in JobIds, Stall(id) \/ LiveStall(id) PROVE TypeInv'
  <2>1. queue' \in [JobIds -> Entry]
    BY <1>18, StalledTyped DEF Stall, LiveStall
  <2> QED BY <1>18, <2>1
          DEF Stall, LiveStall, Suffer, env, rowVars, slotVars, history, Mishaps
<1>19. ASSUME NEW p \in Processes, Crash(p) PROVE TypeInv'
  BY <1>19, ConstantsTyped DEF Crash, Suffer, rowVars, history, Labels, Mishaps
<1>20. ASSUME NEW p \in Processes, Restart(p) PROVE TypeInv'
  BY <1>20 DEF Restart, rowVars, slotVars, history
<1>21. ASSUME Tick PROVE TypeInv'
  BY <1>21, ConstantsTyped DEF Tick, rowVars, slotVars, history
<1>22. ASSUME UNCHANGED vars PROVE TypeInv'
  BY <1>22 DEF vars, env, rowVars, slotVars, history
<1> QED
  BY <1>1, <1>2, <1>3, <1>4, <1>5, <1>6, <1>7, <1>8, <1>9, <1>10, <1>11, <1>12,
     <1>13, <1>14, <1>15, <1>16, <1>17, <1>18, <1>19, <1>20, <1>21, <1>22
     DEF Next, Step

\* Every variable keeps its type.
THEOREM WorkerTypes == Spec => []TypeOK
<1>1. Spec => []TypeInv
  BY TypeInit, TypeStep, PTL DEF Spec
<1>2. TypeInv => TypeOK
  BY DEF TypeInv
<1> QED BY <1>1, <1>2, PTL

-------------------------------------------------------------------------------
(***************************************************************************)
(* The inductive invariant.  ClaimExclusive alone is not inductive: a slot  *)
(* may claim only a claimable row, so two slots never meet because every    *)
(* slot that holds a claim keeps its row out of Claimable (OwnsRow). What   *)
(* SMTP accepted is then tied to the row's status and the owner's step      *)
(* (DeliveryKept), the owner's attempt number to the row's (AttemptsKept),  *)
(* and a passed count to the rows it counted (CountKept).                   *)
(***************************************************************************)
OwnsRow == \A w \in Workers : HoldsClaim(w) => status[Email(w)] = "PROCESSING"

DeliveryKept ==
  /\ \A e \in Emails : status[e] \in Claimable => accepted[e] <= mishaps["lostAck"]
  /\ \A w \in Workers :
       /\ pc[w] \in {"send", "retry", "fail"} => accepted[Email(w)] <= mishaps["lostAck"]
       /\ pc[w] = "sent" => accepted[Email(w)] > 0

AttemptsKept ==
  \A w \in Workers :
    /\ pc[w] \in {"admit", "claim"} => mem[w].attempts <= attempts[Email(w)]
    /\ HoldsClaim(w) => mem[w].attempts + 1 <= attempts[Email(w)]
    /\ pc[w] = "fail" => refused[Email(w)] \/ mem[w].attempts + 1 >= MaxAttempts

CountKept ==
  \A w \in Workers : pc[w] = "complete" => Remaining(campaignOf[Email(w)]) = {}

IInv ==
  /\ ClaimExclusive /\ OwnsRow
  /\ NoDuplicate /\ VerdictIsTrue /\ DeliveryKept
  /\ FailedForCause /\ AttemptsKept
  /\ CompletedIsSettled /\ CountKept

\* What most steps have in common: no row, verdict or history changes, and a
\* slot that moves does not come to hold a claim or a passed count.
Stays(v) == pc'[v] = pc[v] /\ cur'[v] = cur[v] /\ mem'[v].attempts = mem[v].attempts

Harmless == {"idle", "load", "deferAdd", "deferSave", "refund", "done", "throw"}

Quiet ==
  /\ UNCHANGED <<status, attempts, accepted, refused, campaign>>
  /\ mishaps'["lostAck"] = mishaps["lostAck"]
  /\ \A v \in Workers :
       \/ Stays(v)
       \/ pc'[v] \in Harmless
       \/ pc'[v] = "admit" /\ cur'[v] = cur[v] /\ mem'[v].attempts = attempts[Email(v)]
       \/ /\ pc[v] = "admit" /\ pc'[v] = "claim"
          /\ cur'[v] = cur[v] /\ mem'[v].attempts = mem[v].attempts

LEMMA InvInit == Init => IInv
<1> SUFFICES ASSUME Init PROVE IInv
  OBVIOUS
<1>1. \A w \in Workers : pc[w] = "idle" /\ ~HoldsClaim(w)
  BY DEF Init, Committed, HoldsClaim
<1>2. \A e \in Emails : status[e] = "SCHEDULED" /\ accepted[e] = 0
  BY DEF Init, Committed
<1>3. mishaps["lostAck"] = 0
  BY DEF Init, Committed, Mishaps
<1>4. \A c \in Campaigns : campaign[c] = "SCHEDULED"
  BY DEF Init, Committed
<1> QED
  BY <1>1, <1>2, <1>3, <1>4
     DEF IInv, ClaimExclusive, OwnsRow, NoDuplicate, VerdictIsTrue, DeliveryKept,
         FailedForCause, AttemptsKept, CompletedIsSettled, CountKept

LEMMA QuietKeepsInv == TypeInv /\ TypeInv' /\ IInv /\ Quiet => IInv'
<1> SUFFICES ASSUME TypeInv, TypeInv', IInv, Quiet PROVE IInv'
  OBVIOUS
<1> USE DEF IInv
<1>1. ASSUME NEW v \in Workers, HoldsClaim(v)'
      PROVE  HoldsClaim(v) /\ Stays(v) /\ Email(v)' = Email(v)
  BY <1>1 DEF Quiet, HoldsClaim, Harmless, Stays, Email
<1>2. ASSUME NEW v \in Workers, pc'[v] = "complete"
      PROVE  pc[v] = "complete" /\ Email(v)' = Email(v)
  BY <1>2 DEF Quiet, Harmless, Stays, Email
<1>3. ClaimExclusive' /\ OwnsRow'
  BY <1>1 DEF ClaimExclusive, OwnsRow, Quiet
<1>4. NoDuplicate' /\ VerdictIsTrue' /\ FailedForCause' /\ CompletedIsSettled'
  BY DEF Quiet, NoDuplicate, VerdictIsTrue, FailedForCause, CompletedIsSettled,
         Remaining
<1>5. DeliveryKept'
  <2>1. \A e \in Emails :
          status'[e] \in Claimable => accepted'[e] <= mishaps'["lostAck"]
    BY DEF Quiet, DeliveryKept
  <2>2. ASSUME NEW v \in Workers, pc'[v] \in {"send", "retry", "fail"}
        PROVE  accepted'[Email(v)'] <= mishaps'["lostAck"]
    BY <2>2, <1>1 DEF Quiet, DeliveryKept, HoldsClaim, Stays
  <2>3. ASSUME NEW v \in Workers, pc'[v] = "sent"
        PROVE  accepted'[Email(v)'] > 0
    BY <2>3, <1>1 DEF Quiet, DeliveryKept, HoldsClaim, Stays
  <2> QED BY <2>1, <2>2, <2>3 DEF DeliveryKept
<1>6. AttemptsKept'
  <2>1. ASSUME NEW v \in Workers, pc'[v] \in {"admit", "claim"}
        PROVE  mem'[v].attempts <= attempts'[Email(v)']
    <3>1. Email(v) \in Emails /\ attempts[Email(v)] \in Nat
      BY EmailTyped DEF TypeInv, TypeOK
    <3> QED BY <2>1, <3>1 DEF Quiet, AttemptsKept, Harmless, Stays, Email
  <2>2. ASSUME NEW v \in Workers, HoldsClaim(v)'
        PROVE  mem'[v].attempts + 1 <= attempts'[Email(v)']
    BY <2>2, <1>1 DEF Quiet, AttemptsKept, Stays
  <2>3. ASSUME NEW v \in Workers, pc'[v] = "fail"
        PROVE  refused'[Email(v)'] \/ mem'[v].attempts + 1 >= MaxAttempts
    BY <2>3, <1>1 DEF Quiet, AttemptsKept, HoldsClaim, Stays
  <2> QED BY <2>1, <2>2, <2>3 DEF AttemptsKept
<1>7. CountKept'
  BY <1>2 DEF CountKept, Quiet, Remaining
<1> QED BY <1>3, <1>4, <1>5, <1>6, <1>7

\* Steps of a slot that are quiet.
LEMMA QuietSlotStep ==
  ASSUME TypeInv, NEW w \in Workers,
         \/ Load(w) \/ Admit(w) \/ Blocked(w) \/ AddChild(w) \/ SaveDeferral(w)
         \/ ClaimLost(w) \/ RunRefund(w) \/ FinishJob(w) \/ ThrowJob(w) \/ DbError(w)
  PROVE  Quiet
<1> USE EmailTyped DEF TypeInv, TypeOK, Memory, Goto, env, rowVars, history, Stays,
        Harmless
<1>1. CASE Load(w)
  BY <1>1 DEF Load, Quiet
<1>2. CASE Admit(w)
  BY <1>2 DEF Admit, At, Quiet
<1>3. CASE Blocked(w)
  BY <1>3 DEF Blocked, Quiet
<1>4. CASE AddChild(w)
  BY <1>4 DEF AddChild, Quiet
<1>5. CASE SaveDeferral(w)
  BY <1>5 DEF SaveDeferral, Quiet
<1>6. CASE ClaimLost(w)
  BY <1>6 DEF ClaimLost, Quiet
<1>7. CASE RunRefund(w)
  BY <1>7 DEF RunRefund, Quiet
<1>8. CASE FinishJob(w) \/ ThrowJob(w)
  BY <1>8 DEF FinishJob, ThrowJob, Release, Quiet
<1>9. CASE DbError(w)
  BY <1>9 DEF DbError, Suffer, Mishaps, Quiet
<1> QED BY <1>1, <1>2, <1>3, <1>4, <1>5, <1>6, <1>7, <1>8, <1>9

\* Steps of the library, the processes and the clock are quiet.
LEMMA QuietOutsideStep ==
  ASSUME TypeInv,
         \/ \E w \in Workers, id \in JobIds : TakeJob(w, id)
         \/ \E id \in JobIds : Stall(id) \/ LiveStall(id)
         \/ \E p \in Processes : Crash(p) \/ Restart(p)
         \/ Tick
         \/ UNCHANGED vars
  PROVE  Quiet
<1> USE DEF TypeInv, TypeOK, Goto, env, rowVars, slotVars, history, Stays, Harmless
<1>1. CASE \E w \in Workers, id \in JobIds : TakeJob(w, id)
  BY <1>1 DEF TakeJob, Quiet
<1>2. CASE \E id \in JobIds : Stall(id) \/ LiveStall(id)
  BY <1>2 DEF Stall, LiveStall, Suffer, Mishaps, Quiet
<1>3. CASE \E p \in Processes : Crash(p) \/ Restart(p)
  BY <1>3 DEF Crash, Restart, Suffer, Mishaps, Quiet
<1>4. CASE Tick
  BY <1>4 DEF Tick, Quiet
<1>5. CASE UNCHANGED vars
  BY <1>5 DEF vars, Quiet
<1> QED BY <1>1, <1>2, <1>3, <1>4, <1>5

\* The other steps change a row, a verdict or a history.  They are made by one
\* slot, for the email of its job.
OnlySlot(w) ==
  /\ \A v \in Workers : v # w => pc'[v] = pc[v]
  /\ UNCHANGED <<cur, mem>>

\* A row that leaves NonTerminal does not come back, and rows without a verdict
\* only become fewer.
LEMMA FewerRemaining ==
  ASSUME \A e \in Emails : status'[e] \in NonTerminal => status[e] \in NonTerminal,
         NEW c, Remaining(c) = {}
  PROVE  Remaining(c)' = {}
BY DEF Remaining

LEMMA ClaimKeepsInv ==
  ASSUME TypeInv, TypeInv', IInv, NEW w \in Workers, Claim(w)
  PROVE  IInv'
<1> DEFINE e == Email(w)
<1> USE DEF IInv
<1>1. e \in Emails /\ attempts[e] \in Nat /\ mem[w].attempts \in Nat
  BY EmailTyped DEF TypeInv, TypeOK, Memory
<1>2. OnlySlot(w) /\ pc[w] = "claim" /\ pc'[w] = "send"
  BY DEF Claim, At, Goto, OnlySlot, TypeInv, TypeOK
<1>3. /\ status[e] \in Claimable /\ status'[e] = "PROCESSING"
      /\ \A f \in Emails : f # e => status'[f] = status[f]
  BY <1>1 DEF Claim, TypeInv, TypeOK
<1>4. /\ attempts'[e] = attempts[e] + 1
      /\ \A f \in Emails : f # e => attempts'[f] = attempts[f]
      /\ UNCHANGED <<accepted, refused, campaign, mishaps>>
  BY <1>1 DEF Claim, TypeInv, TypeOK, history, env
<1>5. \A v \in Workers : Email(v)' = Email(v) /\ (HoldsClaim(v)' <=> v = w \/ HoldsClaim(v))
  BY <1>2 DEF OnlySlot, Email, HoldsClaim
<1>6. \A v \in Workers : HoldsClaim(v) => Email(v) # e
  BY <1>3 DEF OwnsRow, Claimable
<1>7. \A v \in Workers : Email(v) \in Emails /\ attempts[Email(v)] \in Nat
                         /\ mem[v].attempts \in Nat /\ attempts'[Email(v)] >= attempts[Email(v)]
  <2>1. \A v \in Workers : Email(v) \in Emails /\ attempts[Email(v)] \in Nat
                           /\ mem[v].attempts \in Nat
    BY EmailTyped DEF TypeInv, TypeOK, Memory
  <2>2. \A f \in Emails : attempts[f] \in Nat => attempts'[f] >= attempts[f]
    BY <1>4
  <2> QED BY <2>1, <2>2
<1>8. ClaimExclusive' /\ OwnsRow'
  <2>1. ClaimExclusive'
    BY <1>5, <1>6 DEF ClaimExclusive
  <2>2. OwnsRow'
    BY <1>3, <1>5, <1>6, <1>7 DEF OwnsRow
  <2> QED BY <2>1, <2>2
<1>9. NoDuplicate' /\ VerdictIsTrue'
  BY <1>3, <1>4 DEF NoDuplicate, VerdictIsTrue
<1>10. DeliveryKept'
  BY <1>1, <1>2, <1>3, <1>4, <1>5, <1>6 DEF DeliveryKept, OnlySlot, Claimable
<1>11. FailedForCause'
  <2>1. \A f \in Emails : status'[f] = "FAILED" => f # e
    BY <1>3
  <2> QED BY <2>1, <1>3, <1>4 DEF FailedForCause
<1>12. AttemptsKept'
  <2>1. mem'[w].attempts + 1 <= attempts'[Email(w)']
    BY <1>1, <1>2, <1>4, <1>5 DEF AttemptsKept, OnlySlot
  <2>2. \A v \in Workers : v # w => pc'[v] = pc[v] /\ mem'[v] = mem[v]
    BY <1>2 DEF OnlySlot
  <2> QED BY <1>2, <1>4, <1>5, <1>7, <2>1, <2>2 DEF AttemptsKept
<1>13. CompletedIsSettled' /\ CountKept'
  <2>1. \A f \in Emails : status'[f] \in NonTerminal => status[f] \in NonTerminal
    BY <1>3 DEF Claimable, NonTerminal
  <2>2. \A c : Remaining(c) = {} => Remaining(c)' = {}
    BY <2>1, FewerRemaining
  <2>3. \A v \in Workers : pc'[v] = "complete" => pc[v] = "complete"
    BY <1>2 DEF OnlySlot
  <2> QED BY <1>4, <1>5, <2>2, <2>3 DEF CompletedIsSettled, CountKept
<1> QED BY <1>8, <1>9, <1>10, <1>11, <1>12, <1>13

\* The four answers of SMTP: the slot keeps its claim and no row changes.
Answer(w) == SendAccepted(w) \/ SendTransient(w) \/ SendAckLost(w) \/ SendRefused(w)

\* What they do to the histories.
LEMMA AnswerEffect ==
  ASSUME TypeInv, NEW w \in Workers, Answer(w)
  PROVE  LET e == Email(w) IN
         /\ OnlySlot(w) /\ pc[w] = "send" /\ pc'[w] \in {"sent", "retry", "fail"}
         /\ UNCHANGED <<status, attempts, campaign>>
         /\ \A f \in Emails : f # e => accepted'[f] = accepted[f]
         /\ accepted'[e] <= accepted[e] + 1
         /\ pc'[w] = "sent" => accepted'[e] = accepted[e] + 1
         /\ pc'[w] # "sent" =>
              accepted'[e] - mishaps'["lostAck"] = accepted[e] - mishaps["lostAck"]
         /\ mishaps'["lostAck"] >= mishaps["lostAck"]
         /\ \A f \in Emails : refused[f] => refused'[f]
         /\ pc'[w] = "fail" => refused'[e] \/ mem[w].attempts + 1 >= MaxAttempts
<1> DEFINE e == Email(w)
<1> USE DEF Goto, At, OnlySlot, TypeInv, TypeOK, env, rowVars, history
<1>1. /\ e \in Emails /\ accepted[e] \in Nat /\ mishaps["lostAck"] \in Nat
      /\ mem[w].attempts \in Nat
  BY EmailTyped DEF Memory, Mishaps
<1>2. \/ AfterTransient(w) = "retry"
      \/ AfterTransient(w) = "fail" /\ mem[w].attempts + 1 >= MaxAttempts
  BY <1>1, WorkerConfig DEF AfterTransient
<1> HIDE DEF e
<1>3. CASE SendAccepted(w)
  BY <1>1, <1>3 DEF SendAccepted, e
<1>4. CASE SendTransient(w)
  BY <1>1, <1>2, <1>4 DEF SendTransient, e
<1>5. CASE SendAckLost(w)
  BY <1>1, <1>2, <1>5 DEF SendAckLost, Suffer, Mishaps, e
<1>6. CASE SendRefused(w)
  BY <1>1, <1>6 DEF SendRefused, e
<1> QED BY <1>3, <1>4, <1>5, <1>6 DEF Answer, e

LEMMA AnswerKeepsInv ==
  ASSUME TypeInv, TypeInv', IInv, NEW w \in Workers, Answer(w)
  PROVE  IInv'
<1> DEFINE e == Email(w)
<1> USE DEF IInv
<1>1. /\ OnlySlot(w) /\ pc[w] = "send" /\ pc'[w] \in {"sent", "retry", "fail"}
      /\ UNCHANGED <<status, attempts, campaign>>
      /\ \A f \in Emails : f # e => accepted'[f] = accepted[f]
      /\ accepted'[e] <= accepted[e] + 1
      /\ pc'[w] = "sent" => accepted'[e] = accepted[e] + 1
      /\ pc'[w] # "sent" =>
           accepted'[e] - mishaps'["lostAck"] = accepted[e] - mishaps["lostAck"]
      /\ mishaps'["lostAck"] >= mishaps["lostAck"]
      /\ \A f \in Emails : refused[f] => refused'[f]
      /\ pc'[w] = "fail" => refused'[e] \/ mem[w].attempts + 1 >= MaxAttempts
  BY AnswerEffect
<1>2. /\ e \in Emails
      /\ \A f \in Emails : accepted[f] \in Nat /\ accepted'[f] \in Nat
      /\ mishaps["lostAck"] \in Nat /\ mishaps'["lostAck"] \in Nat
  BY EmailTyped DEF TypeInv, TypeOK, Mishaps
<1>3. \A v \in Workers : Email(v)' = Email(v) /\ (HoldsClaim(v)' <=> HoldsClaim(v))
  BY <1>1 DEF OnlySlot, Email, HoldsClaim
<1>4. HoldsClaim(w) /\ status[e] = "PROCESSING" /\ accepted[e] <= mishaps["lostAck"]
  BY <1>1 DEF HoldsClaim, OwnsRow, DeliveryKept
<1>5. \A v \in Workers : v # w /\ HoldsClaim(v) => Email(v) # e
  BY <1>4 DEF ClaimExclusive
<1>6. \A v \in Workers : Email(v) \in Emails
  BY EmailTyped DEF TypeInv
<1> HIDE DEF e
<1>7. ClaimExclusive' /\ OwnsRow'
  BY <1>1, <1>3 DEF ClaimExclusive, OwnsRow
<1>8. NoDuplicate' /\ VerdictIsTrue'
  <2>1. accepted'[e] <= 1 + mishaps'["lostAck"]
    BY <1>1, <1>2, <1>4
  <2>2. \A f \in Emails : f # e => accepted'[f] <= 1 + mishaps'["lostAck"]
    BY <1>1, <1>2 DEF NoDuplicate
  <2>3. \A f \in Emails : f # e /\ status[f] = "FAILED" => accepted'[f] <= mishaps'["lostAck"]
    BY <1>1, <1>2 DEF VerdictIsTrue
  <2>4. \A f \in Emails : f # e /\ status[f] = "SENT" => accepted'[f] > 0
    BY <1>1, <1>2 DEF VerdictIsTrue
  <2>5. NoDuplicate'
    BY <2>1, <2>2 DEF NoDuplicate
  <2>6. VerdictIsTrue'
    BY <2>3, <2>4, <1>1, <1>4 DEF VerdictIsTrue
  <2> QED BY <2>5, <2>6
<1>9. DeliveryKept'
  <2>1. ASSUME NEW f \in Emails, status'[f] \in Claimable
        PROVE  accepted'[f] <= mishaps'["lostAck"]
    <3>1. f # e /\ accepted[f] <= mishaps["lostAck"]
      BY <2>1, <1>1, <1>4 DEF DeliveryKept, Claimable
    <3> QED BY <3>1, <1>1, <1>2
  <2>2. ASSUME NEW v \in Workers, v # w
        PROVE  /\ pc'[v] \in {"send", "retry", "fail"} =>
                    accepted'[Email(v)] <= mishaps'["lostAck"]
               /\ pc'[v] = "sent" => accepted'[Email(v)] > 0
    <3>1. pc'[v] = pc[v]
      BY <2>2, <1>1 DEF OnlySlot
    <3>2. HoldsClaim(v) => accepted'[Email(v)] = accepted[Email(v)]
      BY <2>2, <1>1, <1>5, <1>6
    <3>3. accepted[Email(v)] \in Nat
      BY <1>2, <1>6
    <3> QED BY <3>1, <3>2, <3>3, <1>1, <1>2 DEF DeliveryKept, HoldsClaim
  <2>3. pc'[w] = "sent" => accepted'[e] > 0
    BY <1>1, <1>2
  <2>4. pc'[w] # "sent" => accepted'[e] <= mishaps'["lostAck"]
    BY <1>1, <1>2, <1>4
  <2>5. pc'[w] # "send"
    BY <1>1
  <2> QED BY <2>1, <2>2, <2>3, <2>4, <2>5, <1>3 DEF DeliveryKept, e
<1>10. FailedForCause' /\ AttemptsKept'
  <2>1. FailedForCause'
    BY <1>1 DEF FailedForCause
  <2>2. ASSUME NEW v \in Workers, v # w
        PROVE  pc'[v] = pc[v] /\ mem'[v] = mem[v]
    BY <2>2, <1>1 DEF OnlySlot
  <2>3. mem'[w] = mem[w]
    BY <1>1 DEF OnlySlot
  <2>4. AttemptsKept'
    BY <1>1, <1>3, <1>4, <1>6, <2>2, <2>3 DEF AttemptsKept, e
  <2> QED BY <2>1, <2>4
<1>11. CompletedIsSettled' /\ CountKept'
  <2>1. \A v \in Workers : pc'[v] = "complete" => pc[v] = "complete"
    BY <1>1 DEF OnlySlot
  <2> QED BY <1>1, <1>3, <2>1 DEF CompletedIsSettled, CountKept, Remaining
<1> QED BY <1>7, <1>8, <1>9, <1>10, <1>11

\* The three results a slot writes while it holds the claim.
Write(w) == WriteSent(w) \/ WriteRetry(w) \/ WriteFailed(w)

LEMMA WriteEffect ==
  ASSUME TypeInv, NEW w \in Workers, Write(w)
  PROVE  LET e == Email(w) IN
         /\ OnlySlot(w) /\ HoldsClaim(w) /\ pc'[w] \in {"count", "throw"}
         /\ UNCHANGED <<attempts, accepted, refused, campaign, mishaps>>
         /\ \A f \in Emails : f # e => status'[f] = status[f]
         /\ \/ pc[w] = "sent" /\ status'[e] = "SENT"
            \/ pc[w] = "retry" /\ status'[e] = "SCHEDULED"
            \/ pc[w] = "fail" /\ status'[e] = "FAILED"
<1> DEFINE e == Email(w)
<1> USE DEF Goto, At, OnlySlot, HoldsClaim, TypeInv, TypeOK, env, history
<1>1. e \in Emails
  BY EmailTyped
<1> HIDE DEF e
<1>2. CASE WriteSent(w)
  BY <1>1, <1>2 DEF WriteSent, WriteResult, e
<1>3. CASE WriteRetry(w)
  BY <1>1, <1>3 DEF WriteRetry, WriteResult, e
<1>4. CASE WriteFailed(w)
  BY <1>1, <1>4 DEF WriteFailed, WriteResult, e
<1> QED BY <1>2, <1>3, <1>4 DEF Write, e

LEMMA WriteKeepsInv ==
  ASSUME TypeInv, TypeInv', IInv, NEW w \in Workers, Write(w)
  PROVE  IInv'
<1> DEFINE e == Email(w)
<1> USE DEF IInv
<1>1. /\ OnlySlot(w) /\ HoldsClaim(w) /\ pc'[w] \in {"count", "throw"}
      /\ UNCHANGED <<attempts, accepted, refused, campaign, mishaps>>
      /\ \A f \in Emails : f # e => status'[f] = status[f]
      /\ \/ pc[w] = "sent" /\ status'[e] = "SENT"
         \/ pc[w] = "retry" /\ status'[e] = "SCHEDULED"
         \/ pc[w] = "fail" /\ status'[e] = "FAILED"
  BY WriteEffect
<1>2. /\ \A v \in Workers : Email(v) \in Emails
      /\ attempts[e] \in Nat /\ mem[w].attempts \in Nat
  BY EmailTyped DEF TypeInv, TypeOK, Memory
<1>3. \A v \in Workers :
        /\ Email(v)' = Email(v) /\ mem'[v] = mem[v]
        /\ HoldsClaim(v)' => HoldsClaim(v) /\ Email(v) # e
        /\ pc'[v] \notin {"count", "throw"} => pc'[v] = pc[v]
  BY <1>1 DEF OnlySlot, Email, HoldsClaim, ClaimExclusive
<1>4. status[e] = "PROCESSING"
  BY <1>1 DEF OwnsRow
<1> HIDE DEF e
<1>5. ClaimExclusive' /\ OwnsRow'
  BY <1>1, <1>2, <1>3 DEF ClaimExclusive, OwnsRow
<1>6. NoDuplicate' /\ VerdictIsTrue'
  <2>1. pc[w] = "sent" => accepted[e] > 0
    BY DEF DeliveryKept, e
  <2>2. pc[w] = "fail" => accepted[e] <= mishaps["lostAck"]
    BY DEF DeliveryKept, e
  <2>3. NoDuplicate'
    BY <1>1 DEF NoDuplicate
  <2>4. VerdictIsTrue'
    BY <1>1, <2>1, <2>2 DEF VerdictIsTrue
  <2> QED BY <2>3, <2>4
<1>7. DeliveryKept'
  <2>1. pc[w] = "retry" => accepted[e] <= mishaps["lostAck"]
    BY DEF DeliveryKept, e
  <2>2. \A f \in Emails : status'[f] \in Claimable => accepted[f] <= mishaps["lostAck"]
    BY <1>1, <2>1 DEF DeliveryKept, Claimable
  <2> QED BY <1>1, <1>3, <2>2 DEF DeliveryKept
<1>8. FailedForCause' /\ AttemptsKept'
  <2>1. pc[w] = "fail" => refused[e] \/ attempts[e] >= MaxAttempts
    <3>1. HoldsClaim(w) => mem[w].attempts + 1 <= attempts[e]
      BY DEF AttemptsKept, e
    <3>2. pc[w] = "fail" => refused[e] \/ mem[w].attempts + 1 >= MaxAttempts
      BY DEF AttemptsKept, e
    <3> QED BY <3>1, <3>2, <1>1, <1>2, WorkerConfig
  <2>2. FailedForCause'
    BY <1>1, <2>1 DEF FailedForCause
  <2>3. AttemptsKept'
    BY <1>1, <1>3 DEF AttemptsKept
  <2> QED BY <2>2, <2>3
<1>9. CompletedIsSettled' /\ CountKept'
  <2>1. \A f \in Emails : status'[f] \in NonTerminal => status[f] \in NonTerminal
    BY <1>1, <1>4 DEF NonTerminal
  <2>2. \A c : Remaining(c) = {} => Remaining(c)' = {}
    BY <2>1, FewerRemaining
  <2> QED BY <1>1, <1>3, <2>2 DEF CompletedIsSettled, CountKept
<1> QED BY <1>5, <1>6, <1>7, <1>8, <1>9

\* maybeCompleteCampaign changes no email: a passed count stays true.
LEMMA CompletionKeepsInv ==
  ASSUME TypeInv, TypeInv', IInv, NEW w \in Workers,
         CountRemaining(w) \/ CompleteCampaign(w)
  PROVE  IInv'
<1> USE DEF IInv, Goto, At, TypeInv, TypeOK, env, rowVars, history
<1>1. /\ OnlySlot(w) /\ pc'[w] \in {"done", "complete"}
      /\ UNCHANGED <<status, attempts, accepted, refused, mishaps>>
  BY DEF CountRemaining, CompleteCampaign, OnlySlot
<1>2. \A v \in Workers :
        /\ Email(v)' = Email(v) /\ mem'[v] = mem[v]
        /\ HoldsClaim(v)' => HoldsClaim(v)
        /\ pc'[v] \notin {"done", "complete"} => pc'[v] = pc[v]
  BY <1>1 DEF OnlySlot, Email, HoldsClaim
<1>3. \A c : Remaining(c)' = Remaining(c)
  BY <1>1 DEF Remaining
<1>4. /\ ClaimExclusive' /\ OwnsRow' /\ NoDuplicate' /\ VerdictIsTrue'
      /\ DeliveryKept' /\ FailedForCause' /\ AttemptsKept'
  BY <1>1, <1>2
     DEF ClaimExclusive, OwnsRow, NoDuplicate, VerdictIsTrue, DeliveryKept,
         FailedForCause, AttemptsKept
<1>5. CASE CountRemaining(w)
  <2>1. pc'[w] = "complete" => Remaining(campaignOf[Email(w)]) = {}
    BY <1>5 DEF CountRemaining
  <2>2. \A v \in Workers : v # w => pc'[v] = pc[v]
    BY <1>1 DEF OnlySlot
  <2>3. CountKept'
    BY <2>1, <2>2, <1>2, <1>3 DEF CountKept
  <2>4. CompletedIsSettled'
    BY <1>5, <1>3 DEF CountRemaining, CompletedIsSettled
  <2> QED BY <1>4, <2>3, <2>4
<1>6. CASE CompleteCampaign(w)
  <2>1. Remaining(campaignOf[Email(w)]) = {} /\ pc'[w] = "done"
    BY <1>6 DEF CompleteCampaign, CountKept
  <2>2. \A c \in Campaigns : c # campaignOf[Email(w)] => campaign'[c] = campaign[c]
    BY <1>6 DEF CompleteCampaign
  <2>3. CompletedIsSettled'
    BY <2>1, <2>2, <1>3 DEF CompletedIsSettled
  <2>4. CountKept'
    <3>1. \A v \in Workers : pc'[v] = "complete" => pc[v] = "complete"
      BY <2>1, <1>1 DEF OnlySlot
    <3> QED BY <3>1, <1>2, <1>3 DEF CountKept
  <2> QED BY <1>4, <2>3, <2>4
<1> QED BY <1>5, <1>6

\* Every step is quiet or one of the above.
LEMMA StepCases ==
  ASSUME TypeInv, [Next]_vars
  PROVE  \/ Quiet
         \/ \E w \in Workers : \/ Claim(w) \/ Answer(w) \/ Write(w)
                               \/ CountRemaining(w) \/ CompleteCampaign(w)
BY QuietSlotStep, QuietOutsideStep DEF Next, Step, Answer, Write

LEMMA InvStep == TypeInv /\ TypeInv' /\ IInv /\ [Next]_vars => IInv'
BY StepCases, QuietKeepsInv, ClaimKeepsInv, AnswerKeepsInv, WriteKeepsInv,
   CompletionKeepsInv

LEMMA Invariants == Spec => []TypeInv /\ []IInv
<1>1. Spec => []TypeInv
  BY TypeInit, TypeStep, PTL DEF Spec
<1>2. Spec => []IInv
  BY <1>1, InvInit, InvStep, PTL DEF Spec
<1> QED BY <1>1, <1>2, PTL

\* However many slots, processes, crashes and redeliveries: one email is never
\* sent by two slots at the same time.
THEOREM OneSenderAtATime == Spec => []ClaimExclusive
<1>1. IInv => ClaimExclusive
  BY DEF IInv
<1> QED BY <1>1, Invariants, PTL

\* And it is accepted by SMTP once, plus at most once per answer that was lost.
THEOREM SentOnce == Spec => []NoDuplicate
<1>1. IInv => NoDuplicate
  BY DEF IInv
<1> QED BY <1>1, Invariants, PTL

\* SENT and FAILED say what SMTP did, and FAILED has a cause: a permanent
\* refusal, or as many attempts as the row allows.
THEOREM TrueVerdicts == Spec => [](VerdictIsTrue /\ FailedForCause)
<1>1. IInv => VerdictIsTrue /\ FailedForCause
  BY DEF IInv
<1> QED BY <1>1, Invariants, PTL

\* A campaign reported as complete has no email left to send.
THEOREM CompletionIsTrue == Spec => []CompletedIsSettled
<1>1. IInv => CompletedIsSettled
  BY DEF IInv
<1> QED BY <1>1, Invariants, PTL

\* No step changes a verdict: the writes by id meet only the owner's row.
THEOREM FinalVerdicts == Spec => VerdictIsFinal
<1>1. TypeInv /\ IInv /\ [Next]_vars =>
        [\A e \in Emails : status[e] \in {"SENT", "FAILED"} => status'[e] = status[e]]_vars
  <2> SUFFICES ASSUME TypeInv, IInv, [Next]_vars,
                      NEW e \in Emails, status[e] \in {"SENT", "FAILED"}
               PROVE  status'[e] = status[e]
    OBVIOUS
  <2> USE DEF TypeInv, TypeOK
  <2>1. CASE Quiet
    BY <2>1 DEF Quiet
  <2>2. ASSUME NEW w \in Workers, Claim(w) PROVE status'[e] = status[e]
    BY <2>2 DEF Claim, Claimable
  <2>3. ASSUME NEW w \in Workers, Answer(w) PROVE status'[e] = status[e]
    BY <2>3, AnswerEffect
  <2>4. ASSUME NEW w \in Workers, Write(w) PROVE status'[e] = status[e]
    BY <2>4, WriteEffect DEF IInv, OwnsRow
  <2>5. ASSUME NEW w \in Workers, CountRemaining(w) \/ CompleteCampaign(w)
        PROVE  status'[e] = status[e]
    BY <2>5 DEF CountRemaining, CompleteCampaign, rowVars
  <2> QED BY <2>1, <2>2, <2>3, <2>4, <2>5, StepCases
<1> QED BY <1>1, Invariants, PTL DEF Spec, VerdictIsFinal

-------------------------------------------------------------------------------
(***************************************************************************)
(* EmailWorker implements EmailDelivery where no answer of SMTP is lost.    *)
(* The statuses of a row are read as phases; only a claim, an acceptance, a *)
(* result and a completed campaign are seen, every other step stutters.     *)
(***************************************************************************)
NoneLost == mishaps["lostAck"] = 0

LEMMA NoneLostKept ==
  ASSUME MishapBound["lostAck"] = 0
  PROVE  Spec => []NoneLost
<1>1. Init => NoneLost
  BY DEF Init, Committed, NoneLost, Mishaps
<1>2. TypeInv /\ NoneLost /\ [Next]_vars => NoneLost'
  <2> SUFFICES ASSUME TypeInv, NoneLost, [Next]_vars PROVE NoneLost'
    OBVIOUS
  <2> USE DEF NoneLost
  <2>1. CASE Quiet
    BY <2>1 DEF Quiet
  <2>2. ASSUME NEW w \in Workers, Answer(w) PROVE NoneLost'
    <3>1. ~SendAckLost(w)
      BY DEF SendAckLost, Suffer
    <3> QED BY <2>2, <3>1 DEF Answer, SendAccepted, SendTransient, SendRefused, env
  <2>3. ASSUME NEW w \in Workers,
               Claim(w) \/ Write(w) \/ CountRemaining(w) \/ CompleteCampaign(w)
        PROVE  NoneLost'
    BY <2>3 DEF Claim, Write, WriteSent, WriteRetry, WriteFailed, WriteResult,
                CountRemaining, CompleteCampaign, env
  <2> QED BY <2>1, <2>2, <2>3, StepCases
<1> QED BY <1>1, <1>2, Invariants, PTL DEF Spec

LEMMA Phases ==
  /\ PhaseOf("SCHEDULED") = "waiting" /\ PhaseOf("QUEUED") = "waiting"
  /\ PhaseOf("PROCESSING") = "sending"
  /\ PhaseOf("SENT") = "sent"
  /\ PhaseOf("FAILED") = "failed" /\ PhaseOf("CANCELLED") = "failed"
BY DEF PhaseOf, Claimable

LEMMA DeliveryInit == Init => Delivery!Init
<1> SUFFICES ASSUME Init PROVE Delivery!Init
  OBVIOUS
<1>1. [e \in Emails |-> PhaseOf(status[e])] = [e \in Emails |-> "waiting"]
  BY Phases DEF Init, Committed
<1>2. [e \in Emails |-> accepted[e] > 0] = [e \in Emails |-> FALSE]
  <2>1. \A e \in Emails : (accepted[e] > 0) = FALSE
    BY DEF Init, Committed
  <2> QED BY <2>1, Zenon
<1>3. [c \in Campaigns |-> campaign[c] = "COMPLETED"] = [c \in Campaigns |-> FALSE]
  <2>1. \A c \in Campaigns : campaign[c] # "COMPLETED"
    BY DEF Init, Committed
  <2> QED BY <2>1, Zenon
<1> QED BY <1>1, <1>2, <1>3 DEF Init, Committed, Delivery!Init

\* A claim begins an attempt.
LEMMA ClaimAttempts ==
  ASSUME TypeInv, NEW w \in Workers, Claim(w)
  PROVE  Delivery!Next
<1> DEFINE e == Email(w)
<1>1. e \in Emails
  BY EmailTyped DEF TypeInv
<1>2. PhaseOf(status[e]) = "waiting"
  BY Phases DEF Claim, Claimable
<1>3. [f \in Emails |-> PhaseOf(status[f])]'
        = [[f \in Emails |-> PhaseOf(status[f])] EXCEPT ![e] = "sending"]
  BY <1>1, Phases DEF Claim, TypeInv, TypeOK
<1>4. Delivery!Attempt(e)
  BY <1>1, <1>2, <1>3 DEF Claim, Delivery!Attempt, Delivery!Move, history
<1> QED BY <1>1, <1>4 DEF Delivery!Next

\* An accepted message is the delivery: it was not delivered before.
LEMMA AnswerDelivers ==
  ASSUME TypeInv, IInv, NoneLost, NoneLost', NEW w \in Workers, Answer(w)
  PROVE  Delivery!Next \/ UNCHANGED Delivery!vars
<1>1. PICK e \in Emails : e = Email(w) /\ accepted[e] \in Nat
  BY EmailTyped DEF TypeInv, TypeOK
<1>2. CASE SendAccepted(w)
  <2>1. /\ pc[w] = "send" /\ accepted' = [accepted EXCEPT ![e] = @ + 1]
        /\ UNCHANGED <<status, attempts, campaign>>
    BY <1>1, <1>2 DEF SendAccepted, At, rowVars
  <2>2. status[e] = "PROCESSING" /\ accepted[e] = 0
    BY <2>1, <1>1 DEF IInv, OwnsRow, HoldsClaim, DeliveryKept, NoneLost
  <2>3. [f \in Emails |-> accepted[f] > 0]'
          = [[f \in Emails |-> accepted[f] > 0] EXCEPT ![e] = TRUE]
    <3>1. \A f \in Emails : f # e => accepted'[f] = accepted[f]
      BY <2>1, <1>1 DEF TypeInv, TypeOK
    <3>2. accepted'[e] > 0
      BY <2>1, <2>2, <1>1 DEF TypeInv, TypeOK
    <3> QED BY <3>1, <3>2, <1>1
  <2>4. [f \in Emails |-> PhaseOf(status[f])][e] = "sending"
    BY <1>1, <2>2, Phases
  <2>5. ~[f \in Emails |-> accepted[f] > 0][e]
    <3>1. ~(accepted[e] > 0)
      BY <2>2
    <3> QED BY <1>1, <3>1, Zenon
  <2>6. Delivery!Deliver(e)
    BY <2>1, <2>3, <2>4, <2>5 DEF Delivery!Deliver
  <2> QED BY <2>6 DEF Delivery!Next
<1>3. CASE SendTransient(w) \/ SendRefused(w)
  BY <1>3 DEF SendTransient, SendRefused, history, rowVars, Delivery!vars
<1>4. ~SendAckLost(w)
  <2> SUFFICES ASSUME SendAckLost(w) PROVE FALSE
    OBVIOUS
  <2>1. mishaps'["lostAck"] = mishaps["lostAck"] + 1 /\ mishaps["lostAck"] \in Nat
    BY DEF SendAckLost, Suffer, TypeInv, TypeOK, Mishaps
  <2> QED BY <2>1 DEF NoneLost
<1> QED BY <1>2, <1>3, <1>4 DEF Answer

\* A result ends the attempt the way it went.
LEMMA WriteEnds ==
  ASSUME TypeInv, IInv, NoneLost, NEW w \in Workers, Write(w)
  PROVE  Delivery!Next
<1> DEFINE e == Email(w)
           Becomes(p) == [f \in Emails |-> PhaseOf(status[f])]'
                           = [[f \in Emails |-> PhaseOf(status[f])] EXCEPT ![e] = p]
<1>1. e \in Emails /\ accepted[e] \in Nat
  BY EmailTyped DEF TypeInv, TypeOK
<1>2. /\ HoldsClaim(w)
      /\ UNCHANGED <<attempts, accepted, campaign>>
      /\ \A f \in Emails : f # e => status'[f] = status[f]
      /\ \/ pc[w] = "sent" /\ status'[e] = "SENT"
         \/ pc[w] = "retry" /\ status'[e] = "SCHEDULED"
         \/ pc[w] = "fail" /\ status'[e] = "FAILED"
  BY WriteEffect
<1>3. PhaseOf(status[e]) = "sending"
  BY <1>2, Phases DEF IInv, OwnsRow
<1>4. CASE pc[w] = "sent"
  <2>1. accepted[e] > 0
    BY <1>4 DEF IInv, DeliveryKept
  <2>2. Becomes("sent")
    BY <1>1, <1>2, <1>4, Phases
  <2>3. Delivery!Succeed(e)
    BY <1>1, <1>2, <1>3, <2>1, <2>2 DEF Delivery!Succeed, Delivery!Move
  <2> QED BY <1>1, <2>3 DEF Delivery!Next
<1>5. CASE pc[w] \in {"retry", "fail"}
  <2>1. ~(accepted[e] > 0)
    BY <1>1, <1>5 DEF IInv, DeliveryKept, NoneLost
  <2>2. Becomes("waiting") \/ Becomes("failed")
    BY <1>1, <1>2, <1>5, Phases
  <2>3. Delivery!Fall(e)
    BY <1>1, <1>2, <1>3, <2>1, <2>2 DEF Delivery!Fall, Delivery!Move
  <2> QED BY <1>1, <2>3 DEF Delivery!Next
<1> QED BY <1>2, <1>4, <1>5

\* A campaign is closed once its emails have their verdicts.
LEMMA CompletionCloses ==
  ASSUME TypeInv, IInv, NEW w \in Workers, CompleteCampaign(w)
  PROVE  Delivery!Next \/ UNCHANGED Delivery!vars
<1>1. PICK c \in Campaigns : c = campaignOf[Email(w)]
  BY EmailTyped, WorkerConfig DEF TypeInv
<1>2. /\ UNCHANGED <<status, attempts, accepted>>
      /\ campaign' = [campaign EXCEPT ![c] = IF @ = "SCHEDULED" THEN "COMPLETED" ELSE @]
  BY <1>1 DEF CompleteCampaign, rowVars, history
<1>3. CASE campaign[c] # "SCHEDULED"
  <2>1. campaign' = campaign
    BY <1>1, <1>2, <1>3 DEF TypeInv, TypeOK
  <2> QED BY <1>2, <2>1 DEF Delivery!vars
<1>4. CASE campaign[c] = "SCHEDULED"
  <2>1. \A e \in Emails : campaignOf[e] = c => PhaseOf(status[e]) \in {"sent", "failed"}
    <3>1. Remaining(c) = {}
      BY <1>1 DEF CompleteCampaign, At, IInv, CountKept
    <3> QED BY <3>1, Phases DEF Remaining, NonTerminal, TypeInv, TypeOK, Statuses
  <2>2. [d \in Campaigns |-> campaign[d] = "COMPLETED"]'
          = [[d \in Campaigns |-> campaign[d] = "COMPLETED"] EXCEPT ![c] = TRUE]
    BY <1>1, <1>2, <1>4 DEF TypeInv, TypeOK
  <2>3. Delivery!Close(c)
    BY <1>2, <2>1, <2>2 DEF Delivery!Close
  <2> QED BY <2>3 DEF Delivery!Next
<1> QED BY <1>3, <1>4

\* Where no answer is lost, the send path does what EmailDelivery promises,
\* with any number of crashes, redeliveries and rejected statements.
THEOREM WorkerDelivers ==
  ASSUME MishapBound["lostAck"] = 0
  PROVE  Spec => DeliverySpec
<1>1. TypeInv /\ IInv /\ NoneLost /\ NoneLost' /\ [Next]_vars
        => [Delivery!Next]_(Delivery!vars)
  <2> SUFFICES ASSUME TypeInv, IInv, NoneLost, NoneLost', [Next]_vars
               PROVE  Delivery!Next \/ UNCHANGED Delivery!vars
    OBVIOUS
  <2>1. CASE Quiet
    BY <2>1 DEF Quiet, Delivery!vars
  <2>2. ASSUME NEW w \in Workers, CountRemaining(w)
        PROVE  UNCHANGED Delivery!vars
    BY <2>2 DEF CountRemaining, rowVars, history, Delivery!vars
  <2> QED BY <2>1, <2>2, StepCases, ClaimAttempts, AnswerDelivers, WriteEnds,
             CompletionCloses
<1> QED BY <1>1, DeliveryInit, Invariants, NoneLostKept, PTL
        DEF Spec, DeliverySpec, Delivery!Spec

-----------------------------------------------------------------------------
(* Rows and queue entries together: while nothing fails but SMTP, a row    *)
(* without a verdict has exactly one live entry.                           *)

\* No crash, lost lock or rejected statement so far.
Calm == \A m \in Mishaps \ {"lostAck"} : mishaps[m] = 0

BeforeClaim == {"load", "admit", "deferAdd", "claim"}
Claims == {"send", "sent", "retry", "fail"}

\* The slot's job has not been replaced by a child and is not over.
Working(w) == pc[w] \notin {"idle", "deferSave", "done"}

\* The entry will run, or is being worked on.
Live(id) == queue[id].state = "pending" \/ \E w \in Workers : cur[w] = id /\ Working(w)

SlotOk(w) ==
  pc[w] # "idle" =>
    /\ queue[cur[w]].state = "active" /\ queue[cur[w]].holder = w
    /\ mem[w].deferrals = cur[w][2]
    /\ pc[w] # "refund"
    /\ pc[w] \in BeforeClaim \cup {"throw"} => status[Email(w)] \in Claimable
    /\ pc[w] \in Claims =>
         /\ status[Email(w)] = "PROCESSING"
         /\ attempts[Email(w)] = mem[w].attempts + 1
    /\ pc[w] \in {"count", "complete"} => status[Email(w)] \notin NonTerminal
    /\ pc[w] \in {"admit", "claim"} => mem[w].attempts = attempts[Email(w)]
    /\ pc[w] = "retry" => attempts[Email(w)] < MaxAttempts
    /\ pc[w] \in BeforeClaim => queue[cur[w]].tries <= attempts[Email(w)]
    /\ pc[w] \in Claims \cup {"throw"} => queue[cur[w]].tries + 1 <= attempts[Email(w)]

\* A lock is held by the slot that works on the entry, and a live entry is the
\* last of its email.
LastOf(id) == \A j \in JobIds : j[1] = id[1] /\ j[2] > id[2] => queue[j].state = "none"

EntryOk(id) ==
  /\ queue[id].state = "active" =>
       /\ queue[id].holder \in Workers
       /\ pc[queue[id].holder] # "idle" /\ cur[queue[id].holder] = id
  /\ queue[id].state # "none" => queue[id].deferrals = id[2]
  /\ queue[id].state = "pending" =>
       status[id[1]] \in Claimable /\ queue[id].tries <= attempts[id[1]]
  /\ Live(id) => LastOf(id)

RowOk(e) ==
  /\ attempts[e] <= MaxAttempts
  /\ status[e] \in Claimable => attempts[e] < MaxAttempts
  /\ status[e] \in NonTerminal => \E id \in JobIds : id[1] = e /\ Live(id)

CalmInv ==
  /\ \A w \in Workers : SlotOk(w)
  /\ \A id \in JobIds : EntryOk(id)
  /\ \A e \in Emails : RowOk(e)

LEMMA IdTyped ==
  ASSUME NEW id \in JobIds
  PROVE  id[1] \in Emails /\ id[2] \in 0..MaxDeferrals /\ id = <<id[1], id[2]>>
BY DEF JobIds

LEMMA CalmInit ==
  ASSUME Init
  PROVE  CalmInv
<1>1. \A w \in Workers : pc[w] = "idle"
  BY DEF Init, Committed
<1>2. \A id \in JobIds : queue[id] = IF id[2] = 0 THEN Fresh(0, 0) ELSE NoEntry
  BY DEF Init
<1>3. /\ Fresh(0, 0).state = "pending" /\ Fresh(0, 0).tries = 0 /\ Fresh(0, 0).deferrals = 0
      /\ NoEntry.state = "none"
  BY DEF Fresh, NoEntry
<1>4. \A e \in Emails : status[e] = "SCHEDULED" /\ attempts[e] = 0
  BY DEF Init, Committed
<1>5. ASSUME NEW id \in JobIds PROVE EntryOk(id)
  <2>1. id[1] \in Emails /\ id[2] \in 0..MaxDeferrals
    BY IdTyped
  <2>2. \A w \in Workers : ~Working(w)
    BY <1>1 DEF Working
  <2>3. CASE id[2] = 0
    <3>1. LastOf(id)
      <4> SUFFICES ASSUME NEW j \in JobIds, j[2] > id[2] PROVE queue[j].state = "none"
        BY DEF LastOf
      <4> QED BY <1>2, <1>3, <2>3, IdTyped
    <3> QED
      BY <1>2, <1>3, <1>4, <2>1, <2>3, <3>1 DEF EntryOk, Claimable
  <2>4. CASE id[2] # 0
    BY <1>2, <1>3, <2>2, <2>4 DEF EntryOk, Live
  <2> QED
    BY <2>3, <2>4
<1>6. ASSUME NEW e \in Emails PROVE RowOk(e)
  <2>1. <<e, 0>> \in JobIds
    BY QueueConfig DEF JobIds
  <2>2. Live(<<e, 0>>)
    BY <1>2, <1>3, <2>1 DEF Live
  <2> QED
    BY <1>4, <2>1, <2>2, WorkerConfig DEF RowOk
<1> QED
  BY <1>1, <1>5, <1>6 DEF CalmInv, SlotOk

\* Nobody else works on the email of a working slot, and no entry of it waits.
LEMMA Alone ==
  ASSUME TypeOK, CalmInv, NEW w \in Workers, Working(w)
  PROVE  /\ \A v \in Workers : v # w /\ Email(v) = Email(w) => ~Working(v)
         /\ \A id \in JobIds : id[1] = Email(w) => queue[id].state # "pending"
         /\ \A id \in JobIds : id[1] = Email(w) /\ id # cur[w] => ~Live(id)
<1>1. /\ cur[w] \in JobIds /\ cur[w][1] = Email(w) /\ Live(cur[w])
      /\ queue[cur[w]].state = "active" /\ queue[cur[w]].holder = w
  BY DEF TypeOK, Email, Live, Working, CalmInv, SlotOk
<1>2. ASSUME NEW id \in JobIds, id[1] = Email(w), Live(id)
      PROVE  id = cur[w] /\ queue[id].state = "active"
  <2>1. queue[id].state # "none"
    BY <1>2 DEF Live, Working, CalmInv, SlotOk
  <2>2. LastOf(id) /\ LastOf(cur[w])
    BY <1>1, <1>2 DEF CalmInv, EntryOk
  <2>3. ~(id[2] > cur[w][2]) /\ ~(cur[w][2] > id[2])
    BY <1>1, <1>2, <2>1, <2>2 DEF LastOf
  <2>4. id[2] \in Nat /\ cur[w][2] \in Nat /\ id = <<id[1], id[2]>> /\ cur[w] = <<cur[w][1], cur[w][2]>>
    BY <1>1, IdTyped
  <2>5. id[2] = cur[w][2]
    BY <2>3, <2>4
  <2> QED
    BY <1>1, <1>2, <2>4, <2>5
<1>3. ASSUME NEW v \in Workers, Email(v) = Email(w), Working(v)
      PROVE  v = w
  <2>1. cur[v] \in JobIds /\ cur[v][1] = Email(w) /\ Live(cur[v]) /\ queue[cur[v]].holder = v
    BY <1>3 DEF TypeOK, Email, Live, Working, CalmInv, SlotOk
  <2> QED
    BY <1>1, <1>2, <2>1
<1>4. ASSUME NEW id \in JobIds, id[1] = Email(w), queue[id].state = "pending"
      PROVE  FALSE
  BY <1>1, <1>2, <1>4 DEF Live
<1> QED
  BY <1>2, <1>3, <1>4

-------------------------------------------------------------------------------
\* A step of one slot that leaves the queue alone and keeps its job.
OneSlotMoves(w) ==
  /\ UNCHANGED <<queue, cur>>
  /\ \A v \in Workers : v # w => pc'[v] = pc[v] /\ mem'[v] = mem[v]
  /\ pc[w] # "idle" /\ pc'[w] # "idle"

\* ... and the rows, or goes on working on the row it writes.
LEMMA SlotStaysCalm ==
  ASSUME TypeOK, CalmInv, NEW w \in Workers, OneSlotMoves(w), SlotOk(w)',
         UNCHANGED <<status, attempts>>,
         Working(w)' => Working(w),
         Working(w) /\ ~Working(w)' => status[Email(w)] \notin NonTerminal
  PROVE  CalmInv'
<1>1. \A v \in Workers : Email(v)' = Email(v)
  BY DEF OneSlotMoves, Email
<1>2. \A v \in Workers : v # w => Working(v)' = Working(v)
  BY DEF OneSlotMoves, Working
<1>3. ASSUME NEW v \in Workers, v # w PROVE SlotOk(v)'
  BY <1>1, <1>3 DEF CalmInv, SlotOk, OneSlotMoves
<1>4. \A id \in JobIds : Live(id)' => Live(id)
  BY <1>2 DEF Live, OneSlotMoves
<1>5. ASSUME NEW id \in JobIds PROVE EntryOk(id)'
  <2>1. EntryOk(id)
    BY DEF CalmInv
  <2>2. \A v \in Workers : pc[v] # "idle" => pc'[v] # "idle"
    BY DEF OneSlotMoves
  <2>3. LastOf(id)' = LastOf(id)
    BY DEF LastOf, OneSlotMoves
  <2> QED
    BY <1>4, <2>1, <2>2, <2>3 DEF EntryOk, OneSlotMoves
<1>6. ASSUME NEW e \in Emails PROVE RowOk(e)'
  <2>1. RowOk(e)
    BY DEF CalmInv
  <2>2. ASSUME status[e] \in NonTerminal
        PROVE  \E id \in JobIds : id[1] = e /\ Live(id)'
    <3>1. PICK id \in JobIds : id[1] = e /\ Live(id)
      BY <2>1, <2>2 DEF RowOk
    <3>2. CASE queue[id].state = "pending"
      BY <3>1, <3>2 DEF Live, OneSlotMoves
    <3>3. CASE \E v \in Workers : cur[v] = id /\ Working(v)
      <4>1. PICK v \in Workers : cur[v] = id /\ Working(v)
        BY <3>3
      <4>2. v = w => Email(w) = e
        BY <3>1, <4>1 DEF Email
      <4>3. Working(v)'
        BY <1>2, <2>2, <4>1, <4>2
      <4> QED
        BY <3>1, <4>1, <4>3 DEF Live, OneSlotMoves
    <3> QED
      BY <3>1, <3>2, <3>3 DEF Live
  <2> QED
    BY <2>1, <2>2 DEF RowOk
<1> QED
  BY <1>3, <1>5, <1>6 DEF CalmInv

LEMMA RowWritten ==
  ASSUME TypeOK, CalmInv, NEW w \in Workers, OneSlotMoves(w), SlotOk(w)',
         Working(w), Working(w)',
         \A e \in Emails : e # Email(w) => status'[e] = status[e] /\ attempts'[e] = attempts[e],
         attempts'[Email(w)] <= MaxAttempts,
         status'[Email(w)] \in Claimable => attempts'[Email(w)] < MaxAttempts
  PROVE  CalmInv'
<1>0. /\ \A v \in Workers : v # w /\ Email(v) = Email(w) => ~Working(v)
      /\ \A id \in JobIds : id[1] = Email(w) => queue[id].state # "pending"
  BY Alone
<1>1. \A v \in Workers : Email(v)' = Email(v) /\ Email(v) \in Emails
  BY EmailTyped DEF OneSlotMoves, Email
<1>2. \A v \in Workers : Working(v)' = Working(v)
  BY DEF OneSlotMoves, Working
<1>3. ASSUME NEW v \in Workers, v # w PROVE SlotOk(v)'
  <2>1. SlotOk(v) /\ pc'[v] = pc[v] /\ mem'[v] = mem[v] /\ UNCHANGED <<queue, cur>>
    BY <1>3 DEF CalmInv, OneSlotMoves
  <2>2. CASE Email(v) = Email(w)
    <3>1. pc[v] \in {"idle", "deferSave", "done"}
      BY <1>0, <1>3, <2>2 DEF Working
    <3> QED
      BY <2>1, <3>1 DEF SlotOk, BeforeClaim, Claims
  <2>3. CASE Email(v) # Email(w)
    BY <1>1, <2>1, <2>3 DEF SlotOk
  <2> QED
    BY <2>2, <2>3
<1>4. \A id \in JobIds : Live(id)' = Live(id)
  BY <1>2 DEF Live, OneSlotMoves
<1>5. ASSUME NEW id \in JobIds PROVE EntryOk(id)'
  <2>1. EntryOk(id) /\ id[1] \in Emails
    BY IdTyped DEF CalmInv
  <2>2. \A v \in Workers : pc[v] # "idle" => pc'[v] # "idle"
    BY DEF OneSlotMoves
  <2>3. LastOf(id)' = LastOf(id)
    BY DEF LastOf, OneSlotMoves
  <2> QED
    BY <1>0, <1>4, <2>1, <2>2, <2>3 DEF EntryOk, OneSlotMoves
<1>6. ASSUME NEW e \in Emails PROVE RowOk(e)'
  <2>1. RowOk(e)
    BY DEF CalmInv
  <2>2. CASE e = Email(w)
    <3>1. \E id \in JobIds : id[1] = e /\ Live(id)'
      BY <1>4, <2>2 DEF TypeOK, Email, Live
    <3> QED
      BY <2>2, <3>1 DEF RowOk
  <2>3. CASE e # Email(w)
    BY <1>4, <2>1, <2>3 DEF RowOk
  <2> QED
    BY <2>2, <2>3
<1> QED
  BY <1>3, <1>5, <1>6 DEF CalmInv

-------------------------------------------------------------------------------
\* The steps of a slot, one lemma for each effect on rows and entries.
LEMMA EntriesTyped ==
  ASSUME TypeInv, NEW w \in Workers
  PROVE  /\ cur[w] \in JobIds /\ Email(w) \in Emails /\ Email(w) = cur[w][1]
         /\ mem[w] \in Memory /\ mem[w].attempts \in Nat
         /\ queue[cur[w]] \in Entry /\ queue[cur[w]].tries \in Nat
         /\ attempts[Email(w)] \in Nat
BY EmailTyped DEF TypeInv, TypeOK, Email, Memory, Entry

LEMMA MovesKeepCalm ==
  ASSUME TypeInv, CalmInv, NEW w \in Workers,
         \/ Load(w) \/ Admit(w) \/ Blocked(w) \/ SaveDeferral(w)
         \/ SendAccepted(w) \/ SendTransient(w) \/ SendAckLost(w) \/ SendRefused(w)
         \/ CountRemaining(w) \/ CompleteCampaign(w)
  PROVE  CalmInv'
<1>0. TypeOK /\ SlotOk(w)
  BY DEF TypeInv, CalmInv
<1> USE EntriesTyped
<1>1. /\ pc \in [Workers -> Labels] /\ mem \in [Workers -> Memory]
  BY <1>0 DEF TypeOK
<1>2. CASE Load(w)
  <2>1. /\ pc[w] = "load" /\ pc'[w] = "admit"
        /\ mem'[w].attempts = attempts[Email(w)] /\ mem'[w].deferrals = mem[w].deferrals
        /\ UNCHANGED <<queue, cur, status, attempts>>
        /\ \A v \in Workers : v # w => pc'[v] = pc[v] /\ mem'[v] = mem[v]
    BY <1>1, <1>2 DEF Load, At, Goto, rowVars, Memory
  <2>2. SlotOk(w)' /\ OneSlotMoves(w)
    BY <1>0, <2>1 DEF SlotOk, OneSlotMoves, Email, BeforeClaim, Claims
  <2> QED
    BY <1>0, <2>1, <2>2, SlotStaysCalm DEF Working
<1>3. CASE Admit(w) \/ Blocked(w) \/ SaveDeferral(w)
  <2>1. /\ \/ pc[w] = "admit" /\ pc'[w] \in {"claim", "deferAdd"}
           \/ pc[w] = "deferSave" /\ pc'[w] = "done"
        /\ mem'[w].attempts = mem[w].attempts /\ mem'[w].deferrals = mem[w].deferrals
        /\ UNCHANGED <<queue, cur, status, attempts>>
        /\ \A v \in Workers : v # w => pc'[v] = pc[v] /\ mem'[v] = mem[v]
    BY <1>1, <1>3 DEF Admit, Blocked, SaveDeferral, At, Goto, rowVars, Memory
  <2>2. SlotOk(w)' /\ OneSlotMoves(w)
    BY <1>0, <2>1 DEF SlotOk, OneSlotMoves, Email, BeforeClaim, Claims
  <2> QED
    BY <1>0, <2>1, <2>2, SlotStaysCalm DEF Working
<1>4. CASE SendAccepted(w) \/ SendTransient(w) \/ SendAckLost(w) \/ SendRefused(w)
  <2>1. /\ pc[w] = "send" /\ pc'[w] \in {"sent", "retry", "fail"}
        /\ pc'[w] = "retry" => mem[w].attempts + 1 < MaxAttempts
        /\ UNCHANGED <<queue, cur, mem, status, attempts>>
        /\ \A v \in Workers : v # w => pc'[v] = pc[v] /\ mem'[v] = mem[v]
    BY <1>1, <1>4 DEF SendAccepted, SendTransient, SendAckLost, SendRefused, AfterTransient,
                      At, Goto, rowVars, history
  <2>2. SlotOk(w)' /\ OneSlotMoves(w)
    BY <1>0, <2>1 DEF SlotOk, OneSlotMoves, Email, BeforeClaim, Claims
  <2> QED
    BY <1>0, <2>1, <2>2, SlotStaysCalm DEF Working
<1>5. CASE CountRemaining(w) \/ CompleteCampaign(w)
  <2>1. /\ pc[w] \in {"count", "complete"} /\ pc'[w] \in {"complete", "done"}
        /\ UNCHANGED <<queue, cur, mem, status, attempts>>
        /\ \A v \in Workers : v # w => pc'[v] = pc[v] /\ mem'[v] = mem[v]
    BY <1>1, <1>5 DEF CountRemaining, CompleteCampaign, At, Goto, rowVars
  <2>2. SlotOk(w)' /\ OneSlotMoves(w)
    BY <1>0, <2>1 DEF SlotOk, OneSlotMoves, Email, BeforeClaim, Claims
  <2>3. status[Email(w)] \notin NonTerminal
    BY <1>0, <2>1 DEF SlotOk
  <2> QED
    BY <1>0, <2>1, <2>2, <2>3, SlotStaysCalm DEF Working
<1> QED
  BY <1>2, <1>3, <1>4, <1>5

LEMMA WritesKeepCalm ==
  ASSUME TypeInv, CalmInv, NEW w \in Workers,
         Claim(w) \/ WriteSent(w) \/ WriteRetry(w) \/ WriteFailed(w)
  PROVE  CalmInv'
<1>0. TypeOK /\ SlotOk(w) /\ RowOk(Email(w))
  BY EntriesTyped DEF TypeInv, CalmInv
<1> USE EntriesTyped
<1>1. /\ pc \in [Workers -> Labels] /\ mem \in [Workers -> Memory]
      /\ status \in [Emails -> Statuses] /\ attempts \in [Emails -> Nat]
  BY <1>0 DEF TypeOK
<1>2. CASE Claim(w)
  <2>1. /\ pc[w] = "claim" /\ pc'[w] = "send"
        /\ status[Email(w)] \in Claimable /\ status'[Email(w)] = "PROCESSING"
        /\ attempts'[Email(w)] = attempts[Email(w)] + 1
        /\ \A e \in Emails : e # Email(w) => status'[e] = status[e] /\ attempts'[e] = attempts[e]
        /\ UNCHANGED <<queue, cur, mem>>
        /\ \A v \in Workers : v # w => pc'[v] = pc[v] /\ mem'[v] = mem[v]
    BY <1>1, <1>2 DEF Claim, At, Goto
  <2>2. SlotOk(w)' /\ OneSlotMoves(w)
    BY <1>0, <2>1 DEF SlotOk, OneSlotMoves, Email, BeforeClaim, Claims
  <2>3. attempts'[Email(w)] <= MaxAttempts /\ status'[Email(w)] \notin Claimable
    BY <1>0, <2>1, WorkerConfig DEF RowOk, Claimable
  <2> QED
    BY <1>0, <2>1, <2>2, <2>3, RowWritten DEF Working
<1>3. CASE WriteSent(w) \/ WriteRetry(w) \/ WriteFailed(w)
  <2>1. /\ \/ pc[w] = "sent" /\ pc'[w] = "count" /\ status'[Email(w)] = "SENT"
           \/ pc[w] = "retry" /\ pc'[w] = "throw" /\ status'[Email(w)] = "SCHEDULED"
           \/ pc[w] = "fail" /\ pc'[w] = "count" /\ status'[Email(w)] = "FAILED"
        /\ \A e \in Emails : e # Email(w) => status'[e] = status[e]
        /\ UNCHANGED <<queue, cur, mem, attempts>>
        /\ \A v \in Workers : v # w => pc'[v] = pc[v] /\ mem'[v] = mem[v]
    BY <1>1, <1>3 DEF WriteSent, WriteRetry, WriteFailed, WriteResult, At, Goto
  <2>2. SlotOk(w)' /\ OneSlotMoves(w)
    BY <1>0, <2>1 DEF SlotOk, OneSlotMoves, Email, BeforeClaim, Claims, Claimable, NonTerminal
  <2>3. /\ attempts'[Email(w)] <= MaxAttempts
        /\ status'[Email(w)] \in Claimable => attempts'[Email(w)] < MaxAttempts
    BY <1>0, <2>1 DEF RowOk, SlotOk, Claimable
  <2> QED
    BY <1>0, <2>1, <2>2, <2>3, RowWritten DEF Working
<1> QED
  BY <1>2, <1>3

-------------------------------------------------------------------------------
\* The steps that change the queue: one entry does, and one slot.
OneEntryMoves(w, id) ==
  /\ UNCHANGED <<status, attempts>>
  /\ \A v \in Workers : v # w => pc'[v] = pc[v] /\ mem'[v] = mem[v] /\ cur'[v] = cur[v]
  /\ \A j \in JobIds : j # id => queue'[j] = queue[j]

\* What remains to show of such a step, if the entry was nobody else's.
LEMMA EntryStaysCalm ==
  ASSUME TypeOK, CalmInv, NEW w \in Workers, NEW id \in JobIds, OneEntryMoves(w, id),
         \A v \in Workers : v # w /\ pc[v] # "idle" => cur[v] # id,
         \A j \in JobIds : j # id /\ queue[j].state = "active" =>
            queue[j].holder # w \/ (cur'[w] = j /\ pc'[w] # "idle"),
         SlotOk(w)', EntryOk(id)',
         \A j \in JobIds : j # id /\ Live(j)' => Live(j) /\ (j[1] = id[1] /\ j[2] < id[2] => queue'[id].state = "none"),
         \A j \in JobIds : Live(j) => \E k \in JobIds : k[1] = j[1] /\ Live(k)'
  PROVE  CalmInv'
<1>1. ASSUME NEW v \in Workers, v # w PROVE SlotOk(v)'
  <2>1. SlotOk(v) /\ cur[v] \in JobIds
    BY DEF CalmInv, TypeOK
  <2>2. /\ pc'[v] = pc[v] /\ mem'[v] = mem[v] /\ cur'[v] = cur[v]
        /\ pc[v] # "idle" => queue'[cur[v]] = queue[cur[v]]
    BY <1>1, <2>1 DEF OneEntryMoves
  <2> QED
    BY <2>1, <2>2 DEF SlotOk, Email, OneEntryMoves
<1>2. ASSUME NEW j \in JobIds, j # id PROVE EntryOk(j)'
  <2>1. EntryOk(j) /\ queue'[j] = queue[j]
    BY <1>2 DEF CalmInv, OneEntryMoves
  <2>2. queue[j].state = "active" =>
          pc'[queue[j].holder] # "idle" /\ cur'[queue[j].holder] = j
    BY <1>2, <2>1 DEF EntryOk, OneEntryMoves
  <2>3. Live(j)' => LastOf(j)'
    <3> SUFFICES ASSUME Live(j)', NEW k \in JobIds, k[1] = j[1], k[2] > j[2]
                 PROVE  queue'[k].state = "none"
      BY DEF LastOf
    <3>1. Live(j) /\ LastOf(j)
      BY <1>2, <2>1 DEF EntryOk
    <3>2. CASE k = id
      <4>1. k[2] \in Nat /\ j[2] \in Nat
        BY IdTyped
      <4> QED
        BY <1>2, <3>2, <4>1
    <3>3. CASE k # id
      BY <3>1, <3>3 DEF LastOf, OneEntryMoves
    <3> QED
      BY <3>2, <3>3
  <2> QED
    BY <2>1, <2>2, <2>3 DEF EntryOk, OneEntryMoves
<1>3. ASSUME NEW e \in Emails PROVE RowOk(e)'
  <2>1. RowOk(e)
    BY DEF CalmInv
  <2>2. ASSUME NEW j \in JobIds, j[1] = e, Live(j)
        PROVE  \E k \in JobIds : k[1] = e /\ Live(k)'
    BY <2>2
  <2> QED
    BY <2>1, <2>2 DEF RowOk, OneEntryMoves
<1> QED
  BY <1>1, <1>2, <1>3 DEF CalmInv

LEMMA TakeJobKeepsCalm ==
  ASSUME TypeInv, CalmInv, NEW w \in Workers, NEW id \in JobIds, TakeJob(w, id)
  PROVE  CalmInv'
<1>0. TypeOK /\ EntryOk(id)
  BY DEF TypeInv, CalmInv
<1>t. /\ pc \in [Workers -> Labels] /\ mem \in [Workers -> Memory] /\ cur \in [Workers -> JobIds]
      /\ queue \in [JobIds -> Entry]
  BY <1>0 DEF TypeOK
<1>1. /\ pc[w] = "idle" /\ pc'[w] = "load" /\ cur'[w] = id
      /\ mem'[w].deferrals = queue[id].deferrals
      /\ queue[id].state = "pending"
      /\ queue'[id].state = "active" /\ queue'[id].holder = w
      /\ queue'[id].deferrals = queue[id].deferrals /\ queue'[id].tries = queue[id].tries
  BY <1>t DEF TakeJob, At, Goto, StartJob, Memory, Entry
<1>2. OneEntryMoves(w, id)
  BY <1>t DEF OneEntryMoves, TakeJob, Goto, StartJob, rowVars
<1>3. \A v \in Workers : v # w /\ pc[v] # "idle" => cur[v] # id
  BY <1>1 DEF CalmInv, SlotOk
<1>4. \A j \in JobIds : queue[j].state = "active" => queue[j].holder # w
  BY <1>1 DEF CalmInv, EntryOk
<1>5. SlotOk(w)'
  BY <1>0, <1>1, <1>2 DEF SlotOk, EntryOk, Email, OneEntryMoves, BeforeClaim, Claims
<1>6. \A v \in Workers : v # w => Working(v)' = Working(v)
  BY <1>2 DEF OneEntryMoves, Working
<1>7. Live(id) /\ Live(id)' /\ ~Working(w)
  BY <1>1 DEF Live, Working
<1>8. \A j \in JobIds : j # id => Live(j)' = Live(j)
  BY <1>1, <1>2, <1>6, <1>7 DEF Live, OneEntryMoves
<1>9. \A j \in JobIds : j # id /\ Live(j) => ~(j[1] = id[1] /\ j[2] < id[2])
  <2> SUFFICES ASSUME NEW j \in JobIds, Live(j), j[1] = id[1], j[2] < id[2] PROVE FALSE
    OBVIOUS
  <2>1. LastOf(j) /\ id[2] > j[2]
    BY IdTyped DEF CalmInv, EntryOk
  <2> QED
    BY <1>1, <2>1 DEF LastOf
<1>10. EntryOk(id)'
  <2>1. \A j \in JobIds : queue[j].state = "none" => queue'[j].state = "none"
    BY <1>1, <1>2 DEF OneEntryMoves
  <2>2. LastOf(id)'
    BY <1>0, <1>7, <2>1 DEF EntryOk, LastOf
  <2> QED
    BY <1>0, <1>1, <2>2 DEF EntryOk
<1> QED
  BY <1>0, <1>2, <1>3, <1>4, <1>5, <1>7, <1>8, <1>9, <1>10, EntryStaysCalm

LEMMA AddChildKeepsCalm ==
  ASSUME TypeInv, CalmInv, NEW w \in Workers, AddChild(w)
  PROVE  CalmInv'
<1> DEFINE n == mem[w].deferrals + 1
<1>p. PICK id : id = <<Email(w), n>>
  OBVIOUS
<1>0. TypeOK /\ SlotOk(w)
  BY DEF TypeInv, CalmInv
<1> USE EntriesTyped
<1>t. /\ pc \in [Workers -> Labels] /\ cur \in [Workers -> JobIds]
      /\ queue \in [JobIds -> Entry]
  BY <1>0 DEF TypeOK
<1>1. pc[w] = "deferAdd" /\ pc'[w] = "deferSave" /\ n <= MaxDeferrals
  BY <1>t DEF AddChild, At, Goto
<1>2. /\ mem[w].deferrals \in Nat /\ mem[w].deferrals = cur[w][2] /\ id \in JobIds
      /\ id[1] = Email(w) /\ id[2] = cur[w][2] + 1
  BY <1>0, <1>1, <1>p, QueueConfig DEF SlotOk, Memory, JobIds
<1>3. Working(w) /\ ~Working(w)' /\ Live(cur[w]) /\ LastOf(cur[w])
  BY <1>1 DEF Working, Live, CalmInv, EntryOk
<1>4. queue[id].state = "none"
  BY <1>2, <1>3 DEF LastOf
<1>5. /\ \A v \in Workers : v # w /\ Email(v) = Email(w) => ~Working(v)
      /\ \A j \in JobIds : j[1] = Email(w) => queue[j].state # "pending"
      /\ \A j \in JobIds : j[1] = Email(w) /\ j # cur[w] => ~Live(j)
  BY <1>0, <1>3, Alone
<1>6. queue' = [queue EXCEPT ![id] = Fresh(n, mem[w].due)]
  BY <1>4, <1>p DEF AddChild, AddEmailJob
<1>7. OneEntryMoves(w, id) /\ UNCHANGED <<cur, mem>>
  BY <1>2, <1>6, <1>t DEF OneEntryMoves, AddChild, Goto, rowVars
<1>8. /\ queue'[id].state = "pending" /\ queue'[id].tries = 0 /\ queue'[id].deferrals = id[2]
  BY <1>2, <1>6, <1>p, <1>t DEF Fresh, NoEntry
<1>9. \A v \in Workers : pc[v] # "idle" => cur[v] # id
  BY <1>4 DEF CalmInv, SlotOk
<1>10. SlotOk(w)'
  <2>1. queue'[cur[w]] = queue[cur[w]]
    BY <1>1, <1>7, <1>9 DEF OneEntryMoves
  <2> QED
    BY <1>0, <1>1, <1>7, <2>1 DEF SlotOk, Email, BeforeClaim, Claims
<1>11. \A v \in Workers : v # w => Working(v)' = Working(v)
  BY <1>7 DEF OneEntryMoves, Working
<1>12. \A j \in JobIds : j # id /\ Live(j)' => Live(j) /\ j[1] # Email(w)
  <2> SUFFICES ASSUME NEW j \in JobIds, j # id, Live(j)' PROVE Live(j) /\ j[1] # Email(w)
    OBVIOUS
  <2>1. queue'[j] = queue[j]
    BY <1>7 DEF OneEntryMoves
  <2>2. CASE queue'[j].state = "pending"
    BY <1>5, <2>1, <2>2 DEF Live
  <2>3. CASE \E v \in Workers : cur[v] = j /\ Working(v)'
    <3>1. PICK v \in Workers : cur[v] = j /\ Working(v)'
      BY <2>3
    <3>2. v # w /\ Working(v)
      BY <1>3, <1>11, <3>1
    <3> QED
      BY <1>5, <3>1, <3>2 DEF Live, Email
  <2> QED
    BY <1>7, <2>2, <2>3 DEF Live
<1>13. Live(id)'
  BY <1>8 DEF Live
<1>14. \A j \in JobIds : Live(j) => \E k \in JobIds : k[1] = j[1] /\ Live(k)'
  <2> SUFFICES ASSUME NEW j \in JobIds, Live(j) PROVE \E k \in JobIds : k[1] = j[1] /\ Live(k)'
    OBVIOUS
  <2>1. CASE j[1] = Email(w)
    BY <1>2, <1>13, <2>1
  <2>2. CASE j[1] # Email(w)
    <3>1. queue'[j] = queue[j]
      BY <1>2, <1>7, <2>2 DEF OneEntryMoves
    <3>2. \A v \in Workers : cur[v] = j /\ Working(v) => v # w /\ Working(v)'
      BY <1>11, <2>2 DEF Email
    <3>3. Live(j)'
      BY <1>7, <3>1, <3>2 DEF Live
    <3> QED
      BY <3>3
  <2> QED
    BY <2>1, <2>2
<1>15. EntryOk(id)'
  <2>1. status[Email(w)] \in Claimable
    BY <1>0, <1>1 DEF SlotOk, BeforeClaim
  <2>2. LastOf(id)'
    <3> SUFFICES ASSUME NEW j \in JobIds, j[1] = Email(w), j[2] > id[2]
                 PROVE  queue'[j].state = "none"
      BY <1>2 DEF LastOf
    <3>1. j[2] > cur[w][2] /\ j # id
      BY <1>2, IdTyped
    <3>2. queue[j].state = "none"
      BY <1>3, <3>1 DEF LastOf
    <3> QED
      BY <1>7, <3>1, <3>2 DEF OneEntryMoves
  <2> QED
    BY <1>2, <1>7, <1>8, <2>1, <2>2 DEF EntryOk, OneEntryMoves
<1>16. \A j \in JobIds : j # id /\ queue[j].state = "active" =>
         queue[j].holder # w \/ (cur'[w] = j /\ pc'[w] # "idle")
  BY <1>1, <1>7 DEF CalmInv, EntryOk
<1> QED
  BY <1>0, <1>2, <1>7, <1>9, <1>10, <1>12, <1>14, <1>15, <1>16, EntryStaysCalm

LEMMA HandBackKeepsCalm ==
  ASSUME MaxAttempts <= MaxJobAttempts,
         TypeInv, CalmInv, NEW w \in Workers, FinishJob(w) \/ ThrowJob(w)
  PROVE  CalmInv'
<1>p. PICK id : id = cur[w]
  OBVIOUS
<1>0. TypeOK /\ SlotOk(w) /\ id \in JobIds /\ EntryOk(id) /\ RowOk(Email(w))
  BY <1>p, EntriesTyped DEF TypeInv, CalmInv
<1>t. /\ pc \in [Workers -> Labels] /\ mem \in [Workers -> Memory] /\ cur \in [Workers -> JobIds]
      /\ queue \in [JobIds -> Entry]
  BY <1>0 DEF TypeOK
<1>1. /\ pc[w] \in {"done", "throw"} /\ pc'[w] = "idle"
      /\ pc[w] = "throw" <=> ThrowJob(w)
      /\ UNCHANGED <<status, attempts>>
      /\ \A v \in Workers : v # w => pc'[v] = pc[v] /\ mem'[v] = mem[v] /\ cur'[v] = cur[v]
  BY <1>t DEF FinishJob, ThrowJob, At, Release, Goto, rowVars
<1>2. queue[id].state = "active" /\ queue[id].holder = w
  BY <1>0, <1>1, <1>p DEF SlotOk
<1>3. CASE ThrowJob(w)
  <2>1. /\ status[id[1]] \in Claimable /\ queue[id].tries + 1 <= attempts[id[1]]
        /\ attempts[id[1]] < MaxAttempts
    BY <1>0, <1>1, <1>3, <1>p DEF SlotOk, RowOk, Email
  <2>2. queue[id] \in Entry /\ queue[id].tries \in Nat /\ attempts[id[1]] \in Nat
    BY <1>0, <1>p, EntriesTyped DEF Email
  <2>3. queue[id].tries + 1 < MaxJobAttempts
    BY <2>1, <2>2, WorkerConfig, QueueConfig
  <2>4. queue' = [queue EXCEPT ![id] =
                    [queue[id] EXCEPT !.state = "pending", !.tries = queue[id].tries + 1,
                                      !.holder = NoWorker]]
    BY <1>2, <1>3, <1>p, <2>3 DEF ThrowJob, MoveToFailed, HoldsLock
  <2>5. /\ queue'[id].state = "pending" /\ queue'[id].tries = queue[id].tries + 1
        /\ queue'[id].deferrals = queue[id].deferrals
        /\ \A j \in JobIds : j # id => queue'[j] = queue[j]
    BY <1>0, <1>t, <2>2, <2>4 DEF Entry
  <2>6. Working(w) /\ Live(id) /\ Live(id)'
    BY <1>1, <1>3, <1>p, <2>5 DEF Live, Working
  <2>7. EntryOk(id)'
    <3>1. \A j \in JobIds : queue[j].state = "none" => queue'[j].state = "none"
      BY <1>2, <2>5
    <3>2. LastOf(id)'
      BY <1>0, <2>6, <3>1 DEF EntryOk, LastOf
    <3> QED
      BY <1>0, <1>1, <1>2, <2>1, <2>5, <3>2 DEF EntryOk
  <2>8. \A v \in Workers : v # w => Working(v)' = Working(v)
    BY <1>1 DEF Working
  <2>9. \A j \in JobIds : j # id => Live(j)' = Live(j)
    BY <1>1, <1>p, <2>5, <2>8 DEF Live, Working
  <2>10. \A j \in JobIds : j # id /\ Live(j) => ~(j[1] = id[1] /\ j[2] < id[2])
    <3> SUFFICES ASSUME NEW j \in JobIds, Live(j), j[1] = id[1], j[2] < id[2] PROVE FALSE
      OBVIOUS
    <3>1. LastOf(j) /\ id[2] > j[2]
      BY <1>0, IdTyped DEF CalmInv, EntryOk
    <3> QED
      BY <1>0, <1>2, <3>1 DEF LastOf
  <2>11. OneEntryMoves(w, id) /\ SlotOk(w)'
    BY <1>1, <2>5 DEF OneEntryMoves, SlotOk
  <2>12. \A v \in Workers : v # w /\ pc[v] # "idle" => cur[v] # id
    BY <1>2 DEF CalmInv, SlotOk
  <2>13. \A j \in JobIds : j # id /\ queue[j].state = "active" => queue[j].holder # w
    BY <1>p DEF CalmInv, EntryOk
  <2> QED
    BY <1>0, <2>6, <2>7, <2>9, <2>10, <2>11, <2>12, <2>13, EntryStaysCalm
<1>4. CASE FinishJob(w)
  <2>1. pc[w] = "done"
    BY <1>4 DEF FinishJob, At
  <2>2. queue' = [queue EXCEPT ![id].state = "completed", ![id].holder = NoWorker]
    BY <1>2, <1>4, <1>p DEF FinishJob, MoveToCompleted, HoldsLock
  <2>3. /\ queue'[id].state = "completed"
        /\ queue'[id].deferrals = queue[id].deferrals
        /\ \A j \in JobIds : j # id => queue'[j] = queue[j]
    BY <1>0, <1>t, <2>2 DEF Entry
  <2>4. \A v \in Workers : Working(v)' = Working(v)
    BY <1>1, <2>1 DEF Working
  <2>5. \A j \in JobIds : Live(j)' = Live(j)
    <3>1. \A j \in JobIds : queue'[j].state = "pending" <=> queue[j].state = "pending"
      BY <1>2, <2>3
    <3>2. ~Working(w)
      BY <2>1 DEF Working
    <3> QED
      BY <1>1, <2>4, <3>1, <3>2 DEF Live
  <2>6. ~Live(id)
    <3>1. \A v \in Workers : v # w /\ pc[v] # "idle" => cur[v] # id
      BY <1>2 DEF CalmInv, SlotOk
    <3> QED
      BY <1>2, <2>1, <3>1 DEF Live, Working
  <2>7. EntryOk(id)'
    BY <1>0, <1>2, <2>3, <2>5, <2>6 DEF EntryOk
  <2>8. \A j \in JobIds : j # id /\ Live(j) => ~(j[1] = id[1] /\ j[2] < id[2])
    <3> SUFFICES ASSUME NEW j \in JobIds, Live(j), j[1] = id[1], j[2] < id[2] PROVE FALSE
      OBVIOUS
    <3>1. LastOf(j) /\ id[2] > j[2]
      BY <1>0, IdTyped DEF CalmInv, EntryOk
    <3> QED
      BY <1>0, <1>2, <3>1 DEF LastOf
  <2>9. OneEntryMoves(w, id) /\ SlotOk(w)'
    BY <1>1, <2>3 DEF OneEntryMoves, SlotOk
  <2>10. \A v \in Workers : v # w /\ pc[v] # "idle" => cur[v] # id
    BY <1>2 DEF CalmInv, SlotOk
  <2>11. \A j \in JobIds : j # id /\ queue[j].state = "active" => queue[j].holder # w
    BY <1>p DEF CalmInv, EntryOk
  <2> QED
    BY <1>0, <2>5, <2>7, <2>8, <2>9, <2>10, <2>11, EntryStaysCalm
<1> QED
  BY <1>3, <1>4

-------------------------------------------------------------------------------
\* A step that changes nothing the invariant looks at.
LEMMA StillCalm ==
  ASSUME CalmInv, UNCHANGED <<queue, pc, cur, mem, status, attempts>>
  PROVE  CalmInv'
BY DEF CalmInv, SlotOk, EntryOk, RowOk, LastOf, Live, Working, Email

\* Failures are counted, and nothing takes them back.
LEMMA CalmBefore ==
  ASSUME TypeOK, [Next]_vars, Calm'
  PROVE  /\ Calm
         /\ \A w \in Workers : ~DbError(w)
         /\ \A id \in JobIds : ~LiveStall(id)
         /\ \A p \in Processes : ~Crash(p)
<1>1. mishaps \in [Mishaps -> Nat]
  BY DEF TypeOK
<1>2. ASSUME NEW m \in Mishaps, mishaps' = [mishaps EXCEPT ![m] = @ + 1]
      PROVE  m = "lostAck" /\ Calm
  <2>1. mishaps'[m] # 0 /\ \A k \in Mishaps \ {m} : mishaps'[k] = mishaps[k]
    BY <1>1, <1>2
  <2> QED
    BY <2>1 DEF Calm
<1>3. /\ \A w \in Workers : ~DbError(w)
      /\ \A id \in JobIds : ~LiveStall(id)
      /\ \A p \in Processes : ~Crash(p)
  BY <1>2 DEF DbError, LiveStall, Crash, Suffer, Mishaps
<1>4. ASSUME ~UNCHANGED mishaps PROVE \E w \in Workers : SendAckLost(w)
  BY <1>3, <1>4
     DEF Next, vars, env, Step, Load, Admit, Blocked, AddChild, SaveDeferral, Claim, ClaimLost,
         RunRefund, SendAccepted, SendTransient, SendRefused, WriteSent, WriteRetry, WriteFailed,
         WriteResult, CountRemaining, CompleteCampaign, FinishJob, ThrowJob, TakeJob, Stall,
         Restart, Tick
<1>5. ASSUME NEW w \in Workers, SendAckLost(w) PROVE Calm
  <2>1. "lostAck" \in Mishaps /\ mishaps' = [mishaps EXCEPT !["lostAck"] = @ + 1]
    BY <1>5 DEF SendAckLost, Suffer, Mishaps
  <2> QED
    BY <1>2, <2>1
<1>6. UNCHANGED mishaps => Calm
  BY DEF Calm
<1> QED
  BY <1>3, <1>4, <1>5, <1>6

LEMMA CalmStep ==
  ASSUME MaxAttempts <= MaxJobAttempts,
         TypeInv, Calm => CalmInv, [Next]_vars, Calm'
  PROVE  CalmInv'
<1>0. TypeOK /\ Calm /\ CalmInv
  BY CalmBefore DEF TypeInv
<1>1. ASSUME NEW w \in Workers, Step(w)
      PROVE  CalmInv'
  <2>1. ~ClaimLost(w) /\ ~RunRefund(w)
    BY <1>0 DEF CalmInv, SlotOk, ClaimLost, RunRefund, At, BeforeClaim
  <2> QED
    BY <1>0, <1>1, <2>1, MovesKeepCalm, WritesKeepCalm, AddChildKeepsCalm, HandBackKeepsCalm
       DEF Step
<1>2. ASSUME NEW id \in JobIds PROVE ~Stall(id)
  BY <1>0 DEF CalmInv, EntryOk, Stall, BeingProcessed, HoldsLock
<1>3. CASE \E w \in Workers, id \in JobIds : TakeJob(w, id)
  BY <1>0, <1>3, TakeJobKeepsCalm
<1>4. CASE (\E p \in Processes : Restart(p)) \/ Tick \/ UNCHANGED vars
  BY <1>0, <1>4, StillCalm DEF Restart, Tick, vars, rowVars, slotVars
<1> QED
  BY <1>0, <1>1, <1>2, <1>3, <1>4, CalmBefore DEF Next

\* Types, entries and rows: "every row has its entry" needs that BullMQ makes
\* at least as many attempts (MAX_JOB_ATTEMPTS) as the row allows.
LEMMA CalmInvariants ==
  ASSUME MaxAttempts <= MaxJobAttempts
  PROVE  Spec => [](TypeInv /\ (Calm => CalmInv))
<1>1. Init => TypeInv /\ (Calm => CalmInv)
  BY TypeInit, CalmInit
<1>2. TypeInv /\ (Calm => CalmInv) /\ [Next]_vars => (TypeInv /\ (Calm => CalmInv))'
  <2> SUFFICES ASSUME TypeInv, Calm => CalmInv, [Next]_vars
               PROVE  TypeInv' /\ (Calm' => CalmInv')
    OBVIOUS
  <2> QED
    BY TypeStep, CalmStep
<1> QED
  BY <1>1, <1>2, PTL DEF Spec

\* A row that waits to be sent always has a queue entry that will run, whatever
\* deferrals, retries and lost answers happen, as long as the queue does not
\* give an entry up before the row's attempts are used.
THEOREM NoEmailStranded ==
  ASSUME MaxAttempts <= MaxJobAttempts
  PROVE  Spec => []NoneStranded
<1>1. TypeInv /\ (Calm => CalmInv) => NoneStranded
  <2> SUFFICES ASSUME CalmInv, NEW e \in Emails, status[e] \in Claimable
               PROVE  QueuedAgain(e)
    BY DEF NoneStranded, Calm
  <2>1. PICK id \in JobIds : id[1] = e /\ Live(id)
    BY DEF CalmInv, RowOk, Claimable, NonTerminal
  <2>2. queue[id].state \in {"pending", "active"}
    BY <2>1 DEF Live, Working, CalmInv, SlotOk
  <2>3. id[2] \in 0..MaxDeferrals /\ id = <<e, id[2]>>
    BY <2>1, IdTyped
  <2> QED
    BY <2>2, <2>3 DEF QueuedAgain
<1> QED
  BY <1>1, CalmInvariants, PTL

\* No email is tried more often than its row allows while each has one entry,
\* however often its job is deferred and retried.
THEOREM TriesBounded ==
  ASSUME MaxAttempts <= MaxJobAttempts
  PROVE  Spec => []AttemptsBounded
<1>1. TypeInv /\ (Calm => CalmInv) => AttemptsBounded
  BY DEF AttemptsBounded, Calm, CalmInv, RowOk
<1> QED
  BY <1>1, CalmInvariants, PTL

-------------------------------------------------------------------------------
\* Claims: no step but a verdict takes a row out of PROCESSING, and the slot
\* that put it there writes the verdict.
Unharmed == mishaps["dbError"] = 0 /\ mishaps["crash"] = 0

LEMMA UnharmedBefore ==
  ASSUME TypeInv, [Next]_vars, Unharmed'
  PROVE  /\ Unharmed
         /\ \A w \in Workers : ~DbError(w)
         /\ \A p \in Processes : ~Crash(p)
<1>1. mishaps \in [Mishaps -> Nat]
  BY DEF TypeInv, TypeOK
<1>2. \A m \in Mishaps : Suffer(m) =>
        /\ mishaps'[m] # 0
        /\ \A k \in Mishaps \ {m} : mishaps'[k] = mishaps[k]
  BY <1>1 DEF Suffer
<1>3. (\A w \in Workers : ~DbError(w)) /\ (\A p \in Processes : ~Crash(p))
  BY <1>2 DEF DbError, Crash, Unharmed, Mishaps
<1>4. ASSUME UNCHANGED mishaps PROVE Unharmed
  BY <1>4 DEF Unharmed
<1>5. ASSUME Suffer("liveStall") \/ Suffer("lostAck") PROVE Unharmed
  BY <1>2, <1>5 DEF Unharmed, Mishaps
<1>6. UNCHANGED mishaps \/ Suffer("liveStall") \/ Suffer("lostAck")
  BY <1>3
     DEF Next, vars, env, Step, Load, Admit, Blocked, AddChild, SaveDeferral, Claim, ClaimLost,
         RunRefund, SendAccepted, SendTransient, SendAckLost, SendRefused, WriteSent, WriteRetry,
         WriteFailed, WriteResult, CountRemaining, CompleteCampaign, FinishJob, ThrowJob,
         TakeJob, Stall, LiveStall, Restart, Tick
<1> QED
  BY <1>3, <1>4, <1>5, <1>6

\* While no process dies and no statement is rejected, a PROCESSING row is
\* always being sent by a slot, even one that lost its lock.
THEOREM EveryClaimOwned == Spec => []ProcessingIsOwned
<1>1. Init => ProcessingIsOwned
  BY DEF Init, Committed, ProcessingIsOwned
<1>2. TypeInv /\ ProcessingIsOwned /\ [Next]_vars => ProcessingIsOwned'
  <2> SUFFICES ASSUME TypeInv, ProcessingIsOwned, [Next]_vars, Unharmed',
                      NEW e \in Emails, status'[e] = "PROCESSING"
               PROVE  \E w \in Workers : HoldsClaim(w)' /\ Email(w)' = e
    BY DEF ProcessingIsOwned, Unharmed
  <2>0. TypeOK /\ \A w \in Workers : Email(w) \in Emails
    BY EmailTyped DEF TypeInv
  <2>1. status[e] = "PROCESSING" => \E w \in Workers : HoldsClaim(w) /\ Email(w) = e
    BY UnharmedBefore DEF ProcessingIsOwned, Unharmed
  <2>2. ASSUME NEW v \in Workers,
               \/ Load(v) \/ Admit(v) \/ Blocked(v) \/ AddChild(v) \/ SaveDeferral(v)
               \/ ClaimLost(v) \/ RunRefund(v) \/ CountRemaining(v) \/ CompleteCampaign(v)
               \/ FinishJob(v) \/ ThrowJob(v) \/ \E id \in JobIds : TakeJob(v, id)
        PROVE  /\ status' = status /\ ~HoldsClaim(v)
               /\ \A w \in Workers \ {v} : pc'[w] = pc[w] /\ cur'[w] = cur[w]
    BY <2>0, <2>2
       DEF Load, Admit, Blocked, AddChild, SaveDeferral, ClaimLost, RunRefund, CountRemaining,
           CompleteCampaign, FinishJob, ThrowJob, Release, TakeJob, rowVars, At, Goto,
           HoldsClaim, TypeOK
  <2>3. ASSUME NEW v \in Workers, Claim(v)
        PROVE  \E w \in Workers : HoldsClaim(w)' /\ Email(w)' = e
    <3>1. /\ status' = [status EXCEPT ![Email(v)] = "PROCESSING"]
          /\ pc[v] = "claim" /\ pc' = [pc EXCEPT ![v] = "send"] /\ cur' = cur
      BY <2>3 DEF Claim, At, Goto
    <3>2. HoldsClaim(v)' /\ Email(v)' = Email(v)
      BY <2>0, <3>1 DEF HoldsClaim, Email, TypeOK
    <3>3. CASE Email(v) = e
      BY <3>2, <3>3
    <3>4. CASE Email(v) # e
      <4>1. PICK w \in Workers : HoldsClaim(w) /\ Email(w) = e
        BY <2>0, <2>1, <3>1, <3>4 DEF TypeOK
      <4>2. HoldsClaim(w)' /\ Email(w)' = e
        BY <2>0, <3>1, <3>4, <4>1 DEF HoldsClaim, Email, TypeOK
      <4> QED
        BY <4>2
    <3> QED
      BY <3>3, <3>4
  <2>4. ASSUME NEW v \in Workers, SendAccepted(v) \/ SendTransient(v) \/ SendAckLost(v)
                                   \/ SendRefused(v)
        PROVE  \E w \in Workers : HoldsClaim(w)' /\ Email(w)' = e
    <3>1. /\ status' = status /\ cur' = cur
          /\ \A w \in Workers : HoldsClaim(w) => HoldsClaim(w)'
      BY <2>0, <2>4
         DEF SendAccepted, SendTransient, SendAckLost, SendRefused, AfterTransient, rowVars, At,
             Goto, HoldsClaim, TypeOK
    <3> QED
      BY <2>1, <3>1 DEF Email
  <2>5. ASSUME NEW v \in Workers, WriteSent(v) \/ WriteRetry(v) \/ WriteFailed(v)
        PROVE  \E w \in Workers : HoldsClaim(w)' /\ Email(w)' = e
    <3>1. PICK r \in {"SENT", "SCHEDULED", "FAILED"} :
            status' = [status EXCEPT ![Email(v)] = r]
      BY <2>5 DEF WriteSent, WriteRetry, WriteFailed, WriteResult
    <3>2. cur' = cur /\ \A w \in Workers \ {v} : pc'[w] = pc[w]
      BY <2>0, <2>5 DEF WriteSent, WriteRetry, WriteFailed, WriteResult, Goto, TypeOK
    <3>3. Email(v) # e /\ status[e] = "PROCESSING"
      BY <2>0, <3>1 DEF TypeOK
    <3> QED
      BY <2>1, <3>2, <3>3 DEF HoldsClaim, Email
  <2>6. ASSUME \/ \E id \in JobIds : Stall(id) \/ LiveStall(id)
               \/ \E p \in Processes : Restart(p)
               \/ Tick
               \/ UNCHANGED vars
        PROVE  UNCHANGED <<status, pc, cur>>
    BY <2>6 DEF Stall, LiveStall, Restart, Tick, vars, rowVars, slotVars
  <2>7. UNCHANGED <<status, pc, cur>> => \E w \in Workers : HoldsClaim(w)' /\ Email(w)' = e
    BY <2>1 DEF HoldsClaim, Email
  <2>8. ASSUME NEW v \in Workers, status' = status, ~HoldsClaim(v),
               \A w \in Workers \ {v} : pc'[w] = pc[w] /\ cur'[w] = cur[w]
        PROVE  \E w \in Workers : HoldsClaim(w)' /\ Email(w)' = e
    BY <2>1, <2>8 DEF HoldsClaim, Email
  <2> QED
    BY <2>2, <2>3, <2>4, <2>5, <2>6, <2>7, <2>8, UnharmedBefore DEF Next, Step
<1>3. Spec => []TypeInv
  BY TypeInit, TypeStep, PTL DEF Spec
<1> QED
  BY <1>1, <1>2, <1>3, PTL DEF Spec
===============================================================================
