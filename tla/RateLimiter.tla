----------------------------- MODULE RateLimiter ------------------------------
(***************************************************************************)
(* Concurrent callers of tryConsume and refund (rateLimit.service.ts),      *)
(* the Redis counters they share and the Postgres mirror that is written    *)
(* behind them without being awaited.                                       *)
(*                                                                          *)
(* A caller is one run of the job processor.  Both functions read the clock *)
(* when they are called (`at: Date = new Date()`), then await the sender's  *)
(* limit, then run their script, so the bucket they use may be an hour old  *)
(* when the script runs.  A caller that is admitted either goes on to send  *)
(* or loses the claim and refunds.                                          *)
(***************************************************************************)
EXTENDS RateWindow, FiniteSets

CONSTANTS
  Callers,         \* processor runs that may call the limiter concurrently
  MaxCalls,        \* bound: tryConsume calls in a behaviour
  MaxFaults        \* bound: losses of Redis's data and rejected mirror writes

ASSUME LimiterConfig ==
  /\ IsFiniteSet(Senders)
  /\ MaxCalls \in Nat
  /\ MaxFaults \in Nat

VARIABLES
  hour,       \* the UTC hour every process reads
  used,       \* Redis counters
  mirror,     \* RateLimitWindow.count in Postgres
  incWrites,  \* mirrorIncrement upserts issued and not yet applied
  decWrites,  \* mirrorDecrement updates issued and not yet applied, by sender
  phase,      \* where each caller is
  who,        \* the sender each caller acts for
  at,         \* the hour the current call captured
  granted,    \* the hour whose bucket holds the caller's slot
  sends,      \* history: sends made on a slot of this scope and hour
  strays,     \* history: refunds that went to another hour than their slot's
  lost,       \* history: slots whose holder died before sending or refunding
  rejected,   \* history: mirror writes that were rejected
  calls,      \* number of tryConsume calls so far
  flushes     \* number of flushes so far

redis == <<used>>
mirrorVars == <<mirror, incWrites, decWrites>>
callerVars == <<phase, who, at, granted>>
history == <<sends, strays, lost, rejected, calls, flushes>>
vars == <<hour, redis, mirrorVars, callerVars, history>>

Phases == {"idle", "consume", "granted", "refund"}

TypeOK ==
  /\ hour \in Hours
  /\ used \in Counters
  /\ mirror \in Counters
  /\ incWrites \in Counters
  /\ decWrites \in [Senders -> [Hours -> Nat]]
  /\ phase \in [Callers -> Phases]
  /\ who \in [Callers -> Senders]
  /\ at \in [Callers -> Hours]
  /\ granted \in [Callers -> Hours]
  /\ sends \in Counters
  /\ strays \in [Hours -> Nat]
  /\ lost \in Counters
  /\ rejected \in Nat
  /\ calls \in Nat
  /\ flushes \in Nat

Init ==
  /\ hour = 0
  /\ used = NoneUsed
  /\ mirror = NoneUsed
  /\ incWrites = NoneUsed
  /\ decWrites = [s \in Senders |-> [h \in Hours |-> 0]]
  /\ phase = [c \in Callers |-> "idle"]
  /\ who \in [Callers -> Senders]
  /\ at = [c \in Callers |-> 0]
  /\ granted = [c \in Callers |-> 0]
  /\ sends = NoneUsed
  /\ strays = [h \in Hours |-> 0]
  /\ lost = NoneUsed
  /\ rejected = 0
  /\ calls = 0
  /\ flushes = 0

\* tryConsume is called: the clock is read, the scopes are being resolved.
CallTryConsume(c) ==
  /\ phase[c] = "idle"
  /\ calls < MaxCalls
  /\ phase' = [phase EXCEPT ![c] = "consume"]
  /\ at' = [at EXCEPT ![c] = hour]
  /\ calls' = calls + 1
  /\ UNCHANGED <<hour, redis, mirrorVars, who, granted, sends, strays, lost, rejected, flushes>>

\* Fault: only the first scope is mirrored.
MirrorIncrementFirst(s, h) ==
  incWrites' = [incWrites EXCEPT ![s][h] = @ + 1]

\* mirrorIncrement: one upsert per scope, none awaited.
MirrorIncrement(s, h) ==
  incWrites' = Consume(incWrites, s, h)

\* rlConsume admits the call.
Admit(c) ==
  /\ phase[c] = "consume"
  /\ HasRoom(used, who[c], at[c])
  /\ used' = Consume(used, who[c], at[c])
  /\ MirrorIncrement(who[c], at[c])
  /\ phase' = [phase EXCEPT ![c] = "granted"]
  /\ granted' = [granted EXCEPT ![c] = at[c]]
  /\ UNCHANGED <<hour, mirror, decWrites, who, at, history>>

\* rlConsume names the scope that is full; nothing is incremented.
Reject(c) ==
  /\ phase[c] = "consume"
  /\ ~HasRoom(used, who[c], at[c])
  /\ phase' = [phase EXCEPT ![c] = "idle"]
  /\ UNCHANGED <<hour, redis, mirrorVars, who, at, granted, history>>

\* Fault: a send that SMTP rejected gives its slot back.
SendOnSlotRefunded(c) ==
  /\ phase[c] = "granted"
  /\ phase' = [phase EXCEPT ![c] = "idle"]
  /\ sends' = Consume(sends, who[c], granted[c])
  /\ used' = Refund(used, who[c], granted[c])
  /\ UNCHANGED <<hour, mirrorVars, who, at, granted, strays, lost, rejected, calls, flushes>>

\* The caller holds the claim and contacts SMTP: the slot is spent.
SendOnSlot(c) ==
  /\ phase[c] = "granted"
  /\ phase' = [phase EXCEPT ![c] = "idle"]
  /\ sends' = Consume(sends, who[c], granted[c])
  /\ UNCHANGED <<hour, redis, mirrorVars, who, at, granted, strays, lost, rejected, calls, flushes>>

\* The claim was lost: refund is called and reads the clock afresh.
CallRefund(c) ==
  /\ phase[c] = "granted"
  /\ phase' = [phase EXCEPT ![c] = "refund"]
  /\ at' = [at EXCEPT ![c] = hour]
  /\ UNCHANGED <<hour, redis, mirrorVars, who, granted, history>>

\* rlRefund runs, and the mirror decrement is issued without being awaited.
RunRefund(c) ==
  /\ phase[c] = "refund"
  /\ used' = Refund(used, who[c], at[c])
  /\ decWrites' = [decWrites EXCEPT ![who[c]][at[c]] = @ + 1]
  /\ strays' = IF at[c] = granted[c] THEN strays
               ELSE [strays EXCEPT ![at[c]] = @ + 1]
  /\ phase' = [phase EXCEPT ![c] = "idle"]
  /\ UNCHANGED <<hour, mirror, incWrites, who, at, granted, sends, lost, rejected, calls, flushes>>

\* The caller's process dies, or the limit lookup of resolveScopes is
\* rejected: a slot it holds is neither spent nor given back.
Abandon(c) ==
  /\ phase[c] # "idle"
  /\ phase' = [phase EXCEPT ![c] = "idle"]
  /\ lost' = IF phase[c] \in {"granted", "refund"}
             THEN Consume(lost, who[c], granted[c]) ELSE lost
  /\ UNCHANGED <<hour, redis, mirrorVars, who, at, granted, sends, strays, rejected, calls, flushes>>

\* One mirrorIncrement upsert reaches Postgres.
ApplyIncrement(sc, h) ==
  /\ incWrites[sc][h] > 0
  /\ incWrites' = [incWrites EXCEPT ![sc][h] = @ - 1]
  /\ mirror' = [mirror EXCEPT ![sc][h] = @ + 1]
  /\ UNCHANGED <<hour, redis, decWrites, callerVars, history>>

\* One mirrorDecrement updateMany reaches Postgres: all of the sender's
\* scopes, where the count is positive.
ApplyDecrement(s, h) ==
  /\ decWrites[s][h] > 0
  /\ decWrites' = [decWrites EXCEPT ![s][h] = @ - 1]
  /\ mirror' = Refund(mirror, s, h)
  /\ UNCHANGED <<hour, redis, incWrites, callerVars, history>>

\* A mirror write is rejected: it is logged and forgotten.
LoseMirrorWrite ==
  /\ rejected + flushes < MaxFaults
  /\ rejected' = rejected + 1
  /\ \/ \E sc \in Scopes, h \in Hours :
          /\ incWrites[sc][h] > 0
          /\ incWrites' = [incWrites EXCEPT ![sc][h] = @ - 1]
          /\ UNCHANGED decWrites
     \/ \E s \in Senders, h \in Hours :
          /\ decWrites[s][h] > 0
          /\ decWrites' = [decWrites EXCEPT ![s][h] = @ - 1]
          /\ UNCHANGED incWrites
  /\ UNCHANGED <<hour, redis, mirror, callerVars, sends, strays, lost, calls, flushes>>

Tick ==
  /\ hour < MaxHour
  /\ hour' = hour + 1
  /\ UNCHANGED <<redis, mirrorVars, callerVars, history>>

\* Redis loses its data. No code reads the mirror back.
Flush ==
  /\ rejected + flushes < MaxFaults
  /\ used # NoneUsed
  /\ used' = NoneUsed
  /\ flushes' = flushes + 1
  /\ UNCHANGED <<hour, mirrorVars, callerVars, sends, strays, lost, rejected, calls>>

Next ==
  \/ \E c \in Callers :
       \/ CallTryConsume(c) \/ Admit(c) \/ Reject(c)
       \/ SendOnSlot(c) \/ CallRefund(c) \/ RunRefund(c) \/ Abandon(c)
  \/ \E sc \in Scopes, h \in Hours : ApplyIncrement(sc, h)
  \/ \E s \in Senders, h \in Hours : ApplyDecrement(s, h)
  \/ LoseMirrorWrite
  \/ Tick
  \/ Flush

Spec == Init /\ [][Next]_vars

-------------------------------------------------------------------------------
\* No interleaving of callers takes a bucket past its limit: the property the
\* two scripts are written in Lua for (rateLimit.service.ts:30).
CountWithinLimit ==
  \A sc \in Scopes, h \in Hours : used[sc][h] <= ScopeLimit(sc)

Holders(sc, h) ==
  {c \in Callers : /\ phase[c] \in {"granted", "refund"}
                   /\ granted[c] = h
                   /\ sc \in ResolveScopes(who[c])}

\* No refund has crossed an hour boundary and Redis has kept its data.
Undisturbed == flushes = 0 /\ \A h \in Hours : strays[h] = 0

\* Every counted slot is spent on a send, still held by a caller or lost with
\* one, and conversely: quota is neither leaked by a rejected or refunded call nor
\* granted twice (rateLimit.service.ts:36). A refund that crosses an hour
\* boundary and a flush break the account, and nothing else does.
SlotsAccounted ==
  \A sc \in Scopes, h \in Hours :
    Undisturbed /\ sc \in UNION {ResolveScopes(s) : s \in Senders} =>
      used[sc][h] = sends[sc][h] + lost[sc][h] + Cardinality(Holders(sc, h))

\* Under 'both' the global counter is the sum of the senders' counters: neither
\* script ever moves one scope of a call without the other (:106, :131). rlRefund
\* skips a scope that is 0, so a stray refund or one after a flush can.
GlobalIsSum ==
  Strategy = "both" /\ Undisturbed =>
    \A h \in Hours :
      used[GlobalScope][h] =
        LET total[S \in SUBSET Senders] ==
              IF S = {} THEN 0
              ELSE LET s == CHOOSE x \in S : TRUE IN used[s][h] + total[S \ {s}]
        IN total[Senders]

\* The mirror together with the increments still on their way reports fewer
\* slots than Redis has counted by no more than the writes that were rejected and
\* the refunds that strayed into the hour (:318).
MirrorCoversUsage ==
  \A sc \in Scopes, h \in Hours :
    mirror[sc][h] + incWrites[sc][h] + rejected + strays[h] >= used[sc][h]

\* What an hour boundary and a flush cost: the sends made on one bucket exceed
\* its limit by at most the refunds that landed in it from an earlier hour, and
\* by one more limit for each flush.
OvershootIsBounded ==
  \A sc \in Scopes, h \in Hours :
    sends[sc][h] <= ScopeLimit(sc) * (1 + flushes) + strays[h]

\* backend/prisma/schema.prisma: the mirror exists "so limits survive a Redis
\* flush": within one hour a flush lets no bucket exceed its limit.
LimitSurvivesFlush ==
  \A sc \in Scopes, h \in Hours :
    (strays[h] = 0 /\ flushes > 0) => sends[sc][h] <= ScopeLimit(sc)

===============================================================================
