------------------------------ MODULE RateWindow ------------------------------
(***************************************************************************)
(* The hourly send counters of services/rateLimit.service.ts, as pure       *)
(* operators.  A counter value `used` maps a scope and an hour bucket to    *)
(* the number of slots taken.  The two Lua scripts run atomically inside    *)
(* Redis, so each is one function from counters to counters; RateLimiter    *)
(* and EmailWorker apply them in single steps.                              *)
(*                                                                          *)
(* Abstracted: the key text, and the two-hour TTL, which removes only       *)
(* buckets that no later call can name.                                     *)
(***************************************************************************)
EXTENDS Naturals

CONSTANTS
  Senders,         \* SMTP accounts; each is a scope of its own
  GlobalScope,     \* the one queue-wide scope
  Strategy,        \* RATE_LIMIT_STRATEGY
  NoOverride,      \* Sender.hourlyLimit = null
  HourlyLimit,     \* Sender.hourlyLimit, per sender
  SenderDefault,   \* MAX_EMAILS_PER_HOUR_PER_SENDER
  GlobalLimit,     \* MAX_EMAILS_PER_HOUR_GLOBAL
  MaxHour          \* bound: the clock stops in this hour

ASSUME RateConfig ==
  /\ GlobalScope \notin Senders
  /\ Strategy \in {"per_sender", "global", "both"}
  /\ NoOverride \notin Nat
  /\ HourlyLimit \in [Senders -> Nat \cup {NoOverride}]
  /\ SenderDefault \in Nat \ {0}
  /\ GlobalLimit \in Nat \ {0}
  /\ MaxHour \in Nat

Hours == 0..MaxHour
Scopes == Senders \cup {GlobalScope}
Counters == [Scopes -> [Hours -> Nat]]

NoneUsed == [sc \in Scopes |-> [h \in Hours |-> 0]]

\* resolveScopes: the scopes a send of sender s is counted in.
ResolveScopes(s) ==
  {sc \in {s, GlobalScope} :
     \/ sc = s /\ Strategy \in {"per_sender", "both"}
     \/ sc = GlobalScope /\ Strategy \in {"global", "both"}}

ScopeLimit(sc) ==
  IF sc = GlobalScope THEN GlobalLimit
  ELSE IF HourlyLimit[sc] = NoOverride THEN SenderDefault
  ELSE HourlyLimit[sc]

\* Fault: the comparison admits one call at the limit.
HasRoomOffByOne(used, s, h) ==
  \A sc \in ResolveScopes(s) : used[sc][h] <= ScopeLimit(sc)

\* CONSUME_LUA, first loop: every scope of the sender is below its limit.
HasRoom(used, s, h) ==
  \A sc \in ResolveScopes(s) : used[sc][h] < ScopeLimit(sc)

\* Fault: the second loop stops after the sender's own key.
ConsumeFirstKeyOnly(used, s, h) ==
  [used EXCEPT ![s][h] = @ + 1]

\* CONSUME_LUA, second loop: every scope is incremented.
Consume(used, s, h) ==
  [sc \in Scopes |->
     IF sc \in ResolveScopes(s) THEN [used[sc] EXCEPT ![h] = @ + 1] ELSE used[sc]]

\* Fault: the loop stops after the sender's own key.
RefundFirstKeyOnly(used, s, h) ==
  [used EXCEPT ![s][h] = IF @ > 0 THEN @ - 1 ELSE 0]

\* Fault: the check that the count is positive is missing.
RefundUnguarded(used, s, h) ==
  [sc \in Scopes |->
     IF sc \in ResolveScopes(s) THEN [used[sc] EXCEPT ![h] = @ - 1] ELSE used[sc]]

\* REFUND_LUA: every scope with a positive count is decremented.
Refund(used, s, h) ==
  [sc \in Scopes |->
     IF sc \in ResolveScopes(s) /\ used[sc][h] > 0
     THEN [used[sc] EXCEPT ![h] = @ - 1] ELSE used[sc]]
===============================================================================
