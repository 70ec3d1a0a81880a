-------------------------- MODULE RateLimiterProofs ---------------------------
(***************************************************************************)
(* Proofs about RateLimiter, for any set of senders and callers, any        *)
(* limits, any number of calls and hours, with mirror failures and flushes. *)
(*                                                                          *)
(* CountWithinLimit is inductive once the types are known: only Admit       *)
(* raises a counter, and it does so in the step that compared it.  What     *)
(* became of every slot, what an hour boundary or a flush costs, and that   *)
(* the mirror never reports too little are counted: slots in use and        *)
(* decrements on their way are the sizes of sets, each of which gains or    *)
(* loses one element in a step.                                             *)
(***************************************************************************)
EXTENDS RateLimiter, FiniteSetTheorems, TLAPS

LEMMA ScopesTyped ==
  /\ \A s \in Senders : ResolveScopes(s) \subseteq Scopes
  /\ \A sc \in Scopes : ScopeLimit(sc) \in Nat
  /\ NoneUsed \in Counters
<1>1. \A s \in Senders : ResolveScopes(s) \subseteq Scopes
  BY DEF ResolveScopes, Scopes
<1>2. ASSUME NEW sc \in Scopes PROVE ScopeLimit(sc) \in Nat
  BY RateConfig DEF ScopeLimit, Scopes
<1>3. NoneUsed \in Counters
  BY DEF NoneUsed, Counters
<1> QED BY <1>1, <1>2, <1>3

\* rlConsume maps counters to counters, and adds one to the scopes it resolves.
LEMMA ConsumeTyped ==
  ASSUME NEW u \in Counters, NEW s \in Senders, NEW h \in Hours
  PROVE  /\ Consume(u, s, h) \in Counters
         /\ \A sc \in Scopes, k \in Hours :
              Consume(u, s, h)[sc][k] =
                IF sc \in ResolveScopes(s) /\ k = h THEN u[sc][k] + 1 ELSE u[sc][k]
BY DEF Counters, Consume

\* rlRefund maps counters to counters and never raises one.
LEMMA RefundTyped ==
  ASSUME NEW u \in Counters, NEW s \in Senders, NEW h \in Hours
  PROVE  /\ Refund(u, s, h) \in Counters
         /\ \A sc \in Scopes, k \in Hours : Refund(u, s, h)[sc][k] <= u[sc][k]
<1>1. ASSUME NEW sc \in Scopes
      PROVE  Refund(u, s, h)[sc] \in [Hours -> Nat]
  BY DEF Counters, Refund
<1>2. ASSUME NEW sc \in Scopes, NEW k \in Hours
      PROVE  Refund(u, s, h)[sc][k] <= u[sc][k]
  BY DEF Counters, Refund
<1> QED BY <1>1, <1>2 DEF Counters, Refund

LEMMA TypeInit == Init => TypeOK
BY ScopesTyped, RateConfig
   DEF Init, TypeOK, Hours, Phases, Counters

LEMMA TypeStep == TypeOK /\ [Next]_vars => TypeOK'
<1> SUFFICES ASSUME TypeOK, [Next]_vars PROVE TypeOK'
  OBVIOUS
<1> USE DEF TypeOK
<1>1. ASSUME NEW c \in Callers, CallTryConsume(c) PROVE TypeOK'
  BY <1>1 DEF CallTryConsume, redis, mirrorVars, Phases
<1>2. ASSUME NEW c \in Callers, Admit(c) PROVE TypeOK'
  BY <1>2, ConsumeTyped DEF Admit, MirrorIncrement, history, Phases
<1>3. ASSUME NEW c \in Callers, Reject(c) PROVE TypeOK'
  BY <1>3 DEF Reject, redis, mirrorVars, history, Phases
<1>4. ASSUME NEW c \in Callers, SendOnSlot(c) PROVE TypeOK'
  BY <1>4, ConsumeTyped DEF SendOnSlot, redis, mirrorVars, Phases
<1>5. ASSUME NEW c \in Callers, CallRefund(c) PROVE TypeOK'
  BY <1>5 DEF CallRefund, redis, mirrorVars, history, Phases
<1>6. ASSUME NEW c \in Callers, RunRefund(c) PROVE TypeOK'
  BY <1>6, RefundTyped DEF RunRefund, Phases
<1>7. ASSUME NEW c \in Callers, Abandon(c) PROVE TypeOK'
  BY <1>7, ConsumeTyped DEF Abandon, redis, mirrorVars, Phases
<1>8. ASSUME NEW sc \in Scopes, NEW h \in Hours, ApplyIncrement(sc, h) PROVE TypeOK'
  BY <1>8 DEF ApplyIncrement, redis, callerVars, history, Counters
<1>9. ASSUME NEW s \in Senders, NEW h \in Hours, ApplyDecrement(s, h) PROVE TypeOK'
  BY <1>9, RefundTyped DEF ApplyDecrement, redis, callerVars, history
<1>10. ASSUME LoseMirrorWrite PROVE TypeOK'
  <2>1. /\ UNCHANGED <<hour, redis, mirror, callerVars, sends, strays, lost, calls, flushes>>
        /\ rejected' \in Nat
    BY <1>10 DEF LoseMirrorWrite
  <2>2. CASE \E sc \in Scopes, h \in Hours :
               /\ incWrites[sc][h] > 0
               /\ incWrites' = [incWrites EXCEPT ![sc][h] = @ - 1]
               /\ UNCHANGED decWrites
    <3>1. incWrites' \in Counters
      BY <2>2 DEF Counters
    <3> QED BY <2>1, <2>2, <3>1 DEF redis, callerVars
  <2>3. CASE \E s \in Senders, h \in Hours :
               /\ decWrites[s][h] > 0
               /\ decWrites' = [decWrites EXCEPT ![s][h] = @ - 1]
               /\ UNCHANGED incWrites
    BY <2>1, <2>3 DEF redis, callerVars
  <2> QED BY <1>10, <2>2, <2>3 DEF LoseMirrorWrite
<1>11. ASSUME Tick PROVE TypeOK'
  BY <1>11, RateConfig DEF Tick, redis, mirrorVars, callerVars, history, Hours
<1>12. ASSUME Flush PROVE TypeOK'
  BY <1>12, ScopesTyped DEF Flush, mirrorVars, callerVars
<1>13. ASSUME UNCHANGED vars PROVE TypeOK'
  BY <1>13 DEF vars, redis, mirrorVars, callerVars, history
<1> QED
  BY <1>1, <1>2, <1>3, <1>4, <1>5, <1>6, <1>7, <1>8, <1>9, <1>10, <1>11, <1>12,
     <1>13 DEF Next

\* Every variable keeps its type.
THEOREM LimiterTypes == Spec => []TypeOK
<1> QED BY TypeInit, TypeStep, PTL DEF Spec

LEMMA CapInit == Init => CountWithinLimit
BY ScopesTyped DEF Init, CountWithinLimit, NoneUsed

LEMMA CapStep ==
  TypeOK /\ CountWithinLimit /\ [Next]_vars => CountWithinLimit'
<1> SUFFICES ASSUME TypeOK, CountWithinLimit, [Next]_vars PROVE CountWithinLimit'
  OBVIOUS
<1> USE ScopesTyped DEF TypeOK
<1>1. ASSUME UNCHANGED used PROVE CountWithinLimit'
  BY <1>1 DEF CountWithinLimit, ScopeLimit
<1>2. ASSUME NEW c \in Callers, Admit(c) PROVE CountWithinLimit'
  <2>1. ASSUME NEW sc \in Scopes, NEW h \in Hours
        PROVE  Consume(used, who[c], at[c])[sc][h] <= ScopeLimit(sc)
    <3>1. used[sc][h] \in Nat /\ used[sc][h] <= ScopeLimit(sc) /\ ScopeLimit(sc) \in Nat
      BY DEF Counters, CountWithinLimit
    <3>2. CASE sc \in ResolveScopes(who[c]) /\ h = at[c]
      <4>1. used[sc][h] < ScopeLimit(sc)
        BY <1>2, <3>2 DEF Admit, HasRoom
      <4> QED BY <3>1, <3>2, <4>1, ConsumeTyped
    <3>3. CASE ~(sc \in ResolveScopes(who[c]) /\ h = at[c])
      BY <3>1, <3>3, ConsumeTyped
    <3> QED BY <3>2, <3>3
  <2>2. used' = Consume(used, who[c], at[c])
    BY <1>2 DEF Admit
  <2> QED BY <2>1, <2>2 DEF CountWithinLimit, ScopeLimit
<1>3. ASSUME NEW c \in Callers, RunRefund(c) PROVE CountWithinLimit'
  <2>1. used' = Refund(used, who[c], at[c]) /\ Refund(used, who[c], at[c]) \in Counters
    BY <1>3, RefundTyped DEF RunRefund
  <2>2. ASSUME NEW sc \in Scopes, NEW h \in Hours
        PROVE  Refund(used, who[c], at[c])[sc][h] <= ScopeLimit(sc)
    <3>1. Refund(used, who[c], at[c])[sc][h] <= used[sc][h]
      BY RefundTyped
    <3>2. used[sc][h] <= ScopeLimit(sc)
      BY DEF CountWithinLimit
    <3>3. /\ used[sc][h] \in Nat
          /\ Refund(used, who[c], at[c])[sc][h] \in Nat
          /\ ScopeLimit(sc) \in Nat
      BY <2>1 DEF Counters
    <3> QED BY <3>1, <3>2, <3>3
  <2> QED BY <2>1, <2>2 DEF CountWithinLimit, ScopeLimit
<1>4. ASSUME Flush PROVE CountWithinLimit'
  BY <1>4 DEF Flush, CountWithinLimit, NoneUsed, ScopeLimit
<1> QED
  BY <1>1, <1>2, <1>3, <1>4
     DEF Next, vars, redis, CallTryConsume, Reject, SendOnSlot, CallRefund, Abandon,
         ApplyIncrement, ApplyDecrement, LoseMirrorWrite, Tick

\* However the callers interleave, no counter passes its limit.
THEOREM CapRespected == Spec => []CountWithinLimit
<1> QED BY TypeInit, TypeStep, CapInit, CapStep, PTL DEF Spec

-------------------------------------------------------------------------------
Held(sc, h) == Cardinality(Holders(sc, h))

HoldersFinite == \A sc \in Scopes, h \in Hours : IsFiniteSet(Holders(sc, h))

\* A slot of this scope and hour is one that sender s takes at k.
Concerns(sc, h, s, k) == sc \in ResolveScopes(s) /\ h = k

\* A step in which caller c gives up its slot, whatever for.
GivesUp(c) ==
  /\ phase[c] \in {"granted", "refund"}
  /\ phase' = [phase EXCEPT ![c] = "idle"]
  /\ UNCHANGED <<who, granted>>

\* A step in which nobody takes or gives up a slot.
HoldersStay == \A sc \in Scopes, h \in Hours : Holders(sc, h)' = Holders(sc, h)

LEMMA HeldTyped ==
  ASSUME HoldersFinite, NEW sc \in Scopes, NEW h \in Hours
  PROVE  Held(sc, h) \in Nat
BY FS_CardinalityType DEF HoldersFinite, Held

LEMMA AdmitTakes ==
  ASSUME TypeOK, HoldersFinite, NEW c \in Callers, Admit(c), NEW sc \in Scopes, NEW h \in Hours
  PROVE  /\ IsFiniteSet(Holders(sc, h)')
         /\ Held(sc, h)' = IF Concerns(sc, h, who[c], at[c]) THEN Held(sc, h) + 1 ELSE Held(sc, h)
<1>1. IsFiniteSet(Holders(sc, h)) /\ c \notin Holders(sc, h)
  BY DEF HoldersFinite, Holders, Admit
<1>2. CASE Concerns(sc, h, who[c], at[c])
  <2>1. Holders(sc, h)' = Holders(sc, h) \cup {c}
    BY <1>2 DEF TypeOK, Holders, Admit, Concerns
  <2> QED
    BY <1>1, <1>2, <2>1, FS_AddElement DEF Held
<1>3. CASE ~Concerns(sc, h, who[c], at[c])
  <2>1. Holders(sc, h)' = Holders(sc, h)
    BY <1>3 DEF TypeOK, Holders, Admit, Concerns
  <2> QED
    BY <1>1, <1>3, <2>1 DEF Held
<1> QED
  BY <1>2, <1>3

LEMMA GivingUp ==
  ASSUME TypeOK, HoldersFinite, NEW c \in Callers, GivesUp(c), NEW sc \in Scopes, NEW h \in Hours
  PROVE  /\ IsFiniteSet(Holders(sc, h)')
         /\ Held(sc, h)' = IF Concerns(sc, h, who[c], granted[c]) THEN Held(sc, h) - 1
                           ELSE Held(sc, h)
         /\ Concerns(sc, h, who[c], granted[c]) => Held(sc, h) > 0
<1>1. IsFiniteSet(Holders(sc, h))
  BY DEF HoldersFinite
<1>2. CASE Concerns(sc, h, who[c], granted[c])
  <2>1. c \in Holders(sc, h) /\ Holders(sc, h)' = Holders(sc, h) \ {c}
    BY <1>2 DEF TypeOK, Holders, GivesUp, Concerns
  <2>2. Holders(sc, h) # {} /\ Held(sc, h) \in Nat
    BY <2>1, HeldTyped
  <2>3. Held(sc, h) # 0
    BY <1>1, <2>2, FS_EmptySet DEF Held
  <2>4. IsFiniteSet(Holders(sc, h)') /\ Held(sc, h)' = Held(sc, h) - 1
    BY <1>1, <2>1, FS_RemoveElement DEF Held
  <2> QED
    BY <1>2, <2>2, <2>3, <2>4
<1>3. CASE ~Concerns(sc, h, who[c], granted[c])
  <2>1. Holders(sc, h)' = Holders(sc, h)
    BY <1>3 DEF TypeOK, Holders, GivesUp, Concerns
  <2> QED
    BY <1>1, <1>3, <2>1 DEF Held
<1> QED
  BY <1>2, <1>3

LEMMA Staying ==
  ASSUME HoldersFinite, HoldersStay, NEW sc \in Scopes, NEW h \in Hours
  PROVE  IsFiniteSet(Holders(sc, h)') /\ Held(sc, h)' = Held(sc, h)
BY DEF HoldersFinite, HoldersStay, Held

\* A step that no account notices.
Still == HoldersStay /\ UNCHANGED <<used, sends, lost, strays, flushes>>

Loses(c) == Abandon(c) /\ phase[c] # "consume"

\* The steps that an account notices.
LEMMA StepsOfAccounts ==
  ASSUME TypeOK, [Next]_vars
  PROVE  \/ Still \/ Flush
         \/ \E c \in Callers : Admit(c) \/ SendOnSlot(c) \/ RunRefund(c) \/ Loses(c)
<1>1. ASSUME UNCHANGED <<phase, who, granted>> PROVE HoldersStay
  BY <1>1 DEF HoldersStay, Holders
<1>2. ASSUME NEW c \in Callers,
             CallTryConsume(c) \/ Reject(c) \/ (Abandon(c) /\ phase[c] = "consume")
      PROVE  Still
  <2>1. HoldersStay
    BY <1>2 DEF TypeOK, HoldersStay, Holders, CallTryConsume, Reject, Abandon
  <2> QED
    BY <1>2, <2>1 DEF Still, CallTryConsume, Reject, Abandon, redis, history
<1>3. ASSUME NEW c \in Callers, CallRefund(c)
      PROVE  Still
  <2>1. HoldersStay
    BY <1>3 DEF TypeOK, HoldersStay, Holders, CallRefund
  <2> QED
    BY <1>3, <2>1 DEF Still, CallRefund, redis, history
<1>4. ASSUME NEW c \in Callers, Abandon(c) PROVE Still \/ Loses(c)
  BY <1>2, <1>4 DEF Loses
<1>5. ASSUME \/ \E sc \in Scopes, h \in Hours : ApplyIncrement(sc, h)
             \/ \E s \in Senders, h \in Hours : ApplyDecrement(s, h)
             \/ LoseMirrorWrite \/ Tick
             \/ UNCHANGED vars
      PROVE  Still
  BY <1>1, <1>5 DEF Still, vars, redis, callerVars, history, ApplyIncrement, ApplyDecrement,
                    LoseMirrorWrite, Tick
<1>6. ASSUME NEW c \in Callers,
             \/ CallTryConsume(c) \/ Admit(c) \/ Reject(c)
             \/ SendOnSlot(c) \/ CallRefund(c) \/ RunRefund(c) \/ Abandon(c)
      PROVE  Still \/ Admit(c) \/ SendOnSlot(c) \/ RunRefund(c) \/ Loses(c)
  <2>1. CASE CallTryConsume(c) \/ Reject(c)
    BY <1>2, <2>1
  <2>2. CASE CallRefund(c)
    BY <1>3, <2>2
  <2>3. CASE Abandon(c)
    BY <1>4, <2>3
  <2> QED
    BY <1>6, <2>1, <2>2, <2>3
<1>7. CASE \E c \in Callers :
             \/ CallTryConsume(c) \/ Admit(c) \/ Reject(c)
             \/ SendOnSlot(c) \/ CallRefund(c) \/ RunRefund(c) \/ Abandon(c)
  BY <1>6, <1>7
<1>8. CASE ~\E c \in Callers :
             \/ CallTryConsume(c) \/ Admit(c) \/ Reject(c)
             \/ SendOnSlot(c) \/ CallRefund(c) \/ RunRefund(c) \/ Abandon(c)
  <2>1. CASE Flush
    BY <2>1
  <2>2. CASE ~Flush
    BY <1>5, <1>8, <2>2 DEF Next
  <2> QED
    BY <2>1, <2>2
<1> QED
  BY <1>7, <1>8

\* A step that the mirror notices is one of its own or one of the above.
LEMMA StepsOfMirror ==
  ASSUME [Next]_vars
  PROVE  \/ UNCHANGED <<mirror, incWrites, decWrites, rejected>>
         \/ \E sd \in Scopes, k \in Hours : ApplyIncrement(sd, k)
         \/ \E s \in Senders, k \in Hours : ApplyDecrement(s, k)
         \/ LoseMirrorWrite
         \/ \E c \in Callers : Admit(c) \/ RunRefund(c)
<1>1. CASE UNCHANGED vars \/ Tick \/ Flush
  BY <1>1 DEF vars, mirrorVars, history, Tick, Flush
<1>2. ASSUME NEW c \in Callers,
             CallTryConsume(c) \/ Reject(c) \/ SendOnSlot(c) \/ CallRefund(c) \/ Abandon(c)
      PROVE  UNCHANGED <<mirror, incWrites, decWrites, rejected>>
  BY <1>2 DEF CallTryConsume, Reject, SendOnSlot, CallRefund, Abandon, mirrorVars, history
<1>3. CASE \E c \in Callers :
             \/ CallTryConsume(c) \/ Admit(c) \/ Reject(c)
             \/ SendOnSlot(c) \/ CallRefund(c) \/ RunRefund(c) \/ Abandon(c)
  BY <1>2, <1>3
<1>4. CASE ~\E c \in Callers :
             \/ CallTryConsume(c) \/ Admit(c) \/ Reject(c)
             \/ SendOnSlot(c) \/ CallRefund(c) \/ RunRefund(c) \/ Abandon(c)
  BY <1>1, <1>4 DEF Next
<1> QED
  BY <1>3, <1>4

LEMMA SlotGivenUp ==
  ASSUME TypeOK, NEW c \in Callers, SendOnSlot(c) \/ RunRefund(c) \/ Loses(c)
  PROVE  GivesUp(c) /\ who[c] \in Senders /\ at[c] \in Hours /\ granted[c] \in Hours
BY DEF TypeOK, Phases, GivesUp, SendOnSlot, RunRefund, Loses, Abandon

LEMMA HoldersFiniteKept ==
  ASSUME TypeOK, HoldersFinite, [Next]_vars
  PROVE  HoldersFinite'
<1>1. CASE Still
  BY <1>1, Staying DEF Still, HoldersFinite
<1>2. CASE Flush
  BY <1>2 DEF Flush, callerVars, HoldersFinite, Holders
<1>3. ASSUME NEW c \in Callers, Admit(c) PROVE HoldersFinite'
  BY <1>3, AdmitTakes DEF HoldersFinite
<1>4. ASSUME NEW c \in Callers, SendOnSlot(c) \/ RunRefund(c) \/ Loses(c) PROVE HoldersFinite'
  BY <1>4, SlotGivenUp, GivingUp DEF HoldersFinite
<1> QED
  BY <1>1, <1>2, <1>3, <1>4, StepsOfAccounts

LEMMA HoldersFiniteInit ==
  ASSUME Init
  PROVE  HoldersFinite /\ \A sc \in Scopes, h \in Hours : Held(sc, h) = 0
<1>1. \A sc \in Scopes, h \in Hours : Holders(sc, h) = {}
  BY DEF Init, Holders
<1> QED
  BY <1>1, FS_EmptySet DEF HoldersFinite, Held

\* The scripts, at one counter.
LEMMA RefundExact ==
  ASSUME NEW u \in Counters, NEW s \in Senders, NEW k \in Hours, NEW sc \in Scopes, NEW h \in Hours
  PROVE  Refund(u, s, k)[sc][h] =
           IF Concerns(sc, h, s, k) /\ u[sc][h] > 0 THEN u[sc][h] - 1 ELSE u[sc][h]
<1>1. u[sc] \in [Hours -> Nat]
  BY DEF Counters
<1>2. CASE sc \in ResolveScopes(s) /\ u[sc][k] > 0
  <2>1. Refund(u, s, k)[sc] = [u[sc] EXCEPT ![k] = @ - 1]
    BY <1>2 DEF Refund
  <2> QED
    BY <1>1, <1>2, <2>1 DEF Concerns
<1>3. CASE ~(sc \in ResolveScopes(s) /\ u[sc][k] > 0)
  BY <1>3 DEF Refund, Concerns
<1> QED
  BY <1>2, <1>3

LEMMA ConsumeExact ==
  ASSUME NEW u \in Counters, NEW s \in Senders, NEW k \in Hours, NEW sc \in Scopes, NEW h \in Hours
  PROVE  Consume(u, s, k)[sc][h] = IF Concerns(sc, h, s, k) THEN u[sc][h] + 1 ELSE u[sc][h]
BY ConsumeTyped DEF Concerns

-------------------------------------------------------------------------------
(* What became of every slot *)

\* SlotsAccounted at one counter, and what a bucket has been overdrawn by.
Account(sc, h) == used[sc][h] = sends[sc][h] + lost[sc][h] + Held(sc, h)
Overdrawn(sc, h) ==
  sends[sc][h] + Held(sc, h) <= used[sc][h] + ScopeLimit(sc) * flushes + strays[h]

Slotted == UNION {ResolveScopes(s) : s \in Senders}

Accounts ==
  /\ HoldersFinite
  /\ \A sc \in Scopes, h \in Hours : Overdrawn(sc, h)
  /\ Undisturbed => \A sc \in Scopes, h \in Hours : Account(sc, h)

LEMMA NumbersTyped ==
  ASSUME TypeOK, HoldersFinite, NEW sc \in Scopes, NEW h \in Hours
  PROVE  /\ used \in Counters /\ sends \in Counters /\ lost \in Counters
         /\ used[sc][h] \in Nat /\ sends[sc][h] \in Nat /\ lost[sc][h] \in Nat
         /\ Held(sc, h) \in Nat /\ strays[h] \in Nat /\ flushes \in Nat
         /\ ScopeLimit(sc) \in Nat
BY HeldTyped, ScopesTyped DEF TypeOK, Counters

LEMMA AccountsInit ==
  ASSUME Init
  PROVE  Accounts
<1>1. TypeOK
  BY TypeInit
<1>2. ASSUME NEW sc \in Scopes, NEW h \in Hours
      PROVE  Overdrawn(sc, h) /\ Account(sc, h)
  <2>1. /\ Held(sc, h) = 0 /\ used[sc][h] = 0 /\ sends[sc][h] = 0 /\ lost[sc][h] = 0
        /\ strays[h] = 0 /\ flushes = 0 /\ ScopeLimit(sc) \in Nat
    BY HoldersFiniteInit, ScopesTyped DEF Init, NoneUsed
  <2> QED
    BY <2>1 DEF Overdrawn, Account
<1> QED
  BY <1>2, HoldersFiniteInit DEF Accounts

LEMMA AccountsKept ==
  ASSUME TypeOK, CountWithinLimit, Accounts, [Next]_vars
  PROVE  Accounts'
<1>1. HoldersFinite /\ HoldersFinite'
  BY HoldersFiniteKept DEF Accounts
<1> SUFFICES ASSUME NEW sc \in Scopes, NEW h \in Hours
             PROVE  Overdrawn(sc, h)' /\ (Undisturbed' => Account(sc, h)')
  BY <1>1 DEF Accounts
<1>2. /\ used \in Counters /\ sends \in Counters /\ lost \in Counters
      /\ used[sc][h] \in Nat /\ sends[sc][h] \in Nat /\ lost[sc][h] \in Nat
      /\ Held(sc, h) \in Nat /\ strays[h] \in Nat /\ flushes \in Nat
      /\ ScopeLimit(sc) \in Nat /\ ScopeLimit(sc)' = ScopeLimit(sc)
  BY <1>1, NumbersTyped DEF ScopeLimit
<1>3. Overdrawn(sc, h) /\ (Undisturbed => Account(sc, h))
  BY DEF Accounts
<1>4. CASE Still
  <2>1. Held(sc, h)' = Held(sc, h)
    BY <1>1, <1>4, Staying DEF Still
  <2> QED
    BY <1>2, <1>3, <1>4, <2>1 DEF Still, Overdrawn, Account, Undisturbed
<1>5. CASE Flush
  <2>1. Held(sc, h)' = Held(sc, h)
    BY <1>5 DEF Flush, callerVars, Held, Holders
  <2>2. /\ used'[sc][h] = 0 /\ flushes' = flushes + 1 /\ UNCHANGED <<sends, strays>>
        /\ used[sc][h] <= ScopeLimit(sc)
    BY <1>5 DEF Flush, NoneUsed, CountWithinLimit
  <2>3. ScopeLimit(sc) * (flushes + 1) = ScopeLimit(sc) * flushes + ScopeLimit(sc)
    BY <1>2
  <2>4. ScopeLimit(sc) * flushes \in Nat
    BY <1>2
  <2>5. Overdrawn(sc, h)'
    BY <1>2, <1>3, <2>1, <2>2, <2>3, <2>4 DEF Overdrawn
  <2>6. ~Undisturbed'
    BY <1>2, <2>2 DEF Undisturbed
  <2> QED
    BY <2>5, <2>6
<1> DEFINE Over == ScopeLimit(sc) * flushes
<1>6. Over \in Nat
  BY <1>2
<1>7. ASSUME NEW c \in Callers, Admit(c)
      PROVE  Overdrawn(sc, h)' /\ (Undisturbed' => Account(sc, h)')
  <2>1. who[c] \in Senders /\ at[c] \in Hours
    BY DEF TypeOK
  <2>2. /\ used' = Consume(used, who[c], at[c])
        /\ UNCHANGED <<sends, lost, strays, flushes>>
    BY <1>7 DEF Admit, history
  <2>3. used'[sc][h] = IF Concerns(sc, h, who[c], at[c]) THEN used[sc][h] + 1 ELSE used[sc][h]
    BY <1>2, <2>1, <2>2, ConsumeExact
  <2>4. Held(sc, h)' = IF Concerns(sc, h, who[c], at[c]) THEN Held(sc, h) + 1 ELSE Held(sc, h)
    BY <1>1, <1>7, AdmitTakes
  <2>5. Undisturbed' = Undisturbed
    BY <2>2 DEF Undisturbed
  <2> HIDE DEF Concerns
  <2>6. Overdrawn(sc, h)'
    BY <1>2, <1>3, <1>6, <2>2, <2>3, <2>4 DEF Overdrawn
  <2> QED
    BY <1>2, <1>3, <2>2, <2>3, <2>4, <2>5, <2>6 DEF Account
<1>8. ASSUME NEW c \in Callers, SendOnSlot(c) \/ Loses(c)
      PROVE  Overdrawn(sc, h)' /\ (Undisturbed' => Account(sc, h)')
  <2>1. GivesUp(c) /\ who[c] \in Senders /\ granted[c] \in Hours
    BY <1>8, SlotGivenUp
  <2>2. /\ Held(sc, h)' = IF Concerns(sc, h, who[c], granted[c]) THEN Held(sc, h) - 1 ELSE Held(sc, h)
        /\ Concerns(sc, h, who[c], granted[c]) => Held(sc, h) > 0
    BY <1>1, <2>1, GivingUp
  <2>3. /\ UNCHANGED <<used, strays, flushes>>
        /\ \/ sends' = Consume(sends, who[c], granted[c]) /\ UNCHANGED lost
           \/ lost' = Consume(lost, who[c], granted[c]) /\ UNCHANGED sends
    BY <1>8, <2>1 DEF SendOnSlot, Loses, Abandon, redis, GivesUp
  <2>4. sends'[sc][h] + lost'[sc][h] =
          sends[sc][h] + lost[sc][h] + (IF Concerns(sc, h, who[c], granted[c]) THEN 1 ELSE 0)
    BY <1>2, <2>1, <2>3, ConsumeExact
  <2>5. /\ sends'[sc][h] <= sends[sc][h] + (IF Concerns(sc, h, who[c], granted[c]) THEN 1 ELSE 0)
        /\ sends'[sc][h] \in Nat /\ lost'[sc][h] \in Nat
    BY <1>2, <2>1, <2>3, ConsumeExact
  <2>6. Overdrawn(sc, h)'
    BY <1>2, <1>3, <1>6, <2>2, <2>3, <2>5 DEF Overdrawn
  <2>7. Undisturbed' = Undisturbed
    BY <2>3 DEF Undisturbed
  <2> QED
    BY <1>2, <1>3, <2>2, <2>3, <2>4, <2>5, <2>6, <2>7 DEF Account
<1>9. ASSUME NEW c \in Callers, RunRefund(c)
      PROVE  Overdrawn(sc, h)' /\ (Undisturbed' => Account(sc, h)')
  <2>1. GivesUp(c) /\ who[c] \in Senders /\ granted[c] \in Hours /\ at[c] \in Hours
    BY <1>9, SlotGivenUp
  <2>2. /\ Held(sc, h)' = IF Concerns(sc, h, who[c], granted[c]) THEN Held(sc, h) - 1 ELSE Held(sc, h)
        /\ Concerns(sc, h, who[c], granted[c]) => Held(sc, h) > 0
    BY <1>1, <2>1, GivingUp
  <2>3. /\ used' = Refund(used, who[c], at[c])
        /\ UNCHANGED <<sends, lost, flushes>>
        /\ strays \in [Hours -> Nat]
        /\ strays' = IF at[c] = granted[c] THEN strays ELSE [strays EXCEPT ![at[c]] = @ + 1]
    BY <1>9 DEF RunRefund, TypeOK
  <2>4. used'[sc][h] = IF Concerns(sc, h, who[c], at[c]) /\ used[sc][h] > 0
                       THEN used[sc][h] - 1 ELSE used[sc][h]
    BY <1>2, <2>1, <2>3, RefundExact
  <2>5. CASE at[c] = granted[c]
    <3>1. Overdrawn(sc, h)'
      BY <1>2, <1>3, <1>6, <2>2, <2>3, <2>4, <2>5 DEF Overdrawn
    <3>2. Undisturbed' = Undisturbed
      BY <2>3, <2>5 DEF Undisturbed
    <3> QED
      BY <1>2, <1>3, <2>2, <2>3, <2>4, <2>5, <3>1, <3>2 DEF Account
  <2>6. CASE at[c] # granted[c]
    <3>1. /\ strays'[h] = IF h = at[c] THEN strays[h] + 1 ELSE strays[h]
          /\ strays'[at[c]] # 0
      BY <2>1, <2>3, <2>6
    <3>2. ~Undisturbed'
      BY <2>1, <3>1 DEF Undisturbed
    <3>3. Overdrawn(sc, h)'
      BY <1>2, <1>3, <1>6, <2>2, <2>3, <2>4, <3>1 DEF Overdrawn, Concerns
    <3> QED
      BY <3>2, <3>3
  <2> QED
    BY <2>5, <2>6
<1> QED
  BY <1>4, <1>5, <1>7, <1>8, <1>9, StepsOfAccounts

LEMMA AccountsAreEnough ==
  ASSUME TypeOK, CountWithinLimit, Accounts
  PROVE  SlotsAccounted /\ OvershootIsBounded
<1>1. SlotsAccounted
  BY DEF SlotsAccounted, Accounts, Account, Held
<1>2. ASSUME NEW sc \in Scopes, NEW h \in Hours
      PROVE  sends[sc][h] <= ScopeLimit(sc) * (1 + flushes) + strays[h]
  <2>1. /\ used[sc][h] \in Nat /\ sends[sc][h] \in Nat /\ Held(sc, h) \in Nat
        /\ strays[h] \in Nat /\ flushes \in Nat /\ ScopeLimit(sc) \in Nat
    BY NumbersTyped DEF Accounts
  <2>2. used[sc][h] <= ScopeLimit(sc) /\ Overdrawn(sc, h)
    BY DEF CountWithinLimit, Accounts
  <2>3. ScopeLimit(sc) * (1 + flushes) = ScopeLimit(sc) + ScopeLimit(sc) * flushes
    BY <2>1
  <2>4. ScopeLimit(sc) * flushes \in Nat
    BY <2>1
  <2> QED
    BY <2>1, <2>2, <2>3, <2>4 DEF Overdrawn
<1> QED
  BY <1>1, <1>2 DEF OvershootIsBounded

\* Without a stray refund or a flush every counted slot is spent, held or lost.
THEOREM EverySlotAccounted == Spec => []SlotsAccounted
<1> QED
  BY TypeInit, TypeStep, CapInit, CapStep, AccountsInit, AccountsKept, AccountsAreEnough, PTL
     DEF Spec

\* The sends of an hour pass the limit by no more than what stray refunds and
\* flushes explain.
THEOREM OvershootExplained == Spec => []OvershootIsBounded
<1> QED
  BY TypeInit, TypeStep, CapInit, CapStep, AccountsInit, AccountsKept, AccountsAreEnough, PTL
     DEF Spec

-------------------------------------------------------------------------------
(* The mirror *)

\* The decrements on their way that concern a counter.
Pending(sc, h) ==
  {p \in Senders \X (Nat \ {0}) : sc \in ResolveScopes(p[1]) /\ p[2] <= decWrites[p[1]][h]}
Owed(sc, h) == Cardinality(Pending(sc, h))

\* What the mirror will have been credited with, and the excuses.
Credit(sc, h) == mirror[sc][h] + incWrites[sc][h] + rejected + strays[h]

\* After every decrement the mirror still covers what Redis counts and, since a
\* flush makes Redis forget them, the slots that may yet be refunded.
Covered(sc, h) ==
  /\ IsFiniteSet(Pending(sc, h))
  /\ Owed(sc, h) + used[sc][h] <= Credit(sc, h)
  /\ Owed(sc, h) + Held(sc, h) <= Credit(sc, h)

MirrorInv == HoldersFinite /\ \A sc \in Scopes, h \in Hours : Covered(sc, h)

LEMMA OwedStays ==
  ASSUME UNCHANGED decWrites, NEW sc, NEW h
  PROVE  Pending(sc, h)' = Pending(sc, h) /\ Owed(sc, h)' = Owed(sc, h)
BY DEF Pending, Owed

LEMMA OwedAdded ==
  ASSUME TypeOK, NEW s \in Senders, NEW k \in Hours,
         decWrites' = [decWrites EXCEPT ![s][k] = @ + 1],
         NEW sc \in Scopes, NEW h \in Hours, IsFiniteSet(Pending(sc, h))
  PROVE  /\ IsFiniteSet(Pending(sc, h)')
         /\ Owed(sc, h)' = IF Concerns(sc, h, s, k) THEN Owed(sc, h) + 1 ELSE Owed(sc, h)
<1>0. /\ \A q \in Senders : decWrites[q][h] \in Nat
      /\ \A q \in Senders : decWrites'[q][h] =
            IF q = s /\ h = k THEN decWrites[q][h] + 1 ELSE decWrites[q][h]
  BY DEF TypeOK
<1>1. CASE Concerns(sc, h, s, k)
  <2> DEFINE p == <<s, decWrites[s][h] + 1>>
  <2>1. p \in Pending(sc, h)' /\ p \notin Pending(sc, h)
    BY <1>0, <1>1 DEF Pending, Concerns
  <2>2. ASSUME NEW q \in Senders \X (Nat \ {0}), q # p
        PROVE  q \in Pending(sc, h)' <=> q \in Pending(sc, h)
    <3>1. q[1] \in Senders /\ q[2] \in Nat \ {0} /\ q = <<q[1], q[2]>>
      OBVIOUS
    <3>2. CASE q[1] = s
      <4>1. q[2] # decWrites[s][h] + 1
        BY <2>2, <3>1, <3>2
      <4>2. q[2] <= decWrites'[s][h] <=> q[2] <= decWrites[s][h]
        BY <1>0, <1>1, <3>1, <4>1 DEF Concerns
      <4> QED
        BY <3>2, <4>2 DEF Pending
    <3>3. CASE q[1] # s
      BY <1>0, <3>1, <3>3 DEF Pending
    <3> QED
      BY <3>2, <3>3
  <2>3. Pending(sc, h)' = Pending(sc, h) \cup {p}
    BY <2>1, <2>2 DEF Pending
  <2> QED
    BY <1>1, <2>1, <2>3, FS_AddElement DEF Owed
<1>2. CASE ~Concerns(sc, h, s, k)
  <2>1. ASSUME NEW q \in Senders \X (Nat \ {0})
        PROVE  q \in Pending(sc, h)' <=> q \in Pending(sc, h)
    <3>1. q[1] \in Senders
      OBVIOUS
    <3>2. CASE q[1] = s /\ h = k
      BY <1>2, <3>2 DEF Pending, Concerns
    <3>3. CASE ~(q[1] = s /\ h = k)
      BY <1>0, <3>1, <3>3 DEF Pending
    <3> QED
      BY <3>2, <3>3
  <2>2. Pending(sc, h)' = Pending(sc, h)
    BY <2>1 DEF Pending
  <2> QED
    BY <1>2, <2>2 DEF Owed
<1> QED
  BY <1>1, <1>2

LEMMA OwedRemoved ==
  ASSUME TypeOK, NEW s \in Senders, NEW k \in Hours,
         decWrites[s][k] > 0, decWrites' = [decWrites EXCEPT ![s][k] = @ - 1],
         NEW sc \in Scopes, NEW h \in Hours, IsFiniteSet(Pending(sc, h))
  PROVE  /\ IsFiniteSet(Pending(sc, h)')
         /\ Owed(sc, h)' = IF Concerns(sc, h, s, k) THEN Owed(sc, h) - 1 ELSE Owed(sc, h)
<1>0. /\ \A q \in Senders : decWrites[q][h] \in Nat
      /\ \A q \in Senders : decWrites'[q][h] =
            IF q = s /\ h = k THEN decWrites[q][h] - 1 ELSE decWrites[q][h]
  BY DEF TypeOK
<1>1. CASE Concerns(sc, h, s, k)
  <2> DEFINE p == <<s, decWrites[s][h]>>
  <2>1. p \in Pending(sc, h) /\ p \notin Pending(sc, h)'
    BY <1>0, <1>1 DEF Pending, Concerns
  <2>2. ASSUME NEW q \in Senders \X (Nat \ {0}), q # p
        PROVE  q \in Pending(sc, h)' <=> q \in Pending(sc, h)
    <3>1. q[1] \in Senders /\ q[2] \in Nat \ {0} /\ q = <<q[1], q[2]>>
      OBVIOUS
    <3>2. CASE q[1] = s
      <4>1. q[2] # decWrites[s][h]
        BY <2>2, <3>1, <3>2
      <4>2. q[2] <= decWrites'[s][h] <=> q[2] <= decWrites[s][h]
        BY <1>0, <1>1, <3>1, <4>1 DEF Concerns
      <4> QED
        BY <3>2, <4>2 DEF Pending
    <3>3. CASE q[1] # s
      BY <1>0, <3>1, <3>3 DEF Pending
    <3> QED
      BY <3>2, <3>3
  <2>3. Pending(sc, h)' = Pending(sc, h) \ {p}
    BY <2>1, <2>2 DEF Pending
  <2> HIDE DEF p
  <2>4. IsFiniteSet(Pending(sc, h)') /\ Cardinality(Pending(sc, h)') = Cardinality(Pending(sc, h)) - 1
    BY <2>1, <2>3, FS_RemoveElement, Zenon
  <2> QED
    BY <1>1, <2>4 DEF Owed
<1>2. CASE ~Concerns(sc, h, s, k)
  <2>1. ASSUME NEW q \in Senders \X (Nat \ {0})
        PROVE  q \in Pending(sc, h)' <=> q \in Pending(sc, h)
    <3>1. q[1] \in Senders
      OBVIOUS
    <3>2. CASE q[1] = s /\ h = k
      BY <1>2, <3>2 DEF Pending, Concerns
    <3>3. CASE ~(q[1] = s /\ h = k)
      BY <1>0, <3>1, <3>3 DEF Pending
    <3> QED
      BY <3>2, <3>3
  <2>2. Pending(sc, h)' = Pending(sc, h)
    BY <2>1 DEF Pending
  <2> QED
    BY <1>2, <2>2 DEF Owed
<1> QED
  BY <1>1, <1>2

\* The counters of the limiter at one scope and hour are numbers.
LEMMA CreditTyped ==
  ASSUME TypeOK, MirrorInv, NEW sc \in Scopes, NEW h \in Hours
  PROVE  /\ used[sc][h] \in Nat /\ Held(sc, h) \in Nat /\ Owed(sc, h) \in Nat
         /\ mirror[sc][h] \in Nat /\ incWrites[sc][h] \in Nat
         /\ rejected \in Nat /\ strays[h] \in Nat
BY HeldTyped, FS_CardinalityType DEF TypeOK, Counters, MirrorInv, Covered, Owed

LEMMA MirrorInit ==
  ASSUME Init
  PROVE  MirrorInv
<1>1. ASSUME NEW sc \in Scopes, NEW h \in Hours
      PROVE  Covered(sc, h)
  <2>1. Pending(sc, h) = {}
    BY DEF Init, Pending
  <2>2. IsFiniteSet(Pending(sc, h)) /\ Owed(sc, h) = 0
    BY <2>1, FS_EmptySet DEF Owed
  <2>3. /\ Held(sc, h) = 0 /\ used[sc][h] = 0 /\ mirror[sc][h] = 0 /\ incWrites[sc][h] = 0
        /\ strays[h] = 0 /\ rejected = 0
    BY HoldersFiniteInit DEF Init, NoneUsed
  <2> QED
    BY <2>2, <2>3 DEF Covered, Credit
<1> QED
  BY <1>1, HoldersFiniteInit DEF MirrorInv

\* The steps of the callers: a slot is entered in the mirror when it is taken,
\* a decrement is issued when it is given back.
LEMMA CallersCovered ==
  ASSUME TypeOK, MirrorInv, NEW c \in Callers, NEW sc \in Scopes, NEW h \in Hours,
         Admit(c) \/ SendOnSlot(c) \/ RunRefund(c) \/ Loses(c)
  PROVE  Covered(sc, h)'
<1>0. HoldersFinite /\ Covered(sc, h)
  BY DEF MirrorInv
<1>1. /\ used[sc][h] \in Nat /\ Held(sc, h) \in Nat /\ Owed(sc, h) \in Nat
      /\ mirror[sc][h] \in Nat /\ incWrites[sc][h] \in Nat
      /\ rejected \in Nat /\ strays[h] \in Nat
  BY CreditTyped
<1>t. used \in Counters /\ incWrites \in Counters
  BY DEF TypeOK
<1>2. CASE Admit(c)
  <2>1. who[c] \in Senders /\ at[c] \in Hours
    BY DEF TypeOK
  <2>2. /\ used' = Consume(used, who[c], at[c])
        /\ incWrites' = Consume(incWrites, who[c], at[c])
        /\ UNCHANGED <<mirror, decWrites, rejected, strays>>
    BY <1>2 DEF Admit, MirrorIncrement, history
  <2>3. /\ used'[sc][h] = IF Concerns(sc, h, who[c], at[c]) THEN used[sc][h] + 1 ELSE used[sc][h]
        /\ incWrites'[sc][h] = IF Concerns(sc, h, who[c], at[c]) THEN incWrites[sc][h] + 1
                               ELSE incWrites[sc][h]
    BY <1>t, <2>1, <2>2, ConsumeExact
  <2>4. Held(sc, h)' = IF Concerns(sc, h, who[c], at[c]) THEN Held(sc, h) + 1 ELSE Held(sc, h)
    BY <1>0, <1>2, AdmitTakes
  <2>5. Pending(sc, h)' = Pending(sc, h) /\ Owed(sc, h)' = Owed(sc, h)
    BY <2>2, OwedStays
  <2> QED
    BY <1>0, <1>1, <2>2, <2>3, <2>4, <2>5 DEF Covered, Credit
<1>3. CASE SendOnSlot(c) \/ Loses(c)
  <2>1. GivesUp(c) /\ who[c] \in Senders /\ granted[c] \in Hours
    BY <1>3, SlotGivenUp
  <2>2. Held(sc, h)' \in Int /\ Held(sc, h)' <= Held(sc, h)
    BY <1>0, <1>1, <2>1, GivingUp
  <2>3. UNCHANGED <<used, mirror, incWrites, decWrites, rejected, strays>>
    BY <1>3 DEF SendOnSlot, Loses, Abandon, redis, mirrorVars
  <2>4. Pending(sc, h)' = Pending(sc, h) /\ Owed(sc, h)' = Owed(sc, h)
    BY <2>3, OwedStays
  <2> QED
    BY <1>0, <1>1, <2>2, <2>3, <2>4 DEF Covered, Credit
<1>4. CASE RunRefund(c)
  <2>1. GivesUp(c) /\ who[c] \in Senders /\ granted[c] \in Hours /\ at[c] \in Hours
    BY <1>4, SlotGivenUp
  <2>2. /\ Held(sc, h)' = IF Concerns(sc, h, who[c], granted[c]) THEN Held(sc, h) - 1 ELSE Held(sc, h)
        /\ Concerns(sc, h, who[c], granted[c]) => Held(sc, h) > 0
    BY <1>0, <2>1, GivingUp
  <2>3. /\ used' = Refund(used, who[c], at[c])
        /\ decWrites' = [decWrites EXCEPT ![who[c]][at[c]] = @ + 1]
        /\ UNCHANGED <<mirror, incWrites, rejected>>
        /\ strays \in [Hours -> Nat]
        /\ strays' = IF at[c] = granted[c] THEN strays ELSE [strays EXCEPT ![at[c]] = @ + 1]
    BY <1>4 DEF RunRefund, TypeOK
  <2>4. used'[sc][h] = IF Concerns(sc, h, who[c], at[c]) /\ used[sc][h] > 0
                       THEN used[sc][h] - 1 ELSE used[sc][h]
    BY <1>t, <2>1, <2>3, RefundExact
  <2>5. /\ IsFiniteSet(Pending(sc, h)')
        /\ Owed(sc, h)' = IF Concerns(sc, h, who[c], at[c]) THEN Owed(sc, h) + 1 ELSE Owed(sc, h)
    BY <1>0, <2>1, <2>3, OwedAdded DEF Covered
  <2>6. CASE at[c] = granted[c]
    BY <1>0, <1>1, <2>2, <2>3, <2>4, <2>5, <2>6 DEF Covered, Credit
  <2>7. CASE at[c] # granted[c]
    <3>1. strays'[h] = IF h = at[c] THEN strays[h] + 1 ELSE strays[h]
      BY <2>1, <2>3, <2>7
    <3> QED
      BY <1>0, <1>1, <2>2, <2>3, <2>4, <2>5, <3>1 DEF Covered, Credit, Concerns
  <2> QED
    BY <2>6, <2>7
<1> QED
  BY <1>2, <1>3, <1>4

\* The writes that arrive at Postgres, or do not.
LEMMA WritesCovered ==
  ASSUME TypeOK, MirrorInv, NEW sc \in Scopes, NEW h \in Hours,
         \/ \E sd \in Scopes, k \in Hours : ApplyIncrement(sd, k)
         \/ \E s \in Senders, k \in Hours : ApplyDecrement(s, k)
         \/ LoseMirrorWrite
  PROVE  Covered(sc, h)'
<1>0. HoldersFinite /\ Covered(sc, h)
  BY DEF MirrorInv
<1>1. /\ used[sc][h] \in Nat /\ Held(sc, h) \in Nat /\ Owed(sc, h) \in Nat
      /\ mirror[sc][h] \in Nat /\ incWrites[sc][h] \in Nat
      /\ rejected \in Nat /\ strays[h] \in Nat
  BY CreditTyped
<1>t. mirror \in Counters /\ incWrites \in Counters
  BY DEF TypeOK
<1>2. UNCHANGED <<used, callerVars, strays>>
  BY DEF ApplyIncrement, ApplyDecrement, LoseMirrorWrite, redis, history
<1>3. Held(sc, h)' = Held(sc, h)
  BY <1>2 DEF callerVars, Held, Holders
<1>4. ASSUME NEW sd \in Scopes, NEW k \in Hours, ApplyIncrement(sd, k)
      PROVE  Covered(sc, h)'
  <2>1. /\ mirror'[sc][h] + incWrites'[sc][h] = mirror[sc][h] + incWrites[sc][h]
        /\ mirror'[sc][h] \in Int /\ incWrites'[sc][h] \in Int
        /\ UNCHANGED <<decWrites, rejected>>
    BY <1>1, <1>t, <1>4 DEF ApplyIncrement, Counters, history
  <2>2. Pending(sc, h)' = Pending(sc, h) /\ Owed(sc, h)' = Owed(sc, h)
    BY <2>1, OwedStays
  <2> QED
    BY <1>0, <1>1, <1>2, <1>3, <2>1, <2>2 DEF Covered, Credit
<1>5. ASSUME NEW s \in Senders, NEW k \in Hours, ApplyDecrement(s, k)
      PROVE  Covered(sc, h)'
  <2>1. /\ mirror' = Refund(mirror, s, k)
        /\ decWrites[s][k] > 0 /\ decWrites' = [decWrites EXCEPT ![s][k] = @ - 1]
        /\ UNCHANGED <<incWrites, rejected>>
    BY <1>5 DEF ApplyDecrement, history
  <2>2. mirror'[sc][h] = IF Concerns(sc, h, s, k) /\ mirror[sc][h] > 0
                         THEN mirror[sc][h] - 1 ELSE mirror[sc][h]
    BY <1>t, <2>1, RefundExact
  <2>3. /\ IsFiniteSet(Pending(sc, h)')
        /\ Owed(sc, h)' = IF Concerns(sc, h, s, k) THEN Owed(sc, h) - 1 ELSE Owed(sc, h)
    BY <1>0, <2>1, OwedRemoved DEF Covered
  <2> QED
    BY <1>0, <1>1, <1>2, <1>3, <2>1, <2>2, <2>3 DEF Covered, Credit
<1>6. CASE LoseMirrorWrite
  <2>0. rejected' = rejected + 1 /\ UNCHANGED mirror
    BY <1>6 DEF LoseMirrorWrite
  <2>1. ASSUME NEW sd \in Scopes, NEW k \in Hours,
               incWrites' = [incWrites EXCEPT ![sd][k] = @ - 1], UNCHANGED decWrites
        PROVE  Covered(sc, h)'
    <3>1. incWrites'[sc][h] \in Int /\ incWrites'[sc][h] + 1 >= incWrites[sc][h]
      BY <1>1, <1>t, <2>1 DEF Counters
    <3>2. Pending(sc, h)' = Pending(sc, h) /\ Owed(sc, h)' = Owed(sc, h)
      BY <2>1, OwedStays
    <3> QED
      BY <1>0, <1>1, <1>2, <1>3, <2>0, <3>1, <3>2 DEF Covered, Credit
  <2>2. ASSUME NEW s \in Senders, NEW k \in Hours, decWrites[s][k] > 0,
               decWrites' = [decWrites EXCEPT ![s][k] = @ - 1], UNCHANGED incWrites
        PROVE  Covered(sc, h)'
    <3>1. /\ IsFiniteSet(Pending(sc, h)')
          /\ Owed(sc, h)' = IF Concerns(sc, h, s, k) THEN Owed(sc, h) - 1 ELSE Owed(sc, h)
      BY <1>0, <2>2, OwedRemoved DEF Covered
    <3> QED
      BY <1>0, <1>1, <1>2, <1>3, <2>0, <2>2, <3>1 DEF Covered, Credit
  <2> QED
    BY <1>6, <2>1, <2>2 DEF LoseMirrorWrite
<1> QED
  BY <1>4, <1>5, <1>6

LEMMA MirrorKept ==
  ASSUME TypeOK, MirrorInv, [Next]_vars
  PROVE  MirrorInv'
<1>1. HoldersFinite /\ HoldersFinite'
  BY HoldersFiniteKept DEF MirrorInv
<1> SUFFICES ASSUME NEW sc \in Scopes, NEW h \in Hours
             PROVE  Covered(sc, h)'
  BY <1>1 DEF MirrorInv
<1>2. Covered(sc, h)
  BY DEF MirrorInv
<1>3. CASE \/ \E sd \in Scopes, k \in Hours : ApplyIncrement(sd, k)
           \/ \E s \in Senders, k \in Hours : ApplyDecrement(s, k)
           \/ LoseMirrorWrite
  BY <1>3, WritesCovered
<1>4. ASSUME NEW c \in Callers, Admit(c) \/ SendOnSlot(c) \/ RunRefund(c) \/ Loses(c)
      PROVE  Covered(sc, h)'
  BY <1>4, CallersCovered
<1>5. CASE Flush
  <2>1. Held(sc, h)' = Held(sc, h) /\ UNCHANGED <<mirror, incWrites, decWrites, rejected, strays>>
    BY <1>5 DEF Flush, mirrorVars, callerVars, Held, Holders
  <2>2. Pending(sc, h)' = Pending(sc, h) /\ Owed(sc, h)' = Owed(sc, h)
    BY <2>1, OwedStays
  <2>3. used'[sc][h] = 0 /\ used[sc][h] \in Nat
    BY <1>5 DEF Flush, NoneUsed, TypeOK, Counters
  <2>4. /\ Owed(sc, h) \in Nat /\ Held(sc, h) \in Nat
        /\ mirror[sc][h] \in Nat /\ incWrites[sc][h] \in Nat
        /\ rejected \in Nat /\ strays[h] \in Nat
    BY CreditTyped
  <2> QED
    BY <1>2, <2>1, <2>2, <2>3, <2>4 DEF Covered, Credit
<1>6. CASE Still /\ UNCHANGED <<mirror, incWrites, decWrites, rejected>>
  <2>1. Held(sc, h)' = Held(sc, h)
    BY <1>1, <1>6, Staying DEF Still
  <2>2. Pending(sc, h)' = Pending(sc, h) /\ Owed(sc, h)' = Owed(sc, h)
    BY <1>6, OwedStays
  <2> QED
    BY <1>2, <1>6, <2>1, <2>2 DEF Still, Covered, Credit
<1> QED
  BY <1>3, <1>4, <1>5, <1>6, StepsOfAccounts, StepsOfMirror

LEMMA MirrorIsEnough ==
  ASSUME TypeOK, MirrorInv
  PROVE  MirrorCoversUsage
<1> SUFFICES ASSUME NEW sc \in Scopes, NEW h \in Hours
             PROVE  Credit(sc, h) >= used[sc][h]
  BY DEF MirrorCoversUsage, Credit
<1>1. Owed(sc, h) + used[sc][h] <= Credit(sc, h)
  BY DEF MirrorInv, Covered
<1> QED
  BY <1>1, CreditTyped DEF Credit

\* The mirror never reports fewer slots than Redis has counted, but for what
\* stray refunds and rejected writes took from it.
THEOREM MirrorNeverShort == Spec => []MirrorCoversUsage
<1> QED
  BY TypeInit, TypeStep, MirrorInit, MirrorKept, MirrorIsEnough, PTL DEF Spec
-------------------------------------------------------------------------------
(* The sum of the senders' counters *)

\* What holds of 0 and of a successor holds of every number.
LEMMA SetInduction ==
  ASSUME NEW T, 0 \in T, \A n \in Nat : n \in T => n + 1 \in T
  PROVE  Nat \subseteq T
<1> SUFFICES ASSUME Nat \ T # {} PROVE FALSE
  OBVIOUS
<1>1. PICK R : R = OpToRel(<, Nat)
  OBVIOUS
<1>2. PICK n \in Nat \ T : \A m \in Nat \ T : <<m, n>> \notin R
  BY <1>1, WFMin, NatLessThanWellFounded, Zenon
<1>3. \A m \in Nat : m < n => <<m, n>> \in R
  BY <1>1 DEF OpToRel
<1>4. n # 0 /\ n - 1 \in Nat /\ n - 1 < n /\ (n - 1) + 1 = n
  BY <1>2
<1>5. n - 1 \in T
  BY <1>2, <1>3, <1>4
<1> QED
  BY <1>2, <1>4, <1>5

\* What holds of a set if it holds of the set without each element holds of
\* every finite set.
LEMMA SubsetInduction ==
  ASSUME NEW D, IsFiniteSet(D), NEW T,
         \A S \in SUBSET D : (\A x \in S : S \ {x} \in T) => S \in T
  PROVE  SUBSET D \subseteq T
<1> DEFINE Sized(n) == \A S \in SUBSET D : Cardinality(S) = n => S \in T
           N == {n \in Nat : Sized(n)}
<1>1. \A S \in SUBSET D : IsFiniteSet(S) /\ Cardinality(S) \in Nat
  BY FS_Subset, FS_CardinalityType
<1>2. 0 \in N
  <2> SUFFICES ASSUME NEW S \in SUBSET D, Cardinality(S) = 0 PROVE S \in T
    OBVIOUS
  <2>1. S = {}
    BY <1>1, FS_EmptySet
  <2> QED
    BY <2>1
<1>3. ASSUME NEW n \in Nat, n \in N
      PROVE  n + 1 \in N
  <2> SUFFICES ASSUME NEW S \in SUBSET D, Cardinality(S) = n + 1 PROVE S \in T
    OBVIOUS
  <2>1. ASSUME NEW x \in S PROVE S \ {x} \in T
    <3>1. Cardinality(S \ {x}) = n
      BY <1>1, FS_RemoveElement
    <3> QED
      BY <1>3, <3>1
  <2> QED
    BY <2>1
<1> HIDE DEF N
<1>4. Nat \subseteq N
  BY <1>2, <1>3, SetInduction
<1> QED
  BY <1>1, <1>4 DEF N

\* The element a sum takes first, and what it means to be the sum of u.
First(S) == CHOOSE x \in S : TRUE
Sums(total, u) ==
  \A S \in SUBSET Senders :
    total[S] = IF S = {} THEN 0 ELSE u[First(S)] + total[S \ {First(S)}]

LEMMA FirstIsIn ==
  ASSUME NEW S, S # {}
  PROVE  First(S) \in S
BY DEF First

LEMMA SumsAreNat ==
  ASSUME NEW u \in [Senders -> Nat], NEW total, Sums(total, u)
  PROVE  \A S \in SUBSET Senders : total[S] \in Nat
<1> DEFINE T == {S \in SUBSET Senders : total[S] \in Nat}
<1>1. ASSUME NEW S \in SUBSET Senders, \A x \in S : S \ {x} \in T
      PROVE  S \in T
  <2>1. CASE S = {}
    <3>1. total[S] = 0
      BY <2>1 DEF Sums
    <3> QED
      BY <3>1
  <2>2. CASE S # {}
    <3>1. PICK x \in S : x = First(S)
      BY <2>2, FirstIsIn
    <3>2. total[S] = u[x] + total[S \ {x}]
      BY <2>2, <3>1 DEF Sums
    <3>3. u[x] \in Nat /\ total[S \ {x}] \in Nat
      BY <1>1
    <3> QED
      BY <3>2, <3>3
  <2> QED
    BY <2>1, <2>2
<1> HIDE DEF T
<1>2. SUBSET Senders \subseteq T
  BY <1>1, SubsetInduction, LimiterConfig
<1> QED
  BY <1>2 DEF T

\* A sum changes by what one of its numbers changes by.
LEMMA SumChanges ==
  ASSUME NEW u \in [Senders -> Nat], NEW v \in [Senders -> Nat], NEW s \in Senders,
         NEW d \in Int, v[s] = u[s] + d, \A x \in Senders \ {s} : v[x] = u[x],
         NEW before, NEW after, Sums(before, u), Sums(after, v)
  PROVE  \A S \in SUBSET Senders : after[S] = before[S] + (IF s \in S THEN d ELSE 0)
<1> DEFINE T == {S \in SUBSET Senders : after[S] = before[S] + (IF s \in S THEN d ELSE 0)}
<1>0. \A S \in SUBSET Senders : before[S] \in Nat /\ after[S] \in Nat
  BY SumsAreNat
<1>1. ASSUME NEW S \in SUBSET Senders, \A x \in S : S \ {x} \in T
      PROVE  S \in T
  <2>1. CASE S = {}
    <3>1. before[S] = 0 /\ after[S] = 0
      BY <2>1 DEF Sums
    <3> QED
      BY <2>1, <3>1
  <2>2. CASE S # {}
    <3>1. PICK x \in S : x = First(S)
      BY <2>2, FirstIsIn
    <3>2. /\ before[S] = u[x] + before[S \ {x}]
          /\ after[S] = v[x] + after[S \ {x}]
      BY <2>2, <3>1 DEF Sums
    <3>3. after[S \ {x}] = before[S \ {x}] + (IF s \in S \ {x} THEN d ELSE 0)
      BY <1>1
    <3>4. u[x] \in Nat /\ v[x] \in Nat /\ before[S \ {x}] \in Nat /\ after[S \ {x}] \in Nat
      BY <1>0
    <3>5. CASE x = s
      BY <3>2, <3>3, <3>4, <3>5
    <3>6. CASE x # s
      BY <3>2, <3>3, <3>4, <3>6
    <3> QED
      BY <3>5, <3>6
  <2> QED
    BY <2>1, <2>2
<1> HIDE DEF T
<1>2. SUBSET Senders \subseteq T
  BY <1>1, SubsetInduction, LimiterConfig
<1> QED
  BY <1>2 DEF T

\* Every family of numbers has a sum.
LEMMA SumExists ==
  ASSUME NEW u \in [Senders -> Nat]
  PROVE  \E total : total = [S \in SUBSET Senders |->
                                IF S = {} THEN 0
                                ELSE u[First(S)] + total[S \ {First(S)}]]
<1> DEFINE Added(g, S) == IF S = {} THEN 0 ELSE u[First(S)] + g[S \ {First(S)}]
           UpTo(n) == {S \in SUBSET Senders : Cardinality(S) <= n}
           Reaches(n) == \E g : \A S \in UpTo(n) : g[S] = Added(g, S)
           N == {n \in Nat : Reaches(n)}
<1>1. \A S \in SUBSET Senders : IsFiniteSet(S) /\ Cardinality(S) \in Nat
  BY LimiterConfig, FS_Subset, FS_CardinalityType
<1>2. \A S \in SUBSET Senders : S # {} =>
        /\ First(S) \in S /\ S \ {First(S)} \in SUBSET Senders
        /\ Cardinality(S \ {First(S)}) = Cardinality(S) - 1
  BY <1>1, FirstIsIn, FS_RemoveElement
<1>3. 0 \in N
  <2> DEFINE g == [S \in SUBSET Senders |-> 0]
  <2>1. \A S \in UpTo(0) : S = {} /\ g[S] = 0
    BY <1>1, FS_EmptySet
  <2>2. Reaches(0)
    BY <2>1
  <2> HIDE DEF Reaches
  <2> QED
    BY <2>2
<1>4. ASSUME NEW n \in Nat, n \in N
      PROVE  n + 1 \in N
  <2>1. PICK g : \A S \in UpTo(n) : g[S] = Added(g, S)
    BY <1>4
  <2> DEFINE more == [S \in SUBSET Senders |-> IF S \in UpTo(n) THEN g[S] ELSE Added(g, S)]
  <2>2. ASSUME NEW S \in UpTo(n + 1)
        PROVE  more[S] = Added(more, S)
    <3>1. more[S] = Added(g, S)
      BY <2>1
    <3>2. S # {} => S \ {First(S)} \in UpTo(n)
      BY <1>1, <1>2
    <3>3. Added(more, S) = Added(g, S)
      BY <3>2
    <3> QED
      BY <3>1, <3>3
  <2> HIDE DEF more
  <2>3. \A S \in UpTo(n + 1) : more[S] = Added(more, S)
    BY <2>2
  <2>4. Reaches(n + 1)
    BY <2>3, Zenon
  <2> HIDE DEF Reaches
  <2> QED
    BY <2>4
<1> HIDE DEF N
<1>5. Nat \subseteq N
  BY <1>3, <1>4, SetInduction
<1>6. Cardinality(Senders) \in N
  BY <1>1, <1>5
<1>7. PICK g : \A S \in UpTo(Cardinality(Senders)) : g[S] = Added(g, S)
  BY <1>6 DEF N
<1>8. \A S \in SUBSET Senders : S \in UpTo(Cardinality(Senders))
  BY LimiterConfig, FS_Subset
<1> DEFINE total == [S \in SUBSET Senders |-> Added(g, S)]
<1>9. \A S \in SUBSET Senders : total[S] = g[S]
  BY <1>7, <1>8
<1>10. \A S \in SUBSET Senders : Added(total, S) = Added(g, S)
  BY <1>2, <1>9
<1>11. total = [S \in SUBSET Senders |-> Added(total, S)]
  BY <1>10
<1> HIDE DEF total
<1> QED
  BY <1>11

\* What every sender has used in an hour, under the senders' own keys.
Counted(h) == [s \in Senders |-> used[s][h]]

SumInv ==
  Strategy = "both" /\ Undisturbed =>
    \A h \in Hours : \A total : Sums(total, Counted(h)) => used[GlobalScope][h] = total[Senders]

LEMMA CountedTyped ==
  ASSUME TypeOK, NEW h \in Hours
  PROVE  Counted(h) \in [Senders -> Nat]
BY DEF TypeOK, Counters, Scopes, Counted

\* The value of the sum as GlobalIsSum writes it.
LEMMA SumAsWritten ==
  ASSUME TypeOK, SumInv
  PROVE  GlobalIsSum
<1> SUFFICES ASSUME Strategy = "both", Undisturbed, NEW h \in Hours
             PROVE  used[GlobalScope][h] =
                      LET total[S \in SUBSET Senders] ==
                            IF S = {} THEN 0
                            ELSE LET s == CHOOSE x \in S : TRUE IN used[s][h] + total[S \ {s}]
                      IN total[Senders]
  BY DEF GlobalIsSum
<1> DEFINE Body(g) == [S \in SUBSET Senders |->
                         IF S = {} THEN 0
                         ELSE LET s == CHOOSE x \in S : TRUE IN used[s][h] + g[S \ {s}]]
           total == CHOOSE g : g = Body(g)
<1>1. \E g : g = Body(g)
  <2>1. PICK u : u = Counted(h)
    OBVIOUS
  <2>2. u \in [Senders -> Nat]
    BY <2>1, CountedTyped
  <2>3. PICK g : g = [S \in SUBSET Senders |->
                        IF S = {} THEN 0 ELSE u[First(S)] + g[S \ {First(S)}]]
    BY <2>2, SumExists
  <2>4. \A S \in SUBSET Senders : S # {} => u[First(S)] = used[First(S)][h]
    BY <2>1, FirstIsIn DEF Counted
  <2>5. g = [S \in SUBSET Senders |->
               IF S = {} THEN 0 ELSE used[First(S)][h] + g[S \ {First(S)}]]
    BY <2>3, <2>4
  <2> QED
    BY <2>5 DEF First
<1>2. total = Body(total)
  BY <1>1, Zenon
<1> HIDE DEF total
<1>3. Sums(total, Counted(h))
  BY <1>2, FirstIsIn DEF Sums, Counted, First
<1>4. used[GlobalScope][h] = total[Senders]
  BY <1>3 DEF SumInv
<1> QED
  BY <1>4 DEF total

LEMMA SumInit ==
  ASSUME Init
  PROVE  SumInv
<1> SUFFICES ASSUME NEW h \in Hours, NEW total, Sums(total, Counted(h))
             PROVE  used[GlobalScope][h] = total[Senders]
  BY DEF SumInv
<1> DEFINE T == {S \in SUBSET Senders : total[S] = 0}
<1>1. used[GlobalScope][h] = 0 /\ \A s \in Senders : Counted(h)[s] = 0
  BY DEF Init, NoneUsed, Scopes, Counted
<1>2. ASSUME NEW S \in SUBSET Senders, \A x \in S : S \ {x} \in T
      PROVE  S \in T
  <2>1. CASE S = {}
    <3>1. total[S] = 0
      BY <2>1 DEF Sums
    <3> QED
      BY <3>1
  <2>2. CASE S # {}
    <3>1. PICK x \in S : x = First(S)
      BY <2>2, FirstIsIn
    <3>2. total[S] = Counted(h)[x] + total[S \ {x}]
      BY <2>2, <3>1 DEF Sums
    <3>3. total[S \ {x}] = 0 /\ Counted(h)[x] = 0
      BY <1>1, <1>2
    <3> QED
      BY <3>2, <3>3
  <2> QED
    BY <2>1, <2>2
<1> HIDE DEF T
<1>3. SUBSET Senders \subseteq T
  BY <1>2, SubsetInduction, LimiterConfig
<1> QED
  BY <1>1, <1>3 DEF T

\* What a script did to the counters of a sender's scopes.
Moved(s, k, d) ==
  \A sc \in Scopes, h \in Hours :
    used'[sc][h] = used[sc][h] + (IF Concerns(sc, h, s, k) THEN d ELSE 0)

\* A script that moves all of a sender's scopes alike keeps the sum.
LEMMA MovingKeepsSum ==
  ASSUME TypeOK, TypeOK', SumInv, Undisturbed, Strategy = "both",
         NEW s \in Senders, NEW k \in Hours, NEW d \in Int, Moved(s, k, d)
  PROVE  SumInv'
<1> SUFFICES ASSUME NEW h \in Hours, NEW after, Sums(after, Counted(h)')
             PROVE  used'[GlobalScope][h] = after[Senders]
  BY DEF SumInv
<1>1. PICK u, v : u = Counted(h) /\ v = Counted(h)'
  OBVIOUS
<1>2. u \in [Senders -> Nat]
  BY <1>1, CountedTyped
<1>3. v \in [Senders -> Nat]
  BY <1>1 DEF TypeOK, Counters, Scopes, Counted
<1>4. PICK before : before = [S \in SUBSET Senders |->
                                IF S = {} THEN 0
                                ELSE u[First(S)] + before[S \ {First(S)}]]
  BY <1>2, SumExists
<1>5. Sums(before, u)
  BY <1>4 DEF Sums
<1>6. Sums(after, v)
  BY <1>1
<1>7. used[GlobalScope][h] = before[Senders]
  BY <1>1, <1>5 DEF SumInv
<1>8. \A sc \in {s, GlobalScope} : sc \in Scopes /\ sc \in ResolveScopes(s)
  BY DEF ResolveScopes, Scopes
<1>9. \A x \in Senders \ {s} : x \in Scopes /\ x \notin ResolveScopes(s)
  BY RateConfig DEF ResolveScopes, Scopes
<1>10. PICK e \in Int : e = IF h = k THEN d ELSE 0
  OBVIOUS
<1>11. /\ v[s] = u[s] + e
       /\ used'[GlobalScope][h] = used[GlobalScope][h] + e
  BY <1>1, <1>8, <1>10 DEF Moved, Concerns, Counted
<1>12. ASSUME NEW x \in Senders \ {s} PROVE v[x] = u[x]
  <2>1. v[x] = u[x] + 0
    BY <1>1, <1>9 DEF Moved, Concerns, Counted
  <2> QED
    BY <1>2, <2>1
<1>13. after[Senders] = before[Senders] + e
  BY <1>2, <1>3, <1>5, <1>6, <1>11, <1>12, SumChanges
<1> QED
  BY <1>7, <1>11, <1>13

LEMMA SumKept ==
  ASSUME TypeOK, CountWithinLimit, Accounts, SumInv, [Next]_vars
  PROVE  SumInv'
<1>1. TypeOK'
  BY TypeStep
<1>2. CASE ~(Strategy = "both" /\ Undisturbed')
  BY <1>2 DEF SumInv
<1>3. CASE Strategy = "both" /\ Undisturbed'
  <2>1. CASE Still \/ \E c \in Callers : SendOnSlot(c) \/ Loses(c)
    <3>1. UNCHANGED <<used, strays, flushes>>
      BY <2>1 DEF Still, SendOnSlot, Loses, Abandon, redis
    <3> QED
      BY <3>1 DEF SumInv, Counted, Undisturbed
  <2>2. CASE Flush
    BY <1>3, <2>2 DEF Flush, Undisturbed, TypeOK
  <2>3. ASSUME NEW c \in Callers, Admit(c)
        PROVE  SumInv'
    <3>1. who[c] \in Senders /\ at[c] \in Hours /\ used \in Counters
      BY DEF TypeOK
    <3>2. used' = Consume(used, who[c], at[c]) /\ UNCHANGED <<strays, flushes>>
      BY <2>3 DEF Admit, history
    <3>3. Moved(who[c], at[c], 1)
      <4>1. \A sc \in Scopes, h \in Hours : used[sc][h] \in Nat
        BY <3>1 DEF Counters
      <4> QED
        BY <3>1, <3>2, <4>1, ConsumeExact DEF Moved
    <3> QED
      BY <1>1, <1>3, <3>1, <3>2, <3>3, MovingKeepsSum DEF Undisturbed
  <2>4. ASSUME NEW c \in Callers, RunRefund(c)
        PROVE  SumInv'
    <3>1. /\ who[c] \in Senders /\ at[c] \in Hours /\ granted[c] \in Hours
          /\ used \in Counters /\ strays \in [Hours -> Nat]
      BY DEF TypeOK
    <3>2. /\ used' = Refund(used, who[c], at[c]) /\ UNCHANGED <<flushes, sends, lost>>
          /\ strays' = IF at[c] = granted[c] THEN strays ELSE [strays EXCEPT ![at[c]] = @ + 1]
      BY <2>4 DEF RunRefund
    <3>3. at[c] = granted[c] /\ strays' = strays
      BY <1>3, <3>1, <3>2 DEF Undisturbed
    <3>4. Undisturbed
      BY <1>3, <3>2, <3>3 DEF Undisturbed
    <3>5. ASSUME NEW sc \in Scopes, NEW h \in Hours
          PROVE  used'[sc][h] = used[sc][h] + (IF Concerns(sc, h, who[c], at[c]) THEN -1 ELSE 0)
      <4>1. HoldersFinite /\ Account(sc, h)
        BY <3>4 DEF Accounts
      <4>2. used[sc][h] \in Nat /\ sends[sc][h] \in Nat /\ lost[sc][h] \in Nat /\ Held(sc, h) \in Nat
        BY <4>1, NumbersTyped
      <4>3. Concerns(sc, h, who[c], at[c]) => Held(sc, h) > 0
        BY <2>4, <3>3, <4>1, SlotGivenUp, GivingUp
      <4>4. Concerns(sc, h, who[c], at[c]) => used[sc][h] > 0
        BY <4>1, <4>2, <4>3 DEF Account
      <4>5. used'[sc][h] = IF Concerns(sc, h, who[c], at[c]) /\ used[sc][h] > 0
                           THEN used[sc][h] - 1 ELSE used[sc][h]
        BY <3>1, <3>2, RefundExact
      <4> QED
        BY <4>2, <4>4, <4>5
    <3>6. Moved(who[c], at[c], -1)
      BY <3>5 DEF Moved
    <3>7. -1 \in Int
      OBVIOUS
    <3> QED
      BY <1>1, <1>3, <3>1, <3>4, <3>6, <3>7, MovingKeepsSum
  <2> QED
    BY <2>1, <2>2, <2>3, <2>4, StepsOfAccounts
<1> QED
  BY <1>2, <1>3

\* Under 'both' the queue-wide counter of an hour is the sum of the senders',
\* for any number of senders: a script moves all scopes of a call or none, and
\* a refund finds every one of them above zero because its slot is in them.
THEOREM GlobalCountIsSum == Spec => []GlobalIsSum
<1> QED
  BY TypeInit, TypeStep, CapInit, CapStep, AccountsInit, AccountsKept, SumInit, SumKept,
     SumAsWritten, PTL DEF Spec
===============================================================================
