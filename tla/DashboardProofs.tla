--------------------------- MODULE DashboardProofs ---------------------------
(***************************************************************************)
(* Theorems about Dashboard, for any lists, files, spellings, keys and     *)
(* number of acts: the request numbers of the hooks keep late answers out, *)
(* a list view never comes to rest on an empty page beyond its last one, a *)
(* form makes a second campaign only after its user was told that the      *)
(* earlier submission had failed, and the recipients that are shown are    *)
(* the ones that are kept and sent.                                        *)
(***************************************************************************)
EXTENDS Dashboard, ListTheorems

-----------------------------------------------------------------------------
(* The hooks *)

IsRequest(r) ==
  r = [hook |-> r.hook, id |-> r.id, key |-> r.key, phase |-> r.phase,
       error |-> r.error, total |-> r.total, rows |-> r.rows]

Numbered ==
  /\ FetchTypeOK
  /\ held = [h \in Hooks |-> held[h]]
  /\ \A r \in requests : IsRequest(r)

\* No hook goes back to an older answer in this step.
Forward == \A h \in Hooks : held'[h] = Nothing \/ held'[h].id >= held[h].id

\* What the effects of a render do, whichever run and whatever they ask for.
EffectsRan(gone) ==
  LET base(h) == IF h \in gone THEN 0 ELSE latest[h] IN
  /\ latest' = [h \in Hooks |-> latest'[h]]
  /\ \A h \in Hooks : latest'[h] = base(h) \/ latest'[h] = base(h) + 1
  /\ held' = [h \in Hooks |-> IF h \in gone THEN Nothing ELSE held[h]]
  /\ \A r \in requests' :
       \/ r \in requests /\ r.hook \notin gone
       \/ /\ IsRequest(r)
          /\ r.hook \in Hooks /\ r.id = base(r.hook) + 1 /\ r.id = latest'[r.hook]

\* A step of one request: it moves on, or its callback runs.
MovesOn ==
  \E r \in requests : \E s : s.hook = r.hook /\ s.id = r.id /\ IsRequest(s) /\ Becomes(r, s)

\* RunEffects numbers what it issues and forgets what is gone.
LEMMA EffectsNumbered ==
  ASSUME NEW gone, Numbered, EffectsRan(gone)
  PROVE  Numbered' /\ Forward
<1>1. /\ latest \in [Hooks -> Nat]
      /\ \A h \in Hooks : held[h].id \in 0..latest[h]
      /\ \A r \in requests : r.hook \in Hooks /\ r.id \in 1..latest[r.hook]
  BY DEF Numbered, FetchTypeOK
<1>2. \A h \in Hooks : latest'[h] \in Nat /\ (h \notin gone => latest'[h] >= latest[h])
  BY <1>1 DEF EffectsRan
<1>3. latest' \in [Hooks -> Nat]
  BY <1>2 DEF EffectsRan
<1>4. \A h \in Hooks : held'[h] = IF h \in gone THEN Nothing ELSE held[h]
  BY DEF EffectsRan
<1>5. \A h \in Hooks : held'[h].id \in 0..latest'[h]
  BY <1>1, <1>2, <1>4 DEF Nothing
<1>6. \A r \in requests' : r.hook \in Hooks /\ r.id \in 1..latest'[r.hook]
  BY <1>1, <1>2 DEF EffectsRan
<1>9. \A r \in requests' : IsRequest(r)
  BY DEF EffectsRan, Numbered
<1>7. Forward
  BY <1>1, <1>4 DEF Forward
<1>8. held' = [h \in Hooks |-> held'[h]]
  BY <1>4 DEF EffectsRan
<1> QED
  BY <1>3, <1>5, <1>6, <1>7, <1>8, <1>9 DEF Numbered, FetchTypeOK

\* Moving on changes neither a number nor what is held.
LEMMA RequestsNumbered ==
  ASSUME Numbered, MovesOn
  PROVE  Numbered' /\ Forward
<1>0. PICK r \in requests : \E s : s.hook = r.hook /\ s.id = r.id /\ IsRequest(s) /\ Becomes(r, s)
  BY DEF MovesOn
<1>1. PICK s : s.hook = r.hook /\ s.id = r.id /\ IsRequest(s) /\ Becomes(r, s)
  BY <1>0
<1>2. UNCHANGED <<latest, held>> /\ requests' = (requests \ {r}) \cup {s}
  BY <1>1 DEF Becomes
<1>3. \A h \in Hooks : held[h].id >= held[h].id
  BY DEF Numbered, FetchTypeOK
<1> QED
  BY <1>1, <1>2, <1>3 DEF Numbered, FetchTypeOK, Forward

\* Only the callback of the newest request writes, and nothing is newer.
LEMMA CallbackNumbered ==
  ASSUME Numbered, NEW r \in requests, Settles(r)
  PROVE  Numbered' /\ Forward
<1>1. /\ latest \in [Hooks -> Nat]
      /\ \A h \in Hooks : held[h].id \in 0..latest[h]
      /\ \A q \in requests : q.hook \in Hooks /\ q.id \in 1..latest[q.hook]
      /\ held = [h \in Hooks |-> held[h]]
      /\ \A q \in requests : IsRequest(q)
  BY DEF Numbered, FetchTypeOK
<1>2. requests' \subseteq requests /\ latest' = latest
  BY DEF Settles
<1>3. CASE r.id = latest[r.hook]
  <2>1. held' = [held EXCEPT ![r.hook] = Settled(r)]
    BY <1>3 DEF Settles
  <2>2. Settled(r).id = latest[r.hook]
    BY <1>3 DEF Settled
  <2>3. \A h \in Hooks : held'[h] = IF h = r.hook THEN Settled(r) ELSE held[h]
    BY <1>1, <2>1
  <2>4. held' = [h \in Hooks |-> held'[h]]
    BY <1>1, <2>1
  <2> QED
    BY <1>1, <1>2, <2>2, <2>3, <2>4 DEF Numbered, FetchTypeOK, Forward
<1>4. CASE r.id # latest[r.hook]
  <2>1. held' = held
    BY <1>4 DEF Settles
  <2> QED
    BY <1>1, <1>2, <2>1 DEF Numbered, FetchTypeOK, Forward
<1> QED
  BY <1>3, <1>4

\* The requests are left alone.
Untouched == UNCHANGED fetchVars

LEMMA UntouchedNumbered ==
  ASSUME Numbered, Untouched
  PROVE  Numbered' /\ Forward
  BY DEF Numbered, FetchTypeOK, IsRequest, Untouched, fetchVars, Forward

\* Whatever a step is, it is one of the four for the hooks.
HookStep ==
  \/ Untouched
  \/ \E gone : EffectsRan(gone)
  \/ MovesOn
  \/ \E r \in requests : Settles(r)

LEMMA HookStepNumbered ==
  ASSUME Numbered, HookStep
  PROVE  Numbered' /\ Forward
BY EffectsNumbered, RequestsNumbered, CallbackNumbered, UntouchedNumbered DEF HookStep

\* RunEffects, with any set of hooks to run again.
LEMMA RunEffectsIsStep ==
  ASSUME Numbered, NEW gone, NEW rerun \in SUBSET Hooks, NEW ready, NEW key,
         RunEffects(gone, rerun, ready, key)
  PROVE  HookStep
<1>1. \A h \in Hooks : latest[h] \in Nat
  BY DEF Numbered, FetchTypeOK
<1>2. EffectsRan(gone)
  BY <1>1 DEF EffectsRan, RunEffects, Opened, IsRequest
<1> QED
  BY <1>2 DEF HookStep

\* The edits of a request leave its hook and its number alone.
SameRequest(r, s) == s.hook = r.hook /\ s.id = r.id /\ IsRequest(s)

LEMMA RequestEdits ==
  ASSUME NEW r, IsRequest(r), NEW total, NEW rows
  PROVE  /\ SameRequest(r, [r EXCEPT !.phase = "landed"])
         /\ SameRequest(r, [r EXCEPT !.total = total])
         /\ SameRequest(r, [r EXCEPT !.rows = rows])
         /\ SameRequest(r, [r EXCEPT !.phase = "landed", !.error = TRUE, !.total = 0, !.rows = 0])
<1> PICK h, i, k, p, e, t, w :
      r = [hook |-> h, id |-> i, key |-> k, phase |-> p, error |-> e, total |-> t, rows |-> w]
  BY DEF IsRequest
<1>1. [r EXCEPT !.phase = "landed"]
        = [hook |-> h, id |-> i, key |-> k, phase |-> "landed", error |-> e, total |-> t, rows |-> w]
  OBVIOUS
<1>2. [r EXCEPT !.total = total]
        = [hook |-> h, id |-> i, key |-> k, phase |-> p, error |-> e, total |-> total, rows |-> w]
  OBVIOUS
<1>3. [r EXCEPT !.rows = rows]
        = [hook |-> h, id |-> i, key |-> k, phase |-> p, error |-> e, total |-> t, rows |-> rows]
  OBVIOUS
<1>4. PICK yes : yes = TRUE
  OBVIOUS
<1>5. [r EXCEPT !.phase = "landed", !.error = yes, !.total = 0, !.rows = 0]
        = [hook |-> h, id |-> i, key |-> k, phase |-> "landed", error |-> yes, total |-> 0, rows |-> 0]
  <2> DEFINE landed == [r EXCEPT !.phase = "landed"]
             failed == [landed EXCEPT !.error = yes]
             unread == [failed EXCEPT !.total = 0]
  <2>1. landed = [hook |-> h, id |-> i, key |-> k, phase |-> "landed", error |-> e, total |-> t, rows |-> w]
    BY <1>1
  <2> HIDE DEF landed
  <2>2. failed = [hook |-> h, id |-> i, key |-> k, phase |-> "landed", error |-> yes, total |-> t, rows |-> w]
    BY <2>1
  <2> HIDE DEF failed
  <2>3. unread = [hook |-> h, id |-> i, key |-> k, phase |-> "landed", error |-> yes, total |-> 0, rows |-> w]
    BY <2>2
  <2> HIDE DEF unread
  <2>4. [unread EXCEPT !.rows = 0]
          = [hook |-> h, id |-> i, key |-> k, phase |-> "landed", error |-> yes, total |-> 0, rows |-> 0]
    BY <2>3
  <2> QED
    BY <2>4, Zenon DEF unread, failed, landed
<1>6. SameRequest(r, [r EXCEPT !.phase = "landed", !.error = yes, !.total = 0, !.rows = 0])
  BY <1>5 DEF SameRequest, IsRequest
<1>7. SameRequest(r, [r EXCEPT !.phase = "landed", !.error = TRUE, !.total = 0, !.rows = 0])
  BY <1>4, <1>6, Zenon
<1> QED
  BY <1>1, <1>2, <1>3, <1>7 DEF SameRequest, IsRequest

LEMMA ParsedIsSame ==
  ASSUME NEW r, IsRequest(r)
  PROVE  SameRequest(r, Parsed(r))
<1>1. SameRequest(r, r)
  BY DEF SameRequest
<1>2. SameRequest(r, [r EXCEPT !.phase = "landed"])
  BY RequestEdits
<1> QED
  BY <1>1, <1>2 DEF Parsed

\* Reading, landing and failing only move a request on.
LEMMA AnswersMoveOn ==
  ASSUME Numbered, NEW r \in requests,
         \/ Lands(r) \/ LandsAsError(r)
         \/ \E total, rows : ServerReads(r, total, rows)
  PROVE  MovesOn
<1> SUFFICES \E s : SameRequest(r, s) /\ Becomes(r, s)
  BY DEF MovesOn, SameRequest
<1>0. IsRequest(r)
  BY DEF Numbered
<1>1. CASE Lands(r)
  BY <1>0, <1>1, ParsedIsSame DEF Lands
<1>2. CASE LandsAsError(r)
  BY <1>0, <1>2, RequestEdits DEF LandsAsError
<1>3. ASSUME NEW total, NEW rows, ServerReads(r, total, rows)
      PROVE  \E s : SameRequest(r, s) /\ Becomes(r, s)
  <2> DEFINE s == [r EXCEPT !.total = total]
             t == [r EXCEPT !.rows = rows]
  <2>1. SameRequest(r, s) /\ SameRequest(r, t)
    BY <1>0, RequestEdits
  <2>2. Becomes(r, Parsed(s)) \/ Becomes(r, Parsed(t))
    BY <1>3 DEF ServerReads
  <2> HIDE DEF s, t
  <2>3. SameRequest(s, Parsed(s)) /\ SameRequest(t, Parsed(t))
    BY <2>1, ParsedIsSame DEF SameRequest
  <2> QED
    BY <2>1, <2>2, <2>3 DEF SameRequest
<1> QED
  BY <1>1, <1>2, <1>3

-----------------------------------------------------------------------------
\* What the actions of Dashboard do to the hooks.
LEMMA MountedAreHooks ==
  \A at : PageHooks(at) \subseteq Hooks /\ Mounted(at) \subseteq Hooks
BY DEF PageHooks, Mounted, Hooks, Views

LEMMA LoadIsHookStep ==
  ASSUME Numbered, LoadsDocument
  PROVE  HookStep
<1>1. PICK key : key = QueryKeys(route)
  OBVIOUS
<1>2. RunEffects(Hooks, {}, FALSE, key)
  BY <1>1 DEF LoadsDocument
<1> QED
  BY <1>2, RunEffectsIsStep

LEMMA PageIsHookStep ==
  ASSUME Numbered, NEW target, ShowsPage(target)
  PROVE  HookStep
<1> DEFINE dropped == PageHooks(route) \cup (Mounted(route) \ Mounted(route'))
           shown == PageHooks(route') \cup {h \in {"stats"} : recount' # recount}
<1>1. PICK gone, rerun, ready, key :
        /\ gone = dropped /\ rerun = shown /\ ready = Ready
        /\ key = QueryKeys(Guarded(target))'
  OBVIOUS
<1>2. rerun \in SUBSET Hooks
  BY <1>1, MountedAreHooks DEF Hooks
<1>3. RunEffects(gone, rerun, ready, key)
  BY <1>1 DEF ShowsPage
<1> QED
  BY <1>2, <1>3, RunEffectsIsStep

LEMMA RerunIsHookStep ==
  ASSUME Numbered, Rerun(route, Ready)
  PROVE  HookStep
<1> DEFINE changed == {h \in {"list", "stats"} : QueryKeys(route)[h] # QueryKeys(route)'[h]}
<1>1. PICK rerun, ready, key : rerun = changed /\ ready = Ready /\ key = QueryKeys(route)'
  OBVIOUS
<1>2. rerun \in SUBSET Hooks
  BY <1>1 DEF Hooks
<1>3. RunEffects({}, rerun, ready, key)
  BY <1>1 DEF Rerun
<1> QED
  BY <1>2, <1>3, RunEffectsIsStep

LEMMA ViewIsHookStep ==
  ASSUME Numbered, UsesView \/ Debounces
  PROVE  HookStep
<1>1. \/ \E wanted \in Searches : TypesSearch(route, wanted)
      \/ ClearsSearch(route, Ready)
      \/ TurnsPage(route, Ready)
      \/ Refreshes(route, Ready)
      \/ TimerFires(route, Ready)
  BY DEF UsesView, Debounces
<1>2. Untouched \/ Rerun(route, Ready)
  BY <1>1 DEF TypesSearch, ClearsSearch, TurnsPage, Refreshes, TimerFires, Untouched
<1> QED
  BY <1>2, RerunIsHookStep DEF HookStep

LEMMA SessionIsHookStep ==
  ASSUME Numbered, SessionResolves \/ WindowFocused \/ Session
  PROVE  HookStep
<1>1. CASE SessionResolves \/ WindowFocused
  <2>1. PICK rerun, ready, key :
          rerun = Mounted(route) /\ ready = (status' = "authenticated") /\ key = QueryKeys(route)
    OBVIOUS
  <2>2. RunEffects({}, rerun, ready, key)
    BY <1>1, <2>1 DEF SessionResolves, WindowFocused, SessionRead
  <2>3. rerun \in SUBSET Hooks
    BY <2>1, MountedAreHooks
  <2> QED
    BY <2>2, <2>3, RunEffectsIsStep
<1>2. CASE Session
  <2>1. LoadsDocument \/ Untouched
    BY <1>2 DEF Session, Untouched
  <2> QED
    BY <2>1, LoadIsHookStep DEF HookStep
<1> QED
  BY <1>1, <1>2

LEMMA SuccessIsHookStep ==
  ASSUME Numbered, SendSucceeds
  PROVE  HookStep
<1>1. CASE ShowsPage("scheduled")
  BY <1>1, PageIsHookStep
<1>2. CASE RunEffects({}, Mounted(route) \cap {"stats"}, Ready, QueryKeys(route)')
  <2>1. PICK rerun, ready, key :
          rerun = Mounted(route) \cap {"stats"} /\ ready = Ready /\ key = QueryKeys(route)'
    OBVIOUS
  <2>2. RunEffects({}, rerun, ready, key)
    BY <1>2, <2>1
  <2>3. rerun \in SUBSET Hooks
    BY <2>1 DEF Hooks
  <2> QED
    BY <2>2, <2>3, RunEffectsIsStep
<1> QED
  BY <1>1, <1>2 DEF SendSucceeds

LEMMA AnswerIsHookStep ==
  ASSUME Numbered, AnswerFails \/ \E h \in Hooks : Answering(h)
  PROVE  HookStep
<1>1. PICK r \in requests :
        LandsAsError(r) \/ ServerReadsList(r) \/ Lands(r) \/ Settles(r)
  BY DEF AnswerFails, Answering
<1>2. CASE ServerReadsList(r)
  <2>1. PICK total, rows :
          /\ total = Total(r.key[1], r.key[2])
          /\ rows = RowsOnPage(r.key[1], r.key[2], r.key[3])
    OBVIOUS
  <2>2. ServerReads(r, total, rows)
    BY <1>2, <2>1 DEF ServerReadsList
  <2> QED
    BY <2>2, AnswersMoveOn DEF HookStep
<1> QED
  BY <1>1, <1>2, AnswersMoveOn DEF HookStep

LEMMA NextIsHookStep ==
  ASSUME Numbered, [Next]_vars
  PROVE  HookStep
<1>1. CASE Navigates
  BY <1>1, PageIsHookStep DEF Navigates
<1>2. CASE SessionResolves \/ WindowFocused \/ Session
  BY <1>2, SessionIsHookStep
<1>3. CASE EmailMoves \/ UsesForm \/ FormAnswered \/ UNCHANGED vars
  BY <1>3 DEF EmailMoves, UsesForm, FormAnswered, vars, HookStep, Untouched
<1>4. CASE UsesView \/ Debounces
  BY <1>4, ViewIsHookStep
<1>5. CASE SendSucceeds
  BY <1>5, SuccessIsHookStep
<1>6. CASE AnswerFails \/ \E h \in Hooks : Answering(h)
  BY <1>6, AnswerIsHookStep
<1> QED
  BY <1>1, <1>2, <1>3, <1>4, <1>5, <1>6 DEF Next

\* At first no hook has asked for anything.
LEMMA InitNumbered ==
  ASSUME Init
  PROVE  Numbered
BY DEF Init, FetchInit, Numbered, FetchTypeOK, Nothing

\* Every state keeps the numbers, and no step takes a hook back to an older
\* answer: useEmails.ts and useStats.ts, "only the newest request id".
THEOREM NewestAnswerWins == Spec => NeverOlder
<1>1. Init => Numbered
  BY InitNumbered
<1>2. Numbered /\ [Next]_vars => Numbered'
  BY NextIsHookStep, HookStepNumbered
<1>3. Numbered /\ [Next]_vars
        => [\A h \in Hooks : held'[h] = Nothing \/ held'[h].id >= held[h].id]_vars
  BY NextIsHookStep, HookStepNumbered DEF Forward
<1> QED
  BY <1>1, <1>2, <1>3, PTL DEF Spec, NeverOlder

-----------------------------------------------------------------------------
(* The list view.  While no email changes, what a request of the list has  *)
(* read so far, and what the list holds, is what the server would say now, *)
(* and the page that is asked for is the first or has rows.                *)

ReadsNow(r) ==
  \/ r.error
  \/ /\ r.key[1] = route /\ r.key[2] \in Searches
     /\ r.total \in {Unread, Total(route, r.key[2])}
     /\ r.rows \in {Unread, RowsOnPage(route, r.key[2], r.key[3])}
     /\ r.phase = "landed" => r.total # Unread /\ r.rows # Unread

HoldsNow(a) ==
  \/ a.error \/ a.key = NoKey
  \/ /\ a.key[1] = route /\ a.key[2] \in Searches
     /\ a.total = Total(route, a.key[2])
     /\ a.rows = RowsOnPage(route, a.key[2], a.key[3])

PageHasRows == page = 1 \/ (page - 1) * PageLimit < Total(route, search)

\* Off the list pages nothing of a list is left.
NoList == held["list"] = Nothing /\ \A r \in requests : r.hook # "list"

ListNow ==
  /\ \A r \in requests : r.hook = "list" => ReadsNow(r)
  /\ HoldsNow(held["list"])
  /\ PageHasRows

ListInv ==
  /\ ViewTypeOK
  /\ route \notin Views => NoList
  /\ route \in Views /\ ~moved => ListNow

LEMMA TotalIsNat ==
  ASSUME NEW view, NEW text \in Searches
  PROVE  Total(view, text) \in Nat
<1>1. Where(view, text) \subseteq Mail
  BY ListConfig DEF Where
<1>2. IsFiniteSet(Where(view, text))
  BY <1>1, ListConfig, FS_Subset
<1> QED
  BY <1>2, FS_CardinalityType DEF Total

LEMMA RowsAreNat ==
  ASSUME NEW view, NEW text \in Searches, NEW n \in Nat \ {0}
  PROVE  /\ RowsOnPage(view, text, n) \in Nat
         /\ (n - 1) * PageLimit < Total(view, text) => RowsOnPage(view, text, n) > 0
<1> DEFINE skipped == (n - 1) * PageLimit
<1>1. PageLimit \in Nat \ {0} /\ Total(view, text) \in Nat
  BY ListConfig, TotalIsNat
<1>2. skipped \in Int
  BY <1>1
<1> HIDE DEF skipped
<1>3. RowsOnPage(view, text, n)
        = IF Total(view, text) - skipped < 0 THEN 0
          ELSE IF Total(view, text) - skipped < PageLimit THEN Total(view, text) - skipped
          ELSE PageLimit
  BY DEF RowsOnPage, skipped
<1>4. skipped < Total(view, text) => RowsOnPage(view, text, n) > 0
  BY <1>1, <1>2, <1>3
<1> QED
  BY <1>1, <1>2, <1>3, <1>4 DEF skipped

\* What stands before a page that exists does not use up the total.
LEMMA PagesBefore ==
  ASSUME NEW total \in Nat, NEW n \in Nat, n < TotalPages(total)
  PROVE  n * PageLimit < total
<1>1. PICK limit \in Nat \ {0} : limit = PageLimit
  BY ListConfig
<1>2. PICK pages \in Int : pages = (total + limit - 1) \div limit
  BY <1>1
<1>3. pages * limit <= total + limit - 1
  BY <1>1, <1>2, Z3
<1>4. n + 1 <= pages
  BY <1>1, <1>2 DEF TotalPages
<1>5. (n + 1) * limit <= pages * limit
  BY <1>4, Z3
<1>6. (n + 1) * limit = n * limit + limit
  BY Z3
<1>7. PICK a \in Int, b \in Int : a = n * limit /\ b = pages * limit
  OBVIOUS
<1>8. a + limit <= b /\ b <= total + limit - 1
  BY <1>3, <1>5, <1>6, <1>7
<1>9. a < total
  BY <1>7, <1>8
<1> QED
  BY <1>1, <1>7, <1>9

\* What a landed, a failed and a half read request carry.
Landed(r, s) ==
  /\ s.phase = "landed"
  /\ s.hook = r.hook /\ s.key = r.key /\ s.error = r.error
  /\ s.total = r.total /\ s.rows = r.rows

LEMMA LandingKeeps ==
  ASSUME NEW r, IsRequest(r)
  PROVE  Landed(r, [r EXCEPT !.phase = "landed"])
BY DEF IsRequest, Landed

LEMMA CountKeeps ==
  ASSUME NEW r, IsRequest(r), NEW n, NEW s, s = [r EXCEPT !.total = n]
  PROVE  /\ IsRequest(s) /\ s.total = n /\ s.rows = r.rows
         /\ s.hook = r.hook /\ s.key = r.key /\ s.error = r.error /\ s.phase = r.phase
BY DEF IsRequest

LEMMA RowsKeep ==
  ASSUME NEW r, IsRequest(r), NEW n, NEW s, s = [r EXCEPT !.rows = n]
  PROVE  /\ IsRequest(s) /\ s.rows = n /\ s.total = r.total
         /\ s.hook = r.hook /\ s.key = r.key /\ s.error = r.error /\ s.phase = r.phase
BY DEF IsRequest

LEMMA FailingIsError ==
  ASSUME NEW r, IsRequest(r)
  PROVE  [r EXCEPT !.phase = "landed", !.error = TRUE, !.total = 0, !.rows = 0].error
<1>1. PICK yes : yes = TRUE
  OBVIOUS
<1> DEFINE landed == [r EXCEPT !.phase = "landed"]
           failed == [landed EXCEPT !.error = yes]
           unread == [failed EXCEPT !.total = 0]
           done == [unread EXCEPT !.rows = 0]
<1>2. DOMAIN landed = DOMAIN r /\ "error" \in DOMAIN r
  BY DEF IsRequest
<1> HIDE DEF landed
<1>3. DOMAIN failed = DOMAIN landed /\ failed.error = yes
  BY <1>2
<1> HIDE DEF failed
<1>4. DOMAIN unread = DOMAIN failed /\ unread.error = yes
  BY <1>2, <1>3
<1> HIDE DEF unread
<1>5. done.error = yes
  BY <1>2, <1>3, <1>4
<1>6. done = [r EXCEPT !.phase = "landed", !.error = yes, !.total = 0, !.rows = 0]
  BY Zenon DEF done, unread, failed, landed
<1> HIDE DEF done
<1> QED
  BY <1>1, <1>5, <1>6, Zenon

\* A request that has read correctly so far still has when it is parsed.
LEMMA ParsingReads ==
  ASSUME NEW r, IsRequest(r), ReadsNow(r), r.phase = "open"
  PROVE  ReadsNow(Parsed(r))
<1>1. CASE Unread \in {r.total, r.rows}
  BY <1>1 DEF Parsed
<1>2. CASE Unread \notin {r.total, r.rows}
  <2>1. PICK s : s = Parsed(r) /\ Landed(r, s)
    BY <1>2, LandingKeeps DEF Parsed
  <2>2. s.key = r.key /\ s.error = r.error /\ s.total = r.total /\ s.rows = r.rows
    BY <2>1 DEF Landed
  <2>3. r.total # Unread /\ r.rows # Unread
    BY <1>2
  <2>4. ReadsNow(s)
    BY <2>2, <2>3 DEF ReadsNow
  <2> QED
    BY <2>1, <2>4
<1> QED
  BY <1>1, <1>2

\* Both statements of a page add what the server says now.
LEMMA ServerReadsNow ==
  ASSUME NEW r, IsRequest(r), r.hook = "list", ReadsNow(r), ServerReadsList(r)
  PROVE  \E s : s.hook = "list" /\ ReadsNow(s) /\ Becomes(r, s)
<1>1. PICK total, rows :
        /\ total = Total(r.key[1], r.key[2])
        /\ rows = RowsOnPage(r.key[1], r.key[2], r.key[3])
  OBVIOUS
<1>2. PICK s : /\ s = [r EXCEPT !.total = total] \/ s = [r EXCEPT !.rows = rows]
               /\ Becomes(r, Parsed(s))
  BY <1>1 DEF ServerReadsList, ServerReads
<1>3. r.phase = "open"
  BY DEF ServerReadsList, ServerReads
<1>4. /\ IsRequest(s) /\ s.hook = r.hook /\ s.key = r.key /\ s.error = r.error /\ s.phase = "open"
      /\ s.total \in {r.total, total} /\ s.rows \in {r.rows, rows}
  <2>1. CASE s = [r EXCEPT !.total = total]
    BY <1>3, <2>1, CountKeeps
  <2>2. CASE s = [r EXCEPT !.rows = rows]
    BY <1>3, <2>2, RowsKeep
  <2> QED
    BY <1>2, <2>1, <2>2
<1>5. ReadsNow(s)
  BY <1>1, <1>4 DEF ReadsNow
<1>6. ReadsNow(Parsed(s))
  BY <1>4, <1>5, ParsingReads
<1>7. Parsed(s).hook = "list"
  BY <1>4, ParsedIsSame DEF SameRequest
<1> QED
  BY <1>2, <1>6, <1>7

\* What was read stays right while neither the page nor an email changes.
LEMMA StaysRight ==
  ASSUME UNCHANGED <<route, mail>>, NEW r
  PROVE  (ReadsNow(r) => ReadsNow(r)') /\ (HoldsNow(r) => HoldsNow(r)')
BY DEF ReadsNow, HoldsNow, Total, RowsOnPage, Where

\* A request just issued has read nothing, and asks for the list of its page.
Asks(r, key) ==
  r.key = key /\ r.phase = "open" /\ ~r.error /\ r.total = Unread /\ r.rows = Unread

LEMMA AskingReads ==
  ASSUME ViewTypeOK', NEW key, key = ListKey(route)', NEW r, Asks(r, key)
  PROVE  ReadsNow(r)'
<1>1. r.key[1] = route' /\ r.key[2] = search'
  BY DEF Asks, ListKey
<1>2. search' \in Searches
  BY DEF ViewTypeOK
<1> QED
  BY <1>1, <1>2 DEF Asks, ReadsNow

LEMMA EffectsOnList ==
  ASSUME Numbered, NEW gone, NEW rerun \in SUBSET Hooks, NEW ready, NEW key,
         RunEffects(gone, rerun, ready, key)
  PROVE  /\ held'["list"] = IF "list" \in gone THEN Nothing ELSE held["list"]
         /\ \A r \in requests' : r.hook = "list" =>
               \/ r \in requests /\ "list" \notin gone
               \/ "list" \in rerun /\ Asks(r, key["list"])
<1>1. held'["list"] = IF "list" \in gone THEN Nothing ELSE held["list"]
  BY DEF RunEffects, Hooks
<1>2. ASSUME NEW r \in requests', r.hook = "list"
      PROVE  \/ r \in requests /\ "list" \notin gone
             \/ "list" \in rerun /\ Asks(r, key["list"])
  <2>1. CASE r \in requests /\ r.hook \notin gone
    BY <1>2, <2>1
  <2>2. CASE ~(r \in requests /\ r.hook \notin gone)
    <3>1. PICK h, n : h \in rerun /\ r = Opened(h, n, key[h])
      BY <1>2, <2>2 DEF RunEffects
    <3>2. h = "list"
      BY <1>2, <3>1 DEF Opened
    <3> QED
      BY <3>1, <3>2 DEF Opened, Asks
  <2> QED
    BY <2>1, <2>2
<1> QED
  BY <1>1, <1>2

\* The same where no hook is unmounted.
LEMMA RerunOnList ==
  ASSUME Numbered, NEW rerun \in SUBSET Hooks, NEW ready, NEW key,
         RunEffects({}, rerun, ready, key)
  PROVE  /\ held'["list"] = held["list"]
         /\ \A r \in requests' : r.hook = "list" =>
              r \in requests \/ ("list" \in rerun /\ Asks(r, key["list"]))
<1>1. PICK gone : gone = {}
  OBVIOUS
<1>2. RunEffects(gone, rerun, ready, key)
  BY <1>1
<1>3. /\ held'["list"] = IF "list" \in gone THEN Nothing ELSE held["list"]
      /\ \A r \in requests' : r.hook = "list" =>
            \/ r \in requests /\ "list" \notin gone
            \/ "list" \in rerun /\ Asks(r, key["list"])
  BY <1>2, EffectsOnList
<1> QED
  BY <1>1, <1>3

-----------------------------------------------------------------------------
\* A view that is mounted anew, or left, starts from nothing.
LEMMA FreshList ==
  ASSUME ViewTypeOK', page' = 1, held'["list"] = Nothing,
         \A r \in requests' : r.hook = "list" => route' \in Views /\ ReadsNow(r)'
  PROVE  ListInv'
<1>1. HoldsNow(Nothing)'
  BY DEF HoldsNow, Nothing
<1>2. HoldsNow(held["list"])'
  BY <1>1
<1> QED
  BY <1>2 DEF ListInv, NoList, ListNow, PageHasRows

LEMMA ResetTypes ==
  ASSUME ViewReset, recount' \in Nat
  PROVE  ViewTypeOK' /\ page' = 1
<1>1. NoSearch \in Searches
  BY ListConfig
<1>2. /\ field' = NoSearch /\ search' = NoSearch /\ timer' = FALSE /\ moved' = FALSE
      /\ page' = 1 /\ reload' = 0
  BY DEF ViewReset
<1>3. (timer \in BOOLEAN /\ moved \in BOOLEAN)'
  BY <1>2, Zenon
<1> QED
  BY <1>1, <1>2, <1>3 DEF ViewTypeOK

LEMMA LoadKeepsList ==
  ASSUME Numbered, ListInv, LoadsDocument
  PROVE  ListInv'
<1>1. ViewTypeOK' /\ page' = 1
  BY ResetTypes DEF LoadsDocument
<1>2. PICK gone, rerun, ready, key :
        /\ gone = Hooks /\ rerun = {} /\ ready = FALSE /\ key = QueryKeys(route)
  OBVIOUS
<1>3. RunEffects(gone, rerun, ready, key) /\ rerun \in SUBSET Hooks
  BY <1>2 DEF LoadsDocument
<1>4. /\ held'["list"] = IF "list" \in gone THEN Nothing ELSE held["list"]
      /\ \A r \in requests' : r.hook = "list" =>
            \/ r \in requests /\ "list" \notin gone
            \/ "list" \in rerun /\ Asks(r, key["list"])
  BY <1>3, EffectsOnList
<1>5. held'["list"] = Nothing /\ \A r \in requests' : r.hook # "list"
  BY <1>2, <1>4 DEF Hooks
<1> QED
  BY <1>1, <1>5, FreshList

LEMMA PageKeepsList ==
  ASSUME Numbered, ListInv, NEW target, ShowsPage(target), recount' \in Nat,
         Guarded(target) # route
  PROVE  ListInv'
<1> DEFINE dropped == PageHooks(route) \cup (Mounted(route) \ Mounted(route'))
           shown == PageHooks(route') \cup {h \in {"stats"} : recount' # recount}
<1>1. ViewTypeOK' /\ page' = 1
  BY ResetTypes DEF ShowsPage
<1>2. route' = Guarded(target) /\ Guarded(target)' = Guarded(target)
  BY DEF ShowsPage, GoesTo, Guarded
<1>3. PICK gone, rerun, ready, key :
        /\ gone = dropped /\ rerun = shown /\ ready = Ready
        /\ key = QueryKeys(Guarded(target))'
  OBVIOUS
<1>4. rerun \in SUBSET Hooks
  BY <1>3, MountedAreHooks DEF Hooks
<1>5. RunEffects(gone, rerun, ready, key)
  BY <1>3 DEF ShowsPage
<1>6. /\ held'["list"] = IF "list" \in gone THEN Nothing ELSE held["list"]
      /\ \A r \in requests' : r.hook = "list" =>
            \/ r \in requests /\ "list" \notin gone
            \/ "list" \in rerun /\ Asks(r, key["list"])
  BY <1>4, <1>5, EffectsOnList
<1>7. "list" \in gone \/ NoList
  BY <1>3 DEF ListInv, PageHooks
<1>8. "list" \in rerun => route' \in Views
  BY <1>3 DEF PageHooks
<1>9. key["list"] = ListKey(route)'
  BY <1>2, <1>3 DEF QueryKeys, ListKey
<1>10. ASSUME NEW r \in requests', r.hook = "list"
       PROVE  route' \in Views /\ ReadsNow(r)'
  <2>1. "list" \in rerun /\ Asks(r, key["list"])
    BY <1>6, <1>7, <1>10 DEF NoList
  <2> QED
    BY <1>1, <1>8, <1>9, <2>1, AskingReads
<1>11. held'["list"] = Nothing
  BY <1>6, <1>7 DEF NoList
<1> QED
  BY <1>1, <1>10, <1>11, FreshList

\* A step that moves neither the view nor an email keeps what is right, if what
\* is new is.
LEMMA SameViewKeepsList ==
  ASSUME ListInv, ViewTypeOK', UNCHANGED <<route, mail, moved>>,
         held'["list"] = held["list"],
         route \in Views /\ ~moved => PageHasRows',
         \A r \in requests' : r.hook = "list" =>
            r \in requests \/ (route \in Views /\ ReadsNow(r)')
  PROVE  ListInv'
<1>1. CASE route \notin Views
  BY <1>1 DEF ListInv, NoList
<1>2. CASE route \in Views /\ ~moved
  <2>1. \A r \in requests' : r.hook = "list" => ReadsNow(r)'
    BY <1>2, StaysRight DEF ListInv, ListNow
  <2>2. PICK a : a = held["list"]
    OBVIOUS
  <2>3. HoldsNow(a)'
    BY <1>2, <2>2, StaysRight DEF ListInv, ListNow
  <2>4. HoldsNow(held["list"])'
    BY <2>2, <2>3
  <2> QED
    BY <1>2, <2>1, <2>4 DEF ListInv, ListNow
<1>3. CASE moved /\ route \in Views
  BY <1>3 DEF ListInv
<1> QED
  BY <1>1, <1>2, <1>3

LEMMA RerunKeepsList ==
  ASSUME Numbered, ListInv, ViewTypeOK', Rerun(route, Ready), route \in Views,
         UNCHANGED <<route, mail, moved>>, ~moved => PageHasRows'
  PROVE  ListInv'
<1> DEFINE changed == {h \in {"list", "stats"} : QueryKeys(route)[h] # QueryKeys(route)'[h]}
<1>1. PICK rerun, ready, key : rerun = changed /\ ready = Ready /\ key = QueryKeys(route)'
  OBVIOUS
<1>2. rerun \in SUBSET Hooks
  BY <1>1 DEF Hooks
<1>3. RunEffects({}, rerun, ready, key)
  BY <1>1 DEF Rerun
<1>4. /\ held'["list"] = held["list"]
      /\ \A r \in requests' : r.hook = "list" => r \in requests \/ Asks(r, key["list"])
  BY <1>2, <1>3, RerunOnList
<1>5. key["list"] = ListKey(route)'
  BY <1>1 DEF QueryKeys
<1>6. \A r \in requests' : r.hook = "list" => r \in requests \/ ReadsNow(r)'
  BY <1>4, <1>5, AskingReads
<1> QED
  BY <1>4, <1>6, SameViewKeepsList

\* What a view shows and does not reload answers the question it asks now.
LEMMA ShownIsAnswer ==
  ASSUME ListInv, route \in Views, ~moved, ~Loading("list", route), ~held["list"].error
  PROVE  /\ held["list"].key # NoKey
         /\ held["list"].key[3] = page
         /\ held["list"].total = Total(route, search)
         /\ held["list"].rows = RowsOnPage(route, search, page)
<1>1. held["list"].key = <<route, search, page, reload>>
  BY DEF Loading, QueryKeys, ListKey
<1>2. held["list"].key # NoKey
  BY <1>1 DEF NoKey
<1>3. /\ held["list"].total = Total(route, held["list"].key[2])
      /\ held["list"].rows = RowsOnPage(route, held["list"].key[2], held["list"].key[3])
  BY <1>2 DEF ListInv, ListNow, HoldsNow
<1>4. held["list"].key[2] = search /\ held["list"].key[3] = page
  BY <1>1
<1> QED
  BY <1>2, <1>3, <1>4

\* Next and Previous lead to a page that has rows.
LEMMA TurnedPageHasRows ==
  ASSUME ListInv, TurnsPage(route, Ready), route \in Views, UNCHANGED <<route, mail>>
  PROVE  page' \in Nat \ {0} /\ (~moved => PageHasRows')
<1>1. page \in Nat \ {0} /\ search \in Searches /\ search' = search
  BY DEF ListInv, ViewTypeOK, TurnsPage
<1>2. held["list"].key = <<route, search, page, reload>>
  BY DEF TurnsPage, Loading, QueryKeys, ListKey
<1>3. held["list"].key[3] = page
  BY <1>2
<1>4. PICK total, pages : total = held["list"].total /\ pages = TotalPages(total)
  OBVIOUS
<1>5. \/ page > 1 /\ page' = page - 1
      \/ page < pages /\ page' = page + 1
  BY <1>3, <1>4 DEF TurnsPage
<1>6. page' \in Nat \ {0}
  BY <1>1, <1>5
<1>7. ASSUME ~moved
      PROVE  page' = 1 \/ (page' - 1) * PageLimit < Total(route, search)
  <2>1. total = Total(route, search) /\ total \in Nat
    BY <1>1, <1>4, <1>7, ShownIsAnswer, TotalIsNat DEF TurnsPage, Shows
  <2>2. CASE page < pages /\ page' = page + 1
    <3>1. page * PageLimit < total
      BY <1>1, <1>4, <2>1, <2>2, PagesBefore
    <3>2. page' - 1 = page
      BY <1>1, <2>2
    <3> QED
      BY <2>1, <3>1, <3>2
  <2>3. CASE page > 1 /\ page' = page - 1
    <3>1. PICK limit \in Nat \ {0} : limit = PageLimit
      BY ListConfig
    <3>2. (page - 1) * limit < total
      BY <1>1, <1>7, <2>1, <2>3, <3>1 DEF ListInv, ListNow, PageHasRows
    <3>3. (page' - 1) * limit = (page - 1) * limit - limit
      BY <1>1, <2>3
    <3>4. PICK a \in Int : a = (page - 1) * limit
      BY <1>1
    <3>5. a - limit < total
      BY <2>1, <3>1, <3>2, <3>4
    <3> QED
      BY <2>1, <3>1, <3>3, <3>4, <3>5
  <2> QED
    BY <1>5, <2>2, <2>3
<1>8. Total(route, search)' = Total(route, search)
  BY <1>1 DEF Total, Where
<1> QED
  BY <1>6, <1>7, <1>8 DEF PageHasRows

LEMMA ViewKeepsList ==
  ASSUME Numbered, ListInv, UsesView \/ Debounces
  PROVE  ListInv'
<1>1. ViewTypeOK /\ route \in Views /\ UNCHANGED <<route, mail>>
  BY DEF ListInv, UsesView, Debounces, signInVars
<1>3. search' = search /\ page' = page /\ ~moved => PageHasRows'
  BY <1>1 DEF ListInv, ListNow, PageHasRows, Total, Where
<1>4. page' = 1 => PageHasRows'
  BY DEF PageHasRows
<1>5. CASE \E wanted \in Searches : TypesSearch(route, wanted)
  <2>1. ViewTypeOK' /\ UNCHANGED <<search, page, moved, requests, held>>
    BY <1>1, <1>5 DEF TypesSearch, ViewTypeOK, fetchVars
  <2> QED
    BY <1>1, <1>3, <2>1, SameViewKeepsList
<1>6. CASE ClearsSearch(route, Ready) \/ TimerFires(route, Ready)
  <2>1. ViewTypeOK' /\ page' = 1 /\ moved' = moved /\ Rerun(route, Ready)
    <3>1. NoSearch \in Searches
      BY ListConfig
    <3>2. field \in Searches /\ timer \in BOOLEAN /\ moved \in BOOLEAN /\ reload \in Nat /\ recount \in Nat
      BY <1>1 DEF ViewTypeOK
    <3>3. /\ field' = field /\ search' \in {field, NoSearch} /\ page' = 1 /\ moved' = moved
          /\ timer' \in {timer, FALSE} /\ reload' = reload /\ recount' = recount
          /\ Rerun(route, Ready)
      BY <1>6 DEF ClearsSearch, TimerFires, AsksFor
    <3>4. timer' \in BOOLEAN /\ moved' \in BOOLEAN
      BY <3>2, <3>3, Zenon
    <3> QED
      BY <3>1, <3>2, <3>3, <3>4 DEF ViewTypeOK
  <2> QED
    BY <1>1, <1>4, <2>1, RerunKeepsList
<1>7. CASE TurnsPage(route, Ready)
  <2>1. page' \in Nat \ {0} /\ (~moved => PageHasRows')
    BY <1>1, <1>7, TurnedPageHasRows
  <2>2. ViewTypeOK' /\ moved' = moved /\ Rerun(route, Ready)
    BY <1>1, <1>7, <2>1 DEF TurnsPage, ViewTypeOK
  <2> QED
    BY <1>1, <2>1, <2>2, RerunKeepsList
<1>8. CASE Refreshes(route, Ready)
  <2>1. /\ ViewTypeOK' /\ Rerun(route, Ready)
        /\ UNCHANGED <<search, page, moved>>
    BY <1>1, <1>8 DEF Refreshes, ViewTypeOK
  <2> QED
    BY <1>1, <1>3, <2>1, RerunKeepsList
<1> QED
  BY <1>5, <1>6, <1>7, <1>8 DEF UsesView, Debounces

-----------------------------------------------------------------------------
\* The other actions of Dashboard.
LEMMA SessionKeepsList ==
  ASSUME Numbered, ListInv, SessionResolves \/ WindowFocused \/ Session
  PROVE  ListInv'
<1>1. CASE SessionResolves \/ WindowFocused
  <2>1. PICK rerun, ready, key :
          rerun = Mounted(route) /\ ready = (status' = "authenticated") /\ key = QueryKeys(route)
    OBVIOUS
  <2>2. RunEffects({}, rerun, ready, key) /\ rerun \in SUBSET Hooks
    BY <1>1, <2>1, MountedAreHooks DEF SessionResolves, WindowFocused, SessionRead
  <2>3. UNCHANGED <<route, mail, viewVars>>
    BY <1>1 DEF SessionResolves, WindowFocused, SessionRead, StatusRead
  <2>4. ViewTypeOK' /\ UNCHANGED <<moved, search, page, reload>>
    BY <2>3 DEF ListInv, ViewTypeOK, viewVars
  <2>5. key["list"] = ListKey(route)'
    BY <2>1, <2>3, <2>4 DEF QueryKeys, ListKey
  <2>6. "list" \in rerun => route \in Views
    BY <2>1 DEF Mounted, PageHooks
  <2>7. /\ held'["list"] = held["list"]
        /\ \A r \in requests' : r.hook = "list" =>
             r \in requests \/ ("list" \in rerun /\ Asks(r, key["list"]))
    BY <2>2, RerunOnList
  <2>8. \A r \in requests' : r.hook = "list" =>
          r \in requests \/ (route \in Views /\ ReadsNow(r)')
    BY <2>4, <2>5, <2>6, <2>7, AskingReads
  <2>9. route \in Views /\ ~moved => PageHasRows'
    BY <2>3, <2>4 DEF ListInv, ListNow, PageHasRows, Total, Where
  <2> QED
    BY <2>3, <2>4, <2>7, <2>8, <2>9, SameViewKeepsList
<1>2. CASE Session /\ LoadsDocument
  BY <1>2, LoadKeepsList
<1>3. CASE Session /\ ~LoadsDocument
  <2>1. ExchangeFails \/ TokenExpires \/ CookieExpires
    BY <1>3 DEF Session
  <2>2. UNCHANGED <<route, fetchVars, mail, viewVars>>
    BY <1>3, <2>1 DEF Session, ExchangeFails, TokenExpires, CookieExpires
  <2>3. ViewTypeOK' /\ UNCHANGED <<moved, search, page, requests, held>>
    BY <2>2 DEF ListInv, ViewTypeOK, viewVars, fetchVars
  <2>4. route \in Views /\ ~moved => PageHasRows'
    BY <2>2, <2>3 DEF ListInv, ListNow, PageHasRows, Total, Where
  <2> QED
    BY <2>2, <2>3, <2>4, SameViewKeepsList
<1> QED
  BY <1>1, <1>2, <1>3

\* An answer leaves the view alone; it moves one request on or runs its callback.
LEMMA AnswerKeepsList ==
  ASSUME Numbered, ListInv, AnswerFails \/ \E h \in Hooks : Answering(h)
  PROVE  ListInv'
<1>1. PICK r \in requests :
        LandsAsError(r) \/ ServerReadsList(r) \/ Lands(r) \/ Settles(r)
  BY DEF AnswerFails, Answering
<1>2. UNCHANGED <<route, mail, viewVars>>
  BY DEF AnswerFails, Answering, signInVars
<1>3. ViewTypeOK' /\ UNCHANGED <<moved, search, page>>
  BY <1>2 DEF ListInv, ViewTypeOK, viewVars
<1>4. IsRequest(r)
  BY DEF Numbered
<1>5. route \in Views /\ ~moved => PageHasRows'
  BY <1>2, <1>3 DEF ListInv, ListNow, PageHasRows, Total, Where
<1>6. ASSUME NEW s, Becomes(r, s), s.hook = r.hook,
             r.hook = "list" /\ route \in Views /\ ~moved => ReadsNow(s)
      PROVE  ListInv'
  <2>1. held' = held /\ requests' = (requests \ {r}) \cup {s}
    BY <1>6 DEF Becomes
  <2>2. r.hook = "list" => route \in Views
    BY DEF ListInv, NoList
  <2>3. CASE moved /\ route \in Views
    BY <1>2, <1>3, <2>3 DEF ListInv
  <2>4. CASE ~moved \/ route \notin Views
    <3>1. \A q \in requests' : q.hook = "list" =>
            q \in requests \/ (route \in Views /\ ReadsNow(q)')
      BY <1>2, <1>6, <2>1, <2>2, <2>4, StaysRight
    <3> QED
      BY <1>2, <1>3, <1>5, <2>1, <3>1, SameViewKeepsList
  <2> QED
    BY <2>3, <2>4
<1>7. CASE LandsAsError(r)
  <2>1. PICK s :
          s = [r EXCEPT !.phase = "landed", !.error = TRUE, !.total = 0, !.rows = 0]
    OBVIOUS
  <2>2. s.error /\ s.hook = r.hook
    BY <1>4, <2>1, FailingIsError, RequestEdits DEF SameRequest
  <2>3. Becomes(r, s)
    BY <1>7, <2>1 DEF LandsAsError
  <2> QED
    BY <1>6, <2>2, <2>3 DEF ReadsNow
<1>8. CASE Lands(r)
  <2>1. r.hook # "list" /\ Becomes(r, Parsed(r)) /\ Parsed(r).hook = r.hook
    BY <1>4, <1>8, ParsedIsSame DEF Lands, SameRequest
  <2> QED
    BY <1>6, <2>1
<1>9. CASE ServerReadsList(r)
  <2>1. r.hook = "list" /\ route \in Views
    BY <1>9 DEF ServerReadsList, ListInv, NoList
  <2>2. CASE moved
    BY <1>2, <1>3, <2>1, <2>2 DEF ListInv
  <2>3. CASE ~moved
    <3>1. ReadsNow(r)
      BY <2>1, <2>3 DEF ListInv, ListNow
    <3>2. PICK s : s.hook = "list" /\ ReadsNow(s) /\ Becomes(r, s)
      BY <1>4, <1>9, <2>1, <3>1, ServerReadsNow
    <3> QED
      BY <1>6, <2>1, <3>2
  <2> QED
    BY <2>2, <2>3
<1>10. CASE Settles(r)
  <2>1. requests' \subseteq requests /\ r.phase = "landed"
    BY <1>10 DEF Settles
  <2>2. held'["list"] = held["list"] \/ (r.hook = "list" /\ held'["list"] = Settled(r))
    BY <1>10 DEF Settles, Numbered, Hooks
  <2>3. CASE held'["list"] = held["list"]
    BY <1>2, <1>3, <1>5, <2>1, <2>3, SameViewKeepsList
  <2>4. CASE r.hook = "list" /\ held'["list"] = Settled(r)
    <3>1. route \in Views
      BY <2>4 DEF ListInv, NoList
    <3>2. CASE moved
      BY <1>2, <1>3, <3>1, <3>2 DEF ListInv
    <3>3. CASE ~moved
      <4>1. PICK a : a = Settled(r)
        OBVIOUS
      <4>2. ReadsNow(r)
        BY <2>4, <3>1, <3>3 DEF ListInv, ListNow
      <4>3. HoldsNow(a)
        BY <2>1, <4>1, <4>2 DEF ReadsNow, HoldsNow, Settled
      <4>4. HoldsNow(a)'
        BY <1>2, <4>3, StaysRight
      <4>5. HoldsNow(held["list"])'
        BY <2>4, <4>1, <4>4
      <4>6. \A q \in requests' : q.hook = "list" => ReadsNow(q)'
        BY <1>2, <2>1, <3>1, <3>3, StaysRight DEF ListInv, ListNow
      <4> QED
        BY <1>2, <1>3, <1>5, <3>1, <3>3, <4>5, <4>6 DEF ListInv, ListNow
    <3> QED
      BY <3>2, <3>3
  <2> QED
    BY <2>2, <2>3, <2>4
<1> QED
  BY <1>1, <1>7, <1>8, <1>9, <1>10

LEMMA NextKeepsList ==
  ASSUME Numbered, ListInv, [Next]_vars
  PROVE  ListInv'
<1>1. CASE Navigates
  <2>1. PICK to \in Pages \ {route} : ShowsPage(to)
    BY <1>1 DEF Navigates
  <2>2. Guarded(to) # route /\ recount' \in Nat
    BY <1>1 DEF Navigates, Guarded, Pages, ListInv, ViewTypeOK
  <2> QED
    BY <2>1, <2>2, PageKeepsList
<1>2. CASE SessionResolves \/ WindowFocused \/ Session
  BY <1>2, SessionKeepsList
<1>3. CASE EmailMoves
  BY <1>3 DEF EmailMoves, ListInv, ViewTypeOK, signInVars
<1>4. CASE UsesForm \/ FormAnswered \/ UNCHANGED vars
  <2>1. UNCHANGED <<route, mail, requests, held, field, timer, search, page, reload, recount, moved>>
    BY <1>4 DEF UsesForm, FormAnswered, vars, signInVars, fetchVars, viewVars
  <2>2. ViewTypeOK' /\ (route \in Views /\ ~moved => PageHasRows')
    BY <2>1 DEF ListInv, ViewTypeOK, ListNow, PageHasRows, Total, Where
  <2> QED
    BY <2>1, <2>2, SameViewKeepsList
<1>5. CASE UsesView \/ Debounces
  BY <1>5, ViewKeepsList
<1>6. CASE SendSucceeds
  <2>1. recount' \in Nat
    BY <1>6 DEF SendSucceeds, ListInv, ViewTypeOK
  <2>2. CASE Guarded("scheduled") # route
    <3>1. ShowsPage("scheduled")
      BY <1>6, <2>2 DEF SendSucceeds
    <3> QED
      BY <2>1, <2>2, <3>1, PageKeepsList
  <2>3. CASE Guarded("scheduled") = route
    <3>1. PICK rerun, ready, key :
            rerun = Mounted(route) \cap {"stats"} /\ ready = Ready /\ key = QueryKeys(route)'
      OBVIOUS
    <3>2. RunEffects({}, rerun, ready, key) /\ rerun \in SUBSET Hooks /\ "list" \notin rerun
      BY <1>6, <2>3, <3>1 DEF SendSucceeds, Hooks
    <3>3. UNCHANGED <<route, mail, field, timer, search, page, reload, moved>>
      BY <1>6, <2>3 DEF SendSucceeds, signInVars
    <3>4. ViewTypeOK' /\ (route \in Views /\ ~moved => PageHasRows')
      BY <2>1, <3>3 DEF ListInv, ViewTypeOK, ListNow, PageHasRows, Total, Where
    <3>5. /\ held'["list"] = held["list"]
          /\ \A r \in requests' : r.hook = "list" => r \in requests
      BY <3>2, RerunOnList
    <3> QED
      BY <3>3, <3>4, <3>5, SameViewKeepsList
  <2> QED
    BY <2>2, <2>3
<1>7. CASE AnswerFails \/ \E h \in Hooks : Answering(h)
  BY <1>7, AnswerKeepsList
<1> QED
  BY <1>1, <1>2, <1>3, <1>4, <1>5, <1>6, <1>7 DEF Next

LEMMA InitList ==
  ASSUME Init
  PROVE  ListInv
<1>1. ViewTypeOK /\ page = 1
  <2>1. NoSearch \in Searches
    BY ListConfig
  <2>2. /\ field = NoSearch /\ search = NoSearch /\ timer = FALSE /\ moved = FALSE
        /\ page = 1 /\ reload = 0 /\ recount = 0
    BY DEF Init, ViewInit
  <2>3. timer \in BOOLEAN /\ moved \in BOOLEAN
    BY <2>2, Zenon
  <2> QED
    BY <2>1, <2>2, <2>3 DEF ViewTypeOK
<1>2. held["list"] = Nothing /\ requests = {}
  BY DEF Init, FetchInit, Hooks
<1>3. HoldsNow(Nothing)
  BY DEF HoldsNow, Nothing
<1> QED
  BY <1>1, <1>2, <1>3 DEF ListInv, NoList, ListNow, PageHasRows

\* Unless emails changed since the view was opened, an empty list is only shown
\* as the first page, whatever answers were late, lost or aborted and however
\* the user typed, searched and turned pages: EmailView.tsx, handleSearchChange.
THEOREM EmptyListIsEmpty == Spec => []EmptyMeansNone
<1>1. Init => Numbered /\ ListInv
  BY InitNumbered, InitList
<1>2. Numbered /\ ListInv /\ [Next]_vars => (Numbered /\ ListInv)'
  BY NextIsHookStep, HookStepNumbered, NextKeepsList
<1>3. ListInv => EmptyMeansNone
  <2> SUFFICES ASSUME ListInv, route \in Views, ~Loading("list", route),
                      ~held["list"].error, Rendered = 0, page # 1, ~moved
               PROVE  FALSE
    BY DEF EmptyMeansNone
  <2>1. page \in Nat \ {0} /\ search \in Searches
    BY DEF ListInv, ViewTypeOK
  <2>2. RowsOnPage(route, search, page) > 0
    BY <2>1, RowsAreNat DEF ListInv, ListNow, PageHasRows
  <2>3. held["list"].rows = 0
    BY ShownIsAnswer DEF Rendered
  <2> QED
    BY <2>2, <2>3, ShownIsAnswer
<1> QED
  BY <1>1, <1>2, <1>3, PTL DEF Spec

-----------------------------------------------------------------------------
(* The submit guard *)

\* A submission is known by the form that made it and its number.
Key(x) == [form |-> x.form, n |-> x.n]
Submissions == {Key(x) : x \in posts \cup campaigns}

IsPost(p) ==
  /\ p = [form |-> p.form, n |-> p.n, list |-> p.list, good |-> p.good,
          phase |-> p.phase, told |-> p.told]
  /\ p.phase \in {"sent", "refused", "committed"}
  /\ p.phase = "refused" => ~p.told

\* Numbers are given out once and in order.
Counted ==
  /\ form \in Nat /\ submitted \in Nat
  /\ \A p \in posts : IsPost(p)
  /\ \A k \in Submissions : k.form \in Nat /\ k.form <= form /\ k.n \in Nat /\ k.n <= submitted
  /\ \A k \in doubtful : k.n \in Nat /\ k.n <= submitted
  /\ \A p, q \in posts : p.n = q.n => p = q

\* A submission that may still be refused has made no campaign, and one whose
\* end has not been reported is not in doubt.
Undecided ==
  /\ \A p \in posts : p.phase \in {"sent", "refused"} => \A c \in campaigns : c.n # p.n
  /\ \A p \in posts : ~p.told => Key(p) \notin doubtful

\* While the guard is open everything the form has sent is in doubt.
GuardHolds ==
  route = "compose" /\ ~inFlight => \A k \in Submissions : k.form = form => k \in doubtful

\* Of two submissions of a form the earlier one is in doubt.
OneByOne ==
  \A k, l \in Submissions : k.form = l.form /\ k.n < l.n => k \in doubtful

SubmitInv == Counted /\ Undecided /\ GuardHolds /\ OneByOne

\* The invariant says it of the campaigns in particular.
LEMMA InvIsEnough ==
  ASSUME SubmitInv
  PROVE  OneCampaignPerForm
<1> SUFFICES ASSUME NEW c \in campaigns, NEW d \in campaigns, c.form = d.form, c.n < d.n
             PROVE  Key(c) \in doubtful
  BY DEF OneCampaignPerForm, Key
<1>1. Key(c) \in Submissions /\ Key(d) \in Submissions
  BY DEF Submissions
<1>2. Key(c).form = Key(d).form /\ Key(c).n < Key(d).n
  BY DEF Key
<1> QED
  BY <1>1, <1>2 DEF SubmitInv, OneByOne

LEMMA InitSubmit ==
  ASSUME Init
  PROVE  SubmitInv
<1>1. Submissions = {}
  BY DEF Init, ComposeInit, Submissions
<1> QED
  BY <1>1 DEF Init, ComposeInit, SubmitInv, Counted, Undecided, GuardHolds, OneByOne

-----------------------------------------------------------------------------
\* Submissions that go away, are told, or lose their guard with their page.
LEMMA FewerSubmissions ==
  ASSUME SubmitInv,
         form' = form \/ (form' = form + 1),
         submitted' = submitted, campaigns' = campaigns, doubtful' = doubtful,
         \A q \in posts' : \E p \in posts :
           /\ q.n = p.n /\ Key(q) = Key(p) /\ IsPost(q)
           /\ q.phase = p.phase
           /\ ~q.told => ~p.told,
         \A p, q \in posts' : p.n = q.n => p = q,
         \/ route' # "compose"
         \/ form' = form + 1
         \/ route' = route /\ inFlight' = inFlight /\ form' = form
  PROVE  SubmitInv'
<1>1. Submissions' \subseteq Submissions
  BY DEF Submissions
<1>2. Counted'
  BY <1>1 DEF SubmitInv, Counted
<1>3. Undecided'
  BY DEF SubmitInv, Undecided
<1>4. OneByOne'
  BY <1>1 DEF SubmitInv, OneByOne
<1>5. GuardHolds'
  BY <1>1 DEF SubmitInv, GuardHolds, Counted
<1> QED
  BY <1>2, <1>3, <1>4, <1>5 DEF SubmitInv

\* Nothing about the submissions changes.
LEMMA SameSubmissions ==
  ASSUME SubmitInv, UNCHANGED <<route, form, inFlight, posts, submitted, campaigns, doubtful>>
  PROVE  SubmitInv'
BY DEF SubmitInv, Counted, Undecided, GuardHolds, OneByOne, Submissions

\* What is sent is newer than everything, and all else of the form is in doubt.
LEMMA SendsKeeps ==
  ASSUME SubmitInv, route = "compose", route' = route, NEW fields, Sends(fields)
  PROVE  SubmitInv'
<1>1. CASE UNCHANGED <<inFlight, posts, submitted>>
  BY <1>1, SameSubmissions DEF Sends
<1>2. CASE ~UNCHANGED <<inFlight, posts, submitted>>
  <2>1. PICK list, good :
          /\ inFlight' = TRUE
          /\ submitted' = submitted + 1
          /\ posts' = posts \cup
               {[form |-> form, n |-> submitted + 1, list |-> list, good |-> good,
                 phase |-> "sent", told |-> FALSE]}
    BY <1>2 DEF Sends
  <2>2. UNCHANGED <<route, form, campaigns, doubtful>>
    BY DEF Sends
  <2>3. ~inFlight
    BY DEF Sends, GuardOpen
  <2> DEFINE new == [form |-> form, n |-> submitted + 1, list |-> list, good |-> good,
                     phase |-> "sent", told |-> FALSE]
  <2>4. /\ new.form = form /\ new.n = submitted + 1 /\ new.phase = "sent" /\ new.told = FALSE
        /\ IsPost(new) /\ Key(new) = [form |-> form, n |-> submitted + 1]
    BY DEF IsPost, Key
  <2>5. posts' = posts \cup {new}
    BY <2>1
  <2> HIDE DEF new
  <2>6. Submissions' = Submissions \cup {Key(new)}
    BY <2>2, <2>5 DEF Submissions
  <2>7. \A p \in posts : Key(p) \in Submissions /\ p.n = Key(p).n
    BY DEF Submissions, Key
  <2>8. \A c \in campaigns : Key(c) \in Submissions /\ c.n = Key(c).n
    BY DEF Submissions, Key
  <2>9. form \in Nat /\ submitted \in Nat
    BY DEF SubmitInv, Counted
  <2>10. \A k \in Submissions : k.n \in Nat /\ k.n <= submitted
    BY DEF SubmitInv, Counted
  <2>11. Counted'
    <3>1. submitted' \in Nat /\ submitted' = submitted + 1 /\ form' = form
      BY <2>1, <2>2, <2>9
    <3>2. \A p \in posts' : IsPost(p)
      BY <2>4, <2>5 DEF SubmitInv, Counted
    <3>3. Key(new).form = form /\ Key(new).n = submitted + 1
      BY <2>4
    <3>4. \A k \in Submissions' : k.form \in Nat /\ k.form <= form /\ k.n \in Nat /\ k.n <= submitted + 1
      BY <2>6, <2>9, <3>3 DEF SubmitInv, Counted
    <3>5. \A k \in doubtful' : k.n \in Nat /\ k.n <= submitted + 1
      BY <2>2, <2>9, <3>1 DEF SubmitInv, Counted
    <3>6. \A p \in posts : p.n # new.n
      BY <2>4, <2>7, <2>9, <2>10
    <3>7. \A p, q \in posts' : p.n = q.n => p = q
      BY <2>5, <3>6 DEF SubmitInv, Counted
    <3> QED
      BY <2>2, <2>9, <3>1, <3>2, <3>4, <3>5, <3>7 DEF Counted
  <2>12. Undecided'
    <3>1. \A c \in campaigns : c.n # submitted + 1
      BY <2>8, <2>9, <2>10
    <3>2. Key(new) \notin doubtful
      BY <2>4, <2>9 DEF SubmitInv, Counted
    <3> QED
      BY <2>2, <2>4, <2>5, <3>1, <3>2 DEF SubmitInv, Undecided
  <2>13. OneByOne'
    <3>1. \A k \in Submissions : k.form = form => k \in doubtful
      BY <2>3 DEF SubmitInv, GuardHolds
    <3> QED
      BY <2>2, <2>4, <2>6, <2>9, <2>10, <3>1 DEF SubmitInv, OneByOne
  <2>14. GuardHolds'
    BY <2>1 DEF GuardHolds
  <2> QED
    BY <2>11, <2>12, <2>13, <2>14 DEF SubmitInv
<1> QED
  BY <1>1, <1>2

\* A post that moves on or goes keeps what identifies it.
LEMMA PostEdits ==
  ASSUME NEW p, IsPost(p)
  PROVE  /\ LET q == [p EXCEPT !.phase = "committed"] IN
              q.form = p.form /\ q.n = p.n /\ q.list = p.list /\ q.told = p.told /\ q.phase = "committed" /\ IsPost(q)
         /\ ~p.told => LET q == [p EXCEPT !.phase = "refused"] IN
              q.form = p.form /\ q.n = p.n /\ q.list = p.list /\ q.told = p.told /\ q.phase = "refused" /\ IsPost(q)
<1> PICK f, n, l, g, h, t :
      p = [form |-> f, n |-> n, list |-> l, good |-> g, phase |-> h, told |-> t]
  BY DEF IsPost
<1>1. [p EXCEPT !.phase = "committed"]
        = [form |-> f, n |-> n, list |-> l, good |-> g, phase |-> "committed", told |-> t]
  OBVIOUS
<1>2. [p EXCEPT !.phase = "refused"]
        = [form |-> f, n |-> n, list |-> l, good |-> g, phase |-> "refused", told |-> t]
  OBVIOUS
<1> QED
  BY <1>1, <1>2 DEF IsPost

\* The end of one post: it is taken out of posts, or told, or another one of the
\* same submission takes its place; what the commit and the lost answer add
\* belongs to that submission.
LEMMA CommitKeeps ==
  ASSUME SubmitInv, NEW p \in posts, NEW authorised, ServerCommits(p, authorised), route' = route
  PROVE  SubmitInv'
<1> DEFINE q == [p EXCEPT !.phase = "committed"]
<1>1. IsPost(p) /\ p.phase = "sent"
  BY DEF SubmitInv, Counted, ServerCommits
<1>2. q.form = p.form /\ q.n = p.n /\ q.told = p.told /\ q.phase = "committed" /\ IsPost(q)
  BY <1>1, PostEdits
<1>3. posts' = posts \ {p} \/ posts' = (posts \ {p}) \cup {q}
  BY DEF ServerCommits, PostBecomes
<1> HIDE DEF q
<1>4. PICK c : c.form = p.form /\ c.n = p.n /\ campaigns' = campaigns \cup {c}
  <2>1. campaigns' = campaigns \cup
          {[form |-> p.form, n |-> p.n, shown |-> p.list, rows |-> Dedupe(p.list)]}
    BY DEF ServerCommits
  <2> QED
    BY <2>1
<1>5. UNCHANGED <<form, inFlight, submitted, doubtful>>
  BY DEF ServerCommits
<1>6. Key(q) = Key(p) /\ Key(c) = Key(p)
  BY <1>2, <1>4 DEF Key
<1>7. Submissions' \subseteq Submissions
  BY <1>3, <1>4, <1>6 DEF Submissions
<1>8. Counted'
  BY <1>2, <1>3, <1>5, <1>7 DEF SubmitInv, Counted
<1>9. Undecided'
  <2>1. \A r \in posts : r # p => r.n # p.n
    BY DEF SubmitInv, Counted
  <2> QED
    BY <1>1, <1>2, <1>3, <1>4, <1>5, <1>6, <2>1 DEF SubmitInv, Undecided
<1>10. OneByOne'
  BY <1>5, <1>7 DEF SubmitInv, OneByOne
<1>11. GuardHolds'
  BY <1>5, <1>7 DEF SubmitInv, GuardHolds
<1> QED
  BY <1>8, <1>9, <1>10, <1>11 DEF SubmitInv

LEMMA RefusalKeeps ==
  ASSUME SubmitInv, NEW p \in posts, NEW authorised, ServerRefuses(p, authorised), route' = route
  PROVE  SubmitInv'
<1> DEFINE q == [p EXCEPT !.phase = "refused"]
<1>1. IsPost(p) /\ p.phase = "sent"
  BY DEF SubmitInv, Counted, ServerRefuses
<1>2. ~p.told => q.form = p.form /\ q.n = p.n /\ q.told = p.told /\ q.phase = "refused" /\ IsPost(q)
  BY <1>1, PostEdits
<1>3. posts' = posts \ {p} \/ (~p.told /\ posts' = (posts \ {p}) \cup {q})
  BY DEF ServerRefuses, PostBecomes
<1> HIDE DEF q
<1>5. UNCHANGED <<form, inFlight, submitted, campaigns, doubtful>>
  BY DEF ServerRefuses
<1>6. CASE posts' = posts \ {p}
  <2>1. Submissions' \subseteq Submissions
    BY <1>5, <1>6 DEF Submissions
  <2> QED
    BY <1>5, <1>6, <2>1 DEF SubmitInv, Counted, Undecided, OneByOne, GuardHolds
<1>7. CASE ~p.told /\ posts' = (posts \ {p}) \cup {q}
  <2>1. Key(q) = Key(p)
    BY <1>2, <1>7 DEF Key
  <2>2. Submissions' \subseteq Submissions
    BY <1>5, <1>7, <2>1 DEF Submissions
  <2>3. Counted'
    BY <1>2, <1>5, <1>7, <2>2 DEF SubmitInv, Counted
  <2>4. Undecided'
    BY <1>1, <1>2, <1>5, <1>7, <2>1 DEF SubmitInv, Undecided
  <2> QED
    BY <1>5, <2>2, <2>3, <2>4 DEF SubmitInv, OneByOne, GuardHolds
<1> QED
  BY <1>3, <1>6, <1>7

\* The guard opens when the one submission that was not in doubt has ended.
LEMMA OthersInDoubt ==
  ASSUME SubmitInv, NEW p \in posts, ~p.told
  PROVE  \A k \in Submissions : k.form = p.form /\ k # Key(p) => k \in doubtful \/ k.n > p.n
<1> SUFFICES ASSUME NEW k \in Submissions, k.form = p.form, k # Key(p), ~(k.n > p.n)
             PROVE  k \in doubtful
  OBVIOUS
<1>1. Key(p) \in Submissions /\ Key(p).n = p.n /\ Key(p).form = p.form
  BY DEF Submissions, Key
<1>2. k.n \in Nat /\ p.n \in Nat
  BY <1>1 DEF SubmitInv, Counted
<1>3. k = [form |-> k.form, n |-> k.n]
  BY DEF Submissions, Key
<1>4. k.n # p.n
  BY <1>3 DEF Key
<1> QED
  BY <1>1, <1>2, <1>4 DEF SubmitInv, OneByOne

\* No later submission of the form exists while one that is not in doubt does.
LEMMA NothingLater ==
  ASSUME SubmitInv, NEW p \in posts, ~p.told
  PROVE  \A k \in Submissions : k.form = p.form => ~(k.n > p.n)
<1>1. Key(p) \in Submissions /\ Key(p).n = p.n /\ Key(p).form = p.form
  BY DEF Submissions, Key
<1>2. Key(p) \notin doubtful
  BY DEF SubmitInv, Undecided
<1> QED
  BY <1>1, <1>2 DEF SubmitInv, Counted, OneByOne

LEMMA FailureKeeps ==
  ASSUME SubmitInv, NEW p \in posts, FailureReported(p), route' = route
  PROVE  SubmitInv'
<1>1. /\ p.phase = "refused" /\ posts' = posts \ {p}
      /\ UNCHANGED <<form, submitted, campaigns, doubtful>>
      /\ inFlight' = (inFlight /\ p.form # form)
  BY DEF FailureReported, ReleaseGuard
<1>2. IsPost(p) /\ ~p.told
  BY <1>1 DEF SubmitInv, Counted, IsPost
<1>3. Submissions' \subseteq Submissions
  BY <1>1 DEF Submissions
<1>4. Key(p) \notin Submissions'
  <2>1. \A r \in posts' : r.n # p.n
    BY <1>1 DEF SubmitInv, Counted
  <2>2. \A c \in campaigns : c.n # p.n
    BY <1>1 DEF SubmitInv, Undecided
  <2> QED
    BY <1>1, <2>1, <2>2 DEF Submissions, Key
<1>5. Counted' /\ Undecided' /\ OneByOne'
  BY <1>1, <1>3 DEF SubmitInv, Counted, Undecided, OneByOne
<1>6. GuardHolds'
  <2>1. CASE p.form = form
    BY <1>1, <1>2, <1>3, <1>4, <2>1, OthersInDoubt, NothingLater DEF GuardHolds
  <2>2. CASE p.form # form
    <3>1. inFlight' = inFlight \/ (~inFlight /\ ~inFlight')
      BY <1>1, <2>2
    <3> QED
      BY <1>1, <1>3, <3>1 DEF SubmitInv, GuardHolds
  <2> QED
    BY <2>1, <2>2
<1> QED
  BY <1>5, <1>6 DEF SubmitInv

LEMMA TellingKeeps ==
  ASSUME NEW p, IsPost(p), p.phase = "sent"
  PROVE  LET q == [p EXCEPT !.told = TRUE] IN
           q.form = p.form /\ q.n = p.n /\ q.list = p.list /\ q.phase = "sent" /\ q.told /\ IsPost(q)
<1>1. PICK yes : yes = TRUE
  OBVIOUS
<1> PICK f, n, l, g, h, t :
      p = [form |-> f, n |-> n, list |-> l, good |-> g, phase |-> h, told |-> t]
  BY DEF IsPost
<1>2. [p EXCEPT !.told = yes]
        = [form |-> f, n |-> n, list |-> l, good |-> g, phase |-> h, told |-> yes]
  OBVIOUS
<1>3. [p EXCEPT !.told = TRUE] = [p EXCEPT !.told = yes]
  BY <1>1, Zenon
<1>4. PICK q : q = [p EXCEPT !.told = yes]
  OBVIOUS
<1>5. q.form = p.form /\ q.n = p.n /\ q.list = p.list /\ q.phase = "sent" /\ q.told = yes /\ IsPost(q)
  BY <1>2, <1>4 DEF IsPost
<1> QED
  BY <1>1, <1>3, <1>4, <1>5, Zenon

LEMMA LostKeeps ==
  ASSUME SubmitInv, NEW p \in posts, AnswerLost(p), route' = route
  PROVE  SubmitInv'
<1> DEFINE q == [p EXCEPT !.told = TRUE]
<1>1. /\ ~p.told
      /\ doubtful' = doubtful \cup {Key(p)}
      /\ UNCHANGED <<form, submitted, campaigns>>
      /\ inFlight' = (inFlight /\ p.form # form)
  BY DEF AnswerLost, ReleaseGuard, Key
<1>2. \/ posts' = posts \ {p}
      \/ p.phase = "sent" /\ posts' = (posts \ {p}) \cup {q}
  BY DEF AnswerLost
<1>3. IsPost(p)
  BY DEF SubmitInv, Counted
<1>4. p.phase = "sent" => q.form = p.form /\ q.n = p.n /\ q.phase = "sent" /\ q.told /\ IsPost(q)
  BY <1>3, TellingKeeps
<1> HIDE DEF q
<1>5. p.phase = "sent" => Key(q) = Key(p)
  BY <1>4 DEF Key
<1>6. Submissions' \subseteq Submissions
  BY <1>1, <1>2, <1>5 DEF Submissions
<1>7. Key(p) \in Submissions /\ Key(p).n = p.n /\ Key(p).form = p.form
  BY DEF Submissions, Key
<1>8. Counted'
  BY <1>1, <1>2, <1>4, <1>6, <1>7 DEF SubmitInv, Counted
<1>9. Undecided'
  <2>1. \A r \in posts : r # p => r.n # p.n
    BY DEF SubmitInv, Counted
  <2>2. \A r \in posts : r # p => Key(r) # Key(p)
    BY <1>7, <2>1 DEF Key
  <2> QED
    BY <1>1, <1>2, <1>4, <2>2 DEF SubmitInv, Undecided
<1>10. OneByOne'
  BY <1>1, <1>6 DEF SubmitInv, OneByOne
<1>11. GuardHolds'
  <2>1. CASE p.form = form
    BY <1>1, <1>6, <2>1, OthersInDoubt, NothingLater DEF GuardHolds
  <2>2. CASE p.form # form
    <3>1. inFlight' = inFlight \/ (~inFlight /\ ~inFlight')
      BY <1>1, <2>2
    <3> QED
      BY <1>1, <1>6, <3>1 DEF SubmitInv, GuardHolds
  <2> QED
    BY <2>1, <2>2
<1> QED
  BY <1>8, <1>9, <1>10, <1>11 DEF SubmitInv

-----------------------------------------------------------------------------
\* A new document: nobody composes, and the open posts are told.
LEMMA LoadKeeps ==
  ASSUME SubmitInv, LoadsDocument, route' # "compose"
  PROVE  SubmitInv'
<1>0. form' = form /\ UNCHANGED <<submitted, campaigns, doubtful>>
  BY DEF LoadsDocument, FormReset, DocumentGone
<1>1. posts' = {[p EXCEPT !.told = TRUE] : p \in {q \in posts : q.phase = "sent"}}
  BY DEF LoadsDocument, DocumentGone
<1>2. \A p \in posts : p.phase = "sent" =>
        LET q == [p EXCEPT !.told = TRUE] IN
          q.form = p.form /\ q.n = p.n /\ q.phase = "sent" /\ q.told /\ IsPost(q)
  BY TellingKeeps DEF SubmitInv, Counted
<1>3. \A q \in posts' : \E p \in posts :
        /\ q = [p EXCEPT !.told = TRUE] /\ p.phase = "sent"
        /\ q.form = p.form /\ q.n = p.n /\ q.phase = "sent" /\ q.told /\ IsPost(q)
  BY <1>1, <1>2
<1>4. \A q \in posts' : \E p \in posts :
        /\ q.n = p.n /\ Key(q) = Key(p) /\ IsPost(q)
        /\ q.phase = p.phase
        /\ ~q.told => ~p.told
  BY <1>3 DEF Key
<1>5. \A p, q \in posts' : p.n = q.n => p = q
  <2> SUFFICES ASSUME NEW p \in posts', NEW q \in posts', p.n = q.n
               PROVE  p = q
    OBVIOUS
  <2>1. PICK o \in posts : p = [o EXCEPT !.told = TRUE] /\ p.n = o.n
    BY <1>3
  <2>2. PICK r \in posts : q = [r EXCEPT !.told = TRUE] /\ q.n = r.n
    BY <1>3
  <2>3. o = r
    BY <2>1, <2>2 DEF SubmitInv, Counted
  <2> QED
    BY <2>1, <2>2, <2>3, Zenon
<1> QED
  BY <1>0, <1>4, <1>5, FewerSubmissions

\* Another page: the form is left, or a new one begins.  One post may have been
\* answered by a success meanwhile.
LEMMA PageKeeps ==
  ASSUME SubmitInv, NEW target, ShowsPage(target), posts' \subseteq posts,
         UNCHANGED <<submitted, campaigns, doubtful>>
  PROVE  SubmitInv'
<1>1. form' = form + 1 \/ (form' = form /\ route' # "compose")
  BY DEF ShowsPage, FormReset
<1>2. \A p \in posts' : IsPost(p)
  BY DEF SubmitInv, Counted
<1>3. \A p, q \in posts' : p.n = q.n => p = q
  BY DEF SubmitInv, Counted
<1> QED
  BY <1>1, <1>2, <1>3, FewerSubmissions

LEMMA SuccessKeeps ==
  ASSUME SubmitInv, SendSucceeds
  PROVE  SubmitInv'
<1>1. PICK p \in posts : posts' = posts \ {p} /\ UNCHANGED <<submitted, campaigns, doubtful>>
  BY DEF SendSucceeds, SuccessReported
<1>2. CASE ShowsPage("scheduled")
  BY <1>1, <1>2, PageKeeps
<1>3. CASE UNCHANGED <<route, form, inFlight>>
  <2>1. \A q \in posts' : IsPost(q)
    BY <1>1 DEF SubmitInv, Counted
  <2>2. \A r, q \in posts' : r.n = q.n => r = q
    BY <1>1 DEF SubmitInv, Counted
  <2> QED
    BY <1>1, <1>3, <2>1, <2>2, FewerSubmissions
<1> QED
  BY <1>2, <1>3 DEF SendSucceeds, signInVars

\* What the user does to the form before and beside Send.
LEMMA FormKeeps ==
  ASSUME SubmitInv, UsesForm
  PROVE  SubmitInv'
<1>1. route = "compose" /\ route' = route
  BY DEF UsesForm, signInVars
<1>2. CASE \E fields \in {"refused", "rejected", "good"} : Sends(fields)
  BY <1>1, <1>2, SendsKeeps
<1>3. CASE \E p \in posts : AnswerLost(p)
  BY <1>1, <1>3, LostKeeps
<1>4. CASE \/ \E a \in Drafts : Types(a)
           \/ CommitsBox
           \/ \E list \in Pastes : PastesList(list)
           \/ \E i \in DOMAIN seen : RemovesChip(i)
           \/ \E file \in Files : PicksFile(file)
           \/ UploadFails
  <2>1. UNCHANGED <<form, inFlight, posts, submitted, campaigns, doubtful>>
    BY <1>4 DEF Types, CommitsBox, PastesList, RemovesChip, PicksFile, UploadFails, postVars
  <2> QED
    BY <1>1, <2>1, SameSubmissions
<1> QED
  BY <1>2, <1>3, <1>4 DEF UsesForm

LEMMA AnsweredKeeps ==
  ASSUME SubmitInv, FormAnswered
  PROVE  SubmitInv'
<1>1. route' = route
  BY DEF FormAnswered, signInVars
<1>2. CASE Renders \/ UploadParsed \/ UploadFails
  <2>1. UNCHANGED <<form, inFlight, posts, submitted, campaigns, doubtful>>
    BY <1>2 DEF Renders, UploadParsed, UploadFails, postVars
  <2> QED
    BY <1>1, <2>1, SameSubmissions
<1>3. PICK authorised : authorised = Authorised
  OBVIOUS
<1>4. ASSUME NEW p \in posts, ServerCommits(p, Authorised)
      PROVE  SubmitInv'
  BY <1>1, <1>3, <1>4, CommitKeeps
<1>5. ASSUME NEW p \in posts, ServerRefuses(p, Authorised)
      PROVE  SubmitInv'
  BY <1>1, <1>3, <1>5, RefusalKeeps
<1>6. ASSUME NEW p \in posts, FailureReported(p)
      PROVE  SubmitInv'
  BY <1>1, <1>6, FailureKeeps
<1> QED
  BY <1>2, <1>4, <1>5, <1>6 DEF FormAnswered

LEMMA NextKeeps ==
  ASSUME SubmitInv, [Next]_vars
  PROVE  SubmitInv'
<1>1. CASE Navigates
  BY <1>1, PageKeeps DEF Navigates, postVars
<1>2. CASE Session
  <2>1. CASE (SignsIn \/ SignsOut) /\ LoadsDocument
    <3>1. route' # "compose"
      BY <2>1 DEF SignsIn, SignsOut
    <3> QED
      BY <2>1, <3>1, LoadKeeps
  <2>2. CASE (ExchangeFails \/ TokenExpires \/ CookieExpires) /\ UNCHANGED composeVars
    <3>1. route' = route
      BY <2>2 DEF ExchangeFails, TokenExpires, CookieExpires
    <3> QED
      BY <2>2, <3>1, SameSubmissions DEF composeVars
  <2> QED
    BY <1>2, <2>1, <2>2 DEF Session
<1>3. CASE UsesForm
  BY <1>3, FormKeeps
<1>4. CASE FormAnswered
  BY <1>4, AnsweredKeeps
<1>5. CASE SendSucceeds
  BY <1>5, SuccessKeeps
<1>6. CASE \/ SessionResolves \/ WindowFocused \/ EmailMoves \/ UsesView \/ Debounces
           \/ \E h \in Hooks : Answering(h)
           \/ AnswerFails \/ UNCHANGED vars
  <2>1. route' = route /\ UNCHANGED composeVars
    BY <1>6 DEF SessionResolves, WindowFocused, SessionRead, StatusRead, EmailMoves, UsesView, Debounces, Answering,
                AnswerFails, signInVars, vars
  <2> QED
    BY <2>1, SameSubmissions DEF composeVars
<1> QED
  BY <1>1, <1>2, <1>3, <1>4, <1>5, <1>6 DEF Next

\* ComposeForm.tsx, "guards against a double submit at the source".
THEOREM OneCampaignUnlessInDoubt == Spec => []OneCampaignPerForm
<1>1. Init => SubmitInv
  BY InitSubmit
<1>2. SubmitInv /\ [Next]_vars => SubmitInv'
  BY NextKeeps
<1>3. SubmitInv => OneCampaignPerForm
  BY InvIsEnough
<1> QED
  BY <1>1, <1>2, <1>3, PTL DEF Spec

-----------------------------------------------------------------------------
(* The recipients *)

\* What AddUnseen holds after each token.
AddsAlong(path, value, tokens) ==
  /\ path \in [0..Len(tokens) -> Seq(Address)]
  /\ path[0] = value
  /\ \A n \in 1..Len(tokens) : path[n] = AddUnseen(path[n - 1], tokens[n])
  /\ path[Len(tokens)] = CommitTokens(value, tokens)

LEMMA AddPath ==
  ASSUME NEW value \in Seq(Address), NEW tokens \in Seq(Address)
  PROVE  \E path : AddsAlong(path, value, tokens)
<1> PICK N : N = Len(tokens)
  OBVIOUS
<1> DEFINE step == [p \in Seq(Address) \X Address |-> AddUnseen(p[1], p[2])]
           Body(g) == [s \in SUBSET DOMAIN tokens |->
                         IF s = {} THEN value
                         ELSE LET x == Max(s) IN AddUnseen(g[s \ {x}], tokens[x])]
           iter == CHOOSE g : g = Body(g)
           path == [n \in 0..N |-> iter[1..n]]
           InSeq == {n \in 0..N : iter[1..n] \in Seq(Address)}
<1>0. DOMAIN tokens = 1..N /\ N \in Nat /\ \A i \in 1..N : tokens[i] \in Address
  OBVIOUS
<1>1. \A list \in Seq(Address), a \in Address : AddUnseen(list, a) \in Seq(Address)
  BY DEF AddUnseen
<1>2. step \in [Seq(Address) \X Address -> Seq(Address)] /\
      \A list \in Seq(Address), a \in Address : step[<<list, a>>] = AddUnseen(list, a)
  BY <1>1
<1> HIDE DEF step
<1>3. ASSUME NEW s \in SUBSET (1..N), s # {}
      PROVE  Max(s) \in 1..N /\ tokens[Max(s)] \in Address
  <2>1. Max(s) \in s
    BY <1>0, <1>3, GreatestIsIn
  <2> QED
    BY <1>0, <2>1
<1>4. \E g : g = Body(g)
  <2>a. PICK A : A = Seq(Address)
    OBVIOUS
  <2>c. PICK st : st = step
    OBVIOUS
  <2>0. value \in A /\ st \in [A \X Address -> A]
    BY <1>2, <2>a, <2>c
  <2>1. PICK g : Folded(g, A, value, st, tokens)
    BY <2>0, FoldExists
  <2>2. \A s \in SUBSET (1..N) : s # {} =>
          /\ g[s \ {Max(s)}] \in Seq(Address)
          /\ g[s] = AddUnseen(g[s \ {Max(s)}], tokens[Max(s)])
    BY <1>2, <1>3, <2>1, <2>a, <2>c DEF Folded
  <2>3. g = [s \in SUBSET (1..N) |-> g[s]] /\ g[{}] = value
    BY <2>1 DEF Folded
  <2>4. g = Body(g)
    BY <1>0, <2>2, <2>3
  <2> QED
    BY <2>4
<1>5. iter = Body(iter)
  BY <1>4, Zenon
<1>6. CommitTokens(value, tokens) = iter[DOMAIN tokens]
  BY DEF CommitTokens, FoldLeft, MapThenFoldSet
<1> HIDE DEF iter
<1>7. iter[1..0] = value
  <2>1. 1..0 = {} /\ {} \in SUBSET DOMAIN tokens
    OBVIOUS
  <2> QED
    BY <1>5, <2>1
<1>8. ASSUME NEW n \in 1..N
      PROVE  iter[1..n] = AddUnseen(iter[1..(n - 1)], tokens[n])
  <2>1. 1..n \in SUBSET DOMAIN tokens /\ 1..n # {} /\ Max(1..n) = n /\ (1..n) \ {n} = 1..(n - 1)
    <3>1. n \in Nat /\ n # 0 /\ n <= N
      BY <1>0
    <3>2. 1..n \subseteq 1..N
      BY <1>0, <3>1
    <3>3. 1..n # {} /\ Max(1..n) = n /\ (1..n) \ {n} = 1..(n - 1)
      BY <3>1, FrontOfRange
    <3> QED
      BY <1>0, <3>2, <3>3
  <2>2. iter[1..n] = AddUnseen(iter[(1..n) \ {Max(1..n)}], tokens[Max(1..n)])
    BY <1>5, <2>1, Zenon
  <2> QED
    BY <2>1, <2>2
<1>9. path \in [0..N -> Seq(Address)]
  <2>1. 0 \in InSeq
    <3>1. 0 \in 0..N /\ iter[1..0] \in Seq(Address)
      BY <1>0, <1>7
    <3> QED
      BY <3>1
  <2>2. ASSUME NEW n \in 1..N, n - 1 \in InSeq PROVE n \in InSeq
    <3>1. iter[1..(n - 1)] \in Seq(Address)
      BY <2>2
    <3>2. tokens[n] \in Address /\ n \in 0..N
      BY <1>0
    <3>3. iter[1..n] \in Seq(Address)
      BY <1>1, <1>8, <3>1, <3>2, Zenon
    <3> QED
      BY <3>2, <3>3
  <2> HIDE DEF InSeq
  <2>3. 0..N \subseteq InSeq
    BY <1>0, <2>1, <2>2, BoundedInduction
  <2> QED
    BY <2>3 DEF InSeq
<1>10. /\ path[0] = value
       /\ path[N] = CommitTokens(value, tokens)
       /\ \A n \in 1..N : path[n] = AddUnseen(path[n - 1], tokens[n])
  <2>1. path[0] = value
    BY <1>0, <1>7
  <2>2. path[N] = CommitTokens(value, tokens)
    BY <1>0, <1>6
  <2>3. ASSUME NEW n \in 1..N PROVE path[n] = AddUnseen(path[n - 1], tokens[n])
    <3>1. n \in 0..N /\ n - 1 \in 0..N
      BY <1>0
    <3>2. path[n] = iter[1..n] /\ path[n - 1] = iter[1..(n - 1)]
      BY <3>1
    <3> QED
      BY <1>8, <3>2
  <2> QED
    BY <2>1, <2>2, <2>3
<1> HIDE DEF path
<1> QED
  BY <1>9, <1>10 DEF AddsAlong

\* A list in which every address occurs once, in one spelling.
Told(list) ==
  /\ list \in Seq(Address)
  /\ Distinct(list)
  /\ \A a, b \in ToSet(list) : KeyOf[a] = KeyOf[b] => a = b

LEMMA KeysOfSet ==
  ASSUME NEW list
  PROVE  Keys(list) = {KeyOf[a] : a \in ToSet(list)}
BY DEF Keys, ToSet

LEMMA AddUnseenFacts ==
  ASSUME NEW list, Told(list), NEW a \in Address
  PROVE  /\ Told(AddUnseen(list, a))
         /\ ToSet(list) \subseteq ToSet(AddUnseen(list, a))
<1>1. CASE KeyOf[a] \in Keys(list)
  BY <1>1 DEF AddUnseen
<1>2. CASE KeyOf[a] \notin Keys(list)
  <2>1. AddUnseen(list, a) = Append(list, a)
    BY <1>2 DEF AddUnseen
  <2>2. list \in Seq(Address) /\ Distinct(list)
    BY DEF Told
  <2>3. \A b \in ToSet(list) : KeyOf[b] # KeyOf[a]
    BY <1>2, KeysOfSet
  <2>4. a \notin ToSet(list)
    BY <2>3
  <2>5. /\ Append(list, a) \in Seq(Address)
        /\ ToSet(Append(list, a)) = ToSet(list) \cup {a}
        /\ Distinct(Append(list, a))
    BY <2>2, <2>4, AppendedSet
  <2> QED
    BY <2>1, <2>3, <2>5 DEF Told
<1> QED
  BY <1>1, <1>2

\* A commit keeps what is there, in front, and adds no address twice.
LEMMA CommitFacts ==
  ASSUME NEW value, Told(value), NEW tokens \in Seq(Address)
  PROVE  /\ Told(CommitTokens(value, tokens))
         /\ ToSet(value) \subseteq ToSet(CommitTokens(value, tokens))
<1> PICK N : N = Len(tokens)
  OBVIOUS
<1>0. N \in Nat /\ \A i \in 1..N : tokens[i] \in Address
  OBVIOUS
<1>1. PICK path : AddsAlong(path, value, tokens)
  BY AddPath DEF Told
<1>2. /\ path[0] = value /\ path[N] = CommitTokens(value, tokens)
      /\ \A n \in 1..N : path[n] = AddUnseen(path[n - 1], tokens[n])
  BY <1>1 DEF AddsAlong
<1> DEFINE Good(n) == Told(path[n]) /\ ToSet(value) \subseteq ToSet(path[n])
           G == {n \in 0..N : Good(n)}
<1>3. 0 \in G
  BY <1>0, <1>2
<1>4. ASSUME NEW n \in 1..N, n - 1 \in G PROVE n \in G
  <2>1. Good(n - 1) /\ n \in 0..N
    BY <1>0, <1>4
  <2>2. Told(path[n]) /\ ToSet(path[n - 1]) \subseteq ToSet(path[n])
    BY <1>0, <1>2, <2>1, AddUnseenFacts
  <2> QED
    BY <2>1, <2>2
<1> HIDE DEF G
<1>5. 0..N \subseteq G
  BY <1>0, <1>3, <1>4, BoundedInduction
<1>6. N \in 0..N /\ Good(N)
  BY <1>0, <1>5 DEF G
<1> QED
  BY <1>2, <1>6

\* A list without duplicates passes the server as it is.
LEMMA DedupeKeeps ==
  ASSUME NEW list, Told(list)
  PROVE  Dedupe(list) = list
<1> PICK N : N = Len(list)
  OBVIOUS
<1>0. /\ list \in Seq(Address) /\ N \in Nat /\ DOMAIN list = 1..N
      /\ \A i \in 1..N : list[i] \in Address /\ list[i] \in ToSet(list)
  BY DEF Told, ToSet
<1> PICK none : none = <<>>
  OBVIOUS
<1>p. none \in Seq(Address) /\ list \in Seq(Address)
  BY <1>0
<1>1. PICK path : AddsAlong(path, none, list)
  BY <1>p, AddPath
<1>2. /\ path[0] = <<>> /\ path[N] = Dedupe(list)
      /\ path \in [0..N -> Seq(Address)]
      /\ \A n \in 1..N : path[n] = AddUnseen(path[n - 1], list[n])
  BY <1>1 DEF AddsAlong, Dedupe, CommitTokens
<1> DEFINE Good(n) == Len(path[n]) = n /\ \A i \in 1..n : path[n][i] = list[i]
           G == {n \in 0..N : Good(n)}
<1>3. 0 \in G
  BY <1>0, <1>2
<1>4. ASSUME NEW n \in 1..N, n - 1 \in G PROVE n \in G
  <2> HIDE DEF Good
  <2>0. n - 1 \in 0..N /\ Good(n - 1)
    BY <1>4
  <2> USE DEF Good
  <2>1. n \in 0..N /\ n - 1 \in Nat /\ path[n - 1] \in Seq(Address) /\ list[n] \in Address
    BY <1>0, <1>2, <2>0
  <2>2. KeyOf[list[n]] \notin Keys(path[n - 1])
    <3> SUFFICES ASSUME NEW i \in DOMAIN path[n - 1], KeyOf[path[n - 1][i]] = KeyOf[list[n]]
                 PROVE  FALSE
      BY DEF Keys
    <3>1. i \in 1..(n - 1) /\ path[n - 1][i] = list[i]
      BY <2>0, <2>1
    <3>2. i \in 1..N /\ i # n
      BY <1>0, <3>1
    <3>3. list[i] = list[n]
      BY <1>0, <3>1, <3>2 DEF Told
    <3> QED
      BY <1>0, <3>2, <3>3 DEF Told, Distinct
  <2>3. path[n] = Append(path[n - 1], list[n])
    BY <1>2, <2>2 DEF AddUnseen
  <2>4. Good(n)
    BY <1>0, <2>0, <2>1, <2>3
  <2> HIDE DEF Good
  <2> QED
    BY <2>1, <2>4
<1> HIDE DEF G
<1>5. 0..N \subseteq G
  BY <1>0, <1>3, <1>4, BoundedInduction
<1>6. N \in 0..N /\ Good(N)
  BY <1>0, <1>5 DEF G
<1>7. path[N] \in Seq(Address) /\ Len(path[N]) = Len(list)
      /\ \A i \in 1..Len(list) : path[N][i] = list[i]
  BY <1>0, <1>2, <1>6
<1>8. path[N] = list
  BY <1>0, <1>7, SeqEqual
<1> QED
  BY <1>2, <1>8

LEMMA KeepTold ==
  ASSUME NEW list, Told(list), NEW S
  PROVE  Told(Keep(list, S)) /\ ToSet(Keep(list, S)) = ToSet(list) \cap S
<1>1. /\ Keep(list, S) \in Seq(Address)
      /\ ToSet(Keep(list, S)) = ToSet(list) \cap S
      /\ Distinct(Keep(list, S))
  BY KeepFacts DEF Told
<1> QED
  BY <1>1 DEF Told

\* Two lists that share no address.
LEMMA ConcatTold ==
  ASSUME NEW a, NEW b, Told(a), Told(b), \A x \in ToSet(a), y \in ToSet(b) : KeyOf[x] # KeyOf[y]
  PROVE  Told(a \o b) /\ ToSet(a) \subseteq ToSet(a \o b)
<1> PICK c : c = a \o b
  OBVIOUS
<1>0. /\ a \in Seq(Address) /\ b \in Seq(Address) /\ c \in Seq(Address)
      /\ Len(a) \in Nat /\ Len(b) \in Nat /\ Len(c) = Len(a) + Len(b)
      /\ DOMAIN a = 1..Len(a) /\ DOMAIN b = 1..Len(b) /\ DOMAIN c = 1..Len(c)
      /\ \A i \in 1..Len(c) : c[i] = IF i <= Len(a) THEN a[i] ELSE b[i - Len(a)]
  BY DEF Told
<1>1. ASSUME NEW i \in 1..Len(c)
      PROVE  \/ i \in 1..Len(a) /\ c[i] = a[i] /\ c[i] \in ToSet(a)
             \/ i - Len(a) \in 1..Len(b) /\ i \notin 1..Len(a) /\ c[i] = b[i - Len(a)] /\ c[i] \in ToSet(b)
  <2>1. CASE i <= Len(a)
    <3>1. i \in 1..Len(a) /\ c[i] = a[i]
      BY <1>0, <2>1
    <3> QED
      BY <1>0, <3>1 DEF ToSet
  <2>2. CASE ~(i <= Len(a))
    <3>1. i - Len(a) \in 1..Len(b) /\ i \notin 1..Len(a) /\ c[i] = b[i - Len(a)]
      BY <1>0, <2>2
    <3> QED
      BY <1>0, <3>1 DEF ToSet
  <2> QED
    BY <2>1, <2>2
<1>2. Distinct(c)
  <2> SUFFICES ASSUME NEW i \in 1..Len(c), NEW j \in 1..Len(c), c[i] = c[j]
               PROVE  i = j
    BY <1>0 DEF Distinct
  <2>d. c[i] = c[j]
    OBVIOUS
  <2>1. \A x \in ToSet(a), y \in ToSet(b) : x # y
    OBVIOUS
  <2>2. CASE i \in 1..Len(a) /\ j \in 1..Len(a)
    <3>1. c[i] = a[i] /\ c[j] = a[j]
      BY <1>1, <2>2
    <3>2. \A k, l \in 1..Len(a) : a[k] = a[l] => k = l
      BY <1>0 DEF Told, Distinct
    <3> QED
      BY <2>d, <2>2, <3>1, <3>2
  <2>3. CASE i \notin 1..Len(a) /\ j \notin 1..Len(a)
    <3>1. /\ i - Len(a) \in 1..Len(b) /\ c[i] = b[i - Len(a)]
          /\ j - Len(a) \in 1..Len(b) /\ c[j] = b[j - Len(a)]
      BY <1>1, <2>3
    <3>2. \A k, l \in 1..Len(b) : b[k] = b[l] => k = l
      BY <1>0 DEF Told, Distinct
    <3>3. i - Len(a) = j - Len(a)
      BY <2>d, <3>1, <3>2
    <3> QED
      BY <1>0, <3>3
  <2> QED
    BY <1>1, <2>d, <2>1, <2>2, <2>3
<1>3. ToSet(c) \subseteq ToSet(a) \cup ToSet(b)
  BY <1>0, <1>1 DEF ToSet
<1>4. ToSet(a) \subseteq ToSet(c)
  <2> SUFFICES ASSUME NEW i \in 1..Len(a) PROVE a[i] \in ToSet(c)
    BY <1>0 DEF ToSet
  <2>1. i \in 1..Len(c) /\ c[i] = a[i]
    BY <1>0
  <2> QED
    BY <1>0, <2>1 DEF ToSet
<1>5. \A x, y \in ToSet(c) : KeyOf[x] = KeyOf[y] => x = y
  BY <1>3 DEF Told
<1> QED
  BY <1>0, <1>2, <1>4, <1>5 DEF Told

\* One chip less, and of the others none twice.
LEMMA RemovalTold ==
  ASSUME NEW list, Told(list), NEW k \in DOMAIN list
  PROVE  Told(RemoveAt(list, k)) /\ Len(RemoveAt(list, k)) = Len(list) - 1
<1> PICK a, b : a = SubSeq(list, 1, k - 1) /\ b = SubSeq(list, k + 1, Len(list))
  OBVIOUS
<1>0. /\ list \in Seq(Address) /\ Len(list) \in Nat /\ DOMAIN list = 1..Len(list)
      /\ k \in 1..Len(list) /\ k \in Nat /\ k >= 1 /\ k <= Len(list)
  BY DEF Told
<1>1. /\ a \in Seq(Address) /\ Len(a) = k - 1 /\ DOMAIN a = 1..(k - 1)
      /\ \A i \in 1..(k - 1) : a[i] = list[i]
  <2>1. PICK n : n = k - 1
    OBVIOUS
  <2>2. n \in Nat /\ \A i \in 1..n : list[i] \in Address
    BY <1>0, <2>1
  <2>3. /\ SubSeq(list, 1, n) \in Seq(Address)
        /\ Len(SubSeq(list, 1, n)) = IF 1 <= n THEN n - 1 + 1 ELSE 0
        /\ \A i \in 1..(n - 1 + 1) : SubSeq(list, 1, n)[i] = list[1 + i - 1]
    BY <2>2, SubSeqProperties
  <2>4. a \in Seq(Address) /\ Len(a) = n
    BY <1>0, <2>1, <2>2, <2>3
  <2>5. \A i \in 1..n : a[i] = list[i]
    BY <1>0, <2>1, <2>2, <2>3
  <2> QED
    BY <2>1, <2>4, <2>5
<1>2. /\ b \in Seq(Address) /\ Len(b) = Len(list) - k /\ DOMAIN b = 1..(Len(list) - k)
      /\ \A i \in 1..(Len(list) - k) : b[i] = list[k + i]
  <2>1. PICK m, n : m = k + 1 /\ n = Len(list)
    OBVIOUS
  <2>2. m \in Int /\ n \in Int /\ \A i \in m..n : list[i] \in Address
    BY <1>0, <2>1
  <2>3. /\ SubSeq(list, m, n) \in Seq(Address)
        /\ Len(SubSeq(list, m, n)) = IF m <= n THEN n - m + 1 ELSE 0
        /\ \A i \in 1..(n - m + 1) : SubSeq(list, m, n)[i] = list[m + i - 1]
    BY <2>2, SubSeqProperties
  <2>4. b \in Seq(Address) /\ Len(b) = Len(list) - k
    <3>1. n - m + 1 = Len(list) - k /\ (m <= n \/ Len(list) - k = 0)
      BY <1>0, <2>1
    <3> QED
      BY <2>1, <2>3, <3>1
  <2>5. \A i \in 1..(Len(list) - k) : b[i] = list[k + i]
    BY <1>0, <2>1, <2>2, <2>3
  <2> QED
    BY <2>4, <2>5
<1>3. \A i, j \in 1..Len(list) : list[i] = list[j] => i = j
  BY <1>0 DEF Told, Distinct
<1>4. Distinct(a)
  <2> SUFFICES ASSUME NEW i \in 1..(k - 1), NEW j \in 1..(k - 1), a[i] = a[j]
               PROVE  i = j
    BY <1>1 DEF Distinct
  <2>1. i \in 1..Len(list) /\ j \in 1..Len(list)
    BY <1>0
  <2>2. a[i] = list[i] /\ a[j] = list[j]
    BY <1>1
  <2> QED
    BY <1>3, <2>1, <2>2
<1>5. Distinct(b)
  <2> SUFFICES ASSUME NEW i \in 1..(Len(list) - k), NEW j \in 1..(Len(list) - k), b[i] = b[j]
               PROVE  i = j
    BY <1>2 DEF Distinct
  <2>1. list[k + i] = list[k + j] /\ k + i \in 1..Len(list) /\ k + j \in 1..Len(list)
    <3>1. k + i \in 1..Len(list) /\ k + j \in 1..Len(list)
      BY <1>0
    <3>2. b[i] = b[j] /\ b[i] = list[k + i] /\ b[j] = list[k + j]
      BY <1>2
    <3> QED
      BY <3>1, <3>2
  <2>2. k + i = k + j
    BY <1>3, <2>1
  <2> QED
    BY <1>0, <2>2
<1>6. /\ \A x \in ToSet(a) : \E i \in 1..Len(list) : i < k /\ x = list[i]
      /\ \A y \in ToSet(b) : \E j \in 1..Len(list) : j > k /\ y = list[j]
  <2>1. ASSUME NEW i \in 1..(k - 1) PROVE i \in 1..Len(list) /\ i < k /\ a[i] = list[i]
    BY <1>0, <1>1
  <2>2. ASSUME NEW i \in 1..(Len(list) - k)
        PROVE  k + i \in 1..Len(list) /\ k + i > k /\ b[i] = list[k + i]
    BY <1>0, <1>2
  <2>3. \A x \in ToSet(a) : \E i \in 1..(k - 1) : x = a[i]
    BY <1>1 DEF ToSet
  <2>4. \A y \in ToSet(b) : \E i \in 1..(Len(list) - k) : y = b[i]
    BY <1>2 DEF ToSet
  <2>5. \A x \in ToSet(a) : \E i \in 1..Len(list) : i < k /\ x = list[i]
    BY <2>1, <2>3
  <2>6. \A y \in ToSet(b) : \E j \in 1..Len(list) : j > k /\ y = list[j]
    <3> SUFFICES ASSUME NEW y \in ToSet(b) PROVE \E j \in 1..Len(list) : j > k /\ y = list[j]
      OBVIOUS
    <3>1. PICK i \in 1..(Len(list) - k) : y = b[i]
      BY <2>4
    <3> QED
      BY <2>2, <3>1
  <2> QED
    BY <2>5, <2>6
<1>7. ToSet(a) \subseteq ToSet(list) /\ ToSet(b) \subseteq ToSet(list)
  BY <1>0, <1>6 DEF ToSet
<1>8. Told(a) /\ Told(b)
  BY <1>1, <1>2, <1>4, <1>5, <1>7 DEF Told
<1>9. \A x \in ToSet(a), y \in ToSet(b) : KeyOf[x] # KeyOf[y]
  <2> SUFFICES ASSUME NEW x \in ToSet(a), NEW y \in ToSet(b), KeyOf[x] = KeyOf[y]
               PROVE  FALSE
    OBVIOUS
  <2>1. x = y
    BY <1>7 DEF Told
  <2>2. PICK i \in 1..Len(list) : i < k /\ x = list[i]
    BY <1>6
  <2>3. PICK j \in 1..Len(list) : j > k /\ y = list[j]
    BY <1>6
  <2>4. i = j
    BY <1>3, <2>1, <2>2, <2>3
  <2> QED
    BY <1>0, <2>2, <2>3, <2>4
<1>10. Told(a \o b)
  BY <1>8, <1>9, ConcatTold
<1>11. Len(a \o b) = Len(list) - 1
  <2>1. Len(a \o b) = Len(a) + Len(b)
    BY <1>1, <1>2
  <2>2. Len(a) = k - 1 /\ Len(b) = Len(list) - k
    BY <1>1, <1>2
  <2>3. (k - 1) + (Len(list) - k) = Len(list) - 1
    BY <1>0
  <2> QED
    BY <2>1, <2>2, <2>3
<1> QED
  BY <1>10, <1>11 DEF RemoveAt

\* What the merge of a parsed file leaves of the chips and adds to them.
LEMMA MergeFacts ==
  ASSUME NEW current, Told(current), NEW file \in Seq(Address)
  PROVE  LET merged == MergeUpload(current, ParseUpload(file).recipients) IN
           Told(merged) /\ ToSet(current) \subseteq ToSet(merged)
<1> PICK none, matching, parsed, unseen, added :
      /\ none = <<>>
      /\ matching = Keep(file, Matching)
      /\ parsed = CommitTokens(none, matching)
      /\ unseen = {a \in Address : KeyOf[a] \notin Keys(current)}
      /\ added = Keep(parsed, unseen)
  OBVIOUS
<1>1. Told(none)
  BY DEF Told, Distinct, ToSet
<1>2. matching \in Seq(Address)
  BY KeepFacts
<1>3. Told(parsed)
  BY <1>1, <1>2, CommitFacts
<1>4. Told(added) /\ ToSet(added) = ToSet(parsed) \cap unseen
  BY <1>3, KeepTold
<1>5. \A x \in ToSet(current), y \in ToSet(added) : KeyOf[x] # KeyOf[y]
  BY <1>4, KeysOfSet
<1>6. Told(current \o added) /\ ToSet(current) \subseteq ToSet(current \o added)
  BY <1>4, <1>5, ConcatTold
<1>7. ParseUpload(file).recipients = parsed
  BY DEF ParseUpload, CommitTokens
<1> QED
  BY <1>6, <1>7 DEF MergeUpload

-----------------------------------------------------------------------------
(* The form *)

FormInv ==
  /\ Told(chips) /\ Told(seen)
  /\ box \in Address \cup {NoText}
  /\ upload \in Files \cup {NoFile}
  /\ \A p \in posts : Told(p.list)
  /\ \A c \in campaigns : c.rows = c.shown

LEMMA InitForm ==
  ASSUME Init
  PROVE  FormInv
BY DEF Init, ComposeInit, FormInv, Told, Distinct, ToSet

LEMMA TypedTokens ==
  ASSUME FormInv
  PROVE  Typed \in Seq(Address)
<1>1. CASE box = NoText
  BY <1>1 DEF Typed
<1>2. CASE box \in Address
  BY <1>2, ComposeConfig DEF Typed, ComposeConfig
<1> QED
  BY <1>1, <1>2 DEF FormInv

\* A commit works on the list that was rendered and loses none of it.
LEMMA CommitTold ==
  ASSUME FormInv, NEW tokens \in Seq(Address), Commit(tokens)
  PROVE  /\ Told(chips') /\ Told(seen')
         /\ seen = chips => ToSet(chips) \subseteq ToSet(chips')
<1>1. Told(Committed(tokens)) /\ ToSet(seen) \subseteq ToSet(Committed(tokens))
  BY CommitFacts DEF Committed, FormInv
<1>2. \/ chips' = chips /\ seen' = seen
      \/ chips' = Committed(tokens) /\ seen' = Committed(tokens)
  BY DEF Commit, Replace
<1> QED
  BY <1>1, <1>2 DEF FormInv

LEMMA BlurTold ==
  ASSUME FormInv, Blur
  PROVE  /\ Told(chips') /\ Told(seen') /\ box' = NoText
         /\ seen = chips => ToSet(chips) \subseteq ToSet(chips')
BY TypedTokens, CommitTold DEF Blur

\* What a step leaves of the recipients, in the words of NothingVanishes.
Stays ==
  \/ ToSet(chips) \subseteq ToSet(chips')
  \/ form' # form \/ route' # route
  \/ seen # chips
  \/ (Len(chips') = Len(chips) - 1 /\ upload' = upload)

LEMMA SameForm ==
  ASSUME FormInv, UNCHANGED <<chips, seen, box, upload, posts, campaigns>>
  PROVE  FormInv' /\ Stays
BY DEF FormInv, Stays

LEMMA SendsTold ==
  ASSUME FormInv, NEW fields, Sends(fields)
  PROVE  FormInv' /\ Stays
<1>1. /\ Told(chips') /\ Told(seen') /\ box' = NoText
      /\ seen = chips => ToSet(chips) \subseteq ToSet(chips')
  BY BlurTold DEF Sends
<1>2. upload' = upload /\ campaigns' = campaigns
  BY DEF Sends
<1>3. \A p \in posts' : Told(p.list)
  <2>1. CASE posts' = posts
    BY <2>1 DEF FormInv
  <2>2. CASE posts' # posts
    <3>1. PICK list, good : /\ list = ValidChips(Committed(Typed))
                            /\ posts' = posts \cup
                                 {[form |-> form, n |-> submitted + 1, list |-> list,
                                   good |-> good, phase |-> "sent", told |-> FALSE]}
      BY <2>2 DEF Sends
    <3>2. Told(Committed(Typed))
      BY TypedTokens, CommitFacts DEF Committed, FormInv
    <3>3. Told(list)
      BY <3>1, <3>2, KeepTold DEF ValidChips
    <3> QED
      BY <3>1, <3>3 DEF FormInv
  <2> QED
    BY <2>1, <2>2
<1> QED
  BY <1>1, <1>2, <1>3 DEF FormInv, Stays

\* The rows are what the list of the submission becomes: the list itself.
LEMMA CommitsTold ==
  ASSUME FormInv, SubmitInv, NEW p \in posts, NEW authorised, ServerCommits(p, authorised)
  PROVE  FormInv' /\ Stays
<1> DEFINE q == [p EXCEPT !.phase = "committed"]
<1>1. IsPost(p) /\ Told(p.list)
  BY DEF SubmitInv, Counted, FormInv
<1>2. q.list = p.list
  BY <1>1, PostEdits
<1>3. posts' = posts \ {p} \/ posts' = (posts \ {p}) \cup {q}
  BY DEF ServerCommits, PostBecomes
<1> HIDE DEF q
<1>4. PICK rows : rows = Dedupe(p.list)
  OBVIOUS
<1>5. rows = p.list
  BY <1>1, <1>4, DedupeKeeps
<1>6. campaigns' = campaigns \cup
        {[form |-> p.form, n |-> p.n, shown |-> p.list, rows |-> rows]}
  BY <1>4 DEF ServerCommits
<1>7. UNCHANGED <<chips, seen, box, upload>>
  BY DEF ServerCommits, chipVars
<1> QED
  BY <1>1, <1>2, <1>3, <1>5, <1>6, <1>7 DEF FormInv, Stays

\* Posts that move on keep their list.
LEMMA SameLists ==
  ASSUME FormInv, UNCHANGED <<chips, seen, box, upload, campaigns>>,
         \A q \in posts' : \E p \in posts : q.list = p.list
  PROVE  FormInv' /\ Stays
BY DEF FormInv, Stays

LEMMA RefusalTold ==
  ASSUME FormInv, SubmitInv, NEW p \in posts, NEW authorised, ServerRefuses(p, authorised)
  PROVE  FormInv' /\ Stays
<1> DEFINE q == [p EXCEPT !.phase = "refused"]
<1>1. IsPost(p)
  BY DEF SubmitInv, Counted
<1>2. ~p.told => q.list = p.list
  BY <1>1, PostEdits
<1>3. posts' = posts \ {p} \/ (~p.told /\ posts' = (posts \ {p}) \cup {q})
  BY DEF ServerRefuses, PostBecomes
<1> HIDE DEF q
<1>4. UNCHANGED <<chips, seen, box, upload, campaigns>>
  BY DEF ServerRefuses, chipVars
<1> QED
  BY <1>2, <1>3, <1>4, SameLists

LEMMA LostTold ==
  ASSUME FormInv, SubmitInv, NEW p \in posts, AnswerLost(p)
  PROVE  FormInv' /\ Stays
<1> DEFINE q == [p EXCEPT !.told = TRUE]
<1>1. IsPost(p)
  BY DEF SubmitInv, Counted
<1>2. p.phase = "sent" => q.list = p.list
  BY <1>1, TellingKeeps
<1>3. posts' = posts \ {p} \/ (p.phase = "sent" /\ posts' = (posts \ {p}) \cup {q})
  BY DEF AnswerLost
<1> HIDE DEF q
<1>4. UNCHANGED <<chips, seen, box, upload, campaigns>>
  BY DEF AnswerLost, chipVars
<1> QED
  BY <1>2, <1>3, <1>4, SameLists

\* The page is left or loaded again: the form is empty, and another one if any.
LEMMA ResetTold ==
  ASSUME FormInv, NEW mounted, FormReset(mounted), campaigns' = campaigns,
         \A q \in posts' : \E p \in posts : q.list = p.list,
         route' # route
  PROVE  FormInv' /\ Stays
<1>1. /\ chips' = <<>> /\ seen' = <<>> /\ box' = NoText /\ upload' = NoFile
  BY DEF FormReset
<1>2. Told(<<>>)
  BY DEF Told, Distinct, ToSet
<1> QED
  BY <1>1, <1>2 DEF FormInv, Stays

LEMMA LoadTold ==
  ASSUME FormInv, SubmitInv, LoadsDocument, route' # route
  PROVE  FormInv' /\ Stays
<1>1. posts' = {[p EXCEPT !.told = TRUE] : p \in {q \in posts : q.phase = "sent"}}
  BY DEF LoadsDocument, DocumentGone
<1>2. \A p \in posts : p.phase = "sent" => [p EXCEPT !.told = TRUE].list = p.list
  BY TellingKeeps DEF SubmitInv, Counted
<1>3. \A q \in posts' : \E p \in posts : q.list = p.list
  BY <1>1, <1>2
<1>4. FormReset(FALSE) /\ campaigns' = campaigns
  BY DEF LoadsDocument, DocumentGone
<1> QED
  BY <1>3, <1>4, ResetTold

LEMMA PageTold ==
  ASSUME FormInv, NEW target, ShowsPage(target), route' # route, posts' \subseteq posts,
         campaigns' = campaigns
  PROVE  FormInv' /\ Stays
<1>1. PICK mounted : mounted = (route' = "compose")
  OBVIOUS
<1>2. FormReset(mounted)
  BY <1>1 DEF ShowsPage
<1> QED
  BY <1>2, ResetTold

LEMMA UsesFormTold ==
  ASSUME FormInv, SubmitInv, UsesForm
  PROVE  FormInv' /\ Stays
<1>1. ASSUME NEW a \in Drafts, Types(a)
      PROVE  FormInv' /\ Stays
  BY <1>1, ComposeConfig DEF Types, FormInv, Stays, postVars, ComposeConfig
<1>2. CASE CommitsBox
  BY <1>2, BlurTold DEF CommitsBox, FormInv, Stays, postVars
<1>3. ASSUME NEW list \in Pastes, PastesList(list)
      PROVE  FormInv' /\ Stays
  <2>1. list \in Seq(Address)
    BY ComposeConfig DEF ComposeConfig
  <2>2. /\ Told(chips') /\ Told(seen')
        /\ seen = chips => ToSet(chips) \subseteq ToSet(chips')
    BY <1>3, <2>1, CommitTold DEF PastesList
  <2> QED
    BY <1>3, <2>2 DEF PastesList, FormInv, Stays, postVars
<1>4. ASSUME NEW i \in DOMAIN seen, RemovesChip(i)
      PROVE  FormInv' /\ Stays
  <2>1. Told(RemoveAt(seen, i)) /\ Len(RemoveAt(seen, i)) = Len(seen) - 1
    BY RemovalTold DEF FormInv
  <2> QED
    BY <1>4, <2>1 DEF RemovesChip, Replace, FormInv, Stays, postVars
<1>5. ASSUME NEW file \in Files, PicksFile(file)
      PROVE  FormInv' /\ Stays
  BY <1>5, BlurTold DEF PicksFile, FormInv, Stays, postVars
<1>6. ASSUME NEW fields, Sends(fields)
      PROVE  FormInv' /\ Stays
  BY <1>6, SendsTold
<1>7. CASE UploadFails
  BY <1>7 DEF UploadFails, FormInv, Stays, chipVars, postVars
<1>8. ASSUME NEW p \in posts, AnswerLost(p)
      PROVE  FormInv' /\ Stays
  BY <1>8, LostTold
<1> QED
  BY <1>1, <1>2, <1>3, <1>4, <1>5, <1>6, <1>7, <1>8 DEF UsesForm

LEMMA FormAnsweredTold ==
  ASSUME FormInv, SubmitInv, FormAnswered
  PROVE  FormInv' /\ Stays
<1>1. CASE Renders
  BY <1>1 DEF Renders, FormInv, Stays, postVars
<1>2. CASE UploadParsed
  <2>1. upload \in Seq(Address)
    BY <1>2, ComposeConfig DEF UploadParsed, FormInv, ComposeConfig
  <2>2. Told(chips') /\ ToSet(chips) \subseteq ToSet(chips')
    BY <1>2, <2>1, MergeFacts DEF UploadParsed, FormInv
  <2> QED
    BY <1>2, <2>2 DEF UploadParsed, FormInv, Stays, postVars
<1>3. CASE UploadFails
  BY <1>3 DEF UploadFails, FormInv, Stays, chipVars, postVars
<1>4. PICK authorised : authorised = Authorised
  OBVIOUS
<1>5. ASSUME NEW p \in posts, ServerCommits(p, Authorised)
      PROVE  FormInv' /\ Stays
  BY <1>4, <1>5, CommitsTold
<1>6. ASSUME NEW p \in posts, ServerRefuses(p, Authorised)
      PROVE  FormInv' /\ Stays
  BY <1>4, <1>6, RefusalTold
<1>7. ASSUME NEW p \in posts, FailureReported(p)
      PROVE  FormInv' /\ Stays
  BY <1>7 DEF FailureReported, FormInv, Stays, chipVars
<1> QED
  BY <1>1, <1>2, <1>3, <1>5, <1>6, <1>7 DEF FormAnswered

LEMMA NextTold ==
  ASSUME FormInv, SubmitInv, [Next]_vars
  PROVE  FormInv' /\ Stays
<1>1. CASE Navigates
  <2>1. PICK to \in Pages \ {route} : ShowsPage(to)
    BY <1>1 DEF Navigates
  <2>2. route' # route
    BY <1>1, <2>1 DEF Navigates, ShowsPage, GoesTo, Guarded, Pages
  <2> QED
    BY <1>1, <2>1, <2>2, PageTold DEF Navigates, postVars
<1>2. CASE Session
  <2>1. CASE (SignsIn \/ SignsOut) /\ LoadsDocument
    <3>1. route' # route
      BY <2>1 DEF SignsIn, SignsOut, Pages
    <3> QED
      BY <2>1, <3>1, LoadTold
  <2>2. CASE UNCHANGED composeVars
    BY <2>2, SameForm DEF composeVars
  <2> QED
    BY <1>2, <2>1, <2>2 DEF Session
<1>3. CASE UsesForm
  BY <1>3, UsesFormTold
<1>4. CASE FormAnswered
  BY <1>4, FormAnsweredTold
<1>5. CASE SendSucceeds
  <2>1. PICK p \in posts : posts' = posts \ {p} /\ campaigns' = campaigns
    BY <1>5 DEF SendSucceeds, SuccessReported
  <2>2. CASE Guarded("scheduled") # route
    <3>1. ShowsPage("scheduled") /\ route' # route
      BY <1>5, <2>2 DEF SendSucceeds, ShowsPage, GoesTo
    <3> QED
      BY <2>1, <3>1, PageTold
  <2>3. CASE Guarded("scheduled") = route
    <3>1. UNCHANGED <<chips, seen, box, upload>>
      BY <1>5, <2>3 DEF SendSucceeds, chipVars
    <3> QED
      BY <2>1, <3>1, SameLists
  <2> QED
    BY <2>2, <2>3
<1>6. CASE \/ SessionResolves \/ WindowFocused \/ EmailMoves \/ UsesView \/ Debounces
           \/ \E h \in Hooks : Answering(h)
           \/ AnswerFails \/ UNCHANGED vars
  <2>1. UNCHANGED composeVars
    BY <1>6 DEF SessionResolves, WindowFocused, SessionRead, EmailMoves, UsesView, Debounces, Answering,
                AnswerFails, vars
  <2> QED
    BY <2>1, SameForm DEF composeVars
<1> QED
  BY <1>1, <1>2, <1>3, <1>4, <1>5, <1>6 DEF Next

\* RecipientInput.tsx "keeps the visible count honest": whatever was typed,
\* pasted, uploaded and removed in whatever order, the server finds no duplicate
\* among the recipients that were shown.
THEOREM WhatIsShownIsSent == Spec => []ShownIsSent
<1>1. Init => SubmitInv /\ FormInv
  BY InitSubmit, InitForm
<1>2. SubmitInv /\ FormInv /\ [Next]_vars => SubmitInv' /\ FormInv'
  BY NextKeeps, NextTold
<1>3. FormInv => ShownIsSent
  BY DEF FormInv, ShownIsSent
<1> QED
  BY <1>1, <1>2, <1>3, PTL DEF Spec

\* RecipientInput.tsx "beats a recipient that quietly vanished": no step of the
\* form or of an answer takes a recipient away but the ones NothingVanishes names.
THEOREM NoRecipientVanishes == Spec => NothingVanishes
<1>1. Init => SubmitInv /\ FormInv
  BY InitSubmit, InitForm
<1>2. SubmitInv /\ FormInv /\ [Next]_vars => SubmitInv' /\ FormInv'
  BY NextKeeps, NextTold
<1>3. SubmitInv /\ FormInv /\ [Next]_vars
        => [\/ ToSet(chips) \subseteq ToSet(chips')
            \/ form' # form \/ route' # route
            \/ seen # chips
            \/ (Len(chips') = Len(chips) - 1 /\ upload' = upload)]_vars
  BY NextTold DEF Stays
<1> QED
  BY <1>1, <1>2, <1>3, PTL DEF Spec, NothingVanishes
===============================================================================
