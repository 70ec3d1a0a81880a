------------------------------ MODULE Dashboard ------------------------------
(***************************************************************************)
(* The browser's side of the scheduler in one tab: sign-in, the two list   *)
(* views and the compose page over the same hooks, and of the server what  *)
(* answers them.  AppShell keeps the counts across the pages; list and     *)
(* form live as long as their page is shown.                               *)
(***************************************************************************)
EXTENDS SignIn, EmailViews, ComposeForm

CONSTANT MaxActs    \* bound: acts of the user, failures and expiries together

ASSUME DashboardConfig == MaxActs \in Nat

VARIABLE acts       \* how many there have been

vars == <<signInVars, fetchVars, mail, viewVars, composeVars, acts>>

TypeOK ==
  /\ SignInTypeOK /\ FetchTypeOK /\ ViewTypeOK /\ ComposeTypeOK
  /\ mail \in [Mail -> {"SCHEDULED", "SENT", "CANCELLED"}]
  /\ acts \in 0..MaxActs

\* The hooks a page mounts besides the counts, and all that are mounted on it.
PageHooks(at) == IF at \in Views THEN {"list"} ELSE IF at = "compose" THEN {"limits"} ELSE {}
Mounted(at) == IF at = "login" THEN {} ELSE {"stats"} \cup PageHooks(at)

Init ==
  /\ SignInInit /\ FetchInit /\ ViewInit /\ ComposeInit
  /\ mail = [m \in Mail |-> "SCHEDULED"]
  /\ acts = 0

Act == acts < MaxActs /\ acts' = acts + 1

-----------------------------------------------------------------------------
\* A document is loaded: everything starts afresh, and no session is known yet.
LoadsDocument ==
  /\ RunEffects(Hooks, {}, FALSE, QueryKeys(route))
  /\ ViewReset /\ recount' = 0
  /\ FormReset(FALSE)
  /\ DocumentGone
  /\ UNCHANGED mail

\* The router shows another page: the counts stay unless it is the login page.
ShowsPage(target) ==
  /\ GoesTo(target)
  /\ ViewReset
  /\ FormReset(route' = "compose")
  /\ RunEffects(PageHooks(route) \cup (Mounted(route) \ Mounted(route')),
                PageHooks(route') \cup {h \in {"stats"} : recount' # recount},
                Ready, QueryKeys(Guarded(target))')
  /\ UNCHANGED mail

Navigates ==
  /\ Act
  /\ route \in Pages
  /\ UNCHANGED <<recount, postVars>>
  /\ \E to \in Pages \ {route} : ShowsPage(to)

\* Fault: the effects do not depend on the bound api.
SessionReadUnwatched ==
  /\ StatusRead
  /\ UNCHANGED <<fetchVars, mail, viewVars, composeVars>>

\* The bound api changes with the session, and every effect depends on it.
SessionRead ==
  /\ StatusRead
  /\ RunEffects({}, Mounted(route), status' = "authenticated", QueryKeys(route))
  /\ UNCHANGED <<mail, viewVars, composeVars>>

\* The read after a document load.
SessionResolves == status = "loading" /\ SessionRead /\ UNCHANGED acts

\* The user comes back to the window.
WindowFocused == status # "loading" /\ Act /\ SessionRead

Session ==
  /\ Act
  /\ \/ (SignsIn \/ SignsOut) /\ LoadsDocument
     \/ /\ ExchangeFails \/ TokenExpires \/ CookieExpires
        /\ UNCHANGED <<fetchVars, mail, viewVars, composeVars>>

\* Only what happens while a view is open is followed.
EmailMoves ==
  /\ Act
  /\ route \in Views
  /\ MailMoves
  /\ moved' = TRUE
  /\ UNCHANGED <<signInVars, fetchVars, field, timer, search, page, reload, recount, composeVars>>

UsesView ==
  /\ Act
  /\ route \in Views
  /\ UNCHANGED <<signInVars, mail, composeVars>>
  /\ \/ \E wanted \in Searches : TypesSearch(route, wanted)
     \/ ClearsSearch(route, Ready)
     \/ TurnsPage(route, Ready)
     \/ Refreshes(route, Ready)

Debounces ==
  /\ route \in Views
  /\ UNCHANGED <<signInVars, mail, composeVars, acts>>
  /\ TimerFires(route, Ready)

\* Without a resolved session a request carries no token and is a 401: nothing
\* comes of a file, and a campaign is rejected like one the schema refuses.
UsesForm ==
  /\ Act
  /\ route = "compose"
  /\ \/ \E a \in Drafts : Types(a)
     \/ CommitsBox
     \/ \E list \in Pastes : PastesList(list)
     \/ \E i \in DOMAIN seen : RemovesChip(i)
     \/ Ready /\ \E file \in Files : PicksFile(file)
     \/ \E fields \in {"refused", "rejected"} \cup (IF Ready THEN {"good"} ELSE {}) : Sends(fields)
     \/ UploadFails
     \/ \E p \in posts : AnswerLost(p)
  /\ UNCHANGED <<signInVars, fetchVars, mail, viewVars>>

\* What the form and the server do by themselves.
FormAnswered ==
  /\ \/ Renders
     \/ Authorised /\ UploadParsed
     \/ ~Authorised /\ UploadFails
     \/ \E p \in posts : \/ ServerCommits(p, Authorised)
                         \/ ServerRefuses(p, Authorised)
                         \/ FailureReported(p)
  /\ UNCHANGED <<signInVars, fetchVars, mail, viewVars, acts>>

\* The counts are reloaded and the router goes to /scheduled.
SendSucceeds ==
  /\ \E p \in posts : SuccessReported(p)
  /\ IF route = "login" THEN UNCHANGED recount ELSE recount' = recount + 1
  /\ IF Guarded("scheduled") # route
     THEN ShowsPage("scheduled")
     ELSE /\ UNCHANGED <<signInVars, mail, field, timer, search, page, reload, moved,
                         form, chipVars, upload, inFlight, seenBusy>>
          /\ RunEffects({}, Mounted(route) \cap {"stats"}, Ready, QueryKeys(route)')
  /\ UNCHANGED acts

\* The server answers with what it reads, or with a 401; the callback runs.
Answering(h) ==
  /\ \E r \in requests :
       /\ r.hook = h
       /\ \/ Authorised /\ ServerReadsList(r)
          \/ Authorised /\ Lands(r)
          \/ ~Authorised /\ LandsAsError(r)
          \/ Settles(r)
  /\ UNCHANGED <<signInVars, mail, viewVars, composeVars, acts>>

\* The network or the server fails.
AnswerFails ==
  /\ Act
  /\ \E r \in requests : LandsAsError(r)
  /\ UNCHANGED <<signInVars, mail, viewVars, composeVars>>

Next ==
  \/ Navigates \/ SessionResolves \/ WindowFocused \/ Session
  \/ EmailMoves
  \/ UsesView \/ Debounces
  \/ UsesForm \/ FormAnswered \/ SendSucceeds
  \/ \E h \in Hooks : Answering(h)
  \/ AnswerFails

\* A loaded document reads the session, and every request is answered or fails in the end.
Fairness ==
  /\ WF_vars(SessionResolves)
  /\ \A h \in Hooks : WF_vars(Answering(h))

Spec == Init /\ [][Next]_vars /\ Fairness

-----------------------------------------------------------------------------
(* Properties *)

\* useEmails.ts "only the newest request id may write state": what a hook shows
\* is never replaced by the answer to an earlier question.
NeverOlder ==
  [][\A h \in Hooks : held'[h] = Nothing \/ held'[h].id >= held[h].id]_vars

\* EmailView.tsx: an empty list beyond the first page, which reads as "no
\* matches", is shown only if emails have changed since the view was opened.
EmptyMeansNone ==
  route \in Views /\ ~Loading("list", route) /\ ~held["list"].error /\ Rendered = 0
    => page = 1 \/ moved

\* Every mounted hook gets what it asks for, or an error, whenever the session
\* stays resolved: no list stays a skeleton because a request was dropped.
AllSettle ==
  []<>(\A h \in Mounted(route) : Ready => ~Loading(h, route))

\* ComposeForm.tsx "guards against a double submit at the source": one form
\* creates a second campaign only after its user was told that the earlier one
\* failed, when it had not or not yet.
OneCampaignPerForm ==
  \A c, d \in campaigns :
    c.form = d.form /\ c.n < d.n => [form |-> c.form, n |-> c.n] \in doubtful

\* RecipientInput.tsx "keeps the visible count honest": a campaign has a row
\* for every recipient that was on screen when Send was pressed, spelt as it
\* was, and the server finds no duplicate left to drop.
ShownIsSent == \A c \in campaigns : c.rows = c.shown

\* RecipientInput.tsx "beats a recipient that quietly vanished": a recipient
\* leaves the form only when the user removes it or the page is left, or when
\* an edit was made before the last merge had been rendered.
NothingVanishes ==
  [][ToSet(chips) \subseteq ToSet(chips')
     \/ form' # form \/ route' # route
     \/ seen # chips
     \/ (Len(chips') = Len(chips) - 1 /\ upload' = upload)]_vars
=============================================================================
