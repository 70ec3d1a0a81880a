------------------------------ MODULE Fetching ------------------------------
(***************************************************************************)
(* The one way in which the hooks of the dashboard fetch: the effect of    *)
(* useEmails.ts, useStats.ts and useSystemLimits.ts over request() of      *)
(* api-client.ts.                                                          *)
(*                                                                         *)
(* An effect runs when its component is mounted, when its key changes and  *)
(* when the bound api changes; its cleanup aborts the request before it.   *)
(* Aborting removes a request that is still open, but an answer that has   *)
(* been parsed still runs its callback; the request number tells it apart. *)
(***************************************************************************)
EXTENDS Integers, FiniteSets

VARIABLES
  requests,   \* GET requests that are open or whose answer has been parsed
  latest,     \* latestRequest.current of each hook
  held        \* the state each hook holds: the answer it renders

fetchVars == <<requests, latest, held>>

Hooks == {"list", "stats", "limits"}
NoKey == <<>>
Unread == -1

\* An answer is abstracted to the two numbers the list view depends on; of the
\* other two hooks' answers nothing is kept.
Nothing == [id |-> 0, key |-> NoKey, error |-> FALSE, total |-> 0, rows |-> 0]

Opened(h, n, key) ==
  [hook |-> h, id |-> n, key |-> key, phase |-> "open", error |-> FALSE,
   total |-> IF h = "list" THEN Unread ELSE 0,
   rows |-> IF h = "list" THEN Unread ELSE 0]

FetchTypeOK ==
  /\ latest \in [Hooks -> Nat]
  /\ \A h \in Hooks : held[h].id \in 0..latest[h]
  /\ \A r \in requests : r.hook \in Hooks /\ r.id \in 1..latest[r.hook]

FetchInit ==
  /\ requests = {}
  /\ latest = [h \in Hooks |-> 0]
  /\ held = [h \in Hooks |-> Nothing]

\* What React does after a render: the hooks in `gone` are unmounted with all
\* they hold, the effects of those in `rerun` are cleaned up and, when the api
\* is ready, issue a request for their new key.
RunEffects(gone, rerun, ready, key) ==
  LET base == [h \in Hooks |-> IF h \in gone THEN 0 ELSE latest[h]]
      kept == {r \in requests : /\ r.hook \notin gone
                                /\ r.hook \in rerun => r.phase = "landed"}
      issued == IF ready THEN rerun ELSE {}
  IN  /\ latest' = [h \in Hooks |-> IF h \in issued THEN base[h] + 1 ELSE base[h]]
      /\ requests' = kept \cup {Opened(h, base[h] + 1, key[h]) : h \in issued}
      /\ held' = [h \in Hooks |-> IF h \in gone THEN Nothing ELSE held[h]]

Becomes(r, s) ==
  /\ requests' = (requests \ {r}) \cup {s}
  /\ UNCHANGED <<latest, held>>

\* The answer is parsed once all of it has been read; its callback runs later.
Parsed(r) == IF Unread \in {r.total, r.rows} THEN r ELSE [r EXCEPT !.phase = "landed"]

\* The server answers what takes one statement.
Lands(r) ==
  /\ r.phase = "open" /\ r.hook # "list"
  /\ Becomes(r, Parsed(r))

\* A page of emails takes two statements, in either order.
ServerReads(r, total, rows) ==
  /\ r.phase = "open"
  /\ \/ r.total = Unread /\ Becomes(r, Parsed([r EXCEPT !.total = total]))
     \/ r.rows = Unread /\ Becomes(r, Parsed([r EXCEPT !.rows = rows]))

\* NETWORK_ERROR, or an answer that is not 2xx: toApiError.
LandsAsError(r) ==
  /\ r.phase = "open"
  /\ Becomes(r, [r EXCEPT !.phase = "landed", !.error = TRUE, !.total = 0, !.rows = 0])

Settled(r) ==
  [id |-> r.id, key |-> r.key, error |-> r.error, total |-> r.total, rows |-> r.rows]

\* Fault: the callback of a late answer is not told apart.
SettlesUnguarded(r) ==
  /\ r.phase = "landed"
  /\ requests' = requests \ {r}
  /\ held' = [held EXCEPT ![r.hook] = Settled(r)]
  /\ UNCHANGED latest

\* The callback: only that of the newest request writes the state.
Settles(r) ==
  /\ r.phase = "landed"
  /\ requests' = requests \ {r}
  /\ held' = IF r.id = latest[r.hook] THEN [held EXCEPT ![r.hook] = Settled(r)]
             ELSE held
  /\ UNCHANGED latest
=============================================================================
