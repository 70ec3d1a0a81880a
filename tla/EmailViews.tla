----------------------------- MODULE EmailViews -----------------------------
(***************************************************************************)
(* The pages /scheduled and /sent: EmailView.tsx with its SearchBar and    *)
(* EmailList, and the sidebar's counts.  Search, page and reload token are *)
(* the key of the list's request; the counts have a reload token alone.    *)
(***************************************************************************)
EXTENDS Fetching, EmailList

VARIABLES
  field,      \* the text in the search field
  timer,      \* its debounce timer is running
  search,     \* the search the list asks for
  page,       \* the page the list asks for
  reload,     \* reloadToken of useEmailList
  recount,    \* reloadToken of useStats
  moved       \* history: an email has changed since the view was opened

viewVars == <<field, timer, search, page, reload, recount, moved>>

ViewTypeOK ==
  /\ field \in Searches /\ search \in Searches
  /\ timer \in BOOLEAN /\ moved \in BOOLEAN
  /\ page \in Nat \ {0} /\ reload \in Nat /\ recount \in Nat

ViewInit ==
  /\ field = NoSearch /\ search = NoSearch
  /\ timer = FALSE /\ moved = FALSE
  /\ page = 1 /\ reload = 0 /\ recount = 0

\* A view is mounted anew by every navigation to it.
ViewReset ==
  /\ field' = NoSearch /\ search' = NoSearch
  /\ timer' = FALSE /\ moved' = FALSE
  /\ page' = 1 /\ reload' = 0

\* queryKey: what the list, the counts and the limits are asked for.
ListKey(view) == <<view, search, page, reload>>
QueryKeys(view) == [list |-> ListKey(view), stats |-> <<recount>>, limits |-> <<0>>]

Loading(h, view) == held[h].key # QueryKeys(view)[h]

\* The rows on screen: EmailList shows an error before anything else.
Rendered == IF held["list"].error \/ held["list"].key = NoKey THEN 0 ELSE held["list"].rows

Shows(view) == ~held["list"].error /\ Rendered > 0

\* The effects run when a key has changed, and only then.
Rerun(view, ready) ==
  RunEffects({}, {h \in {"list", "stats"} : QueryKeys(view)[h] # QueryKeys(view)'[h]}, ready,
             QueryKeys(view)')

-----------------------------------------------------------------------------
\* A keystroke restarts the timer.
TypesSearch(view, text) ==
  /\ text # field
  /\ field' = text
  /\ timer' = TRUE
  /\ UNCHANGED <<search, page, reload, recount, moved, fetchVars>>

\* Fault: the page is kept.
AsksForKeepingPage(text) ==
  /\ search' = text
  /\ page' = page

\* handleSearchChange.
AsksFor(text) ==
  /\ search' = text
  /\ page' = 1

\* 300 ms without a keystroke.
TimerFires(view, ready) ==
  /\ timer
  /\ timer' = FALSE
  /\ AsksFor(field)
  /\ UNCHANGED <<field, reload, recount, moved>>
  /\ Rerun(view, ready)

\* "Clear search" of the empty state; the field keeps its text.
ClearsSearch(view, ready) ==
  /\ held["list"].key # NoKey
  /\ ~held["list"].error /\ Rendered = 0
  /\ search # NoSearch
  /\ AsksFor(NoSearch)
  /\ UNCHANGED <<field, timer, reload, recount, moved>>
  /\ Rerun(view, ready)

\* Previous and Next, counted from the page of the answer on screen.
TurnsPage(view, ready) ==
  LET here == held["list"].key[3]
      pages == TotalPages(held["list"].total)
  IN  /\ Shows(view) /\ ~Loading("list", view)
      /\ pages > 1
      /\ \/ here > 1 /\ page' = here - 1
         \/ here < pages /\ page' = here + 1
      /\ UNCHANGED <<field, timer, search, reload, recount, moved>>
      /\ Rerun(view, ready)

\* Refresh, disabled while loading, and "Try again", which is not: handleRefresh
\* reloads the counts too.
Refreshes(view, ready) ==
  /\ ~Loading("list", view) \/ held["list"].error
  /\ reload' = reload + 1
  /\ recount' = recount + 1
  /\ UNCHANGED <<field, timer, search, page, moved>>
  /\ Rerun(view, ready)

\* listEmailJobs and getStats: the counts are one statement.
ServerReadsList(r) ==
  /\ r.hook = "list"
  /\ ServerReads(r, Total(r.key[1], r.key[2]), RowsOnPage(r.key[1], r.key[2], r.key[3]))
=============================================================================
