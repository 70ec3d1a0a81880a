------------------------------- MODULE SignIn -------------------------------
(***************************************************************************)
(* Signing in to the dashboard and what guards its pages: lib/auth.ts,     *)
(* proxy.ts, the dashboard layout, login-card.tsx and UserCard.tsx, with   *)
(* the exchange of auth.routes.ts and requireAuth on the other side.       *)
(*                                                                         *)
(* The session is the NextAuth cookie with the API's token inside it.  The *)
(* token lives for seven days from the sign-in, the cookie is renewed by   *)
(* every read of the session, so a cookie may hold a dead token ("stale"). *)
(***************************************************************************)

VARIABLES
  route,      \* the page the browser is on
  session,    \* the cookie: none, or with a live or a dead API token in it
  status,     \* what useSession() answers
  banner      \* the login page was reached as /login?error=...

signInVars == <<route, session, status, banner>>

Pages == {"scheduled", "sent", "compose"}
Routes == Pages \cup {"login"}

SignInTypeOK ==
  /\ route \in Routes
  /\ session \in {"none", "live", "stale"}
  /\ status \in {"loading", "authenticated", "unauthenticated"}
  /\ banner \in BOOLEAN

\* A document is loaded from scratch: with a cookie any page, else the login.
SignInInit ==
  /\ session \in {"none", "live"}
  /\ route \in IF session = "none" THEN {"login"} ELSE Pages
  /\ status = "loading"
  /\ banner = FALSE

\* `ready` of useApi: the session has resolved and carries a token.
Ready == status = "authenticated"

\* requireAuth lets a request with this session's token through.
Authorised == session = "live"

\* proxy and the layout: a page without a session is the login page.
Guarded(page) == IF session = "none" THEN "login" ELSE page

\* Google's callback: the jwt callback trades the ID token for the API's, the
\* cookie is written and "/" leads to the first page.
SignsIn ==
  /\ route = "login"
  /\ session' = "live"
  /\ route' = "scheduled"
  /\ status' = "loading"
  /\ banner' = FALSE

\* The exchange fails or takes ten seconds: the callback throws, no cookie is
\* written.
ExchangeFails ==
  /\ route = "login"
  /\ banner' = TRUE
  /\ UNCHANGED <<route, session, status>>

\* SessionProvider has read the session: once after a document load, and again
\* whenever the window gets the focus back.  A read that fails answers null,
\* though the cookie lives.
StatusRead ==
  /\ \E s \in {"unauthenticated"} \cup (IF session = "none" THEN {} ELSE {"authenticated"}) :
       status' = s
  /\ status' # status
  /\ UNCHANGED <<route, session, banner>>

TokenExpires ==
  /\ session = "live"
  /\ session' = "stale"
  /\ UNCHANGED <<route, status, banner>>

\* Nobody read the session for seven days; the token died no later.
CookieExpires ==
  /\ session = "stale"
  /\ session' = "none"
  /\ UNCHANGED <<route, status, banner>>

\* Logout: the cookie goes and the login page is loaded.
SignsOut ==
  /\ route \in Pages
  /\ session' = "none"
  /\ route' = "login"
  /\ status' = "loading"
  /\ banner' = FALSE

\* A link or router.push inside the dashboard; SessionProvider stays mounted.
GoesTo(page) ==
  /\ route' = Guarded(page)
  /\ UNCHANGED <<session, status, banner>>
=============================================================================
