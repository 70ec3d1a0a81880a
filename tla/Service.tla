------------------------------- MODULE Service -------------------------------
(***************************************************************************)
(* The API process, which takes campaigns in, and the worker process, of   *)
(* whose jobs only the number matters here: what starts, drains and dies   *)
(* with what.                                                              *)
(***************************************************************************)
EXTENDS Intake, ProcessLife

CONSTANTS MaxJobs,      \* WORKER_CONCURRENCY
          MaxEvents     \* bound: stops, crashes, failures, toggles, expiries

ASSUME ServiceConfig == MaxJobs \in Nat \ {0} /\ MaxEvents \in Nat

VARIABLES
  jobs,       \* jobs the worker has in flight
  events      \* how many events there have been

vars == <<intakeVars, lifeVars, jobs, events>>

Init ==
  /\ IntakeInit /\ LifeInit
  /\ jobs = 0
  /\ events = 0

Event == events < MaxEvents /\ events' = events + 1

Handled == {r \in Requests : handlers[r].phase # "idle"}
Connected == {r \in Handled : handlers[r].connected}

\* What a drain waits for: the API's for connections, not for handlers.
Awaited(p) == IF p = "api" THEN Cardinality(Connected) ELSE jobs

\* Bound: a body other than the plain one is looked at when nothing else is
\* going on, since sanitizeHtml never pauses.
AnySlot == CHOOSE r \in Requests : TRUE
Quiet ==
  /\ Handled = {} /\ active = Senders /\ events = 0
  /\ stage["worker"] = "down" /\ cache = NoCache

Busy == \E r \in Requests : handlers[r].body \notin {<<>>, PlainBody}

-----------------------------------------------------------------------------
\* A new connection is accepted until server.close.
TakesRequest ==
  /\ stage["api"] = "up"
  /\ ~Busy
  /\ \/ \E r \in Requests : Arrives(r, PlainBody)
     \/ Quiet /\ \E body \in Bodies : Arrives(AnySlot, body)
  /\ UNCHANGED <<lifeVars, jobs, events>>

\* Handlers run until the process is gone, during the drain too.
Handles ==
  /\ stage["api"] # "down"
  /\ \E r \in Requests : \/ UsesCache(r) \/ ReadsTable(r) \/ StoresList(r)
                         \/ Sanitises(r) \/ Answers(r)
  /\ UNCHANGED <<lifeVars, jobs, events>>

Disturbs ==
  /\ Event
  /\ ~Busy
  /\ \/ \E r \in Requests : Fails(r) \/ HangsUp(r)
     \/ CacheExpires
     \/ \E s \in Senders : Toggles(s)
  /\ UNCHANGED <<lifeVars, jobs>>

\* The worker fetches jobs once it is created and until worker.close.
JobStarts ==
  /\ stage["worker"] \in {"starting", "up"}
  /\ jobs < MaxJobs
  /\ jobs' = jobs + 1
  /\ UNCHANGED <<intakeVars, lifeVars, events>>

JobEnds ==
  /\ jobs > 0
  /\ jobs' = jobs - 1
  /\ UNCHANGED <<intakeVars, lifeVars, events>>

\* What a process holds goes with it.
Gone(p) == IF p = "api" THEN IntakeGone /\ UNCHANGED jobs
           ELSE jobs' = 0 /\ UNCHANGED intakeVars

Boots ==
  /\ ~Busy
  /\ \/ \E p \in Processes : Starts(p)
     \/ Verified
     \/ WorkerCreated
     \/ HandlersRegistered
  /\ UNCHANGED <<intakeVars, jobs, events>>

Ends(p) ==
  \/ p = "worker" /\ BootFails
  \/ ShutdownFails(p)
  \/ Crashes(p)

Stops(p) ==
  /\ Event
  /\ ~Busy
  /\ Signalled(p)
  /\ IF stage'[p] = "down" THEN Gone(p) ELSE UNCHANGED <<intakeVars, jobs>>

Dies(p) ==
  /\ Event
  /\ ~Busy
  /\ Ends(p)
  /\ Gone(p)

Drains(p) ==
  /\ Drained(p, Awaited(p))
  /\ UNCHANGED <<intakeVars, jobs, events>>

Completes(p) ==
  /\ ShutdownComplete(p)
  /\ Gone(p)
  /\ UNCHANGED events

\* Ten seconds after the signal.
TimesOut(p) ==
  /\ ForcedExit(p)
  /\ Gone(p)
  /\ UNCHANGED events

Next ==
  \/ TakesRequest \/ Handles \/ Disturbs
  \/ JobStarts \/ JobEnds \/ Boots
  \/ \E p \in Processes : Stops(p) \/ Dies(p) \/ Drains(p) \/ Completes(p) \/ TimesOut(p)

\* A timer that has been started runs out.  Nothing else is assumed: neither
\* SMTP nor a client has to let go.
Spec == Init /\ [][Next]_vars /\ \A p \in Processes : WF_vars(TimesOut(p))

-----------------------------------------------------------------------------
(* Properties *)

Sanitising == {r \in Requests : handlers[r].phase = "sanitising"}

\* sanitize-html.ts "it is idempotent": what is stored is balanced, made of
\* allowed elements, and a second pass changes nothing; except for a body that
\* closes an allowed element in its start tag, or one whose texts join into a
\* tag once what stood between them is left out.
CleanMeansClean ==
  \A r \in Sanitising :
    LET body == handlers[r].body
        out == SanitizeHtml(body)
    IN  \/ SelfClosed(body) \/ Joins(body)
        \/ /\ Balanced(out)
           /\ SanitizeHtml(out) = out
           /\ \A i \in DOMAIN out : ~IsText(out[i]) => out[i].tag \in Allowed

\* sanitize-html.ts "a sanitiser into a content-deleter": a text of the body is
\* emitted if it stands outside every removed element and every raw-text
\* element, and only if it stands outside the outermost removed elements and
\* every raw-text element. (<title> is one, and is not to be removed: it loses
\* its text nevertheless.)
TextKept ==
  \A r \in Sanitising :
    LET body == handlers[r].body
        html == Tokenize(body)
        kept == TextsKept(body)
    IN  /\ TextsOf(body) \ (InsideOf(html, Removals(html)) \cup RawContents(body)) \subseteq kept
        /\ kept \cap (InsideOf(html, Outermost(html)) \cup RawContents(body)) = {}

\* How many of a campaign's emails go out from a sender.
Share(rows, s) == Cardinality({i \in DOMAIN rows : rows[i] = s})

\* sender.service.ts "deterministic round-robin": of the senders that were
\* active all the while none gets more of a campaign's emails than another by
\* more than one, plus one for each time the list changed under it.
FairSpread ==
  \A r \in Requests : \A s, t \in handlers[r].common :
    LET h == handlers[r] IN Share(h.rows, s) <= Share(h.rows, t) + 1 + h.turns

\* worker.ts "drains rather than killing the send": while an orderly stop
\* closes the SMTP pool and the database, no job is in flight and no client
\* waits for an answer.
DrainedBeforeTeardown ==
  \A p \in Processes : stage[p] = "closing" => Awaited(p) = 0

\* shutdown.ts "forcing the process down": a process that was told to stop is
\* gone in the end, whatever it waits for.
StopsInTheEnd ==
  \A p \in Processes : stage[p] \in Stopping ~> stage[p] = "down"
==============================================================================
