------------------------------- MODULE Intake -------------------------------
(***************************************************************************)
(* POST /api/campaigns up to the commit of its transaction: the front half *)
(* of createCampaign (campaign.service.ts), with the cached sender list    *)
(* and the round-robin of sender.service.ts.                               *)
(*                                                                         *)
(* The cache belongs to the process and is shared by all its handlers: who *)
(* finds it expired reads the table and stores the result when it arrives. *)
(***************************************************************************)
EXTENDS Sanitiser

CONSTANTS Requests,     \* slots for requests that are handled at a time
          Senders,
          SenderOrder,  \* the senders by createdAt
          Bodies,       \* the bodies a request may carry
          PlainBody,    \* the body of those whose content does not matter
          Recipients    \* bound: recipients of every campaign

ASSUME IntakeConfig ==
    /\ SenderOrder \in Seq(Senders) /\ ToSet(SenderOrder) = Senders /\ Distinct(SenderOrder)
    /\ Recipients \in Nat \ {0}
    /\ IsFiniteSet(Requests) /\ Requests # {}
    /\ PlainBody \in Bodies /\ \A body \in Bodies : IsMarkup(body)

VARIABLES
  active,     \* Sender.isActive, as a set
  cache,      \* the cached list, or NoCache once it has expired
  handlers    \* the request in each slot

intakeVars == <<active, cache, handlers>>

NoCache == [known |-> FALSE, list |-> <<>>]
Cached(list) == [known |-> TRUE, list |-> list]

Idle ==
  [phase |-> "idle", connected |-> FALSE, body |-> <<>>, rows |-> <<>>,
   reading |-> <<>>, last |-> <<>>, common |-> {}, turns |-> 0]

\* The phases in which the list of senders is awaited: before the transaction
\* and, in it, for every row.
Asking == {"checking", "picking"}
Phases == Asking \cup {"idle", "sanitising", "committed"}

IntakeInit ==
  /\ active \in {{}, Senders}
  /\ cache = NoCache
  /\ handlers = [r \in Requests |-> Idle]

\* The query of getActiveSenders: the order is part of the contract.
ActiveSenders == Keep(SenderOrder, active)

Becomes(r, h) == handlers' = [handlers EXCEPT ![r] = h]

\* A request that passed requireAuth, the schema and the check of startTime.
\* The others are answered at once and leave no trace.
Arrives(r, body) ==
  /\ handlers[r].phase = "idle"
  /\ Becomes(r, [Idle EXCEPT !.phase = "checking", !.connected = TRUE,
                             !.body = body])
  /\ UNCHANGED <<active, cache>>

\* Fault: the sequence number does not reach the pick.
PickFirst(list, sequence) == list[1]

\* pickSenderForCampaign.
Pick(list, sequence) == list[1 + (sequence % Len(list))]

\* The handler goes on with a list; without a sender it throws, which rolls the
\* transaction back.  (last, common and turns are history: the list the rows
\* came from last, the senders in every list, how often the list changed.)
Continued(h, list) ==
  CASE list = <<>> -> Idle
    [] list # <<>> /\ h.phase = "checking" -> [h EXCEPT !.phase = "sanitising", !.reading = <<>>]
    [] list # <<>> /\ h.phase = "picking" ->
         LET rows == Append(h.rows, Pick(list, Len(h.rows)))
         IN  [h EXCEPT !.rows = rows, !.reading = <<>>,
                       !.phase = IF Len(rows) = Recipients THEN "committed" ELSE @,
                       !.last = list,
                       !.common = IF h.rows = <<>> THEN ToSet(list) ELSE @ \cap ToSet(list),
                       !.turns = IF h.rows # <<>> /\ h.last # list THEN @ + 1 ELSE @]

Reading(h) == h.reading # <<>>

\* getActiveSenders with the cache.
UsesCache(r) ==
  /\ handlers[r].phase \in Asking /\ ~Reading(handlers[r])
  /\ cache.known
  /\ Becomes(r, Continued(handlers[r], cache.list))
  /\ UNCHANGED <<active, cache>>

\* getActiveSenders without it: the table is read now, the answer comes later.
ReadsTable(r) ==
  /\ handlers[r].phase \in Asking /\ ~Reading(handlers[r])
  /\ ~cache.known
  /\ Becomes(r, [handlers[r] EXCEPT !.reading = <<ActiveSenders>>])
  /\ UNCHANGED <<active, cache>>

StoresList(r) ==
  /\ Reading(handlers[r])
  /\ cache' = Cached(handlers[r].reading[1])
  /\ Becomes(r, Continued(handlers[r], handlers[r].reading[1]))
  /\ UNCHANGED active

\* sanitizeHtml runs without a pause; a body without text is a 400.
Sanitises(r) ==
  /\ handlers[r].phase = "sanitising"
  /\ Becomes(r, IF IsHtmlEmpty(SanitizeHtml(handlers[r].body)) THEN Idle
                ELSE [handlers[r] EXCEPT !.phase = "picking", !.body = <<>>])
  /\ UNCHANGED <<active, cache>>

\* The jobs are enqueued and the answer is sent.
Answers(r) ==
  /\ handlers[r].phase = "committed"
  /\ Becomes(r, Idle)
  /\ UNCHANGED <<active, cache>>

\* A statement is rejected or the transaction takes 30 s: a 500, no row stays.
Fails(r) ==
  /\ handlers[r].phase = "picking" \/ Reading(handlers[r])
  /\ Becomes(r, Idle)
  /\ UNCHANGED <<active, cache>>

\* The client hangs up: the connection is gone, the handler runs on.
HangsUp(r) ==
  /\ handlers[r].connected
  /\ Becomes(r, [handlers[r] EXCEPT !.connected = FALSE])
  /\ UNCHANGED <<active, cache>>

\* A minute has passed.
CacheExpires ==
  /\ cache.known
  /\ cache' = NoCache
  /\ UNCHANGED <<active, handlers>>

\* The operator seeds, rotates out or brings back a sender, in the database.
Toggles(s) ==
  /\ active' = IF s \in active THEN active \ {s} ELSE active \cup {s}
  /\ UNCHANGED <<cache, handlers>>

\* The process exits with all it holds.
IntakeGone ==
  /\ cache' = NoCache
  /\ handlers' = [r \in Requests |-> Idle]
  /\ UNCHANGED active
==============================================================================
