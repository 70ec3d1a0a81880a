----------------------------- MODULE ServiceProofs -----------------------------
(***************************************************************************)
(* Theorems about Service, for any number of requests, senders, rows, jobs *)
(* and events: what an orderly stop tears down is not in use, the          *)
(* round-robin is even over the senders that were there all the while, and *)
(* the sanitiser does to every body what its file says.                    *)
(***************************************************************************)
EXTENDS Service, SanitiserProofs

-----------------------------------------------------------------------------
(* The drain *)

IsHandler(h) ==
  h = [phase |-> h.phase, connected |-> h.connected, body |-> h.body, rows |-> h.rows,
       reading |-> h.reading, last |-> h.last, common |-> h.common, turns |-> h.turns]

\* Who is connected is handled, and who reads the table asks for it.
Sound(h) ==
  /\ h.phase = "idle" => ~h.connected
  /\ Reading(h) => h.phase \in Asking

\* Every process is in one of the stages.
LifeTypes ==
  /\ stage \in [Processes -> Stages]
  /\ jobs \in Nat
  /\ handlers = [r \in Requests |-> handlers[r]]
  /\ \A r \in Requests :
       /\ IsHandler(handlers[r])
       /\ Sound(handlers[r])

\* In the last stage of an orderly stop nothing is left: nothing new starts
\* once a stop has begun.
ClosedIsQuiet ==
  /\ stage["api"] = "closing" => Connected = {}
  /\ stage["worker"] = "closing" => jobs = 0

DrainInv == LifeTypes /\ ClosedIsQuiet

LEMMA InitDrain ==
  ASSUME Init
  PROVE  DrainInv
BY DEF Init, IntakeInit, LifeInit, DrainInv, LifeTypes, ClosedIsQuiet, Idle, IsHandler, Sound, Reading,
       Stages, Processes, Booting, Stopping

LEMMA DrainIsEnough ==
  ASSUME DrainInv
  PROVE  DrainedBeforeTeardown
<1>1. stage["api"] = "closing" => Cardinality(Connected) = 0
  BY FS_EmptySet DEF DrainInv, ClosedIsQuiet
<1> QED
  BY <1>1 DEF DrainedBeforeTeardown, Awaited, DrainInv, ClosedIsQuiet, Processes

-----------------------------------------------------------------------------
\* A handler's step connects nobody.
NoneConnects ==
  /\ handlers' = [r \in Requests |-> handlers'[r]]
  /\ \A r \in Requests :
       /\ IsHandler(handlers'[r])
       /\ Sound(handlers'[r])
       /\ handlers'[r].connected => handlers[r].phase # "idle" /\ handlers[r].connected

LEMMA NoneConnectsKeeps ==
  ASSUME DrainInv, NoneConnects, UNCHANGED <<stage, jobs>>
  PROVE  DrainInv'
<1>1. Connected' \subseteq Connected
  BY DEF NoneConnects, Connected, Handled
<1> QED
  BY <1>1 DEF DrainInv, LifeTypes, ClosedIsQuiet, NoneConnects

LEMMA Edits ==
  ASSUME NEW p, NEW c, NEW b, NEW w, NEW r, NEW l, NEW o, NEW t, NEW v, NEW h,
         h = [phase |-> p, connected |-> c, body |-> b, rows |-> w,
              reading |-> r, last |-> l, common |-> o, turns |-> t]
  PROVE  /\ [h EXCEPT !.phase = v] = [phase |-> v, connected |-> c, body |-> b, rows |-> w,
                                      reading |-> r, last |-> l, common |-> o, turns |-> t]
         /\ [h EXCEPT !.connected = v] = [phase |-> p, connected |-> v, body |-> b, rows |-> w,
                                          reading |-> r, last |-> l, common |-> o, turns |-> t]
         /\ [h EXCEPT !.body = v] = [phase |-> p, connected |-> c, body |-> v, rows |-> w,
                                     reading |-> r, last |-> l, common |-> o, turns |-> t]
         /\ [h EXCEPT !.rows = v] = [phase |-> p, connected |-> c, body |-> b, rows |-> v,
                                     reading |-> r, last |-> l, common |-> o, turns |-> t]
         /\ [h EXCEPT !.reading = v] = [phase |-> p, connected |-> c, body |-> b, rows |-> w,
                                        reading |-> v, last |-> l, common |-> o, turns |-> t]
         /\ [h EXCEPT !.last = v] = [phase |-> p, connected |-> c, body |-> b, rows |-> w,
                                     reading |-> r, last |-> v, common |-> o, turns |-> t]
         /\ [h EXCEPT !.common = v] = [phase |-> p, connected |-> c, body |-> b, rows |-> w,
                                       reading |-> r, last |-> l, common |-> v, turns |-> t]
         /\ [h EXCEPT !.turns = v] = [phase |-> p, connected |-> c, body |-> b, rows |-> w,
                                      reading |-> r, last |-> l, common |-> o, turns |-> v]
OBVIOUS

\* The fields after a row was given to a sender.
Picked(h, list, g) ==
  /\ IsHandler(g) /\ g.connected = h.connected /\ g.phase \in {"picking", "committed"}
  /\ g.rows = Append(h.rows, Pick(list, Len(h.rows)))
  /\ g.reading = <<>> /\ g.body = h.body
  /\ g.last = list
  /\ g.common = IF h.rows = <<>> THEN ToSet(list) ELSE h.common \cap ToSet(list)
  /\ g.turns = IF h.rows # <<>> /\ h.last # list THEN h.turns + 1 ELSE h.turns

LEMMA PickedFields ==
  ASSUME NEW h, IsHandler(h), h.phase = "picking", NEW list, list # <<>>,
         NEW g, g = Continued(h, list)
  PROVE  Picked(h, list, g)
<1> PICK p, c, b, w, r, l, o, t :
      h = [phase |-> p, connected |-> c, body |-> b, rows |-> w,
           reading |-> r, last |-> l, common |-> o, turns |-> t]
  BY DEF IsHandler
<1> PICK rows : rows = Append(h.rows, Pick(list, Len(h.rows)))
  OBVIOUS
<1> PICK none : none = <<>>
  OBVIOUS
<1> PICK p2 : p2 = IF Len(rows) = Recipients THEN "committed" ELSE p
  OBVIOUS
<1> PICK o2 : o2 = IF h.rows = <<>> THEN ToSet(list) ELSE o \cap ToSet(list)
  OBVIOUS
<1> PICK t2 : t2 = IF h.rows # <<>> /\ h.last # list THEN t + 1 ELSE t
  OBVIOUS
<1> DEFINE h1 == [h EXCEPT !.rows = rows]
           h2 == [h1 EXCEPT !.reading = <<>>]
           h3 == [h2 EXCEPT !.phase = IF Len(rows) = Recipients THEN "committed" ELSE @]
           h4 == [h3 EXCEPT !.last = list]
           h5 == [h4 EXCEPT !.common = IF h.rows = <<>> THEN ToSet(list) ELSE @ \cap ToSet(list)]
           h6 == [h5 EXCEPT !.turns = IF h.rows # <<>> /\ h.last # list THEN @ + 1 ELSE @]
<1>0. g = h6
  <2>1. Continued(h, list) =
          LET rs == Append(h.rows, Pick(list, Len(h.rows)))
          IN  [h EXCEPT !.rows = rs, !.reading = <<>>,
                        !.phase = IF Len(rs) = Recipients THEN "committed" ELSE @,
                        !.last = list,
                        !.common = IF h.rows = <<>> THEN ToSet(list) ELSE @ \cap ToSet(list),
                        !.turns = IF h.rows # <<>> /\ h.last # list THEN @ + 1 ELSE @]
    BY Zenon DEF Continued
  <2> QED
    BY <2>1, Zenon
<1>1. h1 = [phase |-> p, connected |-> c, body |-> b, rows |-> rows,
            reading |-> r, last |-> l, common |-> o, turns |-> t]
  <2>1. h1 = [h EXCEPT !.rows = rows]
    BY Zenon
  <2> HIDE DEF h1
  <2> QED
    BY <2>1, Edits
<1> HIDE DEF h1
<1>2. h2 = [phase |-> p, connected |-> c, body |-> b, rows |-> rows,
            reading |-> none, last |-> l, common |-> o, turns |-> t]
  <2>1. h2 = [h1 EXCEPT !.reading = none]
    BY Zenon
  <2> HIDE DEF h2
  <2> QED
    BY <1>1, <2>1, Edits
<1> HIDE DEF h2
<1>3. h3 = [phase |-> p2, connected |-> c, body |-> b, rows |-> rows,
            reading |-> none, last |-> l, common |-> o, turns |-> t]
  <2>1. h2.phase = p
    BY <1>2
  <2>2. h3 = [h2 EXCEPT !.phase = p2]
    BY <2>1, Zenon
  <2> HIDE DEF h3
  <2> QED
    BY <1>2, <2>2, Edits
<1> HIDE DEF h3
<1>4. h4 = [phase |-> p2, connected |-> c, body |-> b, rows |-> rows,
            reading |-> none, last |-> list, common |-> o, turns |-> t]
  <2>1. h4 = [h3 EXCEPT !.last = list]
    BY Zenon
  <2> HIDE DEF h4
  <2> QED
    BY <1>3, <2>1, Edits
<1> HIDE DEF h4
<1>5. h5 = [phase |-> p2, connected |-> c, body |-> b, rows |-> rows,
            reading |-> none, last |-> list, common |-> o2, turns |-> t]
  <2>1. h4.common = o
    BY <1>4
  <2>2. h5 = [h4 EXCEPT !.common = o2]
    BY <2>1, Zenon
  <2> HIDE DEF h5
  <2> QED
    BY <1>4, <2>2, Edits
<1> HIDE DEF h5
<1>6. h6 = [phase |-> p2, connected |-> c, body |-> b, rows |-> rows,
            reading |-> none, last |-> list, common |-> o2, turns |-> t2]
  <2>1. h5.turns = t
    BY <1>5
  <2>2. h6 = [h5 EXCEPT !.turns = t2]
    BY <2>1, Zenon
  <2> HIDE DEF h6
  <2> QED
    BY <1>5, <2>2, Edits
<1> HIDE DEF h6
<1>7. h.common = o /\ h.turns = t
  OBVIOUS
<1>8. g = [phase |-> p2, connected |-> c, body |-> b, rows |-> rows,
           reading |-> none, last |-> list, common |-> o2, turns |-> t2]
  BY <1>0, <1>6, Zenon
<1>9. g.rows = rows /\ g.reading = none /\ g.body = b /\ g.last = list /\ g.common = o2 /\ g.turns = t2
  BY ONLY <1>8
<1>10. IsHandler(g) /\ g.connected = c /\ g.phase = p2
  BY ONLY <1>8 DEF IsHandler
<1>11. h.connected = c /\ h.body = b /\ p2 \in {"picking", "committed"}
  OBVIOUS
<1> QED
  BY <1>7, <1>9, <1>10, <1>11, Zenon DEF Picked

\* Edits of a handler: of its body, of its phase, of its connection, and of
\* what it reads.
LEMMA BodyEdit ==
  ASSUME NEW h, IsHandler(h), NEW v
  PROVE  LET g == [h EXCEPT !.body = v] IN
           IsHandler(g) /\ g.connected = h.connected /\ g.phase = h.phase /\ g.reading = h.reading
<1> PICK p, c, b, w, r, l, o, t :
      h = [phase |-> p, connected |-> c, body |-> b, rows |-> w,
           reading |-> r, last |-> l, common |-> o, turns |-> t]
  BY DEF IsHandler
<1>1. [h EXCEPT !.body = v] = [phase |-> p, connected |-> c, body |-> v, rows |-> w,
        reading |-> r, last |-> l, common |-> o, turns |-> t]
  OBVIOUS
<1> QED
  BY <1>1 DEF IsHandler

LEMMA PhaseEdit ==
  ASSUME NEW h, IsHandler(h), NEW v
  PROVE  LET g == [h EXCEPT !.phase = v] IN
           IsHandler(g) /\ g.connected = h.connected /\ g.phase = v /\ g.reading = h.reading
<1> PICK p, c, b, w, r, l, o, t :
      h = [phase |-> p, connected |-> c, body |-> b, rows |-> w,
           reading |-> r, last |-> l, common |-> o, turns |-> t]
  BY DEF IsHandler
<1>1. [h EXCEPT !.phase = v] = [phase |-> v, connected |-> c, body |-> b, rows |-> w,
        reading |-> r, last |-> l, common |-> o, turns |-> t]
  OBVIOUS
<1> QED
  BY <1>1 DEF IsHandler

LEMMA ConnectionEdit ==
  ASSUME NEW h, IsHandler(h), NEW v
  PROVE  LET g == [h EXCEPT !.connected = v] IN
           IsHandler(g) /\ g.connected = v /\ g.phase = h.phase /\ g.reading = h.reading
<1> PICK p, c, b, w, r, l, o, t :
      h = [phase |-> p, connected |-> c, body |-> b, rows |-> w,
           reading |-> r, last |-> l, common |-> o, turns |-> t]
  BY DEF IsHandler
<1>1. [h EXCEPT !.connected = v] = [phase |-> p, connected |-> v, body |-> b, rows |-> w,
        reading |-> r, last |-> l, common |-> o, turns |-> t]
  OBVIOUS
<1> QED
  BY <1>1 DEF IsHandler

LEMMA ReadingEdit ==
  ASSUME NEW h, IsHandler(h), NEW v
  PROVE  LET g == [h EXCEPT !.reading = v] IN
           IsHandler(g) /\ g.connected = h.connected /\ g.phase = h.phase /\ g.reading = v
<1> PICK p, c, b, w, r, l, o, t :
      h = [phase |-> p, connected |-> c, body |-> b, rows |-> w,
           reading |-> r, last |-> l, common |-> o, turns |-> t]
  BY DEF IsHandler
<1>1. [h EXCEPT !.reading = v] = [phase |-> p, connected |-> c, body |-> b, rows |-> w,
        reading |-> v, last |-> l, common |-> o, turns |-> t]
  OBVIOUS
<1> QED
  BY <1>1 DEF IsHandler

\* A handler goes on with its connection, or its request is over.
GoesOn(h, g) ==
  \/ g = Idle
  \/ /\ IsHandler(g) /\ Sound(g)
     /\ g.connected = h.connected
     /\ g.phase # "idle"

LEMMA ContinuedGoesOn ==
  ASSUME NEW h, IsHandler(h), h.phase \in Asking, NEW list
  PROVE  GoesOn(h, Continued(h, list))
<1>1. CASE list = <<>>
  BY <1>1 DEF Continued, GoesOn
<1>2. CASE list # <<>> /\ h.phase = "checking"
  <2> DEFINE a == [h EXCEPT !.phase = "sanitising"]
             b == [a EXCEPT !.reading = <<>>]
  <2>1. /\ IsHandler(a)
        /\ a.connected = h.connected /\ a.phase = "sanitising" /\ a.reading = h.reading
    BY PhaseEdit
  <2> HIDE DEF a
  <2>2. /\ IsHandler(b)
        /\ b.connected = a.connected /\ b.phase = a.phase /\ b.reading = <<>>
    <3>1. PICK v : v = <<>>
      OBVIOUS
    <3>2. LET g == [a EXCEPT !.reading = v] IN
            /\ IsHandler(g)
            /\ g.connected = a.connected /\ g.phase = a.phase /\ g.reading = v
      BY <2>1, ReadingEdit
    <3>3. b = [a EXCEPT !.reading = v]
      BY <3>1, Zenon
    <3> HIDE DEF b
    <3> QED
      BY <3>1, <3>2, <3>3, Zenon
  <2>3. Continued(h, list) = b
    BY <1>2, Zenon DEF Continued, a
  <2> HIDE DEF b
  <2> QED
    BY <2>1, <2>2, <2>3 DEF GoesOn, Sound, Reading, Asking
<1>3. CASE list # <<>> /\ h.phase = "picking"
  <2>1. Picked(h, list, Continued(h, list))
    BY <1>3, PickedFields
  <2> QED
    BY <2>1 DEF Picked, GoesOn, Sound, Reading
<1> QED
  BY <1>1, <1>2, <1>3 DEF Asking

-----------------------------------------------------------------------------
\* One handler changes: what is left to show of its new state.
LEMMA OneHandler ==
  ASSUME DrainInv, NEW r \in Requests, NEW g, Becomes(r, g), IsHandler(g), Sound(g),
         g.connected => handlers[r].phase # "idle" /\ handlers[r].connected
  PROVE  NoneConnects
<1>1. handlers' = [handlers EXCEPT ![r] = g] /\ handlers = [q \in Requests |-> handlers[q]]
  BY DEF Becomes, DrainInv, LifeTypes
<1>2. handlers' = [q \in Requests |-> handlers'[q]]
  BY <1>1
<1>3. \A q \in Requests : handlers'[q] = IF q = r THEN g ELSE handlers[q]
  BY <1>1
<1>4. \A q \in Requests : /\ IsHandler(handlers[q]) /\ Sound(handlers[q])
  BY DEF DrainInv, LifeTypes
<1>5. \A q \in Requests : handlers[q].connected => handlers[q].phase # "idle"
  BY <1>4 DEF Sound
<1>6. \A q \in Requests : IsHandler(handlers'[q]) /\ Sound(handlers'[q])
  BY <1>3, <1>4
<1>7. \A q \in Requests :
        handlers'[q].connected => handlers[q].phase # "idle" /\ handlers[q].connected
  BY <1>3, <1>5
<1> QED
  BY <1>2, <1>6, <1>7 DEF NoneConnects

LEMMA IdleIsSound ==
  IsHandler(Idle) /\ Sound(Idle) /\ ~Idle.connected /\ Idle.phase = "idle"
BY DEF Idle, IsHandler, Sound, Reading

LEMMA GoingOnConnectsNone ==
  ASSUME DrainInv, NEW r \in Requests, handlers[r].phase # "idle",
         NEW g, Becomes(r, g), GoesOn(handlers[r], g)
  PROVE  NoneConnects
BY OneHandler, IdleIsSound DEF GoesOn

LEMMA HandlesConnectsNone ==
  ASSUME DrainInv, NEW r \in Requests,
         UsesCache(r) \/ ReadsTable(r) \/ StoresList(r) \/ Sanitises(r) \/ Answers(r)
  PROVE  NoneConnects
<1>0. IsHandler(handlers[r]) /\ Sound(handlers[r])
  BY DEF DrainInv, LifeTypes
<1>1. CASE UsesCache(r) \/ StoresList(r)
  <2>1. PICK list : Becomes(r, Continued(handlers[r], list))
    BY <1>1 DEF UsesCache, StoresList
  <2>2. handlers[r].phase \in Asking
    BY <1>0, <1>1 DEF UsesCache, StoresList, Sound
  <2>3. PICK g : g = Continued(handlers[r], list)
    OBVIOUS
  <2>4. GoesOn(handlers[r], g) /\ Becomes(r, g)
    BY <1>0, <2>1, <2>2, <2>3, ContinuedGoesOn
  <2> QED
    BY <2>2, <2>4, GoingOnConnectsNone DEF Asking
<1>2. CASE ReadsTable(r)
  <2>1. PICK v : v = <<ActiveSenders>>
    OBVIOUS
  <2>2. PICK g : g = [handlers[r] EXCEPT !.reading = v]
    OBVIOUS
  <2>3. g = [handlers[r] EXCEPT !.reading = <<ActiveSenders>>]
    BY <2>1, <2>2, Zenon
  <2>4. Becomes(r, g) /\ handlers[r].phase \in Asking
    BY <1>2, <2>3, Zenon DEF ReadsTable
  <2>5. IsHandler(g) /\ g.connected = handlers[r].connected /\ g.phase = handlers[r].phase
    BY <1>0, <2>2, ReadingEdit, Zenon
  <2>6. GoesOn(handlers[r], g)
    BY <2>4, <2>5 DEF GoesOn, Sound, Asking
  <2> QED
    BY <2>4, <2>6, GoingOnConnectsNone DEF Asking
<1>3. CASE Sanitises(r)
  <2> DEFINE a == [handlers[r] EXCEPT !.phase = "picking"]
  <2>1. PICK v : v = <<>>
    OBVIOUS
  <2> DEFINE b == [a EXCEPT !.body = v]
  <2>2. Becomes(r, Idle) \/ Becomes(r, b)
    BY <1>3, <2>1, Zenon DEF Sanitises
  <2>3. /\ IsHandler(a)
        /\ a.connected = handlers[r].connected /\ a.phase = "picking"
    BY <1>0, PhaseEdit
  <2> HIDE DEF a
  <2>4. IsHandler(b) /\ b.connected = a.connected /\ b.phase = a.phase /\ b.reading = a.reading
    BY <2>3, BodyEdit
  <2> HIDE DEF b
  <2>5. GoesOn(handlers[r], Idle) /\ GoesOn(handlers[r], b)
    BY <2>3, <2>4 DEF GoesOn, Sound, Asking
  <2> QED
    BY <1>3, <2>2, <2>5, GoingOnConnectsNone DEF Sanitises
<1>4. CASE Answers(r)
  BY <1>4, GoingOnConnectsNone DEF Answers, GoesOn
<1> QED
  BY <1>1, <1>2, <1>3, <1>4

LEMMA DisturbanceConnectsNone ==
  ASSUME DrainInv, NEW r \in Requests, Fails(r) \/ HangsUp(r)
  PROVE  NoneConnects
<1>0. IsHandler(handlers[r]) /\ Sound(handlers[r])
  BY DEF DrainInv, LifeTypes
<1>1. CASE Fails(r)
  BY <1>1, OneHandler, IdleIsSound DEF Fails
<1>2. CASE HangsUp(r)
  <2>1. PICK no : no = FALSE
    OBVIOUS
  <2>2. PICK g : g = [handlers[r] EXCEPT !.connected = no]
    OBVIOUS
  <2>3. Becomes(r, g)
    BY <1>2, <2>1, <2>2, Zenon DEF HangsUp
  <2>4. /\ IsHandler(g)
        /\ g.connected = no /\ g.phase = handlers[r].phase /\ g.reading = handlers[r].reading
    BY <1>0, <2>2, ConnectionEdit, Zenon
  <2>5. ~g.connected
    BY <2>1, <2>4
  <2>6. Sound(g)
    BY <1>0, <2>4, <2>5 DEF Sound, Reading
  <2> QED
    BY <2>3, <2>4, <2>5, <2>6, OneHandler
<1> QED
  BY <1>1, <1>2

\* A request arrives: the process is up, so nothing is being closed.
LEMMA ArrivalKeeps ==
  ASSUME DrainInv, NEW r \in Requests, NEW body, Arrives(r, body),
         stage["api"] = "up", UNCHANGED <<stage, jobs>>
  PROVE  DrainInv'
<1>1. PICK yes : yes = TRUE
  OBVIOUS
<1> DEFINE a == [Idle EXCEPT !.phase = "checking"]
           b == [a EXCEPT !.connected = yes]
           c == [b EXCEPT !.body = body]
<1>2. IsHandler(a) /\ a.phase = "checking"
  BY IdleIsSound, PhaseEdit
<1>3. Becomes(r, c)
  BY <1>1, Zenon DEF Arrives
<1> HIDE DEF a
<1>4. IsHandler(b) /\ b.phase = a.phase
  BY <1>2, ConnectionEdit
<1> HIDE DEF b
<1>5. IsHandler(c) /\ c.connected = b.connected /\ c.phase = b.phase /\ c.reading = b.reading
  BY <1>4, BodyEdit
<1> HIDE DEF c
<1>6. IsHandler(c) /\ Sound(c)
  BY <1>2, <1>4, <1>5 DEF Sound, Asking
<1>7. handlers = [q \in Requests |-> handlers[q]] /\ handlers' = [handlers EXCEPT ![r] = c]
  BY <1>3 DEF Becomes, DrainInv, LifeTypes
<1>8. /\ handlers' = [q \in Requests |-> handlers'[q]]
      /\ \A q \in Requests : handlers'[q] = IF q = r THEN c ELSE handlers[q]
  BY <1>7
<1>9. LifeTypes'
  BY <1>6, <1>8 DEF DrainInv, LifeTypes
<1> QED
  BY <1>9 DEF DrainInv, ClosedIsQuiet

\* A process changes its stage; what it holds goes with it when it exits.
LEMMA StageKeeps ==
  ASSUME DrainInv, NEW p \in Processes, NEW s \in Stages,
         stage' = [stage EXCEPT ![p] = s],
         s = "closing" => Awaited(p) = 0,
         \/ UNCHANGED <<intakeVars, jobs>>
         \/ Gone(p) /\ s = "down"
  PROVE  DrainInv'
<1>1. stage \in [Processes -> Stages]
  BY DEF DrainInv, LifeTypes
<1>2. /\ stage' \in [Processes -> Stages]
      /\ \A q \in Processes : stage'[q] = IF q = p THEN s ELSE stage[q]
  BY <1>1
<1>3. "api" \in Processes /\ "worker" \in Processes /\ (p = "api" \/ p = "worker")
  BY DEF Processes
<1>4. IsFiniteSet(Connected)
  <2>1. Connected \subseteq Requests
    BY DEF Connected, Handled
  <2>2. IsFiniteSet(Requests)
    BY IntakeConfig
  <2> QED
    BY <2>1, <2>2, FS_Subset
<1>5. CASE UNCHANGED <<intakeVars, jobs>>
  <2>1. handlers' = handlers /\ jobs' = jobs
    BY <1>5 DEF intakeVars
  <2>2. Connected' = Connected
    BY <2>1 DEF Connected, Handled
  <2>3. p = "api" /\ s = "closing" => Connected = {}
    BY <1>4, FS_EmptySet DEF Awaited
  <2>4. p = "worker" /\ s = "closing" => jobs = 0
    BY DEF Awaited
  <2> QED
    BY <1>2, <1>3, <2>1, <2>2, <2>3, <2>4 DEF DrainInv, LifeTypes, ClosedIsQuiet
<1>6. CASE Gone(p) /\ s = "down" /\ p = "api"
  <2>1. handlers' = [r \in Requests |-> Idle] /\ jobs' = jobs
    BY <1>6 DEF Gone, IntakeGone
  <2> QED
    BY <1>2, <1>3, <1>6, <2>1, IdleIsSound DEF DrainInv, LifeTypes, ClosedIsQuiet
<1>7. CASE Gone(p) /\ s = "down" /\ p = "worker"
  <2>1. handlers' = handlers /\ jobs' = 0
    BY <1>7 DEF Gone, intakeVars
  <2>2. Connected' = Connected
    BY <2>1 DEF Connected, Handled
  <2> QED
    BY <1>2, <1>3, <1>7, <2>1, <2>2 DEF DrainInv, LifeTypes, ClosedIsQuiet
<1> QED
  BY <1>3, <1>5, <1>6, <1>7

LEMMA ExitKeeps ==
  ASSUME DrainInv, NEW p \in Processes, Exits(p), Gone(p)
  PROVE  DrainInv'
<1>1. stage' = [stage EXCEPT ![p] = "down"] /\ "down" \in Stages
  BY DEF Exits, Stages
<1> QED
  BY <1>1, StageKeeps

LEMMA BootKeeps ==
  ASSUME DrainInv, Boots
  PROVE  DrainInv'
<1>1. UNCHANGED <<intakeVars, jobs>>
  BY DEF Boots
<1>2. \E p \in Processes, s \in Stages : s # "closing" /\ stage' = [stage EXCEPT ![p] = s]
  <2>1. "worker" \in Processes /\ {"up", "verifying", "reconciling", "starting"} \subseteq Stages
    BY DEF Processes, Stages, Booting
  <2> QED
    BY <2>1 DEF Boots, Starts, Verified, WorkerCreated, HandlersRegistered, Enters
<1> QED
  BY <1>1, <1>2, StageKeeps

LEMMA StopKeeps ==
  ASSUME DrainInv, NEW p \in Processes,
         Stops(p) \/ Dies(p) \/ Drains(p) \/ Completes(p) \/ TimesOut(p)
  PROVE  DrainInv'
<1>0. stage \in [Processes -> Stages]
  BY DEF DrainInv, LifeTypes
<1>1. CASE Stops(p)
  <2>1. CASE BeginShutdown(p)
    <3>1. stage' = [stage EXCEPT ![p] = "draining"] /\ "draining" \in Stages
      BY <2>1 DEF BeginShutdown, Stages, Stopping
    <3>2. stage'[p] # "down"
      BY <1>0, <3>1
    <3> QED
      BY <1>1, <3>1, <3>2, StageKeeps DEF Stops
  <2>2. CASE Exits(p)
    <3>1. stage'[p] = "down"
      BY <1>0, <2>2 DEF Exits
    <3> QED
      BY <1>1, <2>2, <3>1, ExitKeeps DEF Stops
  <2> QED
    BY <1>1, <2>1, <2>2 DEF Stops, Signalled
<1>2. CASE Dies(p)
  <2>1. Exits(p) /\ Gone(p)
    BY <1>2 DEF Dies, Ends, BootFails, ShutdownFails, Crashes
  <2> QED
    BY <2>1, ExitKeeps
<1>3. CASE Drains(p)
  <2>1. /\ Awaited(p) = 0 /\ stage' = [stage EXCEPT ![p] = "closing"]
        /\ UNCHANGED <<intakeVars, jobs>>
        /\ "closing" \in Stages
    BY <1>3 DEF Drains, Drained, Enters, Stages, Stopping
  <2> QED
    BY <2>1, StageKeeps
<1>4. CASE Completes(p) \/ TimesOut(p)
  BY <1>4, ExitKeeps DEF Completes, TimesOut, ShutdownComplete, ForcedExit
<1> QED
  BY <1>1, <1>2, <1>3, <1>4

LEMMA JobsKeep ==
  ASSUME DrainInv, JobStarts \/ JobEnds
  PROVE  DrainInv'
<1>1. UNCHANGED <<handlers, stage>>
  BY DEF JobStarts, JobEnds, intakeVars, lifeVars
<1>2. Connected' = Connected
  BY <1>1 DEF Connected, Handled
<1>3. CASE JobStarts
  BY <1>1, <1>2, <1>3 DEF JobStarts, DrainInv, LifeTypes, ClosedIsQuiet
<1>4. CASE JobEnds
  BY <1>1, <1>2, <1>4 DEF JobEnds, DrainInv, LifeTypes, ClosedIsQuiet
<1> QED
  BY <1>3, <1>4

LEMMA NextDrains ==
  ASSUME DrainInv, [Next]_vars
  PROVE  DrainInv'
<1>1. CASE TakesRequest
  <2>1. AnySlot \in Requests
    BY IntakeConfig DEF AnySlot
  <2>2. PICK r \in Requests : \E body : Arrives(r, body)
    BY <1>1, <2>1 DEF TakesRequest
  <2> QED
    BY <1>1, <2>2, ArrivalKeeps DEF TakesRequest, lifeVars
<1>2. CASE Handles
  <2>1. NoneConnects
    BY <1>2, HandlesConnectsNone DEF Handles
  <2> QED
    BY <1>2, <2>1, NoneConnectsKeeps DEF Handles, lifeVars
<1>3. CASE Disturbs
  <2>1. UNCHANGED <<stage, jobs>>
    BY <1>3 DEF Disturbs, lifeVars
  <2>2. CASE \E r \in Requests : Fails(r) \/ HangsUp(r)
    BY <2>1, <2>2, DisturbanceConnectsNone, NoneConnectsKeeps
  <2>3. CASE UNCHANGED handlers
    <3>1. Connected' = Connected
      BY <2>3 DEF Connected, Handled
    <3> QED
      BY <2>1, <2>3, <3>1 DEF DrainInv, LifeTypes, ClosedIsQuiet
  <2> QED
    BY <1>3, <2>2, <2>3 DEF Disturbs, CacheExpires, Toggles
<1>4. CASE JobStarts \/ JobEnds
  BY <1>4, JobsKeep
<1>5. CASE Boots
  BY <1>5, BootKeeps
<1>6. CASE \E p \in Processes : Stops(p) \/ Dies(p) \/ Drains(p) \/ Completes(p) \/ TimesOut(p)
  BY <1>6, StopKeeps
<1>7. CASE UNCHANGED vars
  <2>1. UNCHANGED <<handlers, stage, jobs>>
    BY <1>7 DEF vars, intakeVars, lifeVars
  <2>2. Connected' = Connected
    BY <2>1 DEF Connected, Handled
  <2> QED
    BY <2>1, <2>2 DEF DrainInv, LifeTypes, ClosedIsQuiet
<1> QED
  BY <1>1, <1>2, <1>3, <1>4, <1>5, <1>6, <1>7 DEF Next

\* worker.ts, "drains rather than killing the send": an orderly stop closes the
\* pool and the database when no job is in flight and no client waits.
THEOREM NothingTornDownInUse == Spec => []DrainedBeforeTeardown
<1>1. Init => DrainInv
  BY InitDrain
<1>2. DrainInv /\ [Next]_vars => DrainInv'
  BY NextDrains
<1>3. DrainInv => DrainedBeforeTeardown
  BY DrainIsEnough
<1> QED
  BY <1>1, <1>2, <1>3, PTL DEF Spec

-----------------------------------------------------------------------------
(* The round-robin: one list *)

\* What getActiveSenders returns: senders of the table, each once.
SenderList(list) == list \in Seq(Senders) /\ Distinct(list)

\* The place of a sender, and how many rows go to others before it is its turn.
At(list, s) == CHOOSE i \in DOMAIN list : list[i] = s
Wait(list, n, s) ==
  IF At(list, s) > (n % Len(list)) THEN At(list, s) - 1 - (n % Len(list))
  ELSE At(list, s) - 1 - (n % Len(list)) + Len(list)

\* No sender is ahead of another by more than `slack`, or by one more if the
\* other one's turn comes first.
Even(list, rows, common, slack) ==
  \A s, t \in common :
    Share(rows, s) <= Share(rows, t) + slack +
      (IF Wait(list, Len(rows), t) < Wait(list, Len(rows), s) THEN 1 ELSE 0)

LEMMA NextTurn ==
  ASSUME NEW n \in Nat, NEW m \in Nat, m # 0
  PROVE  /\ n % m \in 0..(m - 1)
         /\ (n + 1) % m = IF (n % m) + 1 = m THEN 0 ELSE (n % m) + 1
<1>1. n % m \in 0..(m - 1)
  BY Z3
<1> PICK q \in Int, r \in 0..(m - 1) : n = m * q + r /\ r = n % m
  <2>1. n \in Int /\ m \in Int /\ m > 0
    OBVIOUS
  <2>2. n = m * (n \div m) + (n % m) /\ n \div m \in Int
    BY <2>1, SMTT(30)
  <2> QED
    BY <1>1, <2>2
<1>2. \A d \in Int, k \in 0..(m - 1) : (m * d + k) % m = k
  BY Z3
<1>3. CASE r + 1 = m
  <2>1. n + 1 = m * (q + 1) + 0
    <3>1. m * (q + 1) = m * q + m
      BY Z3
    <3>2. PICK x \in Int : x = m * q
      BY Z3
    <3>3. n = x + r
      BY <3>2, Zenon
    <3>4. PICK y \in Int : y = m * (q + 1)
      BY Z3
    <3>5. y = x + m
      BY <3>1, <3>2, <3>4, Zenon
    <3>6. n + 1 = y + 0
      BY <1>3, <3>3, <3>5
    <3> QED
      BY <3>4, <3>6, Zenon
  <2>2. 0 \in 0..(m - 1) /\ q + 1 \in Int
    OBVIOUS
  <2>3. (m * (q + 1) + 0) % m = 0
    BY <1>2, <2>2
  <2> QED
    BY <1>1, <1>3, <2>1, <2>3
<1>4. CASE r + 1 # m
  <2>1. n + 1 = m * q + (r + 1)
    BY Z3
  <2>2. r + 1 \in 0..(m - 1)
    BY <1>4
  <2>3. (m * q + (r + 1)) % m = r + 1
    BY <1>2, <2>2
  <2> QED
    BY <1>1, <1>4, <2>1, <2>3
<1> QED
  BY <1>3, <1>4

LEMMA ShareIsNat ==
  ASSUME NEW rows \in Seq(Senders), NEW s
  PROVE  Share(rows, s) \in Nat
<1>1. IsFiniteSet(1..Len(rows)) /\ DOMAIN rows = 1..Len(rows)
  <2>1. Len(rows) \in Int /\ DOMAIN rows = 1..Len(rows)
    OBVIOUS
  <2> QED
    BY <2>1, FS_Interval
<1>2. {i \in DOMAIN rows : rows[i] = s} \subseteq 1..Len(rows)
  BY <1>1
<1>3. IsFiniteSet({i \in DOMAIN rows : rows[i] = s})
  BY <1>1, <1>2, FS_Subset
<1> QED
  BY <1>3, FS_CardinalityType DEF Share

LEMMA ShareGrows ==
  ASSUME NEW rows \in Seq(Senders), NEW u \in Senders, NEW s
  PROVE  Share(Append(rows, u), s) = Share(rows, s) + (IF s = u THEN 1 ELSE 0)
<1> PICK n \in Nat : n = Len(rows)
  OBVIOUS
<1> PICK more : more = Append(rows, u)
  OBVIOUS
<1> DEFINE Old == {i \in DOMAIN rows : rows[i] = s}
           New == {i \in DOMAIN more : more[i] = s}
<1>1. /\ DOMAIN rows = 1..n /\ DOMAIN more = 1..(n + 1) /\ more[n + 1] = u
      /\ \A i \in 1..n : more[i] = rows[i]
  OBVIOUS
<1>2. 1..(n + 1) = (1..n) \cup {n + 1} /\ n + 1 \notin 1..n
  OBVIOUS
<1>3. IsFiniteSet(Old) /\ n + 1 \notin Old
  <2>1. IsFiniteSet(1..n)
    BY FS_Interval
  <2>2. Old \subseteq 1..n
    BY <1>1
  <2> QED
    BY <1>2, <2>1, <2>2, FS_Subset
<1>4. New = IF s = u THEN Old \cup {n + 1} ELSE Old
  BY <1>1, <1>2
<1> HIDE DEF Old, New
<1>5. Cardinality(Old \cup {n + 1}) = Cardinality(Old) + 1
  BY <1>3, FS_AddElement
<1>6. Cardinality(Old) \in Nat
  BY <1>3, FS_CardinalityType
<1>7. Share(rows, s) = Cardinality(Old)
  BY DEF Share, Old
<1>8. Share(Append(rows, u), s) = Cardinality(New)
  BY DEF Share, New
<1>9. Cardinality(New) = Cardinality(Old) + (IF s = u THEN 1 ELSE 0)
  BY <1>4, <1>5, <1>6
<1> QED
  BY <1>7, <1>8, <1>9

LEMMA PlaceOf ==
  ASSUME NEW list, SenderList(list), NEW s \in ToSet(list)
  PROVE  /\ At(list, s) \in 1..Len(list) /\ list[At(list, s)] = s
         /\ \A i \in 1..Len(list) : list[i] = s => i = At(list, s)
BY DEF SenderList, Distinct, ToSet, At

\* A row is given to the sender whose turn it is.
LEMMA PickKeepsEven ==
  ASSUME NEW list, SenderList(list), list # <<>>,
         NEW rows \in Seq(Senders), NEW common \in SUBSET ToSet(list), NEW slack \in Nat,
         Even(list, rows, common, slack)
  PROVE  /\ Pick(list, Len(rows)) \in Senders
         /\ Even(list, Append(rows, Pick(list, Len(rows))), common, slack)
<1> PICK n \in Nat : n = Len(rows)
  OBVIOUS
<1> PICK m \in Nat : m = Len(list) /\ m # 0
  BY DEF SenderList
<1> PICK p \in 0..(m - 1) : p = n % m
  BY NextTurn
<1> PICK u : u = list[1 + p]
  OBVIOUS
<1> PICK more : more = Append(rows, u)
  OBVIOUS
<1>1. u \in Senders /\ u \in ToSet(list) /\ Pick(list, Len(rows)) = u
  BY DEF SenderList, ToSet, Pick
<1>2. Len(more) = n + 1 /\ more \in Seq(Senders)
  BY <1>1
<1>3. At(list, u) = 1 + p
  <2>1. 1 + p \in 1..Len(list)
    OBVIOUS
  <2> QED
    BY <1>1, <2>1, PlaceOf
<1>4. ASSUME NEW s \in common
      PROVE  /\ s = u => Wait(list, n, s) = 0 /\ Wait(list, n + 1, s) = m - 1
             /\ s # u => Wait(list, n, s) \in 1..(m - 1) /\ Wait(list, n + 1, s) = Wait(list, n, s) - 1
  <2>1. PICK j \in 1..m : j = At(list, s) /\ list[j] = s
    BY PlaceOf
  <2>2. s = u <=> j = 1 + p
    BY <1>3, <2>1
  <2>3. (n + 1) % m = IF p + 1 = m THEN 0 ELSE p + 1
    BY NextTurn
  <2>4. Wait(list, n, s) = IF j > p THEN j - 1 - p ELSE j - 1 - p + m
    BY <2>1 DEF Wait
  <2>5. Wait(list, n + 1, s) = IF p + 1 = m THEN j - 1
                               ELSE IF j > p + 1 THEN j - 2 - p ELSE j - 2 - p + m
    BY <2>1, <2>3 DEF Wait
  <2>6. CASE j = 1 + p
    <3>1. Wait(list, n, s) = 0
      BY <2>4, <2>6
    <3>2. Wait(list, n + 1, s) = m - 1
      BY <2>5, <2>6
    <3> QED
      BY <2>2, <2>6, <3>1, <3>2
  <2>7. CASE j > 1 + p
    <3>1. Wait(list, n, s) = j - 1 - p
      BY <2>4, <2>7
    <3>2. Wait(list, n + 1, s) = j - 2 - p
      BY <2>5, <2>7
    <3> QED
      BY <2>2, <2>7, <3>1, <3>2
  <2>8. CASE j < 1 + p
    <3>1. Wait(list, n, s) = j - 1 - p + m
      BY <2>4, <2>8
    <3>2. Wait(list, n + 1, s) = j - 2 - p + m
      BY <2>5, <2>8
    <3> QED
      BY <2>2, <2>8, <3>1, <3>2
  <2> QED
    BY <2>6, <2>7, <2>8
<1>5. ASSUME NEW s \in common, NEW t \in common
      PROVE  Share(more, s) <= Share(more, t) + slack +
               (IF Wait(list, n + 1, t) < Wait(list, n + 1, s) THEN 1 ELSE 0)
  <2>1. PICK a \in Nat, b \in Nat : a = Share(rows, s) /\ b = Share(rows, t)
    BY ShareIsNat
  <2>2. Share(more, s) = a + (IF s = u THEN 1 ELSE 0) /\ Share(more, t) = b + (IF t = u THEN 1 ELSE 0)
    BY <1>1, <2>1, ShareGrows
  <2>3. a <= b + slack + (IF Wait(list, n, t) < Wait(list, n, s) THEN 1 ELSE 0)
    BY <2>1 DEF Even
  <2>4. CASE s = u /\ t = u
    BY <2>1, <2>2, <2>4
  <2>5. CASE s = u /\ t # u
    <3>1. Wait(list, n, s) = 0 /\ Wait(list, n + 1, s) = m - 1
          /\ Wait(list, n, t) \in 1..(m - 1) /\ Wait(list, n + 1, t) = Wait(list, n, t) - 1
      BY <1>4, <2>5
    <3> QED
      BY <2>2, <2>3, <2>5, <3>1
  <2>6. CASE s # u /\ t = u
    BY <2>2, <2>3, <2>6
  <2>7. CASE s # u /\ t # u
    <3>1. Wait(list, n, s) \in 1..(m - 1) /\ Wait(list, n + 1, s) = Wait(list, n, s) - 1
          /\ Wait(list, n, t) \in 1..(m - 1) /\ Wait(list, n + 1, t) = Wait(list, n, t) - 1
      BY <1>4, <2>7
    <3> QED
      BY <2>2, <2>3, <2>7, <3>1
  <2> QED
    BY <2>4, <2>5, <2>6, <2>7
<1> QED
  BY <1>1, <1>2, <1>5 DEF Even

\* The list may change before a row is given; the slack grows by one then.
LEMMA RelistKeepsEven ==
  ASSUME NEW list, NEW other, NEW rows \in Seq(Senders), NEW common, NEW slack \in Nat,
         NEW fewer \in SUBSET common,
         Even(list, rows, common, slack)
  PROVE  Even(other, rows, fewer, slack + 1)
<1> SUFFICES ASSUME NEW s \in fewer, NEW t \in fewer
             PROVE  Share(rows, s) <= Share(rows, t) + (slack + 1) +
                      (IF Wait(other, Len(rows), t) < Wait(other, Len(rows), s) THEN 1 ELSE 0)
  BY DEF Even
<1>1. Share(rows, s) \in Nat /\ Share(rows, t) \in Nat
  BY ShareIsNat
<1>2. Share(rows, s) <= Share(rows, t) + slack +
         (IF Wait(list, Len(rows), t) < Wait(list, Len(rows), s) THEN 1 ELSE 0)
  BY DEF Even
<1> QED
  BY <1>1, <1>2

-----------------------------------------------------------------------------
(* The round-robin: what a handler keeps *)

\* The senders in every list so far have had even shares.
Spread(h) ==
  /\ h.rows \in Seq(Senders) /\ h.turns \in Nat
  /\ h.rows = <<>> => h.common = {} /\ h.turns = 0
  /\ h.rows # <<>> => /\ SenderList(h.last) /\ h.last # <<>>
                      /\ h.common \subseteq ToSet(h.last)
                      /\ Even(h.last, h.rows, h.common, h.turns)

\* What a handler is about to go on with is a list of senders, and its body is
\* what a tokenizer makes of a string.
Sane(h) ==
  /\ Spread(h)
  /\ Reading(h) => SenderList(h.reading[1])
  /\ IsMarkup(h.body)

IntakeInv ==
  /\ cache.known => SenderList(cache.list)
  /\ \A r \in Requests : Sane(handlers[r])

LEMMA EmptyIsMarkup == IsMarkup(<<>>)
<1>1. ToSet(<<>>) = {}
  BY DEF ToSet
<1> QED
  BY <1>1 DEF IsMarkup, Seam

LEMMA IdleIsSane == Sane(Idle)
BY EmptyIsMarkup DEF Sane, Spread, Idle, Reading

\* Steps that touch neither rows nor lists.
Unmoved(h, g) ==
  /\ g.rows = h.rows /\ g.last = h.last /\ g.common = h.common /\ g.turns = h.turns
  /\ g.reading = h.reading \/ g.reading = <<>>
  /\ g.body = h.body \/ IsMarkup(g.body)

LEMMA UnmovedIsSane ==
  ASSUME NEW h, NEW g, Sane(h), Unmoved(h, g)
  PROVE  Sane(g)
BY DEF Sane, Spread, Unmoved, Reading

LEMMA PickingIsSane ==
  ASSUME NEW h, IsHandler(h), h.phase = "picking", Sane(h),
         NEW list, list # <<>>, SenderList(list)
  PROVE  Sane(Continued(h, list))
<1> PICK g : g = Continued(h, list)
  OBVIOUS
<1> PICK u : u = Pick(list, Len(h.rows))
  OBVIOUS
<1>1. /\ g.rows = Append(h.rows, u)
      /\ g.reading = <<>>
      /\ g.last = list
      /\ g.common = IF h.rows = <<>> THEN ToSet(list) ELSE h.common \cap ToSet(list)
      /\ g.turns = IF h.rows # <<>> /\ h.last # list THEN h.turns + 1 ELSE h.turns
      /\ g.body = h.body
  <2>1. IsHandler(h) /\ h.phase = "picking" /\ list # <<>> /\ g = Continued(h, list)
    OBVIOUS
  <2>2. Picked(h, list, g)
    BY ONLY <2>1, PickedFields
  <2> QED
    BY <2>2 DEF Picked
<1>2. h.rows \in Seq(Senders) /\ h.turns \in Nat /\ g.turns \in Nat
  BY <1>1 DEF Sane, Spread
<1>3. g.common \in SUBSET ToSet(list)
  BY <1>1
<1>4. Even(list, h.rows, g.common, g.turns)
  <2>1. CASE h.rows = <<>>
    <3>1. \A s : Share(h.rows, s) = 0
      <4>1. {i \in DOMAIN h.rows : h.rows[i] = h.rows[i]} = {}
        BY <2>1
      <4>2. \A s : {i \in DOMAIN h.rows : h.rows[i] = s} = {}
        BY <2>1
      <4> QED
        BY <4>2, FS_EmptySet DEF Share
    <3> QED
      BY <1>2, <3>1 DEF Even
  <2>2. CASE h.rows # <<>> /\ h.last = list
    <3>1. Even(list, h.rows, h.common, h.turns) /\ g.common \subseteq h.common /\ g.turns = h.turns
      BY <1>1, <2>2 DEF Sane, Spread
    <3> QED
      BY <3>1 DEF Even
  <2>3. CASE h.rows # <<>> /\ h.last # list
    <3>1. /\ Even(h.last, h.rows, h.common, h.turns)
          /\ g.common \in SUBSET h.common /\ g.turns = h.turns + 1
      BY <1>1, <2>3 DEF Sane, Spread
    <3> QED
      BY <1>2, <3>1, RelistKeepsEven
  <2> QED
    BY <2>1, <2>2, <2>3
<1>5. u \in Senders /\ Even(list, Append(h.rows, u), g.common, g.turns)
  BY <1>2, <1>3, <1>4, PickKeepsEven
<1>6. g.rows \in Seq(Senders) /\ g.rows # <<>>
  BY <1>1, <1>2, <1>5
<1>7. Spread(g)
  BY <1>1, <1>2, <1>3, <1>5, <1>6 DEF Spread
<1>8. ~Reading(g)
  BY <1>1 DEF Reading
<1> QED
  BY <1>1, <1>7, <1>8 DEF Sane

LEMMA ContinuedIsSane ==
  ASSUME NEW h, IsHandler(h), h.phase \in Asking, Sane(h),
         NEW list, SenderList(list)
  PROVE  Sane(Continued(h, list))
<1>1. CASE list = <<>>
  BY <1>1, IdleIsSane DEF Continued
<1>2. CASE list # <<>> /\ h.phase = "picking"
  BY <1>2, PickingIsSane
<1>3. CASE list # <<>> /\ h.phase = "checking"
  <2> PICK p, c, b, w, r, l, o, t :
        h = [phase |-> p, connected |-> c, body |-> b, rows |-> w,
             reading |-> r, last |-> l, common |-> o, turns |-> t]
    BY DEF IsHandler
  <2> PICK none : none = <<>>
    OBVIOUS
  <2> PICK g : g = Continued(h, list)
    OBVIOUS
  <2>1. g = [[h EXCEPT !.phase = "sanitising"] EXCEPT !.reading = none]
    BY <1>3, Zenon DEF Continued
  <2>0. h = [phase |-> p, connected |-> c, body |-> b, rows |-> w,
             reading |-> r, last |-> l, common |-> o, turns |-> t]
    OBVIOUS
  <2>2. [h EXCEPT !.phase = "sanitising"] =
          [phase |-> "sanitising", connected |-> c, body |-> b, rows |-> w,
           reading |-> r, last |-> l, common |-> o, turns |-> t]
    BY ONLY <2>0
  <2>3. g = [phase |-> "sanitising", connected |-> c, body |-> b, rows |-> w,
             reading |-> none, last |-> l, common |-> o, turns |-> t]
    BY <2>1, <2>2, Edits
  <2>4. Unmoved(h, g)
    BY <2>3 DEF Unmoved
  <2> QED
    BY <2>4, UnmovedIsSane
<1> QED
  BY <1>1, <1>2, <1>3 DEF Asking

-----------------------------------------------------------------------------
(* The round-robin: every step *)

\* One handler changes, and the cache holds a list of senders.
LEMMA SaneStep ==
  ASSUME DrainInv, IntakeInv, NEW r \in Requests, NEW g, Becomes(r, g), Sane(g),
         cache'.known => SenderList(cache'.list)
  PROVE  IntakeInv'
<1>1. handlers = [q \in Requests |-> handlers[q]]
  BY DEF DrainInv, LifeTypes
<1>2. \A q \in Requests : handlers'[q] = IF q = r THEN g ELSE handlers[q]
  BY <1>1 DEF Becomes
<1>3. \A q \in Requests : Sane(handlers'[q])
  BY <1>2 DEF IntakeInv
<1> QED
  BY <1>3 DEF IntakeInv

LEMMA ActiveIsList == SenderList(ActiveSenders)
BY IntakeConfig, KeepFacts DEF SenderList, ActiveSenders

LEMMA UnmovedStep ==
  ASSUME DrainInv, IntakeInv, NEW r \in Requests, NEW g, Becomes(r, g),
         g = Idle \/ Unmoved(handlers[r], g), UNCHANGED cache
  PROVE  IntakeInv'
<1>1. Sane(handlers[r])
  BY DEF IntakeInv
<1>2. Sane(g)
  BY <1>1, IdleIsSane, UnmovedIsSane
<1> QED
  BY <1>2, SaneStep DEF IntakeInv

LEMMA HandlesKeepIntake ==
  ASSUME DrainInv, IntakeInv, NEW r \in Requests,
         UsesCache(r) \/ ReadsTable(r) \/ StoresList(r) \/ Sanitises(r) \/ Answers(r)
  PROVE  IntakeInv'
<1> PICK h : h = handlers[r]
  OBVIOUS
<1>0. IsHandler(h) /\ Sound(h) /\ Sane(h)
  BY DEF DrainInv, LifeTypes, IntakeInv
<1> PICK p, c, b, w, rd, l, o, t :
      h = [phase |-> p, connected |-> c, body |-> b, rows |-> w,
           reading |-> rd, last |-> l, common |-> o, turns |-> t]
  BY <1>0 DEF IsHandler
<1>h. h = [phase |-> p, connected |-> c, body |-> b, rows |-> w,
           reading |-> rd, last |-> l, common |-> o, turns |-> t]
  OBVIOUS
<1>1. CASE UsesCache(r)
  <2> PICK g, list : list = cache.list /\ g = Continued(h, list)
    OBVIOUS
  <2>1. SenderList(list) /\ h.phase \in Asking /\ Becomes(r, g) /\ UNCHANGED cache
    BY <1>1 DEF UsesCache, IntakeInv
  <2>2. Sane(g)
    BY <1>0, <2>1, ContinuedIsSane
  <2> QED
    BY <2>1, <2>2, SaneStep DEF IntakeInv
<1>2. CASE StoresList(r)
  <2> PICK g, list : list = h.reading[1] /\ g = Continued(h, list)
    OBVIOUS
  <2>1. SenderList(list) /\ h.phase \in Asking /\ Becomes(r, g) /\ cache' = Cached(list)
    BY <1>0, <1>2 DEF StoresList, Sane, Sound
  <2>2. Sane(g)
    BY <1>0, <2>1, ContinuedIsSane
  <2>3. cache'.list = list
    BY <2>1 DEF Cached
  <2> QED
    BY <2>1, <2>2, <2>3, SaneStep
<1>3. CASE ReadsTable(r)
  <2> PICK list, answer : list = ActiveSenders /\ answer = <<list>>
    OBVIOUS
  <2> PICK g : g = [h EXCEPT !.reading = answer]
    OBVIOUS
  <2>1. Becomes(r, g) /\ UNCHANGED cache
    BY <1>3, Zenon DEF ReadsTable
  <2>2. g = [phase |-> p, connected |-> c, body |-> b, rows |-> w,
             reading |-> answer, last |-> l, common |-> o, turns |-> t]
    <3>1. g = [h EXCEPT !.reading = answer]
      OBVIOUS
    <3> QED
      BY ONLY <1>h, <3>1
  <2>3. /\ g.rows = h.rows /\ g.last = h.last /\ g.common = h.common /\ g.turns = h.turns
        /\ g.reading[1] = list /\ g.body = h.body
    BY <2>2
  <2>4. Sane(g)
    BY <1>0, <2>3, ActiveIsList DEF Sane, Spread
  <2> QED
    BY <2>1, <2>4, SaneStep DEF IntakeInv
<1>4. CASE Sanitises(r)
  <2> PICK none : none = <<>>
    OBVIOUS
  <2> PICK g : g = [[h EXCEPT !.phase = "picking"] EXCEPT !.body = none]
    OBVIOUS
  <2>1. (Becomes(r, Idle) \/ Becomes(r, g)) /\ UNCHANGED cache
    BY <1>4, Zenon DEF Sanitises
  <2>2. [h EXCEPT !.phase = "picking"] =
          [phase |-> "picking", connected |-> c, body |-> b, rows |-> w,
           reading |-> rd, last |-> l, common |-> o, turns |-> t]
    BY ONLY <1>h
  <2>3. g = [phase |-> "picking", connected |-> c, body |-> none, rows |-> w,
             reading |-> rd, last |-> l, common |-> o, turns |-> t]
    BY <2>2, Edits
  <2>4. Unmoved(h, g)
    BY <2>3, EmptyIsMarkup DEF Unmoved
  <2> QED
    BY <2>1, <2>4, UnmovedStep
<1>5. CASE Answers(r)
  BY <1>5, UnmovedStep DEF Answers
<1> QED
  BY <1>1, <1>2, <1>3, <1>4, <1>5

LEMMA DisturbanceKeepsIntake ==
  ASSUME DrainInv, IntakeInv, NEW r \in Requests, Fails(r) \/ HangsUp(r)
  PROVE  IntakeInv'
<1>1. CASE Fails(r)
  BY <1>1, UnmovedStep DEF Fails
<1>2. CASE HangsUp(r)
  <2> PICK h : h = handlers[r]
    OBVIOUS
  <2>0. IsHandler(h)
    BY DEF DrainInv, LifeTypes
  <2> PICK p, c, b, w, rd, l, o, t :
        h = [phase |-> p, connected |-> c, body |-> b, rows |-> w,
             reading |-> rd, last |-> l, common |-> o, turns |-> t]
    BY <2>0 DEF IsHandler
  <2> PICK no : no = FALSE
    OBVIOUS
  <2> PICK g : g = [h EXCEPT !.connected = no]
    OBVIOUS
  <2>1. Becomes(r, g) /\ UNCHANGED cache
    BY <1>2, Zenon DEF HangsUp
  <2>2. g = [phase |-> p, connected |-> no, body |-> b, rows |-> w,
             reading |-> rd, last |-> l, common |-> o, turns |-> t]
    <3>1. g = [h EXCEPT !.connected = no] /\ h =
          [phase |-> p, connected |-> c, body |-> b, rows |-> w,
           reading |-> rd, last |-> l, common |-> o, turns |-> t]
      OBVIOUS
    <3> QED
      BY ONLY <3>1
  <2>3. Unmoved(h, g)
    BY <2>2 DEF Unmoved
  <2> QED
    BY <2>1, <2>3, UnmovedStep
<1> QED
  BY <1>1, <1>2

LEMMA ArrivalKeepsIntake ==
  ASSUME DrainInv, IntakeInv, NEW r \in Requests, NEW body \in Bodies, Arrives(r, body)
  PROVE  IntakeInv'
<1> PICK none, no, yes, gone, zero :
      none = <<>> /\ no = FALSE /\ yes = TRUE /\ gone = {} /\ zero = 0
  OBVIOUS
<1> PICK h : h = [phase |-> "idle", connected |-> no, body |-> none, rows |-> none,
                  reading |-> none, last |-> none, common |-> gone, turns |-> zero]
  OBVIOUS
<1> PICK g : g = [[[h EXCEPT !.phase = "checking"] EXCEPT !.connected = yes] EXCEPT !.body = body]
  OBVIOUS
<1>1. h = Idle
  BY Zenon DEF Idle
<1>2. Becomes(r, g) /\ UNCHANGED cache
  BY <1>1, Zenon DEF Arrives
<1>3. h = [phase |-> "idle", connected |-> no, body |-> none, rows |-> none,
           reading |-> none, last |-> none, common |-> gone, turns |-> zero]
      /\ g = [[[h EXCEPT !.phase = "checking"] EXCEPT !.connected = yes] EXCEPT !.body = body]
  OBVIOUS
<1>5. g = [phase |-> "checking", connected |-> yes, body |-> body, rows |-> none,
           reading |-> none, last |-> none, common |-> gone, turns |-> zero]
  BY ONLY <1>3
<1>6. Unmoved(h, g)
  <2>1. IsMarkup(body)
    BY IntakeConfig DEF IntakeConfig
  <2> QED
    BY <1>5, <2>1 DEF Unmoved
<1>7. Sane(h)
  BY <1>1, IdleIsSane, Zenon
<1>8. Sane(g)
  BY ONLY <1>6, <1>7, UnmovedIsSane
<1> QED
  BY <1>2, <1>8, SaneStep DEF IntakeInv

\* Steps of the processes, which keep the handlers or end them all.
LEMMA LifeKeepsIntake ==
  ASSUME IntakeInv, UNCHANGED intakeVars \/ IntakeGone \/ CacheExpires
                    \/ \E s \in Senders : Toggles(s)
  PROVE  IntakeInv'
<1>1. CASE UNCHANGED <<cache, handlers>>
  BY <1>1 DEF IntakeInv
<1>2. CASE IntakeGone
  BY <1>2, IdleIsSane DEF IntakeGone, IntakeInv, NoCache
<1>3. CASE CacheExpires
  BY <1>3 DEF CacheExpires, IntakeInv, NoCache
<1> QED
  BY <1>1, <1>2, <1>3 DEF intakeVars, Toggles

LEMMA NextKeepsIntake ==
  ASSUME DrainInv, IntakeInv, [Next]_vars
  PROVE  IntakeInv'
<1>1. CASE TakesRequest
  <2>1. AnySlot \in Requests
    BY IntakeConfig DEF AnySlot
  <2>2. PICK r \in Requests : \E body \in Bodies : Arrives(r, body)
    BY <1>1, <2>1, IntakeConfig DEF TakesRequest, IntakeConfig
  <2> QED
    BY <2>2, ArrivalKeepsIntake
<1>2. CASE Handles
  BY <1>2, HandlesKeepIntake DEF Handles
<1>3. CASE Disturbs
  BY <1>3, DisturbanceKeepsIntake, LifeKeepsIntake DEF Disturbs
<1>4. CASE UNCHANGED intakeVars \/ IntakeGone
  BY <1>4, LifeKeepsIntake
<1>5. JobStarts \/ JobEnds \/ Boots => UNCHANGED intakeVars
  BY DEF JobStarts, JobEnds, Boots
<1>6. ASSUME NEW p \in Processes, Stops(p) \/ Dies(p) \/ Drains(p) \/ Completes(p) \/ TimesOut(p)
      PROVE  UNCHANGED intakeVars \/ IntakeGone
  BY <1>6 DEF Stops, Dies, Drains, Completes, TimesOut, Gone
<1>7. UNCHANGED vars => UNCHANGED intakeVars
  BY DEF vars
<1> QED
  BY <1>1, <1>2, <1>3, <1>4, <1>5, <1>6, <1>7 DEF Next

LEMMA SpreadIsEnough ==
  ASSUME IntakeInv
  PROVE  FairSpread
<1> SUFFICES ASSUME NEW r \in Requests, NEW s \in handlers[r].common, NEW t \in handlers[r].common
             PROVE  Share(handlers[r].rows, s) <= Share(handlers[r].rows, t) + 1 + handlers[r].turns
  BY DEF FairSpread
<1> PICK h : h = handlers[r]
  OBVIOUS
<1>1. Spread(h) /\ h.rows # <<>>
  BY DEF IntakeInv, Sane, Spread
<1>2. Share(h.rows, s) \in Nat /\ Share(h.rows, t) \in Nat /\ h.turns \in Nat
  BY <1>1, ShareIsNat DEF Spread
<1>3. Share(h.rows, s) <= Share(h.rows, t) + h.turns +
        (IF Wait(h.last, Len(h.rows), t) < Wait(h.last, Len(h.rows), s) THEN 1 ELSE 0)
  BY <1>1 DEF Spread, Even
<1>4. Share(h.rows, s) <= Share(h.rows, t) + 1 + h.turns
  BY <1>2, <1>3
<1> QED
  BY <1>4

LEMMA IntakeIsKept == Spec => []IntakeInv
<1>1. Init => DrainInv /\ IntakeInv
  <2>1. Init => IntakeInv
    BY IdleIsSane DEF Init, IntakeInit, IntakeInv, NoCache
  <2> QED
    BY <2>1, InitDrain
<1>2. DrainInv /\ IntakeInv /\ [Next]_vars => DrainInv' /\ IntakeInv'
  BY NextDrains, NextKeepsIntake
<1> QED
  BY <1>1, <1>2, PTL DEF Spec

\* sender.service.ts, "deterministic round-robin": of the senders that were in
\* every list, none gets more of a campaign than another by more than one, and
\* one for each time the list changed under it.
THEOREM SendersShareEvenly == Spec => []FairSpread
<1>1. IntakeInv => FairSpread
  BY SpreadIsEnough
<1> QED
  BY <1>1, IntakeIsKept, PTL

-----------------------------------------------------------------------------
(* The sanitiser *)

\* sanitize-html.ts, "it is idempotent": whatever the body, what is stored is
\* balanced and made of allowed elements, and a second pass changes nothing;
\* except for a body that closes an allowed element in its start tag, and for
\* one whose texts join into a tag once what stood between them is left out.
THEOREM StoredIsClean == Spec => []CleanMeansClean
<1>1. IntakeInv => CleanMeansClean
  <2> SUFFICES ASSUME IntakeInv, NEW r \in Sanitising
               PROVE  LET body == handlers[r].body
                          out == SanitizeHtml(body)
                      IN  \/ SelfClosed(body) \/ Joins(body)
                          \/ /\ Balanced(out)
                             /\ SanitizeHtml(out) = out
                             /\ \A i \in DOMAIN out : ~IsText(out[i]) => out[i].tag \in Allowed
    BY DEF CleanMeansClean
  <2> PICK body : body = handlers[r].body
    OBVIOUS
  <2>1. IsMarkup(body)
    BY DEF IntakeInv, Sane, Sanitising
  <2> QED
    BY <2>1, CleanIsClean
<1> QED
  BY <1>1, IntakeIsKept, PTL

\* sanitize-html.ts, "a sanitiser into a content-deleter": whatever the body,
\* a text is emitted if it stands outside every removed and every raw-text
\* element, and only if it stands outside the outermost removed and every
\* raw-text element.
THEOREM TextIsNotLost == Spec => []TextKept
<1>1. IntakeInv => TextKept
  <2> SUFFICES ASSUME IntakeInv, NEW r \in Sanitising
               PROVE  LET body == handlers[r].body
                          html == Tokenize(body)
                          kept == TextsKept(body)
                      IN  /\ TextsOf(body) \ (InsideOf(html, Removals(html)) \cup RawContents(body))
                               \subseteq kept
                          /\ kept \cap (InsideOf(html, Outermost(html)) \cup RawContents(body)) = {}
    BY DEF TextKept
  <2> PICK body : body = handlers[r].body
    OBVIOUS
  <2>1. IsMarkup(body)
    BY DEF IntakeInv, Sane, Sanitising
  <2> QED
    BY <2>1, TextIsKept
<1> QED
  BY <1>1, IntakeIsKept, PTL
===============================================================================
