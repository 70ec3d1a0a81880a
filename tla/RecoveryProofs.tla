---------------------------- MODULE RecoveryProofs -----------------------------
(***************************************************************************)
(* Proofs about Recovery, for any number of emails, slots and processes,    *)
(* any page size and any number of mishaps and events: the order of the     *)
(* rows and its pages, the types of the pass, and the invariant that ties   *)
(* rows, claims and messages together while passes take rows back.          *)
(***************************************************************************)
EXTENDS Recovery, EmailWorkerProofs, FiniteSetTheorems, WellFoundedInduction

\* A set of natural numbers has a least element.
LEMMA LeastNat ==
  ASSUME NEW T, T \subseteq Nat, T # {}
  PROVE  \E x \in T : \A y \in T : x <= y
<1> DEFINE R == {r \in Nat \X Nat : r[1] < r[2]}
<1>1. IsWellFoundedOn(R, Nat)
  <2>1. R = OpToRel(<, Nat)
    BY DEF OpToRel
  <2> QED BY <2>1, NatLessThanWellFounded
<1>2. PICK x \in T : \A y \in T : ~(<<y, x>> \in R)
  BY <1>1, WFMin
<1>3. \A y \in T : ~(y < x)
  BY <1>2
<1> QED BY <1>3

LEMMA Places ==
  /\ \A e \in Emails : position[e] \in Nat /\ position[e] > 0
  /\ \A e, f \in Emails : position[e] = position[f] => e = f
BY RecoveryConfig

\* Every set of rows has a first and a last one.
LEMMA FirstRow ==
  ASSUME NEW rows \in SUBSET Emails, rows # {}
  PROVE  /\ Least(rows) \in rows
         /\ \A f \in rows : position[Least(rows)] <= position[f]
<1> DEFINE T == {position[e] : e \in rows}
<1>1. T \subseteq Nat /\ T # {}
  BY Places
<1>2. PICK x \in T : \A y \in T : x <= y
  BY <1>1, LeastNat
<1>3. \E e \in rows : \A f \in rows : position[e] <= position[f]
  BY <1>2
<1> QED BY <1>3 DEF Least

\* The rows of a set that come before a given one.
Before(rows, e) == {f \in rows : position[f] < position[e]}

LEMMA BeforeFinite ==
  ASSUME NEW rows \in SUBSET Emails, NEW e
  PROVE  /\ IsFiniteSet(rows) /\ IsFiniteSet(Before(rows, e))
         /\ Cardinality(rows) \in Nat /\ Cardinality(Before(rows, e)) \in Nat
         /\ Cardinality(Before(rows, e)) <= Cardinality(rows)
<1>1. IsFiniteSet(rows)
  BY RecoveryConfig, FS_Subset
<1>2. Before(rows, e) \in SUBSET rows
  BY DEF Before
<1> QED BY <1>1, <1>2, FS_Subset, FS_CardinalityType

\* One row more comes before a later one.
LEMMA BeforeGrows ==
  ASSUME NEW rows \in SUBSET Emails, NEW e \in rows, NEW f \in rows,
         position[e] < position[f]
  PROVE  Cardinality(Before(rows, e)) + 1 <= Cardinality(Before(rows, f))
<1>1. Before(rows, e) \cup {e} \in SUBSET Before(rows, f) /\ e \notin Before(rows, e)
  BY Places DEF Before
<1>2. /\ IsFiniteSet(Before(rows, e)) /\ IsFiniteSet(Before(rows, f))
      /\ Cardinality(Before(rows, e)) \in Nat
  BY BeforeFinite
<1>3. Cardinality(Before(rows, e) \cup {e}) = Cardinality(Before(rows, e)) + 1
  BY <1>1, <1>2, FS_AddElement
<1>4. Cardinality(Before(rows, e) \cup {e}) <= Cardinality(Before(rows, f))
  BY <1>1, <1>2, FS_Subset
<1> QED BY <1>3, <1>4

LEMMA LastRow ==
  ASSUME NEW rows \in SUBSET Emails, rows # {}
  PROVE  \E e \in rows : \A f \in rows : position[f] <= position[e]
<1> DEFINE rest(e) == Cardinality(rows) - Cardinality(Before(rows, e))
           T == {rest(e) : e \in rows}
<1>1. \A e \in rows : rest(e) \in Nat
  BY BeforeFinite
<1>2. T \subseteq Nat /\ T # {}
  BY <1>1
<1>3. PICK x \in T : \A y \in T : x <= y
  BY <1>2, LeastNat
<1>4. PICK e \in rows : \A f \in rows : rest(e) <= rest(f)
  BY <1>3
<1>5. ASSUME NEW f \in rows, ~(position[f] <= position[e]) PROVE FALSE
  <2>1. position[e] < position[f]
    BY <1>5, Places
  <2>2. Cardinality(Before(rows, e)) + 1 <= Cardinality(Before(rows, f))
    BY <2>1, BeforeGrows
  <2>3. /\ Cardinality(rows) \in Nat /\ Cardinality(Before(rows, e)) \in Nat
        /\ Cardinality(Before(rows, f)) \in Nat
    BY BeforeFinite
  <2> QED BY <1>4, <2>2, <2>3
<1> QED BY <1>5

-------------------------------------------------------------------------------
\* A page is the beginning of what is left to read: the rows of it come before
\* the others, it is never longer than PageSize, and it is shorter only when
\* nothing is left beyond it.
LEMMA PageIsPrefix ==
  ASSUME NEW rows \in SUBSET Emails
  PROVE  /\ PageOf(rows) \subseteq rows
         /\ \A e \in PageOf(rows), f \in rows :
              position[f] <= position[e] => f \in PageOf(rows)
         /\ rows # {} => PageOf(rows) # {}
         /\ Cardinality(PageOf(rows)) # PageSize => PageOf(rows) = rows
<1> DEFINE page == PageOf(rows)
<1>1. PageOf(rows) = {e \in rows : Cardinality(Before(rows, e)) < PageSize}
  BY DEF PageOf, Before
<1>2. PageSize \in Nat /\ PageSize > 0
  BY RecoveryConfig
<1>3. \A e \in rows : Cardinality(Before(rows, e)) \in Nat
  BY BeforeFinite
<1>4. ASSUME NEW e \in page, NEW f \in rows, position[f] <= position[e]
      PROVE  f \in page
  <2>1. CASE position[f] = position[e]
    BY <2>1, <1>1, <1>4, Places
  <2>2. CASE position[f] < position[e]
    BY <2>2, <1>1, <1>2, <1>3, BeforeGrows
  <2>3. position[e] \in Nat /\ position[f] \in Nat
    BY <1>1, Places
  <2> QED BY <2>1, <2>2, <2>3, <1>4
<1>5. ASSUME rows # {} PROVE Least(rows) \in page
  <2>1. Least(rows) \in rows /\ \A f \in rows : position[Least(rows)] <= position[f]
    BY <1>5, FirstRow
  <2>2. Before(rows, Least(rows)) = {}
    BY <2>1, Places DEF Before
  <2>3. Cardinality(Before(rows, Least(rows))) = 0
    BY <2>2, FS_EmptySet
  <2> QED BY <1>1, <1>2, <2>1, <2>3
<1>6. ASSUME page # rows PROVE Cardinality(page) = PageSize
  <2>1. rows \ page \in SUBSET Emails /\ rows \ page # {}
    BY <1>1, <1>6
  <2>2. PICK e \in rows \ page : \A f \in rows \ page : position[e] <= position[f]
    BY <2>1, FirstRow
  <2>3. Before(rows, e) = page
    <3>1. ASSUME NEW f \in Before(rows, e) PROVE f \in page
      BY <2>2, <3>1, Places DEF Before
    <3>2. ASSUME NEW f \in page PROVE f \in Before(rows, e)
      <4>1. f \in rows /\ ~(position[e] <= position[f])
        BY <1>1, <1>4, <2>2, <3>2
      <4> QED BY <4>1, Places DEF Before
    <3> QED BY <3>1, <3>2
  <2>4. Cardinality(page) >= PageSize /\ Cardinality(page) \in Nat
    BY <1>1, <1>2, <1>3, <2>2, <2>3
  <2>5. page # {}
    BY <2>4, <1>2, FS_EmptySet
  <2>6. PICK g \in page : \A f \in page : position[f] <= position[g]
    BY <1>1, <2>5, LastRow
  <2>7. page = Before(rows, g) \cup {g}
    <3>1. ASSUME NEW f \in page, f # g PROVE f \in Before(rows, g)
      <4>1. f \in rows /\ g \in rows /\ position[f] <= position[g] /\ position[f] # position[g]
        BY <1>1, <2>6, <3>1, Places
      <4> QED BY <4>1, Places DEF Before
    <3>2. ASSUME NEW f \in Before(rows, g) PROVE f \in page
      <4>1. f \in rows /\ position[f] <= position[g]
        BY <1>1, <2>6, <3>2, Places DEF Before
      <4> QED BY <4>1, <1>4
    <3> QED BY <3>1, <3>2
  <2>8. g \in rows /\ IsFiniteSet(Before(rows, g)) /\ Cardinality(Before(rows, g)) < PageSize
    BY <1>1, BeforeFinite
  <2>9. Cardinality(Before(rows, g)) \in Nat
    BY <1>3, <2>8
  <2>10. g \notin Before(rows, g)
    BY <2>8, Places DEF Before
  <2>11. Cardinality(Before(rows, g) \cup {g}) = Cardinality(Before(rows, g)) + 1
    BY <2>8, <2>10, FS_AddElement, Zenon
  <2>12. Cardinality(page) = Cardinality(Before(rows, g)) + 1
    BY <2>7, <2>11, Zenon
  <2> HIDE DEF page
  <2> QED BY <2>4, <2>8, <2>9, <2>12, <1>2
<1>7. page \subseteq rows
  BY <1>1
<1>8. rows # {} => page # {}
  BY <1>5
<1>9. \A e \in page, f \in rows : position[f] <= position[e] => f \in page
  BY <1>4
<1>10. Cardinality(page) # PageSize => page = rows
  BY <1>6
<1> QED BY <1>7, <1>8, <1>9, <1>10

-------------------------------------------------------------------------------
\* RecTypeOK needs to know that a pass that handles a row has one in hand.
HasRow == \A p \in Processes : boot[p].at \in {"probe", "remove", "add"} => boot[p].todo # {}

PassTypes ==
  /\ boot \in [Processes -> BootState]
  /\ events \in [Events -> Nat]
  /\ HasRow

RecTypeInv == TypeInv /\ PassTypes

LEMMA RowInHand ==
  ASSUME PassTypes, NEW p \in Processes, boot[p].todo # {}
  PROVE  /\ Row(p) \in boot[p].todo /\ Row(p) \in RowSnapshot
         /\ Row(p).email \in Emails /\ Row(p).child \in 0..MaxDeferrals
         /\ Row(p).scheduledAt \in Nat
         /\ Candidate(p) \in JobIds
         /\ \A q \in boot[p].todo : position[Row(p).email] <= position[q.email]
<1>1. boot[p].todo \subseteq RowSnapshot /\ boot[p].n \in 0..MaxDeferrals
  BY DEF PassTypes, BootState
<1> DEFINE T == {position[r.email] : r \in boot[p].todo}
<1>2. T \subseteq Nat /\ T # {}
  BY <1>1, Places DEF RowSnapshot
<1>3. PICK x \in T : \A y \in T : x <= y
  BY <1>2, LeastNat
<1>4. PICK r \in boot[p].todo : \A q \in boot[p].todo : position[r.email] <= position[q.email]
  BY <1>3
<1>5. /\ Row(p) \in boot[p].todo
      /\ \A q \in boot[p].todo : position[Row(p).email] <= position[q.email]
  BY <1>4 DEF Row
<1>6. Row(p) \in RowSnapshot
  BY <1>1, <1>5
<1> HIDE DEF T
<1>7. /\ Row(p).email \in Emails /\ Row(p).child \in 0..MaxDeferrals
      /\ Row(p).scheduledAt \in Nat
  BY <1>6 DEF RowSnapshot
<1>8. Candidate(p) \in JobIds
  BY <1>1, <1>7 DEF Candidate, JobIds
<1> QED BY <1>5, <1>6, <1>7, <1>8

LEMMA NoBootTyped ==
  ASSUME NEW n \in Nat
  PROVE  /\ NoBoot \in BootState
         /\ [NoBoot EXCEPT !.at = "find", !.since = n] \in BootState
         /\ NoBoot.at = "off" /\ NoBoot.stuck = {}
<1>1. 0 \in 0..MaxDeferrals
  BY QueueConfig
<1>2. NoBoot \in BootState
  BY <1>1 DEF NoBoot, BootState, BootLabels
<1>3. \A b \in BootState : [b EXCEPT !.at = "find", !.since = n] \in BootState
  BY DEF BootState, BootLabels
<1>4. NoBoot.at = "off" /\ NoBoot.stuck = {}
  BY DEF NoBoot
<1> QED BY <1>2, <1>3, <1>4

LEMMA PassInit == NoPassYet => PassTypes
<1>1. NoBoot \in BootState /\ NoBoot.at = "off" /\ 0 \in Nat
  BY NoBootTyped
<1> QED BY <1>1 DEF NoPassYet, PassTypes, HasRow

LEMMA AfterRowLabel ==
  ASSUME NEW todo, NEW more
  PROVE  /\ AfterRow(todo, more) \in {"probe", "page", "repaired"}
         /\ AfterRow(todo, more) = "probe" => todo # {}
         /\ AfterRow(todo, more) \in BootLabels
BY DEF AfterRow, BootLabels

\* What a step of a pass, a boot or an event does to the pass.
LEMMA PassTyped ==
  ASSUME RecTypeInv, NEW p \in Processes,
         StartBoot(p) \/ BootStep(p) \/ BootDies(p) \/ Stop(p)
  PROVE  PassTypes'
<1> USE DEF RecTypeInv, PassTypes
<1>1. boot[p] \in BootState
  OBVIOUS
<1>2. events["redisLoss"] \in Nat
  BY DEF Events
<1>3. ASSUME NEW b \in BootState, boot' = [boot EXCEPT ![p] = b], events' = events,
             b.at \in {"probe", "remove", "add"} => b.todo # {}
      PROVE  PassTypes'
  BY <1>3 DEF HasRow
<1>4. CASE StartBoot(p)
  <2>1. PICK b \in BootState : b = [NoBoot EXCEPT !.at = "find", !.since = events["redisLoss"]]
    BY <1>2, NoBootTyped
  <2>2. b.at = "find"
    BY <2>1 DEF NoBoot
  <2> QED BY <1>3, <1>4, <2>1, <2>2 DEF StartBoot
<1>5. CASE FindStuck(p)
  <2>1. PICK stuck \in SUBSET Emails :
          boot' = [boot EXCEPT ![p].at = IF stuck = {} THEN "page" ELSE "reclaim",
                               ![p].stuck = stuck]
    BY <1>5 DEF FindStuck
  <2>2. PICK b : b = [boot[p] EXCEPT !.at = IF stuck = {} THEN "page" ELSE "reclaim",
                                     !.stuck = stuck]
    OBVIOUS
  <2>3. b \in BootState /\ b.at \in {"page", "reclaim"}
    BY <1>1, <2>2 DEF BootState, BootLabels
  <2>4. boot' = [boot EXCEPT ![p] = b]
    BY <2>1, <2>2
  <2> QED BY <1>3, <1>5, <2>3, <2>4 DEF FindStuck
<1>6. CASE Reclaim(p)
  <2>1. PICK b : b = [boot[p] EXCEPT !.at = "page", !.stuck = {}]
    OBVIOUS
  <2>2. b \in BootState /\ b.at = "page"
    BY <1>1, <2>1 DEF BootState, BootLabels
  <2>3. boot' = [boot EXCEPT ![p] = b]
    BY <1>6, <2>1 DEF Reclaim
  <2> QED BY <1>3, <1>6, <2>2, <2>3 DEF Reclaim
<1>7. CASE ReadPage(p)
  <2>1. PICK page : page = PageOf(RowsFrom(boot[p].cursor))
    OBVIOUS
  <2>2. page \in SUBSET Emails
    BY <2>1 DEF PageOf, RowsFrom
  <2>3. PICK full \in BOOLEAN : full = (Cardinality(page) = PageSize)
    OBVIOUS
  <2>4. PICK todo : todo = {[email |-> e, child |-> child[e], scheduledAt |-> scheduledAt[e]] :
                              e \in {f \in page : campaign[campaignOf[f]] # "CANCELLED"}}
    OBVIOUS
  <2>5. todo \in SUBSET RowSnapshot
    BY <2>2, <2>4 DEF RowSnapshot, TypeInv, TypeOK
  <2>6. CASE page = {}
    <3>1. PICK b : b = [boot[p] EXCEPT !.at = "repaired"]
      OBVIOUS
    <3>2. b \in BootState /\ b.at = "repaired"
      BY <1>1, <3>1 DEF BootState, BootLabels
    <3>3. boot' = [boot EXCEPT ![p] = b]
      BY <1>7, <2>1, <2>6, <3>1 DEF ReadPage
    <3> QED BY <1>3, <1>7, <3>2, <3>3 DEF ReadPage
  <2>7. CASE page # {}
    <3>1. PICK last : last = CHOOSE e \in page : \A f \in page : position[f] <= position[e]
      OBVIOUS
    <3>2. last \in Emails
      BY <2>2, <2>7, <3>1, LastRow
    <3>3. PICK b : b = [boot[p] EXCEPT !.at = AfterRow(todo, full), !.todo = todo, !.n = 0,
                                       !.more = full, !.cursor = position[last]]
      OBVIOUS
    <3>4. b \in BootState /\ b.at = AfterRow(todo, full) /\ b.todo = todo
      <4>1. position[last] \in Nat /\ 0 \in 0..MaxDeferrals /\ AfterRow(todo, full) \in BootLabels
        BY <3>2, Places, QueueConfig, AfterRowLabel
      <4> QED BY <1>1, <2>5, <3>3, <4>1 DEF BootState
    <3>5. boot' = [boot EXCEPT ![p] = b]
      BY <1>7, <2>1, <2>3, <2>4, <2>7, <3>1, <3>3 DEF ReadPage
    <3>6. b.at \in {"probe", "remove", "add"} => b.todo # {}
      BY <3>4, AfterRowLabel
    <3> QED BY <1>3, <1>7, <3>4, <3>5, <3>6 DEF ReadPage
  <2> QED BY <2>6, <2>7
<1>8. ASSUME RowDone(p), events' = events PROVE PassTypes'
  <2>1. PICK todo : todo = boot[p].todo \ {Row(p)}
    OBVIOUS
  <2>2. PICK b : b = [boot[p] EXCEPT !.at = AfterRow(todo, boot[p].more), !.todo = todo,
                                     !.n = 0]
    OBVIOUS
  <2>3. b \in BootState /\ b.at = AfterRow(todo, boot[p].more) /\ b.todo = todo
    <3>1. AfterRow(todo, boot[p].more) \in BootLabels /\ 0 \in 0..MaxDeferrals
      BY QueueConfig, AfterRowLabel
    <3> QED BY <1>1, <2>1, <2>2, <3>1 DEF BootState
  <2>4. boot' = [boot EXCEPT ![p] = b]
    BY <1>8, <2>1, <2>2 DEF RowDone
  <2>5. b.at \in {"probe", "remove", "add"} => b.todo # {}
    BY <2>3, AfterRowLabel
  <2> QED BY <1>3, <1>8, <2>3, <2>4, <2>5
<1>9. ASSUME NextCandidate(p), boot[p].todo # {}, events' = events PROVE PassTypes'
  <2>1. CASE boot[p].n < Row(p).child
    <3>1. PICK b : b = [boot[p] EXCEPT !.at = "probe", !.n = @ + 1]
      OBVIOUS
    <3>2. boot[p].n + 1 \in 0..MaxDeferrals
      BY <1>1, <1>9, <2>1, RowInHand, QueueConfig DEF BootState
    <3>3. b \in BootState /\ b.todo # {}
      BY <1>1, <1>9, <3>1, <3>2 DEF BootState, BootLabels
    <3>4. boot' = [boot EXCEPT ![p] = b]
      BY <1>9, <2>1, <3>1 DEF NextCandidate
    <3> QED BY <1>3, <1>9, <3>3, <3>4
  <2>2. CASE ~(boot[p].n < Row(p).child)
    <3>1. PICK b : b = [boot[p] EXCEPT !.at = "add"]
      OBVIOUS
    <3>2. b \in BootState /\ b.todo # {}
      BY <1>1, <1>9, <3>1 DEF BootState, BootLabels
    <3>3. boot' = [boot EXCEPT ![p] = b]
      BY <1>9, <2>2, <3>1 DEF NextCandidate
    <3> QED BY <1>3, <1>9, <3>2, <3>3
  <2> QED BY <2>1, <2>2
<1>10. CASE SkipQueued(p) \/ Requeue(p)
  BY <1>8, <1>10 DEF SkipQueued, Requeue
<1>11. CASE Probe(p)
  <2>1. boot[p].todo # {} /\ events' = events
    BY <1>11 DEF Probe, Booting, HasRow
  <2>2. CASE NextCandidate(p)
    BY <1>9, <2>1, <2>2
  <2>3. CASE boot' = [boot EXCEPT ![p].at = "remove"]
    <3>1. PICK b : b = [boot[p] EXCEPT !.at = "remove"]
      OBVIOUS
    <3>2. b \in BootState /\ b.todo # {}
      BY <1>1, <2>1, <3>1 DEF BootState, BootLabels
    <3>3. boot' = [boot EXCEPT ![p] = b]
      BY <2>3, <3>1
    <3> QED BY <1>3, <2>1, <3>2, <3>3
  <2> QED BY <1>11, <2>2, <2>3 DEF Probe
<1>12. CASE RemoveOrphan(p)
  BY <1>9, <1>12 DEF RemoveOrphan, Booting, HasRow
<1>13. CASE Serve(p) \/ BootDies(p)
  <2>1. NoBoot \in BootState /\ NoBoot.at = "off"
    BY NoBootTyped DEF NoBoot
  <2> QED BY <1>3, <1>13, <2>1 DEF Serve, BootDies
<1>14. CASE Stop(p)
  <2>1. boot' = boot /\ events' \in [Events -> Nat]
    BY <1>14 DEF Stop, Happens, Events
  <2> QED BY <2>1 DEF HasRow
<1> QED BY <1>4, <1>5, <1>6, <1>7, <1>10, <1>11, <1>12, <1>13, <1>14 DEF BootStep

\* The steps of the send path are steps of EmailWorker.
LEMMA SendPathIsNext == SendPath => [Next]_vars
BY DEF SendPath, Next

\* What the pass, the boots and the events do to the state of EmailWorker keeps
\* its types.
LEMMA RowsTyped ==
  ASSUME RecTypeInv, NEW p \in Processes,
         StartBoot(p) \/ BootStep(p) \/ BootDies(p) \/ Stop(p)
  PROVE  TypeInv'
<1> USE DEF RecTypeInv
<1>1. CASE \/ StartBoot(p) \/ FindStuck(p) \/ ReadPage(p) \/ SkipQueued(p) \/ Probe(p)
  <2>1. UNCHANGED vars
    BY <1>1 DEF StartBoot, FindStuck, ReadPage, SkipQueued, Probe
  <2> QED BY <2>1, TypeStep
<1>2. CASE Serve(p)
  <2>1. [Next]_vars
    BY <1>2 DEF Serve, Next
  <2> QED BY <2>1, TypeStep
<1> USE DEF TypeInv, TypeOK
<1>3. CASE Reclaim(p)
  <2>1. /\ status' \in [Emails -> Statuses]
        /\ lockedAt' \in [Emails -> {"null", "fresh", "stale"}]
    BY <1>3 DEF Reclaim, Statuses
  <2> QED BY <1>3, <2>1 DEF Reclaim, env, slotVars, history
<1>4. CASE RemoveOrphan(p)
  <2>1. queue' \in [JobIds -> Entry]
    BY <1>4, ConstantsTyped DEF RemoveOrphan
  <2> QED BY <1>4, <2>1 DEF RemoveOrphan, env, rowVars, slotVars, history
<1>5. CASE Requeue(p)
  <2>1. boot[p].todo # {}
    BY <1>5 DEF Requeue, Booting, PassTypes, HasRow
  <2>2. /\ <<Row(p).email, Row(p).child>> \in JobIds
        /\ Later(Row(p).scheduledAt, hour) \in Nat
    BY <2>1, RowInHand, ConstantsTyped DEF JobIds, Later
  <2>3. 0 \in 0..MaxDeferrals
    BY QueueConfig
  <2>4. queue' = AddEmailJob(queue, <<Row(p).email, Row(p).child>>, 0,
                             Later(Row(p).scheduledAt, hour))
    BY <1>5 DEF Requeue
  <2>5. queue' \in [JobIds -> Entry]
    BY <2>2, <2>3, <2>4, AddTyped
  <2> QED BY <1>5, <2>5 DEF Requeue, env, rowVars, slotVars, history
<1>6. CASE BootDies(p)
  <2>1. mishaps' \in [Mishaps -> Nat]
    BY <1>6 DEF BootDies, Suffer, Mishaps
  <2> QED BY <1>6, <2>1 DEF BootDies, rowVars, slotVars, history
<1>7. CASE Stop(p)
  <2>1. up' \in [Processes -> BOOLEAN]
    BY <1>7 DEF Stop
  <2> QED BY <1>7, <2>1 DEF Stop, rowVars, slotVars, history
<1> QED BY <1>1, <1>2, <1>3, <1>4, <1>5, <1>6, <1>7 DEF BootStep

LEMMA EventsTyped ==
  ASSUME RecTypeInv, (\E e \in Emails : LockGoesStale(e)) \/ LoseRedis
  PROVE  RecTypeInv'
<1> USE DEF RecTypeInv, PassTypes
<1>1. boot' = boot /\ events' \in [Events -> Nat]
  BY DEF LockGoesStale, LoseRedis, Happens, Events
<1>2. TypeInv'
  <2>1. CASE \E e \in Emails : LockGoesStale(e)
    BY <2>1 DEF LockGoesStale, TypeInv, TypeOK, env, slotVars, history
  <2>2. CASE LoseRedis
    <3>1. queue' \in [JobIds -> Entry] /\ used' \in Counters
      BY <2>2, ConstantsTyped DEF LoseRedis
    <3> QED BY <2>2, <3>1 DEF LoseRedis, TypeInv, TypeOK, env, rowVars, slotVars, history
  <2> QED BY <2>1, <2>2
<1> QED BY <1>1, <1>2 DEF HasRow

LEMMA RecTypeInit == RecInit => RecTypeInv
BY TypeInit, PassInit DEF RecInit, RecTypeInv

LEMMA RecTypeStep == RecTypeInv /\ [RecNext]_recVars => RecTypeInv'
<1> SUFFICES ASSUME RecTypeInv, [RecNext]_recVars PROVE RecTypeInv'
  OBVIOUS
<1>1. ASSUME [Next]_vars, UNCHANGED recoveryVars PROVE RecTypeInv'
  BY <1>1, TypeStep DEF RecTypeInv, PassTypes, HasRow, recoveryVars
<1>2. CASE SendPath /\ UNCHANGED recoveryVars
  BY <1>1, <1>2, SendPathIsNext
<1>3. CASE UNCHANGED recVars
  BY <1>1, <1>3 DEF recVars
<1>4. ASSUME NEW p \in Processes, StartBoot(p) \/ BootStep(p) \/ BootDies(p) \/ Stop(p)
      PROVE  RecTypeInv'
  BY <1>4, PassTyped, RowsTyped DEF RecTypeInv
<1>5. CASE (\E e \in Emails : LockGoesStale(e)) \/ LoseRedis
  BY <1>5, EventsTyped
<1> QED BY <1>2, <1>3, <1>4, <1>5 DEF RecNext

\* Every variable of the workers and of their passes keeps its type.
THEOREM RecoveryTypes == RecSpec => []RecTypeOK
<1>1. RecSpec => []RecTypeInv
  BY RecTypeInit, RecTypeStep, PTL DEF RecSpec
<1>2. RecTypeInv => RecTypeOK
  BY DEF RecTypeInv, TypeInv, PassTypes, RecTypeOK
<1> QED BY <1>1, <1>2, PTL

-------------------------------------------------------------------------------
(***************************************************************************)
(* What holds of the rows while workers send, processes boot and take back  *)
(* abandoned rows, and somebody cancels.  The invariant of EmailWorker does *)
(* not survive that: a row may be taken back, or cancelled while it is      *)
(* being sent and revived by the result.  It does survive where a lock that *)
(* looks abandoned is abandoned, which the pass relies on and does not      *)
(* check: one pass at a time, and no send that outlasts the threshold.      *)
(***************************************************************************)
Prudent == ~Overlap /\ EventBound["slowSend"] = 0

\* One pass at a time, and only a pass about to reclaim keeps a list.
OnePass ==
  /\ \A p, q \in Processes : ~NotBooting(p) /\ ~NotBooting(q) => p = q
  /\ \A p \in Processes : boot[p].stuck # {} => Booting(p, "reclaim")

\* Nobody sends a row whose lock has gone stale, nor one on a pass's list.
StaleIsUnsent == \A e \in Emails : lockedAt[e] = "stale" => ~SomeSlotSends(e)

ListedIsUnsent ==
  \A p \in Processes, e \in Emails :
    e \in boot[p].stuck => status[e] \in {"PROCESSING", "CANCELLED"} /\ ~SomeSlotSends(e)

HolderKeepsRow ==
  \A w \in Workers : HoldsClaim(w) => status[Email(w)] \in {"PROCESSING", "CANCELLED"}

\* What may have cost an email one more send.
Harm == mishaps["crash"] + mishaps["dbError"] + mishaps["lostAck"]

\* Every send is paid for by a mishap, save the one of a row that is SENT or
\* about to be.
SendsPaid ==
  \A e \in Emails :
    \/ accepted[e] <= Harm
    \/ /\ accepted[e] <= 1 + Harm
       /\ status[e] = "SENT" \/ \E w \in Workers : pc[w] = "sent" /\ Email(w) = e

\* A row is cancelled with its campaign, so one that comes back to life belongs
\* to a campaign that will not be completed.
CancelledTogether ==
  \A e \in Emails : status[e] = "CANCELLED" => campaign[campaignOf[e]] = "CANCELLED"

CountStands ==
  \A w \in Workers :
    pc[w] = "complete" =>
      \/ Remaining(campaignOf[Email(w)]) = {}
      \/ campaign[campaignOf[Email(w)]] = "CANCELLED"

RowsInv ==
  /\ ClaimExclusive /\ HolderKeepsRow /\ StaleIsUnsent /\ ListedIsUnsent
  /\ SendsPaid
  /\ CancelledTogether /\ CountStands /\ CompletedIsSettled

RecInv == OnePass /\ RowsInv

\* Most steps leave the rows alone, let no slot come to hold a claim or a passed
\* count, and interrupt a slot that has sent only at the price of a mishap.
SlotsCalm ==
  /\ UNCHANGED <<status, lockedAt, accepted, campaign>>
  /\ Harm' >= Harm
  /\ \A v \in Workers :
       \/ pc'[v] = pc[v] /\ cur'[v] = cur[v]
       \/ pc'[v] \in Harmless \cup {"admit", "claim"} /\ (pc[v] = "sent" => Harm' >= Harm + 1)

\* ... and put no row on a list.
ListsCalm == \A p \in Processes : boot'[p].stuck \in {{}, boot[p].stuck}

LEMMA HarmTyped ==
  ASSUME TypeInv
  PROVE  /\ Harm \in Nat
         /\ \A m \in Mishaps : mishaps[m] \in Nat
         /\ {"crash", "dbError", "lostAck"} \subseteq Mishaps
BY DEF TypeInv, TypeOK, Harm, Mishaps

LEMMA HarmTypedNext ==
  ASSUME TypeInv'
  PROVE  Harm' \in Nat /\ \A m \in Mishaps : mishaps'[m] \in Nat
BY DEF TypeInv, TypeOK, Harm, Mishaps

\* A mishap that happens is counted.
LEMMA SufferCounts ==
  ASSUME TypeInv, NEW m \in {"crash", "dbError", "lostAck"}, Suffer(m)
  PROVE  Harm' = Harm + 1
<1>1. mishaps \in [Mishaps -> Nat] /\ mishaps' = [mishaps EXCEPT ![m] = @ + 1]
  BY DEF TypeInv, TypeOK, Suffer
<1> QED BY <1>1 DEF Harm, Mishaps

LEMMA CalmSlotStep ==
  ASSUME TypeInv, NEW w \in Workers,
         \/ Load(w) \/ Admit(w) \/ Blocked(w) \/ AddChild(w) \/ SaveDeferral(w)
         \/ ClaimLost(w) \/ RunRefund(w) \/ FinishJob(w) \/ ThrowJob(w) \/ DbError(w)
  PROVE  SlotsCalm
<1>1. Harm \in Nat
  BY HarmTyped
<1>2. CASE DbError(w)
  <2>1. Harm' = Harm + 1
    BY <1>2, SufferCounts DEF DbError
  <2> QED BY <1>1, <1>2, <2>1
          DEF DbError, SlotsCalm, Harmless, Goto, TypeInv, TypeOK, rowVars, history
<1>3. CASE \/ Load(w) \/ Admit(w) \/ Blocked(w) \/ AddChild(w) \/ SaveDeferral(w)
           \/ ClaimLost(w) \/ RunRefund(w) \/ FinishJob(w) \/ ThrowJob(w)
  <2>1. Harm' = Harm
    BY <1>3 DEF Load, Admit, Blocked, AddChild, SaveDeferral, ClaimLost, RunRefund,
                FinishJob, ThrowJob, env, Harm
  <2>2. /\ UNCHANGED <<status, lockedAt, accepted, campaign>>
        /\ pc[w] # "sent" /\ pc'[w] \in Harmless \cup {"admit", "claim"}
        /\ \A v \in Workers : v # w => pc'[v] = pc[v] /\ cur'[v] = cur[v]
    BY <1>3 DEF Load, Admit, Blocked, AddChild, SaveDeferral, ClaimLost, RunRefund,
                FinishJob, ThrowJob, Release, Goto, At, Harmless, TypeInv, TypeOK,
                env, rowVars, history
  <2> QED BY <1>1, <2>1, <2>2 DEF SlotsCalm
<1> QED BY <1>2, <1>3

LEMMA CalmOutsideStep ==
  ASSUME TypeInv,
         \/ \E w \in Workers, id \in JobIds : TakeJob(w, id)
         \/ \E id \in JobIds : Stall(id) \/ LiveStall(id)
         \/ \E p \in Processes : Crash(p) \/ Restart(p)
         \/ Tick
         \/ UNCHANGED vars
  PROVE  SlotsCalm
<1>1. Harm \in Nat
  BY HarmTyped
<1>2. CASE \E w \in Workers, id \in JobIds : TakeJob(w, id)
  <2>1. PICK w \in Workers, id \in JobIds : TakeJob(w, id)
    BY <1>2
  <2>2. /\ UNCHANGED <<status, lockedAt, accepted, campaign, mishaps>>
        /\ pc[w] # "sent" /\ pc'[w] \in Harmless
        /\ \A v \in Workers : v # w => pc'[v] = pc[v] /\ cur'[v] = cur[v]
    BY <2>1 DEF TakeJob, Goto, At, Harmless, TypeInv, TypeOK, env, rowVars, history
  <2> QED BY <1>1, <2>2 DEF SlotsCalm, Harm
<1>3. CASE \E id \in JobIds : LiveStall(id)
  <2>1. /\ mishaps \in [Mishaps -> Nat]
        /\ mishaps' = [mishaps EXCEPT !["liveStall"] = @ + 1]
    BY <1>3 DEF LiveStall, Suffer, TypeInv, TypeOK
  <2>2. Harm' = Harm
    BY <2>1 DEF Harm, Mishaps
  <2> QED BY <1>1, <1>3, <2>2 DEF LiveStall, SlotsCalm, rowVars, slotVars, history
<1>4. CASE \E p \in Processes : Crash(p)
  <2>1. Harm' = Harm + 1
    BY <1>4, SufferCounts DEF Crash
  <2> QED BY <1>1, <1>4, <2>1 DEF Crash, SlotsCalm, Harmless, rowVars, history
<1>5. CASE \/ \E id \in JobIds : Stall(id)
           \/ \E p \in Processes : Restart(p)
           \/ Tick
           \/ UNCHANGED vars
  <2>1. UNCHANGED <<status, lockedAt, accepted, campaign, mishaps, pc, cur>>
    BY <1>5 DEF Stall, Restart, Tick, vars, env, rowVars, slotVars, history
  <2> QED BY <1>1, <2>1 DEF SlotsCalm, Harm
<1> QED BY <1>2, <1>3, <1>4, <1>5

\* Every step of the send path is calm, or changes one row for one slot.
LEMMA SendCases ==
  ASSUME TypeInv, [Next]_vars
  PROVE  \/ SlotsCalm
         \/ \E w \in Workers : \/ Claim(w) \/ Answer(w) \/ Write(w)
                               \/ CountRemaining(w) \/ CompleteCampaign(w)
BY CalmSlotStep, CalmOutsideStep DEF Next, Step, Answer, Write

\* A step that gives nobody a claim and changes no row keeps what is said of
\* claims.
LEMMA CalmKeepsRows ==
  ASSUME TypeInv, TypeInv', RowsInv, SlotsCalm, ListsCalm
  PROVE  RowsInv'
<1> USE DEF RowsInv
<1>1. ASSUME NEW v \in Workers, HoldsClaim(v)'
      PROVE  HoldsClaim(v) /\ pc'[v] = pc[v] /\ Email(v)' = Email(v)
  BY <1>1 DEF SlotsCalm, HoldsClaim, Harmless, Email
<1>2. ASSUME NEW v \in Workers, pc'[v] = "complete"
      PROVE  pc[v] = "complete" /\ Email(v)' = Email(v)
  BY <1>2 DEF SlotsCalm, Harmless, Email
<1>3. ASSUME NEW e, SomeSlotSends(e)' PROVE SomeSlotSends(e)
  BY <1>1, <1>3 DEF SomeSlotSends
<1>4. UNCHANGED <<status, lockedAt, accepted, campaign>>
  BY DEF SlotsCalm
<1>5. ClaimExclusive' /\ HolderKeepsRow'
  BY <1>1, <1>4 DEF ClaimExclusive, HolderKeepsRow
<1>6. StaleIsUnsent' /\ ListedIsUnsent'
  BY <1>3, <1>4 DEF StaleIsUnsent, ListedIsUnsent, ListsCalm
<1>7. SendsPaid'
  <2> SUFFICES ASSUME NEW e \in Emails
               PROVE  \/ accepted[e] <= Harm'
                      \/ /\ accepted[e] <= 1 + Harm'
                         /\ \/ status[e] = "SENT"
                            \/ \E w \in Workers : pc'[w] = "sent" /\ Email(w)' = e
    BY <1>4 DEF SendsPaid
  <2>1. Harm \in Nat /\ Harm' \in Nat /\ Harm' >= Harm /\ accepted[e] \in Nat
    BY HarmTyped, HarmTypedNext DEF SlotsCalm, TypeInv, TypeOK
  <2>2. CASE accepted[e] <= Harm \/ status[e] = "SENT"
    BY <2>1, <2>2 DEF SendsPaid
  <2>3. CASE \E w \in Workers : pc[w] = "sent" /\ Email(w) = e
    <3>1. PICK w \in Workers : pc[w] = "sent" /\ Email(w) = e
      BY <2>3
    <3>2. accepted[e] <= 1 + Harm
      BY <2>1 DEF SendsPaid
    <3>3. \/ pc'[w] = "sent" /\ Email(w)' = e
          \/ Harm' >= Harm + 1
      BY <3>1 DEF SlotsCalm, Email
    <3> QED BY <2>1, <3>2, <3>3
  <2> QED BY <2>2, <2>3 DEF SendsPaid
<1>8. CancelledTogether' /\ CompletedIsSettled' /\ CountStands'
  BY <1>2, <1>4 DEF CancelledTogether, CompletedIsSettled, CountStands, Remaining
<1> QED BY <1>5, <1>6, <1>7, <1>8

LEMMA ClaimKeepsRows ==
  ASSUME TypeInv, TypeInv', RowsInv, NEW w \in Workers, Claim(w), ListsCalm
  PROVE  RowsInv'
<1> DEFINE e == Email(w)
<1> USE DEF RowsInv
<1>1. e \in Emails
  BY EmailTyped DEF TypeInv
<1>2. OnlySlot(w) /\ pc[w] = "claim" /\ pc'[w] = "send"
  BY DEF Claim, At, Goto, OnlySlot, TypeInv, TypeOK
<1>3. /\ status[e] \in Claimable /\ status'[e] = "PROCESSING" /\ lockedAt'[e] = "fresh"
      /\ \A f \in Emails : f # e => status'[f] = status[f] /\ lockedAt'[f] = lockedAt[f]
  BY <1>1 DEF Claim, TypeInv, TypeOK
<1>4. UNCHANGED <<accepted, campaign, mishaps>>
  BY DEF Claim, history, env
<1>5. \A v \in Workers :
        Email(v)' = Email(v) /\ (HoldsClaim(v)' <=> v = w \/ HoldsClaim(v))
  BY <1>2 DEF OnlySlot, Email, HoldsClaim
<1>6. \A v \in Workers : HoldsClaim(v) => Email(v) # e
  BY <1>3 DEF HolderKeepsRow, Claimable
<1>7. \A v \in Workers : Email(v) \in Emails
  BY EmailTyped DEF TypeInv
<1> HIDE DEF e
<1>8. ASSUME NEW f \in Emails, f # e PROVE SomeSlotSends(f)' => SomeSlotSends(f)
  <2>1. Email(w) = e
    BY DEF e
  <2> QED BY <1>5, <1>8, <2>1 DEF SomeSlotSends
<1>9. ClaimExclusive'
  <2>1. Email(w) = e
    BY DEF e
  <2> QED BY <1>5, <1>6, <2>1 DEF ClaimExclusive
<1>10. HolderKeepsRow'
  <2>1. Email(w) = e
    BY DEF e
  <2> QED BY <1>3, <1>5, <1>6, <1>7, <2>1 DEF HolderKeepsRow
<1>11. StaleIsUnsent'
  BY <1>3, <1>8 DEF StaleIsUnsent
<1>12. ListedIsUnsent'
  <2> SUFFICES ASSUME NEW p \in Processes, NEW f \in Emails, f \in boot'[p].stuck
               PROVE  status'[f] \in {"PROCESSING", "CANCELLED"} /\ ~SomeSlotSends(f)'
    BY DEF ListedIsUnsent
  <2>1. f \in boot[p].stuck
    BY DEF ListsCalm
  <2>2. status[f] \in {"PROCESSING", "CANCELLED"} /\ ~SomeSlotSends(f)
    BY <2>1 DEF ListedIsUnsent
  <2>3. f # e
    BY <1>3, <2>2 DEF Claimable
  <2> QED BY <1>3, <1>8, <2>2, <2>3
<1>13. SendsPaid'
  <2>1. Harm' = Harm
    BY <1>4 DEF Harm
  <2>2. \A v \in Workers : pc[v] = "sent" => pc'[v] = "sent" /\ Email(v) # e
    BY <1>2, <1>6 DEF OnlySlot, HoldsClaim
  <2>3. accepted[e] <= Harm
    BY <1>1, <1>3, <2>2 DEF SendsPaid, Claimable
  <2> QED BY <1>3, <1>4, <1>5, <2>1, <2>2, <2>3 DEF SendsPaid
<1>14. CancelledTogether'
  BY <1>3, <1>4 DEF CancelledTogether
<1>15. CompletedIsSettled' /\ CountStands'
  <2>1. \A f \in Emails : status'[f] \in NonTerminal => status[f] \in NonTerminal
    BY <1>3 DEF Claimable, NonTerminal
  <2>2. \A c : Remaining(c) = {} => Remaining(c)' = {}
    BY <2>1, FewerRemaining
  <2>3. \A v \in Workers : pc'[v] = "complete" => pc[v] = "complete"
    BY <1>2 DEF OnlySlot
  <2> QED BY <1>4, <1>5, <2>2, <2>3 DEF CompletedIsSettled, CountStands
<1> QED BY <1>9, <1>10, <1>11, <1>12, <1>13, <1>14, <1>15

LEMMA AnswerKeepsRows ==
  ASSUME TypeInv, TypeInv', RowsInv, NEW w \in Workers, Answer(w), ListsCalm
  PROVE  RowsInv'
<1> DEFINE e == Email(w)
<1> USE DEF RowsInv
<1>1. /\ OnlySlot(w) /\ pc[w] = "send" /\ pc'[w] \in {"sent", "retry", "fail"}
      /\ UNCHANGED <<status, campaign>>
      /\ \A f \in Emails : f # e => accepted'[f] = accepted[f]
      /\ pc'[w] = "sent" => accepted'[e] = accepted[e] + 1
      /\ pc'[w] # "sent" =>
           accepted'[e] - mishaps'["lostAck"] = accepted[e] - mishaps["lostAck"]
      /\ mishaps'["lostAck"] >= mishaps["lostAck"]
  BY AnswerEffect
<1>2. lockedAt' = lockedAt
  BY DEF Answer, SendAccepted, SendTransient, SendAckLost, SendRefused, rowVars
<1>3. mishaps'["crash"] = mishaps["crash"] /\ mishaps'["dbError"] = mishaps["dbError"]
  BY DEF Answer, SendAccepted, SendTransient, SendAckLost, SendRefused, env, Suffer,
         TypeInv, TypeOK, Mishaps
<1>4. e \in Emails /\ \A f \in Emails : accepted[f] \in Nat /\ accepted'[f] \in Nat
  BY EmailTyped DEF TypeInv, TypeOK
<1>5. \A v \in Workers : Email(v)' = Email(v) /\ (HoldsClaim(v)' <=> HoldsClaim(v))
  BY <1>1 DEF OnlySlot, Email, HoldsClaim
<1>6. \A f : SomeSlotSends(f)' <=> SomeSlotSends(f)
  BY <1>5 DEF SomeSlotSends
<1>7. ClaimExclusive' /\ HolderKeepsRow' /\ StaleIsUnsent'
  BY <1>1, <1>2, <1>5, <1>6 DEF ClaimExclusive, HolderKeepsRow, StaleIsUnsent
<1>8. ListedIsUnsent'
  BY <1>1, <1>6 DEF ListedIsUnsent, ListsCalm
<1>9. SendsPaid'
  <2>1. /\ Harm \in Nat /\ Harm' \in Nat /\ Harm' >= Harm
        /\ Harm' - mishaps'["lostAck"] = Harm - mishaps["lostAck"]
        /\ mishaps["lostAck"] \in Nat /\ mishaps'["lostAck"] \in Nat
    <3>1. \A m \in {"crash", "dbError", "lostAck"} : mishaps[m] \in Nat /\ mishaps'[m] \in Nat
      BY HarmTyped, HarmTypedNext
    <3> QED BY <1>1, <1>3, <3>1 DEF Harm
  <2>2. HoldsClaim(w) /\ status[e] # "SENT"
    BY <1>1 DEF HoldsClaim, HolderKeepsRow
  <2>3. \A v \in Workers : pc[v] = "sent" => v # w /\ Email(v) # e /\ pc'[v] = "sent"
    BY <1>1, <2>2 DEF HoldsClaim, ClaimExclusive, OnlySlot
  <2>4. accepted[e] <= Harm
    BY <1>4, <2>2, <2>3 DEF SendsPaid
  <2>5. Email(w)' = e
    BY <1>5
  <2> HIDE DEF e
  <2>6. CASE pc'[w] = "sent"
    <3>1. accepted'[e] <= 1 + Harm'
      BY <1>1, <1>4, <2>1, <2>4, <2>6
    <3>2. \A f \in Emails : f # e => \/ accepted'[f] <= Harm'
                                     \/ /\ accepted'[f] <= 1 + Harm'
                                        /\ \/ status'[f] = "SENT"
                                           \/ \E v \in Workers : pc'[v] = "sent" /\ Email(v)' = f
      BY <1>1, <1>4, <1>5, <2>1, <2>3 DEF SendsPaid
    <3> QED BY <2>5, <2>6, <3>1, <3>2 DEF SendsPaid
  <2>7. CASE pc'[w] # "sent"
    <3>1. accepted'[e] <= Harm'
      BY <1>1, <1>4, <2>1, <2>4, <2>7
    <3>2. \A f \in Emails : f # e => \/ accepted'[f] <= Harm'
                                     \/ /\ accepted'[f] <= 1 + Harm'
                                        /\ \/ status'[f] = "SENT"
                                           \/ \E v \in Workers : pc'[v] = "sent" /\ Email(v)' = f
      BY <1>1, <1>4, <1>5, <2>1, <2>3 DEF SendsPaid
    <3> QED BY <3>1, <3>2 DEF SendsPaid
  <2> QED BY <2>6, <2>7
<1>10. CancelledTogether' /\ CompletedIsSettled' /\ CountStands'
  <2>1. \A v \in Workers : pc'[v] = "complete" => pc[v] = "complete"
    BY <1>1 DEF OnlySlot
  <2> QED BY <1>1, <1>5, <2>1
          DEF CancelledTogether, CompletedIsSettled, CountStands, Remaining
<1> QED BY <1>7, <1>8, <1>9, <1>10

\* A result may revive a cancelled row; its campaign stays cancelled.
LEMMA WriteKeepsRows ==
  ASSUME TypeInv, TypeInv', RowsInv, NEW w \in Workers, Write(w), ListsCalm
  PROVE  RowsInv'
<1> DEFINE e == Email(w)
<1> USE DEF RowsInv
<1>1. /\ OnlySlot(w) /\ HoldsClaim(w) /\ pc'[w] \in {"count", "throw"}
      /\ UNCHANGED <<accepted, campaign, mishaps>>
      /\ \A f \in Emails : f # e => status'[f] = status[f]
      /\ \/ pc[w] = "sent" /\ status'[e] = "SENT"
         \/ pc[w] = "retry" /\ status'[e] = "SCHEDULED"
         \/ pc[w] = "fail" /\ status'[e] = "FAILED"
  BY WriteEffect
<1>2. lockedAt' = lockedAt
  BY DEF Write, WriteSent, WriteRetry, WriteFailed, WriteResult
<1>3. e \in Emails /\ \A v \in Workers : Email(v) \in Emails
  BY EmailTyped DEF TypeInv
<1>4. status[e] \in {"PROCESSING", "CANCELLED"}
  BY <1>1 DEF HolderKeepsRow
<1>5. \A v \in Workers :
        /\ Email(v)' = Email(v)
        /\ HoldsClaim(v)' => HoldsClaim(v) /\ Email(v) # e
        /\ pc'[v] = "complete" => pc[v] = "complete"
        /\ v # w => pc'[v] = pc[v]
  BY <1>1 DEF OnlySlot, Email, HoldsClaim, ClaimExclusive
<1>6. SomeSlotSends(e)
  BY <1>1 DEF SomeSlotSends
<1>7. Email(w) = e
  OBVIOUS
<1> HIDE DEF e
<1>8. \A f : SomeSlotSends(f)' => SomeSlotSends(f)
  BY <1>5 DEF SomeSlotSends
<1>9. ClaimExclusive' /\ HolderKeepsRow'
  BY <1>1, <1>3, <1>5 DEF ClaimExclusive, HolderKeepsRow
<1>10. StaleIsUnsent' /\ ListedIsUnsent'
  <2>1. StaleIsUnsent'
    BY <1>2, <1>8 DEF StaleIsUnsent
  <2>2. \A p \in Processes : e \notin boot[p].stuck
    BY <1>3, <1>6 DEF ListedIsUnsent
  <2>3. ListedIsUnsent'
    BY <1>1, <1>8, <2>2 DEF ListedIsUnsent, ListsCalm
  <2> QED BY <2>1, <2>3
<1>11. SendsPaid'
  <2>1. Harm' = Harm
    BY <1>1 DEF Harm
  <2>2. ASSUME NEW f \in Emails, f # e
        PROVE  \/ accepted'[f] <= Harm'
               \/ /\ accepted'[f] <= 1 + Harm'
                  /\ \/ status'[f] = "SENT"
                     \/ \E v \in Workers : pc'[v] = "sent" /\ Email(v)' = f
    BY <1>1, <1>5, <1>7, <2>1, <2>2 DEF SendsPaid
  <2>3. CASE pc[w] = "sent"
    <3>1. accepted'[e] <= Harm' \/ accepted'[e] <= 1 + Harm'
      BY <1>1, <1>3, <2>1 DEF SendsPaid
    <3> QED BY <1>1, <2>2, <2>3, <3>1 DEF SendsPaid
  <2>4. CASE pc[w] # "sent"
    <3>1. \A v \in Workers : pc[v] = "sent" => Email(v) # e
      BY <1>1, <1>7, <2>4 DEF HoldsClaim, ClaimExclusive
    <3>2. accepted[e] <= Harm
      BY <1>3, <1>4, <3>1 DEF SendsPaid
    <3> QED BY <1>1, <2>1, <2>2, <3>2 DEF SendsPaid
  <2> QED BY <2>3, <2>4
<1>12. CancelledTogether'
  BY <1>1 DEF CancelledTogether
<1>13. \A c : c # campaignOf[e] /\ Remaining(c) = {} => Remaining(c)' = {}
  BY <1>1 DEF Remaining
<1>14. Remaining(campaignOf[e]) = {} => campaign[campaignOf[e]] = "CANCELLED"
  BY <1>3, <1>4 DEF Remaining, NonTerminal, CancelledTogether
<1>15. CompletedIsSettled' /\ CountStands'
  BY <1>1, <1>5, <1>13, <1>14 DEF CompletedIsSettled, CountStands
<1> QED BY <1>9, <1>10, <1>11, <1>12, <1>15

LEMMA CompletionKeepsRows ==
  ASSUME TypeInv, TypeInv', RowsInv, NEW w \in Workers,
         CountRemaining(w) \/ CompleteCampaign(w), ListsCalm
  PROVE  RowsInv'
<1> USE DEF RowsInv
<1>1. /\ OnlySlot(w) /\ pc[w] \in {"count", "complete"} /\ pc'[w] \in {"done", "complete"}
      /\ UNCHANGED <<status, lockedAt, accepted, mishaps>>
  BY DEF CountRemaining, CompleteCampaign, OnlySlot, Goto, At, TypeInv, TypeOK, env,
         rowVars, history
<1>2. \A v \in Workers :
        /\ Email(v)' = Email(v)
        /\ HoldsClaim(v)' <=> HoldsClaim(v)
        /\ v # w => pc'[v] = pc[v]
        /\ pc'[v] = "sent" <=> pc[v] = "sent"
  BY <1>1 DEF OnlySlot, Email, HoldsClaim
<1>3. \A f : SomeSlotSends(f)' <=> SomeSlotSends(f)
  BY <1>2 DEF SomeSlotSends
<1>4. Harm' = Harm
  BY <1>1 DEF Harm
<1>5. \A c : Remaining(c)' = Remaining(c)
  BY <1>1 DEF Remaining
<1>6. ClaimExclusive' /\ HolderKeepsRow' /\ StaleIsUnsent' /\ ListedIsUnsent'
  BY <1>1, <1>2, <1>3
     DEF ClaimExclusive, HolderKeepsRow, StaleIsUnsent, ListedIsUnsent, ListsCalm
<1>7. SendsPaid'
  BY <1>1, <1>2, <1>4 DEF SendsPaid
<1>8. CASE CountRemaining(w)
  <2>1. campaign' = campaign
    BY <1>8 DEF CountRemaining
  <2>2. pc'[w] = "complete" => Remaining(campaignOf[Email(w)]) = {}
    BY <1>8 DEF CountRemaining, Goto, TypeInv, TypeOK
  <2>3. CountStands'
    BY <1>2, <1>5, <2>1, <2>2 DEF CountStands
  <2>4. CompletedIsSettled' /\ CancelledTogether'
    BY <1>1, <1>5, <2>1 DEF CompletedIsSettled, CancelledTogether
  <2> QED BY <1>6, <1>7, <2>3, <2>4
<1>9. CASE CompleteCampaign(w)
  <2>1. PICK c \in Campaigns : c = campaignOf[Email(w)]
    BY EmailTyped, WorkerConfig DEF TypeInv
  <2>2. /\ \A d \in Campaigns : d # c => campaign'[d] = campaign[d]
        /\ campaign[c] # "SCHEDULED" => campaign'[c] = campaign[c]
        /\ campaign[c] = "SCHEDULED" => campaign'[c] = "COMPLETED"
    BY <1>9, <2>1 DEF CompleteCampaign, TypeInv, TypeOK
  <2>3. pc[w] = "complete" /\ pc'[w] = "done"
    BY <1>9 DEF CompleteCampaign, Goto, At, TypeInv, TypeOK
  <2>4. Remaining(c) = {} \/ campaign[c] = "CANCELLED"
    BY <2>1, <2>3 DEF CountStands
  <2>5. CompletedIsSettled'
    BY <1>5, <2>2, <2>4 DEF CompletedIsSettled
  <2>6. \A d \in Campaigns : campaign[d] = "CANCELLED" => campaign'[d] = "CANCELLED"
    BY <2>2
  <2>7. \A f \in Emails : campaignOf[f] \in Campaigns
    BY WorkerConfig
  <2>8. CancelledTogether'
    BY <1>1, <2>6, <2>7 DEF CancelledTogether
  <2>9. \A v \in Workers : campaignOf[Email(v)] \in Campaigns
    BY EmailTyped, <2>7 DEF TypeInv
  <2>10. CountStands'
    BY <1>2, <1>5, <2>3, <2>6, <2>9 DEF CountStands
  <2> QED BY <1>6, <1>7, <2>5, <2>8, <2>10
<1> QED BY <1>8, <1>9

\* A lock goes stale only after its slot is gone.
LEMMA StalingKeepsRows ==
  ASSUME RecTypeInv, RowsInv, Prudent, NEW e \in Emails, LockGoesStale(e)
  PROVE  RowsInv'
<1> USE DEF RowsInv
<1>1. UNCHANGED <<status, accepted, campaign, mishaps, pc, cur, boot>>
  BY DEF LockGoesStale, env, slotVars, history
<1>2. ~SomeSlotSends(e)
  <2> SUFFICES ASSUME SomeSlotSends(e) PROVE FALSE
    OBVIOUS
  <2>1. events["slowSend"] < EventBound["slowSend"]
    BY DEF LockGoesStale, Happens
  <2>2. events["slowSend"] \in Nat
    BY DEF RecTypeInv, PassTypes, Events
  <2> QED BY <2>1, <2>2 DEF Prudent
<1>3. \A f \in Emails : f # e => lockedAt'[f] = lockedAt[f]
  BY DEF LockGoesStale, RecTypeInv, TypeInv, TypeOK
<1>4. StaleIsUnsent'
  BY <1>1, <1>2, <1>3 DEF StaleIsUnsent, SomeSlotSends, HoldsClaim, Email
<1>5. /\ ClaimExclusive' /\ HolderKeepsRow' /\ ListedIsUnsent' /\ SendsPaid'
      /\ CancelledTogether' /\ CountStands' /\ CompletedIsSettled'
  BY <1>1 DEF ClaimExclusive, HolderKeepsRow, ListedIsUnsent, SendsPaid,
         CancelledTogether, CountStands, CompletedIsSettled, SomeSlotSends, HoldsClaim,
         Email, Harm, Remaining
<1> QED BY <1>4, <1>5

\* The list of a pass is the rows whose lock is stale: nobody sends them.
LEMMA FindingKeepsRows ==
  ASSUME RecTypeInv, RowsInv, NEW p \in Processes, FindStuck(p)
  PROVE  RowsInv'
<1> USE DEF RowsInv
<1>1. UNCHANGED vars
  BY DEF FindStuck
<1>2. /\ \A q \in Processes : q # p => boot'[q] = boot[q]
      /\ boot'[p].stuck = {e \in Emails : status[e] = "PROCESSING" /\ lockedAt[e] = "stale"}
  BY DEF FindStuck, RecTypeInv, PassTypes, BootState
<1>3. ListedIsUnsent'
  BY <1>1, <1>2 DEF ListedIsUnsent, StaleIsUnsent, SomeSlotSends, HoldsClaim, Email,
         vars, rowVars, slotVars
<1>4. /\ ClaimExclusive' /\ HolderKeepsRow' /\ StaleIsUnsent' /\ SendsPaid'
      /\ CancelledTogether' /\ CountStands' /\ CompletedIsSettled'
  BY <1>1 DEF ClaimExclusive, HolderKeepsRow, StaleIsUnsent, SendsPaid,
         CancelledTogether, CountStands, CompletedIsSettled, SomeSlotSends, HoldsClaim,
         Email, Harm, Remaining, vars, env, rowVars, slotVars, history
<1> QED BY <1>3, <1>4

\* The pass takes back rows that nobody sends.
LEMMA ReclaimKeepsRows ==
  ASSUME RecTypeInv, RowsInv, OnePass, NEW p \in Processes, Reclaim(p)
  PROVE  RowsInv'
<1> USE DEF RowsInv
<1>1. UNCHANGED <<accepted, campaign, mishaps, pc, cur>>
  BY DEF Reclaim, env, slotVars, history
<1>2. PICK stuck \in SUBSET Emails : stuck = boot[p].stuck
  BY DEF RecTypeInv, PassTypes, BootState
<1>3. \A e \in Emails :
        /\ e \in stuck => status'[e] = "SCHEDULED" /\ lockedAt'[e] = "null"
        /\ e \notin stuck => status'[e] = status[e] /\ lockedAt'[e] = lockedAt[e]
  BY <1>2 DEF Reclaim
<1>4. \A e \in stuck : status[e] \in {"PROCESSING", "CANCELLED"} /\ ~SomeSlotSends(e)
  BY <1>2 DEF ListedIsUnsent
<1>5. /\ \A v \in Workers : Email(v)' = Email(v) /\ (HoldsClaim(v)' <=> HoldsClaim(v))
      /\ \A f : SomeSlotSends(f)' <=> SomeSlotSends(f)
  BY <1>1 DEF Email, HoldsClaim, SomeSlotSends
<1>6. \A v \in Workers : HoldsClaim(v) => Email(v) \in Emails /\ Email(v) \notin stuck
  BY <1>4, EmailTyped DEF RecTypeInv, TypeInv, SomeSlotSends
<1>7. ClaimExclusive' /\ HolderKeepsRow'
  BY <1>3, <1>5, <1>6 DEF ClaimExclusive, HolderKeepsRow
<1>8. StaleIsUnsent'
  BY <1>3, <1>5 DEF StaleIsUnsent
<1>9. ListedIsUnsent'
  <2>1. \A q \in Processes : q # p => boot[q].stuck = {}
    BY DEF OnePass, NotBooting, Booting, Reclaim
  <2>2. \A q \in Processes : boot'[q].stuck = {}
    BY <2>1 DEF Reclaim, RecTypeInv, PassTypes, BootState
  <2> QED BY <2>2 DEF ListedIsUnsent
<1>10. SendsPaid'
  <2>1. Harm' = Harm
    BY <1>1 DEF Harm
  <2>2. ASSUME NEW e \in stuck PROVE accepted[e] <= Harm
    <3>1. \A v \in Workers : pc[v] = "sent" => Email(v) # e
      BY <1>4 DEF SomeSlotSends, HoldsClaim
    <3> QED BY <1>4, <3>1 DEF SendsPaid
  <2>3. \A v \in Workers : pc'[v] = pc[v]
    BY <1>1
  <2> QED BY <1>1, <1>3, <1>5, <2>1, <2>2, <2>3 DEF SendsPaid
<1>11. CancelledTogether'
  BY <1>1, <1>3 DEF CancelledTogether
<1>12. \A e \in stuck : Remaining(campaignOf[e]) = {} => campaign[campaignOf[e]] = "CANCELLED"
  BY <1>4 DEF Remaining, NonTerminal, CancelledTogether
<1>13. \A c : Remaining(c) = {} /\ campaign[c] # "CANCELLED" => Remaining(c)' = {}
  BY <1>3, <1>12 DEF Remaining
<1>14. CompletedIsSettled' /\ CountStands'
  BY <1>1, <1>5, <1>13 DEF CompletedIsSettled, CountStands
<1> QED BY <1>7, <1>8, <1>9, <1>10, <1>11, <1>14

\* The other steps of a pass and of its process concern its own locals only.
LEMMA OtherPassSteps ==
  ASSUME RecTypeInv, NEW p \in Processes,
         \/ StartBoot(p) \/ ReadPage(p) \/ SkipQueued(p) \/ Probe(p) \/ RemoveOrphan(p)
         \/ Requeue(p) \/ Serve(p) \/ BootDies(p) \/ Stop(p)
  PROVE  /\ SlotsCalm
         /\ \A q \in Processes : q # p => boot'[q] = boot[q]
         /\ boot'[p].stuck \in {{}, boot[p].stuck}
         /\ boot'[p].at = "reclaim" => boot[p].at = "reclaim"
         /\ boot'[p].stuck # {} => boot'[p].at = boot[p].at \/ boot[p].at # "reclaim"
         /\ boot'[p].at # "off" => boot[p].at # "off" \/ StartBoot(p)
<1> USE DEF RecTypeInv, PassTypes
<1>1. boot[p] \in BootState /\ Harm \in Nat
  BY HarmTyped
<1>2. NoBoot.at = "off" /\ NoBoot.stuck = {}
  BY NoBootTyped
<1>3. ASSUME UNCHANGED <<status, lockedAt, accepted, campaign, pc, cur>>, Harm' >= Harm
      PROVE  SlotsCalm
  BY <1>3 DEF SlotsCalm
<1>4. ASSUME UNCHANGED mishaps PROVE Harm' >= Harm
  BY <1>1, <1>4 DEF Harm
<1>5. ASSUME RowDone(p) \/ NextCandidate(p), boot[p].at # "off", boot[p].at # "reclaim"
      PROVE  /\ \A q \in Processes : q # p => boot'[q] = boot[q]
             /\ boot'[p].stuck = boot[p].stuck
             /\ boot'[p].at # "reclaim"
  <2>1. CASE RowDone(p)
    <3>1. PICK l : l = AfterRow(boot[p].todo \ {Row(p)}, boot[p].more)
      OBVIOUS
    <3>2. l # "reclaim"
      BY <3>1 DEF AfterRow
    <3>3. boot' = [boot EXCEPT ![p].at = l, ![p].todo = boot[p].todo \ {Row(p)}, ![p].n = 0]
      BY <2>1, <3>1 DEF RowDone
    <3> QED BY <1>1, <3>2, <3>3 DEF BootState
  <2>2. CASE NextCandidate(p)
    BY <1>1, <2>2 DEF NextCandidate, BootState
  <2> QED BY <1>5, <2>1, <2>2
<1>6. CASE StartBoot(p)
  <2>1. UNCHANGED vars /\ boot[p].at = "off"
    BY <1>6 DEF StartBoot, NotBooting, Booting
  <2>2. PICK b : b = [NoBoot EXCEPT !.at = "find", !.since = events["redisLoss"]]
    OBVIOUS
  <2>3. b.at = "find" /\ b.stuck = {}
    BY <2>2 DEF NoBoot
  <2>4. boot' = [boot EXCEPT ![p] = b]
    BY <1>6, <2>2 DEF StartBoot
  <2>5. SlotsCalm
    BY <1>3, <1>4, <2>1 DEF vars, env, rowVars, slotVars, history
  <2> QED BY <1>6, <2>3, <2>4, <2>5
<1>7. CASE ReadPage(p)
  <2>1. UNCHANGED vars /\ boot[p].at = "page"
    BY <1>7 DEF ReadPage, Booting
  <2>2. PICK b : b = boot'[p]
    OBVIOUS
  <2>3. /\ \A q \in Processes : q # p => boot'[q] = boot[q]
        /\ b.stuck = boot[p].stuck /\ b.at # "reclaim"
    <3>1. PICK page : page = PageOf(RowsFrom(boot[p].cursor))
      OBVIOUS
    <3>2. CASE page = {}
      BY <1>1, <1>7, <2>2, <3>1, <3>2 DEF ReadPage, BootState
    <3>3. CASE page # {}
      <4>1. PICK todo : todo = {[email |-> e, child |-> child[e], scheduledAt |-> scheduledAt[e]] :
                                  e \in {f \in page : campaign[campaignOf[f]] # "CANCELLED"}}
        OBVIOUS
      <4>2. PICK full, l : full = (Cardinality(page) = PageSize) /\ l = AfterRow(todo, full)
        OBVIOUS
      <4>3. PICK cursor : cursor = position[CHOOSE e \in page :
                                     \A f \in page : position[f] <= position[e]]
        OBVIOUS
      <4>4. boot' = [boot EXCEPT ![p] = [@ EXCEPT !.at = l, !.todo = todo, !.n = 0,
                                                  !.more = full, !.cursor = cursor]]
        BY <1>7, <3>1, <3>3, <4>1, <4>2, <4>3 DEF ReadPage
      <4>5. l # "reclaim"
        BY <4>2 DEF AfterRow
      <4> QED BY <1>1, <2>2, <4>4, <4>5 DEF BootState
    <3> QED BY <3>2, <3>3
  <2>4. SlotsCalm
    BY <1>3, <1>4, <2>1 DEF vars, env, rowVars, slotVars, history
  <2> QED BY <2>1, <2>2, <2>3, <2>4
<1>8. CASE SkipQueued(p) \/ RemoveOrphan(p) \/ Requeue(p)
  <2>1. /\ UNCHANGED <<mishaps, status, lockedAt, accepted, campaign, pc, cur>>
        /\ boot[p].at \in {"probe", "remove", "add"}
        /\ RowDone(p) \/ NextCandidate(p)
    BY <1>8 DEF SkipQueued, RemoveOrphan, Requeue, Booting, vars, env, rowVars, slotVars,
                history
  <2> QED BY <1>3, <1>4, <1>5, <2>1
<1>9. CASE Probe(p)
  <2>1. /\ UNCHANGED vars /\ boot[p].at = "probe"
        /\ NextCandidate(p) \/ boot' = [boot EXCEPT ![p].at = "remove"]
    BY <1>9 DEF Probe, Booting
  <2>2. SlotsCalm
    BY <1>3, <1>4, <2>1 DEF vars, env, rowVars, slotVars, history
  <2>3. CASE NextCandidate(p)
    BY <1>5, <2>1, <2>2, <2>3
  <2>4. CASE boot' = [boot EXCEPT ![p].at = "remove"]
    BY <1>1, <2>1, <2>2, <2>4 DEF BootState
  <2> QED BY <2>1, <2>3, <2>4
<1>10. CASE Serve(p)
  <2>1. UNCHANGED <<mishaps, status, lockedAt, accepted, campaign, pc, cur>>
    BY <1>10 DEF Serve, Restart, rowVars, slotVars, history
  <2>2. boot' = [boot EXCEPT ![p] = NoBoot]
    BY <1>10 DEF Serve
  <2> QED BY <1>2, <1>3, <1>4, <2>1, <2>2
<1>11. CASE BootDies(p)
  <2>1. Harm' = Harm + 1
    BY <1>11, SufferCounts DEF BootDies
  <2>2. UNCHANGED <<status, lockedAt, accepted, campaign, pc, cur>>
    BY <1>11 DEF BootDies, rowVars, slotVars, history
  <2>3. boot' = [boot EXCEPT ![p] = NoBoot]
    BY <1>11 DEF BootDies
  <2> QED BY <1>1, <1>2, <1>3, <2>1, <2>2, <2>3
<1>12. CASE Stop(p)
  <2>1. UNCHANGED <<mishaps, status, lockedAt, accepted, campaign, pc, cur, boot>>
    BY <1>12 DEF Stop, rowVars, slotVars, history
  <2> QED BY <1>3, <1>4, <2>1
<1> QED BY <1>6, <1>7, <1>8, <1>9, <1>10, <1>11, <1>12

LEMMA OnePassKept ==
  ASSUME RecTypeInv, OnePass, Prudent, [RecNext]_recVars
  PROVE  OnePass'
<1> USE DEF OnePass, NotBooting, Booting
<1>1. ASSUME boot' = boot PROVE OnePass'
  BY <1>1
<1>2. CASE \/ SendPath /\ UNCHANGED recoveryVars
           \/ \E e \in Emails : LockGoesStale(e)
           \/ LoseRedis
           \/ UNCHANGED recVars
  BY <1>1, <1>2 DEF LockGoesStale, LoseRedis, recoveryVars, recVars
<1>3. ASSUME NEW p \in Processes,
             \A q \in Processes : q # p => boot'[q] = boot[q],
             boot'[p].at # "off" => boot[p].at # "off" \/ \A q \in Processes : boot[q].at = "off",
             boot'[p].stuck # {} => boot'[p].at = "reclaim"
      PROVE  OnePass'
  BY <1>3
<1>4. ASSUME NEW p \in Processes, FindStuck(p) PROVE OnePass'
  <2>1. boot[p].at # "off" /\ boot[p] \in BootState
    BY <1>4 DEF FindStuck, RecTypeInv, PassTypes
  <2>2. PICK stuck \in SUBSET Emails :
          boot' = [boot EXCEPT ![p].at = IF stuck = {} THEN "page" ELSE "reclaim",
                               ![p].stuck = stuck]
    BY <1>4 DEF FindStuck
  <2>3. boot'[p].stuck # {} => boot'[p].at = "reclaim"
    BY <2>1, <2>2 DEF BootState, RecTypeInv, PassTypes
  <2>4. \A q \in Processes : q # p => boot'[q] = boot[q]
    BY <2>2 DEF RecTypeInv, PassTypes
  <2> QED BY <1>3, <2>1, <2>3, <2>4
<1>5. ASSUME NEW p \in Processes, Reclaim(p) PROVE OnePass'
  <2>1. /\ boot[p].at # "off" /\ boot'[p].stuck = {}
        /\ \A q \in Processes : q # p => boot'[q] = boot[q]
    BY <1>5 DEF Reclaim, RecTypeInv, PassTypes, BootState
  <2> QED BY <1>3, <2>1
<1>6. ASSUME NEW p \in Processes,
             \/ StartBoot(p) \/ ReadPage(p) \/ SkipQueued(p) \/ Probe(p) \/ RemoveOrphan(p)
             \/ Requeue(p) \/ Serve(p) \/ BootDies(p) \/ Stop(p)
      PROVE  OnePass'
  <2>1. /\ \A q \in Processes : q # p => boot'[q] = boot[q]
        /\ boot'[p].stuck \in {{}, boot[p].stuck}
        /\ boot'[p].stuck # {} => boot'[p].at = boot[p].at \/ boot[p].at # "reclaim"
        /\ boot'[p].at # "off" => boot[p].at # "off" \/ StartBoot(p)
    BY <1>6, OtherPassSteps
  <2>2. StartBoot(p) => \A q \in Processes : boot[q].at = "off"
    BY DEF StartBoot, Prudent
  <2>3. boot'[p].stuck # {} => boot'[p].at = "reclaim"
    BY <2>1
  <2> QED BY <1>3, <2>1, <2>2, <2>3
<1> QED BY <1>2, <1>4, <1>5, <1>6 DEF RecNext, BootStep

LEMMA RecInvStep == 
  ASSUME RecTypeInv, RecTypeInv', RecInv, Prudent, [RecNext]_recVars
  PROVE  RecInv'
<1> USE DEF RecInv, RecTypeInv
<1>1. OnePass'
  BY OnePassKept
<1>2. ASSUME [Next]_vars, UNCHANGED recoveryVars PROVE RowsInv'
  <2>1. ListsCalm
    BY <1>2 DEF ListsCalm, recoveryVars
  <2> QED BY <1>2, <2>1, SendCases, CalmKeepsRows, ClaimKeepsRows, AnswerKeepsRows,
             WriteKeepsRows, CompletionKeepsRows
<1>3. CASE (SendPath /\ UNCHANGED recoveryVars) \/ UNCHANGED recVars
  BY <1>1, <1>2, <1>3, SendPathIsNext DEF recVars
<1>4. ASSUME NEW p \in Processes,
             \/ StartBoot(p) \/ ReadPage(p) \/ SkipQueued(p) \/ Probe(p) \/ RemoveOrphan(p)
             \/ Requeue(p) \/ Serve(p) \/ BootDies(p) \/ Stop(p)
      PROVE  RowsInv'
  <2>1. SlotsCalm /\ ListsCalm
    BY <1>4, OtherPassSteps DEF ListsCalm
  <2> QED BY <2>1, CalmKeepsRows
<1>5. ASSUME NEW p \in Processes, FindStuck(p) \/ Reclaim(p) PROVE RowsInv'
  BY <1>5, FindingKeepsRows, ReclaimKeepsRows
<1>6. CASE \E e \in Emails : LockGoesStale(e)
  BY <1>1, <1>6, StalingKeepsRows
<1>7. CASE LoseRedis
  <2>1. UNCHANGED <<status, lockedAt, accepted, campaign, mishaps, pc, cur, boot>>
    BY <1>7 DEF LoseRedis, env, rowVars, slotVars, history
  <2>2. SlotsCalm /\ ListsCalm
    BY <2>1, HarmTyped DEF SlotsCalm, ListsCalm, Harm
  <2> QED BY <1>1, <2>2, CalmKeepsRows
<1> QED BY <1>1, <1>3, <1>4, <1>5, <1>6, <1>7 DEF RecNext, BootStep

LEMMA RecInvInit == Committed /\ NoPassYet => RecInv
<1> SUFFICES ASSUME Committed, NoPassYet PROVE RecInv
  OBVIOUS
<1>1. \A p \in Processes : boot[p].at = "off" /\ boot[p].stuck = {}
  BY DEF NoPassYet, NoBoot
<1>2. /\ \A w \in Workers : pc[w] = "idle"
      /\ \A e \in Emails : status[e] = "SCHEDULED" /\ lockedAt[e] = "null" /\ accepted[e] = 0
      /\ \A c \in Campaigns : campaign[c] = "SCHEDULED"
      /\ mishaps = [m \in Mishaps |-> 0]
  BY DEF Committed
<1>3. \A w \in Workers : ~HoldsClaim(w)
  BY <1>2 DEF HoldsClaim
<1>4. OnePass /\ ListedIsUnsent
  BY <1>1 DEF OnePass, ListedIsUnsent, NotBooting, Booting
<1>5. ClaimExclusive /\ HolderKeepsRow /\ StaleIsUnsent
  BY <1>2, <1>3 DEF ClaimExclusive, HolderKeepsRow, StaleIsUnsent
<1>6. SendsPaid
  <2>1. Harm = 0
    BY <1>2 DEF Harm, Mishaps
  <2> QED BY <1>2, <2>1 DEF SendsPaid
<1>7. CancelledTogether /\ CompletedIsSettled /\ CountStands
  <2>1. \A c \in Campaigns : campaign[c] # "COMPLETED"
    BY <1>2
  <2> QED BY <1>2, <2>1, WorkerConfig DEF CancelledTogether, CompletedIsSettled, CountStands
<1> QED BY <1>4, <1>5, <1>6, <1>7 DEF RecInv, RowsInv
===============================================================================
