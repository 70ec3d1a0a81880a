---------------------------- MODULE EmailDelivery -----------------------------
(***************************************************************************)
(* What the send path promises about one email, without processes, queue,   *)
(* hours or failures: it is tried one attempt at a time, it is delivered at *)
(* most once, its verdict says what happened and is final, and a campaign   *)
(* is closed only when all of its emails have a verdict.                    *)
(***************************************************************************)
EXTENDS Naturals

CONSTANTS Emails, Campaigns, campaignOf

VARIABLES
  phase,      \* waiting, sending, sent or failed
  tries,      \* attempts begun
  delivered,  \* the recipient has the message
  closed      \* campaigns reported as complete

vars == <<phase, tries, delivered, closed>>

Init ==
  /\ phase = [e \in Emails |-> "waiting"]
  /\ tries = [e \in Emails |-> 0]
  /\ delivered = [e \in Emails |-> FALSE]
  /\ closed = [c \in Campaigns |-> FALSE]

Move(e, from, to) ==
  /\ phase[e] = from
  /\ phase' = [phase EXCEPT ![e] = to]

Attempt(e) ==
  /\ Move(e, "waiting", "sending")
  /\ tries' = [tries EXCEPT ![e] = @ + 1]
  /\ UNCHANGED <<delivered, closed>>

Deliver(e) ==
  /\ phase[e] = "sending" /\ ~delivered[e]
  /\ delivered' = [delivered EXCEPT ![e] = TRUE]
  /\ UNCHANGED <<phase, tries, closed>>

Succeed(e) ==
  /\ Move(e, "sending", "sent") /\ delivered[e]
  /\ UNCHANGED <<tries, delivered, closed>>

Fall(e) ==
  /\ Move(e, "sending", "waiting") \/ Move(e, "sending", "failed")
  /\ ~delivered[e]
  /\ UNCHANGED <<tries, delivered, closed>>

Close(c) ==
  /\ \A e \in Emails : campaignOf[e] = c => phase[e] \in {"sent", "failed"}
  /\ closed' = [closed EXCEPT ![c] = TRUE]
  /\ UNCHANGED <<phase, tries, delivered>>

Next ==
  \/ \E e \in Emails : Attempt(e) \/ Deliver(e) \/ Succeed(e) \/ Fall(e)
  \/ \E c \in Campaigns : Close(c)

Spec == Init /\ [][Next]_vars
===============================================================================
