------------------------------ MODULE EmailList ------------------------------
(***************************************************************************)
(* The two list views of the API, emailJob.service.ts.  The emails of the  *)
(* user move on while a page is read, and a page is two reads: the count   *)
(* and the rows.  An answer is abstracted to the two numbers that decide   *)
(* what the dashboard shows: the total and the number of rows.             *)
(***************************************************************************)
EXTENDS Integers, FiniteSets

CONSTANTS Mail,         \* the emails of the user
          Searches,     \* search texts, NoSearch among them
          NoSearch,
          Hit,          \* which emails a search text matches
          PageLimit     \* rows on a page

ASSUME ListConfig ==
    /\ IsFiniteSet(Mail) /\ PageLimit \in Nat \ {0}
    /\ NoSearch \in Searches
    /\ Hit \in [Searches -> SUBSET Mail] /\ Hit[NoSearch] = Mail

VARIABLE mail           \* EmailJob.status of each email, as far as views differ

Views == {"scheduled", "sent"}

\* VIEW_STATUSES: a cancelled email is in neither view.
ViewStatuses ==
    [scheduled |-> {"SCHEDULED", "QUEUED", "PROCESSING"}, sent |-> {"SENT", "FAILED"}]

Where(view, search) == {m \in Hit[search] : mail[m] \in ViewStatuses[view]}

\* The two statements of Promise.all.
Total(view, search) == Cardinality(Where(view, search))

RowsOnPage(view, search, page) ==
    LET skipped == (page - 1) * PageLimit
        left == Total(view, search) - skipped
    IN  IF left < 0 THEN 0 ELSE IF left < PageLimit THEN left ELSE PageLimit

TotalPages(total) == (total + PageLimit - 1) \div PageLimit

\* The worker and the campaign service change the rows meanwhile; FAILED is in
\* the view SENT is in.
MailMoves ==
    \E m \in Mail :
        /\ mail[m] = "SCHEDULED"
        /\ \E s \in {"SENT", "CANCELLED"} : mail' = [mail EXCEPT ![m] = s]
=============================================================================
