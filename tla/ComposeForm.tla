----------------------------- MODULE ComposeForm -----------------------------
(***************************************************************************)
(* The page /compose: ComposeForm.tsx with its RecipientInput and          *)
(* UploadListButton, and POST /api/campaigns on the other side.            *)
(*                                                                         *)
(* React renders later than state is set: a handler works on what was      *)
(* rendered last.  A handler of a key or a click is rendered at once, the  *)
(* callback of an answer some time later, and an event may come between.   *)
(* The fields other than the recipients are inputs of the click on Send.   *)
(***************************************************************************)
EXTENDS Recipients, FiniteSets

CONSTANTS NoText,       \* nothing is typed
          Drafts,       \* what may be typed
          Pastes,       \* what may be pasted: lists with separators
          Files,        \* what an uploaded file may list
          NoFile

ASSUME ComposeConfig ==
    /\ NoText \notin Address /\ Drafts \subseteq Address
    /\ Pastes \subseteq Seq(Address) /\ Files \subseteq Seq(Address)
    /\ NoFile \notin Files

VARIABLES
  form,       \* how many times the form has been mounted
  chips,      \* its recipients
  seen,       \* the recipients its handlers work on: as last rendered
  box,        \* the half-typed address of the To row
  upload,     \* the file that is being parsed
  inFlight,   \* inFlight.current; the state `submitting` changes with it
  seenBusy,   \* `submitting` as last rendered
  posts,      \* submissions under way
  submitted,  \* number of submissions
  campaigns,  \* history: the campaigns created
  doubtful    \* history: submissions reported failed without a refusal

composeVars == <<form, chips, seen, box, upload, inFlight, seenBusy, posts,
                 submitted, campaigns, doubtful>>
chipVars == <<chips, seen, box>>
postVars == <<posts, submitted, campaigns, doubtful>>

ComposeTypeOK ==
  /\ form \in Nat /\ submitted \in Nat
  /\ chips \in Seq(Address) /\ seen \in Seq(Address)
  /\ box \in Address \cup {NoText}
  /\ upload \in Files \cup {NoFile}
  /\ inFlight \in BOOLEAN /\ seenBusy \in BOOLEAN
  /\ \A p \in posts : p.form \in 1..form /\ p.n \in 1..submitted /\ p.list \in Seq(Address)

ComposeInit ==
  /\ form = 1
  /\ chips = <<>> /\ seen = <<>> /\ box = NoText
  /\ upload = NoFile
  /\ inFlight = FALSE /\ seenBusy = FALSE
  /\ posts = {} /\ submitted = 0
  /\ campaigns = {} /\ doubtful = {}

\* The page is left or loaded again: what the form holds is gone.
FormReset(mounted) ==
  /\ form' = IF mounted THEN form + 1 ELSE form
  /\ chips' = <<>> /\ seen' = <<>> /\ box' = NoText
  /\ upload' = NoFile
  /\ inFlight' = FALSE /\ seenBusy' = FALSE

-----------------------------------------------------------------------------
\* The rendered list with the tokens of a commit added.
Committed(tokens) == CommitTokens(seen, tokens)
Typed == IF box = NoText THEN <<>> ELSE <<box>>

\* onChange of the To row: the list replaces whatever the state holds.
Replace(list) == chips' = list /\ seen' = list

\* commit: without an addition the state is not touched.
Commit(tokens) ==
  IF Committed(tokens) = seen THEN UNCHANGED <<chips, seen>>
  ELSE Replace(Committed(tokens))

\* Whatever is half-typed is committed when the focus leaves the box.
Blur == Commit(Typed) /\ box' = NoText

Types(a) ==
  /\ box = NoText
  /\ box' = a
  /\ UNCHANGED <<form, chips, seen, upload, inFlight, seenBusy, postVars>>

\* Enter, comma or space.
CommitsBox ==
  /\ box # NoText
  /\ Blur
  /\ UNCHANGED <<form, upload, inFlight, seenBusy, postVars>>

\* A pasted list is committed and the half-typed address dropped.
PastesList(list) ==
  /\ Commit(list)
  /\ box' = NoText
  /\ UNCHANGED <<form, upload, inFlight, seenBusy, postVars>>

\* The cross of a chip, or Backspace in an empty box.
RemovesChip(i) ==
  /\ box = NoText
  /\ Replace(RemoveAt(seen, i))
  /\ UNCHANGED <<form, box, upload, inFlight, seenBusy, postVars>>

\* A file is picked; the button is disabled until it is parsed.
PicksFile(file) ==
  /\ upload = NoFile
  /\ Blur
  /\ upload' = file
  /\ UNCHANGED <<form, inFlight, seenBusy, postVars>>

\* onParsed: the list is merged into the state of the moment.
UploadParsed ==
  /\ upload # NoFile
  /\ chips' = MergeUpload(chips, ParseUpload(upload).recipients)
  /\ upload' = NoFile
  /\ UNCHANGED <<form, seen, box, inFlight, seenBusy, postVars>>

UploadFails ==
  /\ upload # NoFile
  /\ upload' = NoFile
  /\ UNCHANGED <<form, chipVars, inFlight, seenBusy, postVars>>

Renders ==
  /\ <<seen, seenBusy>> # <<chips, inFlight>>
  /\ seen' = chips
  /\ seenBusy' = inFlight
  /\ UNCHANGED <<form, chips, box, upload, inFlight, postVars>>

-----------------------------------------------------------------------------
\* validate, as far as the recipients go.
Sendable(list) == ValidChips(list) # <<>> /\ InvalidChips(list) = <<>>

\* Fault: the guard is the rendered state.
GuardOpenRendered == ~seenBusy

\* The two guards of a click on Send: the button is disabled once `submitting`
\* is rendered, and handleSubmit looks at the ref.
GuardOpen == ~seenBusy /\ ~inFlight

\* A click on Send: the box loses the focus first.  `fields` says whether the
\* other fields are accepted by the form and by the schema, the time of the
\* popover included.
Sends(fields) ==
  /\ GuardOpen
  /\ Blur
  /\ LET list == Committed(Typed) IN
       IF fields = "refused" \/ ~Sendable(list)
       THEN UNCHANGED <<inFlight, posts, submitted>>
       ELSE /\ inFlight' = TRUE
            /\ submitted' = submitted + 1
            /\ posts' = posts \cup
                 {[form |-> form, n |-> submitted + 1, list |-> ValidChips(list),
                   good |-> fields = "good", phase |-> "sent", told |-> FALSE]}
  /\ UNCHANGED <<form, upload, seenBusy, campaigns, doubtful>>

PostBecomes(p, q) == posts' = (posts \ {p}) \cup {q}

\* createCampaign commits: a row for every recipient that is not a duplicate.
ServerCommits(p, authorised) ==
  /\ p.phase = "sent"
  /\ authorised /\ p.good /\ SchemaAccepts(p.list)
  /\ campaigns' = campaigns \cup
       {[form |-> p.form, n |-> p.n, shown |-> p.list, rows |-> Dedupe(p.list)]}
  /\ IF p.told THEN posts' = posts \ {p} ELSE PostBecomes(p, [p EXCEPT !.phase = "committed"])
  /\ UNCHANGED <<form, chipVars, upload, inFlight, seenBusy, submitted, doubtful>>

\* A 400 or a 401 before anything is written.
ServerRefuses(p, authorised) ==
  /\ p.phase = "sent"
  /\ ~authorised \/ ~p.good \/ ~SchemaAccepts(p.list)
  /\ IF p.told THEN posts' = posts \ {p} ELSE PostBecomes(p, [p EXCEPT !.phase = "refused"])
  /\ UNCHANGED <<form, chipVars, upload, inFlight, seenBusy, submitted, campaigns, doubtful>>

\* The catch of handleSubmit: the guard of the form that sent it is released.
ReleaseGuard(p) == inFlight' = (inFlight /\ p.form # form)

FailureReported(p) ==
  /\ p.phase = "refused"
  /\ posts' = posts \ {p}
  /\ ReleaseGuard(p)
  /\ UNCHANGED <<form, chipVars, upload, seenBusy, submitted, campaigns, doubtful>>

\* No answer arrives, or a 500 after the commit; the server may be at it still.
AnswerLost(p) ==
  /\ ~p.told
  /\ p.phase \in {"sent", "committed"}
  /\ posts' = (posts \ {p}) \cup
       (IF p.phase = "sent" THEN {[p EXCEPT !.told = TRUE]} ELSE {})
  /\ ReleaseGuard(p)
  /\ doubtful' = doubtful \cup {[form |-> p.form, n |-> p.n]}
  /\ UNCHANGED <<form, chipVars, upload, seenBusy, submitted, campaigns>>

\* A 201: whoever composes the form reloads the counts and leaves the page,
\* whichever page it is by now; the guard is kept.
SuccessReported(p) ==
  /\ ~p.told
  /\ p.phase = "committed"
  /\ posts' = posts \ {p}
  /\ UNCHANGED <<submitted, campaigns, doubtful>>

\* The document is replaced: nobody waits for the answers any more.
DocumentGone ==
  /\ posts' = {[p EXCEPT !.told = TRUE] : p \in {q \in posts : q.phase = "sent"}}
  /\ UNCHANGED <<submitted, campaigns, doubtful>>
=============================================================================
