----------------------------- MODULE Recipients -----------------------------
(***************************************************************************)
(* What becomes of a list of recipients on its way from a file or the To   *)
(* row to the rows of a campaign: upload.routes.ts, RecipientInput.tsx,    *)
(* ComposeForm.tsx, schemas/index.ts and dedupeRecipients of               *)
(* campaign.service.ts.  An address is a value that stands for its         *)
(* trimmed spelling.                                                       *)
(***************************************************************************)
EXTENDS Lists

CONSTANTS Address,      \* spellings of addresses, good and bad ones
          KeyOf,        \* the lower-case form of each
          Matching,     \* those that EMAIL_RE accepts
          Accepted      \* those that z.string().email() accepts

\* EMAIL_RE is the wider of the two tests and neither looks at the case.
ASSUME RecipientConfig ==
    /\ DOMAIN KeyOf = Address
    /\ Accepted \subseteq Matching
    /\ Matching \subseteq Address
    /\ \A a, b \in Address : KeyOf[a] = KeyOf[b] =>
          /\ a \in Matching <=> b \in Matching
          /\ a \in Accepted <=> b \in Accepted

-----------------------------------------------------------------------------
Keys(list) == {KeyOf[list[i]] : i \in DOMAIN list}

\* The loop with the set `seen`: the first spelling of an address is kept.
AddUnseen(list, a) == IF KeyOf[a] \in Keys(list) THEN list ELSE Append(list, a)

\* dedupeRecipients: the rows of a campaign.
Dedupe(list) == FoldLeft(AddUnseen, <<>>, list)

\* POST /api/uploads/recipients: the candidates of a file, told apart.
ParseUpload(candidates) ==
    LET matching == Keep(candidates, Matching)
        kept == FoldLeft(AddUnseen, <<>>, matching)
    IN  [recipients |-> kept,
         total |-> Len(candidates),
         valid |-> Len(kept),
         invalid |-> Len(candidates) - Len(matching),
         duplicates |-> Len(matching) - Len(kept)]

\* commit of RecipientInput: the tokens typed or pasted become chips.
CommitTokens(value, tokens) == FoldLeft(AddUnseen, value, tokens)

\* Fault: the spelling is compared as it is.
MergeUploadExact(current, uploaded) ==
    current \o Keep(uploaded, Address \ ToSet(current))

\* Fault: the upload takes the place of the chips.
MergeUploadReplacing(current, uploaded) == uploaded

\* onParsed of ComposeForm: only the chips of before are looked at.
MergeUpload(current, uploaded) ==
    current \o Keep(uploaded, {a \in Address : KeyOf[a] \notin Keys(current)})

ValidChips(chips) == Keep(chips, Matching)
InvalidChips(chips) == Keep(chips, Address \ Matching)

\* recipientSchema over the array of the request.
SchemaAccepts(list) == list # <<>> /\ ToSet(list) \subseteq Accepted
=============================================================================
