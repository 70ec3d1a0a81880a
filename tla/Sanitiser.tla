------------------------------ MODULE Sanitiser ------------------------------
(***************************************************************************)
(* sanitizeHtml and isHtmlEmpty of lib/sanitize-html.ts as functions on    *)
(* sequences of tokens.  An attribute is a name whose value is good; how   *)
(* characters make up a token, and how a value is decoded and encoded, is  *)
(* left out.                                                               *)
(*                                                                         *)
(* Text is opaque but for what it means right after a '<' that starts no   *)
(* tag (Lt): Text goes on with nothing that a tag could begin with,        *)
(* TagTail(x) is a text like "x>" that makes a start tag of it.  A string  *)
(* in which the two stand side by side is written with that tag instead.   *)
(***************************************************************************)
EXTENDS Lists, FiniteSets

CONSTANTS Allowed,      \* ALLOWED_TAGS
          Dropped,      \* DROP_ENTIRELY
          Void,         \* VOID_ELEMENTS
          RawText,      \* RAW_TEXT_ELEMENTS
          AllowedAttrs, \* ALLOWED_ATTRS of each allowed tag
          NoTag

ASSUME SanitiserConfig ==
    /\ Allowed \cap Dropped = {} /\ Allowed \cap RawText = {} /\ RawText \cap Void = {}
    /\ NoTag \notin Allowed \cup Dropped \cup Void \cup RawText
    /\ DOMAIN AllowedAttrs = Allowed
    /\ \A tag \in Allowed : "rel" \notin AllowedAttrs[tag]

Text == [kind |-> "text", tag |-> NoTag, attrs |-> {}, self |-> FALSE]
Lt == [kind |-> "lt", tag |-> NoTag, attrs |-> {}, self |-> FALSE]
TagTail(tag) == [kind |-> "tail", tag |-> tag, attrs |-> {}, self |-> FALSE]
Start(tag, attrs, self) == [kind |-> "start", tag |-> tag, attrs |-> attrs, self |-> self]
End(tag) == [kind |-> "end", tag |-> tag, attrs |-> {}, self |-> FALSE]

\* What tokenize emits as a text.
IsText(t) == t.kind \in {"text", "lt", "tail"}

\* Of what a string consists.
IsToken(t) ==
    \/ t = Text \/ t = Lt \/ t = TagTail(t.tag)
    \/ t = Start(t.tag, t.attrs, t.self) /\ t.self \in BOOLEAN
    \/ t = End(t.tag)

\* A '<' right before a text that makes a tag of it.
Seam(html) == \E i \in DOMAIN html : /\ i + 1 \in DOMAIN html
                                     /\ html[i].kind = "lt" /\ html[i + 1].kind = "tail"

IsMarkup(html) ==
    /\ html \in Seq(ToSet(html)) /\ \A t \in ToSet(html) : IsToken(t)
    /\ ~Seam(html)

\* A loop over a sequence. (FoldLeft does the same, slower in TLC.)
Loop(Step(_, _), start, seq) ==
    LET after[i \in 0..Len(seq)] == IF i = 0 THEN start ELSE Step(after[i - 1], seq[i])
    IN  after[Len(seq)]

\* tokenize: what stands inside a raw-text element is not markup, and is
\* skipped to its end tag or to the end of the input.  A Gap marks the place.
Gap == [kind |-> "gap", tag |-> NoTag, attrs |-> {}, self |-> FALSE]

ReadPiece(s, x) ==
    IF s.raw # NoTag
    THEN IF x = End(s.raw) THEN [read |-> Append(s.read, x), raw |-> NoTag]
                           ELSE [read |-> Append(s.read, Gap), raw |-> s.raw]
    ELSE [read |-> Append(s.read, x),
          raw |-> IF x.kind = "start" /\ x.tag \in RawText /\ ~x.self THEN x.tag ELSE NoTag]

Tokenize(html) == Loop(ReadPiece, [read |-> <<>>, raw |-> NoTag], html).read

-----------------------------------------------------------------------------
\* renderStartTag: what is allowed stays, and a link gets its rel.
RenderStartTag(tag, attrs) ==
    LET kept == attrs \cap AllowedAttrs[tag]
    IN  Start(tag, IF "href" \in kept THEN kept \cup {"rel"} ELSE kept, tag \in Void)

Scanning == [out |-> <<>>, stack |-> <<>>, dropTag |-> NoTag, dropDepth |-> 0]

\* The end tags of a part of the stack, which is popped from its end.
EndFirst(out, entry) == IF entry.emitted THEN <<End(entry.tag)>> \o out ELSE out
Closers(entries) == Loop(EndFirst, <<>>, entries)

\* Inside a dropped element only its own tag is counted.
SkipToken(s, t) ==
    LET depth == CASE t.kind = "start" /\ t.tag = s.dropTag /\ ~t.self -> s.dropDepth + 1
                   [] t.kind = "end" /\ t.tag = s.dropTag -> s.dropDepth - 1
                   [] OTHER -> s.dropDepth
    IN  [s EXCEPT !.dropDepth = depth, !.dropTag = IF depth = 0 THEN NoTag ELSE @]

IsVoid(t) == t.tag \in Void \/ t.self

\* Fault: a void element opens a region too.
OpenDroppedAlways(s, t) == [s EXCEPT !.dropTag = t.tag, !.dropDepth = 1]

OpenDropped(s, t) ==
    IF IsVoid(t) THEN s ELSE [s EXCEPT !.dropTag = t.tag, !.dropDepth = 1]

OpenElement(s, t) ==
    LET emitted == t.tag \in Allowed
        entry == [tag |-> t.tag, emitted |-> emitted]
    IN  [s EXCEPT !.out = IF emitted THEN Append(@, RenderStartTag(t.tag, t.attrs)) ELSE @,
                  !.stack = IF IsVoid(t) THEN @ ELSE Append(@, entry)]

\* Fault: only the matching element is closed, what is open inside it is lost.
CloseElementAlone(s, tag) ==
    LET at == SelectLastInSeq(s.stack, LAMBDA e : e.tag = tag)
    IN  IF at = 0 THEN s
        ELSE [s EXCEPT !.out = @ \o Closers(SubSeq(s.stack, at, at)),
                       !.stack = SubSeq(@, 1, at - 1)]

\* An end tag closes everything through the last element of its name.
CloseElement(s, tag) ==
    LET at == SelectLastInSeq(s.stack, LAMBDA e : e.tag = tag)
    IN  IF at = 0 THEN s
        ELSE [s EXCEPT !.out = @ \o Closers(SubSeq(s.stack, at, Len(s.stack))),
                       !.stack = SubSeq(@, 1, at - 1)]

ScanToken(s, t) ==
    CASE s.dropTag # NoTag -> SkipToken(s, t)
      [] s.dropTag = NoTag /\ t.kind = "gap" -> s
      [] s.dropTag = NoTag /\ IsText(t) -> [s EXCEPT !.out = Append(@, t)]
      [] s.dropTag = NoTag /\ t.kind = "start" ->
           IF t.tag \in Dropped THEN OpenDropped(s, t) ELSE OpenElement(s, t)
      [] s.dropTag = NoTag /\ t.kind = "end" -> CloseElement(s, t.tag)

Pieces(html) ==
    LET end == Loop(ScanToken, Scanning, Tokenize(html))
    IN  end.out \o Closers(end.stack)

\* out.join(''): a '<' may come to stand right before a text that makes a tag
\* of it, where what stood between them was left out.
JoinPiece(html, x) ==
    IF html # <<>> /\ Last(html).kind = "lt" /\ x.kind = "tail"
    THEN Append(Front(html), Start(x.tag, {}, FALSE))
    ELSE Append(html, x)
Joined(pieces) == Loop(JoinPiece, <<>>, pieces)

SanitizeHtml(html) == Joined(Pieces(html))

\* The replacements of isHtmlEmpty: a <br> is a line break; whatever stands
\* from a '<' to the next '>' goes, a '<' of the text and what follows it too.
HasGt(t) == t.kind = "tail" \/ (t.kind \in {"start", "end"} /\ t.tag \notin Void)
GoesAway(html, i) ==
    \E j \in 1..i, k \in i..Len(html) :
        /\ html[j].kind = "lt" /\ j < k /\ HasGt(html[k])
        /\ \A m \in j+1..k-1 : ~HasGt(html[m])
IsHtmlEmpty(html) == \A i \in DOMAIN html : IsText(html[i]) => GoesAway(html, i)

-----------------------------------------------------------------------------
(* What the functions are to be held against *)

\* Reading the tags as brackets; a void element is none.
Match(open, t) ==
    CASE IsText(t) \/ t.tag \in Void -> open
      [] t.kind = "start" /\ t.tag \notin Void -> Append(open, t.tag)
      [] t.kind = "end" /\ t.tag \notin Void ->
           IF open # <<>> /\ Last(open) = t.tag THEN Front(open) ELSE Append(open, NoTag)

Balanced(html) == Loop(Match, <<>>, html) = <<>>

\* An allowed element written <b/>: it is emitted as <b> and never closed.
SelfClosed(html) ==
    \E i \in DOMAIN html : html[i].self /\ html[i].tag \in Allowed \ Void

\* What is emitted has a '<' of the text right before a text that makes a tag
\* of it: the output holds an element that the scan has not seen.
Joins(html) == Seam(Pieces(html))

\* How many elements of the name of the one that starts at i are open after k.
Depth(html, i, k) ==
    LET tag == html[i].tag
    IN  Cardinality({j \in i..k : html[j].kind = "start" /\ html[j].tag = tag /\ ~html[j].self})
        - Cardinality({j \in i..k : html[j] = End(tag)})

\* The positions inside the element that starts at i: its own tags, counted as
\* brackets, have not come out even.
Inside(html, i) == {k \in i+1..Len(html) : \A j \in i..k : Depth(html, i, j) > 0}

InsideOf(html, elements) == UNION {Inside(html, i) : i \in elements}

\* Elements whose contents go, and the outermost of them.
Removals(html) ==
    {i \in DOMAIN html : /\ html[i].kind = "start" /\ ~IsVoid(html[i])
                         /\ html[i].tag \in Dropped}
Outermost(html) == Removals(html) \ InsideOf(html, Removals(html))

\* The positions inside a raw-text element: up to its end tag, whatever stands
\* there.
RawStart(t) == t.kind = "start" /\ t.tag \in RawText /\ ~t.self
RawContents(html) ==
    {k \in DOMAIN html :
       \E i \in 1..k-1 : /\ RawStart(Tokenize(html)[i])
                         /\ \A j \in i+1..k : html[j] # End(html[i].tag)}

\* Which texts are emitted, told apart by where they stand.
Numbered(html) ==
    [i \in DOMAIN html |-> IF IsText(html[i]) THEN [html[i] EXCEPT !.attrs = {i}]
                           ELSE html[i]]
TextsOf(html) == {i \in DOMAIN html : IsText(html[i])}
TextsKept(html) ==
    LET out == Pieces(Numbered(html))
    IN  {i \in TextsOf(html) : \E j \in DOMAIN out : out[j] = Numbered(html)[i]}
==============================================================================
