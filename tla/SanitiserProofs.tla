---------------------------- MODULE SanitiserProofs ----------------------------
(***************************************************************************)
(* What sanitizeHtml does to a body of any length: a second pass changes   *)
(* nothing unless texts have joined into a tag, and the texts that go are  *)
(* those inside a removed or a raw-text element.                           *)
(***************************************************************************)
EXTENDS Sanitiser, ListTheorems

-----------------------------------------------------------------------------
(* The five loops over a sequence, and what all of them have in common *)

Loops == {"read", "scan", "match", "close", "join"}

Apply(loop, s, x) ==
  CASE loop = "read" -> ReadPiece(s, x)
    [] loop = "scan" -> ScanToken(s, x)
    [] loop = "match" -> Match(s, x)
    [] loop = "close" -> EndFirst(s, x)
    [] loop = "join" -> JoinPiece(s, x)

Unread == [read |-> <<>>, raw |-> NoTag]

Begin(loop) ==
  CASE loop = "read" -> Unread
    [] loop = "scan" -> Scanning
    [] loop \in {"match", "close", "join"} -> <<>>

Read(seq) == Loop(ReadPiece, Unread, seq)
Scan(seq) == Loop(ScanToken, Scanning, seq)
Matched(seq) == Loop(Match, <<>>, seq)

Outcome(loop, seq) ==
  CASE loop = "read" -> Read(seq)
    [] loop = "scan" -> Scan(seq)
    [] loop = "match" -> Matched(seq)
    [] loop = "close" -> Closers(seq)
    [] loop = "join" -> Joined(seq)

\* The values a loop goes through.
Runs(loop, f, seq) ==
  /\ f[0] = Begin(loop)
  /\ \A n \in 1..Len(seq) : f[n] = Apply(loop, f[n - 1], seq[n])

LEMMA RunExists ==
  ASSUME NEW loop, NEW seq, Len(seq) \in Nat
  PROVE  \E f : f = [n \in 0..Len(seq) |-> f[n]] /\ Runs(loop, f, seq)
<1> PICK N, begin : N = Len(seq) /\ begin = Begin(loop)
  OBVIOUS
<1> DEFINE Reaches(n) == \E g : /\ g[0] = begin
                                /\ \A i \in 1..n : g[i] = Apply(loop, g[i - 1], seq[i])
           T == {n \in Nat : Reaches(n)}
<1>1. 0 \in T
  <2>1. [i \in {0} |-> begin][0] = begin
    OBVIOUS
  <2>2. Reaches(0)
    <3>1. PICK g : g = [i \in {0} |-> begin]
      OBVIOUS
    <3> QED
      BY <2>1, <3>1
  <2> HIDE DEF Reaches
  <2> QED
    BY <2>2
<1>2. ASSUME NEW n \in Nat, n \in T PROVE n + 1 \in T
  <2>1. PICK g : /\ g[0] = begin
                 /\ \A i \in 1..n : g[i] = Apply(loop, g[i - 1], seq[i])
    BY <1>2
  <2>2. PICK next : next = Apply(loop, g[n], seq[n + 1])
    OBVIOUS
  <2>3. PICK h : h = [i \in 0..(n + 1) |-> IF i = n + 1 THEN next ELSE g[i]]
    OBVIOUS
  <2>4. h[0] = begin
    BY <2>1, <2>3
  <2>5. ASSUME NEW i \in 1..(n + 1) PROVE h[i] = Apply(loop, h[i - 1], seq[i])
    <3>1. i - 1 \in 0..(n + 1) /\ i - 1 # n + 1 /\ i \in 0..(n + 1)
      OBVIOUS
    <3>2. h[i - 1] = g[i - 1]
      BY <2>3, <3>1
    <3>3. CASE i = n + 1
      <4>1. h[i] = next /\ i - 1 = n
        BY <2>3, <3>1, <3>3
      <4> QED
        BY <2>2, <3>2, <3>3, <4>1
    <3>4. CASE i # n + 1
      <4>1. h[i] = g[i] /\ i \in 1..n
        BY <2>3, <3>1, <3>4
      <4> QED
        BY <2>1, <3>2, <4>1
    <3> QED
      BY <3>3, <3>4
  <2>6. Reaches(n + 1)
    BY <2>4, <2>5
  <2> HIDE DEF Reaches
  <2> QED
    BY <2>6
<1> HIDE DEF T
<1>3. N \in T
  BY <1>1, <1>2, SetInduction
<1>4. PICK g : /\ g[0] = begin
               /\ \A i \in 1..N : g[i] = Apply(loop, g[i - 1], seq[i])
  BY <1>3 DEF T
<1>5. PICK f : f = [n \in 0..N |-> g[n]]
  OBVIOUS
<1>6. f = [n \in 0..N |-> f[n]]
  BY <1>5
<1>7. f[0] = begin
  BY <1>4, <1>5
<1>8. ASSUME NEW n \in 1..N PROVE f[n] = Apply(loop, f[n - 1], seq[n])
  <2>1. n \in 0..N /\ n - 1 \in 0..N
    OBVIOUS
  <2>2. f[n] = g[n] /\ f[n - 1] = g[n - 1]
    BY <1>5, <2>1
  <2> QED
    BY <1>4, <2>2
<1> QED
  BY <1>6, <1>7, <1>8 DEF Runs

\* A loop returns the last value it goes through.
LEMMA RunEnds ==
  ASSUME NEW loop \in Loops, NEW seq, Len(seq) \in Nat
  PROVE  \E f : Runs(loop, f, seq) /\ f[Len(seq)] = Outcome(loop, seq)
<1> PICK N : N = Len(seq)
  OBVIOUS
<1>1. CASE loop = "read"
  <2> DEFINE Body(g) == [i \in 0..N |-> IF i = 0 THEN Unread ELSE ReadPiece(g[i - 1], seq[i])]
             f == CHOOSE g : g = Body(g)
  <2>1. PICK g : g = [n \in 0..N |-> g[n]] /\ Runs("read", g, seq)
    BY RunExists
  <2>2. Begin("read") = Unread /\ \A s, x : Apply("read", s, x) = ReadPiece(s, x)
    BY DEF Begin, Apply
  <2>3. g[0] = Unread /\ \A n \in 1..N : g[n] = ReadPiece(g[n - 1], seq[n])
    BY <2>1, <2>2 DEF Runs
  <2>4. g = Body(g)
    BY <2>1, <2>3
  <2>5. f = Body(f)
    BY <2>4, Zenon
  <2>6. Read(seq) = f[N]
    BY DEF Read, Loop
  <2> HIDE DEF f
  <2>7. f[0] = Unread /\ \A n \in 1..N : f[n] = ReadPiece(f[n - 1], seq[n])
    BY <2>5
  <2>8. Runs("read", f, seq)
    BY <2>2, <2>7 DEF Runs
  <2> QED
    BY <1>1, <2>6, <2>8 DEF Outcome
<1>2. CASE loop = "scan"
  <2> DEFINE Body(g) == [i \in 0..N |-> IF i = 0 THEN Scanning ELSE ScanToken(g[i - 1], seq[i])]
             f == CHOOSE g : g = Body(g)
  <2>1. PICK g : g = [n \in 0..N |-> g[n]] /\ Runs("scan", g, seq)
    BY RunExists
  <2>2. Begin("scan") = Scanning /\ \A s, x : Apply("scan", s, x) = ScanToken(s, x)
    BY DEF Begin, Apply
  <2>3. g[0] = Scanning /\ \A n \in 1..N : g[n] = ScanToken(g[n - 1], seq[n])
    BY <2>1, <2>2 DEF Runs
  <2>4. g = Body(g)
    BY <2>1, <2>3
  <2>5. f = Body(f)
    BY <2>4, Zenon
  <2>6. Scan(seq) = f[N]
    BY DEF Scan, Loop
  <2> HIDE DEF f
  <2>7. f[0] = Scanning /\ \A n \in 1..N : f[n] = ScanToken(f[n - 1], seq[n])
    BY <2>5
  <2>8. Runs("scan", f, seq)
    BY <2>2, <2>7 DEF Runs
  <2> QED
    BY <1>2, <2>6, <2>8 DEF Outcome
<1>3. CASE loop = "match"
  <2> DEFINE Body(g) == [i \in 0..N |-> IF i = 0 THEN <<>> ELSE Match(g[i - 1], seq[i])]
             f == CHOOSE g : g = Body(g)
  <2>1. PICK g : g = [n \in 0..N |-> g[n]] /\ Runs("match", g, seq)
    BY RunExists
  <2>2. Begin("match") = <<>> /\ \A s, x : Apply("match", s, x) = Match(s, x)
    BY DEF Begin, Apply
  <2>3. g[0] = <<>> /\ \A n \in 1..N : g[n] = Match(g[n - 1], seq[n])
    BY <2>1, <2>2 DEF Runs
  <2>4. g = Body(g)
    BY <2>1, <2>3
  <2>5. f = Body(f)
    BY <2>4, Zenon
  <2>6. Matched(seq) = f[N]
    BY DEF Matched, Loop
  <2> HIDE DEF f
  <2>7. f[0] = <<>> /\ \A n \in 1..N : f[n] = Match(f[n - 1], seq[n])
    BY <2>5
  <2>8. Runs("match", f, seq)
    BY <2>2, <2>7 DEF Runs
  <2> QED
    BY <1>3, <2>6, <2>8 DEF Outcome
<1>4. CASE loop = "close"
  <2> DEFINE Body(g) == [i \in 0..N |-> IF i = 0 THEN <<>> ELSE EndFirst(g[i - 1], seq[i])]
             f == CHOOSE g : g = Body(g)
  <2>1. PICK g : g = [n \in 0..N |-> g[n]] /\ Runs("close", g, seq)
    BY RunExists
  <2>2. Begin("close") = <<>> /\ \A s, x : Apply("close", s, x) = EndFirst(s, x)
    BY DEF Begin, Apply
  <2>3. g[0] = <<>> /\ \A n \in 1..N : g[n] = EndFirst(g[n - 1], seq[n])
    BY <2>1, <2>2 DEF Runs
  <2>4. g = Body(g)
    BY <2>1, <2>3
  <2>5. f = Body(f)
    BY <2>4, Zenon
  <2>6. Closers(seq) = f[N]
    BY DEF Closers, Loop
  <2> HIDE DEF f
  <2>7. f[0] = <<>> /\ \A n \in 1..N : f[n] = EndFirst(f[n - 1], seq[n])
    BY <2>5
  <2>8. Runs("close", f, seq)
    BY <2>2, <2>7 DEF Runs
  <2> QED
    BY <1>4, <2>6, <2>8 DEF Outcome
<1>5. CASE loop = "join"
  <2> DEFINE Body(g) == [i \in 0..N |-> IF i = 0 THEN <<>> ELSE JoinPiece(g[i - 1], seq[i])]
             f == CHOOSE g : g = Body(g)
  <2>1. PICK g : g = [n \in 0..N |-> g[n]] /\ Runs("join", g, seq)
    BY RunExists
  <2>2. Begin("join") = <<>> /\ \A s, x : Apply("join", s, x) = JoinPiece(s, x)
    BY DEF Begin, Apply
  <2>3. g[0] = <<>> /\ \A n \in 1..N : g[n] = JoinPiece(g[n - 1], seq[n])
    BY <2>1, <2>2 DEF Runs
  <2>4. g = Body(g)
    BY <2>1, <2>3
  <2>5. f = Body(f)
    BY <2>4, Zenon
  <2>6. Joined(seq) = f[N]
    BY DEF Joined, Loop
  <2> HIDE DEF f
  <2>7. f[0] = <<>> /\ \A n \in 1..N : f[n] = JoinPiece(f[n - 1], seq[n])
    BY <2>5
  <2>8. Runs("join", f, seq)
    BY <2>2, <2>7 DEF Runs
  <2> QED
    BY <1>5, <2>6, <2>8 DEF Outcome
<1> QED
  BY <1>1, <1>2, <1>3, <1>4, <1>5 DEF Loops

\* An element more is one more step.
LEMMA LoopGoesOn ==
  ASSUME NEW loop \in Loops, NEW S, NEW seq \in Seq(S), NEW x \in S
  PROVE  /\ Outcome(loop, <<>>) = Begin(loop)
         /\ Outcome(loop, Append(seq, x)) = Apply(loop, Outcome(loop, seq), x)
<1>1. Outcome(loop, <<>>) = Begin(loop)
  <2> PICK none : none = <<>>
    OBVIOUS
  <2>1. Len(none) \in Nat /\ Len(none) = 0
    OBVIOUS
  <2>2. PICK f : Runs(loop, f, none) /\ f[Len(none)] = Outcome(loop, none)
    BY <2>1, RunEnds
  <2> QED
    BY <2>1, <2>2 DEF Runs
<1> PICK N, more : N = Len(seq) /\ more = Append(seq, x)
  OBVIOUS
<1>2. /\ N \in Nat /\ Len(more) = N + 1 /\ Len(more) \in Nat /\ more[N + 1] = x
      /\ \A i \in 1..N : more[i] = seq[i]
  OBVIOUS
<1>3. PICK f : Runs(loop, f, seq) /\ f[N] = Outcome(loop, seq)
  BY <1>2, RunEnds
<1>4. PICK g : Runs(loop, g, more) /\ g[N + 1] = Outcome(loop, more)
  BY <1>2, RunEnds
<1> DEFINE T == {n \in 0..N : g[n] = f[n]}
<1>5. 0 \in T
  BY <1>2, <1>3, <1>4 DEF Runs
<1>6. ASSUME NEW n \in 1..N, n - 1 \in T PROVE n \in T
  <2>1. n \in 0..N /\ n \in 1..Len(more) /\ g[n - 1] = f[n - 1]
    BY <1>2, <1>6
  <2>2. g[n] = Apply(loop, g[n - 1], more[n]) /\ f[n] = Apply(loop, f[n - 1], seq[n])
    BY <1>3, <1>4, <2>1 DEF Runs
  <2>3. g[n] = f[n]
    BY <1>2, <2>1, <2>2
  <2> QED
    BY <2>1, <2>3
<1> HIDE DEF T
<1>7. 0..N \subseteq T
  BY <1>2, <1>5, <1>6, BoundedInduction
<1>8. g[N] = f[N]
  BY <1>2, <1>7 DEF T
<1>9. g[N + 1] = Apply(loop, g[N], x)
  <2>1. N + 1 \in 1..Len(more) /\ (N + 1) - 1 = N
    BY <1>2
  <2>2. g[N + 1] = Apply(loop, g[(N + 1) - 1], more[N + 1])
    BY <1>4, <2>1 DEF Runs
  <2> QED
    BY <1>2, <2>1, <2>2
<1> QED
  BY <1>1, <1>3, <1>4, <1>8, <1>9

\* The same for each of the loops.
LEMMA ReadMore ==
  ASSUME NEW S, NEW seq \in Seq(S), NEW x \in S
  PROVE  Read(<<>>) = Unread /\ Read(Append(seq, x)) = ReadPiece(Read(seq), x)
<1> PICK loop : loop = "read"
  OBVIOUS
<1>1. loop \in Loops
  BY DEF Loops
<1>2. /\ Outcome(loop, <<>>) = Begin(loop)
      /\ Outcome(loop, Append(seq, x)) = Apply(loop, Outcome(loop, seq), x)
  BY <1>1, LoopGoesOn
<1> QED
  BY <1>2 DEF Outcome, Begin, Apply

LEMMA ScanMore ==
  ASSUME NEW S, NEW seq \in Seq(S), NEW x \in S
  PROVE  Scan(<<>>) = Scanning /\ Scan(Append(seq, x)) = ScanToken(Scan(seq), x)
<1> PICK loop : loop = "scan"
  OBVIOUS
<1>1. loop \in Loops
  BY DEF Loops
<1>2. /\ Outcome(loop, <<>>) = Begin(loop)
      /\ Outcome(loop, Append(seq, x)) = Apply(loop, Outcome(loop, seq), x)
  BY <1>1, LoopGoesOn
<1> QED
  BY <1>2 DEF Outcome, Begin, Apply

LEMMA MatchMore ==
  ASSUME NEW S, NEW seq \in Seq(S), NEW x \in S
  PROVE  Matched(<<>>) = <<>> /\ Matched(Append(seq, x)) = Match(Matched(seq), x)
<1> PICK loop : loop = "match"
  OBVIOUS
<1>1. loop \in Loops
  BY DEF Loops
<1>2. /\ Outcome(loop, <<>>) = Begin(loop)
      /\ Outcome(loop, Append(seq, x)) = Apply(loop, Outcome(loop, seq), x)
  BY <1>1, LoopGoesOn
<1> QED
  BY <1>2 DEF Outcome, Begin, Apply

LEMMA CloseMore ==
  ASSUME NEW S, NEW entries \in Seq(S), NEW e \in S
  PROVE  Closers(<<>>) = <<>> /\ Closers(Append(entries, e)) = EndFirst(Closers(entries), e)
<1> PICK loop : loop = "close"
  OBVIOUS
<1>1. loop \in Loops
  BY DEF Loops
<1>2. /\ Outcome(loop, <<>>) = Begin(loop)
      /\ Outcome(loop, Append(entries, e)) = Apply(loop, Outcome(loop, entries), e)
  BY <1>1, LoopGoesOn
<1> QED
  BY <1>2 DEF Outcome, Begin, Apply

LEMMA JoinMore ==
  ASSUME NEW S, NEW seq \in Seq(S), NEW x \in S
  PROVE  Joined(<<>>) = <<>> /\ Joined(Append(seq, x)) = JoinPiece(Joined(seq), x)
<1> PICK loop : loop = "join"
  OBVIOUS
<1>1. loop \in Loops
  BY DEF Loops
<1>2. /\ Outcome(loop, <<>>) = Begin(loop)
      /\ Outcome(loop, Append(seq, x)) = Apply(loop, Outcome(loop, seq), x)
  BY <1>1, LoopGoesOn
<1> QED
  BY <1>2 DEF Outcome, Begin, Apply

LEMMA LoopsStart ==
  Read(<<>>) = Unread /\ Scan(<<>>) = Scanning /\ Matched(<<>>) = <<>> /\ Closers(<<>>) = <<>>
<1> PICK S, none, x : S = {0} /\ none = <<>> /\ x = 0
  OBVIOUS
<1>1. none \in Seq(S) /\ x \in S
  OBVIOUS
<1> QED
  BY <1>1, ReadMore, ScanMore, MatchMore, CloseMore

-----------------------------------------------------------------------------
(* The tokenizer *)

\* The element that starts at i has its end tag by n.
Closed(html, i, n) == \E j \in i+1..n : html[j] = End(html[i].tag)

\* The position lies inside a raw-text element of the tokens.
Skipped(toks, html, k) == \E i \in 1..k-1 : RawStart(toks[i]) /\ ~Closed(html, i, k)

\* The raw-text element that is open in the tokens.
RawOpen(toks, html, n, raw, i) ==
  /\ RawStart(toks[i]) /\ raw = html[i].tag /\ ~Closed(html, i, n)
  /\ \A h \in 1..n : RawStart(toks[h]) /\ h # i => Closed(html, h, n)

\* What has been read so far, and which raw-text element is open.
ReadSoFar(T, html, s, n) ==
  /\ s.read \in Seq(T \cup {Gap}) /\ Len(s.read) = n
  /\ \A k \in 1..n : s.read[k] = html[k] \/ s.read[k] = Gap
  /\ s.raw = NoTag => \A i \in 1..n : RawStart(s.read[i]) => Closed(html, i, n)
  /\ s.raw # NoTag => \E i \in 1..n : RawOpen(s.read, html, n, s.raw, i)
  /\ \A k \in 1..n : IsText(html[k]) => (s.read[k] = Gap <=> Skipped(s.read, html, k))

LEMMA ClosedLater ==
  ASSUME NEW html, NEW i \in Nat, NEW n \in Nat, i <= n
  PROVE  /\ Closed(html, i, n) => Closed(html, i, n + 1)
         /\ html[n + 1] = End(html[i].tag) => Closed(html, i, n + 1)
         /\ Closed(html, i, n + 1) => Closed(html, i, n) \/ html[n + 1] = End(html[i].tag)
<1>1. \A j \in Int : j \in (i + 1)..(n + 1) <=> j \in (i + 1)..n \/ j = n + 1
  OBVIOUS
<1> QED
  BY <1>1 DEF Closed

\* A token more, read as it is or skipped.
ReadsMore(T, html, r, n, y, more) ==
  /\ more \in Seq(T \cup {Gap}) /\ Len(more) = n + 1 /\ more[n + 1] = y
  /\ \A k \in 1..n : more[k] = r[k]
  /\ \A k \in 1..(n + 1) : more[k] = html[k] \/ more[k] = Gap
  /\ \A k \in 1..n : IsText(html[k]) => (more[k] = Gap <=> Skipped(more, html, k))

LEMMA ReadGoesOn ==
  ASSUME NEW T, NEW html, NEW n \in Nat, NEW s, ReadSoFar(T, html, s, n),
         NEW x \in T, x = html[n + 1], NEW y, y = x \/ y = Gap,
         NEW more, more = Append(s.read, y)
  PROVE  ReadsMore(T, html, s.read, n, y, more)
<1> PICK r : r = s.read
  OBVIOUS
<1>0. /\ r \in Seq(T \cup {Gap}) /\ Len(r) = n
      /\ \A k \in 1..n : r[k] = html[k] \/ r[k] = Gap
      /\ \A k \in 1..n : IsText(html[k]) => (r[k] = Gap <=> Skipped(r, html, k))
  BY DEF ReadSoFar
<1>1. /\ more \in Seq(T \cup {Gap}) /\ Len(more) = n + 1 /\ more[n + 1] = y
      /\ \A k \in 1..n : more[k] = r[k]
  BY <1>0
<1>2. \A k \in 1..(n + 1) : more[k] = html[k] \/ more[k] = Gap
  <2>1. \A k \in 1..(n + 1) : k \in 1..n \/ k = n + 1
    OBVIOUS
  <2> QED
    BY <1>0, <1>1, <2>1
<1>3. ASSUME NEW k \in 1..n PROVE Skipped(more, html, k) <=> Skipped(r, html, k)
  <2>1. \A i \in 1..(k - 1) : i \in 1..n
    OBVIOUS
  <2>2. \A i \in 1..(k - 1) : more[i] = r[i]
    BY <1>1, <2>1
  <2> QED
    BY <2>2 DEF Skipped
<1> QED
  BY <1>0, <1>1, <1>2, <1>3 DEF ReadsMore

LEMMA GapIsNone ==
  ASSUME NEW x, IsText(x) \/ x.kind = "end" \/ x = Gap
  PROVE  ~RawStart(x)
BY DEF IsText, RawStart, Gap

LEMMA PieceReads ==
  ASSUME NEW T, NEW html, NEW n \in Nat, NEW s, ReadSoFar(T, html, s, n),
         NEW x \in T, x = html[n + 1]
  PROVE  ReadSoFar(T, html, ReadPiece(s, x), n + 1)
<1> PICK r, y : r = s.read /\ y = IF s.raw # NoTag /\ x # End(s.raw) THEN Gap ELSE x
  OBVIOUS
<1> PICK more, next : more = Append(r, y) /\ next = ReadPiece(s, x)
  OBVIOUS
<1>0. /\ s.raw = NoTag => \A i \in 1..n : RawStart(r[i]) => Closed(html, i, n)
      /\ s.raw # NoTag => \E i \in 1..n : RawOpen(r, html, n, s.raw, i)
  BY DEF ReadSoFar
<1>1. /\ more \in Seq(T \cup {Gap}) /\ Len(more) = n + 1 /\ more[n + 1] = y
      /\ \A k \in 1..n : more[k] = r[k]
      /\ \A k \in 1..(n + 1) : more[k] = html[k] \/ more[k] = Gap
      /\ \A k \in 1..n : IsText(html[k]) => (more[k] = Gap <=> Skipped(more, html, k))
  <2>1. /\ n \in Nat /\ ReadSoFar(T, html, s, n) /\ x \in T /\ x = html[n + 1]
        /\ (y = x \/ y = Gap) /\ more = Append(s.read, y)
    OBVIOUS
  <2>2. ReadsMore(T, html, s.read, n, y, more)
    BY ONLY <2>1, ReadGoesOn
  <2> QED
    BY <2>2 DEF ReadsMore
<1>2. \A k \in 1..(n + 1) : k \in 1..n \/ k = n + 1
  OBVIOUS
<1>3. \A i \in 1..n : /\ Closed(html, i, n) => Closed(html, i, n + 1)
                      /\ x = End(html[i].tag) => Closed(html, i, n + 1)
                      /\ Closed(html, i, n + 1) => Closed(html, i, n) \/ x = End(html[i].tag)
  <2> SUFFICES ASSUME NEW i \in 1..n
               PROVE  /\ Closed(html, i, n) => Closed(html, i, n + 1)
                      /\ x = End(html[i].tag) => Closed(html, i, n + 1)
                      /\ Closed(html, i, n + 1) => Closed(html, i, n) \/ x = End(html[i].tag)
    OBVIOUS
  <2>1. i \in Nat /\ i <= n
    OBVIOUS
  <2> QED
    BY <2>1, ClosedLater
<1>4. Skipped(more, html, n + 1) <=> \E i \in 1..n : RawStart(r[i]) /\ ~Closed(html, i, n + 1)
  <2>1. (n + 1) - 1 = n
    OBVIOUS
  <2> QED
    BY <1>1, <2>1 DEF Skipped
<1>g. IsText(x) => x # Gap
  BY DEF IsText, Gap
<1>5. CASE s.raw # NoTag
  <2>1. PICK i \in 1..n : RawOpen(r, html, n, s.raw, i)
    BY <1>0, <1>5
  <2>2. CASE x = End(s.raw)
    <3>1. next = [read |-> more, raw |-> NoTag] /\ y = x
      BY <1>5, <2>2 DEF ReadPiece
    <3>2. x.kind = "end" /\ ~RawStart(y) /\ ~IsText(x)
      BY <2>2, <3>1, GapIsNone DEF End, IsText
    <3>3. \A h \in 1..n : RawStart(r[h]) => Closed(html, h, n + 1)
      BY <1>3, <2>1, <2>2 DEF RawOpen
    <3>4. \A h \in 1..(n + 1) : RawStart(more[h]) => Closed(html, h, n + 1)
      BY <1>1, <1>2, <3>2, <3>3
    <3>5. \A k \in 1..(n + 1) : IsText(html[k]) => (more[k] = Gap <=> Skipped(more, html, k))
      BY <1>1, <1>2, <3>2
    <3>6. next.read = more /\ next.raw = NoTag
      BY <3>1
    <3> QED
      BY <1>1, <3>4, <3>5, <3>6 DEF ReadSoFar
  <2>3. CASE x # End(s.raw)
    <3>1. next = [read |-> more, raw |-> s.raw] /\ y = Gap
      BY <1>5, <2>3 DEF ReadPiece
    <3>2. ~RawStart(y)
      BY <3>1, GapIsNone
    <3>3. ~Closed(html, i, n + 1)
      BY <1>3, <2>1, <2>3 DEF RawOpen
    <3>4. \A h \in 1..n : RawStart(r[h]) /\ h # i => Closed(html, h, n + 1)
      BY <1>3, <2>1 DEF RawOpen
    <3>5. i \in 1..(n + 1) /\ more[i] = r[i]
      BY <1>1
    <3>6. RawOpen(more, html, n + 1, s.raw, i)
      BY <1>1, <1>2, <2>1, <3>2, <3>3, <3>4, <3>5 DEF RawOpen
    <3>7. Skipped(more, html, n + 1)
      BY <1>4, <2>1, <3>3 DEF RawOpen
    <3>8. \A k \in 1..(n + 1) : IsText(html[k]) => (more[k] = Gap <=> Skipped(more, html, k))
      BY <1>1, <1>2, <3>1, <3>7
    <3>9. next.read = more /\ next.raw = s.raw
      BY <3>1
    <3> QED
      BY <1>1, <1>5, <3>5, <3>6, <3>8, <3>9 DEF ReadSoFar
  <2> QED
    BY <2>2, <2>3
<1>6. CASE s.raw = NoTag
  <2>1. next = [read |-> more, raw |-> IF RawStart(x) THEN x.tag ELSE NoTag] /\ y = x
    BY <1>6 DEF ReadPiece, RawStart
  <2>2. \A h \in 1..n : RawStart(r[h]) => Closed(html, h, n + 1)
    BY <1>0, <1>3, <1>6
  <2>3. ~Skipped(more, html, n + 1)
    BY <1>4, <2>2
  <2>4. \A k \in 1..(n + 1) : IsText(html[k]) => (more[k] = Gap <=> Skipped(more, html, k))
    BY <1>1, <1>2, <1>g, <2>1, <2>3
  <2>5. CASE RawStart(x)
    <3>1. next.read = more /\ next.raw = x.tag /\ x.tag # NoTag
      BY <2>1, <2>5, SanitiserConfig DEF RawStart, SanitiserConfig
    <3>2. n + 1 \in 1..(n + 1) /\ more[n + 1] = x
      BY <1>1, <2>1
    <3>3. ~Closed(html, n + 1, n + 1)
      BY DEF Closed
    <3>4. RawOpen(more, html, n + 1, x.tag, n + 1)
      BY <1>1, <1>2, <2>2, <2>5, <3>2, <3>3 DEF RawOpen
    <3> QED
      BY <1>1, <2>4, <3>1, <3>2, <3>4 DEF ReadSoFar
  <2>6. CASE ~RawStart(x)
    <3>1. next.read = more /\ next.raw = NoTag
      BY <2>1, <2>6
    <3>2. \A h \in 1..(n + 1) : RawStart(more[h]) => Closed(html, h, n + 1)
      BY <1>1, <1>2, <2>1, <2>2, <2>6
    <3> QED
      BY <1>1, <2>4, <3>1, <3>2 DEF ReadSoFar
  <2> QED
    BY <2>5, <2>6
<1> QED
  BY <1>5, <1>6

\* The states of the tokenizer.
Tokenizes(f, html, N) ==
  f[0] = Unread /\ \A n \in 1..N : f[n] = ReadPiece(f[n - 1], html[n])

LEMMA TokenizeRuns ==
  ASSUME NEW T, NEW html \in Seq(T)
  PROVE  \E f : Tokenizes(f, html, Len(html)) /\ Tokenize(html) = f[Len(html)].read
<1> PICK N, loop : N = Len(html) /\ loop = "read"
  OBVIOUS
<1>0. N \in Nat /\ loop \in Loops
  BY DEF Loops
<1>1. PICK f : Runs(loop, f, html) /\ f[N] = Outcome(loop, html)
  BY <1>0, RunEnds
<1>2. Tokenizes(f, html, N) /\ f[N] = Read(html)
  BY <1>1 DEF Runs, Outcome, Begin, Apply, Tokenizes
<1> QED
  BY <1>2 DEF Tokenize, Read, Unread

LEMMA TokenizesIs ==
  ASSUME NEW T, NEW html \in Seq(T), NEW N, N = Len(html), NEW f, Tokenizes(f, html, N)
  PROVE  \A n \in 0..N : ReadSoFar(T, html, f[n], n)
<1>0. N \in Nat /\ \A i \in 1..N : html[i] \in T
  OBVIOUS
<1> DEFINE G == {n \in 0..N : ReadSoFar(T, html, f[n], n)}
<1>1. 0 \in G
  <2>1. ReadSoFar(T, html, Unread, 0)
    BY DEF ReadSoFar, Unread
  <2> QED
    BY <1>0, <2>1 DEF Tokenizes
<1>2. ASSUME NEW n \in 1..N, n - 1 \in G PROVE n \in G
  <2> PICK m, s, x : m = n - 1 /\ s = f[m] /\ x = html[n]
    OBVIOUS
  <2>1. /\ ReadSoFar(T, html, s, m) /\ m \in Nat /\ m + 1 = n /\ n \in 0..N
        /\ x = html[m + 1] /\ x \in T
    BY <1>0, <1>2
  <2>2. ReadSoFar(T, html, ReadPiece(s, x), m + 1)
    BY ONLY <2>1, PieceReads
  <2>3. f[n] = ReadPiece(s, x)
    BY DEF Tokenizes
  <2> QED
    BY <2>1, <2>2, <2>3
<1> HIDE DEF G
<1>3. 0..N \subseteq G
  BY <1>0, <1>1, <1>2, BoundedInduction
<1> QED
  BY <1>3 DEF G

\* The tokens stand where they stand in what is written, but for the gaps in
\* raw-text elements.
LEMMA TokenizeReads ==
  ASSUME NEW T, NEW html \in Seq(T), NEW toks, toks = Tokenize(html)
  PROVE  /\ toks \in Seq(T \cup {Gap}) /\ Len(toks) = Len(html)
         /\ \A k \in 1..Len(html) : toks[k] = html[k] \/ toks[k] = Gap
         /\ \A k \in 1..Len(html) : IsText(html[k]) => (toks[k] = Gap <=> Skipped(toks, html, k))
<1> PICK N : N = Len(html)
  OBVIOUS
<1>0. N \in Nat /\ html \in Seq(T) /\ N = Len(html)
  OBVIOUS
<1>1. PICK f : Tokenizes(f, html, N) /\ toks = f[N].read
  BY TokenizeRuns
<1>2. \A n \in 0..N : ReadSoFar(T, html, f[n], n)
  BY ONLY <1>0, <1>1, TokenizesIs
<1>3. ReadSoFar(T, html, f[N], N)
  BY <1>0, <1>2
<1> QED
  BY <1>1, <1>3 DEF ReadSoFar

\* What opens no raw-text element is read as it is.
LEMMA TokenizeAgain ==
  ASSUME NEW T, NEW seq \in Seq(T), \A t \in T : ~RawStart(t)
  PROVE  Tokenize(seq) = seq
<1> PICK N : N = Len(seq)
  OBVIOUS
<1>0. N \in Nat /\ \A i \in 1..N : seq[i] \in T
  OBVIOUS
<1>1. PICK f : Tokenizes(f, seq, N) /\ Tokenize(seq) = f[N].read
  BY TokenizeRuns
<1> DEFINE Good(n) == /\ f[n].read \in Seq(T) /\ Len(f[n].read) = n /\ f[n].raw = NoTag
                      /\ \A i \in 1..n : f[n].read[i] = seq[i]
           G == {n \in 0..N : Good(n)}
<1>2. 0 \in G
  <2>1. f[0].read = <<>> /\ f[0].raw = NoTag
    BY <1>1 DEF Unread, Tokenizes
  <2>2. Good(0)
    BY <2>1
  <2> HIDE DEF Good
  <2> QED
    BY <1>0, <2>2
<1>3. ASSUME NEW n \in 1..N, n - 1 \in G PROVE n \in G
  <2>0. n \in 0..N /\ n - 1 \in Nat /\ seq[n] \in T /\ Good(n - 1)
    BY <1>0, <1>3
  <2> PICK r, more : r = f[n - 1].read /\ more = Append(r, seq[n])
    OBVIOUS
  <2>1. /\ more \in Seq(T) /\ Len(more) = n
        /\ \A i \in 1..n : more[i] = seq[i]
    BY <2>0
  <2>2. f[n] = [read |-> more, raw |-> NoTag]
    <3>1. ~RawStart(seq[n])
      BY <2>0
    <3>2. f[n] = ReadPiece(f[n - 1], seq[n])
      BY <1>1 DEF Tokenizes
    <3> QED
      BY <2>0, <3>1, <3>2 DEF ReadPiece, RawStart
  <2>3. f[n].read = more /\ f[n].raw = NoTag
    BY <2>2
  <2>4. Good(n)
    BY <2>0, <2>1, <2>3
  <2> HIDE DEF Good
  <2> QED
    BY <2>0, <2>4
<1> HIDE DEF G
<1>5. 0..N \subseteq G
  BY <1>0, <1>2, <1>3, BoundedInduction
<1>6. N \in 0..N /\ Good(N)
  BY <1>0, <1>5 DEF G
<1>8. /\ Tokenize(seq) \in Seq(T) /\ Len(Tokenize(seq)) = Len(seq)
      /\ \A i \in 1..Len(seq) : Tokenize(seq)[i] = seq[i]
  BY <1>1, <1>6
<1> QED
  BY <1>8, SeqEqual

-----------------------------------------------------------------------------
(* A second pass over what a pass has emitted *)

\* What the proofs use of a token: texts may be told apart by their attributes.
Kinds == {"text", "lt", "tail", "gap", "start", "end"}
Shaped(t) ==
  /\ t = [kind |-> t.kind, tag |-> t.tag, attrs |-> t.attrs, self |-> t.self]
  /\ t.kind \in Kinds
  /\ t.kind = "end" => t = End(t.tag)
  /\ t.kind # "start" => ~t.self

\* Tokens of which no allowed element is closed in its start tag.
Plain(T) ==
  \A t \in T : Shaped(t) /\ (t.self /\ t.tag \in Allowed => t.tag \in Void)

\* What is emitted for the tokens of a set, and what lies on the stack.
Made(T) ==
  {t \in T : IsText(t)}
    \cup {RenderStartTag(t.tag, t.attrs) : t \in {u \in T : u.kind = "start" /\ u.tag \in Allowed}}
    \cup {End(x) : x \in Allowed}
Entries(T) ==
  {[tag |-> t.tag, emitted |-> t.tag \in Allowed] : t \in {u \in T : u.tag \notin Void}}

\* The entries of emitted elements, and their names.
Emitted == {[tag |-> x, emitted |-> TRUE] : x \in Allowed}
Tags(stack) == [i \in DOMAIN stack |-> stack[i].tag]

Resumed(out, open) == [out |-> out, stack |-> open, dropTag |-> NoTag, dropDepth |-> 0]

\* A second pass emits what the first has, and keeps its open elements.
Rescans(T, out, stack) ==
  /\ out \in Seq(Made(T)) /\ stack \in Seq(Entries(T))
  /\ Scan(out) = Resumed(out, Keep(stack, Emitted))
  /\ Matched(out) = Tags(Keep(stack, Emitted))

LEMMA EntryKinds ==
  ASSUME NEW T, NEW e \in Entries(T)
  PROVE  /\ e.tag \notin Void
         /\ e \in Emitted \/ e \notin Emitted
         /\ e \in Emitted => e.emitted /\ e = [tag |-> e.tag, emitted |-> TRUE] /\ e.tag \in Allowed
         /\ e \notin Emitted => ~e.emitted
<1>1. PICK t \in T : t.tag \notin Void /\ e = [tag |-> t.tag, emitted |-> t.tag \in Allowed]
  BY DEF Entries
<1>2. CASE t.tag \in Allowed
  <2>1. (t.tag \in Allowed) = TRUE
    BY <1>2
  <2>2. e = [tag |-> t.tag, emitted |-> TRUE]
    BY <1>1, <2>1
  <2>3. e.emitted = TRUE /\ e.tag = t.tag /\ e \in Emitted
    BY <1>2, <2>2 DEF Emitted
  <2> QED
    BY <1>1, <1>2, <2>2, <2>3
<1>3. CASE t.tag \notin Allowed
  <2>1. (t.tag \in Allowed) = FALSE
    BY <1>3
  <2>2. e = [tag |-> t.tag, emitted |-> FALSE]
    BY <1>1, <2>1
  <2>3. e.emitted = FALSE /\ e.tag = t.tag /\ e \notin Emitted
    BY <1>3, <2>2 DEF Emitted
  <2> QED
    BY <1>1, <2>3
<1> QED
  BY <1>2, <1>3

\* A state with another output and stack.
With(s, out, stack) == [s EXCEPT !.out = out, !.stack = stack]

LEMMA ResumedFields ==
  ASSUME NEW out, NEW open, NEW s, s = Resumed(out, open)
  PROVE  s.out = out /\ s.stack = open /\ s.dropTag = NoTag
BY DEF Resumed

LEMMA ResumedEdits ==
  ASSUME NEW out, NEW open, NEW x, NEW y, NEW s, s = Resumed(out, open)
  PROVE  With(s, x, y) = Resumed(x, y)
<1>1. s = [out |-> out, stack |-> open, dropTag |-> NoTag, dropDepth |-> 0]
  BY DEF Resumed
<1>2. [s EXCEPT !.out = x] = [out |-> x, stack |-> open, dropTag |-> NoTag, dropDepth |-> 0]
  BY ONLY <1>1
<1>3. PICK q : q = [s EXCEPT !.out = x]
  OBVIOUS
<1>4. q = [out |-> x, stack |-> open, dropTag |-> NoTag, dropDepth |-> 0]
  BY <1>2, <1>3, Zenon
<1>5. [q EXCEPT !.stack = y] = [out |-> x, stack |-> y, dropTag |-> NoTag, dropDepth |-> 0]
  BY ONLY <1>4
<1>6. [s EXCEPT !.out = x, !.stack = y] = [q EXCEPT !.stack = y]
  BY ONLY <1>3
<1> QED
  BY <1>5, <1>6, Zenon DEF Resumed, With

\* Nothing has been emitted yet.
LEMMA RescanStarts ==
  ASSUME NEW T
  PROVE  Rescans(T, <<>>, <<>>)
<1>1. Keep(<<>>, Emitted) = <<>>
  BY KeepOfNothing
<1>2. Tags(<<>>) = <<>>
  BY DEF Tags
<1>3. Scan(<<>>) = Resumed(<<>>, <<>>) /\ Matched(<<>>) = <<>>
  BY LoopsStart DEF Scanning, Resumed
<1> QED
  BY <1>1, <1>2, <1>3 DEF Rescans

LEMMA TextRescans ==
  ASSUME NEW T, NEW out, NEW stack, Rescans(T, out, stack),
         NEW t \in T, IsText(t)
  PROVE  Rescans(T, Append(out, t), stack)
<1> PICK K : K = Keep(stack, Emitted)
  OBVIOUS
<1>1. t \in Made(T) /\ out \in Seq(Made(T)) /\ Append(out, t) \in Seq(Made(T))
  BY DEF Made, Rescans
<1>2. Scan(Append(out, t)) = ScanToken(Resumed(out, K), t)
  BY <1>1, ScanMore DEF Rescans
<1>3. ScanToken(Resumed(out, K), t) = Resumed(Append(out, t), K)
  BY DEF ScanToken, Resumed, IsText
<1>4. Matched(Append(out, t)) = Match(Tags(K), t)
  BY <1>1, MatchMore DEF Rescans
<1>5. Match(Tags(K), t) = Tags(K)
  BY DEF Match, IsText
<1> QED
  BY <1>1, <1>2, <1>3, <1>4, <1>5 DEF Rescans

\* A rendered start tag is rendered as it is.
LEMMA RenderAgain ==
  ASSUME NEW tag \in Allowed, NEW attrs, NEW R, R = RenderStartTag(tag, attrs)
  PROVE  /\ R.kind = "start" /\ R.tag = tag
         /\ R.self <=> tag \in Void
         /\ RenderStartTag(R.tag, R.attrs) = R
<1> PICK kept, own : kept = attrs \cap AllowedAttrs[tag] /\ own = AllowedAttrs[tag]
  OBVIOUS
<1>1. "rel" \notin own
  BY SanitiserConfig DEF SanitiserConfig
<1>2. R = Start(tag, IF "href" \in kept THEN kept \cup {"rel"} ELSE kept, tag \in Void)
  BY DEF RenderStartTag
<1>3. R.kind = "start" /\ R.tag = tag /\ (R.self <=> tag \in Void)
      /\ R.attrs = IF "href" \in kept THEN kept \cup {"rel"} ELSE kept
  <2> PICK a, v : a = (IF "href" \in kept THEN kept \cup {"rel"} ELSE kept) /\ v = (tag \in Void)
    OBVIOUS
  <2>1. R = [kind |-> "start", tag |-> tag, attrs |-> a, self |-> v]
    BY <1>2 DEF Start
  <2>2. R.kind = "start" /\ R.tag = tag /\ R.attrs = a /\ R.self = v
    BY <2>1
  <2>3. R.self <=> tag \in Void
    BY <2>2, Zenon
  <2> QED
    BY <2>2, <2>3
<1>4. R.attrs \cap own = kept
  BY <1>1, <1>3
<1>5. RenderStartTag(tag, R.attrs)
        = Start(tag, IF "href" \in kept THEN kept \cup {"rel"} ELSE kept, tag \in Void)
  BY <1>4 DEF RenderStartTag
<1> QED
  BY <1>2, <1>3, <1>5

LEMMA StartRescans ==
  ASSUME NEW T, NEW out, NEW stack, Rescans(T, out, stack),
         NEW t \in T, t.kind = "start", t.tag \in Allowed,
         NEW R, R = RenderStartTag(t.tag, t.attrs)
  PROVE  /\ t.tag \in Void => Rescans(T, Append(out, R), stack)
         /\ t.tag \notin Void =>
              Rescans(T, Append(out, R), Append(stack, [tag |-> t.tag, emitted |-> TRUE]))
<1> PICK K, e : K = Keep(stack, Emitted) /\ e = [tag |-> t.tag, emitted |-> TRUE]
  OBVIOUS
<1>0. /\ R.kind = "start" /\ R.tag = t.tag
      /\ R.self <=> t.tag \in Void
      /\ RenderStartTag(R.tag, R.attrs) = R
  BY RenderAgain
<1>1. R \in Made(T) /\ out \in Seq(Made(T)) /\ Append(out, R) \in Seq(Made(T))
  BY DEF Made, Rescans
<1>2. Scan(Append(out, R)) = ScanToken(Resumed(out, K), R)
  BY <1>1, ScanMore DEF Rescans
<1>3. ScanToken(Resumed(out, K), R) = OpenElement(Resumed(out, K), R)
  BY <1>0, SanitiserConfig DEF ScanToken, Resumed, SanitiserConfig
<1>4. Matched(Append(out, R)) = Match(Tags(K), R)
  BY <1>1, MatchMore DEF Rescans
<1>5. CASE t.tag \in Void
  <2>1. OpenElement(Resumed(out, K), R) = Resumed(Append(out, R), K)
    <3>1. IsVoid(R) /\ R.tag \in Allowed
      BY <1>0, <1>5 DEF IsVoid
    <3> PICK s : s = Resumed(out, K)
      OBVIOUS
    <3>2. s.out = out /\ s.stack = K
      BY ResumedFields
    <3>3. OpenElement(s, R) = With(s, Append(s.out, R), s.stack)
      BY <1>0, <3>1 DEF OpenElement, With
    <3>4. With(s, Append(out, R), K) = Resumed(Append(out, R), K)
      BY ResumedEdits
    <3> QED
      BY <3>2, <3>3, <3>4
  <2>2. Match(Tags(K), R) = Tags(K)
    BY <1>0, <1>5 DEF Match
  <2> QED
    BY <1>1, <1>2, <1>3, <1>4, <1>5, <2>1, <2>2 DEF Rescans
<1>6. CASE t.tag \notin Void
  <2>1. [tag |-> R.tag, emitted |-> R.tag \in Allowed] = e
    BY <1>0
  <2>2. OpenElement(Resumed(out, K), R) = Resumed(Append(out, R), Append(K, e))
    <3>1. ~IsVoid(R)
      BY <1>0, <1>6 DEF IsVoid
    <3>2. R.tag \in Allowed
      BY <1>0
    <3> PICK s : s = Resumed(out, K)
      OBVIOUS
    <3>3. s.out = out /\ s.stack = K
      BY ResumedFields
    <3>4. OpenElement(s, R) = With(s, Append(s.out, R), Append(s.stack, e))
      BY <1>0, <2>1, <3>1, <3>2 DEF OpenElement, With
    <3>5. With(s, Append(out, R), Append(K, e)) = Resumed(Append(out, R), Append(K, e))
      BY ResumedEdits
    <3> QED
      BY <3>3, <3>4, <3>5
  <2>3. e \in Entries(T) /\ e \in Emitted
    <3>1. (t.tag \in Allowed) = TRUE
      OBVIOUS
    <3>2. [tag |-> t.tag, emitted |-> t.tag \in Allowed] \in Entries(T)
      BY <1>6 DEF Entries
    <3> QED
      BY <3>1, <3>2 DEF Emitted
  <2>4. stack \in Seq(Entries(T)) /\ Append(stack, e) \in Seq(Entries(T)) /\ K \in Seq(Entries(T))
    BY <2>3, KeepFacts DEF Rescans
  <2>5. Keep(Append(stack, e), Emitted) = Append(K, e)
    <3> PICK S, kinds : S = Entries(T) /\ kinds = Emitted
      OBVIOUS
    <3>1. stack \in Seq(S) /\ e \in S /\ e \in kinds
      BY <2>3, <2>4
    <3>2. Keep(Append(stack, e), kinds) = Append(Keep(stack, kinds), e)
      BY ONLY <3>1, KeepMore
    <3> QED
      BY <3>2
  <2>6. Match(Tags(K), R) = Append(Tags(K), t.tag)
    BY <1>0, <1>6 DEF Match
  <2>7. Append(Tags(K), t.tag) = Tags(Append(K, e))
    BY <2>3, <2>4 DEF Tags
  <2> QED
    BY <1>1, <1>2, <1>3, <1>4, <1>6, <2>2, <2>4, <2>5, <2>6, <2>7 DEF Rescans
<1> QED
  BY <1>5, <1>6

\* The last element of a name in a list.
LastOf(list, tag) == SelectLastInSeq(list, LAMBDA e : e.tag = tag)

LEMMA LastOfRange ==
  ASSUME NEW S, NEW list \in Seq(S), NEW tag, NEW at, at = LastOf(list, tag)
  PROVE  /\ at \in 0..Len(list)
         /\ at = 0 => \A i \in 1..Len(list) : list[i].tag # tag
         /\ at # 0 => list[at].tag = tag /\ \A i \in 1..Len(list) : list[i].tag = tag => i <= at
<1> PICK N, I, m : N = Len(list) /\ I = {i \in 1..Len(list) : list[i].tag = tag} /\ m = Max(I)
  OBVIOUS
<1>0. N \in Nat
  OBVIOUS
<1>1. at = IF I # {} THEN m ELSE 0
  BY DEF LastOf, SelectLastInSeq
<1>2. CASE I = {}
  <2>1. at = 0
    BY <1>1, <1>2
  <2> QED
    BY <1>0, <1>2, <2>1
<1>3. CASE I # {}
  <2>1. I \in SUBSET (1..N)
    OBVIOUS
  <2>2. m \in I /\ \A y \in I : m >= y
    BY <1>0, <1>3, <2>1, GreatestIsIn
  <2>3. at = m /\ m \in 1..N /\ list[m].tag = tag
    BY <1>1, <1>3, <2>2
  <2>4. at # 0 /\ at \in 0..N
    BY <1>0, <2>3
  <2>5. \A i \in 1..N : list[i].tag = tag => i <= at
    <3> SUFFICES ASSUME NEW i \in 1..N, list[i].tag = tag PROVE i <= at
      OBVIOUS
    <3>1. i \in I
      OBVIOUS
    <3>2. m >= i
      BY <2>2, <3>1
    <3> QED
      BY <1>0, <2>3, <3>2
  <2> QED
    BY <2>3, <2>4, <2>5
<1> QED
  BY <1>2, <1>3

LEMMA LastOfName ==
  ASSUME NEW S, NEW list \in Seq(S), NEW e \in S
  PROVE  /\ LastOf(Append(list, e), e.tag) = Len(Append(list, e))
         /\ SubSeq(Append(list, e), Len(Append(list, e)), Len(Append(list, e))) = <<e>>
         /\ SubSeq(Append(list, e), 1, Len(Append(list, e)) - 1) = list
<1> PICK L, tag : L = Append(list, e) /\ tag = e.tag
  OBVIOUS
<1> PICK N, at : N = Len(L) /\ at = LastOf(L, tag)
  OBVIOUS
<1>0. L \in Seq(S) /\ N \in Nat /\ N = Len(list) + 1 /\ L[N] = e /\ N # 0 /\ Len(list) \in Nat
  OBVIOUS
<1>1. at = N
  <2>1. /\ at \in 0..N
        /\ at = 0 => \A i \in 1..N : L[i].tag # tag
        /\ at # 0 => \A i \in 1..N : L[i].tag = tag => i <= at
    <3>1. L \in Seq(S) /\ at = LastOf(L, tag)
      BY <1>0
    <3>2. /\ at \in 0..Len(L)
          /\ at = 0 => \A i \in 1..Len(L) : L[i].tag # tag
          /\ at # 0 => L[at].tag = tag /\ \A i \in 1..Len(L) : L[i].tag = tag => i <= at
      BY ONLY <3>1, LastOfRange
    <3> QED
      BY <3>2
  <2>2. N \in 1..N /\ L[N].tag = tag
    BY <1>0
  <2>3. at # 0
    BY <2>1, <2>2
  <2>4. N <= at
    BY <2>1, <2>2, <2>3
  <2> QED
    BY <1>0, <2>1, <2>4
<1>2. SubSeq(L, N, N) = <<e>>
  <2>1. /\ SubSeq(L, N, N) \in Seq(S)
        /\ Len(SubSeq(L, N, N)) = IF N <= N THEN N - N + 1 ELSE 0
        /\ \A i \in 1..(N - N + 1) : SubSeq(L, N, N)[i] = L[N + i - 1]
    <3>1. N \in Int /\ \A i \in N..N : L[i] \in S
      BY <1>0
    <3> QED
      BY <3>1, SubSeqProperties
  <2> PICK sub, one : sub = SubSeq(L, N, N) /\ one = <<e>>
    OBVIOUS
  <2>2. sub \in Seq(S) /\ Len(sub) = 1 /\ sub[1] = e
    <3>1. N - N + 1 = 1 /\ N + 1 - 1 = N /\ N <= N /\ 1 \in 1..1
      BY <1>0
    <3> QED
      BY <1>0, <2>1, <3>1
  <2>3. one \in Seq(S) /\ Len(one) = 1 /\ one[1] = e
    OBVIOUS
  <2>5. Len(sub) = Len(one) /\ \A i \in 1..Len(sub) : sub[i] = one[i]
    BY <2>2, <2>3
  <2>4. sub = one
    BY <2>2, <2>3, <2>5, SeqEqual
  <2> QED
    BY <2>4
<1>3. SubSeq(L, 1, N - 1) = list
  <2> PICK m : m = N - 1
    OBVIOUS
  <2>0. m = Len(list) /\ m \in Int /\ \A i \in 1..m : L[i] \in S /\ L[i] = list[i]
    BY <1>0
  <2>1. /\ SubSeq(L, 1, m) \in Seq(S)
        /\ Len(SubSeq(L, 1, m)) = IF 1 <= m THEN m - 1 + 1 ELSE 0
        /\ \A i \in 1..(m - 1 + 1) : SubSeq(L, 1, m)[i] = L[1 + i - 1]
    BY <2>0, SubSeqProperties
  <2> PICK sub : sub = SubSeq(L, 1, m)
    OBVIOUS
  <2>2. sub \in Seq(S) /\ Len(sub) = Len(list) /\ \A i \in 1..Len(sub) : sub[i] = list[i]
    BY <1>0, <2>0, <2>1
  <2>3. sub = list
    BY <2>2, SeqEqual
  <2> QED
    BY <2>3
<1> QED
  BY <1>1, <1>2, <1>3

\* The end tag of an open element closes this one alone.
LEMMA CloseRescans ==
  ASSUME NEW T, NEW out, NEW stack \in Seq(Entries(T)), NEW e \in Entries(T),
         Rescans(T, out, Append(stack, e))
  PROVE  /\ e \in Emitted => Rescans(T, Append(out, End(e.tag)), stack)
         /\ e \notin Emitted => Rescans(T, out, stack)
<1> PICK K, S, kinds : K = Keep(stack, Emitted) /\ S = Entries(T) /\ kinds = Emitted
  OBVIOUS
<1>0. stack \in Seq(S) /\ e \in S /\ K = Keep(stack, kinds) /\ K \in Seq(S)
  <2>1. stack \in Seq(S) /\ e \in S /\ K = Keep(stack, kinds)
    OBVIOUS
  <2> QED
    BY <2>1, KeepFacts
<1>k. /\ e \in kinds => Keep(Append(stack, e), kinds) = Append(K, e)
      /\ e \notin kinds => Keep(Append(stack, e), kinds) = K
  BY ONLY <1>0, KeepMore
<1>1. CASE e \notin Emitted
  BY <1>1, <1>k DEF Rescans
<1>2. CASE e \in Emitted
  <2> PICK L, x, tag : L = Append(K, e) /\ x = End(e.tag) /\ tag = e.tag
    OBVIOUS
  <2>1. Scan(out) = Resumed(out, L) /\ Matched(out) = Tags(L) /\ out \in Seq(Made(T))
    BY <1>2, <1>k DEF Rescans
  <2>2. tag \notin Void /\ tag \in Allowed /\ e = [tag |-> tag, emitted |-> TRUE]
    BY <1>2, EntryKinds
  <2>3. x \in Made(T) /\ Append(out, x) \in Seq(Made(T)) /\ out \o <<x>> = Append(out, x)
    <3>1. x \in Made(T)
      BY <2>2 DEF Made
    <3> QED
      BY <2>1, <3>1, AppendIsConcat
  <2>4. x.kind = "end" /\ x.tag = tag
    BY DEF End
  <2>5. /\ LastOf(L, tag) = Len(L)
        /\ SubSeq(L, Len(L), Len(L)) = <<e>>
        /\ SubSeq(L, 1, Len(L) - 1) = K
    <3>1. K \in Seq(S) /\ e \in S /\ e.tag = tag /\ L = Append(K, e)
      BY <1>0
    <3>2. /\ LastOf(Append(K, e), e.tag) = Len(Append(K, e))
          /\ SubSeq(Append(K, e), Len(Append(K, e)), Len(Append(K, e))) = <<e>>
          /\ SubSeq(Append(K, e), 1, Len(Append(K, e)) - 1) = K
      BY ONLY <3>1, LastOfName
    <3> QED
      BY ONLY <3>1, <3>2
  <2>6. Len(L) # 0 /\ Len(L) \in Nat /\ Len(L) = Len(K) + 1 /\ L \in Seq(S)
    BY <1>0
  <2>7. Closers(<<e>>) = <<x>>
    <3> PICK none : none = <<>>
      OBVIOUS
    <3>1. none \in Seq(S) /\ Append(none, e) = <<e>>
      OBVIOUS
    <3>2. Closers(Append(none, e)) = EndFirst(Closers(none), e)
      BY <1>0, <3>1, CloseMore
    <3>3. Closers(none) = <<>>
      BY LoopsStart
    <3>4. EndFirst(<<>>, e) = <<x>> \o <<>>
      BY <2>2 DEF EndFirst
    <3>5. <<x>> \o <<>> = <<x>>
      <4> PICK one : one = <<x>>
        OBVIOUS
      <4>1. one \in Seq({x})
        OBVIOUS
      <4>2. one \o <<>> = one
        BY <4>1, ConcatEmptySeq
      <4> QED
        BY <4>2
    <3> QED
      BY <3>1, <3>2, <3>3, <3>4, <3>5
  <2>8. ScanToken(Resumed(out, L), x) = Resumed(Append(out, x), K)
    <3> PICK s : s = Resumed(out, L)
      OBVIOUS
    <3>0. s = Resumed(out, L)
      OBVIOUS
    <3>1. s.out = out /\ s.stack = L /\ s.dropTag = NoTag
      BY ONLY <3>0, ResumedFields
    <3>2. ScanToken(s, x) = CloseElement(s, tag)
      BY <2>4, <3>1 DEF ScanToken
    <3>3. CloseElement(s, tag) = With(s, out \o Closers(<<e>>), K)
      <4>1. LastOf(s.stack, tag) = Len(L) /\ Len(L) # 0
        BY <2>5, <2>6, <3>1
      <4>2. CloseElement(s, tag)
              = With(s, s.out \o Closers(SubSeq(s.stack, Len(L), Len(s.stack))),
                        SubSeq(s.stack, 1, Len(L) - 1))
        BY <4>1 DEF CloseElement, With, LastOf
      <4> QED
        BY <2>5, <3>1, <4>2
    <3>5. s = Resumed(out, L)
      OBVIOUS
    <3>4. With(s, Append(out, x), K) = Resumed(Append(out, x), K)
      BY <3>5, ResumedEdits
    <3> QED
      BY <2>3, <2>7, <3>2, <3>3, <3>4
  <2>9. Match(Tags(L), x) = Tags(K)
    <3> PICK names : names = {y.tag : y \in S}
      OBVIOUS
    <3>1. Tags(K) \in Seq(names) /\ tag \in names /\ Tags(L) = Append(Tags(K), tag)
      BY <1>0 DEF Tags
    <3>2. Tags(L) # <<>> /\ Last(Tags(L)) = tag
      BY <3>1 DEF Last
    <3>3. Front(Tags(L)) = Tags(K)
      BY <3>1 DEF Front
    <3> QED
      BY <2>2, <2>4, <3>2, <3>3 DEF Match
  <2>10. Scan(Append(out, x)) = ScanToken(Scan(out), x) /\ Matched(Append(out, x)) = Match(Matched(out), x)
    BY <2>1, <2>3, ScanMore, MatchMore
  <2> QED
    BY <1>0, <1>2, <2>1, <2>3, <2>8, <2>9, <2>10 DEF Rescans
<1> QED
  BY <1>1, <1>2

\* What is emitted for a part of the stack is end tags of allowed elements.
LEMMA ClosersAreEnds ==
  ASSUME NEW T, NEW list \in Seq(Entries(T))
  PROVE  Closers(list) \in Seq({End(x) : x \in Allowed})
<1> PICK N, loop, E : N = Len(list) /\ loop = "close" /\ E = {End(x) : x \in Allowed}
  OBVIOUS
<1>0. N \in Nat /\ loop \in Loops /\ \A i \in 1..N : list[i] \in Entries(T)
  BY DEF Loops
<1>1. PICK f : Runs(loop, f, list) /\ f[N] = Outcome(loop, list)
  BY <1>0, RunEnds
<1>2. f[0] = <<>> /\ f[N] = Closers(list) /\ \A n \in 1..N : f[n] = EndFirst(f[n - 1], list[n])
  BY <1>1 DEF Runs, Outcome, Begin, Apply
<1> DEFINE G == {n \in 0..N : f[n] \in Seq(E)}
<1>3. 0 \in G
  <2>1. <<>> \in Seq(E) /\ f[0] = <<>> /\ 0 \in 0..N
    BY <1>0, <1>2
  <2> QED
    BY <2>1
<1>4. ASSUME NEW n \in 1..N, n - 1 \in G PROVE n \in G
  <2> PICK g, e : g = f[n - 1] /\ e = list[n]
    OBVIOUS
  <2>1. g \in Seq(E) /\ e \in Entries(T) /\ f[n] = EndFirst(g, e) /\ n \in 0..N
    BY <1>0, <1>2, <1>4
  <2>2. CASE e.emitted
    <3>1. e.tag \in Allowed
      BY <2>1, <2>2, EntryKinds
    <3>2. <<End(e.tag)>> \in Seq(E)
      BY <3>1
    <3>3. <<End(e.tag)>> \o g \in Seq(E)
      BY <2>1, <3>2, ConcatProperties
    <3>4. f[n] = <<End(e.tag)>> \o g
      BY <2>1, <2>2 DEF EndFirst
    <3> QED
      BY <2>1, <3>3, <3>4
  <2>3. CASE ~e.emitted
    <3>1. f[n] = g
      BY <2>1, <2>3 DEF EndFirst
    <3> QED
      BY <2>1, <3>1
  <2> QED
    BY <2>2, <2>3
<1> HIDE DEF G
<1>5. 0..N \subseteq G
  BY <1>0, <1>3, <1>4, BoundedInduction
<1> QED
  BY <1>0, <1>2, <1>5 DEF G

\* So do the end tags of the upper part of the stack, one after the other.
LEMMA ClosersRescan ==
  ASSUME NEW T, NEW out \in Seq(Made(T)), NEW A \in Seq(Entries(T)), NEW B \in Seq(Entries(T)),
         Rescans(T, out, A \o B)
  PROVE  Rescans(T, out \o Closers(B), A)
<1> PICK S, M : S = Entries(T) /\ M = Made(T)
  OBVIOUS
<1> DEFINE Good(n) == \A o \in Seq(M), a, b \in Seq(S) :
             Len(b) = n /\ Rescans(T, o, a \o b) => Rescans(T, o \o Closers(b), a)
           G == {n \in Nat : Good(n)}
<1>1. 0 \in G
  <2>1. ASSUME NEW o \in Seq(M), NEW a \in Seq(S), NEW b \in Seq(S), Len(b) = 0, Rescans(T, o, a \o b)
        PROVE  Rescans(T, o \o Closers(b), a)
    <3>1. b = <<>>
      BY <2>1
    <3>2. a \o b = a
      BY <3>1, ConcatEmptySeq
    <3>3. o \o Closers(b) = o
      BY <3>1, LoopsStart, ConcatEmptySeq
    <3> QED
      BY <2>1, <3>2, <3>3
  <2>2. Good(0)
    BY <2>1
  <2> HIDE DEF Good
  <2> QED
    BY <2>2
<1>2. ASSUME NEW n \in Nat, n \in G PROVE n + 1 \in G
  <2>0. Good(n)
    BY <1>2
  <2> HIDE DEF G
  <2>1. ASSUME NEW o \in Seq(M), NEW a \in Seq(S), NEW b \in Seq(S), Len(b) = n + 1,
               Rescans(T, o, a \o b)
        PROVE  Rescans(T, o \o Closers(b), a)
    <3>0. b # <<>>
      BY <2>1
    <3>1. PICK front \in Seq(S), e \in S : b = Append(front, e) /\ Len(front) = Len(b) - 1
      BY <3>0, SplitLast
    <3>2. Len(front) = n
      BY <2>1, <3>1
    <3>3. a \o b = Append(a \o front, e) /\ a \o front \in Seq(S)
      BY <3>1, ConcatOfAppend, ConcatProperties
    <3>4. Closers(b) = EndFirst(Closers(front), e)
      BY <3>1, CloseMore
    <3>5. Closers(front) \in Seq(M)
      <4>1. front \in Seq(Entries(T))
        BY <3>1
      <4>2. Closers(front) \in Seq({End(x) : x \in Allowed})
        BY <4>1, ClosersAreEnds
      <4>3. {End(x) : x \in Allowed} \subseteq M
        BY DEF Made
      <4> QED
        BY <4>2, <4>3
    <3>6. CASE e \in Emitted
      <4> PICK x : x = End(e.tag)
        OBVIOUS
      <4>1. Rescans(T, Append(o, x), a \o front)
        BY <2>1, <3>3, <3>6, CloseRescans
      <4>2. Append(o, x) \in Seq(M)
        BY <4>1 DEF Rescans
      <4>3. Rescans(T, Append(o, x) \o Closers(front), a)
        BY <2>0, <3>2, <4>1, <4>2
      <4>4. Closers(b) = <<x>> \o Closers(front)
        BY <3>4, <3>6, EntryKinds DEF EndFirst
      <4>5. x \in M
        BY <3>6, EntryKinds DEF Made
      <4>6. o \o (<<x>> \o Closers(front)) = Append(o, x) \o Closers(front)
        <5> PICK rest : rest = Closers(front)
          OBVIOUS
        <5>1. o \in Seq(M) /\ rest \in Seq(M) /\ x \in M
          BY <3>5, <4>5
        <5>2. o \o (<<x>> \o rest) = Append(o, x) \o rest
          BY ONLY <5>1, ConcatOfPrepend
        <5> QED
          BY <5>2
      <4> QED
        BY <4>3, <4>4, <4>6
    <3>7. CASE e \notin Emitted
      <4> PICK rest : rest = a \o front
        OBVIOUS
      <4>0. rest \in Seq(Entries(T)) /\ e \in Entries(T) /\ Rescans(T, o, Append(rest, e))
        BY <2>1, <3>3
      <4>1. Rescans(T, o, rest)
        BY <3>7, <4>0, CloseRescans
      <4>2. Rescans(T, o \o Closers(front), a)
        BY <2>0, <3>2, <4>1
      <4>3. Closers(b) = Closers(front)
        BY <3>4, <3>7, EntryKinds DEF EndFirst
      <4> QED
        BY <4>2, <4>3
    <3> QED
      BY <3>6, <3>7
  <2>2. Good(n + 1)
    BY <2>1
  <2> HIDE DEF Good
  <2> QED
    BY <2>2 DEF G
<1> HIDE DEF G
<1>3. Nat \subseteq G
  BY <1>1, <1>2, SetInduction
<1>4. Good(Len(B))
  BY <1>3 DEF G
<1> QED
  BY <1>4

-----------------------------------------------------------------------------
(* The scan of a body *)

IsScan(s) ==
  s = [out |-> s.out, stack |-> s.stack, dropTag |-> s.dropTag, dropDepth |-> s.dropDepth]

\* What has been emitted and what is open.
Scans(T, s) == IsScan(s) /\ s.out \in Seq(Made(T)) /\ s.stack \in Seq(Entries(T))

LEMMA WithFields ==
  ASSUME NEW s, IsScan(s), NEW out, NEW stack
  PROVE  /\ IsScan(With(s, out, stack))
         /\ With(s, out, stack).out = out
         /\ With(s, out, stack).stack = stack
         /\ With(s, out, stack).dropTag = s.dropTag
<1> PICK o, k, tag, depth : o = s.out /\ k = s.stack /\ tag = s.dropTag /\ depth = s.dropDepth
  OBVIOUS
<1>1. s = [out |-> o, stack |-> k, dropTag |-> tag, dropDepth |-> depth]
  BY Zenon DEF IsScan
<1>2. [s EXCEPT !.out = out] = [out |-> out, stack |-> k, dropTag |-> tag, dropDepth |-> depth]
  BY ONLY <1>1
<1>3. PICK q : q = [s EXCEPT !.out = out]
  OBVIOUS
<1>4. q = [out |-> out, stack |-> k, dropTag |-> tag, dropDepth |-> depth]
  BY <1>2, <1>3, Zenon
<1>5. [q EXCEPT !.stack = stack]
        = [out |-> out, stack |-> stack, dropTag |-> tag, dropDepth |-> depth]
  BY ONLY <1>4
<1>6. [s EXCEPT !.out = out, !.stack = stack] = [q EXCEPT !.stack = stack]
  BY ONLY <1>3
<1>7. With(s, out, stack) = [out |-> out, stack |-> stack, dropTag |-> tag, dropDepth |-> depth]
  BY <1>5, <1>6, Zenon DEF With
<1> QED
  BY ONLY <1>7, tag = s.dropTag DEF IsScan

\* A state with another region that is left out.
Dropping(s, tag, depth) == [s EXCEPT !.dropTag = tag, !.dropDepth = depth]
Skipping(s, tag, depth) == [s EXCEPT !.dropDepth = depth, !.dropTag = tag]

LEMMA DroppingFields ==
  ASSUME NEW s, IsScan(s), NEW tag, NEW depth
  PROVE  /\ IsScan(Dropping(s, tag, depth))
         /\ Dropping(s, tag, depth).out = s.out
         /\ Dropping(s, tag, depth).stack = s.stack
         /\ Dropping(s, tag, depth).dropTag = tag
         /\ Dropping(s, tag, depth).dropDepth = depth
         /\ Skipping(s, tag, depth) = Dropping(s, tag, depth)
<1> PICK o, k, g, d : o = s.out /\ k = s.stack /\ g = s.dropTag /\ d = s.dropDepth
  OBVIOUS
<1>1. s = [out |-> o, stack |-> k, dropTag |-> g, dropDepth |-> d]
  BY Zenon DEF IsScan
<1>2. [s EXCEPT !.dropTag = tag] = [out |-> o, stack |-> k, dropTag |-> tag, dropDepth |-> d]
  BY ONLY <1>1
<1>3. [s EXCEPT !.dropDepth = depth] = [out |-> o, stack |-> k, dropTag |-> g, dropDepth |-> depth]
  BY ONLY <1>1
<1> PICK p, q : p = [s EXCEPT !.dropTag = tag] /\ q = [s EXCEPT !.dropDepth = depth]
  OBVIOUS
<1>4. p = [out |-> o, stack |-> k, dropTag |-> tag, dropDepth |-> d]
  BY <1>2, Zenon
<1>5. q = [out |-> o, stack |-> k, dropTag |-> g, dropDepth |-> depth]
  BY <1>3, Zenon
<1>6. [p EXCEPT !.dropDepth = depth] = [out |-> o, stack |-> k, dropTag |-> tag, dropDepth |-> depth]
  BY ONLY <1>4
<1>7. [q EXCEPT !.dropTag = tag] = [out |-> o, stack |-> k, dropTag |-> tag, dropDepth |-> depth]
  BY ONLY <1>5
<1>8. p = [s EXCEPT !.dropTag = tag] /\ q = [s EXCEPT !.dropDepth = depth]
  OBVIOUS
<1>9. Dropping(s, tag, depth) = [p EXCEPT !.dropDepth = depth]
  BY ONLY <1>8 DEF Dropping
<1>10. Skipping(s, tag, depth) = [q EXCEPT !.dropTag = tag]
  BY ONLY <1>8 DEF Skipping
<1>11. Dropping(s, tag, depth)
         = [out |-> o, stack |-> k, dropTag |-> tag, dropDepth |-> depth]
  BY <1>6, <1>9, Zenon
<1>12. o = s.out /\ k = s.stack
  OBVIOUS
<1>13. Skipping(s, tag, depth) = Dropping(s, tag, depth)
  BY <1>7, <1>10, <1>11, Zenon
<1>14. /\ IsScan(Dropping(s, tag, depth))
       /\ Dropping(s, tag, depth).out = s.out
       /\ Dropping(s, tag, depth).stack = s.stack
       /\ Dropping(s, tag, depth).dropTag = tag
       /\ Dropping(s, tag, depth).dropDepth = depth
  BY ONLY <1>11, <1>12 DEF IsScan
<1> QED
  BY <1>13, <1>14

\* The depth of the region that is left out, after one more of its tokens.
DepthWith(s, t) ==
  IF t.kind = "start" /\ t.tag = s.dropTag /\ ~t.self THEN s.dropDepth + 1
  ELSE IF t.kind = "end" /\ t.tag = s.dropTag THEN s.dropDepth - 1
  ELSE s.dropDepth

\* Inside a region nothing is emitted, opened or closed.
LEMMA SkipFields ==
  ASSUME NEW s, IsScan(s), NEW t, t.kind \in Kinds
  PROVE  /\ IsScan(SkipToken(s, t))
         /\ SkipToken(s, t).out = s.out
         /\ SkipToken(s, t).stack = s.stack
         /\ DepthWith(s, t) = 0 => SkipToken(s, t).dropTag = NoTag
         /\ DepthWith(s, t) # 0 => /\ SkipToken(s, t).dropTag = s.dropTag
                                   /\ SkipToken(s, t).dropDepth = DepthWith(s, t)
<1> PICK d, g : d = DepthWith(s, t) /\ g = IF d = 0 THEN NoTag ELSE s.dropTag
  OBVIOUS
<1>0. /\ IsScan(Dropping(s, g, d)) /\ Dropping(s, g, d).out = s.out
      /\ Dropping(s, g, d).stack = s.stack
      /\ Dropping(s, g, d).dropTag = g /\ Dropping(s, g, d).dropDepth = d
      /\ Skipping(s, g, d) = Dropping(s, g, d)
  <2>1. IsScan(s)
    OBVIOUS
  <2> QED
    BY ONLY <2>1, DroppingFields
<1>1. SkipToken(s, t) = Dropping(s, g, d)
  <2>1. d = CASE t.kind = "start" /\ t.tag = s.dropTag /\ ~t.self -> s.dropDepth + 1
              [] t.kind = "end" /\ t.tag = s.dropTag -> s.dropDepth - 1
              [] OTHER -> s.dropDepth
    BY DEF DepthWith
  <2>2. SkipToken(s, t) = Skipping(s, g, d)
    BY <2>1 DEF SkipToken, Skipping
  <2> QED
    BY <1>0, <2>2
<1> QED
  BY <1>0, <1>1

\* Outside of every region a token is emitted, opened or closed, or opens one.
ClosedAt(s, at) ==
  With(s, s.out \o Closers(SubSeq(s.stack, at, Len(s.stack))), SubSeq(s.stack, 1, at - 1))
OpenedBy(s, t) ==
  With(s, IF t.tag \in Allowed THEN Append(s.out, RenderStartTag(t.tag, t.attrs)) ELSE s.out,
       IF IsVoid(t) THEN s.stack
       ELSE Append(s.stack, [tag |-> t.tag, emitted |-> t.tag \in Allowed]))

LEMMA CloseElementIs ==
  ASSUME NEW s, NEW tag
  PROVE  /\ LastOf(s.stack, tag) = 0 => CloseElement(s, tag) = s
         /\ LastOf(s.stack, tag) # 0 => CloseElement(s, tag) = ClosedAt(s, LastOf(s.stack, tag))
BY DEF CloseElement, LastOf, ClosedAt, With

LEMMA OpenElementIs ==
  ASSUME NEW s, NEW t
  PROVE  OpenElement(s, t) = OpenedBy(s, t)
BY DEF OpenElement, OpenedBy, With

\* What a token does to the output and the stack, and to the region that is
\* left out.
Opened(s, t, next) ==
  /\ next.out = IF t.tag \in Allowed THEN Append(s.out, RenderStartTag(t.tag, t.attrs)) ELSE s.out
  /\ next.stack = IF IsVoid(t) THEN s.stack
                  ELSE Append(s.stack, [tag |-> t.tag, emitted |-> t.tag \in Allowed])
ClosedFrom(s, at, next) ==
  /\ next.out = s.out \o Closers(SubSeq(s.stack, at, Len(s.stack)))
  /\ next.stack = SubSeq(s.stack, 1, at - 1)
Untouched(s, next) == next.out = s.out /\ next.stack = s.stack

Stepped(s, t, next) ==
  /\ IsScan(next)
  /\ s.dropTag # NoTag => Untouched(s, next) /\ next = SkipToken(s, t)
  /\ s.dropTag = NoTag =>
       /\ t.kind = "gap" => Untouched(s, next) /\ next.dropTag = NoTag
       /\ IsText(t) =>
            next.out = Append(s.out, t) /\ next.stack = s.stack /\ next.dropTag = NoTag
       /\ t.kind = "start" /\ t.tag \in Dropped =>
            /\ Untouched(s, next)
            /\ IsVoid(t) => next.dropTag = NoTag
            /\ ~IsVoid(t) => next.dropTag = t.tag /\ next.dropDepth = 1
       /\ t.kind = "start" /\ t.tag \notin Dropped => Opened(s, t, next) /\ next.dropTag = NoTag
       /\ t.kind = "end" =>
            /\ LastOf(s.stack, t.tag) = 0 => Untouched(s, next)
            /\ LastOf(s.stack, t.tag) # 0 => ClosedFrom(s, LastOf(s.stack, t.tag), next)
            /\ next.dropTag = NoTag

LEMMA StepIs ==
  ASSUME NEW s, IsScan(s), NEW t, t.kind \in Kinds,
         NEW next, next = ScanToken(s, t)
  PROVE  Stepped(s, t, next)
<1>0. IsScan(s) /\ t.kind \in Kinds
  OBVIOUS
<1>1. CASE s.dropTag # NoTag
  <2>1. next = SkipToken(s, t)
    BY <1>1 DEF ScanToken
  <2>2. IsScan(next) /\ next.out = s.out /\ next.stack = s.stack
    BY ONLY <1>0, <2>1, SkipFields
  <2> QED
    BY <1>1, <2>1, <2>2 DEF Stepped, Untouched
<1>2. CASE s.dropTag = NoTag /\ IsText(t)
  <2>1. next = [s EXCEPT !.out = Append(s.out, t)]
    BY <1>2 DEF ScanToken, IsText
  <2> PICK out, stack, tag, depth, more :
        /\ out = s.out /\ stack = s.stack /\ tag = s.dropTag /\ depth = s.dropDepth
        /\ more = Append(s.out, t)
    OBVIOUS
  <2>2. s = [out |-> out, stack |-> stack, dropTag |-> tag, dropDepth |-> depth]
    BY Zenon DEF IsScan
  <2>3. next = [s EXCEPT !.out = more]
    BY <2>1
  <2>4. next = [out |-> more, stack |-> stack, dropTag |-> tag, dropDepth |-> depth]
    BY ONLY <2>2, <2>3
  <2>5. IsScan(next) /\ next.out = more /\ next.stack = stack /\ next.dropTag = tag
    BY ONLY <2>4 DEF IsScan
  <2> QED
    BY <1>2, <2>5 DEF Stepped, IsText
<1>3. CASE s.dropTag = NoTag /\ t.kind = "start" /\ t.tag \in Dropped
  <2>1. next = OpenDropped(s, t)
    BY <1>3 DEF ScanToken
  <2>2. CASE IsVoid(t)
    <3>1. next = s
      BY <2>1, <2>2 DEF OpenDropped
    <3> QED
      BY <1>3, <2>2, <3>1 DEF Stepped, Untouched, IsText
  <2>3. CASE ~IsVoid(t)
    <3> PICK tag : tag = t.tag
      OBVIOUS
    <3>1. next = Dropping(s, tag, 1)
      BY <2>1, <2>3 DEF OpenDropped, Dropping
    <3>2. IsScan(next) /\ next.out = s.out /\ next.stack = s.stack /\ next.dropTag = tag
          /\ next.dropDepth = 1
      BY ONLY <1>0, <3>1, DroppingFields
    <3> QED
      BY <1>3, <2>3, <3>2 DEF Stepped, Untouched, IsText
  <2> QED
    BY <2>2, <2>3
<1>4. CASE s.dropTag = NoTag /\ t.kind = "start" /\ t.tag \notin Dropped
  <2> PICK o, k :
        /\ o = (IF t.tag \in Allowed THEN Append(s.out, RenderStartTag(t.tag, t.attrs)) ELSE s.out)
        /\ k = (IF IsVoid(t) THEN s.stack
                ELSE Append(s.stack, [tag |-> t.tag, emitted |-> t.tag \in Allowed]))
    OBVIOUS
  <2>1. next = With(s, o, k)
    <3>1. next = OpenElement(s, t)
      BY <1>4 DEF ScanToken
    <3> QED
      BY <3>1, OpenElementIs DEF OpenedBy
  <2>2. IsScan(next) /\ next.out = o /\ next.stack = k /\ next.dropTag = s.dropTag
    BY ONLY <1>0, <2>1, WithFields
  <2>3. Opened(s, t, next)
    BY <2>2 DEF Opened
  <2> QED
    BY <1>4, <2>2, <2>3 DEF Stepped, IsText
<1>5. CASE s.dropTag = NoTag /\ t.kind = "end"
  <2> PICK at, tag : at = LastOf(s.stack, tag) /\ tag = t.tag
    OBVIOUS
  <2>1. next = CloseElement(s, tag)
    BY <1>5 DEF ScanToken
  <2>2. CASE at = 0
    <3>1. next = s
      BY <2>1, <2>2, CloseElementIs
    <3> QED
      BY <1>5, <2>2, <3>1 DEF Stepped, Untouched, IsText
  <2>3. CASE at # 0
    <3> PICK o, k : o = s.out \o Closers(SubSeq(s.stack, at, Len(s.stack)))
                    /\ k = SubSeq(s.stack, 1, at - 1)
      OBVIOUS
    <3>1. next = With(s, o, k)
      BY <2>1, <2>3, CloseElementIs DEF ClosedAt
    <3>2. IsScan(next) /\ next.out = o /\ next.stack = k /\ next.dropTag = s.dropTag
      BY ONLY <1>0, <3>1, WithFields
    <3>3. ClosedFrom(s, at, next)
      BY <3>2 DEF ClosedFrom
    <3> QED
      BY <1>5, <2>3, <3>2, <3>3 DEF Stepped, IsText
  <2> QED
    BY <2>2, <2>3
<1>6. CASE s.dropTag = NoTag /\ t.kind = "gap"
  <2>1. next = s
    BY <1>6 DEF ScanToken, IsText, Kinds
  <2> QED
    BY <1>6, <2>1 DEF Stepped, Untouched, IsText
<1> QED
  BY <1>0, <1>1, <1>2, <1>3, <1>4, <1>5, <1>6 DEF Kinds, IsText

\* A list is cut where an element is closed.
LEMMA CutAt ==
  ASSUME NEW S, NEW stack \in Seq(S), NEW tag, NEW at, at = LastOf(stack, tag), at # 0
  PROVE  /\ SubSeq(stack, 1, at - 1) \in Seq(S)
         /\ SubSeq(stack, at, Len(stack)) \in Seq(S)
         /\ stack = SubSeq(stack, 1, at - 1) \o SubSeq(stack, at, Len(stack))
<1> PICK N, j : N = Len(stack) /\ j = at - 1
  OBVIOUS
<1>1. at \in 0..N /\ N \in Nat
  BY LastOfRange
<1>2. j \in 0..N /\ j + 1 = at
  BY <1>1
<1> QED
  BY <1>2, SplitAt

LEMMA StepRescans ==
  ASSUME NEW T, Plain(T), NEW s, IsScan(s), Rescans(T, s.out, s.stack), NEW t \in T,
         NEW next, next = ScanToken(s, t)
  PROVE  IsScan(next) /\ Rescans(T, next.out, next.stack)
<1>0. t.kind \in Kinds /\ IsScan(s) /\ next = ScanToken(s, t)
  BY DEF Plain, Shaped
<1>s. Stepped(s, t, next)
  BY ONLY <1>0, StepIs
<1> PICK out, stack : out = s.out /\ stack = s.stack
  OBVIOUS
<1>r. Rescans(T, out, stack) /\ out \in Seq(Made(T)) /\ stack \in Seq(Entries(T))
  BY DEF Rescans
<1>1. CASE Untouched(s, next)
  BY <1>s, <1>1 DEF Stepped, Untouched
<1>2. CASE s.dropTag = NoTag /\ IsText(t)
  <2>1. Rescans(T, Append(out, t), stack)
    BY <1>2, <1>r, TextRescans
  <2> QED
    BY <1>2, <1>s, <2>1 DEF Stepped
<1>3. CASE s.dropTag = NoTag /\ t.kind = "start" /\ t.tag \notin Dropped
  <2> PICK R, e : /\ R = RenderStartTag(t.tag, t.attrs)
                  /\ e = [tag |-> t.tag, emitted |-> t.tag \in Allowed]
    OBVIOUS
  <2>1. /\ IsScan(next)
        /\ next.out = IF t.tag \in Allowed THEN Append(out, R) ELSE out
        /\ next.stack = IF IsVoid(t) THEN stack ELSE Append(stack, e)
    BY <1>3, <1>s DEF Stepped, Opened
  <2>2. CASE t.tag \in Allowed
    <3>1. next.out = Append(out, R)
      BY <2>1, <2>2
    <3>2. IsVoid(t) <=> t.tag \in Void
      BY <2>2 DEF IsVoid, Plain
    <3>3. e = [tag |-> t.tag, emitted |-> TRUE]
      <4>1. (t.tag \in Allowed) = TRUE
        BY <2>2
      <4> QED
        BY <4>1
    <3>4. t \in T /\ t.kind = "start" /\ t.tag \in Allowed /\ R = RenderStartTag(t.tag, t.attrs)
      BY <1>3, <2>2
    <3>5. /\ t.tag \in Void => Rescans(T, Append(out, R), stack)
          /\ t.tag \notin Void =>
               Rescans(T, Append(out, R), Append(stack, [tag |-> t.tag, emitted |-> TRUE]))
      BY ONLY <1>r, <3>4, StartRescans
    <3>6. next.stack = IF t.tag \in Void THEN stack ELSE Append(stack, e)
      BY <2>1, <3>2
    <3> QED
      BY <2>1, <3>1, <3>3, <3>5, <3>6
  <2>3. CASE t.tag \notin Allowed
    <3>1. next.out = out
      BY <2>1, <2>3
    <3>2. CASE IsVoid(t)
      BY <1>r, <2>1, <3>1, <3>2
    <3>3. CASE ~IsVoid(t)
      <4> PICK S, kinds, more : S = Entries(T) /\ kinds = Emitted /\ more = Append(stack, e)
        OBVIOUS
      <4>1. e \in S
        BY <3>3 DEF Entries, IsVoid
      <4>2. e \notin kinds
        <5>1. e.tag = t.tag
          OBVIOUS
        <5> QED
          BY <2>3, <5>1 DEF Emitted
      <4>3. stack \in Seq(S) /\ more \in Seq(S) /\ next.stack = more
        BY <1>r, <2>1, <3>3, <4>1
      <4>4. Keep(Append(stack, e), kinds) = Keep(stack, kinds)
        BY ONLY <4>1, <4>2, <4>3, KeepMore
      <4>5. Rescans(T, out, more)
        BY <1>r, <4>3, <4>4 DEF Rescans
      <4> QED
        BY <2>1, <3>1, <4>3, <4>5
    <3> QED
      BY <3>2, <3>3
  <2> QED
    BY <2>2, <2>3
<1>4. CASE s.dropTag = NoTag /\ t.kind = "end" /\ LastOf(stack, t.tag) # 0
  <2> PICK at, tag, A, B : /\ at = LastOf(stack, tag) /\ tag = t.tag
                           /\ A = SubSeq(stack, 1, at - 1) /\ B = SubSeq(stack, at, Len(stack))
    OBVIOUS
  <2>1. IsScan(next) /\ next.out = out \o Closers(B) /\ next.stack = A
    BY <1>4, <1>s DEF Stepped, ClosedFrom
  <2>2. A \in Seq(Entries(T)) /\ B \in Seq(Entries(T)) /\ stack = A \o B
    <3>1. stack \in Seq(Entries(T)) /\ at = LastOf(stack, tag) /\ at # 0
      BY <1>4, <1>r
    <3>2. /\ SubSeq(stack, 1, at - 1) \in Seq(Entries(T))
          /\ SubSeq(stack, at, Len(stack)) \in Seq(Entries(T))
          /\ stack = SubSeq(stack, 1, at - 1) \o SubSeq(stack, at, Len(stack))
      BY ONLY <3>1, CutAt
    <3> QED
      BY <3>2
  <2>3. Rescans(T, out, A \o B)
    BY <1>r, <2>2
  <2>4. Rescans(T, out \o Closers(B), A)
    BY ONLY <1>r, <2>2, <2>3, ClosersRescan
  <2> QED
    BY <2>1, <2>4
<1> QED
  BY <1>0, <1>1, <1>2, <1>3, <1>4, <1>s DEF Stepped, IsText, Kinds

\* A pass over plain tokens gives what a second pass leaves as it is.
LEMMA PassIsFinal ==
  ASSUME NEW T, Plain(T), NEW toks \in Seq(T), NEW end, end = Scan(toks),
         NEW out, out = end.out \o Closers(end.stack)
  PROVE  Rescans(T, out, <<>>)
<1> PICK N, loop : N = Len(toks) /\ loop = "scan"
  OBVIOUS
<1>0. N \in Nat /\ loop \in Loops /\ \A i \in 1..N : toks[i] \in T
  BY DEF Loops
<1>1. PICK f : Runs(loop, f, toks) /\ f[N] = Outcome(loop, toks)
  BY <1>0, RunEnds
<1>2. f[0] = Scanning /\ f[N] = end /\ \A n \in 1..N : f[n] = ScanToken(f[n - 1], toks[n])
  BY <1>1 DEF Runs, Outcome, Begin, Apply
<1> DEFINE Good(s) == IsScan(s) /\ Rescans(T, s.out, s.stack)
           G == {n \in 0..N : Good(f[n])}
<1>3. 0 \in G
  <2>1. Scanning.out = <<>> /\ Scanning.stack = <<>> /\ IsScan(Scanning)
    BY DEF Scanning, IsScan
  <2>2. Good(f[0])
    BY <1>2, <2>1, RescanStarts
  <2> HIDE DEF Good
  <2> QED
    BY <1>0, <2>2
<1>4. ASSUME NEW n \in 1..N, n - 1 \in G PROVE n \in G
  <2> PICK s, t, next : s = f[n - 1] /\ t = toks[n] /\ next = f[n]
    OBVIOUS
  <2>1. n \in 0..N /\ IsScan(s) /\ Rescans(T, s.out, s.stack) /\ t \in T /\ next = ScanToken(s, t)
    BY <1>0, <1>2, <1>4
  <2>2. Plain(T)
    OBVIOUS
  <2>3. Good(next)
    BY ONLY <2>1, <2>2, StepRescans
  <2> HIDE DEF Good
  <2> QED
    BY <2>1, <2>3
<1> HIDE DEF G
<1>5. 0..N \subseteq G
  BY <1>0, <1>3, <1>4, BoundedInduction
<1>6. Good(end)
  BY <1>0, <1>2, <1>5 DEF G
<1> PICK A, B, o : A = <<>> /\ B = end.stack /\ o = end.out
  OBVIOUS
<1>7. Rescans(T, o, B) /\ o \in Seq(Made(T)) /\ B \in Seq(Entries(T)) /\ A \in Seq(Entries(T))
  BY <1>6 DEF Rescans
<1>8. A \o B = B
  BY <1>7, ConcatEmptySeq
<1>9. Rescans(T, o, A \o B)
  BY <1>7, <1>8
<1>10. Rescans(T, o \o Closers(B), A)
  BY ONLY <1>7, <1>9, ClosersRescan
<1> QED
  BY <1>10

\* What is made has allowed names, and opens no raw-text element.
LEMMA MadeIsAllowed ==
  ASSUME NEW T, NEW m \in Made(T)
  PROVE  (~IsText(m) => m.tag \in Allowed) /\ ~RawStart(m)
<1>1. CASE m \in T /\ IsText(m)
  BY <1>1 DEF RawStart, IsText
<1>2. CASE m \in {RenderStartTag(t.tag, t.attrs) : t \in {u \in T : u.kind = "start" /\ u.tag \in Allowed}}
  <2>1. PICK t \in T : t.tag \in Allowed /\ m = RenderStartTag(t.tag, t.attrs)
    BY <1>2
  <2>2. m.tag = t.tag
    BY <2>1 DEF RenderStartTag, Start
  <2>3. t.tag \notin RawText
    BY <2>1, SanitiserConfig DEF SanitiserConfig
  <2> QED
    BY <2>1, <2>2, <2>3 DEF RawStart
<1>3. CASE m \in {End(x) : x \in Allowed}
  BY <1>3 DEF End, RawStart
<1> QED
  BY <1>1, <1>2, <1>3 DEF Made

\* Pieces of which no two join are written as they are.
LEMMA JoinedIsSame ==
  ASSUME NEW S, NEW seq \in Seq(S), ~Seam(seq)
  PROVE  Joined(seq) = seq
<1> PICK N, loop : N = Len(seq) /\ loop = "join"
  OBVIOUS
<1>0. N \in Nat /\ loop \in Loops /\ \A i \in 1..N : seq[i] \in S
  BY DEF Loops
<1>1. PICK f : Runs(loop, f, seq) /\ f[N] = Outcome(loop, seq)
  BY <1>0, RunEnds
<1>2. f[0] = <<>> /\ f[N] = Joined(seq) /\ \A n \in 1..N : f[n] = JoinPiece(f[n - 1], seq[n])
  BY <1>1 DEF Runs, Outcome, Begin, Apply
<1> DEFINE Good(n) == /\ f[n] \in Seq(S) /\ Len(f[n]) = n
                      /\ \A i \in 1..n : f[n][i] = seq[i]
           G == {n \in 0..N : Good(n)}
<1>3. 0 \in G
  <2>1. Good(0)
    BY <1>2
  <2> HIDE DEF Good
  <2> QED
    BY <1>0, <2>1
<1>4. ASSUME NEW n \in 1..N, n - 1 \in G PROVE n \in G
  <2>0. n \in 0..N /\ n - 1 \in Nat /\ seq[n] \in S /\ Good(n - 1)
    BY <1>0, <1>4
  <2> PICK r, more : r = f[n - 1] /\ more = Append(r, seq[n])
    OBVIOUS
  <2>1. /\ more \in Seq(S) /\ Len(more) = n
        /\ \A i \in 1..n : more[i] = seq[i]
    <3>1. r \in Seq(S) /\ Len(r) = n - 1 /\ \A i \in 1..(n - 1) : r[i] = seq[i]
      BY <2>0
    <3>2. \A i \in 1..n : i \in 1..(n - 1) \/ i = n
      OBVIOUS
    <3>3. /\ more \in Seq(S) /\ Len(more) = n /\ more[n] = seq[n]
          /\ \A i \in 1..(n - 1) : more[i] = r[i]
      BY <2>0, <3>1
    <3> QED
      BY <3>1, <3>2, <3>3
  <2>2. f[n] = more
    <3>1. ~(r # <<>> /\ Last(r).kind = "lt" /\ seq[n].kind = "tail")
      <4> SUFFICES ASSUME r # <<>>, Last(r).kind = "lt", seq[n].kind = "tail" PROVE FALSE
        OBVIOUS
      <4> PICK m : m = n - 1
        OBVIOUS
      <4>0. r \in Seq(S) /\ Len(r) = m /\ \A i \in 1..m : r[i] = seq[i]
        BY <2>0
      <4>1. m \in 1..N /\ m + 1 = n /\ m + 1 \in 1..N /\ m \in 1..m
        BY <1>0, <4>0
      <4>2. Last(r) = seq[m]
        BY <4>0, <4>1 DEF Last
      <4>3. DOMAIN seq = 1..N
        OBVIOUS
      <4> QED
        BY <4>1, <4>2, <4>3 DEF Seam
    <3>2. f[n] = JoinPiece(r, seq[n])
      BY <1>2
    <3> QED
      BY <3>1, <3>2 DEF JoinPiece
  <2>3. Good(n)
    BY <2>0, <2>1, <2>2
  <2> HIDE DEF Good
  <2> QED
    BY <2>0, <2>3
<1> HIDE DEF G
<1>5. 0..N \subseteq G
  BY <1>0, <1>3, <1>4, BoundedInduction
<1>6. Good(N)
  BY <1>0, <1>5 DEF G
<1>7. /\ Joined(seq) \in Seq(S) /\ Len(Joined(seq)) = Len(seq)
      /\ \A i \in 1..Len(seq) : Joined(seq)[i] = seq[i]
  BY <1>2, <1>6
<1> QED
  BY <1>7, SeqEqual

\* A second pass over a body that closes no allowed element in its start tag
\* changes nothing, if no texts have joined into a tag.
LEMMA CleanIsClean ==
  ASSUME NEW body, IsMarkup(body), ~SelfClosed(body), ~Joins(body),
         NEW out, out = SanitizeHtml(body)
  PROVE  /\ Balanced(out)
         /\ SanitizeHtml(out) = out
         /\ \A i \in DOMAIN out : ~IsText(out[i]) => out[i].tag \in Allowed
<1> PICK B, T, toks, end, pieces :
      /\ B = ToSet(body) /\ T = B \cup {Gap} /\ toks = Tokenize(body) /\ end = Scan(toks)
      /\ pieces = Pieces(body)
  OBVIOUS
<1>1. body \in Seq(B) /\ \A t \in B : IsToken(t)
  BY DEF IsMarkup
<1>2. Plain(T)
  <2> SUFFICES ASSUME NEW t \in T
               PROVE  Shaped(t) /\ (t.self /\ t.tag \in Allowed => t.tag \in Void)
    BY DEF Plain
  <2>1. CASE t = Gap
    BY <2>1 DEF Gap, Shaped, Kinds
  <2>2. CASE t \in B
    <3>1. IsToken(t)
      BY <1>1, <2>2
    <3>2. Shaped(t)
      BY <3>1 DEF IsToken, Text, Lt, TagTail, Start, End, Shaped, Kinds
    <3>3. PICK i \in DOMAIN body : body[i] = t
      BY <1>1, <2>2 DEF ToSet
    <3> QED
      BY <3>2, <3>3 DEF SelfClosed
  <2> QED
    BY <2>1, <2>2
<1>3. toks \in Seq(T)
  BY <1>1, TokenizeReads
<1>4. pieces = end.out \o Closers(end.stack)
  BY DEF Pieces, Scan
<1>5. end = Scan(toks)
  OBVIOUS
<1>6. Rescans(T, pieces, <<>>)
  BY ONLY <1>2, <1>3, <1>4, <1>5, PassIsFinal
<1>7. Keep(<<>>, Emitted) = <<>> /\ Tags(<<>>) = <<>>
  BY KeepOfNothing DEF Tags
<1>8. pieces \in Seq(Made(T)) /\ Scan(pieces) = Resumed(pieces, <<>>) /\ Matched(pieces) = <<>>
  BY <1>6, <1>7 DEF Rescans
<1>9. Joined(pieces) = pieces /\ out = pieces
  <2>1. ~Seam(pieces)
    BY DEF Joins
  <2>2. Joined(pieces) = pieces
    BY <1>8, <2>1, JoinedIsSame
  <2> QED
    BY <2>2 DEF SanitizeHtml
<1>10. Tokenize(pieces) = pieces
  BY <1>8, MadeIsAllowed, TokenizeAgain
<1>11. SanitizeHtml(pieces) = pieces
  <2>1. Pieces(pieces) = Scan(pieces).out \o Closers(Scan(pieces).stack)
    BY <1>10 DEF Pieces, Scan
  <2>2. Scan(pieces).out = pieces /\ Scan(pieces).stack = <<>>
    BY <1>8 DEF Resumed
  <2>3. pieces \o <<>> = pieces
    BY <1>8, ConcatEmptySeq
  <2>4. Pieces(pieces) = pieces
    BY <2>1, <2>2, <2>3, LoopsStart
  <2> QED
    BY <1>9, <2>4 DEF SanitizeHtml
<1>12. Balanced(pieces)
  BY <1>8 DEF Balanced, Matched
<1>13. \A i \in DOMAIN pieces : ~IsText(pieces[i]) => pieces[i].tag \in Allowed
  BY <1>8, MadeIsAllowed
<1> QED
  BY <1>9, <1>11, <1>12, <1>13

-----------------------------------------------------------------------------
(* Which texts are left out *)

LEMMA ConcatSet ==
  ASSUME NEW S, NEW a \in Seq(S), NEW b \in Seq(S)
  PROVE  ToSet(a \o b) = ToSet(a) \cup ToSet(b)
<1> PICK A, B, ab : A = Len(a) /\ B = Len(b) /\ ab = a \o b
  OBVIOUS
<1>1. /\ A \in Nat /\ B \in Nat /\ DOMAIN a = 1..A /\ DOMAIN b = 1..B /\ DOMAIN ab = 1..(A + B)
      /\ \A i \in 1..A : ab[i] = a[i]
      /\ \A i \in 1..B : ab[A + i] = b[i]
  OBVIOUS
<1>2. ASSUME NEW i \in 1..(A + B) PROVE ab[i] \in ToSet(a) \cup ToSet(b)
  <2>1. CASE i <= A
    <3>1. i \in 1..A
      BY <1>1, <2>1
    <3> QED
      BY <1>1, <3>1 DEF ToSet
  <2>2. CASE ~(i <= A)
    <3>1. i - A \in 1..B /\ A + (i - A) = i
      BY <1>1, <2>2
    <3>2. ab[i] = b[i - A]
      BY <1>1, <3>1
    <3> QED
      BY <1>1, <3>1, <3>2 DEF ToSet
  <2> QED
    BY <2>1, <2>2
<1>3. ASSUME NEW i \in 1..A PROVE a[i] \in ToSet(ab)
  <2>1. i \in 1..(A + B) /\ ab[i] = a[i]
    BY <1>1
  <2> QED
    BY <1>1, <2>1 DEF ToSet
<1>4. ASSUME NEW i \in 1..B PROVE b[i] \in ToSet(ab)
  <2>1. A + i \in 1..(A + B) /\ ab[A + i] = b[i]
    BY <1>1
  <2> QED
    BY <1>1, <2>1 DEF ToSet
<1>5. ToSet(ab) \subseteq ToSet(a) \cup ToSet(b)
  <2>1. ToSet(ab) = {ab[i] : i \in 1..(A + B)}
    BY <1>1 DEF ToSet
  <2> QED
    BY <1>2, <2>1
<1>6. ToSet(a) \subseteq ToSet(ab)
  <2>1. ToSet(a) = {a[i] : i \in 1..A}
    BY <1>1 DEF ToSet
  <2> QED
    BY <1>3, <2>1
<1>7. ToSet(b) \subseteq ToSet(ab)
  <2>1. ToSet(b) = {b[i] : i \in 1..B}
    BY <1>1 DEF ToSet
  <2> QED
    BY <1>4, <2>1
<1> QED
  BY <1>5, <1>6, <1>7

LEMMA ClosersHaveNoText ==
  ASSUME NEW T, NEW list \in Seq(Entries(T)), NEW x, IsText(x)
  PROVE  /\ Closers(list) \in Seq(Made(T))
         /\ x \notin ToSet(Closers(list))
<1> PICK E, C : E = {End(y) : y \in Allowed} /\ C = Closers(list)
  OBVIOUS
<1>1. C \in Seq(E)
  BY ClosersAreEnds
<1>2. E \subseteq Made(T)
  BY DEF Made
<1>3. \A e \in E : e.kind = "end"
  BY DEF End
<1>4. C \in Seq(Made(T))
  BY <1>1, <1>2
<1>5. ASSUME x \in ToSet(C) PROVE FALSE
  <2>1. PICK i \in 1..Len(C) : C[i] = x
    BY <1>1, <1>5 DEF ToSet
  <2>2. x \in E
    BY <1>1, <2>1
  <2> QED
    BY <1>3, <2>2 DEF IsText
<1> QED
  BY <1>4, <1>5

\* A token adds no text but itself, and this one only outside of every region.
Emits(s, t, next, x) ==
  x \in ToSet(next.out) <=> x \in ToSet(s.out) \/ (s.dropTag = NoTag /\ t = x)

LEMMA StepKeepsTexts ==
  ASSUME NEW T, \A t \in T : Shaped(t), NEW s, Scans(T, s), NEW t \in T,
         NEW next, next = ScanToken(s, t), NEW x, IsText(x)
  PROVE  Scans(T, next) /\ Emits(s, t, next, x)
<1>0. t.kind \in Kinds /\ IsScan(s) /\ next = ScanToken(s, t)
  BY DEF Shaped, Scans
<1>s. Stepped(s, t, next)
  BY ONLY <1>0, StepIs
<1> PICK out, stack, M : out = s.out /\ stack = s.stack /\ M = Made(T)
  OBVIOUS
<1>r. out \in Seq(M) /\ stack \in Seq(Entries(T)) /\ IsScan(next)
  BY <1>s DEF Scans, Stepped
<1>1. CASE Untouched(s, next) /\ (s.dropTag # NoTag \/ ~IsText(t))
  <2>1. ~(s.dropTag = NoTag /\ t = x)
    BY <1>1
  <2> QED
    BY <1>r, <1>1, <2>1 DEF Scans, Emits, Untouched
<1>2. CASE s.dropTag = NoTag /\ IsText(t)
  <2>1. t \in M
    BY <1>2 DEF Made
  <2>2. Append(out, t) \in Seq(M) /\ ToSet(Append(out, t)) = ToSet(out) \cup {t}
    BY <1>r, <2>1, AppendedSet
  <2>3. next.out = Append(out, t) /\ next.stack = stack
    BY <1>2, <1>s DEF Stepped
  <2> QED
    BY <1>2, <1>r, <2>2, <2>3 DEF Scans, Emits
<1>3. CASE s.dropTag = NoTag /\ t.kind = "start" /\ t.tag \notin Dropped
  <2> PICK R, e : /\ R = RenderStartTag(t.tag, t.attrs)
                  /\ e = [tag |-> t.tag, emitted |-> t.tag \in Allowed]
    OBVIOUS
  <2>1. /\ next.out = IF t.tag \in Allowed THEN Append(out, R) ELSE out
        /\ next.stack = IF IsVoid(t) THEN stack ELSE Append(stack, e)
    BY <1>3, <1>s DEF Stepped, Opened
  <2>2. next.stack \in Seq(Entries(T))
    <3>1. CASE IsVoid(t)
      BY <1>r, <2>1, <3>1
    <3>2. CASE ~IsVoid(t)
      <4>1. e \in Entries(T)
        BY <3>2 DEF Entries, IsVoid
      <4> QED
        BY <1>r, <2>1, <3>2, <4>1
    <3> QED
      BY <3>1, <3>2
  <2>3. t # x
    BY <1>3 DEF IsText
  <2>4. CASE t.tag \in Allowed
    <3>1. R \in M /\ R.kind = "start"
      BY <1>3, <2>4, RenderAgain DEF Made
    <3>2. Append(out, R) \in Seq(M) /\ ToSet(Append(out, R)) = ToSet(out) \cup {R}
      BY <1>r, <3>1, AppendedSet
    <3>3. next.out = Append(out, R) /\ R # x
      BY <2>1, <2>4, <3>1 DEF IsText
    <3> QED
      BY <1>r, <2>2, <2>3, <3>2, <3>3 DEF Scans, Emits
  <2>5. CASE t.tag \notin Allowed
    BY <1>r, <2>1, <2>2, <2>3, <2>5 DEF Scans, Emits
  <2> QED
    BY <2>4, <2>5
<1>4. CASE s.dropTag = NoTag /\ t.kind = "end" /\ LastOf(stack, t.tag) # 0
  <2> PICK at, tag, A, B, C : /\ at = LastOf(stack, tag) /\ tag = t.tag /\ C = Closers(B)
                              /\ A = SubSeq(stack, 1, at - 1) /\ B = SubSeq(stack, at, Len(stack))
    OBVIOUS
  <2>1. next.out = out \o C /\ next.stack = A
    BY <1>4, <1>s DEF Stepped, ClosedFrom
  <2>2. A \in Seq(Entries(T)) /\ B \in Seq(Entries(T))
    <3>1. stack \in Seq(Entries(T)) /\ at = LastOf(stack, tag) /\ at # 0
      BY <1>4, <1>r
    <3>2. /\ SubSeq(stack, 1, at - 1) \in Seq(Entries(T))
          /\ SubSeq(stack, at, Len(stack)) \in Seq(Entries(T))
          /\ stack = SubSeq(stack, 1, at - 1) \o SubSeq(stack, at, Len(stack))
      BY ONLY <3>1, CutAt
    <3> QED
      BY <3>2
  <2>3. C \in Seq(M) /\ x \notin ToSet(C)
    BY <2>2, ClosersHaveNoText
  <2>4. ToSet(out \o C) = ToSet(out) \cup ToSet(C) /\ out \o C \in Seq(M)
    BY <1>r, <2>3, ConcatSet, ConcatProperties
  <2>5. t # x
    BY <1>4 DEF IsText
  <2> QED
    BY <1>r, <2>1, <2>2, <2>3, <2>4, <2>5 DEF Scans, Emits
<1> QED
  BY <1>0, <1>1, <1>2, <1>3, <1>4, <1>s DEF Stepped, IsText, Kinds

\* One more position of an interval.
LEMMA OneMore ==
  ASSUME NEW i \in Nat, NEW k \in Nat, i <= k + 1, NEW P
  PROVE  /\ Cardinality((i..k) \cap P) \in Nat
         /\ k + 1 \in P => Cardinality((i..(k + 1)) \cap P) = Cardinality((i..k) \cap P) + 1
         /\ k + 1 \notin P => Cardinality((i..(k + 1)) \cap P) = Cardinality((i..k) \cap P)
<1> PICK A, x : A = (i..k) \cap P /\ x = k + 1
  OBVIOUS
<1>1. IsFiniteSet(A) /\ Cardinality(A) \in Nat
  <2>1. IsFiniteSet(i..k)
    BY FS_Interval
  <2>2. A \in SUBSET (i..k)
    OBVIOUS
  <2> QED
    BY <2>1, <2>2, FS_Subset, FS_CardinalityType
<1>2. x \notin A
  OBVIOUS
<1>3. i..(k + 1) = (i..k) \cup {x}
  OBVIOUS
<1>4. CASE x \in P
  <2>1. (i..(k + 1)) \cap P = A \cup {x}
    BY <1>3, <1>4
  <2>2. Cardinality(A \cup {x}) = Cardinality(A) + 1
    BY <1>1, <1>2, FS_AddElement
  <2> QED
    BY <1>1, <1>4, <2>1, <2>2
<1>5. CASE x \notin P
  <2>1. (i..(k + 1)) \cap P = A
    BY <1>3, <1>5
  <2> QED
    BY <1>1, <1>5, <2>1
<1> QED
  BY <1>4, <1>5

Opens(t, tag) == t.kind = "start" /\ t.tag = tag /\ ~t.self

LEMMA DepthMore ==
  ASSUME NEW html, NEW i \in Nat, NEW k \in Nat, i <= k + 1,
         NEW t, t = html[k + 1], NEW tag, tag = html[i].tag
  PROVE  /\ Depth(html, i, k) \in Int
         /\ Opens(t, tag) => Depth(html, i, k + 1) = Depth(html, i, k) + 1
         /\ t = End(tag) => Depth(html, i, k + 1) = Depth(html, i, k) - 1
         /\ ~Opens(t, tag) /\ t # End(tag) => Depth(html, i, k + 1) = Depth(html, i, k)
<1> PICK P, Q : P = {j \in Int : Opens(html[j], tag)} /\ Q = {j \in Int : html[j] = End(tag)}
  OBVIOUS
<1>1. \A m \in Nat : Depth(html, i, m) = Cardinality((i..m) \cap P) - Cardinality((i..m) \cap Q)
  <2> SUFFICES ASSUME NEW m \in Nat
               PROVE  Depth(html, i, m) = Cardinality((i..m) \cap P) - Cardinality((i..m) \cap Q)
    OBVIOUS
  <2>1. {j \in i..m : html[j].kind = "start" /\ html[j].tag = tag /\ ~html[j].self} = (i..m) \cap P
    BY DEF Opens
  <2>2. {j \in i..m : html[j] = End(tag)} = (i..m) \cap Q
    OBVIOUS
  <2> QED
    BY <2>1, <2>2 DEF Depth
<1> PICK p, q, p1, q1 :
      /\ p = Cardinality((i..k) \cap P) /\ q = Cardinality((i..k) \cap Q)
      /\ p1 = Cardinality((i..(k + 1)) \cap P) /\ q1 = Cardinality((i..(k + 1)) \cap Q)
  OBVIOUS
<1>p. /\ p = Cardinality((i..k) \cap P) /\ q = Cardinality((i..k) \cap Q)
      /\ p1 = Cardinality((i..(k + 1)) \cap P) /\ q1 = Cardinality((i..(k + 1)) \cap Q)
  OBVIOUS
<1>2. Depth(html, i, k) = p - q /\ Depth(html, i, k + 1) = p1 - q1
  BY <1>1
<1>o. \A R : /\ Cardinality((i..k) \cap R) \in Nat
             /\ k + 1 \in R => Cardinality((i..(k + 1)) \cap R) = Cardinality((i..k) \cap R) + 1
             /\ k + 1 \notin R => Cardinality((i..(k + 1)) \cap R) = Cardinality((i..k) \cap R)
  <2>1. i \in Nat /\ k \in Nat /\ i <= k + 1
    OBVIOUS
  <2> QED
    BY ONLY <2>1, OneMore
<1>3. p \in Nat /\ (k + 1 \in P => p1 = p + 1) /\ (k + 1 \notin P => p1 = p)
  BY ONLY <1>o, <1>p
<1>4. q \in Nat /\ (k + 1 \in Q => q1 = q + 1) /\ (k + 1 \notin Q => q1 = q)
  BY ONLY <1>o, <1>p
<1>5. (k + 1 \in P <=> Opens(t, tag)) /\ (k + 1 \in Q <=> t = End(tag))
  OBVIOUS
<1>6. ~(Opens(t, tag) /\ t = End(tag))
  BY DEF Opens, End
<1> QED
  BY <1>2, <1>3, <1>4, <1>5, <1>6

\* It begins with one.
LEMMA DepthBegins ==
  ASSUME NEW html, NEW i \in Nat, i # 0, Opens(html[i], html[i].tag)
  PROVE  Depth(html, i, i) = 1
<1> PICK k, t, tag : k = i - 1 /\ t = html[i] /\ tag = html[i].tag
  OBVIOUS
<1>1. k \in Nat /\ k + 1 = i /\ i <= k + 1
  OBVIOUS
<1>2. t = html[k + 1] /\ tag = html[i].tag /\ Opens(t, tag)
  BY <1>1
<1>3. Depth(html, i, k) \in Int /\ (Opens(t, tag) => Depth(html, i, k + 1) = Depth(html, i, k) + 1)
  BY <1>1, <1>2, DepthMore
<1>4. Depth(html, i, k) = 0
  <2>1. i..k = {}
    BY <1>1
  <2>3. {j \in i..k : html[j].kind = "start" /\ html[j].tag = tag /\ ~html[j].self} = {}
        /\ {j \in i..k : html[j] = End(tag)} = {}
    BY <2>1
  <2>2. Cardinality({}) = 0
    BY FS_EmptySet
  <2> QED
    BY <2>2, <2>3 DEF Depth
<1> QED
  BY <1>1, <1>2, <1>3, <1>4

\* The scan is inside the element that starts at i, and has counted its tags.
Within(html, s, i, n) ==
  /\ s.dropTag = html[i].tag
  /\ s.dropDepth = Depth(html, i, n)
  /\ \A j \in i..n : Depth(html, i, j) > 0

\* What is read is a token of the string, or the place of one that is skipped.
IsPiece(t) == IsToken(t) \/ t = Gap

\* A token that is told apart from another by its attributes only.
Alike(t, u) == t.kind = u.kind /\ t.tag = u.tag /\ t.self = u.self

LEMMA WithinGoesOn ==
  ASSUME NEW html, NEW i \in Nat, NEW n \in Nat, i <= n, NEW s, IsScan(s), Within(html, s, i, n),
         s.dropTag # NoTag, NEW u, u = html[n + 1], IsPiece(u), NEW t, Alike(t, u),
         NEW next, next = ScanToken(s, t)
  PROVE  /\ Depth(html, i, n + 1) > 0 => Within(html, next, i, n + 1)
         /\ ~(Depth(html, i, n + 1) > 0) => next.dropTag = NoTag
<1> PICK tag, d, d1, e : /\ tag = html[i].tag /\ d = Depth(html, i, n)
                         /\ d1 = Depth(html, i, n + 1) /\ e = DepthWith(s, t)
  OBVIOUS
<1>1. u.kind \in Kinds /\ (u.kind = "end" => u = End(u.tag))
  BY DEF IsToken, Text, Start, End, IsPiece, Lt, TagTail, Gap, Kinds
<1>2. i <= n + 1 /\ u = html[n + 1] /\ tag = html[i].tag
  OBVIOUS
<1>3. /\ d \in Int
      /\ Opens(u, tag) => d1 = d + 1
      /\ u = End(tag) => d1 = d - 1
      /\ ~Opens(u, tag) /\ u # End(tag) => d1 = d
  BY ONLY <1>2, DepthMore, i \in Nat, n \in Nat, d = Depth(html, i, n), d1 = Depth(html, i, n + 1)
<1>4. d > 0 /\ s.dropDepth = d /\ s.dropTag = tag
  BY DEF Within
<1>5. e = d1
  <2>1. u = End(tag) <=> u.kind = "end" /\ u.tag = tag
    <3>1. u = End(tag) => u.kind = "end" /\ u.tag = tag
      BY DEF End
    <3>2. u.kind = "end" /\ u.tag = tag => u = End(tag)
      BY <1>1
    <3> QED
      BY <3>1, <3>2
  <2>2. Opens(u, tag) => u.kind = "start"
    BY DEF Opens
  <2>3. /\ t.kind = "start" /\ t.tag = s.dropTag /\ ~t.self <=> Opens(u, tag)
        /\ t.kind = "end" /\ t.tag = s.dropTag <=> u = End(tag)
    BY <1>4, <2>1 DEF Opens, Alike
  <2> QED
    BY <1>3, <1>4, <2>2, <2>3 DEF DepthWith
<1>6. next = SkipToken(s, t) /\ t.kind \in Kinds /\ IsScan(s)
  BY <1>1 DEF ScanToken, Alike
<1>7. /\ e = 0 => next.dropTag = NoTag
      /\ e # 0 => next.dropTag = s.dropTag /\ next.dropDepth = e
  BY ONLY <1>6, SkipFields, e = DepthWith(s, t)
<1>8. CASE d1 > 0
  <2>1. next.dropTag = tag /\ next.dropDepth = d1
    BY <1>3, <1>4, <1>5, <1>7, <1>8
  <2>2. \A j \in i..(n + 1) : Depth(html, i, j) > 0
    BY <1>8 DEF Within
  <2> QED
    BY <1>8, <2>1, <2>2 DEF Within
<1>9. CASE ~(d1 > 0)
  <2>1. d1 = 0
    BY <1>3, <1>4, <1>9
  <2> QED
    BY <1>5, <1>7, <1>9, <2>1
<1> QED
  BY <1>8, <1>9

\* The passes over the tokens of a body, in which the texts are numbered.
Traces(f, html, N) ==
  /\ f[0] = Scanning
  /\ \A n \in 1..N : f[n] = ScanToken(f[n - 1], Numbered(html)[n])

\* A numbered text, and every other token.
LEMMA NumberedPiece ==
  ASSUME NEW t, IsPiece(t), IsText(t), NEW a
  PROVE  [t EXCEPT !.attrs = a] = [kind |-> t.kind, tag |-> t.tag, attrs |-> a, self |-> FALSE]
<1> PICK k, g, none, no : k = t.kind /\ g = t.tag /\ none = {} /\ no = FALSE
  OBVIOUS
<1>1. t = [kind |-> k, tag |-> g, attrs |-> none, self |-> no]
  <2>1. t = Text \/ t = Lt \/ t = TagTail(g)
    BY DEF IsPiece, IsToken, IsText, Start, End, Gap
  <2>2. CASE t = Text
    BY <2>2 DEF Text
  <2>3. CASE t = Lt
    BY <2>3 DEF Lt
  <2>4. CASE t = TagTail(g)
    <3>1. t = [kind |-> "tail", tag |-> g, attrs |-> none, self |-> no]
      BY <2>4 DEF TagTail
    <3>2. t.kind = "tail"
      BY ONLY <3>1
    <3> QED
      BY <3>1, <3>2
  <2> QED
    BY <2>1, <2>2, <2>3, <2>4
<1>2. [t EXCEPT !.attrs = a] = [kind |-> k, tag |-> g, attrs |-> a, self |-> no]
  BY ONLY <1>1
<1>3. k = t.kind /\ g = t.tag /\ no = FALSE
  OBVIOUS
<1> QED
  BY ONLY <1>2, <1>3

LEMMA NumberedTokens ==
  ASSUME NEW T, NEW html \in Seq(T), \A t \in T : IsPiece(t), NEW num, num = Numbered(html)
  PROVE  /\ num \in Seq(ToSet(num)) /\ Len(num) = Len(html)
         /\ \A i \in 1..Len(html) : Alike(num[i], html[i]) /\ Shaped(num[i])
         /\ \A i \in 1..Len(html) : /\ IsText(html[i]) => num[i].attrs = {i}
                                    /\ ~IsText(html[i]) => num[i] = html[i]
         /\ \A t \in ToSet(num) : Shaped(t)
         /\ \A i, j \in 1..Len(html) : IsText(num[i]) /\ num[i] = num[j] => i = j
<1> PICK N, W : N = Len(html) /\ W = ToSet(num)
  OBVIOUS
<1>0. N \in Nat /\ DOMAIN html = 1..N /\ \A i \in 1..N : IsPiece(html[i])
  OBVIOUS
<1>1. /\ DOMAIN num = 1..N
      /\ \A i \in 1..N : /\ IsText(html[i]) => num[i] = [html[i] EXCEPT !.attrs = {i}]
                         /\ ~IsText(html[i]) => num[i] = html[i]
  BY <1>0 DEF Numbered
<1>2. \A i \in 1..N : num[i] \in W
  BY <1>1 DEF ToSet
<1>3. num \in Seq(W) /\ Len(num) = N
  <2>1. num = [i \in 1..N |-> num[i]]
    BY <1>0 DEF Numbered
  <2> QED
    BY <1>0, <1>2, <2>1
<1>4. ASSUME NEW i \in 1..N, IsText(html[i])
      PROVE  num[i] = [kind |-> html[i].kind, tag |-> html[i].tag, attrs |-> {i}, self |-> FALSE]
  <2> PICK t, a : t = html[i] /\ a = {i}
    OBVIOUS
  <2>1. IsPiece(t) /\ IsText(t)
    BY <1>0, <1>4
  <2>2. [t EXCEPT !.attrs = a] = [kind |-> t.kind, tag |-> t.tag, attrs |-> a, self |-> FALSE]
    BY ONLY <2>1, NumberedPiece
  <2>3. num[i] = [t EXCEPT !.attrs = a]
    BY <1>1, <1>4
  <2> QED
    BY <2>2, <2>3
<1>5. ASSUME NEW i \in 1..N PROVE Alike(num[i], html[i]) /\ Shaped(num[i])
  <2>1. IsPiece(html[i])
    BY <1>0
  <2>2. CASE IsText(html[i])
    <3>1. num[i] = [kind |-> html[i].kind, tag |-> html[i].tag, attrs |-> {i}, self |-> FALSE]
      BY <1>4, <2>2
    <3>2. html[i].self = FALSE
      BY <2>1, <2>2 DEF IsPiece, IsToken, IsText, Text, Lt, TagTail, Start, End, Gap
    <3> PICK u, k, g, a, no : /\ u = num[i] /\ k = html[i].kind /\ g = html[i].tag
                              /\ a = {i} /\ no = FALSE
      OBVIOUS
    <3>3. u = [kind |-> k, tag |-> g, attrs |-> a, self |-> no]
      BY <3>1
    <3>4. u.kind = k /\ u.tag = g /\ u.attrs = a /\ u.self = no
      BY ONLY <3>3
    <3>5. u = [kind |-> u.kind, tag |-> u.tag, attrs |-> u.attrs, self |-> u.self]
      BY ONLY <3>3
    <3>6. k \in {"text", "lt", "tail"}
      BY <2>2 DEF IsText
    <3>7. Shaped(u)
      BY <3>4, <3>5, <3>6 DEF Shaped, Kinds
    <3>8. Alike(u, html[i])
      BY <3>2, <3>4 DEF Alike
    <3> QED
      BY <3>7, <3>8
  <2>3. CASE ~IsText(html[i])
    <3>1. num[i] = html[i]
      BY <1>1, <2>3
    <3>2. Shaped(html[i])
      BY <2>1 DEF IsPiece, IsToken, Text, Lt, TagTail, Start, End, Gap, Shaped, Kinds
    <3> QED
      BY <3>1, <3>2 DEF Alike
  <2> QED
    BY <2>2, <2>3
<1>6. ASSUME NEW i \in 1..N, IsText(html[i]) PROVE num[i].attrs = {i}
  <2> PICK u, k, g, a, no : /\ u = num[i] /\ k = html[i].kind /\ g = html[i].tag
                            /\ a = {i} /\ no = FALSE
    OBVIOUS
  <2>1. u = [kind |-> k, tag |-> g, attrs |-> a, self |-> no]
    BY <1>4, <1>6
  <2>2. u.attrs = a
    BY ONLY <2>1
  <2> QED
    BY <2>2
<1>7. ASSUME NEW t \in W PROVE Shaped(t)
  <2>1. PICK i \in 1..N : num[i] = t
    BY <1>1 DEF ToSet
  <2> QED
    BY <1>5, <2>1
<1>8. ASSUME NEW i \in 1..N, NEW j \in 1..N, IsText(num[i]), num[i] = num[j] PROVE i = j
  <2>1. IsText(html[i]) /\ IsText(html[j])
    BY <1>5, <1>8 DEF Alike, IsText
  <2>2. num[i].attrs = {i} /\ num[j].attrs = {j}
    BY <1>6, <2>1
  <2> QED
    BY <1>8, <2>2
<1> QED
  BY <1>1, <1>3, <1>5, <1>6, <1>7, <1>8

\* Two states of the tokenizer that differ in the numbers of the texts only.
SameRead(s, u, html, num, n) ==
  /\ s.raw = u.raw /\ Len(s.read) = n /\ Len(u.read) = n
  /\ \A k \in 1..n : \/ s.read[k] = html[k] /\ u.read[k] = num[k]
                     \/ s.read[k] = Gap /\ u.read[k] = Gap

LEMMA SameReadGoesOn ==
  ASSUME NEW S, NEW html, NEW num, NEW n \in Nat, NEW s, NEW u, SameRead(s, u, html, num, n),
         s.read \in Seq(S), u.read \in Seq(S),
         NEW t \in S, t = html[n + 1], NEW x \in S, x = num[n + 1], Gap \in S,
         Alike(x, t), x.kind = "end" \/ t.kind = "end" => x = t
  PROVE  SameRead(ReadPiece(s, t), ReadPiece(u, x), html, num, n + 1)
<1> PICK p, q, raw : p = s.read /\ q = u.read /\ raw = s.raw
  OBVIOUS
<1>0. /\ p \in Seq(S) /\ q \in Seq(S) /\ Len(p) = n /\ Len(q) = n /\ u.raw = raw
      /\ \A k \in 1..n : (p[k] = html[k] /\ q[k] = num[k]) \/ (p[k] = Gap /\ q[k] = Gap)
  BY DEF SameRead
<1>1. \A k \in 1..(n + 1) : k \in 1..n \/ k = n + 1
  OBVIOUS
<1>2. t = End(raw) <=> x = End(raw)
  BY DEF End
<1>3. RawStart(t) <=> RawStart(x)
  BY DEF RawStart, Alike
<1>4. ASSUME NEW a \in S, NEW b \in S, (a = t /\ b = x) \/ (a = Gap /\ b = Gap), NEW r,
             NEW v, v = [read |-> Append(p, a), raw |-> r],
             NEW w, w = [read |-> Append(q, b), raw |-> r]
      PROVE  SameRead(v, w, html, num, n + 1)
  <2> PICK p1, q1 : p1 = Append(p, a) /\ q1 = Append(q, b)
    OBVIOUS
  <2>1. /\ Len(p1) = n + 1 /\ Len(q1) = n + 1 /\ p1[n + 1] = a /\ q1[n + 1] = b
        /\ \A k \in 1..n : p1[k] = p[k] /\ q1[k] = q[k]
    BY <1>0
  <2>2. v.read = p1 /\ w.read = q1 /\ v.raw = w.raw
    BY <1>4
  <2>3. \A k \in 1..(n + 1) : \/ p1[k] = html[k] /\ q1[k] = num[k]
                              \/ p1[k] = Gap /\ q1[k] = Gap
    BY <1>0, <1>1, <1>4, <2>1
  <2> QED
    BY <2>1, <2>2, <2>3 DEF SameRead
<1>5. CASE raw # NoTag /\ t = End(raw)
  <2>1. ReadPiece(s, t) = [read |-> Append(p, t), raw |-> NoTag]
        /\ ReadPiece(u, x) = [read |-> Append(q, x), raw |-> NoTag]
    BY <1>0, <1>2, <1>5 DEF ReadPiece
  <2> QED
    BY <1>4, <2>1
<1>6. CASE raw # NoTag /\ t # End(raw)
  <2>1. ReadPiece(s, t) = [read |-> Append(p, Gap), raw |-> raw]
        /\ ReadPiece(u, x) = [read |-> Append(q, Gap), raw |-> raw]
    BY <1>0, <1>2, <1>6 DEF ReadPiece
  <2> QED
    BY <1>4, <2>1
<1>7. CASE raw = NoTag
  <2> PICK r : r = IF RawStart(t) THEN t.tag ELSE NoTag
    OBVIOUS
  <2>1. ReadPiece(s, t) = [read |-> Append(p, t), raw |-> r]
        /\ ReadPiece(u, x) = [read |-> Append(q, x), raw |-> r]
    <3>1. r = IF RawStart(x) THEN x.tag ELSE NoTag
      BY <1>3 DEF Alike
    <3>2. r = (IF t.kind = "start" /\ t.tag \in RawText /\ ~t.self THEN t.tag ELSE NoTag)
          /\ r = (IF x.kind = "start" /\ x.tag \in RawText /\ ~x.self THEN x.tag ELSE NoTag)
      BY <3>1 DEF RawStart
    <3> QED
      BY <1>0, <1>7, <3>2 DEF ReadPiece
  <2> QED
    BY <1>4, <2>1
<1> QED
  BY <1>5, <1>6, <1>7

\* To number the texts before or after the tokenizer is the same.
LEMMA TokenizeNumbered ==
  ASSUME NEW B, NEW body \in Seq(B), \A t \in B : IsToken(t)
  PROVE  Tokenize(Numbered(body)) = Numbered(Tokenize(body))
<1> PICK N, num, W, toks, read :
      /\ N = Len(body) /\ num = Numbered(body) /\ W = ToSet(num) /\ toks = Tokenize(body)
      /\ read = Tokenize(num)
  OBVIOUS
<1> PICK S : S = B \cup W \cup {Gap}
  OBVIOUS
<1>0. N \in Nat /\ \A i \in 1..N : body[i] \in B /\ IsToken(body[i])
  OBVIOUS
<1>1. /\ num \in Seq(W) /\ Len(num) = N /\ \A i \in 1..N : num[i] \in W
      /\ \A i \in 1..N : Alike(num[i], body[i]) /\ (~IsText(body[i]) => num[i] = body[i])
  <2>1. \A t \in B : IsPiece(t)
    BY DEF IsPiece
  <2>2. /\ num \in Seq(W) /\ Len(num) = N
        /\ \A i \in 1..N : Alike(num[i], body[i]) /\ (~IsText(body[i]) => num[i] = body[i])
    BY <2>1, NumberedTokens
  <2> QED
    BY <2>2
<1>2. PICK f : Tokenizes(f, body, N) /\ toks = f[N].read
  BY TokenizeRuns
<1>3. PICK g : Tokenizes(g, num, N) /\ read = g[N].read
  BY <1>1, TokenizeRuns
<1>4. \A n \in 0..N : f[n].read \in Seq(S) /\ g[n].read \in Seq(S)
  <2>1. body \in Seq(B) /\ N = Len(body) /\ num \in Seq(W) /\ N = Len(num)
    BY <1>1
  <2>2. \A n \in 0..N : ReadSoFar(B, body, f[n], n)
    BY ONLY <1>2, <2>1, TokenizesIs
  <2>3. \A n \in 0..N : ReadSoFar(W, num, g[n], n)
    BY ONLY <1>3, <2>1, TokenizesIs
  <2> QED
    BY <2>2, <2>3 DEF ReadSoFar
<1> DEFINE G == {n \in 0..N : SameRead(f[n], g[n], body, num, n)}
<1>5. 0 \in G
  <2>1. f[0].read = <<>> /\ g[0].read = <<>> /\ f[0].raw = NoTag /\ g[0].raw = NoTag
    BY <1>2, <1>3 DEF Tokenizes, Unread
  <2>2. SameRead(f[0], g[0], body, num, 0)
    BY <2>1 DEF SameRead
  <2> QED
    BY <1>0, <2>2
<1>6. ASSUME NEW n \in 1..N, n - 1 \in G PROVE n \in G
  <2> PICK m, s, u, t, x : m = n - 1 /\ s = f[m] /\ u = g[m] /\ t = body[n] /\ x = num[n]
    OBVIOUS
  <2>1. /\ m \in Nat /\ m + 1 = n /\ SameRead(s, u, body, num, m) /\ n \in 0..N /\ m \in 0..N
        /\ t \in S /\ x \in S /\ Gap \in S /\ Alike(x, t) /\ t = body[m + 1] /\ x = num[m + 1]
    BY <1>0, <1>1, <1>6
  <2>2. s.read \in Seq(S) /\ u.read \in Seq(S)
    BY <1>4, <2>1
  <2>3. x.kind = "end" \/ t.kind = "end" => x = t
    BY <1>1, <2>1 DEF Alike, IsText
  <2>4. SameRead(ReadPiece(s, t), ReadPiece(u, x), body, num, m + 1)
    BY ONLY <2>1, <2>2, <2>3, SameReadGoesOn
  <2>5. f[n] = ReadPiece(s, t) /\ g[n] = ReadPiece(u, x)
    BY <1>2, <1>3 DEF Tokenizes
  <2> QED
    BY <2>1, <2>4, <2>5
<1> HIDE DEF G
<1>7. 0..N \subseteq G
  BY <1>0, <1>5, <1>6, BoundedInduction
<1>8. SameRead(f[N], g[N], body, num, N)
  BY <1>0, <1>7 DEF G
<1>9. /\ toks \in Seq(S) /\ read \in Seq(S) /\ Len(toks) = N /\ Len(read) = N
      /\ \A k \in 1..N : (toks[k] = body[k] /\ read[k] = num[k]) \/ (toks[k] = Gap /\ read[k] = Gap)
  <2>1. N \in 0..N
    BY <1>0
  <2> QED
    BY <1>2, <1>3, <1>4, <1>8, <2>1 DEF SameRead
<1>d. DOMAIN toks = 1..N /\ DOMAIN body = 1..N
  BY <1>9
<1>10. ASSUME NEW k \in 1..N PROVE read[k] = Numbered(toks)[k]
  <2>1. Numbered(toks)[k] = IF IsText(toks[k]) THEN [toks[k] EXCEPT !.attrs = {k}] ELSE toks[k]
    BY <1>d DEF Numbered
  <2>2. num[k] = IF IsText(body[k]) THEN [body[k] EXCEPT !.attrs = {k}] ELSE body[k]
    BY <1>d DEF Numbered
  <2>3. CASE toks[k] = Gap /\ read[k] = Gap
    <3>1. ~IsText(toks[k])
      BY <2>3 DEF Gap, IsText
    <3> QED
      BY <2>1, <2>3, <3>1
  <2>4. CASE toks[k] = body[k] /\ read[k] = num[k]
    BY <2>1, <2>2, <2>4
  <2> QED
    BY <1>9, <2>3, <2>4
<1>11. read = [k \in 1..N |-> read[k]] /\ Numbered(toks) = [k \in 1..N |-> Numbered(toks)[k]]
  <2>1. read = [k \in 1..N |-> read[k]]
    BY <1>9
  <2>2. Numbered(toks) = [k \in DOMAIN toks |-> Numbered(toks)[k]]
    BY DEF Numbered
  <2> QED
    BY <1>d, <2>1, <2>2
<1>12. read = Numbered(toks)
  BY <1>10, <1>11
<1> QED
  BY <1>12

\* Every state of the scan is one, and whatever is left out lies inside a
\* removed element.
LEMMA ScanIsWithin ==
  ASSUME NEW T, NEW html \in Seq(T), \A t \in T : IsPiece(t),
         NEW N, N = Len(html), NEW f, Traces(f, html, N)
  PROVE  \A n \in 0..N :
           /\ Scans(ToSet(Numbered(html)), f[n])
           /\ f[n].dropTag = NoTag
                \/ \E i \in 1..n : i \in Removals(html) /\ Within(html, f[n], i, n)
<1> PICK num, W : num = Numbered(html) /\ W = ToSet(num)
  OBVIOUS
<1>0. N \in Nat /\ DOMAIN html = 1..N /\ \A i \in 1..N : html[i] \in T /\ IsPiece(html[i])
  OBVIOUS
<1>1. /\ num \in Seq(W) /\ Len(num) = N
      /\ \A i \in 1..N : Alike(num[i], html[i]) /\ Shaped(num[i])
      /\ \A t \in W : Shaped(t)
  BY NumberedTokens
<1>2. f[0] = Scanning /\ \A n \in 1..N : f[n] = ScanToken(f[n - 1], num[n])
  BY DEF Traces
<1> DEFINE Good(n) == /\ Scans(W, f[n])
                      /\ f[n].dropTag = NoTag
                           \/ \E i \in 1..n : i \in Removals(html) /\ Within(html, f[n], i, n)
           G == {n \in 0..N : Good(n)}
<1>3. 0 \in G
  <2>1. f[0].dropTag = NoTag /\ Scans(W, f[0])
    BY <1>2 DEF Scanning, Scans, IsScan
  <2>2. Good(0)
    BY <2>1
  <2> HIDE DEF Good
  <2> QED
    BY <1>0, <2>2
<1>4. ASSUME NEW n \in 1..N, n - 1 \in G PROVE n \in G
  <2> PICK s, t, u, next : s = f[n - 1] /\ t = num[n] /\ u = html[n] /\ next = f[n]
    OBVIOUS
  <2>1. /\ n \in 0..N /\ n \in Nat /\ n # 0 /\ Scans(W, s) /\ Alike(t, u) /\ IsPiece(u)
        /\ next = ScanToken(s, t) /\ t \in W /\ Shaped(t) /\ n \in DOMAIN html
    BY <1>0, <1>1, <1>2, <1>4
  <2>2. Scans(W, next)
    <3>1. PICK x : x = Text
      OBVIOUS
    <3>2. IsText(x)
      BY <3>1 DEF Text, IsText
    <3> QED
      BY ONLY <1>1, <2>1, <3>2, StepKeepsTexts
  <2>3. IsScan(s) /\ t.kind \in Kinds
    BY <2>1 DEF Scans, Shaped
  <2>4. Stepped(s, t, next)
    BY ONLY <2>1, <2>3, StepIs
  <2>5. next.dropTag = NoTag
          \/ \E i \in 1..n : i \in Removals(html) /\ Within(html, next, i, n)
    <3>1. CASE s.dropTag = NoTag
      <4>1. CASE u.kind = "start" /\ u.tag \in Dropped /\ ~IsVoid(u)
        <5>1. ~IsVoid(t) /\ t.kind = "start" /\ t.tag = u.tag
          BY <2>1, <4>1 DEF IsVoid, Alike
        <5>2. next.dropTag = u.tag /\ next.dropDepth = 1
          BY <2>4, <3>1, <4>1, <5>1 DEF Stepped
        <5>3. n \in Removals(html)
          BY <2>1, <4>1 DEF Removals
        <5>4. Opens(html[n], html[n].tag)
          BY <4>1 DEF Opens, IsVoid
        <5>5. Depth(html, n, n) = 1
          BY <2>1, <5>4, DepthBegins
        <5>6. \A j \in n..n : j = n
          BY <2>1
        <5>7. \A j \in n..n : Depth(html, n, j) > 0
          BY <5>5, <5>6
        <5>8. Within(html, next, n, n)
          BY <5>2, <5>5, <5>7 DEF Within
        <5>9. n \in 1..n
          BY <2>1
        <5> QED
          BY <5>3, <5>8, <5>9
      <4>2. CASE ~(u.kind = "start" /\ u.tag \in Dropped /\ ~IsVoid(u))
        <5>1. ~(t.kind = "start" /\ t.tag \in Dropped /\ ~IsVoid(t))
          BY <2>1, <4>2 DEF IsVoid, Alike
        <5> QED
          BY <2>3, <2>4, <3>1, <5>1 DEF Stepped, IsText, Kinds
      <4> QED
        BY <4>1, <4>2
    <3>2. CASE s.dropTag # NoTag
      <4> PICK m : m = n - 1
        OBVIOUS
      <4>1. PICK i \in 1..m : i \in Removals(html) /\ Within(html, s, i, m)
        BY <1>4, <3>2
      <4>2. /\ i \in Nat /\ m \in Nat /\ i <= m /\ u = html[m + 1] /\ m + 1 = n /\ i \in 1..n
        BY <2>1
      <4>3. /\ Depth(html, i, m + 1) > 0 => Within(html, next, i, m + 1)
            /\ ~(Depth(html, i, m + 1) > 0) => next.dropTag = NoTag
        BY ONLY <2>1, <2>3, <3>2, <4>1, <4>2, WithinGoesOn
      <4>4. CASE Depth(html, i, m + 1) > 0
        BY <4>1, <4>2, <4>3, <4>4
      <4>5. CASE ~(Depth(html, i, m + 1) > 0)
        BY <4>3, <4>5
      <4> QED
        BY <4>4, <4>5
    <3> QED
      BY <3>1, <3>2
  <2>6. Good(n)
    BY <2>2, <2>5
  <2> HIDE DEF Good
  <2> QED
    BY <2>1, <2>6
<1> HIDE DEF G
<1>5. 0..N \subseteq G
  BY <1>0, <1>3, <1>4, BoundedInduction
<1> QED
  BY <1>5 DEF G

\* As long as its tags have not come out even, nothing inside it is emitted.
LEMMA StaysWithin ==
  ASSUME NEW T, NEW html \in Seq(T), \A t \in T : IsPiece(t),
         NEW N, N = Len(html), NEW f, Traces(f, html, N),
         NEW i \in Removals(html), f[i - 1].dropTag = NoTag, NEW k \in Inside(html, i)
  PROVE  f[k - 1].dropTag # NoTag
<1> PICK num, W, tag : num = Numbered(html) /\ W = ToSet(num) /\ tag = html[i].tag
  OBVIOUS
<1>0. /\ N \in Nat /\ DOMAIN html = 1..N /\ \A n \in 1..N : IsPiece(html[n])
      /\ i \in 1..N /\ i \in Nat /\ i # 0 /\ k \in (i + 1)..N /\ k \in Nat
      /\ \A n \in i..k : Depth(html, i, n) > 0
  BY DEF Removals, Inside
<1>1. \A n \in 1..N : Alike(num[n], html[n])
  BY NumberedTokens
<1>2. \A n \in 1..N : f[n] = ScanToken(f[n - 1], num[n])
  BY DEF Traces
<1>3. \A n \in 0..N : IsScan(f[n])
  BY ScanIsWithin DEF Scans
<1>4. html[i].kind = "start" /\ tag \in Dropped /\ ~IsVoid(html[i]) /\ tag # NoTag
  BY SanitiserConfig DEF Removals, SanitiserConfig
<1> DEFINE G == {n \in Nat : i + n <= k - 1 => Within(html, f[i + n], i, i + n)}
<1>5. 0 \in G
  <2> PICK s, t, next : s = f[i - 1] /\ t = num[i] /\ next = f[i]
    OBVIOUS
  <2>1. /\ IsScan(s) /\ next = ScanToken(s, t) /\ Alike(t, html[i]) /\ s.dropTag = NoTag
        /\ i - 1 \in 0..N
    BY <1>0, <1>1, <1>2, <1>3
  <2>2. ~IsVoid(t) /\ t.kind = "start" /\ t.tag = tag /\ t.kind \in Kinds
    BY <1>4, <2>1 DEF IsVoid, Alike, IsText, Kinds
  <2>3. Stepped(s, t, next)
    BY ONLY <2>1, <2>2, StepIs
  <2>4. next.dropTag = tag /\ next.dropDepth = 1
    BY <1>4, <2>1, <2>2, <2>3 DEF Stepped
  <2>5. Depth(html, i, i) = 1
    <3>1. Opens(html[i], html[i].tag)
      BY <1>4 DEF Opens, IsVoid
    <3> QED
      BY <1>0, <3>1, DepthBegins
  <2>6. \A j \in i..i : j = i
    BY <1>0
  <2>7. Within(html, next, i, i)
    BY <2>4, <2>5, <2>6 DEF Within
  <2>8. i + 0 = i
    BY <1>0
  <2> QED
    BY <2>7, <2>8
<1>6. ASSUME NEW n \in Nat, n \in G PROVE n + 1 \in G
  <2>1. CASE i + (n + 1) <= k - 1
    <3> PICK m, s, t, u, next : /\ m = i + n /\ s = f[m] /\ t = num[m + 1] /\ u = html[m + 1]
                                /\ next = f[m + 1]
      OBVIOUS
    <3>1. /\ m \in Nat /\ i \in Nat /\ i <= m /\ m + 1 \in 1..N /\ m \in 0..N
          /\ m + 1 \in i..k /\ m + 1 = i + (n + 1) /\ (m + 1) - 1 = m /\ i + n <= k - 1
      BY <1>0, <2>1
    <3>2. Within(html, s, i, m)
      BY <1>6, <3>1
    <3>3. /\ IsScan(s) /\ u = html[m + 1] /\ IsPiece(u) /\ Alike(t, u)
          /\ next = ScanToken(s, t)
      BY <1>0, <1>1, <1>2, <1>3, <3>1
    <3>4. s.dropTag # NoTag
      BY <1>4, <3>2 DEF Within
    <3>5. Depth(html, i, m + 1) > 0
      BY <1>0, <3>1
    <3>6. Within(html, next, i, m + 1)
      BY ONLY <3>1, <3>2, <3>3, <3>4, <3>5, WithinGoesOn
    <3> QED
      BY <3>1, <3>6
  <2>2. CASE ~(i + (n + 1) <= k - 1)
    BY <2>2
  <2> QED
    BY <2>1, <2>2
<1> HIDE DEF G
<1>7. Nat \subseteq G
  BY <1>5, <1>6, SetInduction
<1>8. (k - 1) - i \in Nat /\ i + ((k - 1) - i) = k - 1
  BY <1>0
<1>9. Within(html, f[k - 1], i, k - 1)
  BY <1>0, <1>7, <1>8 DEF G
<1> QED
  BY <1>4, <1>9 DEF Within

\* A text is emitted when nothing is left out as it comes.
LEMMA TextPlaces ==
  ASSUME NEW T, NEW html \in Seq(T), \A t \in T : IsPiece(t),
         NEW N, N = Len(html), NEW f, Traces(f, html, N),
         NEW i \in TextsOf(html), NEW x, x = Numbered(html)[i]
  PROVE  x \in ToSet(f[N].out) <=> f[i - 1].dropTag = NoTag
<1> PICK num, W : num = Numbered(html) /\ W = ToSet(num)
  OBVIOUS
<1>0. N \in Nat /\ DOMAIN html = 1..N /\ i \in 1..N /\ IsText(html[i]) /\ x = num[i]
  BY DEF TextsOf
<1>1. /\ num \in Seq(W) /\ Len(num) = N
      /\ \A n \in 1..N : Alike(num[n], html[n])
      /\ \A t \in W : Shaped(t)
      /\ \A n, m \in 1..N : IsText(num[n]) /\ num[n] = num[m] => n = m
  BY NumberedTokens
<1>2. f[0] = Scanning /\ \A n \in 1..N : f[n] = ScanToken(f[n - 1], num[n])
  BY DEF Traces
<1>3. \A n \in 0..N : Scans(W, f[n])
  BY ScanIsWithin
<1>4. IsText(x)
  BY <1>0, <1>1 DEF Alike, IsText
<1> DEFINE G == {n \in 0..N : x \in ToSet(f[n].out) <=> i <= n /\ f[i - 1].dropTag = NoTag}
<1>5. 0 \in G
  <2>1. f[0].out = <<>>
    BY <1>2 DEF Scanning
  <2>2. x \notin ToSet(<<>>)
    BY DEF ToSet
  <2> QED
    BY <1>0, <2>1, <2>2
<1>6. ASSUME NEW n \in 1..N, n - 1 \in G PROVE n \in G
  <2> PICK s, t, next : s = f[n - 1] /\ t = num[n] /\ next = f[n]
    OBVIOUS
  <2>1. /\ Scans(W, s) /\ t \in W /\ next = ScanToken(s, t) /\ n \in 0..N /\ n - 1 \in 0..N
    BY <1>0, <1>1, <1>2, <1>3
  <2>2. Emits(s, t, next, x)
    <3>1. \A z \in W : Shaped(z)
      BY <1>1
    <3>2. Scans(W, s) /\ t \in W /\ next = ScanToken(s, t)
      BY <2>1
    <3> QED
      BY ONLY <1>4, <3>1, <3>2, StepKeepsTexts
  <2>3. x \in ToSet(s.out) <=> i <= n - 1 /\ f[i - 1].dropTag = NoTag
    BY <1>6
  <2>4. t = x <=> n = i
    BY <1>0, <1>1, <1>4
  <2>5. CASE n = i
    <3>1. ~(i <= n - 1) /\ i <= n /\ s = f[i - 1]
      BY <1>0, <2>5
    <3>2. x \in ToSet(next.out) <=> i <= n /\ f[i - 1].dropTag = NoTag
      BY <2>2, <2>3, <2>4, <2>5, <3>1 DEF Emits
    <3> QED
      BY <2>1, <3>2
  <2>6. CASE n # i
    <3>1. i <= n - 1 <=> i <= n
      BY <1>0, <2>6
    <3>2. x \in ToSet(next.out) <=> i <= n /\ f[i - 1].dropTag = NoTag
      BY <2>2, <2>3, <2>4, <2>6, <3>1 DEF Emits
    <3> QED
      BY <2>1, <3>2
  <2> QED
    BY <2>5, <2>6
<1> HIDE DEF G
<1>7. 0..N \subseteq G
  BY <1>0, <1>5, <1>6, BoundedInduction
<1> QED
  BY <1>0, <1>7 DEF G

EmittedTexts(html, out) == {i \in TextsOf(html) : Numbered(html)[i] \in ToSet(out)}

\* Which texts are among what is emitted.
TextsPlaced(html, out, kept) ==
  /\ TextsOf(html) \ InsideOf(html, Removals(html)) \subseteq kept
  /\ kept \cap InsideOf(html, Outermost(html)) = {}
  /\ \A x \in ToSet(out) : IsText(x) => x \in ToSet(Numbered(html))

LEMMA TextsAreKept ==
  ASSUME NEW T, NEW html \in Seq(T), \A t \in T : IsPiece(t),
         NEW end, end = Scan(Numbered(html)), NEW out, out = end.out \o Closers(end.stack),
         NEW kept, kept = EmittedTexts(html, out)
  PROVE  TextsPlaced(html, out, kept)
<1> PICK num, W, N, loop : num = Numbered(html) /\ W = ToSet(num) /\ N = Len(html) /\ loop = "scan"
  OBVIOUS
<1>0. /\ N \in Nat /\ DOMAIN html = 1..N /\ loop \in Loops
      /\ \A n \in 1..N : html[n] \in T /\ IsPiece(html[n])
  BY DEF Loops
<1>1. /\ num \in Seq(W) /\ Len(num) = N
      /\ \A n \in 1..N : Alike(num[n], html[n])
  BY NumberedTokens
<1>2. PICK f : Runs(loop, f, num) /\ f[N] = Outcome(loop, num)
  BY <1>0, <1>1, RunEnds
<1>3. Traces(f, html, N) /\ f[N] = Scan(num)
  BY <1>1, <1>2 DEF Runs, Outcome, Begin, Apply, Traces
<1>h. html \in Seq(T) /\ (\A t \in T : IsPiece(t)) /\ N = Len(html)
  OBVIOUS
<1>4. \A n \in 0..N :
        /\ Scans(ToSet(Numbered(html)), f[n])
        /\ f[n].dropTag = NoTag
             \/ \E i \in 1..n : i \in Removals(html) /\ Within(html, f[n], i, n)
  BY ONLY <1>3, <1>h, ScanIsWithin
<1> PICK o, C : o = f[N].out /\ C = Closers(f[N].stack)
  OBVIOUS
<1>5. out = o \o C
  BY <1>3
<1>6. ASSUME NEW i \in TextsOf(html) PROVE i \in kept <=> f[i - 1].dropTag = NoTag
  <2> PICK x : x = Numbered(html)[i]
    OBVIOUS
  <2>0. i \in 1..N /\ IsText(html[i]) /\ x = num[i]
    BY <1>0 DEF TextsOf
  <2>1. IsText(x)
    BY <1>1, <2>0 DEF Alike, IsText
  <2>2. f[N].out \in Seq(Made(W)) /\ f[N].stack \in Seq(Entries(W))
    BY <1>0, <1>4 DEF Scans
  <2>3. C \in Seq(Made(W)) /\ x \notin ToSet(C)
    BY <2>1, <2>2, ClosersHaveNoText
  <2>4. ToSet(out) = ToSet(o) \cup ToSet(C)
    BY <1>5, <2>2, <2>3, ConcatSet
  <2>5. i \in TextsOf(html) /\ x = Numbered(html)[i]
    OBVIOUS
  <2>6. x \in ToSet(f[N].out) <=> f[i - 1].dropTag = NoTag
    BY ONLY <1>3, <1>h, <2>5, TextPlaces
  <2>7. i \in kept <=> x \in ToSet(out)
    BY DEF EmittedTexts
  <2> QED
    BY <2>3, <2>4, <2>6, <2>7
<1>7. ASSUME NEW i \in TextsOf(html), i \notin kept
      PROVE  i \in InsideOf(html, Removals(html))
  <2> PICK n, u : n = i - 1 /\ u = html[i]
    OBVIOUS
  <2>0. i \in 1..N /\ IsText(u) /\ n \in 0..N /\ n \in Nat /\ n + 1 = i
    BY <1>0 DEF TextsOf
  <2>1. f[n].dropTag # NoTag
    BY <1>6, <1>7
  <2>2. PICK j \in 1..n : j \in Removals(html) /\ Within(html, f[n], j, n)
    BY <1>4, <2>0, <2>1
  <2> PICK tag : tag = html[j].tag
    OBVIOUS
  <2>3. j \in Nat /\ j <= n + 1 /\ u = html[n + 1] /\ tag = html[j].tag
    BY <2>0
  <2>4. ~Opens(u, tag) /\ u # End(tag)
    BY <2>0 DEF Opens, End, IsText
  <2>5. Depth(html, j, n + 1) = Depth(html, j, n)
    BY ONLY <2>0, <2>3, <2>4, DepthMore
  <2>6. \A k \in j..n : Depth(html, j, k) > 0
    BY <2>2 DEF Within
  <2>7. Depth(html, j, n) > 0
    BY <2>0, <2>3, <2>6
  <2>8. ASSUME NEW k \in j..i PROVE Depth(html, j, k) > 0
    <3>1. k \in j..n \/ k = n + 1
      BY <2>0, <2>3
    <3> QED
      BY <2>5, <2>6, <2>7, <3>1
  <2>9. i \in Inside(html, j)
    BY <2>0, <2>3, <2>8 DEF Inside
  <2> QED
    BY <2>2, <2>9 DEF InsideOf
<1>8. ASSUME NEW i \in Outermost(html) PROVE f[i - 1].dropTag = NoTag
  <2> PICK n, u : n = i - 1 /\ u = html[i]
    OBVIOUS
  <2>0. i \in 1..N /\ u.kind = "start" /\ ~IsVoid(u) /\ n \in 0..N /\ n \in Nat /\ n + 1 = i
    BY <1>0 DEF Outermost, Removals
  <2> SUFFICES ASSUME f[n].dropTag # NoTag PROVE FALSE
    OBVIOUS
  <2>2. PICK j \in 1..n : j \in Removals(html) /\ Within(html, f[n], j, n)
    BY <1>4, <2>0
  <2> PICK tag : tag = html[j].tag
    OBVIOUS
  <2>3. j \in Nat /\ j <= n + 1 /\ u = html[n + 1] /\ tag = html[j].tag
    BY <2>0
  <2>4. u # End(tag)
    BY <2>0 DEF End
  <2>5. /\ Depth(html, j, n) \in Int
        /\ Opens(u, tag) => Depth(html, j, n + 1) = Depth(html, j, n) + 1
        /\ ~Opens(u, tag) /\ u # End(tag) => Depth(html, j, n + 1) = Depth(html, j, n)
    BY ONLY <2>0, <2>3, DepthMore
  <2>6. \A k \in j..n : Depth(html, j, k) > 0
    BY <2>2 DEF Within
  <2>7. Depth(html, j, n) > 0
    BY <2>0, <2>3, <2>6
  <2>8. Depth(html, j, n + 1) > 0
    BY <2>4, <2>5, <2>7
  <2>9. ASSUME NEW k \in j..i PROVE Depth(html, j, k) > 0
    <3>1. k \in j..n \/ k = n + 1
      BY <2>0, <2>3
    <3> QED
      BY <2>6, <2>8, <3>1
  <2>10. i \in Inside(html, j)
    BY <2>0, <2>3, <2>9 DEF Inside
  <2> QED
    BY <2>2, <2>10 DEF Outermost, InsideOf
<1>9. ASSUME NEW i \in Outermost(html), NEW k \in Inside(html, i), k \in kept PROVE FALSE
  <2>1. i \in Removals(html) /\ f[i - 1].dropTag = NoTag /\ k \in Inside(html, i)
    BY <1>8 DEF Outermost
  <2>2. f[k - 1].dropTag # NoTag
    BY ONLY <1>3, <1>h, <2>1, StaysWithin
  <2>3. k \in TextsOf(html)
    BY <1>9 DEF EmittedTexts
  <2> QED
    BY <1>6, <1>9, <2>2, <2>3
<1>10. TextsOf(html) \ InsideOf(html, Removals(html)) \subseteq kept
  BY <1>7
<1>11. kept \cap InsideOf(html, Outermost(html)) = {}
  BY <1>9 DEF InsideOf
<1>12. ASSUME NEW x \in ToSet(out), IsText(x) PROVE x \in ToSet(num)
  <2>1. f[N].out \in Seq(Made(W)) /\ f[N].stack \in Seq(Entries(W))
    BY <1>0, <1>4 DEF Scans
  <2>2. C \in Seq(Made(W)) /\ x \notin ToSet(C)
    BY <1>12, <2>1, ClosersHaveNoText
  <2>3. x \in ToSet(o)
    BY <1>5, <1>12, <2>1, <2>2, ConcatSet
  <2>4. x \in Made(W)
    BY <2>1, <2>3 DEF ToSet
  <2>5. CASE x \in {RenderStartTag(t.tag, t.attrs) : t \in {u \in W : u.kind = "start" /\ u.tag \in Allowed}}
    BY <1>12, <2>5, RenderAgain DEF IsText
  <2>6. CASE x \in {End(y) : y \in Allowed}
    BY <1>12, <2>6 DEF IsText, End
  <2> QED
    BY <2>4, <2>5, <2>6 DEF Made
<1> QED
  BY <1>10, <1>11, <1>12 DEF TextsPlaced

\* A text is kept if it stands outside every removed and every raw-text
\* element, and only if it stands outside the outermost removed and every
\* raw-text element.
LEMMA TextIsKept ==
  ASSUME NEW body, IsMarkup(body), NEW html, html = Tokenize(body), NEW kept, kept = TextsKept(body)
  PROVE  /\ TextsOf(body) \ (InsideOf(html, Removals(html)) \cup RawContents(body))
              \subseteq kept
         /\ kept \cap (InsideOf(html, Outermost(html)) \cup RawContents(body)) = {}
<1> PICK B, T, N, own, num : /\ B = ToSet(body) /\ T = B \cup {Gap} /\ N = Len(body)
                            /\ own = Numbered(body) /\ num = Numbered(html)
  OBVIOUS
<1> PICK end, out : end = Scan(num) /\ out = end.out \o Closers(end.stack)
  OBVIOUS
<1> PICK kept0 : kept0 = EmittedTexts(html, out)
  OBVIOUS
<1>1. body \in Seq(B) /\ \A t \in B : IsToken(t)
  BY DEF IsMarkup
<1>2. /\ N \in Nat /\ DOMAIN body = 1..N /\ html \in Seq(T) /\ Len(html) = N /\ DOMAIN html = 1..N
      /\ \A k \in 1..N : html[k] = body[k] \/ html[k] = Gap
      /\ \A k \in 1..N : IsText(body[k]) => (html[k] = Gap <=> Skipped(html, body, k))
  <2>1. /\ html \in Seq(T) /\ Len(html) = Len(body)
        /\ \A k \in 1..Len(body) : html[k] = body[k] \/ html[k] = Gap
        /\ \A k \in 1..Len(body) : IsText(body[k]) => (html[k] = Gap <=> Skipped(html, body, k))
    BY <1>1, TokenizeReads
  <2> QED
    BY <1>1, <2>1
<1>3. (\A t \in B : IsPiece(t)) /\ (\A t \in T : IsPiece(t))
  BY <1>1 DEF IsPiece
<1>4. /\ TextsOf(html) \ InsideOf(html, Removals(html)) \subseteq kept0
      /\ kept0 \cap InsideOf(html, Outermost(html)) = {}
      /\ \A x \in ToSet(out) : IsText(x) => x \in ToSet(num)
  <2>1. end = Scan(Numbered(html)) /\ out = end.out \o Closers(end.stack) /\ num = Numbered(html)
        /\ kept0 = EmittedTexts(html, out)
    OBVIOUS
  <2>2. TextsPlaced(html, out, kept0)
    BY ONLY <1>2, <1>3, <2>1, TextsAreKept
  <2> QED
    BY <2>1, <2>2 DEF TextsPlaced
<1>5. out = Pieces(own)
  <2>1. Tokenize(own) = num
    BY <1>1, TokenizeNumbered
  <2> QED
    BY <2>1 DEF Pieces, Scan
<1>6. kept = {i \in TextsOf(body) : own[i] \in ToSet(out)}
  BY <1>5 DEF TextsKept, ToSet
<1>7. \A k \in 1..N : IsText(body[k]) => (html[k] = Gap <=> k \in RawContents(body))
  BY <1>2 DEF RawContents, Skipped, Closed
<1>8. ~IsText(Gap)
  BY DEF IsText, Gap
<1>9. \A k \in 1..N : html[k] = body[k] => num[k] = own[k]
  BY <1>2 DEF Numbered
<1>10. ASSUME NEW k \in TextsOf(body), html[k] # Gap PROVE k \in TextsOf(html) /\ (k \in kept <=> k \in kept0)
  <2>1. k \in 1..N /\ IsText(body[k]) /\ html[k] = body[k]
    BY <1>2, <1>10 DEF TextsOf
  <2>2. k \in TextsOf(html)
    BY <1>2, <2>1 DEF TextsOf
  <2> QED
    BY <1>6, <1>9, <2>1, <2>2 DEF EmittedTexts
<1>11. ASSUME NEW k \in kept PROVE html[k] # Gap
  <2> SUFFICES ASSUME html[k] = Gap PROVE FALSE
    OBVIOUS
  <2>1. k \in 1..N /\ IsText(body[k]) /\ own[k] \in ToSet(out)
    BY <1>2, <1>6 DEF TextsOf
  <2>2. own[k].attrs = {k} /\ IsText(own[k])
    <3>1. Alike(own[k], body[k]) /\ (IsText(body[k]) => own[k].attrs = {k})
      BY <1>1, <1>3, <2>1, NumberedTokens
    <3> QED
      BY <2>1, <3>1 DEF Alike, IsText
  <2>3. own[k] \in ToSet(num)
    BY <1>4, <2>1, <2>2
  <2>4. /\ num \in Seq(ToSet(num)) /\ Len(num) = N
        /\ \A i \in 1..N : Alike(num[i], html[i]) /\ (IsText(html[i]) => num[i].attrs = {i})
    <3>1. html \in Seq(T) /\ (\A t \in T : IsPiece(t)) /\ num = Numbered(html) /\ Len(html) = N
      BY <1>2, <1>3
    <3>2. /\ num \in Seq(ToSet(num)) /\ Len(num) = Len(html)
          /\ \A i \in 1..Len(html) : Alike(num[i], html[i]) /\ Shaped(num[i])
          /\ \A i \in 1..Len(html) : /\ IsText(html[i]) => num[i].attrs = {i}
                                     /\ ~IsText(html[i]) => num[i] = html[i]
      BY ONLY <3>1, NumberedTokens
    <3> QED
      BY <3>1, <3>2
  <2>5. PICK j \in 1..N : num[j] = own[k]
    BY <1>2, <2>3, <2>4 DEF ToSet
  <2>6. IsText(html[j])
    BY <2>2, <2>4, <2>5 DEF Alike, IsText
  <2>7. {j} = {k}
    BY <2>2, <2>4, <2>5, <2>6
  <2>8. j = k
    BY <2>7
  <2> QED
    BY <1>8, <2>6, <2>8
<1>12. ASSUME NEW k \in TextsOf(body), k \notin RawContents(body),
              k \notin InsideOf(html, Removals(html))
       PROVE  k \in kept
  <2>1. k \in 1..N /\ IsText(body[k])
    BY <1>2 DEF TextsOf
  <2>2. html[k] # Gap
    BY <1>7, <1>12, <2>1
  <2> QED
    BY <1>4, <1>10, <1>12, <2>2
<1>13. ASSUME NEW k \in kept
       PROVE  k \notin RawContents(body) /\ k \notin InsideOf(html, Outermost(html))
  <2>1. k \in 1..N /\ IsText(body[k]) /\ k \in TextsOf(body)
    BY <1>2, <1>6 DEF TextsOf
  <2>2. html[k] # Gap
    BY <1>11
  <2>3. k \in kept0
    BY <1>10, <2>1, <2>2
  <2> QED
    BY <1>4, <1>7, <2>1, <2>2, <2>3
<1>14. TextsOf(body) \ (InsideOf(html, Removals(html)) \cup RawContents(body))
         \subseteq kept
  BY <1>12
<1>15. kept \cap (InsideOf(html, Outermost(html)) \cup RawContents(body)) = {}
  BY <1>13
<1> QED
  BY <1>14, <1>15

===============================================================================
