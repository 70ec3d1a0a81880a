----------------------------- MODULE ListTheorems ------------------------------
(***************************************************************************)
(* Lemmas on induction and on what loops over lists compute, for lists of  *)
(* any length.  The library states induction with an operator as a         *)
(* parameter; here it is stated with a set, which a proof can instantiate. *)
(***************************************************************************)
EXTENDS Lists, FiniteSetTheorems, SequenceTheorems, WellFoundedInduction, TLAPS

LEMMA SetInduction ==
  ASSUME NEW T, 0 \in T, \A n \in Nat : n \in T => n + 1 \in T
  PROVE  Nat \subseteq T
<1> SUFFICES ASSUME Nat \ T # {} PROVE FALSE
  OBVIOUS
<1>1. PICK R : R = OpToRel(<, Nat)
  OBVIOUS
<1>2. PICK n \in Nat \ T : \A m \in Nat \ T : <<m, n>> \notin R
  BY <1>1, WFMin, NatLessThanWellFounded, Zenon
<1>3. \A m \in Nat : m < n => <<m, n>> \in R
  BY <1>1 DEF OpToRel
<1>4. n # 0 /\ n - 1 \in Nat /\ n - 1 < n /\ (n - 1) + 1 = n
  BY <1>2
<1>5. n - 1 \in T
  BY <1>2, <1>3, <1>4
<1> QED
  BY <1>2, <1>4, <1>5

\* The same up to a bound.
LEMMA BoundedInduction ==
  ASSUME NEW N \in Nat, NEW T, 0 \in T, \A n \in 1..N : n - 1 \in T => n \in T
  PROVE  0..N \subseteq T
<1> DEFINE U == {n \in Nat : n <= N => n \in T}
<1>1. 0 \in U
  OBVIOUS
<1>2. ASSUME NEW n \in Nat, n \in U PROVE n + 1 \in U
  <2>1. CASE n + 1 <= N
    <3>1. n + 1 \in 1..N /\ n \in T /\ (n + 1) - 1 = n
      BY <1>2, <2>1
    <3> QED
      BY <3>1
  <2>2. CASE ~(n + 1 <= N)
    BY <2>2
  <2> QED
    BY <2>1, <2>2
<1> HIDE DEF U
<1>3. Nat \subseteq U
  BY <1>1, <1>2, SetInduction
<1> QED
  BY <1>3 DEF U

\* A set of numbers with a bound has a greatest one.
LEMMA GreatestIsIn ==
  ASSUME NEW n \in Nat, NEW s \in SUBSET (1..n), s # {}
  PROVE  Max(s) \in s /\ \A y \in s : Max(s) >= y
<1> DEFINE Topped(m) == \A t \in SUBSET (1..m) : t # {} => \E x \in t : \A y \in t : x >= y
           T == {m \in Nat : Topped(m)}
<1>1. 0 \in T
  <2>1. 1..0 = {}
    OBVIOUS
  <2>2. Topped(0)
    BY <2>1
  <2> HIDE DEF Topped
  <2> QED
    BY <2>2
<1>2. ASSUME NEW m \in Nat, m \in T PROVE m + 1 \in T
  <2>1. ASSUME NEW t \in SUBSET (1..(m + 1)), t # {}
        PROVE  \E x \in t : \A y \in t : x >= y
    <3>1. CASE m + 1 \in t
      BY <3>1
    <3>2. CASE m + 1 \notin t
      <4>1. t \in SUBSET (1..m)
        BY <3>2
      <4> QED
        BY <1>2, <2>1, <4>1
    <3> QED
      BY <3>1, <3>2
  <2> QED
    BY <2>1
<1> HIDE DEF T
<1>3. n \in T
  BY <1>1, <1>2, SetInduction
<1>4. \E x \in s : \A y \in s : x >= y
  BY <1>3 DEF T
<1> QED
  BY <1>4 DEF Max

-----------------------------------------------------------------------------
(* Loops *)

\* What `step` makes of every part of a list.
Folded(iter, A, base, step, list) ==
  /\ iter \in [SUBSET (1..Len(list)) -> A]
  /\ \A s \in SUBSET (1..Len(list)) :
       iter[s] = IF s = {} THEN base ELSE step[<<iter[s \ {Max(s)}], list[Max(s)]>>]

\* Every loop over a list computes something: the function behind FoldLeft
\* exists for every step that stays within a set of results.
LEMMA FoldExists ==
  ASSUME NEW A, NEW S, NEW base \in A, NEW step \in [A \X S -> A], NEW list \in Seq(S)
  PROVE  \E iter : Folded(iter, A, base, step, list)
<1> PICK I : I = 1..Len(list)
  OBVIOUS
<1> DEFINE D == SUBSET I
           Stepped(g, s) == IF s = {} THEN base ELSE step[<<g[s \ {Max(s)}], list[Max(s)]>>]
           UpTo(n) == {s \in D : Cardinality(s) <= n}
           Reaches(n) == \E g \in [D -> A] : \A s \in UpTo(n) : g[s] = Stepped(g, s)
           N == {n \in Nat : Reaches(n)}
<1>0. /\ Len(list) \in Nat /\ IsFiniteSet(I) /\ Cardinality(I) = Len(list)
      /\ \A i \in I : list[i] \in S
  <2>1. Len(list) \in Nat /\ \A i \in I : list[i] \in S
    OBVIOUS
  <2>2. IsFiniteSet(1..Len(list)) /\ Cardinality(1..Len(list)) =
          IF 1 > Len(list) THEN 0 ELSE Len(list) - 1 + 1
    BY <2>1, FS_Interval
  <2> QED
    BY <2>1, <2>2
<1>1. \A s \in D : IsFiniteSet(s) /\ Cardinality(s) \in Nat
  BY <1>0, FS_Subset, FS_CardinalityType
<1>2. \A s \in D : s # {} =>
        /\ Max(s) \in s /\ s \ {Max(s)} \in D
        /\ Cardinality(s \ {Max(s)}) = Cardinality(s) - 1
  BY <1>0, <1>1, GreatestIsIn, FS_RemoveElement
<1>3. \A g \in [D -> A] : \A s \in D : Stepped(g, s) \in A
  BY <1>0, <1>2
<1>4. 0 \in N
  <2> DEFINE g == [s \in D |-> base]
  <2>1. \A s \in UpTo(0) : s = {} /\ g[s] = base
    BY <1>1, FS_EmptySet
  <2>2. g \in [D -> A]
    OBVIOUS
  <2> QED
    BY <2>1, <2>2
<1>5. ASSUME NEW n \in Nat, n \in N
      PROVE  n + 1 \in N
  <2>1. PICK g \in [D -> A] : \A s \in UpTo(n) : g[s] = Stepped(g, s)
    BY <1>5
  <2> DEFINE more == [s \in D |-> IF s \in UpTo(n) THEN g[s] ELSE Stepped(g, s)]
  <2>2. ASSUME NEW s \in UpTo(n + 1)
        PROVE  more[s] = Stepped(more, s)
    <3>1. more[s] = Stepped(g, s)
      BY <2>1
    <3>2. ASSUME s # {} PROVE s \ {Max(s)} \in UpTo(n)
      <4>1. s \in D /\ Cardinality(s) \in Nat /\ Cardinality(s) <= n + 1
        BY <1>1
      <4>2. s \ {Max(s)} \in D /\ Cardinality(s \ {Max(s)}) = Cardinality(s) - 1
        BY <1>2, <3>2, <4>1
      <4>3. Cardinality(s \ {Max(s)}) <= n
        BY <4>1, <4>2
      <4> QED
        BY <4>2, <4>3
    <3>3. Stepped(more, s) = Stepped(g, s)
      BY <3>2
    <3> QED
      BY <3>1, <3>3
  <2>4. more \in [D -> A]
    BY <1>3
  <2> HIDE DEF more
  <2>5. Reaches(n + 1)
    BY <2>2, <2>4, Zenon
  <2> HIDE DEF Reaches
  <2> QED
    BY <2>5
<1> HIDE DEF N
<1>6. Nat \subseteq N
  BY <1>4, <1>5, SetInduction
<1>7. PICK g \in [D -> A] : \A s \in UpTo(Len(list)) : g[s] = Stepped(g, s)
  BY <1>0, <1>6 DEF N
<1>8. \A s \in D : s \in UpTo(Len(list))
  <2> SUFFICES ASSUME NEW s \in D PROVE Cardinality(s) <= Len(list)
    OBVIOUS
  <2>1. Cardinality(s) <= Cardinality(I)
    BY <1>0, FS_Subset
  <2> QED
    BY <1>0, <2>1
<1> QED
  BY <1>7, <1>8 DEF Folded

LEMMA FrontOfRange ==
  ASSUME NEW n \in Nat, n # 0
  PROVE  /\ 1..n # {}
         /\ Max(1..n) = n
         /\ (1..n) \ {n} = 1..(n - 1)
<1>1. 1..n # {} /\ (1..n) \in SUBSET (1..n)
  <2>1. n \in 1..n
    OBVIOUS
  <2> QED
    BY <2>1
<1>2. Max(1..n) \in 1..n /\ \A y \in 1..n : Max(1..n) >= y
  BY <1>1, GreatestIsIn
<1>3. Max(1..n) = n
  BY <1>2
<1> QED
  BY <1>1, <1>3

\* What Keep holds after each element.
KeepsAlong(path, S, list, T) ==
  /\ path \in [0..Len(list) -> Seq(S)]
  /\ path[0] = <<>>
  /\ \A n \in 1..Len(list) :
       path[n] = IF list[n] \in T THEN Append(path[n - 1], list[n]) ELSE path[n - 1]
  /\ path[Len(list)] = Keep(list, T)

LEMMA KeepPath ==
  ASSUME NEW S, NEW list \in Seq(S), NEW T
  PROVE  \E path : KeepsAlong(path, S, list, T)
<1> PICK N : N = Len(list)
  OBVIOUS
<1> DEFINE step == [p \in Seq(S) \X S |-> IF p[2] \in T THEN Append(p[1], p[2]) ELSE p[1]]
           Body(g) == [s \in SUBSET DOMAIN list |->
                         IF s = {} THEN <<>>
                         ELSE LET x == Max(s)
                              IN  IF list[x] \in T THEN Append(g[s \ {x}], list[x])
                                  ELSE g[s \ {x}]]
           iter == CHOOSE g : g = Body(g)
           path == [n \in 0..N |-> iter[1..n]]
           Typed == {n \in 0..N : iter[1..n] \in Seq(S)}
<1>0. <<>> \in Seq(S) /\ DOMAIN list = 1..N /\ N \in Nat /\ \A i \in 1..N : list[i] \in S
  OBVIOUS
<1>1. step \in [Seq(S) \X S -> Seq(S)] /\
      \A a \in Seq(S), x \in S : step[<<a, x>>] = IF x \in T THEN Append(a, x) ELSE a
  OBVIOUS
<1> HIDE DEF step
<1>2. ASSUME NEW s \in SUBSET (1..N), s # {}
      PROVE  Max(s) \in 1..N /\ list[Max(s)] \in S
  <2>1. Max(s) \in s
    BY <1>0, <1>2, GreatestIsIn
  <2> QED
    BY <1>0, <2>1
<1>3. \E g : g = Body(g)
  <2>a. PICK A : A = Seq(S)
    OBVIOUS
  <2>b. PICK none : none = <<>>
    OBVIOUS
  <2>c. PICK st : st = step
    OBVIOUS
  <2>0. none \in A /\ st \in [A \X S -> A] /\ list \in Seq(S)
    BY <1>0, <1>1, <2>a, <2>b, <2>c
  <2>1. PICK g : Folded(g, A, none, st, list)
    BY <2>0, FoldExists
  <2>2. \A s \in SUBSET (1..N) : s # {} =>
          /\ g[s \ {Max(s)}] \in Seq(S)
          /\ g[s] = IF list[Max(s)] \in T THEN Append(g[s \ {Max(s)}], list[Max(s)])
                    ELSE g[s \ {Max(s)}]
    BY <1>1, <1>2, <2>1, <2>a, <2>b, <2>c DEF Folded
  <2>3. g = [s \in SUBSET (1..N) |-> g[s]] /\ g[{}] = <<>>
    BY <2>1, <2>b DEF Folded
  <2>4. g = Body(g)
    BY <1>0, <2>2, <2>3
  <2> QED
    BY <2>4
<1>4. iter = Body(iter)
  BY <1>3, Zenon
<1>5. Keep(list, T) = iter[DOMAIN list]
  BY DEF Keep, FoldLeft, MapThenFoldSet
<1> HIDE DEF iter
<1>6. iter[1..0] = <<>>
  <2>1. 1..0 = {} /\ {} \in SUBSET DOMAIN list
    OBVIOUS
  <2> QED
    BY <1>4, <2>1
<1>7. ASSUME NEW n \in 1..N
      PROVE  iter[1..n] = IF list[n] \in T THEN Append(iter[1..(n - 1)], list[n])
                          ELSE iter[1..(n - 1)]
  <2>1. 1..n \in SUBSET DOMAIN list /\ 1..n # {} /\ Max(1..n) = n /\ (1..n) \ {n} = 1..(n - 1)
    <3>1. n \in Nat /\ n # 0 /\ n <= N
      BY <1>0
    <3>2. 1..n \subseteq 1..N
      BY <1>0, <3>1
    <3>3. 1..n # {} /\ Max(1..n) = n /\ (1..n) \ {n} = 1..(n - 1)
      BY <3>1, FrontOfRange
    <3> QED
      BY <1>0, <3>2, <3>3
  <2>2. iter[1..n] = IF list[Max(1..n)] \in T
                     THEN Append(iter[(1..n) \ {Max(1..n)}], list[Max(1..n)])
                     ELSE iter[(1..n) \ {Max(1..n)}]
    BY <1>4, <2>1, Zenon
  <2> QED
    BY <2>1, <2>2
<1>8. path \in [0..N -> Seq(S)]
  <2>1. 0 \in Typed
    <3>1. 0 \in 0..N /\ iter[1..0] \in Seq(S)
      BY <1>0, <1>6
    <3> QED
      BY <3>1
  <2>2. ASSUME NEW n \in 1..N, n - 1 \in Typed PROVE n \in Typed
    <3>1. iter[1..(n - 1)] \in Seq(S)
      BY <2>2
    <3>2. list[n] \in S /\ n \in 0..N
      BY <1>0
    <3>3. \A a \in Seq(S), x \in S : Append(a, x) \in Seq(S)
      OBVIOUS
    <3>4. iter[1..n] \in Seq(S)
      BY <1>7, <3>1, <3>2, <3>3, Zenon
    <3> QED
      BY <3>2, <3>4
  <2> HIDE DEF Typed
  <2>3. 0..N \subseteq Typed
    BY <1>0, <2>1, <2>2, BoundedInduction
  <2> QED
    BY <2>3 DEF Typed
<1>9. /\ path[0] = <<>>
      /\ \A n \in 1..N : path[n] = IF list[n] \in T THEN Append(path[n - 1], list[n])
                                   ELSE path[n - 1]
      /\ path[N] = Keep(list, T)
  <2>1. path[0] = <<>>
    BY <1>0, <1>6
  <2>2. path[N] = Keep(list, T)
    BY <1>0, <1>5
  <2>3. ASSUME NEW n \in 1..N
        PROVE  path[n] = IF list[n] \in T THEN Append(path[n - 1], list[n]) ELSE path[n - 1]
    <3>1. n \in 0..N /\ n - 1 \in 0..N
      BY <1>0
    <3>2. path[n] = iter[1..n] /\ path[n - 1] = iter[1..(n - 1)]
      BY <3>1
    <3> QED
      BY <1>7, <3>2
  <2> QED
    BY <2>1, <2>2, <2>3
<1> HIDE DEF path
<1> QED
  BY <1>8, <1>9 DEF KeepsAlong

LEMMA AppendedSet ==
  ASSUME NEW S, NEW list \in Seq(S), NEW x \in S
  PROVE  /\ Append(list, x) \in Seq(S)
         /\ ToSet(Append(list, x)) = ToSet(list) \cup {x}
         /\ Distinct(list) /\ x \notin ToSet(list) => Distinct(Append(list, x))
<1>1. /\ Append(list, x) \in Seq(S)
      /\ DOMAIN Append(list, x) = 1..(Len(list) + 1) /\ DOMAIN list = 1..Len(list)
      /\ Len(list) \in Nat
      /\ \A i \in 1..(Len(list) + 1) :
           Append(list, x)[i] = IF i = Len(list) + 1 THEN x ELSE list[i]
  OBVIOUS
<1>2. ToSet(Append(list, x)) = ToSet(list) \cup {x}
  <2>1. ASSUME NEW i \in 1..(Len(list) + 1) PROVE Append(list, x)[i] \in ToSet(list) \cup {x}
    <3>1. i = Len(list) + 1 \/ i \in 1..Len(list)
      BY <1>1
    <3> QED
      BY <1>1, <3>1 DEF ToSet
  <2>2. ASSUME NEW i \in 1..Len(list) PROVE list[i] \in ToSet(Append(list, x))
    <3>1. i \in 1..(Len(list) + 1) /\ i # Len(list) + 1
      BY <1>1
    <3>2. list[i] = Append(list, x)[i]
      BY <1>1, <3>1
    <3> QED
      BY <1>1, <3>1, <3>2 DEF ToSet
  <2>3. x \in ToSet(Append(list, x))
    <3>1. Len(list) + 1 \in 1..(Len(list) + 1)
      BY <1>1
    <3> QED
      BY <1>1, <3>1 DEF ToSet
  <2> QED
    BY <1>1, <2>1, <2>2, <2>3 DEF ToSet
<1>3. ASSUME Distinct(list), x \notin ToSet(list),
             NEW i \in 1..(Len(list) + 1), NEW j \in 1..(Len(list) + 1),
             Append(list, x)[i] = Append(list, x)[j]
      PROVE  i = j
  <2>1. \A k \in 1..Len(list) : list[k] # x
    BY <1>1, <1>3 DEF ToSet
  <2>2. (i = Len(list) + 1 \/ i \in 1..Len(list)) /\ (j = Len(list) + 1 \/ j \in 1..Len(list))
    BY <1>1
  <2>3. Append(list, x)[i] = (IF i = Len(list) + 1 THEN x ELSE list[i]) /\
        Append(list, x)[j] = (IF j = Len(list) + 1 THEN x ELSE list[j])
    BY <1>1
  <2>4. \A k, l \in 1..Len(list) : list[k] = list[l] => k = l
    BY <1>1, <1>3 DEF Distinct
  <2> QED
    BY <1>3, <2>1, <2>2, <2>3, <2>4
<1> QED
  BY <1>1, <1>2, <1>3 DEF Distinct

\* Keep keeps what is in the set, once if it was there once.
LEMMA KeepFacts ==
  ASSUME NEW S, NEW list \in Seq(S), NEW T
  PROVE  /\ Keep(list, T) \in Seq(S)
         /\ ToSet(Keep(list, T)) = ToSet(list) \cap T
         /\ Distinct(list) => Distinct(Keep(list, T))
<1> PICK N : N = Len(list)
  OBVIOUS
<1>0. N \in Nat /\ DOMAIN list = 1..N /\ \A i \in 1..N : list[i] \in S
  OBVIOUS
<1>p. PICK path : KeepsAlong(path, S, list, T)
  BY KeepPath
<1>1. /\ path \in [0..N -> Seq(S)]
      /\ path[0] = <<>>
      /\ \A n \in 1..N :
           path[n] = IF list[n] \in T THEN Append(path[n - 1], list[n]) ELSE path[n - 1]
      /\ path[N] = Keep(list, T)
  BY <1>p DEF KeepsAlong
<1> DEFINE Met(n) == {list[i] : i \in 1..n}
           Good(n) == /\ ToSet(path[n]) = Met(n) \cap T
                      /\ Distinct(list) => Distinct(path[n])
           G == {n \in 0..N : Good(n)}
<1>2. 0 \in G
  <2>1. 1..0 = {} /\ 0 \in 0..N
    BY <1>0
  <2>2. ToSet(<<>>) = {} /\ Distinct(<<>>)
    BY DEF ToSet, Distinct
  <2>3. Met(0) = {}
    BY <2>1
  <2>4. Good(0)
    BY <1>1, <2>2, <2>3
  <2> HIDE DEF Good
  <2> QED
    BY <2>1, <2>4
<1>3. ASSUME NEW n \in 1..N, n - 1 \in G PROVE n \in G
  <2>1. /\ n \in 0..N /\ n - 1 \in 0..N /\ list[n] \in S
        /\ 1..n = (1..(n - 1)) \cup {n}
        /\ Good(n - 1)
    BY <1>0, <1>3
  <2>2. path[n - 1] \in Seq(S)
    BY <1>1, <2>1
  <2>3. Met(n) = Met(n - 1) \cup {list[n]}
    <3>1. 1..n = (1..(n - 1)) \cup {n}
      BY <2>1
    <3> QED
      BY <3>1, Zenon
  <2>4. Distinct(list) => list[n] \notin Met(n - 1)
    <3> SUFFICES ASSUME Distinct(list), NEW i \in 1..(n - 1), list[i] = list[n] PROVE FALSE
      OBVIOUS
    <3>1. i \in 1..N /\ i # n
      BY <1>0, <2>1
    <3> QED
      BY <1>0, <3>1 DEF Distinct
  <2> HIDE DEF Met
  <2>5. CASE list[n] \in T
    <3>1. path[n] = Append(path[n - 1], list[n])
      BY <1>1, <2>5
    <3>2. /\ ToSet(path[n]) = ToSet(path[n - 1]) \cup {list[n]}
          /\ Distinct(path[n - 1]) /\ list[n] \notin ToSet(path[n - 1]) => Distinct(path[n])
      BY <2>1, <2>2, <3>1, AppendedSet
    <3>3. Good(n)
      BY <2>1, <2>3, <2>4, <2>5, <3>2
    <3> HIDE DEF Good
    <3> QED
      BY <2>1, <3>3
  <2>6. CASE list[n] \notin T
    <3>1. path[n] = path[n - 1]
      BY <1>1, <2>6
    <3>3. Good(n)
      BY <2>1, <2>3, <2>6, <3>1
    <3> HIDE DEF Good
    <3> QED
      BY <2>1, <3>3
  <2> QED
    BY <2>5, <2>6
<1> HIDE DEF G
<1>4. 0..N \subseteq G
  BY <1>0, <1>2, <1>3, BoundedInduction
<1>5. N \in 0..N /\ Good(N)
  BY <1>0, <1>4 DEF G
<1>6. Met(N) = ToSet(list)
  BY <1>0 DEF ToSet
<1> QED
  BY <1>1, <1>5, <1>6

\* An element more.
LEMMA KeepMore ==
  ASSUME NEW S, NEW list \in Seq(S), NEW x \in S, NEW T
  PROVE  /\ x \in T => Keep(Append(list, x), T) = Append(Keep(list, T), x)
         /\ x \notin T => Keep(Append(list, x), T) = Keep(list, T)
<1> PICK N, more : N = Len(list) /\ more = Append(list, x)
  OBVIOUS
<1>0. /\ N \in Nat /\ more \in Seq(S) /\ Len(more) = N + 1 /\ more[N + 1] = x
      /\ \A i \in 1..N : more[i] = list[i]
  OBVIOUS
<1>a. PICK f : KeepsAlong(f, S, list, T)
  BY KeepPath
<1>b. PICK g : KeepsAlong(g, S, more, T)
  BY <1>0, KeepPath
<1>1. /\ f[0] = <<>> /\ f[N] = Keep(list, T)
      /\ \A n \in 1..N : f[n] = IF list[n] \in T THEN Append(f[n - 1], list[n]) ELSE f[n - 1]
  BY <1>a DEF KeepsAlong
<1>2. /\ g[0] = <<>> /\ g[N + 1] = Keep(more, T)
      /\ \A n \in 1..(N + 1) :
           g[n] = IF more[n] \in T THEN Append(g[n - 1], more[n]) ELSE g[n - 1]
  BY <1>b, <1>0 DEF KeepsAlong
<1> DEFINE G == {n \in 0..N : g[n] = f[n]}
<1>3. 0 \in G
  BY <1>0, <1>1, <1>2
<1>4. ASSUME NEW n \in 1..N, n - 1 \in G PROVE n \in G
  <2>1. n \in 0..N /\ n \in 1..(N + 1) /\ g[n - 1] = f[n - 1] /\ more[n] = list[n]
    BY <1>0, <1>4
  <2>2. g[n] = f[n]
    BY <1>1, <1>2, <2>1
  <2> QED
    BY <2>1, <2>2
<1> HIDE DEF G
<1>5. 0..N \subseteq G
  BY <1>0, <1>3, <1>4, BoundedInduction
<1>6. g[N] = f[N] /\ (N + 1) - 1 = N /\ N + 1 \in 1..(N + 1)
  BY <1>0, <1>5 DEF G
<1>7. g[N + 1] = IF x \in T THEN Append(f[N], x) ELSE f[N]
  BY <1>0, <1>2, <1>6
<1> QED
  BY <1>1, <1>2, <1>7

LEMMA KeepOfNothing ==
  ASSUME NEW T
  PROVE  Keep(<<>>, T) = <<>>
<1> PICK S, none : S = {} /\ none = <<>>
  OBVIOUS
<1>1. none \in Seq(S) /\ Len(none) = 0
  OBVIOUS
<1>2. PICK f : KeepsAlong(f, S, none, T)
  BY <1>1, KeepPath
<1> QED
  BY <1>1, <1>2 DEF KeepsAlong

-----------------------------------------------------------------------------
(* Parts of a list *)

LEMMA SplitLast ==
  ASSUME NEW S, NEW list \in Seq(S), list # <<>>
  PROVE  \E front \in Seq(S), x \in S :
           list = Append(front, x) /\ Len(front) = Len(list) - 1
<1> PICK n, front : n = Len(list) - 1 /\ front = [i \in 1..n |-> list[i]]
  OBVIOUS
<1>1. n \in Nat /\ Len(list) = n + 1 /\ list[n + 1] \in S
  <2>1. Len(list) \in Nat /\ Len(list) # 0
    OBVIOUS
  <2> QED
    BY <2>1
<1>2. front \in Seq(S) /\ Len(front) = n /\ \A i \in 1..n : front[i] = list[i]
  BY <1>1
<1>3. PICK more : more = Append(front, list[n + 1])
  OBVIOUS
<1>4. more \in Seq(S) /\ Len(more) = Len(list) /\ \A i \in 1..Len(more) : more[i] = list[i]
  BY <1>1, <1>2, <1>3
<1>5. more = list
  BY <1>4, SeqEqual
<1> QED
  BY <1>1, <1>2, <1>3, <1>5

LEMMA SplitAt ==
  ASSUME NEW S, NEW list \in Seq(S), NEW k \in 0..Len(list)
  PROVE  /\ SubSeq(list, 1, k) \in Seq(S)
         /\ SubSeq(list, k + 1, Len(list)) \in Seq(S)
         /\ list = SubSeq(list, 1, k) \o SubSeq(list, k + 1, Len(list))
<1> PICK N, j : N = Len(list) /\ j = k + 1
  OBVIOUS
<1>0. N \in Nat /\ k \in Nat /\ k <= N /\ j \in Int /\ \A i \in 1..N : list[i] \in S
  OBVIOUS
<1>1. /\ SubSeq(list, 1, k) \in Seq(S)
      /\ Len(SubSeq(list, 1, k)) = IF 1 <= k THEN k - 1 + 1 ELSE 0
      /\ \A i \in 1..(k - 1 + 1) : SubSeq(list, 1, k)[i] = list[1 + i - 1]
  BY <1>0, SubSeqProperties
<1>2. /\ SubSeq(list, j, N) \in Seq(S)
      /\ Len(SubSeq(list, j, N)) = IF j <= N THEN N - j + 1 ELSE 0
      /\ \A i \in 1..(N - j + 1) : SubSeq(list, j, N)[i] = list[j + i - 1]
  <2>1. \A i \in j..N : list[i] \in S
    BY <1>0
  <2> QED
    BY <1>0, <2>1, SubSeqProperties
<1>3. SubSeq(list, 1, k) \o SubSeq(list, k + 1, N) = SubSeq(list, 1, N)
  <2> PICK m : m = 1
    OBVIOUS
  <2>1. m \in 1..(Len(list) + 1) /\ k \in (m - 1)..Len(list) /\ N \in k..Len(list)
    BY <1>0
  <2>2. SubSeq(list, m, k) \o SubSeq(list, k + 1, N) = SubSeq(list, m, N)
    BY <2>1, ConcatAdjacentSubSeq
  <2> QED
    BY <2>2
<1>4. SubSeq(list, 1, N) = list
  BY SubSeqFull
<1> QED
  BY <1>1, <1>2, <1>3, <1>4

LEMMA ConcatOfAppend ==
  ASSUME NEW S, NEW list \in Seq(S), NEW rest \in Seq(S), NEW x \in S
  PROVE  list \o Append(rest, x) = Append(list \o rest, x)
<1> PICK one, l : one = <<x>> /\ l = list \o rest
  OBVIOUS
<1>0. one \in Seq(S) /\ l \in Seq(S)
  OBVIOUS
<1>1. Append(rest, x) = rest \o one /\ Append(l, x) = l \o one
  BY <1>0, AppendIsConcat
<1>2. l \o one = list \o (rest \o one)
  BY <1>0, ConcatAssociative
<1> QED
  BY <1>1, <1>2

LEMMA ConcatOfPrepend ==
  ASSUME NEW S, NEW list \in Seq(S), NEW rest \in Seq(S), NEW x \in S
  PROVE  list \o (<<x>> \o rest) = Append(list, x) \o rest
<1> PICK one : one = <<x>>
  OBVIOUS
<1>0. one \in Seq(S)
  OBVIOUS
<1>1. Append(list, x) = list \o one
  BY AppendIsConcat
<1>2. (list \o one) \o rest = list \o (one \o rest)
  BY <1>0, ConcatAssociative
<1> QED
  BY <1>1, <1>2
===============================================================================
